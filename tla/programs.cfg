SPECIFICATION FairSpec
CONSTANTS
  Sources <- MCSources
  BsonFiles <- MCBsonFiles
  Clients = {"first", "copy"}
  Copies = {"copy"}
  Hosts = {"h1", "h2"}
  Passwords = {"", "p"}
  DatabaseNames = {"n1", "n2"}
  MaxOpenings = 2
  Configurations <- MCConfigurations
  Addresses = {"", "outside"}
  NoAddress = ""
  MaxTypes = 3
  Scalar <- MCScalar
  Zero = 0
  One = 1
  Add <- MCAdd
  Mul <- MCMul
  Neg <- MCNeg
  Inv <- MCInv
  Draws <- MCDraws
  Gammas <- MCGammas
  Attributes <- MCAttributes
  MaxShows = 2
  Hashes <- MCHashes
INVARIANTS
  ObtainExact
  PresentationOpens
  Show1Accumulates
  AcceptedByCoincidence
  ValuesAgree
  TokensRead
  LongestPunctuation
  LinesKept
  FileRead
  BytesLeft
  ExtensionOrigins
PROPERTIES
  ProgramsEnd
  ConnectsAsSet
CHECK_DEADLOCK FALSE
