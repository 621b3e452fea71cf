SPECIFICATION ServerSpec
CONSTANTS
  root = root
  ca = ca
  leaf = leaf
  p = p
  c1 = c1
  c2 = c2
  NoName = NoName
  NoPassword = NoPassword
  Names <- MCNames
  Passwords = {p}
  Configurations <- Hierarchies
  Revisions <- NoRevisions
  MaxFailures = 0
  Connections = {c1, c2}
  CertificateRequests <- NoRequests
  RevocationRequests <- SomeRevocationRequests
  VerifyRequests <- SomeVerifyRequests
  MaxRows = 3
SYMMETRY Symmetry
INVARIANTS
  ServerTypeOK
  RevocationPublished
  ListsAreSound
  VerdictRespectsRevocation
  VerdictExplained
