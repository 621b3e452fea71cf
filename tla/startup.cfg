SPECIFICATION FairSpec
CONSTANTS
  root = root
  ca = ca
  o1 = o1
  o2 = o2
  leaf = leaf
  p = p
  q = q
  NoName = NoName
  NoPassword = NoPassword
  Names <- MCNames
  Passwords <- MCPasswords
  Configurations <- All
  Revisions <- EditedRevisions
  MaxFailures = 1
INVARIANTS
  TypeOK
  RegistryAgrees
  IssuedByAuthority
  RegistryMatchesConfiguration
  ReloadRestoresRegistry
PROPERTIES
  ReloadAccepted
  StartupEnds
