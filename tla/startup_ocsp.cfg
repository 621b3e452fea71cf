SPECIFICATION Spec
CONSTANTS
  root = root
  ca = ca
  o1 = o1
  o2 = o2
  leaf = leaf
  p = p
  q = q
  NoName = NoName
  NoPassword = NoPassword
  Names <- MCNames
  Passwords <- MCPasswords
  Configurations <- Edited
  Revisions <- AllRevisions
  MaxFailures = 1
INVARIANTS
  OcspCoherent
