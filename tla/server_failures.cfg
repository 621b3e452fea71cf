SPECIFICATION ServerSpec
CONSTANTS
  root = root
  ca = ca
  leaf = leaf
  p = p
  c1 = c1
  c2 = c2
  NoName = NoName
  NoPassword = NoPassword
  Names <- MCNames
  Passwords = {p}
  Configurations <- Pruned
  Revisions <- AllRevisions
  MaxFailures = 1
  Connections = {c1}
  CertificateRequests <- FewCertificateRequests
  RevocationRequests <- FewRevocationRequests
  VerifyRequests <- FewVerifyRequests
  MaxRows = 4
INVARIANTS
  RevocationPublished
