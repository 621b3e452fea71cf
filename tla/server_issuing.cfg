SPECIFICATION FairServerSpec
CONSTANTS
  root = root
  ca = ca
  leaf = leaf
  p = p
  c1 = c1
  c2 = c2
  NoName = NoName
  NoPassword = NoPassword
  Names <- MCNames
  Passwords = {p}
  Configurations <- Standalone
  Revisions <- NoRevisions
  MaxFailures = 1
  Connections = {c1, c2}
  CertificateRequests <- TwoElementRequests
  RevocationRequests <- NoRequests
  VerifyRequests <- NoRequests
  MaxRows = 3
INVARIANTS
  AnswerMatchesRequest
PROPERTIES
  RequestsEnd
