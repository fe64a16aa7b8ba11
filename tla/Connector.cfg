CONSTANTS
  c1 = c1
  p1 = p1
  default = default
  own = own
  key = key
  arn = arn
  Conns = {c1}
  None = None
  Default = default
  Profiles = {p1, default}
  OwnKeys = {own}
  EnvKeys = {key}
  Tokens = {}
  Roles = {arn}
SPECIFICATION Spec
CONSTRAINTS FewVariables FewEntries
INVARIANTS TypeOK ExplicitNeverBlocked ConfigFileNeverBlocks CredentialsFileCounts
PROPERTY RoleIsAssumed
