SPECIFICATION Spec
CONSTANTS
  u1 = u1
  u2 = u2
  n1 = n1
  n2 = n2
  n3 = n3
  n4 = n4
  None = None
  Users <- TwoUsers
  Conns <- FourConns
  Limits = {0, 1}
  MaxIdle = 2
  Prepared <- Select
  Uses <- UsesOf
  MAXQueryStringLength = 100
INVARIANTS OneRunPerUse RetriesSuffice SameQuestion LiteralsReadBack
PROPERTIES DirectUsesHonorContext
