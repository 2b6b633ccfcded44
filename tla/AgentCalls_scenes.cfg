SPECIFICATION MCSpec
CONSTANTS
  c1 = c1
  c2 = c2
  k1 = k1
  k2 = k2
  k3 = k3
  Calls <- MCCalls
  Keys <- MCKeys
  Tasks = {"t1"}
  Cookie = "cookie"
  None = "none"
  Plans <- MCPlans
  MaxKeys <- MCMaxKeys
  Limit <- MCLimit
  MaxRan = 2
  Serialised = TRUE
  Crashes = TRUE
SYMMETRY Alike
INVARIANTS
  TypeOK
  QuotasBounded
  WorkingIsInHand
PROPERTIES
  NothingIsUndone
