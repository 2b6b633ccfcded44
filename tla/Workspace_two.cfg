SPECIFICATION Spec
CONSTANTS
  w1 = w1
  w2 = w2
  d1 = d1
  d2 = d2
  d3 = d3
  p1 = p1
  p2 = p2
  p3 = p3
  Nothing = Nothing
  Worker <- MCWorkers
  Draft <- MCDrafts
  Page <- MCPages
  Limit = 2
  MaxUpload = 2
  MaxDrafts = 1
  MaxDraftSize = 2
  Crashes = TRUE
  MaxCalls = 5
SYMMETRY Alike
INVARIANTS
  TypeOK
  
  DraftCap
  DraftsAreKept
PROPERTY
  DraftsAreAtomic
