SPECIFICATION Spec
CONSTANTS
  Owners = {}
  Visitors = {"v1", "v2"}
  Reapers = {"w1", "w2"}
  Ids <- MCIds
  Null = 0
  Name = 99
  None = None
  Published = TRUE
  Serialised = TRUE
  Crashes = FALSE
  Faults = FALSE
  MaxEvents = 0
INVARIANTS
  RunningIsReachable
