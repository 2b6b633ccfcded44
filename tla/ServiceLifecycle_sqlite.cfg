SPECIFICATION Spec
CONSTANTS
  Owners = {"o1"}
  Visitors = {"v1", "v2"}
  Reapers = {"w1"}
  Ids <- MCIds
  Null = 0
  Name = 99
  None = None
  Published = TRUE
  Serialised = TRUE
  Crashes = FALSE
  Faults = FALSE
  MaxEvents = 3
INVARIANTS
  TypeOK
  NoStrayContainer
  IdleCanBeWoken
  WakeIsInvisible
  RunningIsReachable
PROPERTIES
  UnusedIsStopped
