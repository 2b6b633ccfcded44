SPECIFICATION Spec
CONSTANTS
  Owners = {"o1"}
  Visitors = {"v1"}
  Reapers = {"w1", "w2"}
  Ids <- MCIds
  Null = 0
  Name = 99
  None = None
  Published = TRUE
  Serialised = TRUE
  Crashes = TRUE
  Faults = TRUE
  MaxEvents = 2
PROPERTIES
  DeadIsNoticed
