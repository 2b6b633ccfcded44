SPECIFICATION Spec
CONSTANTS
  r1 = r1
  r2 = r2
  r3 = r3
  big = big
  alice = alice
  bob = bob
  None = None
  Requests <- MCFour
  Users <- MCUsers
  Owner <- MCOwner
  Memory <- MCMemory
  Budget = 3
  MaxPerUser = 1
  QueueWait = 1
  Timeout = 1
  Grace = 2
  BusyTimeout = 1
  Lag = 9
  Serialised = FALSE
  Remote = TRUE
  Crashes = TRUE
  OtherWriters = FALSE
  Deletable <- MCDeletable
  LastArrival = 0
  MaxRun = 4
  MaxTime = 4
PROPERTIES
  OvershootOnlyByRivals
