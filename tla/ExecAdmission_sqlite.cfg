SPECIFICATION Spec
CONSTANTS
  r1 = r1
  r2 = r2
  r3 = r3
  big = big
  alice = alice
  bob = bob
  None = None
  Requests <- MCThree
  Users <- MCUsers
  Owner <- MCOwner
  Memory <- MCMemory
  Budget = 3
  MaxPerUser = 1
  QueueWait = 1
  Timeout = 1
  Grace = 1
  BusyTimeout = 1
  Lag = 1
  Serialised = TRUE
  Remote = FALSE
  Crashes = TRUE
  OtherWriters = TRUE
  Deletable <- MCDeletable
  LastArrival = 0
  MaxRun = 3
  MaxTime = 7
INVARIANTS
  TypeOK
  LimitsHonoured
  RunHoldsLiveSlot
  ContainersFitBudget
PROPERTIES
  IsSlotPool
  NoSlotIsTaken
  SlotsEventuallyFree
  EveryCallEnds
