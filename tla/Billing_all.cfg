SPECIFICATION Spec
CONSTANTS
  Workers = {"w1", "w2"}
  Paid <- MCPaid
  Free = "free"
  Unlisted = "unlisted"
  None = None
  EarlyReply = TRUE
  MaxSent = 3
  MaxExtras = 1
INVARIANTS
  TypeOK
  PlanFollowsMirror
  Reconciled
  AcceptedIsRecorded
PROPERTIES
  OneEffectPerEvent
  QueueDrains
