SPECIFICATION Spec
CONSTANTS
  Workers = {"w1"}
  Paid <- MCPaid
  Free = "free"
  Unlisted = "unlisted"
  None = None
  EarlyReply = FALSE
  MaxSent = 3
  MaxExtras = 1
PROPERTIES
  RetryCannotDowngrade
