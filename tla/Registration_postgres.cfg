SPECIFICATION Spec
CONSTANTS
  r1 = r1
  r2 = r2
  r3 = r3
  c1 = c1
  c2 = c2
  Requests <- MCRequests
  Codes <- MCCodes
  Code <- MCCode
  Username <- MCUsername
  Email <- MCEmail
  Absent = Absent
  Unused = Unused
  Serialised = FALSE
  MaxEvents = 4
INVARIANTS
  TypeOK
  RevokedMakesNoAccount
  AccountsAddUp
  SecondUseOverlapped
PROPERTIES
  EveryRegistrationEnds
