SPECIFICATION Spec
CONSTANTS
  w1 = w1
  w2 = w2
  Workers = {w1, w2}
  Main = w1
  OwnerKeys = {k1, k2, k3}
  NoKey = NoKey
  MaxRuns = 2
  Hosts = {h1, h2}
  Accounts = {a1, a2}
  Login_Per_Ip <- MCLoginPerIp
  Login_Per_Account <- MCLoginPerAccount
  Register_Per_Ip <- MCRegisterPerIp
  Max_Tracked_Keys = 2
  LastTick = 6
  MaxAttempts = 4
  Owner = "alice"
  NoSpace = "none"
  Domain <- MCDomain
  HostNames <- MCHostNames
  Files <- MCFiles
  Sites <- MCSites
  FirstNames = {"api", "apiary.html"}
  HiddenNames = {".env"}
  SuffixNames = {"index.html", "page.html", "apiary.html"}
  Rests <- MCRests
INVARIANTS
  OwnerKeyKept
  LauncherKeepsItsWord
  Limited
  Routed
CHECK_DEADLOCK FALSE
