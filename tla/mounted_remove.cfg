CONSTANTS
  Procs = {p1}
  Items <- MCItems
  Dirs <- MCDirs
  InitialItems <- MCItems
  Passwords = {pwA}
  ShortPasswords = {}
  Keys = {k1}
  Ops <- MCAllOps
  FaultKinds = {}
  MaxFaults = 0
  MaxKills = 0
  MaxReboots = 0
  AppsDuringCalls = FALSE
  NoKey = NoKey
  Clear = Clear
  NoPassword = NoPassword
SPECIFICATION Spec
PROPERTIES RemoveContract
