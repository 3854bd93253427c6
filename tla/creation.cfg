CONSTANTS
  Procs = {p1, p2}
  Items <- MCItems
  Dirs <- MCDirs
  InitialItems <- MCItems
  Passwords = {pwA, pwB}
  ShortPasswords = {}
  Keys = {k1, k2}
  Ops = {"create", "unlock", "lock"}
  FaultKinds <- MCAllFaults
  MaxFaults = 1
  MaxKills = 1
  MaxReboots = 1
  AppsDuringCalls = FALSE
  NoKey = NoKey
  Clear = Clear
  NoPassword = NoPassword
SPECIFICATION CreationSpec
INVARIANTS KeepInv Durable NothingInClear
PROPERTIES SealedOnlyWhenDone WipeOnlyEncrypted PasswordGate UnlockContract CallsReturn
