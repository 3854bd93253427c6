CONSTANTS
  Procs = {p1}
  Items <- MCItems
  Dirs <- MCDirs
  InitialItems <- MCItems
  Passwords = {pwA, pwB, short}
  ShortPasswords = {short}
  Keys = {k1, k2}
  Ops <- ApiCalls
  FaultKinds <- MCStoreFaults
  MaxFaults = 1
  MaxKills = 1
  MaxReboots = 1
  AppsDuringCalls = FALSE
  NoKey = NoKey
  Clear = Clear
  NoPassword = NoPassword
SPECIFICATION HSpec
INVARIANTS TypeOK OneKey NoResidue
PROPERTIES ImplementsSecureStore DestroyOnlyRecovered OnlyCleanupLoses CreateContract LockContract RecoverContract ChangeContract PasswordKept CompletedStays
SYMMETRY MCSymmetry
