CONSTANTS
  Procs = {p1, p2}
  Passwords = {pwA, pwB}
  Keys = {k1, k2}
  NoKey = NoKey
  NoPassword = NoPassword
  Ops <- HeaderOps
  MaxCuts = 1
SPECIFICATION Spec
INVARIANTS NoKeyInClear MountedGenuine
PROPERTIES ImplementsKeyFile
SYMMETRY MCSymmetry
