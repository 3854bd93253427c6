CONSTANTS
  Users <- MCUsers
  PrimaryUser = 0
  UserOps <- UserCalls
  Items <- MCItems
  Dirs <- MCItems
  InitialItems <- MCItems
  Passwords = {pwA, pwB}
  ShortPasswords = {}
  MaxMishaps = 1
  MaxReboots = 1
  NoPassword = NoPassword
SPECIFICATION Spec
INVARIANTS TypeOK Lockstep
PROPERTIES FirstFailureHarmless EncryptContract DecryptContract StatusTruthful
SYMMETRY MCSymmetry
