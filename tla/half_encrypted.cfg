CONSTANTS
  Users = {10}
  PrimaryUser = 0
  UserOps = {"encrypt", "unlock_init"}
  Items <- MCItems
  Dirs <- MCItems
  InitialItems <- MCItems
  Passwords = {pwA}
  ShortPasswords = {}
  MaxMishaps = 1
  MaxReboots = 1
  NoPassword = NoPassword
SPECIFICATION Spec
PROPERTIES UnlockOpensBoth
