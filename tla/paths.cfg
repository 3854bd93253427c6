CONSTANTS
  Storages <- MCStorages
  Spellings <- MCSpellings
  UserPaths <- MCUserPaths
  Programs = {q1, q2}
  Used <- MCUsed
  HashLen = 64
  Attempts = 2
  MaxKeys = 2
  MaxOpens = 1
SPECIFICATION Spec
INVARIANTS LockCloses GivesUpOnlyWhenOutrun
PROPERTIES NoInterference KillsOnlyHolders
SYMMETRY MCSymmetry
