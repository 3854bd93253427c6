CONSTANTS
  Storages <- LongStorages
  Spellings <- LongStorages
  UserPaths <- LongUserPaths
  Programs = {q1}
  Used <- LongStorages
  HashLen = 5
  Attempts = 2
  MaxKeys = 2
  MaxOpens = 1
SPECIFICATION Spec
PROPERTIES NoInterference
