CONSTANTS
  Resources = {1, 2, 3}
  OwnerOf <- MCOwnerOf
  Present = {{1, 2, 3}, {1, 3}}
  Filters <- MCFilters
  Tokens <- MCTokens
  Subject = {}
  Group <- MCGroup
  MaxEntries = 2
  Limit = 1
  MaxChanges = 2
SPECIFICATION AccessFairSpec
INVARIANT WalkIsFaithful
PROPERTIES CachedKeyVerifies KeysConverge
CHECK_DEADLOCK FALSE
