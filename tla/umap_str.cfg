\* A map of UMAP_STR_DEFAULT_CAPACITY slots that can grow once.
SPECIFICATION MCSpec
CONSTANTS
  NextPow2 <- CCNextPow2
  DefaultCapacity = 8
  MaxCapacity = 64
  HeapLimit = 16
  Capacities = {8, 16, 32}
  StringLimit = 5
  HashRange = 134217728
  v1 = v1
  Key <- MCKey
  Value = {v1}
  H1 <- HashH1
  H2 <- HashH2
  Empty = Empty
  Deleted = Deleted
  NULL = NULL
INVARIANTS TypeOK EverySlotOwnsAString HangIsALookalike
PROPERTIES StringsLostByTable IsForgetfulDictionary
CHECK_DEADLOCK FALSE
