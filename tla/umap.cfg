\* A map of UMAP_DEFAULT_CAPACITY slots that can grow once; a and b clash.
SPECIFICATION MCSpec
CONSTANTS
  NextPow2 <- CCNextPow2
  DefaultCapacity = 8
  MaxCapacity = 64
  HeapLimit = 16
  Capacities = {8, 16, 32}
  a = a
  b = b
  c = c
  v1 = v1
  v2 = v2
  Key = {a, b, c}
  Value = {v1, v2}
  H1 <- MCH1
  H2 <- MCH2
  Empty = Empty
  Deleted = Deleted
  NULL = NULL
INVARIANTS TypeOK EmptySlotRemains ChainsUnbroken CountersCover
  HangIsAClash
PROPERTIES IsDictionary RehashEnds
CHECK_DEADLOCK FALSE
