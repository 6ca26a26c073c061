\* A priority queue that grows once or twice; no removal by value.
SPECIFICATION SafeSpec
CONSTANTS
  NextPow2 <- CCNextPow2
  DefaultCapacity = 2
  MaxCapacity = 16
  HeapLimit = 4
  Value = {1, 2, 3}
  Data = {1, 2}
  NULL = NULL
  Lost = Lost
  Junk = Junk
INVARIANTS TypeOK OnlySingleValuesAreMissed
PROPERTY IsPriorityList
