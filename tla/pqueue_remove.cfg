\* The same queue with all calls, asked whether a removal takes the pair it names.
SPECIFICATION Spec
CONSTANTS
  NextPow2 <- CCNextPow2
  DefaultCapacity = 4
  MaxCapacity = 16
  HeapLimit = 4
  Value = {10, 20, 30}
  Data = {1, 2}
  NULL = NULL
  Lost = Lost
  Junk = Junk
PROPERTY RemoveTakesThatValue
