\* A queue popped in any state.
SPECIFICATION Spec
CONSTANTS
  NextPow2 <- CCNextPow2
  DefaultCapacity = 1
  MaxCapacity = 16
  HeapLimit = 4
  Data = {d1, d2}
  Zero = Zero
  Junk = Junk
  NULL = NULL
PROPERTY IsFifo
