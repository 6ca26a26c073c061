\* A list of FREE_LIST_DEFAULT_CAPACITY elements of 4 bytes, any client.
SPECIFICATION ListSpec
CONSTANTS
  NextPow2 <- CCNextPow2
  DefaultCapacity = 8
  MaxCapacity = 64
  HeapLimit = 32
  Data = {d1}
  Zero = Zero
  Junk = Junk
  NULL = NULL
  ElementSize = 4
INVARIANTS ListTypeOK FirstFit LengthWithinUsed HeldIsUsed
PROPERTIES NeverGrows JamEndsAtSlotZero
