\* The same list, asked whether remove frees the slot.
SPECIFICATION ListSpec
CONSTANTS
  NextPow2 <- CCNextPow2
  DefaultCapacity = 8
  MaxCapacity = 64
  HeapLimit = 32
  Data = {d1}
  Zero = Zero
  Junk = Junk
  NULL = NULL
  ElementSize = 4
PROPERTY RemoveFreesSlot
