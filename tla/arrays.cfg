\* A stack and a vector that grow, and elements copied within and between them.
SPECIFICATION MCSpec
CONSTANTS
  NextPow2 <- CCNextPow2
  DefaultCapacity = 1
  MaxCapacity = 16
  HeapLimit = 4
  Data = {d1, d2}
  Zero = Zero
  Junk = Junk
  NULL = NULL
INVARIANT TypeOK
PROPERTY AreLists
