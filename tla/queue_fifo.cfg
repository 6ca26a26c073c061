\* A queue whose client never pops it at a full ring.
SPECIFICATION CarefulSpec
CONSTANTS
  NextPow2 <- CCNextPow2
  DefaultCapacity = 1
  MaxCapacity = 16
  HeapLimit = 4
  Data = {d1, d2}
  Zero = Zero
  Junk = Junk
  NULL = NULL
INVARIANTS TypeOK RingAgrees CopyStaysInside
PROPERTY IsFifo
