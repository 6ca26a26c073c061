\* A deque whose client avoids full rings and the wrap of push_back.
SPECIFICATION DequeSpec
CONSTANTS
  NextPow2 <- CCNextPow2
  DefaultCapacity = 1
  MaxCapacity = 16
  HeapLimit = 4
  Data = {d1, d2}
  Zero = Zero
  Junk = Junk
  NULL = NULL
INVARIANTS TypeOK RingAgrees CopyStaysInside
PROPERTY IsDeque
