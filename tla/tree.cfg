\* Trees in a heap of five nodes.
SPECIFICATION Spec
CONSTANTS
  a = a
  b = b
  Token = {a, b}
  Path <- MCPath
  Address = {1, 2, 3, 4, 5}
  Data = {d1}
  Zero = Zero
  RootKey = RootKey
  NULL = NULL
INVARIANTS TypeOK LengthCountsNodes IsTree PrintShowsPaths
PROPERTIES NothingLostPiecemeal IsPathMap
