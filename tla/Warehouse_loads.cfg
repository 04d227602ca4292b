SPECIFICATION Spec
CONSTANTS
  k1 = k1
  k2 = k2
  k3 = k3
  a = a
  b = b
  Key = {k1, k2, k3}
  Loader = {l1, l2}
  NoLoader = NoLoader
  five = five
  fiveText = fiveText
  nan = nan
  nanText = nanText
  Value = {a, b, five, nan}
  Stored <- StoredAs
  Source <- Sources
  ChunkSize = 2
  OldVal = OldVal
  MaxTries = 2
SYMMETRY Symmetry
INVARIANTS
  TypeOK
  LoadedRowsAreServed
  ServedKeysStayServed
  HistoryIsContiguous
PROPERTIES
  ReloadIsNoOp
CHECK_DEADLOCK FALSE
