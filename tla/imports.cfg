SPECIFICATION Spec
CONSTANTS
  Base = 3
  Bad = Bad
  None = None
  Removed = Removed
  MaxRows = 2
  Handler = {h1, h2}
  k1 = k1
  k2 = k2
  Collection = {k1, k2}
  InitCollections = {k1}
  Id = {1, 2, 3, 4}
  Batches <- Files
  Given <- OwnRanks
  MaxRequests = 3
SYMMETRY ImportSymmetry
INVARIANTS
  TypeInvariant
  AlwaysRoom
  AppendedInOrder
  ContractShared
  BadBatchLeavesNothing
CHECK_DEADLOCK FALSE
