SPECIFICATION Spec
CONSTANTS
  Indices = {i1, i2}
  Comps = {"A", "B"}
  Refs = {"r"}
  VersionSlots = 2
  FastMod = 1000
  VersionMod = 1000
  Kept <- NoTypes
  ObserversRead = FALSE
  MaxGen = 2
  MaxFast = 4
  MaxTables = 3
SYMMETRY IndexSymmetry
INVARIANTS StorageConsistent 
CHECK_DEADLOCK FALSE
