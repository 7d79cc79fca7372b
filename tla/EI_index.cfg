SPECIFICATION Spec
CONSTANTS
  MaxId = 3
  GenCount = 2
  MaxBulk = 2
  MaxRanges = 3
  Asserts = TRUE
  Polite = TRUE
INVARIANTS Consistent RecycledOnce NoIdClash NewInRange
PROPERTY ImplementsEntityIds
