SPECIFICATION Spec
CONSTANTS
  SystemCount = 3
  Ids = {"a", "b", "c"}
  Descs <- AllDescs
  Anchored = TRUE
  Calls = {TRUE}
  MaxChanges = 2
INVARIANTS OpsUniform NoStaleRead  NoneSkipped
PROPERTIES RunsInOrder RunEnds
