SPECIFICATION Spec
CONSTANTS
  rel = rel
  oth = oth
  tgt = tgt
  Slot = {rel, oth, tgt}
  None = None
  Star = Star
  MaxGen = 1
  Budget = 1
  Id <- TwoPairs
  Patterns <- TwoPairs
  OnDeletePolicy <- WithRelationship
  OnDeleteTargetPolicy <- WithTarget
  ObserversRefer = FALSE
  ObserversRecycle = FALSE
INVARIANTS NoDangling ReadyForNext
PROPERTIES CleanupFollowsPolicies OperationsReturn
CHECK_DEADLOCK FALSE
