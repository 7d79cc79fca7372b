SPECIFICATION Spec
CONSTANTS
  rel = rel
  oth = oth
  tgt = tgt
  Slot = {rel, oth, tgt}
  None = None
  Star = Star
  MaxGen = 0
  Budget = 0
  Id <- TwoPairs
  Patterns <- AllOfRel
  OnDeletePolicy <- WithRelationship
  OnDeleteTargetPolicy <- WithTarget
  ObserversRefer = FALSE
  ObserversRecycle = FALSE
PROPERTIES NoneLeftWith
CHECK_DEADLOCK FALSE
