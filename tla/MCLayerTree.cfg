SPECIFICATION Spec
CONSTANTS
  Networks <- NetworksToParse
  GarbageIDs = {0, 3}
INVARIANTS
  OneNodePerLayer
  ChildrenFormTree
  ParentsAbove
  ParentsComplete
  SameAsRecursion
  ConcatInputsInOrder
PROPERTY ParseEnds
CHECK_DEADLOCK FALSE
