SPECIFICATION Spec
CONSTANTS
  Example = "googlenet"
  NumRanks = 3
  Layer <- CLayer
  Tree <- CTree
  Type <- CType
  Padded <- CPadded
  Inputs <- CInputs
  Program <- CProgram
  SendsAdd <- CSendsAdd
  LastLayer <- CLast
  Depth <- CDepth
  Image <- CImage
  Garbage = Garbage
  Unset = Unset
  NoName = NoName
  Unknown = Unknown
INVARIANTS
  WalkGoesOn
  TensorsRight
  NothingUndefined
  ReceivesMatch
  QueuedOnce
  BuffersCreated
CHECK_DEADLOCK FALSE
