SPECIFICATION Spec
CONSTANTS
  Example = "headless"
  NumRanks = 2
  Layer <- CLayer
  Tree <- CTree
  Type <- CType
  Padded <- CPadded
  Inputs <- CInputs
  Program <- CProgram
  SendsAdd <- CSendsAdd
  LastLayer <- CLast
  Depth <- CDepth
  Image <- CImage
  Garbage = Garbage
  Unset = Unset
  NoName = NoName
  Unknown = Unknown
INVARIANTS
  AllLaunched
  NoDeadlock
CHECK_DEADLOCK FALSE
