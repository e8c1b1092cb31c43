SPECIFICATION Spec
CONSTANTS
  Example = "resnet"
  NumRanks = 3
  Layer <- CLayer
  Tree <- CTree
  Type <- CType
  Padded <- CPadded
  Inputs <- CInputs
  Program <- CProgram
  SendsAdd <- CSendsAdd
  LastLayer <- CLast
  Depth <- CDepth
  Image <- CImage
  Garbage = Garbage
  Unset = Unset
  NoName = NoName
  Unknown = Unknown
INVARIANTS
  ArgumentsFound
  FiveBuffersPerLaunch
PROPERTIES
  RefinesInference
CHECK_DEADLOCK FALSE
