CONSTANTS
  Hosts = 2
  Host <- CHost
  Layers <- CLayers
  Order <- COrder
  FeederOrder <- CFeeders
  PadKernel <- CPads
  Parents <- CParents
  Poolings <- CPoolings
  Keeping <- CKeeping
  LastLayer <- CLast
  Inputs <- CInputs
  KernelNetwork <- CKernels
  Places <- CPlaces
  RouteFile <- CFile
  RouteGiven = TRUE
  Image <- CImage
  Garbage = Garbage
SPECIFICATION Spec
PROPERTIES RefinesStreams RefinesInference ClassifiedAndOver
CHECK_DEADLOCK FALSE
