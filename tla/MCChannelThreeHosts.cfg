CONSTANTS
  Hosts = 3
  Host <- CHost
  Layers <- CLayers
  Order <- COrder
  FeederOrder <- CFeeders
  PadKernel <- CPads
  Parents <- CParents
  Poolings <- CPoolings
  Keeping <- CKeeping
  LastLayer <- CLast
  Inputs <- CInputs
  KernelNetwork <- CKernels
  Places <- CPlaces
  RouteFile <- CFile
  RouteGiven = TRUE
  Image <- CImage
  Garbage = Garbage
SPECIFICATION Spec
INVARIANTS NoDeadlock ConcatInputsRight NobodySendsToAFlash NoKernelAbandoned
CHECK_DEADLOCK FALSE
