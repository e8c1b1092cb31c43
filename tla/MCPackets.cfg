CONSTANTS
  Slice = "fed"
  KernelNetwork <- CNet
SPECIFICATION Spec
INVARIANTS TypeOK NoStall NoLeftovers
PROPERTIES RefinesStreams EveryKernelEnds
\* The kernels of one inference end.
CHECK_DEADLOCK FALSE
