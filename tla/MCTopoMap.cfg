CONSTANTS
  Files <- CFiles
  Places <- CPlaces
  Hops <- CHops
SPECIFICATION Spec
INVARIANT HopsConnected
\* The file ends.
CHECK_DEADLOCK FALSE
