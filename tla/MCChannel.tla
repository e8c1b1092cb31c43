----------------------------- MODULE MCChannel -----------------------------
(***************************************************************************)
(* The channel design on a slice of GoogLeNet over two or three hosts.     *)
(***************************************************************************)
EXTENDS ChannelCuts, ChannelDesign

(* The constants stand for names, which TLC evaluates once.                *)
CHost     == 0 .. Hosts - 1
CLayers   == TheLayers
COrder    == TheOrder
CFeeders  == TheFeeders
CPads     == ThePads
CParents  == TheConcatParents
CPoolings == ThePoolings
CKeeping  == TheKeeping
CLast     == TheLast
CInputs   == TheInputs
CKernels  == TheKernels
CPlaces   == ThePlaces
CFile     == TorusFile
CImage    == TheImage
=============================================================================
