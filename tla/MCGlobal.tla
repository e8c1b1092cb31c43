------------------------------ MODULE MCGlobal ------------------------------
(***************************************************************************)
(* The global design on slices of GoogLeNet (three ranks: stem and module, *)
(* module, module and classifier) and of ResNet-50 (three ranks).          *)
(***************************************************************************)
EXTENDS Cuts, GlobalDesign

(* TLC evaluates a definition once, but the one a constant stands for at   *)
(* every use of the constant: so the constants stand for these names.      *)
CLayer    == TheLayers
CTree     == TheTree
CType     == TheType
CPadded   == ThePadded
CInputs   == TheInputs
CProgram  == [r \in Rank |-> TheProgram[r]]
CSendsAdd == TheSendsAdd
CLast     == TheLast
CDepth    == TheDepth
CImage    == TheImage
=============================================================================
