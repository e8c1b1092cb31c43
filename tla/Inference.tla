----------------------------- MODULE Inference -----------------------------
(***************************************************************************)
(* What a distributed inference promises, however it is cut over FPGAs:    *)
(* every layer is computed at most once, from the outputs of the layers    *)
(* that feed it in the network, and the answer is read from the output of  *)
(* the last layer.  The tensor a layer ought to produce is named by the    *)
(* layer.                                                                  *)
(***************************************************************************)
CONSTANTS
  Layer,     \* the layers that run on FPGAs
  Feeds,     \* Feeds[l]: the layers whose outputs layer l reads
  LastLayer, \* the layer whose output is the classification
  NoTensor   \* the output of a layer that was not computed

VARIABLES
  output,    \* the output of each layer
  answered   \* whether the classification has been returned

vars == <<output, answered>>

Init ==
  /\ output = [l \in Layer |-> NoTensor]
  /\ answered = FALSE

Compute(l) ==
  /\ output[l] = NoTensor
  /\ \A m \in Feeds[l] : output[m] = m
  /\ output' = [output EXCEPT ![l] = l]
  /\ UNCHANGED answered

Answer ==
  /\ ~ answered
  /\ output[LastLayer] = LastLayer
  /\ answered' = TRUE
  /\ UNCHANGED output

Next == Answer \/ \E l \in Layer : Compute(l)

Spec == Init /\ [][Next]_vars
=============================================================================
