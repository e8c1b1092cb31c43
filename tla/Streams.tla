------------------------------ MODULE Streams ------------------------------
(***************************************************************************)
(* What the channel kernels promise to the hosts, with whole tensors in    *)
(* place of packets: a kernel that runs gets its whole input once the      *)
(* kernel that feeds it has got its own, and every other reader of that    *)
(* kernel runs too, because outputs are written in turn and no channel     *)
(* holds a tensor.                                                         *)
(***************************************************************************)
EXTENDS KernelNet

CONSTANT Net

VARIABLES
  started,    \* the kernels enqueued, and so running
  delivered   \* those of them that have got their whole input

vars == <<started, delivered>>

Kernel == KernelsOf(Net)

Init == started = {} /\ delivered = {}

(* The host has waited for the kernels before.  A kernel that reads no     *)
(* channel finds its input in the memory of its FPGA.                      *)
Start(k) ==
  /\ k \notin started
  /\ Net.after[k] \subseteq delivered
  /\ started' = started \cup {k}
  /\ delivered' = IF Net.reads[k] = 0 THEN delivered \cup {k} ELSE delivered

Deliver(k) ==
  /\ k \in started \ delivered
  /\ \A w \in Feeding(Net, k) : w \in delivered /\ Readers(Net, w) \subseteq started
  /\ delivered' = delivered \cup {k}
  /\ UNCHANGED started

Next == \E k \in Kernel : Start(k) \/ Deliver(k)

Spec == Init /\ [][Next]_vars
=============================================================================
