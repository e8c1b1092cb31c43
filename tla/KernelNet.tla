----------------------------- MODULE KernelNet -----------------------------
(***************************************************************************)
(* The kernels of the channel design as a network: which kernel writes to  *)
(* which, how many packets, over channels of which depth.  Every kernel    *)
(* reads at most one channel, so a channel is named by its reader.         *)
(* A network g is a record of functions on its kernels:                    *)
(*   rounds   how often the kernel's outer loop runs                       *)
(*   reads    packets it then reads, before it writes any                  *)
(*   writes   packets it then writes to each of its outputs, in turn       *)
(*   outs     the readers of its outputs                                   *)
(*   depth    the packets its input channel holds                          *)
(*   after    the kernels the host waits for before it enqueues it         *)
(*   level    a number that grows along outs and after (no code reads it)  *)
(***************************************************************************)
EXTENDS Integers, Sequences, FiniteSets

KernelsOf(g) == DOMAIN g.rounds

Readers(g, k) == {g.outs[k][i] : i \in DOMAIN g.outs[k]}
Feeding(g, k) == {w \in KernelsOf(g) : k \in Readers(g, w)}

(* How many packets go into each output of w, and are taken by k, in all.  *)
Written(g, w) == g.rounds[w] * g.writes[w]
Taken(g, k)   == g.rounds[k] * g.reads[k]

NetTypes(g) ==
  /\ IsFiniteSet(KernelsOf(g))
  /\ g.rounds \in [KernelsOf(g) -> Nat \ {0}]
  /\ g.reads \in [KernelsOf(g) -> Nat]
  /\ g.writes \in [KernelsOf(g) -> Nat]
  /\ g.outs \in [KernelsOf(g) -> Seq(KernelsOf(g))]
  /\ g.depth \in [KernelsOf(g) -> Nat \ {0}]
  /\ g.after \in [KernelsOf(g) -> SUBSET KernelsOf(g)]
  /\ g.level \in [KernelsOf(g) -> 0..Cardinality(KernelsOf(g))]

(* A kernel that writes has somebody to write to; a channel has one        *)
(* writer, which writes to it at one place.                                *)
OneWriter(g) ==
  /\ \A k \in KernelsOf(g) :
       /\ g.writes[k] = 0 <=> g.outs[k] = <<>>
       /\ g.reads[k] = 0 <=> Feeding(g, k) = {}
  /\ \A v, w \in KernelsOf(g) : \A i \in DOMAIN g.outs[v], j \in DOMAIN g.outs[w] :
       g.outs[v][i] = g.outs[w][j] => v = w /\ i = j

(* The loops on both sides of a channel count to the same number.          *)
Balanced(g) ==
  \A w \in KernelsOf(g) : \A k \in Readers(g, w) : Written(g, w) = Taken(g, k)

(* Only kernels that read no channel are enqueued after others, and these  *)
(* run their loop once.                                                    *)
Layered(g) ==
  /\ \A k \in KernelsOf(g) : g.after[k] # {} => g.reads[k] = 0
  /\ \A k \in KernelsOf(g) : g.reads[k] = 0 => g.rounds[k] = 1
  /\ \A k \in KernelsOf(g) : \A w \in Feeding(g, k) \cup g.after[k] :
       g.level[w] < g.level[k]

(* Outputs written in turn carry more packets than the channels hold.      *)
Streaming(g) ==
  \A w \in KernelsOf(g) : Len(g.outs[w]) > 1 =>
    \A k \in Readers(g, w) : Written(g, w) > g.depth[k] + 1

IsKernelNet(g) ==
  NetTypes(g) /\ OneWriter(g) /\ Balanced(g) /\ Layered(g) /\ Streaming(g)
=============================================================================
