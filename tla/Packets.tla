------------------------------ MODULE Packets ------------------------------
(***************************************************************************)
(* The channel kernels at work, packet by packet: read_channel_intel       *)
(* blocks on an empty channel, write_channel_intel on a full one.  A       *)
(* kernel runs from the moment its host enqueues it.                       *)
(*                                                                         *)
(* A definition ...Mutant is the next one with a plausible bug in it, that *)
(* some property must catch; no action uses it.                            *)
(***************************************************************************)
EXTENDS KernelNet

CONSTANT KernelNetwork   \* as described in module KernelNet

Net == KernelNetwork   \* TLC evaluates a definition once

ASSUME NetAssumption == IsKernelNet(Net)

Kernel == KernelsOf(Net)

VARIABLES
  started,   \* the kernels enqueued
  round,     \* rounds of its outer loop each kernel has done
  got,       \* packets it has read in this round
  put,       \* packets it has written in this round to every output
  lane,      \* the output the next packet goes to
  fill       \* packets in the channel each kernel reads

kernel_vars == <<round, got, put, lane>>
vars == <<started, kernel_vars, fill>>

Init ==
  /\ started = {}
  /\ round = [k \in Kernel |-> 0]
  /\ got = [k \in Kernel |-> 0]
  /\ put = [k \in Kernel |-> 0]
  /\ lane = [k \in Kernel |-> 1]
  /\ fill = [k \in Kernel |-> 0]

Finished(k) == round[k] = Net.rounds[k]

(* enqueueTask, after the finish() of the queues of other kernels.         *)
CanStartMutant(k) ==
  k \notin started /\ \A w \in Net.after[k] \cup Feeding(Net, k) : Finished(w)

CanStartHastyMutant(k) == k \notin started

CanStart(k) == k \notin started /\ \A w \in Net.after[k] : Finished(w)

Start(k) ==
  /\ CanStart(k)
  /\ started' = started \cup {k}
  /\ UNCHANGED <<kernel_vars, fill>>

InRound(k) == k \in started /\ round[k] < Net.rounds[k]

CanRead(k) == InRound(k) /\ got[k] < Net.reads[k] /\ fill[k] > 0

(* read_channel_intel.                                                     *)
Read(k) ==
  /\ CanRead(k)
  /\ got' = [got EXCEPT ![k] = @ + 1]
  /\ fill' = [fill EXCEPT ![k] = @ - 1]
  /\ UNCHANGED <<started, round, put, lane>>

Out(k) == Net.outs[k][lane[k]]

Writing(k) == InRound(k) /\ got[k] = Net.reads[k] /\ put[k] < Net.writes[k]
CanWriteMutant(k) == Writing(k)

CanWrite(k) == Writing(k) /\ fill[Out(k)] < Net.depth[Out(k)]

(* write_channel_intel: the outputs of a kernel take each packet in turn.  *)
Write(k) ==
  /\ CanWrite(k)
  /\ fill' = [fill EXCEPT ![Out(k)] = @ + 1]
  /\ IF lane[k] < Len(Net.outs[k])
     THEN lane' = [lane EXCEPT ![k] = @ + 1] /\ UNCHANGED put
     ELSE lane' = [lane EXCEPT ![k] = 1] /\ put' = [put EXCEPT ![k] = @ + 1]
  /\ UNCHANGED <<started, round, got>>

CanTurn(k) == InRound(k) /\ got[k] = Net.reads[k] /\ put[k] = Net.writes[k]

(* The next round of the outer loop, or the end of the kernel.             *)
TurnMutant(k) ==
  /\ CanTurn(k)
  /\ round' = [round EXCEPT ![k] = @ + 1]
  /\ put' = [put EXCEPT ![k] = 0]
  /\ UNCHANGED <<started, got, lane, fill>>

Turn(k) ==
  /\ CanTurn(k)
  /\ round' = [round EXCEPT ![k] = @ + 1]
  /\ got' = [got EXCEPT ![k] = 0]
  /\ put' = [put EXCEPT ![k] = 0]
  /\ UNCHANGED <<started, lane, fill>>

Step(k) == Read(k) \/ Write(k) \/ Turn(k)

Next == \E k \in Kernel : Start(k) \/ Step(k)

(* A kernel is a circuit of its own, and a host enqueues what it can.      *)
Fairness == \A k \in Kernel : WF_vars(Start(k)) /\ WF_vars(Step(k))

Spec == Init /\ [][Next]_vars /\ Fairness

-----------------------------------------------------------------------------
(* Properties.                                                             *)

(* Every variable has its type; no channel holds more than its depth.      *)
TypeOK ==
  /\ started \in SUBSET Kernel
  /\ round \in [Kernel -> Nat] /\ got \in [Kernel -> Nat]
  /\ put \in [Kernel -> Nat] /\ lane \in [Kernel -> Nat \ {0}]
  /\ fill \in [Kernel -> Nat]
  /\ \A k \in Kernel :
       /\ round[k] <= Net.rounds[k]
       /\ got[k] <= Net.reads[k] /\ put[k] <= Net.writes[k]
       /\ lane[k] <= Len(Net.outs[k]) \/ lane[k] = 1
       /\ fill[k] <= Net.depth[k]

(* Nothing can move: each kernel is blocked on a channel, or not enqueued  *)
(* because its host waits, or has ended.                                   *)
Stuck == \A k \in Kernel : ~ (CanStart(k) \/ CanRead(k) \/ CanWrite(k) \/ CanTurn(k))

(* The README of the hybrid design says that kernels on channels were      *)
(* stalling.  These cannot: when nothing can move, every kernel has ended. *)
NoStall == Stuck => \A k \in Kernel : Finished(k)

(* A kernel that has ended leaves no packet behind in its channel, where   *)
(* the next inference would take it for its own.                           *)
NoLeftovers == \A k \in Kernel : Finished(k) => fill[k] = 0

(* A kernel that has read its whole input.                                 *)
HasInput(k) ==
  \/ Finished(k)
  \/ round[k] = Net.rounds[k] - 1 /\ got[k] = Net.reads[k]

(* The kernels give the hosts what Streams promises.                       *)
S == INSTANCE Streams WITH delivered <- {k \in started : HasInput(k)}
RefinesStreams == S!Spec

(* Every kernel ends, and with the last of them the inference.             *)
EveryKernelEnds == <>(\A k \in Kernel : Finished(k))
=============================================================================
