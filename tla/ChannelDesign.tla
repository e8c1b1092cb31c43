--------------------------- MODULE ChannelDesign ---------------------------
(***************************************************************************)
(* The channel design: fpga_launcher and launcher_channel on every host,   *)
(* and the kernels they enqueue.                                           *)
(*                                                                         *)
(* A host enqueues its feeder kernels, then its layers in the order of the *)
(* walk, and does not wait for them; tensors go from kernel to kernel      *)
(* through channels, inside an FPGA and over cables to the next one.  But  *)
(* the last kernels of the branches of an inception module write to global *)
(* memory; the host waits for them, and then enqueues the Concat kernel,   *)
(* which reads it.  The hosts exchange nothing after their MPI_Barrier.    *)
(*                                                                         *)
(* A tensor is named by the layer that ought to produce it.                *)
(*                                                                         *)
(* A definition ...Mutant is the next one with a plausible bug in it, that *)
(* some property must catch; no action uses it.                            *)
(***************************************************************************)
EXTENDS Routes, KernelNet

CONSTANTS
  Host,        \* the ranks of the job
  Layers,      \* the layers that run on FPGAs
  Order,       \* Order[h]: the layers host h launches, in order
  FeederOrder, \* FeederOrder[h]: its feeder kernels, in order
  PadKernel,   \* the padding kernel of each padded convolution
  Parents,     \* the parents of each Concat, in the order of the tree
  Poolings,    \* the pooling layers
  Keeping,     \* the convolutions that write to global memory
  LastLayer,   \* the last convolution
  Inputs,      \* the layers each layer reads, in the order of its inputs
  KernelNetwork, \* all kernels, as described in module KernelNet
  Places,      \* the <<rank, file>> of the bitstream of each module
  RouteFile,   \* the entries of the routing file
  RouteGiven,  \* whether main got the option -route
  Image,       \* the tensor of the normalised image
  Garbage      \* what any other memory holds

Net    == KernelNetwork   \* TLC evaluates a definition once
Kernel == KernelsOf(Net)
Padded == DOMAIN PadKernel
Concats == DOMAIN Parents

(* build_topo_map over the whole file.                                     *)
RouteMap ==
  LET map[k \in 0 .. Len(RouteFile)] ==
        IF k = 0 THEN NoRoutes ELSE AddEntry(map[k - 1], RouteFile[k])
  IN  map[Len(RouteFile)]

ASSUME ChannelAssumption ==
  /\ IsKernelNet(Net)
  /\ Layers \subseteq Kernel
  /\ Order \in [Host -> Seq(Layers)]
  /\ FeederOrder \in [Host -> Seq(Kernel \ Layers)]
  /\ Padded \subseteq Layers /\ PadKernel \in [Padded -> Kernel \ Layers]
  /\ Concats \subseteq Layers /\ Parents \in [Concats -> Seq(Keeping)]
  /\ Poolings \subseteq Layers /\ Keeping \subseteq Layers /\ LastLayer \in Keeping
  /\ Padded \cap Concats = {} /\ Poolings \cap (Padded \cup Concats) = {}
  /\ Keeping \cap (Poolings \cup Concats) = {}
  /\ Image \notin Layers

(* Every kernel is in one bitstream, and enqueued at one place.            *)
ASSUME PlaceAssumption ==
  /\ \A g, h \in Host : \A i \in DOMAIN Order[g], j \in DOMAIN Order[h] :
       Order[g][i] = Order[h][j] => g = h /\ i = j
  /\ \A g, h \in Host : \A i \in DOMAIN FeederOrder[g], j \in DOMAIN FeederOrder[h] :
       FeederOrder[g][i] = FeederOrder[h][j] => g = h /\ i = j
  /\ \A l, m \in Padded : PadKernel[l] = PadKernel[m] => l = m
  /\ \A l \in Padded : \A h \in Host : \A i \in DOMAIN FeederOrder[h] :
       FeederOrder[h][i] # PadKernel[l]

(* No kernel is forgotten, and the last layer is the last of its host.     *)
ASSUME CoverAssumption ==
  /\ \A l \in Layers : \E h \in Host : \E i \in DOMAIN Order[h] : Order[h][i] = l
  /\ \A k \in Kernel \ Layers :
       \/ \E l \in Padded : PadKernel[l] = k
       \/ \E h \in Host : \E i \in DOMAIN FeederOrder[h] : FeederOrder[h][i] = k
  /\ \A h \in Host : \A i \in DOMAIN Order[h] :
       Order[h][i] = LastLayer => i = Len(Order[h])

(* A Concat is on the FPGA of its branches and reads them in the order of  *)
(* its parents; these are what the host waits for.  Whatever a kernel      *)
(* makes is for another one, or for such a Concat, or the answer.          *)
ASSUME ConcatAssumption ==
  /\ \A h \in Host : \A i \in DOMAIN Order[h] : Order[h][i] \in Concats =>
       \A k \in DOMAIN Parents[Order[h][i]] :
         \E j \in DOMAIN Order[h] : Order[h][j] = Parents[Order[h][i]][k]
  /\ \A l \in Concats : Inputs[l] = Parents[l]
  /\ \A k \in Kernel : Net.after[k] =
       IF k \in Concats THEN {Parents[k][i] : i \in DOMAIN Parents[k]} ELSE {}
  /\ \A k \in Kernel \ {LastLayer} :
       Readers(Net, k) # {} \/ \E l \in Concats : k \in Net.after[l]

(* What comes to a feeder over the cables comes to the port it listens on. *)
Arrives(k) ==
  k[2] = "feeder" =>
    \A w \in Feeding(Net, k) : Connected(RouteMap, Places, w[1], k[1])

(* A host that waits for a Concat has enqueued what the Concat needs: the  *)
(* kernels it enqueues later, and those that share a writer with these,    *)
(* lie behind the Concat.  What comes over the cables arrives.             *)
Siblings(k)  == {k} \cup UNION {Readers(Net, w) : w \in Feeding(Net, k)}
KernelsFor(l) == {l} \cup {PadKernel[m] : m \in Padded \cap {l}}

ASSUME ScheduleAssumption ==
  /\ \A h \in Host : \A i, j \in DOMAIN Order[h] : i < j /\ Order[h][i] \in Concats =>
       \A x \in KernelsFor(Order[h][j]) : \A k \in Siblings(x) :
         Net.level[Order[h][i]] < Net.level[k]
  /\ \A k \in Kernel : Arrives(k)

(* A layer that is no Concat gets its inputs over channels: what it reads  *)
(* is made by a kernel that writes to its own, at most one feeder or       *)
(* padding kernel being between them.                                      *)
Behind(k) == LET near == Feeding(Net, k)
             IN  near \cup UNION {Feeding(Net, j) : j \in near \ Layers}

ASSUME InputsAssumption ==
  /\ Garbage \notin Layers
  /\ \A l \in Layers \ Concats : \A i \in DOMAIN Inputs[l] :
       Inputs[l][i] # Image => Inputs[l][i] \in Layers \cap Behind(l)

VARIABLES
  pc,         \* where each host is
  fed,        \* how many feeders it has enqueued
  launched,   \* how many layers it has launched
  buffers,    \* what writes to each of its buffers; buffer_index is their number
  outBuf,     \* layerOutBufferIndex of each layer
  inputs,     \* the tensors a kernel was started on, if it reads global memory
  result,     \* the tensor the host's results were computed from
  started,    \* the kernels enqueued
  delivered,  \* the kernels that have got their whole input
  ended       \* the convolutions whose output is in global memory

host_vars   == <<pc, fed, launched>>
memory_vars == <<buffers, outBuf, inputs>>
kernel_vars == <<started, delivered, ended>>
vars == <<host_vars, memory_vars, result, kernel_vars>>

Nobody == <<>>

Init ==
  /\ pc = [h \in Host |-> "options"]
  /\ fed = [h \in Host |-> 0]
  /\ launched = [h \in Host |-> 0]
  /\ buffers = [h \in Host |-> <<>>]
  /\ outBuf = [l \in Layers |-> 0]
  /\ inputs = [l \in Kernel |-> <<>>]
  /\ result = [h \in Host |-> Garbage]
  /\ started = {} /\ delivered = {} /\ ended = {}

Goto(h, place) == pc' = [pc EXCEPT ![h] = place]

-----------------------------------------------------------------------------
(* The start of a host.                                                    *)

(* main asks for -route with this design; build_topo_map checks the ports. *)
Options(h) ==
  /\ pc[h] = "options"
  /\ Goto(h, IF RouteGiven /\ \A k \in DOMAIN RouteFile : ValidPorts(RouteFile[k])
             THEN "flash" ELSE "failed")
  /\ UNCHANGED <<fed, launched, memory_vars, result, kernel_vars>>

Flash(h) ==
  /\ pc[h] = "flash"
  /\ Goto(h, "barrier")
  /\ UNCHANGED <<fed, launched, memory_vars, result, kernel_vars>>

AllFlashedMutant(h) == pc[h] # "flash"
AllFlashedOnceMutant(h) == \A g \in Host : pc[g] = "barrier"
AllFlashed(h) == \A g \in Host : pc[g] \notin {"options", "flash"}

(* MPI_Barrier, then every host writes the image to its first device.      *)
Barrier(h) ==
  /\ pc[h] = "barrier"
  /\ AllFlashed(h)
  /\ Goto(h, "feed")
  /\ buffers' = [buffers EXCEPT ![h] = <<Image>>]
  /\ UNCHANGED <<fed, launched, outBuf, inputs, result, kernel_vars>>

-----------------------------------------------------------------------------
(* Kernels start when they are enqueued; one that reads no channel finds   *)
(* its input in global memory.                                             *)

StartKernel(k) ==
  /\ started' = started \cup {k}
  /\ delivered' = IF Net.reads[k] = 0 THEN delivered \cup {k} ELSE delivered
  /\ UNCHANGED ended

Feed(h) ==
  /\ pc[h] = "feed" /\ fed[h] < Len(FeederOrder[h])
  /\ StartKernel(FeederOrder[h][fed[h] + 1])
  /\ fed' = [fed EXCEPT ![h] = @ + 1]
  /\ UNCHANGED <<pc, launched, memory_vars, result>>

StartWalk(h) ==
  /\ pc[h] = "feed" /\ fed[h] = Len(FeederOrder[h])
  /\ Goto(h, "walk")
  /\ UNCHANGED <<fed, launched, memory_vars, result, kernel_vars>>

-----------------------------------------------------------------------------
(* The walk.                                                               *)

Walking(h, l) ==
  /\ pc[h] = "walk" /\ launched[h] < Len(Order[h])
  /\ l = Order[h][launched[h] + 1]

(* The buffers that layer l adds, by what writes to them; the last of them *)
(* is the output of a convolution that has one.                            *)
Slots(l) ==
  <<Nobody, Nobody>> \o (IF l \in Keeping THEN <<l>> ELSE <<>>)

Allocate(h, slots) == buffers' = [buffers EXCEPT ![h] = @ \o slots]
Top(h, slots) == Len(buffers[h]) + Len(slots) - 1

(* What a kernel reads from buffer i.                                      *)
Buffer(h, i) ==
  LET who == buffers[h][i + 1] IN IF who \in ended \cup {Image} THEN who ELSE Garbage

Launched(h, l) ==
  /\ launched' = [launched EXCEPT ![h] = @ + 1]
  /\ Goto(h, IF l = LastLayer THEN "read" ELSE "walk")

(* The padding kernel of a padded convolution, with a buffer nobody uses;  *)
(* only that of the first layer gets an argument, the image.               *)
LaunchPad(h) ==
  \E l \in Padded :
    /\ Walking(h, l)
    /\ Allocate(h, <<Nobody>>)
    /\ StartKernel(PadKernel[l])
    /\ inputs' = IF Net.reads[PadKernel[l]] = 0
                 THEN [inputs EXCEPT ![PadKernel[l]] = <<Buffer(h, 0)>>] ELSE inputs
    /\ Goto(h, "padded")
    /\ UNCHANGED <<fed, launched, outBuf, result>>

IndexMutant(h, l) == Len(buffers[h])
Index(h, l) == Top(h, Slots(l))

(* Weights, biases and the output of the last kernel of a branch.          *)
LaunchConvolution(h, l) ==
  /\ Allocate(h, Slots(l))
  /\ outBuf' = IF l \in Keeping THEN [outBuf EXCEPT ![l] = Index(h, l)] ELSE outBuf
  /\ StartKernel(l)
  /\ Launched(h, l)
  /\ UNCHANGED <<fed, inputs, result>>

LaunchUnpadded(h) ==
  \E l \in Layers \ (Padded \cup Concats \cup Poolings) :
    Walking(h, l) /\ LaunchConvolution(h, l)

LaunchPadded(h) ==
  /\ pc[h] = "padded"
  /\ LaunchConvolution(h, Order[h][launched[h] + 1])

(* A pooling numbers a buffer that is never made.                          *)
LaunchPooling(h) ==
  \E l \in Poolings :
    /\ Walking(h, l)
    /\ Allocate(h, <<Nobody>>)
    /\ outBuf' = [outBuf EXCEPT ![l] = Len(buffers[h])]
    /\ StartKernel(l)
    /\ Launched(h, l)
    /\ UNCHANGED <<fed, inputs, result>>

(* finish() on the queues of the four parents.                             *)
WaitedMutant(l) == \A k \in DOMAIN Parents[l] \ {4} : Parents[l][k] \in ended
WaitedAllMutant(l) == started \cap Keeping \subseteq ended /\ LastLayer \in ended
Waited(l) == \A k \in DOMAIN Parents[l] : Parents[l][k] \in ended

(* The arguments are found by the indices the parents left; four numbers   *)
(* of buffers are skipped.                                                 *)
LaunchConcat(h) ==
  \E l \in Concats :
    /\ Walking(h, l)
    /\ Waited(l)
    /\ inputs' = [inputs EXCEPT ![l] =
         [k \in DOMAIN Parents[l] |-> Buffer(h, outBuf[Parents[l][k]])]]
    /\ Allocate(h, <<Nobody, Nobody, Nobody, Nobody>>)
    /\ StartKernel(l)
    /\ Launched(h, l)
    /\ UNCHANGED <<fed, outBuf, result>>

(* After the last convolution: finish, read the scores, return.            *)
ReadScores(h) ==
  /\ pc[h] = "read"
  /\ LastLayer \in ended
  /\ result' = [result EXCEPT ![h] = Buffer(h, outBuf[LastLayer])]
  /\ Goto(h, "finalize")
  /\ UNCHANGED <<fed, launched, memory_vars, kernel_vars>>

(* The queue is empty: the launcher returns no results, and does not wait  *)
(* for the kernels it has enqueued last.                                   *)
WalkEnds(h) ==
  /\ pc[h] = "walk" /\ launched[h] = Len(Order[h])
  /\ Goto(h, "finalize")
  /\ UNCHANGED <<fed, launched, memory_vars, result, kernel_vars>>

(* The MPI library keeps a process in MPI_Finalize until all are there.    *)
AllFinalizeMutant(h) == pc[h] = "finalize"
AllFinalize(h) == \A g \in Host : pc[g] \in {"finalize", "exit"}

Exit(h) ==
  /\ pc[h] = "finalize"
  /\ AllFinalize(h)
  /\ Goto(h, "exit")
  /\ UNCHANGED <<fed, launched, memory_vars, result, kernel_vars>>

-----------------------------------------------------------------------------
(* The kernels, as module Streams has them.                                *)

Deliverable(k) ==
  /\ k \in started \ delivered
  /\ \A w \in Feeding(Net, k) : w \in delivered /\ Readers(Net, w) \subseteq started
  /\ Arrives(k)

Deliver(k) ==
  /\ Deliverable(k)
  /\ delivered' = delivered \cup {k}
  /\ UNCHANGED <<host_vars, memory_vars, result, started, ended>>

(* A convolution has written its output.                                   *)
End(k) ==
  /\ k \in (Keeping \cap delivered) \ ended
  /\ ended' = ended \cup {k}
  /\ UNCHANGED <<host_vars, memory_vars, result, started, delivered>>

-----------------------------------------------------------------------------
Step(h) ==
  \/ Options(h) \/ Flash(h) \/ Barrier(h) \/ Feed(h) \/ StartWalk(h)
  \/ LaunchPad(h) \/ LaunchPadded(h) \/ LaunchUnpadded(h)
  \/ LaunchPooling(h) \/ LaunchConcat(h)
  \/ ReadScores(h) \/ WalkEnds(h) \/ Exit(h)

Work(k) == Deliver(k) \/ End(k)

Next == (\E h \in Host : Step(h)) \/ (\E k \in Kernel : Work(k))

(* A host runs as long as it can, and so does every kernel of an FPGA.     *)
Fairness == /\ \A h \in Host : WF_vars(Step(h))
            /\ \A k \in Kernel : WF_vars(Work(k))

Spec == Init /\ [][Next]_vars /\ Fairness

-----------------------------------------------------------------------------
(* Properties.                                                             *)

(* Every variable has its type.                                            *)
TypeOK ==
  /\ pc \in [Host -> {"options", "flash", "barrier", "feed", "walk", "padded",
                      "read", "finalize", "exit", "failed"}]
  /\ fed \in [Host -> Nat] /\ \A h \in Host : fed[h] <= Len(FeederOrder[h])
  /\ launched \in [Host -> Nat] /\ \A h \in Host : launched[h] <= Len(Order[h])
  /\ buffers \in [Host -> Seq(Layers \cup {Image, Nobody})]
  /\ outBuf \in [Layers -> Nat]
  /\ inputs \in [Kernel -> Seq(Layers \cup {Image, Garbage})]
  /\ result \in [Host -> Layers \cup {Image, Garbage}]
  /\ delivered \subseteq started /\ started \subseteq Kernel
  /\ ended \subseteq delivered \cap Keeping

(* A Concat kernel is started on the finished outputs of the branches of   *)
(* its module, in the order of the inputs of its layer: the waiting, the   *)
(* order of parents in the tree, the skipped and the doubly used indices   *)
(* of buffers all agree.                                                   *)
ConcatInputsRight ==
  \A l \in Concats \cap started : inputs[l] = Inputs[l]

(* No kernel starts while the bitstream of some FPGA is still being        *)
(* flashed: what it sends to that FPGA would be lost.                      *)
NobodySendsToAFlash ==
  started # {} => \A h \in Host : pc[h] \notin {"options", "flash"}

(* Only one host waits for results, yet no process ends, and takes its     *)
(* context from under its FPGAs, before all kernels have got their inputs. *)
NoKernelAbandoned ==
  (\E h \in Host : pc[h] = "exit") => delivered = Kernel

(* The hosts and the kernels never wait for one another in a circle, nor a *)
(* kernel for a tensor that goes to a port nobody listens on: as long as a *)
(* process has not ended, some host or some kernel can go on.              *)
Waits(h) ==
  \/ pc[h] = "barrier" /\ ~ AllFlashed(h)
  \/ \E l \in Concats : Walking(h, l) /\ ~ Waited(l)
  \/ pc[h] = "read" /\ LastLayer \notin ended
  \/ pc[h] = "finalize" /\ ~ AllFinalize(h)

Gone(h)   == pc[h] \in {"exit", "failed"}
Idle(k)   == ~ Deliverable(k) /\ k \notin (Keeping \cap delivered) \ ended
NoDeadlock ==
  (\A h \in Host : Waits(h) \/ Gone(h)) /\ (\A k \in Kernel : Idle(k))
    => \A h \in Host : Gone(h)

(* The hosts and the kernels together: what module Streams promises is     *)
(* only promised to hosts that wait where they must.                       *)
S == INSTANCE Streams
RefinesStreams == S!Spec

(* They compute each layer as an inference on one machine would: a layer   *)
(* is computed when its kernel has got its input, by channel or memory.    *)
OutputOf(l) ==
  IF l \in delivered /\ (l \in Concats => inputs[l] = Inputs[l]) THEN l ELSE Garbage

I == INSTANCE Inference WITH
       Layer    <- Layers,
       Feeds    <- [l \in Layers |-> {Inputs[l][k] : k \in DOMAIN Inputs[l]} \ {Image}],
       NoTensor <- Garbage,
       output   <- [l \in Layers |-> OutputOf(l)],
       answered <- \E h \in Host : result[h] = LastLayer

RefinesInference == I!Spec

(* The classification is found, and then every process ends: the hosts and *)
(* the kernels of all FPGAs never wait for one another in a circle, and no *)
(* tensor goes to a port nobody listens on.                                *)
ClassifiedAndOver ==
  <>((\E h \in Host : result[h] = LastLayer) /\ \A h \in Host : pc[h] = "exit")
=============================================================================
