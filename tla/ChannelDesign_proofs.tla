------------------------ MODULE ChannelDesign_proofs ------------------------
(***************************************************************************)
(* Theorems about ChannelDesign for every network of kernels, every cut of *)
(* it into bitstreams and hosts and every order of launches that the       *)
(* assumptions of that module allow.                                       *)
(***************************************************************************)
EXTENDS ChannelDesign, KernelNet_proofs, SequenceTheorems

(* What each host has enqueued: feeders, layers, and the padding kernels   *)
(* of the layers it has begun with.                                        *)
FedBy(h)   == {FeederOrder[h][i] : i \in 1 .. fed[h]}
Done(h)    == {Order[h][i] : i \in 1 .. launched[h]}
Current(h) == Order[h][launched[h] + 1]
Begun(h)   == IF pc[h] = "padded" THEN Done(h) \cup {Current(h)} ELSE Done(h)

Enqueued(k) ==
  \E h \in Host : \/ k \in FedBy(h) \/ k \in Done(h)
                  \/ \E l \in Begun(h) \cap Padded : PadKernel[l] = k

(* The kernels that run are those that were enqueued, at one place each.   *)
StartedOK == \A k \in Kernel : k \in started <=> Enqueued(k)

Before == {"options", "flash", "barrier", "failed"}
After  == {"read", "finalize", "exit"}

(* Where a host is, and what it has done.                                  *)
PlaceAt(h) ==
  /\ pc[h] = "padded" => launched[h] < Len(Order[h]) /\ Current(h) \in Padded
  /\ pc[h] \in Before => fed[h] = 0
  /\ pc[h] \in Before \cup {"feed"} => launched[h] = 0
  /\ pc[h] \in {"walk", "padded"} => LastLayer \notin Done(h)
  /\ pc[h] \in {"walk", "padded"} \cup After => fed[h] = Len(FeederOrder[h])
  /\ pc[h] \in After => launched[h] = Len(Order[h])
  /\ pc[h] \in {"finalize", "exit"} /\ LastLayer \in Done(h) => LastLayer \in ended

PlaceOK == \A h \in Host : PlaceAt(h)

(* Nobody passes the barrier, or MPI_Finalize, before all are there.       *)
TogetherOK ==
  /\ (\E h \in Host : pc[h] \notin Before) => \A h \in Host : pc[h] \notin {"options", "flash"}
  /\ (\E h \in Host : pc[h] = "exit") => \A h \in Host : pc[h] \in {"finalize", "exit"}

(* The index a launched layer left is that of the buffer it writes.        *)
KeptOK ==
  \A h \in Host : \A l \in Done(h) \cap Keeping :
    outBuf[l] < Len(buffers[h]) /\ buffers[h][outBuf[l] + 1] = l

(* Kernels got their input after those that feed them, and started after   *)
(* those the host waits for.                                               *)
FlowOK ==
  /\ \A k \in started : Net.after[k] \subseteq delivered
  /\ \A k \in delivered : Feeding(Net, k) \subseteq delivered

IInv == TypeOK /\ StartedOK /\ PlaceOK /\ TogetherOK /\ KeptOK /\ ConcatInputsRight /\ FlowOK

-----------------------------------------------------------------------------
(* The orders of launches.                                                 *)

LEMMA Orders ==
  ASSUME NEW h \in Host
  PROVE  /\ Len(Order[h]) \in Nat /\ DOMAIN Order[h] = 1 .. Len(Order[h])
         /\ \A i \in 1 .. Len(Order[h]) : Order[h][i] \in Layers
         /\ Len(FeederOrder[h]) \in Nat /\ DOMAIN FeederOrder[h] = 1 .. Len(FeederOrder[h])
         /\ \A i \in 1 .. Len(FeederOrder[h]) : FeederOrder[h][i] \in Kernel \ Layers
<1>1. Order[h] \in Seq(Layers) /\ FeederOrder[h] \in Seq(Kernel \ Layers)
  BY ChannelAssumption
<1>2. Len(Order[h]) \in Nat /\ DOMAIN Order[h] = 1 .. Len(Order[h])
  BY <1>1, LenProperties
<1>3. Len(FeederOrder[h]) \in Nat /\ DOMAIN FeederOrder[h] = 1 .. Len(FeederOrder[h])
  BY <1>1, LenProperties
<1>4. \A i \in 1 .. Len(Order[h]) : Order[h][i] \in Layers
  BY <1>1, <1>2, ElementOfSeq
<1>5. \A i \in 1 .. Len(FeederOrder[h]) : FeederOrder[h][i] \in Kernel \ Layers
  BY <1>1, <1>3, ElementOfSeq
<1> QED BY <1>2, <1>3, <1>4, <1>5

LEMMA Progress ==
  ASSUME TypeOK, NEW h \in Host
  PROVE  /\ fed[h] \in Nat /\ fed[h] <= Len(FeederOrder[h])
         /\ launched[h] \in Nat /\ launched[h] <= Len(Order[h])
         /\ FedBy(h) \subseteq Kernel \ Layers /\ Done(h) \subseteq Layers
<1>1. /\ fed[h] \in Nat /\ fed[h] <= Len(FeederOrder[h])
      /\ launched[h] \in Nat /\ launched[h] <= Len(Order[h])
  BY DEF TypeOK
<1>2. FedBy(h) \subseteq Kernel \ Layers
  BY <1>1, Orders DEF FedBy
<1>3. Done(h) \subseteq Layers
  BY <1>1, Orders DEF Done
<1> QED BY <1>1, <1>2, <1>3

(* The layer a host stands before was not launched anywhere.               *)
LEMMA CurrentIsNew ==
  ASSUME TypeOK, NEW h \in Host, launched[h] < Len(Order[h])
  PROVE  /\ Current(h) \in Layers
         /\ \A g \in Host : Current(h) \notin Done(g)
         /\ \A g \in Host : g # h /\ launched[g] < Len(Order[g]) => Current(g) # Current(h)
<1>1. launched[h] + 1 \in 1 .. Len(Order[h])
  BY Progress, Orders
<1>2. Current(h) \in Layers
  BY <1>1, Orders DEF Current
<1>3. ASSUME NEW g \in Host, Current(h) \in Done(g) PROVE FALSE
  <2>1. PICK i \in 1 .. launched[g] : Order[g][i] = Order[h][launched[h] + 1]
    BY <1>3 DEF Done, Current
  <2>2. i \in DOMAIN Order[g] /\ launched[h] + 1 \in DOMAIN Order[h]
    BY <1>1, Progress, Orders
  <2>3. g = h /\ i = launched[h] + 1
    BY <2>1, <2>2, PlaceAssumption
  <2> QED BY <2>3, Progress
<1>4. ASSUME NEW g \in Host, g # h, launched[g] < Len(Order[g]), Current(g) = Current(h)
      PROVE  FALSE
  <2>1. launched[g] + 1 \in DOMAIN Order[g] /\ launched[h] + 1 \in DOMAIN Order[h]
    BY <1>1, <1>4, Progress, Orders
  <2> QED BY <1>4, <2>1, PlaceAssumption DEF Current
<1> QED BY <1>2, <1>3, <1>4

-----------------------------------------------------------------------------
(* What the four ways to launch a layer have in common.                    *)

LaunchStep(h, l) ==
  /\ l = Current(h) /\ l \in Layers
  /\ launched[h] < Len(Order[h]) /\ pc[h] \in {"walk", "padded"}
  /\ l \in Padded <=> pc[h] = "padded"
  /\ launched' = [launched EXCEPT ![h] = @ + 1]
  /\ pc' = [pc EXCEPT ![h] = IF l = LastLayer THEN "read" ELSE "walk"]
  /\ fed' = fed /\ result' = result
  /\ StartKernel(l)
  /\ \E slots \in Seq(Layers \cup {Nobody}) : buffers' = [buffers EXCEPT ![h] = @ \o slots]
  /\ outBuf' \in [Layers -> Nat]
  /\ \A m \in Layers : m # l => outBuf'[m] = outBuf[m]
  /\ l \in Keeping => outBuf'[l] < Len(buffers'[h]) /\ buffers'[h][outBuf'[l] + 1] = l
  /\ inputs' \in [Kernel -> Seq(Layers \cup {Image, Garbage})]
  /\ \A m \in Kernel : m # l => inputs'[m] = inputs[m]
  /\ l \in Concats => /\ Waited(l)
                      /\ inputs'[l] = [k \in DOMAIN Parents[l] |->
                                         Buffer(h, outBuf[Parents[l][k]])]

LEMMA SlotsOf ==
  ASSUME NEW l \in Layers
  PROVE  /\ Slots(l) \in Seq(Layers \cup {Nobody})
         /\ l \in Keeping => Len(Slots(l)) = 3 /\ Slots(l)[3] = l
<1> DEFINE two == <<Nobody, Nobody>>
           one == <<l>>
           none == <<>>
           E == Layers \cup {Nobody}
<1>1. two \in Seq(E) /\ Len(two) = 2 /\ one \in Seq(E) /\ Len(one) = 1 /\ one[1] = l
  OBVIOUS
<1>2. none \in Seq(E)
  OBVIOUS
<1> HIDE DEF two, one, none, E
<1>3. two \o one \in Seq(E) /\ two \o none \in Seq(E)
  BY <1>1, <1>2, ConcatProperties
<1>4. Len(two \o one) = 3
  <2>1. Len(two \o one) = Len(two) + Len(one)
    BY <1>1, ConcatProperties
  <2> DEFINE c == two \o one
  <2> HIDE DEF c
  <2>2. Len(c) = 3
    BY <1>1, <2>1 DEF c
  <2> QED BY <2>2 DEF c
<1>5. (two \o one)[3] = l
  <2>1. \A i \in 1 .. Len(two) + Len(one) :
          (two \o one)[i] = IF i <= Len(two) THEN two[i] ELSE one[i - Len(two)]
    BY <1>1, ConcatProperties
  <2> DEFINE c == two \o one
  <2>2. \A i \in 1 .. Len(two) + Len(one) :
          c[i] = IF i <= Len(two) THEN two[i] ELSE one[i - Len(two)]
    BY <2>1
  <2> HIDE DEF c
  <2>3. 3 \in 1 .. Len(two) + Len(one) /\ ~ (3 <= Len(two)) /\ 3 - Len(two) = 1
    BY <1>1
  <2>4. c[3] = one[1]
    BY <2>2, <2>3
  <2> QED BY <1>1, <2>4 DEF c
<1> QED BY <1>3, <1>4, <1>5 DEF Slots, two, one, none, E

LEMMA BufferOf ==
  ASSUME TypeOK, NEW h \in Host, NEW i
  PROVE  Buffer(h, i) \in Layers \cup {Image, Garbage}
BY ChannelAssumption DEF Buffer, TypeOK

LEMMA ParentsOf ==
  ASSUME NEW l \in Concats
  PROVE  /\ Len(Parents[l]) \in Nat /\ DOMAIN Parents[l] = 1 .. Len(Parents[l])
         /\ \A k \in DOMAIN Parents[l] : Parents[l][k] \in Keeping
         /\ Parents[l] = [k \in DOMAIN Parents[l] |-> Parents[l][k]]
<1>1. Parents[l] \in Seq(Keeping)
  BY ChannelAssumption
<1>2. /\ Len(Parents[l]) \in Nat /\ DOMAIN Parents[l] = 1 .. Len(Parents[l])
      /\ Parents[l] \in [1 .. Len(Parents[l]) -> Keeping]
  BY <1>1, LenProperties
<1>3. \A k \in DOMAIN Parents[l] : Parents[l][k] \in Keeping
  BY <1>2
<1>4. Parents[l] = [k \in DOMAIN Parents[l] |-> Parents[l][k]]
  BY <1>2
<1> QED BY <1>2, <1>3, <1>4

LEMMA ConvolutionLaunched ==
  ASSUME TypeOK, NEW h \in Host, launched[h] < Len(Order[h]),
         pc[h] \in {"walk", "padded"},
         Current(h) \in Padded <=> pc[h] = "padded", Current(h) \notin Concats,
         LaunchConvolution(h, Current(h))
  PROVE  LaunchStep(h, Current(h))
<1> DEFINE l == Current(h)
           b == buffers[h]
<1>1. l \in Layers
  BY CurrentIsNew
<1>2. /\ buffers' = [buffers EXCEPT ![h] = @ \o Slots(l)]
      /\ outBuf' = IF l \in Keeping THEN [outBuf EXCEPT ![l] = Index(h, l)] ELSE outBuf
      /\ StartKernel(l)
      /\ launched' = [launched EXCEPT ![h] = @ + 1]
      /\ pc' = [pc EXCEPT ![h] = IF l = LastLayer THEN "read" ELSE "walk"]
      /\ fed' = fed /\ inputs' = inputs /\ result' = result
  BY DEF LaunchConvolution, Allocate, Launched, Goto
<1>3. /\ b \in Seq(Layers \cup {Image, Nobody}) /\ outBuf \in [Layers -> Nat]
      /\ inputs \in [Kernel -> Seq(Layers \cup {Image, Garbage})]
      /\ buffers'[h] = b \o Slots(l)
  BY <1>2 DEF TypeOK
<1>4. Slots(l) \in Seq(Layers \cup {Image, Nobody})
  <2>1. Slots(l) \in Seq(Layers \cup {Nobody})
    BY <1>1, SlotsOf
  <2>2. Layers \cup {Nobody} \subseteq Layers \cup {Image, Nobody}
    OBVIOUS
  <2> HIDE DEF l
  <2> QED BY <2>1, <2>2, SeqMonotonic
<1>5. Len(b) \in Nat
  BY <1>3, LenProperties
<1>6. ASSUME l \in Keeping
      PROVE  /\ outBuf'[l] = Len(b) + 2
             /\ outBuf'[l] < Len(buffers'[h]) /\ buffers'[h][outBuf'[l] + 1] = l
  <2>1. Len(Slots(l)) = 3 /\ Slots(l)[3] = l
    BY <1>1, <1>6, SlotsOf
  <2>2. Len(b \o Slots(l)) = Len(b) + Len(Slots(l))
    BY <1>3, <1>4, ConcatProperties
  <2>3. \A i \in 1 .. Len(b) + Len(Slots(l)) :
          (b \o Slots(l))[i] = IF i <= Len(b) THEN b[i] ELSE Slots(l)[i - Len(b)]
    BY <1>3, <1>4, ConcatProperties
  <2>4. outBuf'[l] = Len(b) + 2
    <3>1. outBuf'[l] = Index(h, l)
      BY <1>1, <1>2, <1>3, <1>6
    <3> QED BY <1>5, <2>1, <3>1 DEF Index, Top
  <2>5. (b \o Slots(l))[Len(b) + 3] = Slots(l)[3]
    <3> DEFINE t == Slots(l)
               c == b \o t
               n == Len(b)
    <3> HIDE DEF t, c, n
    <3>1. n \in Nat /\ Len(t) = 3
      BY <1>5, <2>1 DEF n, t
    <3>2. n + 3 \in 1 .. n + Len(t) /\ ~ (n + 3 <= n) /\ (n + 3) - n = 3
      BY <3>1
    <3>3. \A i \in 1 .. n + Len(t) : c[i] = IF i <= n THEN b[i] ELSE t[i - n]
      BY <2>3 DEF c, t, n
    <3>4. c[n + 3] = t[3]
      BY <3>2, <3>3
    <3> QED BY <3>4 DEF c, t, n
  <2>6. Len(buffers'[h]) = Len(b) + 3
    BY <1>3, <2>1, <2>2
  <2>7. outBuf'[l] + 1 = Len(b) + 3 /\ outBuf'[l] < Len(buffers'[h])
    BY <1>5, <2>4, <2>6
  <2> QED BY <1>3, <2>1, <2>4, <2>5, <2>7
<1>7. /\ outBuf' \in [Layers -> Nat]
      /\ \A m \in Layers : m # l => outBuf'[m] = outBuf[m]
  <2>1. CASE l \in Keeping
    BY <1>1, <1>2, <1>3, <1>5, <1>6, <2>1
  <2>2. CASE l \notin Keeping
    BY <1>2, <1>3, <2>2
  <2> QED BY <2>1, <2>2
<1>8. \E slots \in Seq(Layers \cup {Nobody}) : buffers' = [buffers EXCEPT ![h] = @ \o slots]
  BY <1>1, <1>2, SlotsOf
<1>9. l \in Padded <=> pc[h] = "padded"
  OBVIOUS
<1>10. l \notin Concats
  OBVIOUS
<1> HIDE DEF l
<1>11. l = Current(h)
  BY DEF l
<1> QED BY <1>1, <1>2, <1>3, <1>6, <1>7, <1>8, <1>9, <1>10, <1>11 DEF LaunchStep

(* Adding buffers nobody writes to.                                        *)
LEMMA Unwritten ==
  /\ <<Nobody>> \in Seq(Layers \cup {Nobody})
  /\ <<Nobody, Nobody, Nobody, Nobody>> \in Seq(Layers \cup {Nobody})
OBVIOUS

LEMMA PoolingLaunched ==
  ASSUME TypeOK, NEW h \in Host, LaunchPooling(h)
  PROVE  LaunchStep(h, Current(h))
<1> DEFINE l == Current(h)
<1>1. /\ l \in Poolings /\ pc[h] = "walk" /\ launched[h] < Len(Order[h])
      /\ buffers' = [buffers EXCEPT ![h] = @ \o <<Nobody>>]
      /\ outBuf' = [outBuf EXCEPT ![l] = Len(buffers[h])]
      /\ StartKernel(l)
      /\ launched' = [launched EXCEPT ![h] = @ + 1]
      /\ pc' = [pc EXCEPT ![h] = IF l = LastLayer THEN "read" ELSE "walk"]
      /\ fed' = fed /\ inputs' = inputs /\ result' = result
  BY DEF LaunchPooling, Walking, Current, Allocate, Launched, Goto
<1>2. /\ l \in Layers /\ l \notin Padded /\ l \notin Concats /\ l \notin Keeping
  BY <1>1, ChannelAssumption
<1>3. Len(buffers[h]) \in Nat
  <2>1. buffers[h] \in Seq(Layers \cup {Image, Nobody})
    BY DEF TypeOK
  <2> QED BY <2>1, LenProperties
<1>4. /\ outBuf \in [Layers -> Nat]
      /\ inputs \in [Kernel -> Seq(Layers \cup {Image, Garbage})]
  BY DEF TypeOK
<1>5. outBuf' \in [Layers -> Nat] /\ \A m \in Layers : m # l => outBuf'[m] = outBuf[m]
  BY <1>1, <1>2, <1>3, <1>4
<1>6. \E slots \in Seq(Layers \cup {Nobody}) : buffers' = [buffers EXCEPT ![h] = @ \o slots]
  BY <1>1, Unwritten
<1>7. l = Current(h)
  OBVIOUS
<1> HIDE DEF l
<1> QED BY <1>1, <1>2, <1>4, <1>5, <1>6, <1>7 DEF LaunchStep

LEMMA ConcatLaunched ==
  ASSUME TypeOK, NEW h \in Host, LaunchConcat(h)
  PROVE  LaunchStep(h, Current(h))
<1> DEFINE l == Current(h)
           in == [k \in DOMAIN Parents[l] |-> Buffer(h, outBuf[Parents[l][k]])]
<1>1. /\ l \in Concats /\ pc[h] = "walk" /\ launched[h] < Len(Order[h]) /\ Waited(l)
      /\ inputs' = [inputs EXCEPT ![l] = in]
      /\ buffers' = [buffers EXCEPT ![h] = @ \o <<Nobody, Nobody, Nobody, Nobody>>]
      /\ outBuf' = outBuf
      /\ StartKernel(l)
      /\ launched' = [launched EXCEPT ![h] = @ + 1]
      /\ pc' = [pc EXCEPT ![h] = IF l = LastLayer THEN "read" ELSE "walk"]
      /\ fed' = fed /\ result' = result
  BY DEF LaunchConcat, Walking, Current, Allocate, Launched, Goto
<1>2. l \in Layers /\ l \in Kernel /\ l \notin Padded /\ l \notin Keeping
  BY <1>1, ChannelAssumption
<1>3. /\ outBuf \in [Layers -> Nat]
      /\ inputs \in [Kernel -> Seq(Layers \cup {Image, Garbage})]
  BY DEF TypeOK
<1>4. in \in Seq(Layers \cup {Image, Garbage})
  <2> DEFINE n == Len(Parents[l])
             T == Layers \cup {Image, Garbage}
  <2>1. n \in Nat /\ DOMAIN Parents[l] = 1 .. n
    BY <1>1, ParentsOf
  <2>2. \A k \in 1 .. n : Buffer(h, outBuf[Parents[l][k]]) \in T
    BY BufferOf
  <2>3. in \in [1 .. n -> T]
    BY <2>1, <2>2
  <2> HIDE DEF in, n, T
  <2>4. in \in Seq(T)
    BY <2>1, <2>3, SeqDef
  <2> QED BY <2>4 DEF T
<1>5. /\ inputs' \in [Kernel -> Seq(Layers \cup {Image, Garbage})]
      /\ inputs'[l] = in
      /\ \A m \in Kernel : m # l => inputs'[m] = inputs[m]
  <2> HIDE DEF in
  <2> QED BY <1>1, <1>2, <1>3, <1>4
<1>6. \E slots \in Seq(Layers \cup {Nobody}) : buffers' = [buffers EXCEPT ![h] = @ \o slots]
  BY <1>1, Unwritten
<1>7. l = Current(h) /\ inputs'[l] = [k \in DOMAIN Parents[l] |-> Buffer(h, outBuf[Parents[l][k]])]
  BY <1>5
<1> HIDE DEF l, in
<1> QED BY <1>1, <1>2, <1>3, <1>5, <1>6, <1>7 DEF LaunchStep

LEMMA LayerLaunched ==
  ASSUME TypeOK, PlaceOK, NEW h \in Host,
         LaunchPadded(h) \/ LaunchUnpadded(h) \/ LaunchPooling(h) \/ LaunchConcat(h)
  PROVE  LaunchStep(h, Current(h))
<1>1. CASE LaunchPadded(h)
  <2>1. pc[h] = "padded" /\ LaunchConvolution(h, Current(h))
    BY <1>1 DEF LaunchPadded, Current
  <2>2. launched[h] < Len(Order[h]) /\ Current(h) \in Padded
    BY <2>1 DEF PlaceOK, PlaceAt
  <2>3. Current(h) \notin Concats
    BY <2>2, ChannelAssumption
  <2> QED BY <2>1, <2>2, <2>3, ConvolutionLaunched
<1>2. CASE LaunchUnpadded(h)
  <2>1. /\ Current(h) \in Layers \ (Padded \cup Concats \cup Poolings)
        /\ pc[h] = "walk" /\ launched[h] < Len(Order[h])
        /\ LaunchConvolution(h, Current(h))
    BY <1>2 DEF LaunchUnpadded, Walking, Current
  <2> QED BY <2>1, ConvolutionLaunched
<1> QED BY <1>1, <1>2, PoolingLaunched, ConcatLaunched

-----------------------------------------------------------------------------
(* The types.                                                              *)

Place == {"options", "flash", "barrier", "feed", "walk", "padded",
             "read", "finalize", "exit", "failed"}

(* A host moves on without enqueueing anything.                            *)
Quiet(h) ==
  \/ Options(h) \/ Flash(h) \/ Barrier(h) \/ StartWalk(h)
  \/ ReadScores(h) \/ WalkEnds(h) \/ Exit(h)

LEMMA QuietStep ==
  ASSUME TypeOK, NEW h \in Host, Quiet(h)
  PROVE  /\ pc[h] # "padded"
         /\ \E p \in Place \ {"padded"} : pc' = [pc EXCEPT ![h] = p]
         /\ fed' = fed /\ launched' = launched /\ outBuf' = outBuf /\ inputs' = inputs
         /\ started' = started /\ delivered' = delivered /\ ended' = ended
BY DEF Quiet, Options, Flash, Barrier, StartWalk, ReadScores, WalkEnds, Exit, Goto,
       memory_vars, kernel_vars, Place

LEMMA StartTypes ==
  ASSUME TypeOK, NEW k \in Kernel, StartKernel(k)
  PROVE  /\ delivered' \subseteq started' /\ started' \subseteq Kernel
         /\ ended' \subseteq delivered' \cap Keeping
BY DEF TypeOK, StartKernel

LEMMA QuietTypes ==
  ASSUME TypeOK, NEW h \in Host, Quiet(h)
  PROVE  TypeOK'
<1>1. PICK p \in Place : pc' = [pc EXCEPT ![h] = p]
  BY QuietStep
<1>2. pc' \in [Host -> Place]
  BY <1>1 DEF TypeOK, Place
<1>3. buffers' \in [Host -> Seq(Layers \cup {Image, Nobody})]
  <2> DEFINE T == Layers \cup {Image, Nobody}
  <2>1. <<Image>> \in Seq(T)
    OBVIOUS
  <2>2. buffers' = buffers \/ buffers' = [buffers EXCEPT ![h] = <<Image>>]
    BY DEF Quiet, Options, Flash, Barrier, StartWalk, ReadScores, WalkEnds, Exit, memory_vars
  <2>3. buffers \in [Host -> Seq(T)]
    BY DEF TypeOK
  <2> HIDE DEF T
  <2>4. buffers' \in [Host -> Seq(T)]
    BY <2>1, <2>2, <2>3
  <2> QED BY <2>4 DEF T
<1>4. result' \in [Host -> Layers \cup {Image, Garbage}]
  <2> DEFINE b == Buffer(h, outBuf[LastLayer])
             T == Layers \cup {Image, Garbage}
  <2>1. b \in T
    BY BufferOf
  <2>2. result' = result \/ result' = [result EXCEPT ![h] = b]
    BY DEF Quiet, Options, Flash, Barrier, StartWalk, ReadScores, WalkEnds, Exit
  <2>3. result \in [Host -> T]
    BY DEF TypeOK
  <2> HIDE DEF b, T
  <2>4. result' \in [Host -> T]
    BY <2>1, <2>2, <2>3
  <2> QED BY <2>4 DEF T
<1> QED BY <1>2, <1>3, <1>4, QuietStep DEF TypeOK, Place

LEMMA FeedStep ==
  ASSUME TypeOK, NEW h \in Host, Feed(h)
  PROVE  /\ pc[h] = "feed" /\ fed[h] < Len(FeederOrder[h])
         /\ fed[h] + 1 \in DOMAIN FeederOrder[h]
         /\ FeederOrder[h][fed[h] + 1] \in Kernel \ Layers
         /\ StartKernel(FeederOrder[h][fed[h] + 1])
         /\ fed' = [fed EXCEPT ![h] = @ + 1]
         /\ pc' = pc /\ launched' = launched /\ buffers' = buffers /\ outBuf' = outBuf
         /\ inputs' = inputs /\ result' = result
<1>1. /\ pc[h] = "feed" /\ fed[h] < Len(FeederOrder[h])
      /\ StartKernel(FeederOrder[h][fed[h] + 1])
      /\ fed' = [fed EXCEPT ![h] = @ + 1]
      /\ pc' = pc /\ launched' = launched /\ buffers' = buffers /\ outBuf' = outBuf
      /\ inputs' = inputs /\ result' = result
  BY DEF Feed, memory_vars
<1>2. fed[h] + 1 \in 1 .. Len(FeederOrder[h])
  BY <1>1, Progress, Orders
<1> QED BY <1>1, <1>2, Orders

LEMMA FeedTypes ==
  ASSUME TypeOK, NEW h \in Host, Feed(h)
  PROVE  TypeOK'
<1>1. fed' \in [Host -> Nat] /\ \A g \in Host : fed'[g] <= Len(FeederOrder[g])
  <2>1. fed \in [Host -> Nat] /\ \A g \in Host : fed[g] <= Len(FeederOrder[g])
    BY DEF TypeOK
  <2>2. fed' = [fed EXCEPT ![h] = @ + 1] /\ fed[h] < Len(FeederOrder[h])
    BY FeedStep
  <2> QED BY <2>1, <2>2, Orders
<1>2. /\ delivered' \subseteq started' /\ started' \subseteq Kernel
      /\ ended' \subseteq delivered' \cap Keeping
  BY FeedStep, StartTypes
<1> QED BY <1>1, <1>2, FeedStep DEF TypeOK

LEMMA PadStep ==
  ASSUME TypeOK, NEW h \in Host, LaunchPad(h)
  PROVE  /\ pc[h] = "walk" /\ launched[h] < Len(Order[h])
         /\ Current(h) \in Padded
         /\ PadKernel[Current(h)] \in Kernel \ Layers
         /\ StartKernel(PadKernel[Current(h)])
         /\ pc' = [pc EXCEPT ![h] = "padded"]
         /\ buffers' = [buffers EXCEPT ![h] = @ \o <<Nobody>>]
         /\ \/ inputs' = inputs
            \/ inputs' = [inputs EXCEPT ![PadKernel[Current(h)]] = <<Buffer(h, 0)>>]
         /\ fed' = fed /\ launched' = launched /\ outBuf' = outBuf /\ result' = result
<1>1. /\ pc[h] = "walk" /\ launched[h] < Len(Order[h])
      /\ Current(h) \in Padded
      /\ StartKernel(PadKernel[Current(h)])
      /\ pc' = [pc EXCEPT ![h] = "padded"]
      /\ buffers' = [buffers EXCEPT ![h] = @ \o <<Nobody>>]
      /\ \/ inputs' = inputs
         \/ inputs' = [inputs EXCEPT ![PadKernel[Current(h)]] = <<Buffer(h, 0)>>]
      /\ fed' = fed /\ launched' = launched /\ outBuf' = outBuf /\ result' = result
  BY DEF LaunchPad, Walking, Current, Allocate, Goto
<1> QED BY <1>1, ChannelAssumption

LEMMA PadTypes ==
  ASSUME TypeOK, NEW h \in Host, LaunchPad(h)
  PROVE  TypeOK'
<1> DEFINE k == PadKernel[Current(h)]
           T == Layers \cup {Image, Nobody}
           V == Layers \cup {Image, Garbage}
           b == Buffer(h, 0)
<1>1. pc' \in [Host -> Place]
  BY PadStep DEF TypeOK, Place
<1>2. buffers' \in [Host -> Seq(T)]
  <2>1. <<Nobody>> \in Seq(T)
    OBVIOUS
  <2>2. buffers \in [Host -> Seq(T)]
    BY DEF TypeOK
  <2> HIDE DEF T
  <2>3. buffers[h] \o <<Nobody>> \in Seq(T)
    BY <2>1, <2>2, ConcatProperties
  <2> QED BY <2>2, <2>3, PadStep
<1>3. inputs' \in [Kernel -> Seq(V)]
  <2>1. b \in V
    BY BufferOf
  <2>2. inputs \in [Kernel -> Seq(V)]
    BY DEF TypeOK
  <2>3. inputs' = inputs \/ inputs' = [inputs EXCEPT ![k] = <<b>>]
    BY PadStep
  <2> HIDE DEF b, V, k
  <2>4. <<b>> \in Seq(V)
    BY <2>1
  <2> QED BY <2>2, <2>3, <2>4
<1>4. /\ delivered' \subseteq started' /\ started' \subseteq Kernel
      /\ ended' \subseteq delivered' \cap Keeping
  BY PadStep, StartTypes
<1> QED BY <1>1, <1>2, <1>3, <1>4, PadStep DEF TypeOK, Place

LEMMA LaunchTypes ==
  ASSUME TypeOK, NEW h \in Host, NEW l, LaunchStep(h, l)
  PROVE  TypeOK'
<1> DEFINE T == Layers \cup {Image, Nobody}
<1>1. pc' \in [Host -> Place]
  <2>1. PICK p \in Place : pc' = [pc EXCEPT ![h] = p]
    <3>1. "read" \in Place /\ "walk" \in Place
      BY DEF Place
    <3> QED BY <3>1 DEF LaunchStep
  <2> QED BY <2>1 DEF TypeOK, Place
<1>2. launched' \in [Host -> Nat] /\ \A g \in Host : launched'[g] <= Len(Order[g])
  BY Orders, SMTT(30) DEF LaunchStep, TypeOK
<1>3. buffers' \in [Host -> Seq(T)]
  <2>1. PICK slots \in Seq(Layers \cup {Nobody}) : buffers' = [buffers EXCEPT ![h] = @ \o slots]
    BY DEF LaunchStep
  <2>2. slots \in Seq(T)
    <3>1. Layers \cup {Nobody} \subseteq T
      OBVIOUS
    <3> HIDE DEF T
    <3> QED BY <3>1, SeqMonotonic
  <2>3. buffers \in [Host -> Seq(T)]
    BY DEF TypeOK
  <2> HIDE DEF T
  <2>4. buffers[h] \o slots \in Seq(T)
    BY <2>2, <2>3, ConcatProperties
  <2> QED BY <2>1, <2>3, <2>4
<1>4. /\ delivered' \subseteq started' /\ started' \subseteq Kernel
      /\ ended' \subseteq delivered' \cap Keeping
  <2>1. l \in Kernel /\ StartKernel(l)
    BY ChannelAssumption DEF LaunchStep
  <2> QED BY <2>1, StartTypes
<1> QED BY <1>1, <1>2, <1>3, <1>4 DEF LaunchStep, TypeOK, Place

LEMMA WorkTypes ==
  ASSUME TypeOK, NEW k \in Kernel, Work(k)
  PROVE  TypeOK'
BY DEF Work, Deliver, Deliverable, End, TypeOK, host_vars, memory_vars

-----------------------------------------------------------------------------
(* What is enqueued, and that nothing is enqueued twice.                   *)

LEMMA SamePlace ==
  ASSUME NEW g \in Host, fed'[g] = fed[g], launched'[g] = launched[g],
         pc'[g] = "padded" <=> pc[g] = "padded"
  PROVE  FedBy(g)' = FedBy(g) /\ Done(g)' = Done(g) /\ Begun(g)' = Begun(g)
BY DEF FedBy, Done, Begun, Current

LEMMA QuietEnqueues ==
  ASSUME TypeOK, NEW h \in Host, Quiet(h)
  PROVE  \A g \in Host : FedBy(g)' = FedBy(g) /\ Done(g)' = Done(g) /\ Begun(g)' = Begun(g)
<1> SUFFICES ASSUME NEW g \in Host
             PROVE  FedBy(g)' = FedBy(g) /\ Done(g)' = Done(g) /\ Begun(g)' = Begun(g)
  OBVIOUS
<1>1. fed'[g] = fed[g] /\ launched'[g] = launched[g]
  BY QuietStep
<1>2. pc'[g] = "padded" <=> pc[g] = "padded"
  <2>1. PICK p \in Place \ {"padded"} : pc' = [pc EXCEPT ![h] = p]
    BY QuietStep
  <2>2. pc[h] # "padded" /\ pc \in [Host -> Place]
    BY QuietStep DEF TypeOK, Place
  <2> QED BY <2>1, <2>2
<1> QED BY <1>1, <1>2, SamePlace

LEMMA FeedEnqueues ==
  ASSUME TypeOK, NEW h \in Host, Feed(h)
  PROVE  /\ \A g \in Host : Done(g)' = Done(g) /\ Begun(g)' = Begun(g)
         /\ \A g \in Host : g # h => FedBy(g)' = FedBy(g)
         /\ FedBy(h)' = FedBy(h) \cup {FeederOrder[h][fed[h] + 1]}
<1>1. fed \in [Host -> Nat] /\ fed' = [fed EXCEPT ![h] = @ + 1]
  BY FeedStep DEF TypeOK
<1>2. \A g \in Host : g # h => fed'[g] = fed[g]
  BY <1>1
<1>3. fed'[h] = fed[h] + 1 /\ fed[h] \in Nat
  BY <1>1
<1>4. pc' = pc /\ launched' = launched
  BY FeedStep
<1>5. FedBy(h)' = {FeederOrder[h][i] : i \in 1 .. fed[h] + 1}
  BY <1>3 DEF FedBy
<1>6. 1 .. fed[h] + 1 = (1 .. fed[h]) \cup {fed[h] + 1}
  BY <1>3
<1>7. FedBy(h)' = FedBy(h) \cup {FeederOrder[h][fed[h] + 1]}
  BY <1>5, <1>6 DEF FedBy
<1> QED BY <1>2, <1>4, <1>7 DEF FedBy, Done, Begun, Current

LEMMA PadEnqueues ==
  ASSUME TypeOK, NEW h \in Host, LaunchPad(h)
  PROVE  /\ \A g \in Host : FedBy(g)' = FedBy(g) /\ Done(g)' = Done(g)
         /\ \A g \in Host : g # h => Begun(g)' = Begun(g)
         /\ Begun(h)' = Begun(h) \cup {Current(h)}
<1>1. pc \in [Host -> Place] /\ pc' = [pc EXCEPT ![h] = "padded"] /\ pc[h] = "walk"
  BY PadStep DEF TypeOK, Place
<1>2. fed' = fed /\ launched' = launched
  BY PadStep
<1>3. pc'[h] = "padded" /\ \A g \in Host : g # h => pc'[g] = pc[g]
  BY <1>1
<1> QED BY <1>1, <1>2, <1>3 DEF FedBy, Done, Begun, Current

LEMMA LaunchEnqueues ==
  ASSUME TypeOK, NEW h \in Host, NEW l, LaunchStep(h, l)
  PROVE  /\ \A g \in Host : FedBy(g)' = FedBy(g)
         /\ \A g \in Host : g # h => Done(g)' = Done(g) /\ Begun(g)' = Begun(g)
         /\ Done(h)' = Done(h) \cup {l}
         /\ Begun(h)' \cap Padded = Begun(h) \cap Padded
<1>1. /\ pc \in [Host -> Place] /\ launched \in [Host -> Nat] /\ fed' = fed
      /\ launched' = [launched EXCEPT ![h] = @ + 1] /\ l = Current(h)
      /\ pc[h] \in {"walk", "padded"} /\ (l \in Padded <=> pc[h] = "padded")
  BY DEF LaunchStep, TypeOK, Place
<1>2. PICK p \in {"read", "walk"} : pc' = [pc EXCEPT ![h] = p]
  BY DEF LaunchStep
<1>3. launched'[h] = launched[h] + 1 /\ launched[h] \in Nat /\ pc'[h] # "padded"
  BY <1>1, <1>2
<1>4. \A g \in Host : g # h => launched'[g] = launched[g] /\ pc'[g] = pc[g]
  BY <1>1, <1>2
<1>5. Done(h)' = {Order[h][i] : i \in 1 .. launched[h] + 1}
  BY <1>3 DEF Done
<1>6. 1 .. launched[h] + 1 = (1 .. launched[h]) \cup {launched[h] + 1}
  BY <1>3
<1>7. Done(h)' = Done(h) \cup {l}
  BY <1>1, <1>5, <1>6 DEF Done, Current
<1>8. Begun(h)' \cap Padded = Begun(h) \cap Padded
  BY <1>1, <1>3, <1>7 DEF Begun
<1>9. \A g \in Host : g # h => Done(g)' = Done(g) /\ Begun(g)' = Begun(g)
  BY <1>4 DEF Done, Begun, Current
<1>10. \A g \in Host : FedBy(g)' = FedBy(g)
  BY <1>1 DEF FedBy
<1> QED BY <1>7, <1>8, <1>9, <1>10

(* None of the three kinds of kernels is enqueued when its turn comes.     *)
LEMMA PadsApart ==
  ASSUME NEW l \in Padded
  PROVE  PadKernel[l] \in Kernel \ Layers
BY ChannelAssumption

LEMMA NewFeeder ==
  ASSUME TypeOK, NEW h \in Host, fed[h] < Len(FeederOrder[h])
  PROVE  ~ Enqueued(FeederOrder[h][fed[h] + 1])
<1> DEFINE k == FeederOrder[h][fed[h] + 1]
<1>1. fed[h] + 1 \in DOMAIN FeederOrder[h] /\ k \in Kernel \ Layers /\ fed[h] \in Nat
  BY Progress, Orders
<1> SUFFICES ASSUME Enqueued(k) PROVE FALSE
  OBVIOUS
<1>2. PICK g \in Host : k \in FedBy(g) \/ k \in Done(g) \/ \E l \in Begun(g) \cap Padded : PadKernel[l] = k
  BY DEF Enqueued
<1>3. CASE k \in FedBy(g)
  <2>1. PICK i \in 1 .. fed[g] : FeederOrder[g][i] = k
    BY <1>3 DEF FedBy
  <2>2. i \in DOMAIN FeederOrder[g]
    BY Progress, Orders
  <2>3. g = h /\ i = fed[h] + 1
    BY <1>1, <2>1, <2>2, PlaceAssumption
  <2> QED BY <1>1, <2>3
<1>4. CASE k \in Done(g)
  BY <1>1, <1>4, Progress
<1>5. CASE \E l \in Begun(g) \cap Padded : PadKernel[l] = k
  BY <1>1, <1>5, PlaceAssumption
<1> QED BY <1>2, <1>3, <1>4, <1>5

LEMMA NewLayer ==
  ASSUME TypeOK, NEW h \in Host, launched[h] < Len(Order[h])
  PROVE  ~ Enqueued(Current(h))
<1>1. Current(h) \in Layers /\ \A g \in Host : Current(h) \notin Done(g)
  BY CurrentIsNew
<1>2. \A g \in Host : Current(h) \notin FedBy(g)
  BY <1>1, Progress
<1>3. \A l \in Padded : PadKernel[l] # Current(h)
  BY <1>1, PadsApart
<1> QED BY <1>1, <1>2, <1>3 DEF Enqueued

LEMMA NewPad ==
  ASSUME TypeOK, PlaceOK, NEW h \in Host, launched[h] < Len(Order[h]),
         Current(h) \in Padded, pc[h] # "padded"
  PROVE  ~ Enqueued(PadKernel[Current(h)])
<1> DEFINE l == Current(h)
           k == PadKernel[l]
<1> SUFFICES ASSUME Enqueued(k) PROVE FALSE
  OBVIOUS
<1>1. k \in Kernel \ Layers
  BY PadsApart
<1>2. PICK g \in Host : k \in FedBy(g) \/ k \in Done(g) \/ \E m \in Begun(g) \cap Padded : PadKernel[m] = k
  BY DEF Enqueued
<1>3. CASE k \in FedBy(g)
  <2>1. PICK i \in 1 .. fed[g] : FeederOrder[g][i] = k
    BY <1>3 DEF FedBy
  <2>2. i \in DOMAIN FeederOrder[g]
    BY Progress, Orders
  <2> QED BY <2>1, <2>2, PlaceAssumption
<1>4. CASE k \in Done(g)
  BY <1>1, <1>4, Progress
<1>5. CASE \E m \in Begun(g) \cap Padded : PadKernel[m] = k
  <2>1. PICK m \in Begun(g) \cap Padded : PadKernel[m] = k
    BY <1>5
  <2>2. m = l
    BY <2>1, PlaceAssumption
  <2>3. l \in Begun(g) /\ l \notin Done(g)
    BY <2>1, <2>2, CurrentIsNew
  <2>4. pc[g] = "padded" /\ l = Current(g)
    BY <2>3 DEF Begun
  <2>5. g # h /\ launched[g] < Len(Order[g])
    BY <2>4 DEF PlaceOK, PlaceAt
  <2> QED BY <2>4, <2>5, CurrentIsNew
<1> QED BY <1>2, <1>3, <1>4, <1>5

-----------------------------------------------------------------------------
(* What every step does to the parts of the invariant.                     *)

LEMMA InitHolds ==
  ASSUME Init
  PROVE  IInv
<1>1. \A h \in Host : FedBy(h) = {} /\ Done(h) = {} /\ Begun(h) = {}
  BY DEF Init, FedBy, Done, Begun
<1>2. TypeOK
  <2>1. \A h \in Host : 0 <= Len(Order[h]) /\ 0 <= Len(FeederOrder[h])
    BY Orders
  <2> QED BY <2>1 DEF Init, TypeOK
<1>3. StartedOK
  BY <1>1 DEF StartedOK, Enqueued, Init
<1>4. PlaceOK /\ TogetherOK
  BY <1>1 DEF Init, PlaceOK, PlaceAt, TogetherOK, Before, After
<1>5. KeptOK /\ ConcatInputsRight /\ FlowOK
  BY <1>1 DEF Init, KeptOK, ConcatInputsRight, FlowOK
<1> QED BY <1>2, <1>3, <1>4, <1>5 DEF IInv

(* Feeders and layers and pads are enqueued by nothing else.               *)
LEMMA FeedStarts ==
  ASSUME TypeOK, NEW h \in Host, Feed(h), NEW j \in Kernel
  PROVE  Enqueued(j)' <=> Enqueued(j) \/ j = FeederOrder[h][fed[h] + 1]
BY FeedEnqueues DEF Enqueued

LEMMA PadStarts ==
  ASSUME TypeOK, NEW h \in Host, LaunchPad(h), NEW j \in Kernel
  PROVE  Enqueued(j)' <=> Enqueued(j) \/ j = PadKernel[Current(h)]
<1>1. Current(h) \in Padded
  BY PadStep
<1> QED BY <1>1, PadEnqueues DEF Enqueued

LEMMA LaunchStarts ==
  ASSUME TypeOK, NEW h \in Host, NEW l, LaunchStep(h, l), NEW j \in Kernel
  PROVE  Enqueued(j)' <=> Enqueued(j) \/ j = l
<1>1. \A g \in Host : Begun(g)' \cap Padded = Begun(g) \cap Padded
  BY LaunchEnqueues
<1> QED BY <1>1, LaunchEnqueues DEF Enqueued

LEMMA QuietStarts ==
  ASSUME TypeOK, NEW h \in Host, Quiet(h), NEW j \in Kernel
  PROVE  Enqueued(j)' <=> Enqueued(j)
BY QuietEnqueues DEF Enqueued

LEMMA StartKeepsStarted ==
  ASSUME StartedOK, NEW k \in Kernel, StartKernel(k),
         \A j \in Kernel : Enqueued(j)' <=> Enqueued(j) \/ j = k
  PROVE  StartedOK'
BY DEF StartedOK, StartKernel

LEMMA StartKeepsFlow ==
  ASSUME TypeOK, FlowOK, NEW k \in Kernel, StartKernel(k), Net.after[k] \subseteq delivered
  PROVE  FlowOK'
<1>1. started' = started \cup {k} /\ delivered \subseteq delivered'
  BY DEF StartKernel
<1>2. \A j \in started' : Net.after[j] \subseteq delivered'
  BY <1>1 DEF FlowOK
<1>3. ASSUME NEW j \in delivered' PROVE Feeding(Net, j) \subseteq delivered'
  <2>1. CASE j \in delivered
    BY <1>1, <2>1 DEF FlowOK
  <2>2. CASE j \notin delivered
    <3>1. j = k /\ Net.reads[k] = 0
      BY <1>3, <2>2 DEF StartKernel
    <3>2. Feeding(Net, k) = {}
      BY <3>1, ChannelAssumption DEF IsKernelNet, OneWriter, Kernel
    <3> QED BY <3>1, <3>2
  <2> QED BY <2>1, <2>2
<1> QED BY <1>2, <1>3 DEF FlowOK

(* A layer is not enqueued before the kernels the host has to wait for.    *)
LEMMA AfterDelivered ==
  ASSUME TypeOK, NEW k \in Kernel, k \in Concats => Waited(k)
  PROVE  Net.after[k] \subseteq delivered
<1>1. CASE k \notin Concats
  BY <1>1, ConcatAssumption
<1>2. CASE k \in Concats
  <2>1. Net.after[k] = {Parents[k][i] : i \in DOMAIN Parents[k]}
    BY <1>2, ConcatAssumption
  <2>2. \A i \in DOMAIN Parents[k] : Parents[k][i] \in ended
    BY <1>2 DEF Waited
  <2>3. ended \subseteq delivered
    BY DEF TypeOK
  <2> QED BY <2>1, <2>2, <2>3
<1> QED BY <1>1, <1>2

LEMMA Appended ==
  ASSUME NEW T, NEW b \in Seq(T), NEW t \in Seq(T), NEW i \in Nat, i < Len(b)
  PROVE  i < Len(b \o t) /\ (b \o t)[i + 1] = b[i + 1]
<1>1. Len(b) \in Nat /\ Len(t) \in Nat
  BY LenProperties
<1>2. Len(b \o t) = Len(b) + Len(t)
  BY ConcatProperties
<1>3. \A j \in 1 .. Len(b) + Len(t) :
        (b \o t)[j] = IF j <= Len(b) THEN b[j] ELSE t[j - Len(b)]
  BY ConcatProperties
<1>4. i + 1 \in 1 .. Len(b) + Len(t) /\ i + 1 <= Len(b)
  BY <1>1
<1>5. (b \o t)[i + 1] = b[i + 1]
  BY <1>3, <1>4
<1>6. i < Len(b \o t)
  BY <1>1, <1>2
<1> QED BY <1>5, <1>6

(* The buffers and indices of what was launched stay as they are.          *)
LEMMA KeptAt ==
  ASSUME TypeOK, KeptOK, NEW h \in Host, NEW l \in Done(h) \cap Keeping,
         outBuf'[l] = outBuf[l],
         \E slots \in Seq(Layers \cup {Nobody}) : buffers'[h] = buffers[h] \o slots
  PROVE  outBuf'[l] < Len(buffers'[h]) /\ buffers'[h][outBuf'[l] + 1] = l
<1> DEFINE T == Layers \cup {Image, Nobody}
<1>1. PICK slots \in Seq(Layers \cup {Nobody}) : buffers'[h] = buffers[h] \o slots
  OBVIOUS
<1>2. slots \in Seq(T)
  <2>1. Layers \cup {Nobody} \subseteq T
    OBVIOUS
  <2> HIDE DEF T
  <2> QED BY <2>1, SeqMonotonic
<1>3. buffers[h] \in Seq(T)
  BY DEF TypeOK
<1>4. l \in Layers /\ outBuf[l] \in Nat
  <2>1. l \in Layers
    BY Progress
  <2> QED BY <2>1 DEF TypeOK
<1>5. outBuf[l] < Len(buffers[h]) /\ buffers[h][outBuf[l] + 1] = l
  BY DEF KeptOK
<1> HIDE DEF T
<1> QED BY <1>1, <1>2, <1>3, <1>4, <1>5, Appended

LEMMA QuietKeeps ==
  ASSUME TypeOK, PlaceOK, KeptOK, NEW h \in Host, Quiet(h)
  PROVE  KeptOK'
<1> SUFFICES ASSUME NEW g \in Host, NEW l \in Done(g)' \cap Keeping
             PROVE  outBuf'[l] < Len(buffers'[g]) /\ buffers'[g][outBuf'[l] + 1] = l
  BY DEF KeptOK
<1>1. l \in Done(g) \cap Keeping /\ outBuf' = outBuf
  BY QuietEnqueues, QuietStep
<1>2. buffers'[g] = buffers[g]
  <2>1. buffers' = buffers \/ (pc[h] = "barrier" /\ buffers' = [buffers EXCEPT ![h] = <<Image>>])
    BY DEF Quiet, Options, Flash, Barrier, StartWalk, ReadScores, WalkEnds, Exit, memory_vars
  <2>2. CASE g = h /\ pc[h] = "barrier"
    <3>1. launched[h] = 0
      BY <2>2 DEF PlaceOK, PlaceAt, Before
    <3> QED BY <1>1, <2>2, <3>1 DEF Done
  <2> QED BY <2>1, <2>2 DEF TypeOK
<1> QED BY <1>1, <1>2 DEF KeptOK

LEMMA FeedKeeps ==
  ASSUME TypeOK, KeptOK, NEW h \in Host, Feed(h)
  PROVE  KeptOK'
<1>1. \A g \in Host : Done(g)' = Done(g)
  BY FeedEnqueues
<1>2. outBuf' = outBuf /\ buffers' = buffers
  BY FeedStep
<1> QED BY <1>1, <1>2 DEF KeptOK

LEMMA PadKeeps ==
  ASSUME TypeOK, KeptOK, NEW h \in Host, LaunchPad(h)
  PROVE  KeptOK'
<1> SUFFICES ASSUME NEW g \in Host, NEW l \in Done(g)' \cap Keeping
             PROVE  outBuf'[l] < Len(buffers'[g]) /\ buffers'[g][outBuf'[l] + 1] = l
  BY DEF KeptOK
<1>1. l \in Done(g) \cap Keeping
  BY PadEnqueues
<1>2. outBuf' = outBuf /\ buffers' = [buffers EXCEPT ![h] = @ \o <<Nobody>>]
  BY PadStep
<1>3. CASE g = h
  <2>1. buffers'[g] = buffers[g] \o <<Nobody>>
    BY <1>2, <1>3 DEF TypeOK
  <2> QED BY <1>1, <1>2, <2>1, Unwritten, KeptAt
<1>4. CASE g # h
  <2>1. buffers'[g] = buffers[g]
    BY <1>2, <1>4 DEF TypeOK
  <2> QED BY <1>1, <1>2, <2>1 DEF KeptOK
<1> QED BY <1>3, <1>4

LEMMA LaunchKeeps ==
  ASSUME TypeOK, KeptOK, NEW h \in Host, NEW l, LaunchStep(h, l)
  PROVE  KeptOK'
<1> SUFFICES ASSUME NEW g \in Host, NEW m \in Done(g)' \cap Keeping
             PROVE  outBuf'[m] < Len(buffers'[g]) /\ buffers'[g][outBuf'[m] + 1] = m
  BY DEF KeptOK
<1>1. PICK slots \in Seq(Layers \cup {Nobody}) : buffers' = [buffers EXCEPT ![h] = @ \o slots]
  BY DEF LaunchStep
<1>2. \A k \in Layers : k # l => outBuf'[k] = outBuf[k]
  BY DEF LaunchStep
<1>3. \A f \in Host : l \notin Done(f)
  BY CurrentIsNew DEF LaunchStep
<1>4. CASE g # h
  <2>1. m \in Done(g) \cap Keeping
    BY <1>4, LaunchEnqueues
  <2>2. buffers'[g] = buffers[g]
    BY <1>1, <1>4 DEF TypeOK
  <2>3. outBuf'[m] = outBuf[m]
    BY <1>2, <1>3, <2>1, Progress
  <2> QED BY <2>1, <2>2, <2>3 DEF KeptOK
<1>5. CASE g = h /\ m = l
  BY <1>5 DEF LaunchStep
<1>6. CASE g = h /\ m # l
  <2>1. m \in Done(g) \cap Keeping
    BY <1>6, LaunchEnqueues
  <2>2. buffers'[g] = buffers[g] \o slots
    BY <1>1, <1>6 DEF TypeOK
  <2>3. outBuf'[m] = outBuf[m]
    BY <1>2, <1>6, <2>1, Progress
  <2> QED BY <2>1, <2>2, <2>3, KeptAt
<1> QED BY <1>4, <1>5, <1>6

(* The host found the finished outputs of the branches, and in order.      *)
LEMMA ConcatReads ==
  ASSUME TypeOK, StartedOK, PlaceOK, KeptOK, NEW h \in Host, NEW l \in Concats,
         launched[h] < Len(Order[h]), l = Current(h), Waited(l)
  PROVE  [k \in DOMAIN Parents[l] |-> Buffer(h, outBuf[Parents[l][k]])] = Inputs[l]
<1>1. ASSUME NEW k \in DOMAIN Parents[l]
      PROVE  Buffer(h, outBuf[Parents[l][k]]) = Parents[l][k]
  <2> DEFINE p == Parents[l][k]
  <2>1. p \in ended /\ p \in Keeping /\ p \in Layers
    BY ParentsOf, ChannelAssumption DEF Waited
  <2>2. p \in Done(h)
    <3>1. Enqueued(p)
      BY <2>1, ChannelAssumption DEF StartedOK, TypeOK
    <3>2. PICK g \in Host : p \in Done(g)
      <4>1. \A g \in Host : p \notin FedBy(g)
        BY <2>1, Progress
      <4>2. \A m \in Padded : PadKernel[m] # p
        BY <2>1, PadsApart
      <4> QED BY <3>1, <4>1, <4>2 DEF Enqueued
    <3>3. launched[h] + 1 \in DOMAIN Order[h]
      BY Progress, Orders
    <3>4. PICK j \in DOMAIN Order[h] : Order[h][j] = p
      BY <3>3, ConcatAssumption DEF Current
    <3>5. PICK i \in 1 .. launched[g] : Order[g][i] = p
      BY <3>2 DEF Done
    <3>6. i \in DOMAIN Order[g]
      BY Progress, Orders
    <3>7. g = h
      BY <3>4, <3>5, <3>6, PlaceAssumption
    <3> QED BY <3>2, <3>7
  <2>3. buffers[h][outBuf[p] + 1] = p
    BY <2>1, <2>2 DEF KeptOK
  <2> QED BY <2>1, <2>3 DEF Buffer
<1>2. [k \in DOMAIN Parents[l] |-> Buffer(h, outBuf[Parents[l][k]])]
        = [k \in DOMAIN Parents[l] |-> Parents[l][k]]
  BY <1>1
<1> QED BY <1>2, ParentsOf, ConcatAssumption

LEMMA LaunchReads ==
  ASSUME TypeOK, StartedOK, PlaceOK, KeptOK, ConcatInputsRight,
         NEW h \in Host, NEW l, LaunchStep(h, l)
  PROVE  ConcatInputsRight'
<1> SUFFICES ASSUME NEW m \in Concats \cap started' PROVE inputs'[m] = Inputs[m]
  BY DEF ConcatInputsRight
<1>1. CASE m = l
  <2>1. /\ launched[h] < Len(Order[h]) /\ l = Current(h) /\ Waited(l)
        /\ inputs'[l] = [k \in DOMAIN Parents[l] |-> Buffer(h, outBuf[Parents[l][k]])]
    BY <1>1 DEF LaunchStep
  <2> QED BY <1>1, <2>1, ConcatReads
<1>2. CASE m # l
  <2>1. m \in started /\ m \in Kernel
    BY <1>2, ChannelAssumption DEF LaunchStep, StartKernel
  <2> QED BY <1>2, <2>1 DEF ConcatInputsRight, LaunchStep
<1> QED BY <1>1, <1>2

LEMMA FeedReads ==
  ASSUME TypeOK, ConcatInputsRight, NEW h \in Host, Feed(h)
  PROVE  ConcatInputsRight'
<1> DEFINE k == FeederOrder[h][fed[h] + 1]
<1>1. k \notin Layers /\ StartKernel(k) /\ inputs' = inputs
  BY FeedStep
<1> HIDE DEF k
<1>2. \A m \in Concats : m \in started' => m \in started
  BY <1>1, ChannelAssumption DEF StartKernel
<1> QED BY <1>1, <1>2 DEF ConcatInputsRight

LEMMA PadReads ==
  ASSUME TypeOK, ConcatInputsRight, NEW h \in Host, LaunchPad(h)
  PROVE  ConcatInputsRight'
<1>1. \A m \in Concats : m \in Kernel /\ m # PadKernel[Current(h)]
  BY PadStep, ChannelAssumption
<1>2. \A m \in Concats : m \in started' => m \in started
  BY <1>1, PadStep DEF StartKernel
<1>3. \A m \in Concats : inputs'[m] = inputs[m]
  <2>1. inputs \in [Kernel -> Seq(Layers \cup {Image, Garbage})]
    BY DEF TypeOK
  <2> QED BY <1>1, <2>1, PadStep
<1> QED BY <1>2, <1>3 DEF ConcatInputsRight

(* The places of the hosts.                                                *)
LEMMA SameAt ==
  ASSUME NEW g \in Host, PlaceAt(g), pc'[g] = pc[g], fed'[g] = fed[g],
         launched'[g] = launched[g], ended \subseteq ended'
  PROVE  PlaceAt(g)'
<1>1. Done(g)' = Done(g) /\ Current(g)' = Current(g)
  BY DEF Done, Current
<1> QED BY <1>1 DEF PlaceAt

LEMMA QuietMoves ==
  ASSUME TypeOK, PlaceOK, NEW h \in Host, Quiet(h)
  PROVE  PlaceOK'
<1> SUFFICES ASSUME NEW g \in Host PROVE PlaceAt(g)'
  BY DEF PlaceOK
<1>1. /\ fed' = fed /\ launched' = launched /\ ended' = ended
      /\ PlaceAt(g)
  BY QuietStep DEF PlaceOK
<1>2. pc \in [Host -> Place]
  BY DEF TypeOK, Place
<1>3. CASE g # h
  <2>1. pc'[g] = pc[g]
    BY <1>2, <1>3, QuietStep
  <2> QED BY <1>1, <2>1, SameAt
<1>4. CASE g = h
  <2>1. Done(h)' = Done(h) /\ Current(h)' = Current(h)
    BY <1>1 DEF Done, Current
  <2>2. CASE Options(h)
    BY <1>1, <1>2, <1>4, <2>1, <2>2 DEF Options, Goto, PlaceAt, Before, After
  <2>3. CASE Flash(h)
    BY <1>1, <1>2, <1>4, <2>1, <2>3 DEF Flash, Goto, PlaceAt, Before, After
  <2>4. CASE Barrier(h)
    BY <1>1, <1>2, <1>4, <2>1, <2>4 DEF Barrier, Goto, PlaceAt, Before, After
  <2>5. CASE StartWalk(h)
    <3>1. Done(h) = {}
      BY <1>1, <1>4, <2>5 DEF StartWalk, PlaceAt, Done
    <3> QED BY <1>1, <1>2, <1>4, <2>1, <2>5, <3>1 DEF StartWalk, Goto, PlaceAt, Before, After
  <2>6. CASE ReadScores(h)
    BY <1>1, <1>2, <1>4, <2>1, <2>6 DEF ReadScores, Goto, PlaceAt, Before, After
  <2>7. CASE WalkEnds(h)
    BY <1>1, <1>2, <1>4, <2>1, <2>7 DEF WalkEnds, Goto, PlaceAt, Before, After
  <2>8. CASE Exit(h)
    BY <1>1, <1>2, <1>4, <2>1, <2>8 DEF Exit, Goto, PlaceAt, Before, After
  <2> QED BY <2>2, <2>3, <2>4, <2>5, <2>6, <2>7, <2>8 DEF Quiet
<1> QED BY <1>3, <1>4

LEMMA FeedMoves ==
  ASSUME TypeOK, PlaceOK, NEW h \in Host, Feed(h)
  PROVE  PlaceOK'
<1> SUFFICES ASSUME NEW g \in Host PROVE PlaceAt(g)'
  BY DEF PlaceOK
<1>1. /\ pc' = pc /\ launched' = launched /\ ended' = ended /\ pc[h] = "feed"
      /\ fed' = [fed EXCEPT ![h] = @ + 1] /\ fed \in [Host -> Nat]
  BY FeedStep DEF StartKernel, TypeOK
<1>2. PlaceAt(g)
  BY DEF PlaceOK
<1>3. CASE g # h
  BY <1>1, <1>2, <1>3, SameAt
<1>4. CASE g = h
  BY <1>1, <1>2, <1>4 DEF PlaceAt, Before, After
<1> QED BY <1>3, <1>4

LEMMA PadMoves ==
  ASSUME TypeOK, PlaceOK, NEW h \in Host, LaunchPad(h)
  PROVE  PlaceOK'
<1> SUFFICES ASSUME NEW g \in Host PROVE PlaceAt(g)'
  BY DEF PlaceOK
<1>1. /\ fed' = fed /\ launched' = launched /\ ended' = ended
      /\ pc[h] = "walk" /\ pc' = [pc EXCEPT ![h] = "padded"]
      /\ launched[h] < Len(Order[h]) /\ Current(h) \in Padded
  BY PadStep DEF StartKernel
<1>2. PlaceAt(g) /\ pc \in [Host -> Place]
  BY DEF PlaceOK, TypeOK, Place
<1>3. CASE g # h
  BY <1>1, <1>2, <1>3, SameAt
<1>4. CASE g = h
  <2>1. Done(h)' = Done(h) /\ Current(h)' = Current(h) /\ pc'[h] = "padded"
    BY <1>1, <1>2 DEF Done, Current
  <2> QED BY <1>1, <1>2, <1>4, <2>1 DEF PlaceAt, Before, After
<1> QED BY <1>3, <1>4

LEMMA LaunchMoves ==
  ASSUME TypeOK, PlaceOK, NEW h \in Host, NEW l, LaunchStep(h, l)
  PROVE  PlaceOK'
<1> SUFFICES ASSUME NEW g \in Host PROVE PlaceAt(g)'
  BY DEF PlaceOK
<1>1. /\ fed' = fed /\ ended' = ended /\ pc[h] \in {"walk", "padded"}
      /\ launched' = [launched EXCEPT ![h] = @ + 1] /\ launched[h] < Len(Order[h])
      /\ pc' = [pc EXCEPT ![h] = IF l = LastLayer THEN "read" ELSE "walk"]
      /\ l = Current(h)
  BY DEF LaunchStep, StartKernel
<1>2. PlaceAt(g) /\ pc \in [Host -> Place] /\ launched \in [Host -> Nat]
  BY DEF PlaceOK, TypeOK, Place
<1>3. CASE g # h
  <2>1. pc'[g] = pc[g] /\ launched'[g] = launched[g]
    BY <1>1, <1>2, <1>3
  <2> QED BY <1>1, <1>2, <2>1, SameAt
<1>4. CASE g = h
  <2>1. fed[h] = Len(FeederOrder[h]) /\ LastLayer \notin Done(h)
    BY <1>1, <1>2, <1>4 DEF PlaceAt
  <2>2. launched'[h] = launched[h] + 1
    BY <1>1, <1>2
  <2>3. CASE l = LastLayer
    <3>1. pc'[h] = "read"
      BY <1>1, <1>2, <2>3
    <3>2. launched[h] + 1 \in DOMAIN Order[h]
      BY <1>1, Progress, Orders
    <3>3. launched[h] + 1 = Len(Order[h])
      <4>1. Order[h][launched[h] + 1] = LastLayer
        BY <1>1, <2>3 DEF Current
      <4>2. \A i \in DOMAIN Order[h] : Order[h][i] = LastLayer => i = Len(Order[h])
        BY CoverAssumption
      <4> QED BY <3>2, <4>1, <4>2
    <3> QED BY <1>1, <1>4, <2>1, <2>2, <3>1, <3>3 DEF PlaceAt, Before, After
  <2>4. CASE l # LastLayer
    <3>1. pc'[h] = "walk"
      BY <1>1, <1>2, <2>4
    <3>2. LastLayer \notin Done(h)'
      BY <2>1, <2>4, LaunchEnqueues
    <3> QED BY <1>1, <1>4, <2>1, <3>1, <3>2 DEF PlaceAt, Before, After
  <2> QED BY <2>3, <2>4
<1> QED BY <1>3, <1>4

(* The barrier and MPI_Finalize.                                           *)
LEMMA QuietTogether ==
  ASSUME TypeOK, TogetherOK, NEW h \in Host, Quiet(h)
  PROVE  TogetherOK'
<1>1. pc \in [Host -> Place]
  BY DEF TypeOK, Place
<1>2. CASE Options(h)
  BY <1>1, <1>2 DEF TogetherOK, Options, Goto, Before
<1>3. CASE Flash(h)
  BY <1>1, <1>3 DEF TogetherOK, Flash, Goto, Before
<1>4. CASE Barrier(h)
  BY <1>1, <1>4 DEF TogetherOK, Barrier, AllFlashed, Goto, Before
<1>5. CASE StartWalk(h)
  BY <1>1, <1>5 DEF TogetherOK, StartWalk, Goto, Before
<1>6. CASE ReadScores(h)
  BY <1>1, <1>6 DEF TogetherOK, ReadScores, Goto, Before
<1>7. CASE WalkEnds(h)
  BY <1>1, <1>7 DEF TogetherOK, WalkEnds, Goto, Before
<1>8. CASE Exit(h)
  BY <1>1, <1>8 DEF TogetherOK, Exit, AllFinalize, Goto, Before
<1> QED BY <1>2, <1>3, <1>4, <1>5, <1>6, <1>7, <1>8 DEF Quiet

LEMMA BusyTogether ==
  ASSUME TypeOK, TogetherOK, NEW h \in Host, pc[h] \in {"feed", "walk", "padded"},
         NEW p \in {"feed", "walk", "padded", "read"}, pc' = [pc EXCEPT ![h] = p]
  PROVE  TogetherOK'
<1>1. pc \in [Host -> Place]
  BY DEF TypeOK, Place
<1> QED BY <1>1 DEF TogetherOK, Before

-----------------------------------------------------------------------------
(* The invariant is kept by every step.                                    *)

LEMMA QuietPreserves ==
  ASSUME IInv, NEW h \in Host, Quiet(h)
  PROVE  IInv'
<1>1. TypeOK /\ StartedOK /\ PlaceOK /\ TogetherOK /\ KeptOK /\ ConcatInputsRight /\ FlowOK
  BY DEF IInv
<1>2. TypeOK' /\ PlaceOK' /\ TogetherOK' /\ KeptOK'
  BY <1>1, QuietTypes, QuietMoves, QuietTogether, QuietKeeps
<1>3. started' = started /\ delivered' = delivered /\ inputs' = inputs
  BY <1>1, QuietStep
<1>4. StartedOK'
  BY <1>1, <1>3, QuietStarts DEF StartedOK
<1>5. ConcatInputsRight' /\ FlowOK'
  BY <1>1, <1>3 DEF ConcatInputsRight, FlowOK
<1> QED BY <1>2, <1>4, <1>5 DEF IInv

LEMMA FeedPreserves ==
  ASSUME IInv, NEW h \in Host, Feed(h)
  PROVE  IInv'
<1> DEFINE k == FeederOrder[h][fed[h] + 1]
<1>1. TypeOK /\ StartedOK /\ PlaceOK /\ TogetherOK /\ KeptOK /\ ConcatInputsRight /\ FlowOK
  BY DEF IInv
<1>2. k \in Kernel /\ k \notin Layers /\ StartKernel(k) /\ pc[h] = "feed" /\ pc' = pc
  BY <1>1, FeedStep
<1>3. TypeOK' /\ PlaceOK' /\ KeptOK' /\ ConcatInputsRight'
  BY <1>1, FeedTypes, FeedMoves, FeedKeeps, FeedReads
<1>4. TogetherOK'
  BY <1>1, <1>2 DEF TogetherOK
<1>5. \A j \in Kernel : Enqueued(j)' <=> Enqueued(j) \/ j = k
  BY <1>1, FeedStarts
<1>6. k \in Concats => Waited(k)
  BY <1>2, ChannelAssumption
<1> HIDE DEF k
<1>7. StartedOK'
  BY <1>1, <1>2, <1>5, StartKeepsStarted
<1>8. FlowOK'
  BY <1>1, <1>2, <1>6, AfterDelivered, StartKeepsFlow
<1> QED BY <1>3, <1>4, <1>7, <1>8 DEF IInv

LEMMA PadPreserves ==
  ASSUME IInv, NEW h \in Host, LaunchPad(h)
  PROVE  IInv'
<1> DEFINE k == PadKernel[Current(h)]
<1>1. TypeOK /\ StartedOK /\ PlaceOK /\ TogetherOK /\ KeptOK /\ ConcatInputsRight /\ FlowOK
  BY DEF IInv
<1>2. /\ k \in Kernel /\ k \notin Layers /\ StartKernel(k)
      /\ pc[h] = "walk" /\ pc' = [pc EXCEPT ![h] = "padded"]
  BY <1>1, PadStep
<1>3. TypeOK' /\ PlaceOK' /\ KeptOK' /\ ConcatInputsRight'
  BY <1>1, PadTypes, PadMoves, PadKeeps, PadReads
<1>4. TogetherOK'
  BY <1>1, <1>2, BusyTogether
<1>5. \A j \in Kernel : Enqueued(j)' <=> Enqueued(j) \/ j = k
  BY <1>1, PadStarts
<1>6. k \in Concats => Waited(k)
  BY <1>2, ChannelAssumption
<1> HIDE DEF k
<1>7. StartedOK'
  BY <1>1, <1>2, <1>5, StartKeepsStarted
<1>8. FlowOK'
  BY <1>1, <1>2, <1>6, AfterDelivered, StartKeepsFlow
<1> QED BY <1>3, <1>4, <1>7, <1>8 DEF IInv

LEMMA LaunchPreserves ==
  ASSUME IInv, NEW h \in Host, NEW l, LaunchStep(h, l)
  PROVE  IInv'
<1>1. TypeOK /\ StartedOK /\ PlaceOK /\ TogetherOK /\ KeptOK /\ ConcatInputsRight /\ FlowOK
  BY DEF IInv
<1>2. /\ l \in Kernel /\ StartKernel(l) /\ pc[h] \in {"walk", "padded"}
      /\ l \in Concats => Waited(l)
      /\ \E p \in {"read", "walk"} : pc' = [pc EXCEPT ![h] = p]
  BY ChannelAssumption DEF LaunchStep
<1>3. TypeOK' /\ PlaceOK' /\ KeptOK' /\ ConcatInputsRight'
  BY <1>1, LaunchTypes, LaunchMoves, LaunchKeeps, LaunchReads
<1>4. TogetherOK'
  BY <1>1, <1>2, BusyTogether
<1>5. \A j \in Kernel : Enqueued(j)' <=> Enqueued(j) \/ j = l
  BY <1>1, LaunchStarts
<1>6. StartedOK'
  BY <1>1, <1>2, <1>5, StartKeepsStarted
<1>7. FlowOK'
  BY <1>1, <1>2, AfterDelivered, StartKeepsFlow
<1> QED BY <1>3, <1>4, <1>6, <1>7 DEF IInv

LEMMA WorkPreserves ==
  ASSUME IInv, NEW k \in Kernel, Work(k)
  PROVE  IInv'
<1>1. TypeOK /\ StartedOK /\ PlaceOK /\ TogetherOK /\ KeptOK /\ ConcatInputsRight /\ FlowOK
  BY DEF IInv
<1>2. /\ pc' = pc /\ fed' = fed /\ launched' = launched /\ buffers' = buffers
      /\ outBuf' = outBuf /\ inputs' = inputs /\ started' = started
      /\ ended \subseteq ended' /\ delivered \subseteq delivered'
  BY DEF Work, Deliver, Deliverable, End, host_vars, memory_vars
<1>3. \A h \in Host : FedBy(h)' = FedBy(h) /\ Done(h)' = Done(h) /\ Begun(h)' = Begun(h)
  BY <1>2, SamePlace
<1>4. TypeOK'
  BY <1>1, WorkTypes
<1>5. StartedOK'
  BY <1>1, <1>2, <1>3 DEF StartedOK, Enqueued
<1>6. PlaceOK'
  BY <1>1, <1>2, SameAt DEF PlaceOK
<1>7. TogetherOK' /\ KeptOK' /\ ConcatInputsRight'
  BY <1>1, <1>2, <1>3 DEF TogetherOK, KeptOK, ConcatInputsRight
<1>8. FlowOK'
  <2>1. \A j \in started' : Net.after[j] \subseteq delivered'
    BY <1>1, <1>2 DEF FlowOK
  <2>2. \A j \in delivered' : j \in delivered \/ Feeding(Net, j) \subseteq delivered
    BY DEF Work, Deliver, Deliverable, End
  <2> QED BY <1>1, <1>2, <2>1, <2>2 DEF FlowOK
<1> QED BY <1>4, <1>5, <1>6, <1>7, <1>8 DEF IInv

LEMMA StepKinds ==
  ASSUME IInv, NEW h \in Host, Step(h)
  PROVE  Quiet(h) \/ Feed(h) \/ LaunchPad(h) \/ LaunchStep(h, Current(h))
<1>1. TypeOK /\ PlaceOK
  BY DEF IInv
<1> QED BY <1>1, LayerLaunched DEF Step, Quiet

LEMMA NextPreserves ==
  ASSUME IInv, [Next]_vars
  PROVE  IInv'
<1>1. CASE UNCHANGED vars
  <2>1. /\ UNCHANGED <<pc, fed, launched, buffers, outBuf, inputs, result>>
        /\ UNCHANGED <<started, delivered, ended>>
    BY <1>1 DEF vars, host_vars, memory_vars, kernel_vars
  <2>2. \A h \in Host : FedBy(h)' = FedBy(h) /\ Done(h)' = Done(h) /\ Begun(h)' = Begun(h)
    BY <2>1, SamePlace
  <2>3. TypeOK' /\ TogetherOK' /\ KeptOK' /\ ConcatInputsRight' /\ FlowOK'
    BY <2>1, <2>2 DEF IInv, TypeOK, TogetherOK, KeptOK, ConcatInputsRight, FlowOK
  <2>4. PlaceOK'
    BY <2>1, SameAt DEF IInv, PlaceOK
  <2>5. StartedOK'
    BY <2>1, <2>2 DEF IInv, StartedOK, Enqueued
  <2> QED BY <2>3, <2>4, <2>5 DEF IInv
<1>2. ASSUME NEW h \in Host, Step(h) PROVE IInv'
  BY <1>2, StepKinds, QuietPreserves, FeedPreserves, PadPreserves, LaunchPreserves
<1>3. ASSUME NEW k \in Kernel, Work(k) PROVE IInv'
  BY <1>3, WorkPreserves
<1> QED BY <1>1, <1>2, <1>3 DEF Next

LEMMA Invariant == Spec => []IInv
<1>1. Init => IInv
  BY InitHolds
<1>2. IInv /\ [Next]_vars => IInv'
  BY NextPreserves
<1> QED BY <1>1, <1>2, PTL DEF Spec

-----------------------------------------------------------------------------
(* The theorems.                                                           *)

(* Every variable keeps its type: among others, a host never runs past the *)
(* end of its lists of feeders and layers, and what has ended was started. *)
THEOREM TypeCorrect == Spec => []TypeOK
<1>1. IInv => TypeOK
  BY DEF IInv
<1> QED BY Invariant, <1>1, PTL

(* Each Concat kernel is started on the finished outputs of the branches   *)
(* of its module, in the order of the inputs of its layer.                 *)
THEOREM ConcatInputs == Spec => []ConcatInputsRight
<1>1. IInv => ConcatInputsRight
  BY DEF IInv
<1> QED BY Invariant, <1>1, PTL

LEMMA NobodyYet ==
  ASSUME IInv
  PROVE  NobodySendsToAFlash
<1> SUFFICES ASSUME started # {}
             PROVE  \A h \in Host : pc[h] \notin {"options", "flash"}
  BY DEF NobodySendsToAFlash
<1>1. PICK k \in started : Enqueued(k)
  BY DEF IInv, TypeOK, StartedOK
<1>2. PICK h \in Host : FedBy(h) # {} \/ Done(h) # {} \/ Begun(h) # {}
  BY <1>1 DEF Enqueued
<1>3. fed[h] \in Nat /\ launched[h] \in Nat /\ PlaceAt(h)
  BY DEF IInv, TypeOK, PlaceOK
<1>4. pc[h] \notin Before
  <2>1. CASE pc[h] = "padded"
    BY <2>1 DEF Before
  <2>2. CASE pc[h] # "padded"
    <3>1. fed[h] # 0 \/ launched[h] # 0
      BY <1>2, <1>3, <2>2 DEF FedBy, Done, Begun
    <3> QED BY <1>3, <3>1 DEF PlaceAt
  <2> QED BY <2>1, <2>2
<1> QED BY <1>4 DEF IInv, TogetherOK

(* No kernel starts, and sends, while some FPGA is still being flashed.    *)
THEOREM NobodySends == Spec => []NobodySendsToAFlash
<1>1. IInv => NobodySendsToAFlash
  BY NobodyYet
<1> QED BY Invariant, <1>1, PTL

(* Once all hosts are in MPI_Finalize everything is enqueued.              *)
LEMMA AllEnqueued ==
  ASSUME IInv, \A h \in Host : pc[h] \in {"finalize", "exit"}
  PROVE  started = Kernel
<1>1. ASSUME NEW h \in Host
      PROVE  /\ \A i \in DOMAIN Order[h] : Order[h][i] \in Done(h) /\ Order[h][i] \in Begun(h)
             /\ \A i \in DOMAIN FeederOrder[h] : FeederOrder[h][i] \in FedBy(h)
  <2>1. fed[h] = Len(FeederOrder[h]) /\ launched[h] = Len(Order[h])
    BY DEF IInv, PlaceOK, PlaceAt, After
  <2> QED BY <2>1, Orders DEF FedBy, Done, Begun
<1>2. ASSUME NEW k \in Kernel PROVE Enqueued(k)
  <2>1. CASE k \in Layers
    BY <1>1, <2>1, CoverAssumption DEF Enqueued
  <2>2. ASSUME NEW l \in Padded, PadKernel[l] = k PROVE Enqueued(k)
    <3>1. PICK h \in Host : \E i \in DOMAIN Order[h] : Order[h][i] = l
      BY ChannelAssumption, CoverAssumption
    <3> QED BY <1>1, <2>2, <3>1 DEF Enqueued
  <2>3. ASSUME NEW h \in Host, NEW i \in DOMAIN FeederOrder[h], FeederOrder[h][i] = k
        PROVE  Enqueued(k)
    BY <1>1, <2>3 DEF Enqueued
  <2> QED BY <2>1, <2>2, <2>3, CoverAssumption
<1>3. Kernel \subseteq started /\ started \subseteq Kernel
  BY <1>2 DEF IInv, StartedOK, TypeOK
<1> QED BY <1>3

(* The kernel furthest on of those without their input has a reader, or a  *)
(* Concat that is started after it; that one would have its input.         *)
LEMMA NobodyLeft ==
  ASSUME IInv, NEW g \in Host, pc[g] = "exit"
  PROVE  delivered = Kernel
<1>1. \A h \in Host : pc[h] \in {"finalize", "exit"}
  BY DEF IInv, TogetherOK
<1>2. started = Kernel
  BY <1>1, AllEnqueued
<1>3. LastLayer \in delivered
  <2>1. PICK h \in Host : \E i \in DOMAIN Order[h] : Order[h][i] = LastLayer
    BY ChannelAssumption, CoverAssumption
  <2>2. launched[h] = Len(Order[h])
    BY <1>1 DEF IInv, PlaceOK, PlaceAt, After
  <2>3. LastLayer \in Done(h)
    BY <2>1, <2>2, Orders DEF Done
  <2>4. LastLayer \in ended
    BY <1>1, <2>3 DEF IInv, PlaceOK, PlaceAt
  <2> QED BY <2>4 DEF IInv, TypeOK
<1>4. delivered \subseteq Kernel
  BY DEF IInv, TypeOK
<1> DEFINE U == Kernel \ delivered
<1> SUFFICES ASSUME U # {} PROVE FALSE
  BY <1>4
<1>5. NetTypes(Net) /\ U \subseteq KernelsOf(Net)
  BY ChannelAssumption DEF IsKernelNet, Kernel
<1> HIDE DEF U
<1>6. PICK k \in U : \A j \in U : ~ (Net.level[k] < Net.level[j])
  BY <1>5, LowestAndHighest
<1>7. k \in Kernel /\ k \notin delivered
  BY DEF U
<1>8. Readers(Net, k) # {} \/ \E l \in Concats : k \in Net.after[l]
  BY <1>3, <1>7, ConcatAssumption
<1>9. ASSUME NEW r \in Readers(Net, k) PROVE FALSE
  <2>1. r \in Kernel /\ k \in Feeding(Net, r)
    <3>1. Net.outs[k] \in Seq(KernelsOf(Net))
      BY <1>5, <1>7 DEF NetTypes, Kernel
    <3>2. r \in KernelsOf(Net)
      BY <3>1 DEF Readers
    <3> QED BY <1>7, <3>2 DEF Feeding, Kernel
  <2>2. Net.level[k] < Net.level[r]
    BY <2>1, ChannelAssumption DEF IsKernelNet, Layered, Kernel
  <2>3. r \in delivered
    BY <1>6, <2>1, <2>2 DEF U
  <2> QED BY <1>7, <2>1, <2>3 DEF IInv, FlowOK
<1>10. ASSUME NEW l \in Concats, k \in Net.after[l] PROVE FALSE
  <2>1. l \in started
    BY <1>2, ChannelAssumption
  <2> QED BY <1>7, <1>10, <2>1 DEF IInv, FlowOK
<1> QED BY <1>8, <1>9, <1>10

(* No process ends before all kernels have got their inputs, although only *)
(* one host waits for results.                                             *)
THEOREM NoneAbandoned == Spec => []NoKernelAbandoned
<1>1. IInv => NoKernelAbandoned
  BY NobodyLeft DEF NoKernelAbandoned
<1> QED BY Invariant, <1>1, PTL

LEMMA StartRefines ==
  ASSUME IInv, NEW k \in Kernel, ~ Enqueued(k), k \in Concats => Waited(k), StartKernel(k)
  PROVE  S!Start(k)
<1>1. k \notin started
  BY DEF IInv, StartedOK
<1>2. Net.after[k] \subseteq delivered
  BY AfterDelivered DEF IInv
<1> QED BY <1>1, <1>2 DEF S!Start, StartKernel

LEMMA HostRefines ==
  ASSUME IInv, NEW h \in Host, Step(h)
  PROVE  \/ \E k \in Kernel : S!Start(k)
         \/ started' = started /\ delivered' = delivered
<1>1. TypeOK /\ PlaceOK
  BY DEF IInv
<1>2. CASE Quiet(h)
  BY <1>1, <1>2, QuietStep
<1>3. CASE Feed(h)
  <2> DEFINE k == FeederOrder[h][fed[h] + 1]
  <2>1. k \in Kernel /\ k \notin Layers /\ StartKernel(k) /\ fed[h] < Len(FeederOrder[h])
    BY <1>1, <1>3, FeedStep
  <2>2. ~ Enqueued(k)
    BY <1>1, <2>1, NewFeeder
  <2> HIDE DEF k
  <2>3. k \notin Concats
    BY <2>1, ChannelAssumption
  <2> QED BY <2>1, <2>2, <2>3, StartRefines
<1>4. CASE LaunchPad(h)
  <2> DEFINE k == PadKernel[Current(h)]
  <2>1. /\ k \in Kernel /\ k \notin Layers /\ StartKernel(k) /\ launched[h] < Len(Order[h])
        /\ Current(h) \in Padded /\ pc[h] = "walk"
    BY <1>1, <1>4, PadStep
  <2>2. ~ Enqueued(k)
    BY <1>1, <2>1, NewPad
  <2> HIDE DEF k
  <2>3. k \notin Concats
    BY <2>1, ChannelAssumption
  <2> QED BY <2>1, <2>2, <2>3, StartRefines
<1>5. CASE LaunchStep(h, Current(h))
  <2> DEFINE k == Current(h)
  <2>1. /\ k \in Kernel /\ StartKernel(k) /\ launched[h] < Len(Order[h])
        /\ k \in Concats => Waited(k)
    BY <1>5, ChannelAssumption DEF LaunchStep
  <2>2. ~ Enqueued(k)
    BY <1>1, <2>1, NewLayer
  <2> HIDE DEF k
  <2> QED BY <2>1, <2>2, StartRefines
<1> QED BY <1>2, <1>3, <1>4, <1>5, StepKinds

(* The hosts start kernels, and these get their inputs, as module Streams  *)
(* allows: no kernel is enqueued twice, and no Concat before its parents.  *)
THEOREM HostsImplementStreams == Spec => RefinesStreams
<1>1. Init => S!Init
  BY DEF Init, S!Init
<1>2. IInv /\ [Next]_vars => [S!Next]_(S!vars)
  <2> SUFFICES ASSUME IInv, [Next]_vars PROVE S!Next \/ UNCHANGED S!vars
    OBVIOUS
  <2>1. (started' = started /\ delivered' = delivered) => UNCHANGED S!vars
    BY DEF S!vars
  <2>2. ASSUME NEW h \in Host, Step(h) PROVE S!Next \/ UNCHANGED S!vars
    BY <2>1, <2>2, HostRefines DEF S!Next, S!Kernel, S!KernelsOf, Kernel, KernelsOf
  <2>3. ASSUME NEW k \in Kernel, Deliver(k) PROVE S!Next
    <3>1. S!Deliver(k)
      BY <2>3 DEF Deliver, Deliverable, S!Deliver, S!Feeding, S!Readers, S!KernelsOf,
                  Feeding, Readers, KernelsOf
    <3> QED BY <3>1 DEF S!Next, S!Kernel, S!KernelsOf, Kernel, KernelsOf
  <2>4. ASSUME NEW k \in Kernel, End(k) PROVE UNCHANGED S!vars
    BY <2>1, <2>4 DEF End
  <2>5. CASE UNCHANGED vars
    BY <2>1, <2>5 DEF vars, kernel_vars
  <2> QED BY <2>2, <2>3, <2>4, <2>5 DEF Next, Work
<1> QED BY Invariant, <1>1, <1>2, PTL DEF Spec, RefinesStreams, S!Spec

-----------------------------------------------------------------------------
(* The channel design implements an inference on one machine.              *)

(* The host that waits for the scores is the one of the last layer.        *)
ReadOK == \A h \in Host : pc[h] = "read" => LastLayer \in Done(h)

LEMMA NextReads ==
  ASSUME IInv, ReadOK, [Next]_vars
  PROVE  ReadOK'
<1>1. TypeOK /\ pc \in [Host -> Place]
  BY DEF IInv, TypeOK, Place
<1>2. ASSUME UNCHANGED <<pc, launched>> PROVE ReadOK'
  BY <1>2 DEF ReadOK, Done
<1>3. ASSUME NEW h \in Host, Quiet(h) PROVE ReadOK'
  <2>1. launched' = launched /\ \A g \in Host : Done(g)' = Done(g)
    BY <1>1, <1>3, QuietStep, QuietEnqueues
  <2>2. PICK p \in Place \ {"read"} : pc' = [pc EXCEPT ![h] = p]
    BY <1>3 DEF Quiet, Options, Flash, Barrier, StartWalk, ReadScores, WalkEnds, Exit, Goto,
                Place
  <2> QED BY <1>1, <2>1, <2>2 DEF ReadOK
<1>4. ASSUME NEW h \in Host, Feed(h) PROVE ReadOK'
  BY <1>1, <1>2, <1>4, FeedStep
<1>5. ASSUME NEW h \in Host, LaunchPad(h) PROVE ReadOK'
  <2>1. pc' = [pc EXCEPT ![h] = "padded"] /\ \A g \in Host : Done(g)' = Done(g)
    BY <1>1, <1>5, PadStep, PadEnqueues
  <2> QED BY <1>1, <2>1 DEF ReadOK
<1>6. ASSUME NEW h \in Host, LaunchStep(h, Current(h)) PROVE ReadOK'
  <2> DEFINE l == Current(h)
  <2>1. pc' = [pc EXCEPT ![h] = IF l = LastLayer THEN "read" ELSE "walk"]
    BY <1>6 DEF LaunchStep
  <2>2. Done(h)' = Done(h) \cup {l} /\ \A g \in Host : g # h => Done(g)' = Done(g)
    BY <1>1, <1>6, LaunchEnqueues
  <2> HIDE DEF l
  <2>3. pc'[h] = "read" => l = LastLayer
    BY <1>1, <2>1
  <2>4. \A g \in Host : g # h => pc'[g] = pc[g]
    BY <1>1, <2>1
  <2> QED BY <2>2, <2>3, <2>4 DEF ReadOK
<1>7. ASSUME NEW k \in Kernel, Work(k) PROVE ReadOK'
  BY <1>2, <1>7 DEF Work, Deliver, Deliverable, End, host_vars
<1>8. ASSUME UNCHANGED vars PROVE ReadOK'
  BY <1>2, <1>8 DEF vars, host_vars
<1> QED BY <1>3, <1>4, <1>5, <1>6, <1>7, <1>8, StepKinds DEF Next

(* The scores are read from the buffer the last layer has written.         *)
LEMMA ScoresOfLast ==
  ASSUME IInv, ReadOK, NEW h \in Host, ReadScores(h)
  PROVE  LastLayer \in delivered /\ result' = [result EXCEPT ![h] = LastLayer]
<1>1. /\ LastLayer \in ended /\ pc[h] = "read"
      /\ result' = [result EXCEPT ![h] = Buffer(h, outBuf[LastLayer])]
  BY DEF ReadScores
<1>2. LastLayer \in Done(h) \cap Keeping
  BY <1>1, ChannelAssumption DEF ReadOK
<1>3. buffers[h][outBuf[LastLayer] + 1] = LastLayer
  BY <1>2 DEF IInv, KeptOK
<1>4. Buffer(h, outBuf[LastLayer]) = LastLayer
  BY <1>1, <1>3 DEF Buffer
<1> QED BY <1>1, <1>4 DEF IInv, TypeOK

LEMMA OutputIs ==
  ASSUME TypeOK, ConcatInputsRight, NEW l \in Layers
  PROVE  OutputOf(l) = IF l \in delivered THEN l ELSE Garbage
BY DEF OutputOf, TypeOK, ConcatInputsRight

(* What is behind a kernel has its input once those that feed it have.     *)
LEMMA BehindDelivered ==
  ASSUME FlowOK, NEW k, Feeding(Net, k) \subseteq delivered
  PROVE  Behind(k) \subseteq delivered
BY DEF Behind, FlowOK

(* The inputs of a layer whose kernel gets its own are computed.           *)
LEMMA InputsComputed ==
  ASSUME IInv, NEW l \in Layers, NEW i \in DOMAIN Inputs[l], Inputs[l][i] # Image,
         Feeding(Net, l) \subseteq delivered, Net.after[l] \subseteq delivered
  PROVE  Inputs[l][i] \in Layers \cap delivered
<1>1. TypeOK /\ FlowOK
  BY DEF IInv
<1>2. CASE l \in Concats
  <2>1. Inputs[l] = Parents[l] /\ l \in Kernel
    BY <1>2, ConcatAssumption, ChannelAssumption
  <2>2. Net.after[l] = {Parents[l][k] : k \in DOMAIN Parents[l]}
    BY <1>2, <2>1, ConcatAssumption
  <2>3. Inputs[l][i] \in Keeping /\ Inputs[l][i] \in Net.after[l]
    BY <1>2, <2>1, <2>2, ParentsOf
  <2> QED BY <2>3, ChannelAssumption
<1>3. CASE l \notin Concats
  BY <1>1, <1>3, BehindDelivered, InputsAssumption
<1> QED BY <1>2, <1>3

LEMMA ComputesIt ==
  ASSUME IInv, TypeOK', ConcatInputsRight', NEW l \in Layers, l \notin delivered,
         delivered' = delivered \cup {l}, result' = result,
         Feeding(Net, l) \subseteq delivered, Net.after[l] \subseteq delivered
  PROVE  I!Compute(l)
<1> DEFINE feeds == {Inputs[l][k] : k \in DOMAIN Inputs[l]} \ {Image}
           out == [m \in Layers |-> OutputOf(m)]
<1>1. \A m \in feeds : out[m] = m
  <2> SUFFICES ASSUME NEW k \in DOMAIN Inputs[l], Inputs[l][k] # Image
               PROVE  out[Inputs[l][k]] = Inputs[l][k]
    OBVIOUS
  <2>1. Inputs[l][k] \in Layers \cap delivered
    BY InputsComputed
  <2> QED BY <2>1, OutputIs DEF IInv
<1>2. \A m \in Layers : OutputOf(m)' = IF m \in delivered' THEN m ELSE Garbage
  BY DEF OutputOf, TypeOK, ConcatInputsRight
<1>3. \A m \in Layers : OutputOf(m)' = IF m = l THEN l ELSE OutputOf(m)
  BY <1>2, OutputIs DEF IInv
<1>4. [m \in Layers |-> OutputOf(m)'] = [out EXCEPT ![l] = l]
  BY <1>3
<1>5. out[l] = Garbage
  BY OutputIs DEF IInv
<1> QED BY <1>1, <1>4, <1>5 DEF I!Compute

(* A kernel that is no layer, and one that only starts, changes nothing.   *)
LEMMA ComputesNothing ==
  ASSUME IInv, TypeOK', ConcatInputsRight', result' = result,
         delivered' \cap Layers = delivered \cap Layers
  PROVE  UNCHANGED I!vars
<1>1. \A m \in Layers : OutputOf(m)' = IF m \in delivered' THEN m ELSE Garbage
  BY DEF OutputOf, TypeOK, ConcatInputsRight
<1>2. \A m \in Layers : OutputOf(m)' = OutputOf(m)
  BY <1>1, OutputIs DEF IInv
<1>3. [m \in Layers |-> OutputOf(m)'] = [m \in Layers |-> OutputOf(m)]
  BY <1>2
<1> QED BY <1>3 DEF I!vars

LEMMA StartComputes ==
  ASSUME IInv, TypeOK', ConcatInputsRight', NEW k \in Kernel, StartKernel(k),
         k \in Concats => Waited(k), result' = result
  PROVE  [I!Next]_(I!vars)
<1>1. CASE k \in Layers /\ k \notin delivered /\ Net.reads[k] = 0
  <2>1. Feeding(Net, k) = {}
    BY <1>1, ChannelAssumption DEF IsKernelNet, OneWriter, Kernel
  <2>2. Net.after[k] \subseteq delivered
    BY AfterDelivered DEF IInv
  <2>3. I!Compute(k)
    BY <1>1, <2>1, <2>2, ComputesIt DEF StartKernel
  <2> QED BY <1>1, <2>3 DEF I!Next
<1>2. CASE ~ (k \in Layers /\ k \notin delivered /\ Net.reads[k] = 0)
  <2>1. delivered' \cap Layers = delivered \cap Layers
    BY <1>2 DEF StartKernel
  <2> QED BY <2>1, ComputesNothing
<1> QED BY <1>1, <1>2

LEMMA HostComputes ==
  ASSUME IInv, TypeOK', ConcatInputsRight', ReadOK, NEW h \in Host, Step(h)
  PROVE  [I!Next]_(I!vars)
<1>1. TypeOK /\ PlaceOK
  BY DEF IInv
<1>2. CASE Quiet(h) /\ ~ ReadScores(h)
  <2>1. result' = result /\ delivered' = delivered
    BY <1>1, <1>2, QuietStep DEF Quiet, Options, Flash, Barrier, StartWalk, WalkEnds, Exit
  <2> QED BY <2>1, ComputesNothing
<1>3. CASE ReadScores(h)
  <2>1. LastLayer \in delivered /\ result' = [result EXCEPT ![h] = LastLayer]
    BY <1>3, ScoresOfLast
  <2>2. result'[h] = LastLayer
    BY <1>1, <2>1 DEF TypeOK
  <2>3. delivered' = delivered /\ inputs' = inputs
    BY <1>3 DEF ReadScores, kernel_vars, memory_vars
  <2>4. [m \in Layers |-> OutputOf(m)'] = [m \in Layers |-> OutputOf(m)]
    BY <2>3 DEF OutputOf
  <2>5. LastLayer \in Layers /\ OutputOf(LastLayer) = LastLayer
    BY <1>1, <2>1, OutputIs, ChannelAssumption DEF IInv
  <2>6. CASE \E g \in Host : result[g] = LastLayer
    BY <2>2, <2>4, <2>6 DEF I!vars
  <2>7. CASE ~ \E g \in Host : result[g] = LastLayer
    <3>1. I!Answer
      BY <2>2, <2>4, <2>5, <2>7 DEF I!Answer
    <3> QED BY <3>1 DEF I!Next
  <2> QED BY <2>6, <2>7
<1>4. CASE Feed(h)
  <2> DEFINE k == FeederOrder[h][fed[h] + 1]
  <2>1. k \in Kernel /\ k \notin Layers /\ StartKernel(k) /\ result' = result
    BY <1>1, <1>4, FeedStep
  <2> HIDE DEF k
  <2> QED BY <2>1, StartComputes, ChannelAssumption
<1>5. CASE LaunchPad(h)
  <2> DEFINE k == PadKernel[Current(h)]
  <2>1. k \in Kernel /\ k \notin Layers /\ StartKernel(k) /\ result' = result
    BY <1>1, <1>5, PadStep
  <2> HIDE DEF k
  <2> QED BY <2>1, StartComputes, ChannelAssumption
<1>6. CASE LaunchStep(h, Current(h))
  <2> DEFINE k == Current(h)
  <2>1. k \in Kernel /\ StartKernel(k) /\ (k \in Concats => Waited(k)) /\ result' = result
    BY <1>6, ChannelAssumption DEF LaunchStep
  <2> HIDE DEF k
  <2> QED BY <2>1, StartComputes
<1> QED BY <1>2, <1>3, <1>4, <1>5, <1>6, StepKinds

LEMMA KernelComputes ==
  ASSUME IInv, TypeOK', ConcatInputsRight', NEW k \in Kernel, Work(k)
  PROVE  [I!Next]_(I!vars)
<1>1. CASE Deliver(k)
  <2>1. /\ k \in started /\ k \notin delivered /\ delivered' = delivered \cup {k}
        /\ Feeding(Net, k) \subseteq delivered /\ result' = result
    BY <1>1 DEF Deliver, Deliverable
  <2>2. CASE k \in Layers
    <3>1. Net.after[k] \subseteq delivered
      BY <2>1 DEF IInv, FlowOK
    <3>2. I!Compute(k)
      BY <2>1, <2>2, <3>1, ComputesIt
    <3> QED BY <2>2, <3>2 DEF I!Next
  <2>3. CASE k \notin Layers
    <3>1. delivered' \cap Layers = delivered \cap Layers
      BY <2>1, <2>3
    <3> QED BY <2>1, <3>1, ComputesNothing
  <2> QED BY <2>2, <2>3
<1>2. CASE End(k)
  <2>1. result' = result /\ delivered' = delivered
    BY <1>2 DEF End
  <2> QED BY <2>1, ComputesNothing
<1> QED BY <1>1, <1>2 DEF Work

(* The hosts and the kernels of all FPGAs together compute the network as  *)
(* one machine would: each layer once, from the outputs of the layers that *)
(* feed it, whether these come over channels or through memory, and the    *)
(* answer from the last one.                                               *)
THEOREM ImplementsOneMachine == Spec => RefinesInference
<1>1. Init => I!Init /\ ReadOK
  <2> SUFFICES ASSUME Init PROVE I!Init /\ ReadOK
    OBVIOUS
  <2>1. ReadOK
    BY DEF Init, ReadOK
  <2>2. \A m \in Layers : OutputOf(m) = Garbage
    BY DEF Init, OutputOf
  <2>3. \A h \in Host : result[h] # LastLayer
    BY ChannelAssumption, InputsAssumption DEF Init
  <2> QED BY <2>1, <2>2, <2>3 DEF I!Init
<1>2. IInv /\ IInv' /\ ReadOK /\ [Next]_vars => [I!Next]_(I!vars)
  <2> SUFFICES ASSUME IInv, IInv', ReadOK, [Next]_vars PROVE [I!Next]_(I!vars)
    OBVIOUS
  <2>1. TypeOK' /\ ConcatInputsRight'
    BY DEF IInv
  <2>2. CASE UNCHANGED vars
    BY <2>1, <2>2, ComputesNothing DEF vars, kernel_vars
  <2> QED BY <2>1, <2>2, HostComputes, KernelComputes DEF Next
<1>3. IInv /\ ReadOK /\ [Next]_vars => ReadOK'
  BY NextReads
<1> QED BY <1>1, <1>2, <1>3, Invariant, PTL DEF Spec, RefinesInference, I!Spec
-----------------------------------------------------------------------------
(* Nobody waits for ever.                                                  *)

RouteOK == RouteGiven /\ \A k \in DOMAIN RouteFile : ValidPorts(RouteFile[k])

(* All hosts read the same file, and they pass it or fail together.        *)
OptionsOK ==
  \A h \in Host : /\ pc[h] = "failed" => ~ RouteOK
                  /\ pc[h] \notin {"options", "failed"} => RouteOK

LEMMA OptionsInvariant == Spec => []OptionsOK
<1>1. Init => OptionsOK
  BY DEF Init, OptionsOK
<1>2. IInv /\ OptionsOK /\ [Next]_vars => OptionsOK'
  <2> SUFFICES ASSUME IInv, OptionsOK, [Next]_vars PROVE OptionsOK'
    OBVIOUS
  <2>1. CASE pc' = pc
    BY <2>1 DEF OptionsOK
  <2>2. ASSUME NEW h \in Host, Step(h) PROVE OptionsOK'
    <3> DEFINE Moves ==
          \/ pc' = pc
          \/ \E p : /\ pc' = [pc EXCEPT ![h] = p]
                   /\ IF pc[h] = "options"
                      THEN p = IF RouteOK THEN "flash" ELSE "failed"
                      ELSE pc[h] # "failed" /\ p \notin {"options", "failed"}
    <3>1. ASSUME Options(h) PROVE Moves
      BY <3>1 DEF Options, Goto, RouteOK
    <3>2. ASSUME Flash(h) \/ Barrier(h) \/ StartWalk(h) \/ ReadScores(h) \/ WalkEnds(h) \/ Exit(h) PROVE Moves
      BY <3>2 DEF Flash, Barrier, StartWalk, ReadScores, WalkEnds, Exit, Goto
    <3>3. ASSUME Feed(h) PROVE Moves
      BY <3>3 DEF Feed
    <3>4. ASSUME LaunchPad(h) PROVE Moves
      BY <3>4 DEF LaunchPad, Walking, Goto
    <3>5. ASSUME LaunchStep(h, Current(h)) PROVE Moves
      <4>1. pc[h] \in {"walk", "padded"} /\ \E p \in {"read", "walk"} : pc' = [pc EXCEPT ![h] = p]
        BY <3>5 DEF LaunchStep
      <4> QED BY <4>1
    <3>6. Moves
      BY <2>2, <3>1, <3>2, <3>3, <3>4, <3>5, StepKinds DEF Quiet
    <3> QED BY <3>6 DEF OptionsOK, IInv, TypeOK
  <2>3. ASSUME NEW k \in Kernel, Work(k) PROVE OptionsOK'
    BY <2>1, <2>3 DEF Work, Deliver, End, host_vars
  <2>4. CASE UNCHANGED vars
    BY <2>1, <2>4 DEF vars, host_vars
  <2> QED BY <2>2, <2>3, <2>4 DEF Next
<1> QED BY <1>1, <1>2, Invariant, PTL DEF Spec

(* Host h waits for Concat c, and has yet to enqueue kernel k: c itself or *)
(* one that it enqueues later.                                             *)
HeldBack(k, h, c) ==
  /\ c \in Concats /\ Walking(h, c) /\ ~ Waited(c) /\ c \notin started
  /\ \/ k = c
     \/ \E i, j \in DOMAIN Order[h] :
          i < j /\ Order[h][i] = c /\ k \in KernelsFor(Order[h][j])

(* When no host can go on, only such a wait holds kernels back.            *)
LEMMA NotStarted ==
  ASSUME IInv, \A h \in Host : pc[h] \notin Before, \A h \in Host : Waits(h) \/ Gone(h),
         NEW k \in Kernel \ started
  PROVE  \E h \in Host : \E c : HeldBack(k, h, c)
<1>0. TypeOK /\ PlaceOK /\ StartedOK
  BY DEF IInv
<1>1. ASSUME NEW h \in Host
      PROVE  /\ fed[h] = Len(FeederOrder[h])
             /\ \/ pc[h] # "padded" /\ launched[h] = Len(Order[h])
                \/ /\ launched[h] < Len(Order[h])
                   /\ Current(h) \in Concats /\ Walking(h, Current(h))
                   /\ ~ Waited(Current(h))
  <2>1. pc[h] \in {"walk", "padded"} \cup After
    <3>1. pc[h] \in {"options", "flash", "barrier", "feed", "walk", "padded",
                     "read", "finalize", "exit", "failed"}
      BY <1>0 DEF TypeOK
    <3>2. pc[h] # "feed"
      BY DEF Waits, Gone, Walking
    <3> QED BY <3>1, <3>2 DEF Before, After
  <2>2. PlaceAt(h)
    BY <1>0 DEF PlaceOK
  <2>3. CASE pc[h] \in After
    BY <2>2, <2>3 DEF PlaceAt, After
  <2>4. CASE pc[h] \in {"walk", "padded"}
    BY <2>2, <2>4 DEF PlaceAt, Waits, Gone, Walking, Current
  <2> QED BY <2>1, <2>3, <2>4
<1>2. ~ Enqueued(k)
  BY <1>0 DEF StartedOK
<1>3. ASSUME NEW h \in Host, NEW j \in DOMAIN Order[h], k \in KernelsFor(Order[h][j])
      PROVE  \E c : HeldBack(k, h, c)
  <2>1. j \in 1 .. Len(Order[h]) /\ Order[h][j] \in Layers
    BY Orders
  <2>2. launched[h] < j
    <3>1. SUFFICES ASSUME ~ (launched[h] < j) PROVE FALSE
      OBVIOUS
    <3>2. Order[h][j] \in Done(h) /\ Order[h][j] \in Begun(h)
      BY <2>1, <3>1, Progress, <1>0 DEF Done, Begun
    <3> QED BY <1>2, <1>3, <3>2 DEF Enqueued, KernelsFor
  <2>3. /\ launched[h] < Len(Order[h]) /\ Current(h) \in Concats
        /\ Walking(h, Current(h)) /\ ~ Waited(Current(h))
    BY <1>0, <1>1, <2>1, <2>2, Progress
  <2>4. Current(h) \notin started
    <3>1. Current(h) \in Layers /\ \A g \in Host : Current(h) \notin Done(g)
      BY <1>0, <2>3, CurrentIsNew
    <3>2. ~ Enqueued(Current(h))
      <4>1. \A g \in Host : FedBy(g) \cap Layers = {}
        BY <1>0, Progress
      <4>2. \A m \in Padded : PadKernel[m] \notin Layers
        BY ChannelAssumption
      <4> QED BY <3>1, <4>1, <4>2 DEF Enqueued
    <3>3. Current(h) \in Kernel
      BY <3>1, ChannelAssumption
    <3> QED BY <1>0, <3>2, <3>3 DEF StartedOK
  <2>5. launched[h] + 1 \in DOMAIN Order[h] /\ Order[h][launched[h] + 1] = Current(h)
    BY <1>0, <2>3, Progress, Orders DEF Current
  <2>6. CASE j = launched[h] + 1
    <3>1. Current(h) \notin Padded
      BY <2>3, ChannelAssumption
    <3>2. k = Current(h)
      BY <1>3, <2>5, <2>6, <3>1 DEF KernelsFor
    <3> QED BY <2>3, <2>4, <3>2 DEF HeldBack
  <2>7. CASE j # launched[h] + 1
    <3>1. launched[h] + 1 < j
      BY <1>0, <2>1, <2>2, <2>7, Progress
    <3> QED BY <1>3, <2>3, <2>4, <2>5, <3>1 DEF HeldBack
  <2> QED BY <2>6, <2>7
<1>4. CASE k \in Layers
  <2>1. PICK h \in Host : \E j \in DOMAIN Order[h] : Order[h][j] = k
    BY <1>4, CoverAssumption
  <2> QED BY <1>3, <2>1 DEF KernelsFor
<1>5. ASSUME NEW l \in Padded, PadKernel[l] = k PROVE \E h \in Host : \E c : HeldBack(k, h, c)
  <2>1. PICK h \in Host : \E j \in DOMAIN Order[h] : Order[h][j] = l
    BY ChannelAssumption, CoverAssumption
  <2> QED BY <1>3, <1>5, <2>1 DEF KernelsFor
<1>6. ASSUME NEW h \in Host, NEW i \in DOMAIN FeederOrder[h], FeederOrder[h][i] = k
      PROVE  FALSE
  <2>1. i \in 1 .. fed[h]
    BY <1>1, Orders
  <2> QED BY <1>2, <1>6, <2>1 DEF Enqueued, FedBy
<1> QED BY <1>4, <1>5, <1>6, CoverAssumption

(* Nobody has less than it needs: the lowest kernel without its input has  *)
(* all that feeds it, and no wait for a Concat holds back its readers.     *)
LEMMA LowestGoesOn ==
  ASSUME IInv, \A h \in Host : pc[h] \notin Before, \A h \in Host : Waits(h) \/ Gone(h),
         \A j \in Kernel : Idle(j),
         NEW k \in Kernel \ delivered,
         \A j \in Kernel \ delivered : ~ (Net.level[j] < Net.level[k])
  PROVE  FALSE
<1>1. /\ NetTypes(Net) /\ OneWriter(Net) /\ Layered(Net)
      /\ \A j \in Kernel : Net.level[j] \in Nat
  <2>1. NetTypes(Net) /\ OneWriter(Net) /\ Layered(Net)
    BY ChannelAssumption DEF IsKernelNet
  <2>2. Cardinality(KernelsOf(Net)) \in Nat
    BY <2>1, FS_CardinalityType DEF NetTypes
  <2>3. PICK N \in Nat : N = Cardinality(KernelsOf(Net))
    BY <2>2
  <2>4. Net.level \in [Kernel -> 0 .. N]
    BY <2>1, <2>3 DEF NetTypes, Kernel
  <2>5. \A j \in Kernel : Net.level[j] \in Nat
    BY <2>4
  <2> QED BY <2>1, <2>5
<1>2. ASSUME NEW h \in Host, NEW c, c \in Concats, ~ Waited(c)
      PROVE  /\ c \in Kernel /\ Net.level[k] < Net.level[c]
             /\ Feeding(Net, c) = {}
  <2>1. c \in Kernel
    BY <1>2, ChannelAssumption
  <2>2. PICK i \in DOMAIN Parents[c] : Parents[c][i] \notin ended
    BY <1>2 DEF Waited
  <2>3. PICK w : w = Parents[c][i]
    OBVIOUS
  <2>4. w \in Keeping /\ w \in Kernel
    BY <1>2, <2>2, <2>3, ParentsOf, ChannelAssumption
  <2>5. w \in Net.after[c]
    BY <1>2, <2>1, <2>3, ConcatAssumption
  <2>6. w \notin delivered
    BY <2>2, <2>3, <2>4 DEF Idle
  <2>7. ~ (Net.level[w] < Net.level[k]) /\ Net.level[w] < Net.level[c]
    BY <1>1, <2>1, <2>4, <2>5, <2>6 DEF Layered, Kernel
  <2>8. Feeding(Net, c) = {}
    BY <1>1, <2>1, <2>5 DEF Layered, OneWriter, Kernel
  <2> QED BY <1>1, <2>1, <2>4, <2>7, <2>8
<1>3. ASSUME NEW x \in Kernel \ started, k \in Siblings(x)
      PROVE  x # k /\ Feeding(Net, x) = {}
  <2>1. PICK h \in Host, c \in Concats : HeldBack(x, h, c)
    BY <1>3, NotStarted DEF HeldBack
  <2>2. c \in Kernel /\ Net.level[k] < Net.level[c] /\ Feeding(Net, c) = {}
    BY <1>2, <2>1 DEF HeldBack
  <2>3. x = c
    <3>1. SUFFICES ASSUME NEW i \in DOMAIN Order[h], NEW j \in DOMAIN Order[h],
                          i < j, Order[h][i] = c, x \in KernelsFor(Order[h][j])
                   PROVE  FALSE
      BY <2>1 DEF HeldBack
    <3>2. Net.level[c] < Net.level[k]
      BY <1>3, <2>1, <3>1, ScheduleAssumption DEF HeldBack
    <3> QED BY <1>1, <2>2, <3>2
  <2> QED BY <1>1, <2>2, <2>3
<1>4. k \in started
  <2>1. k \in Siblings(k)
    BY DEF Siblings
  <2> QED BY <1>3, <2>1
<1>5. ASSUME NEW w \in Feeding(Net, k) PROVE w \in delivered /\ Readers(Net, w) \subseteq started
  <2>1. w \in Kernel /\ k \in Readers(Net, w)
    BY DEF Feeding, Kernel
  <2>2. w \in delivered
    BY <1>1, <2>1 DEF Layered, Kernel
  <2>3. ASSUME NEW r \in Readers(Net, w), r \notin started PROVE FALSE
    <3>1. r \in Kernel
      <4>1. Net.outs[w] \in Seq(KernelsOf(Net))
        BY <1>1, <2>1 DEF NetTypes, Kernel
      <4> QED BY <4>1 DEF Readers, Kernel
    <3>2. w \in Feeding(Net, r)
      BY <2>1 DEF Feeding, Kernel
    <3>3. k \in Siblings(r)
      BY <2>1, <3>2 DEF Siblings
    <3> QED BY <1>3, <2>3, <3>1, <3>2, <3>3
  <2> QED BY <2>2, <2>3
<1>6. Deliverable(k)
  BY <1>4, <1>5, ScheduleAssumption DEF Deliverable
<1> QED BY <1>6 DEF Idle

LEMMA SomebodyGoesOn ==
  ASSUME IInv, OptionsOK
  PROVE  NoDeadlock
<1> SUFFICES ASSUME \A h \in Host : Waits(h) \/ Gone(h), \A k \in Kernel : Idle(k)
             PROVE  \A h \in Host : Gone(h)
  BY DEF NoDeadlock
<1>1. \A h \in Host : pc[h] \notin {"options", "flash", "barrier"}
  BY DEF Waits, Gone, Walking, AllFlashed
<1>2. CASE \E h \in Host : pc[h] = "failed"
  BY <1>1, <1>2 DEF OptionsOK, Gone
<1>3. CASE \A h \in Host : pc[h] # "failed"
  <2>1. \A h \in Host : pc[h] \notin Before
    BY <1>1, <1>3 DEF Before
  <2>2. Kernel \subseteq delivered
    <3> DEFINE U == Kernel \ delivered
    <3> SUFFICES ASSUME U # {} PROVE FALSE
      OBVIOUS
    <3>1. NetTypes(Net) /\ U \subseteq KernelsOf(Net)
      BY ChannelAssumption DEF IsKernelNet, Kernel
    <3> HIDE DEF U
    <3>2. PICK k \in U : \A j \in U : ~ (Net.level[j] < Net.level[k])
      BY <3>1, LowestAndHighest
    <3> QED BY <2>1, <3>2, LowestGoesOn DEF U
  <2>3. Keeping \subseteq ended
    BY <2>2, ChannelAssumption DEF Idle
  <2>4. \A c \in Concats : Waited(c)
    BY <2>3, ParentsOf DEF Waited
  <2>5. LastLayer \in ended
    BY <2>3, ChannelAssumption
  <2>6. \A h \in Host : pc[h] \in {"finalize", "exit"}
    <3>1. \A h \in Host : pc[h] \in Place
      BY DEF IInv, TypeOK, Place
    <3> QED BY <1>3, <2>4, <2>5, <3>1, <1>1 DEF Waits, Gone, Place
  <2> QED BY <2>6 DEF Waits, Gone, AllFinalize, Walking
<1> QED BY <1>2, <1>3

(* As long as a process has not ended, some host or some kernel can go on: *)
(* no barrier, no wait for the branches of a Concat or for the scores, no  *)
(* channel without a reader and no cable stops them all.                   *)
THEOREM NobodyStuck == Spec => []NoDeadlock
<1>1. IInv /\ OptionsOK => NoDeadlock
  BY SomebodyGoesOn
<1> QED BY Invariant, OptionsInvariant, <1>1, PTL
=============================================================================
