--------------------------- MODULE Packets_proofs ---------------------------
(***************************************************************************)
(* Theorems about Packets for every network of kernels whose loops agree   *)
(* (IsKernelNet): with the numbers of the source, that TLC evaluates, they *)
(* hold of all kernels of the channel design.                              *)
(*                                                                         *)
(* The inductive invariant IInv counts: the packets in a channel are those *)
(* its writer has sent in all, less those its reader has received in all.  *)
(***************************************************************************)
EXTENDS Packets, KernelNet_proofs, SequenceTheorems

(* How many packets w has sent to its output i, and k received, in all.    *)
Passed(w, i) == IF i < lane[w] THEN 1 ELSE 0
Sent(w, i)   == round[w] * Net.writes[w] + put[w] + Passed(w, i)
Received(k)  == round[k] * Net.reads[k] + got[k]

(* A kernel that was not enqueued has done nothing.                        *)
Idle ==
  \A k \in Kernel : k \notin started =>
    round[k] = 0 /\ got[k] = 0 /\ put[k] = 0 /\ lane[k] = 1

(* A round reads first, then writes; the outputs take turns.               *)
InOrder ==
  \A k \in Kernel :
    /\ put[k] # 0 \/ lane[k] # 1 => got[k] = Net.reads[k]
    /\ lane[k] # 1 => put[k] < Net.writes[k] /\ round[k] < Net.rounds[k]
    /\ Finished(k) => got[k] = 0 /\ put[k] = 0

(* A channel holds what was sent and not yet received.                     *)
Fill ==
  \A w \in Kernel : \A i \in DOMAIN Net.outs[w] :
    fill[Net.outs[w][i]] + Received(Net.outs[w][i]) = Sent(w, i)

Unfed == \A k \in Kernel : Feeding(Net, k) = {} => fill[k] = 0

IInv == TypeOK /\ Idle /\ InOrder /\ Fill /\ Unfed

-----------------------------------------------------------------------------
(* Arithmetic.                                                             *)

LEMMA NextMultiple ==
  ASSUME NEW a \in Nat, NEW b \in Nat
  PROVE  (a + 1) * b = a * b + b /\ a * b \in Nat /\ (a + 1) * b \in Nat
OBVIOUS

LEMMA MultiplesGrow ==
  ASSUME NEW a \in Nat, NEW b \in Nat, NEW c \in Nat, a <= b
  PROVE  a * c <= b * c
<1>1. PICK d \in Nat : b = a + d
  <2>1. b - a \in Nat /\ b = a + (b - a)
    OBVIOUS
  <2> QED BY <2>1
<1>2. (a + d) * c = a * c + d * c
  OBVIOUS
<1>3. d * c \in Nat /\ a * c \in Nat
  OBVIOUS
<1> QED BY <1>1, <1>2, <1>3

(* Round r + 1 of n, with at most m packets a round, is within n * m.      *)
LEMMA Within ==
  ASSUME NEW r \in Nat, NEW n \in Nat, NEW m \in Nat, r < n
  PROVE  r * m + m <= n * m /\ r * m \in Nat /\ n * m \in Nat
<1>1. (r + 1) * m <= n * m
  BY MultiplesGrow
<1>2. (r + 1) * m = r * m + m /\ r * m \in Nat
  BY NextMultiple
<1>3. n * m \in Nat
  BY NextMultiple
<1> QED BY <1>1, <1>2, <1>3

-----------------------------------------------------------------------------
(* The network.                                                            *)

LEMMA KernelFields ==
  ASSUME NEW k \in Kernel
  PROVE  /\ Net.rounds[k] \in Nat /\ Net.rounds[k] > 0
         /\ Net.reads[k] \in Nat /\ Net.writes[k] \in Nat
         /\ Net.depth[k] \in Nat /\ Net.depth[k] > 0
         /\ Net.level[k] \in Nat
         /\ Net.after[k] \subseteq Kernel
         /\ Len(Net.outs[k]) \in Nat
         /\ DOMAIN Net.outs[k] = 1 .. Len(Net.outs[k])
         /\ \A i \in DOMAIN Net.outs[k] : Net.outs[k][i] \in Kernel
<1>1. NetTypes(Net)
  BY NetAssumption DEF IsKernelNet
<1>2. /\ Net.rounds \in [Kernel -> Nat \ {0}]
      /\ Net.reads \in [Kernel -> Nat] /\ Net.writes \in [Kernel -> Nat]
      /\ Net.outs \in [Kernel -> Seq(Kernel)]
      /\ Net.depth \in [Kernel -> Nat \ {0}]
      /\ Net.after \in [Kernel -> SUBSET Kernel]
      /\ Net.level \in [Kernel -> 0 .. Cardinality(Kernel)]
  BY <1>1 DEF NetTypes, Kernel
<1>3. Net.outs[k] \in Seq(Kernel)
  BY <1>2
<1>4. /\ Len(Net.outs[k]) \in Nat
      /\ DOMAIN Net.outs[k] = 1 .. Len(Net.outs[k])
  BY <1>3, LenProperties
<1>5. \A i \in DOMAIN Net.outs[k] : Net.outs[k][i] \in Kernel
  BY <1>3, <1>4, ElementOfSeq
<1>6. Net.level[k] \in Nat
  BY <1>2
<1> QED BY <1>2, <1>4, <1>5, <1>6

LEMMA OneWriterOfEach ==
  ASSUME NEW v \in Kernel, NEW w \in Kernel,
         NEW i \in DOMAIN Net.outs[v], NEW j \in DOMAIN Net.outs[w],
         Net.outs[v][i] = Net.outs[w][j]
  PROVE  v = w /\ i = j
BY NetAssumption DEF IsKernelNet, OneWriter, Kernel

(* The channel a kernel reads has a writer, a kernel that writes an output.*)
LEMMA Writer ==
  ASSUME NEW k \in Kernel
  PROVE  /\ Net.reads[k] # 0 =>
              \E w \in Kernel : \E i \in DOMAIN Net.outs[w] :
                k = Net.outs[w][i] /\ w \in Feeding(Net, k)
         /\ Net.writes[k] # 0 => Len(Net.outs[k]) > 0
<1>1. /\ Net.writes[k] = 0 <=> Net.outs[k] = <<>>
      /\ Net.reads[k] = 0 <=> Feeding(Net, k) = {}
  BY NetAssumption DEF IsKernelNet, OneWriter, Kernel
<1>2. ASSUME Net.reads[k] # 0
      PROVE  \E w \in Kernel : \E i \in DOMAIN Net.outs[w] :
               k = Net.outs[w][i] /\ w \in Feeding(Net, k)
  <2>1. PICK w \in Kernel : w \in Feeding(Net, k)
    BY <1>1, <1>2 DEF Feeding, Kernel
  <2>2. \E i \in DOMAIN Net.outs[w] : k = Net.outs[w][i]
    BY <2>1 DEF Feeding, Readers
  <2> QED BY <2>1, <2>2
<1>3. ASSUME Net.writes[k] # 0 PROVE Len(Net.outs[k]) > 0
  <2>1. Net.outs[k] \in Seq(Kernel)
    BY NetAssumption DEF IsKernelNet, NetTypes, Kernel
  <2>2. Net.outs[k] # <<>>
    BY <1>1, <1>3
  <2> QED BY <2>1, <2>2, EmptySeq, LenProperties
<1> QED BY <1>2, <1>3

LEMMA ReaderOf ==
  ASSUME NEW w \in Kernel, NEW i \in DOMAIN Net.outs[w]
  PROVE  /\ w \in Feeding(Net, Net.outs[w][i])
         /\ Net.outs[w][i] \in Readers(Net, w)
         /\ Net.reads[Net.outs[w][i]] # 0
         /\ Net.rounds[w] * Net.writes[w]
              = Net.rounds[Net.outs[w][i]] * Net.reads[Net.outs[w][i]]
         /\ Net.level[w] < Net.level[Net.outs[w][i]]
         /\ Net.after[Net.outs[w][i]] = {}
<1> DEFINE k == Net.outs[w][i]
<1>1. k \in Kernel
  BY KernelFields
<1>2. w \in Feeding(Net, k) /\ k \in Readers(Net, w)
  BY DEF Feeding, Readers, Kernel
<1>3. Net.reads[k] # 0
  BY <1>1, <1>2, NetAssumption DEF IsKernelNet, OneWriter, Kernel
<1>4. Written(Net, w) = Taken(Net, k)
  BY <1>2, NetAssumption DEF IsKernelNet, Balanced, Kernel
<1>5. Net.level[w] < Net.level[k] /\ Net.after[k] = {}
  BY <1>1, <1>2, <1>3, NetAssumption DEF IsKernelNet, Layered, Kernel
<1> QED BY <1>2, <1>3, <1>4, <1>5 DEF Written, Taken

-----------------------------------------------------------------------------
(* The invariant is inductive.                                             *)

LEMMA InitCounts == Init => IInv
<1> SUFFICES ASSUME Init PROVE IInv
  OBVIOUS
<1>1. TypeOK
  BY KernelFields DEF Init, TypeOK
<1>2. Idle /\ Unfed
  BY DEF Init, Idle, Unfed
<1>3. InOrder
  BY KernelFields DEF Init, InOrder, Finished
<1>4. Fill
  <2> SUFFICES ASSUME NEW w \in Kernel, NEW i \in DOMAIN Net.outs[w]
               PROVE  fill[Net.outs[w][i]] + Received(Net.outs[w][i]) = Sent(w, i)
    BY DEF Fill
  <2>1. Net.outs[w][i] \in Kernel /\ i \in Nat /\ ~ (i < 1)
    BY KernelFields
  <2>2. Sent(w, i) = 0
    BY <2>1, KernelFields DEF Init, Sent, Passed
  <2>3. fill[Net.outs[w][i]] = 0 /\ Received(Net.outs[w][i]) = 0
    BY <2>1, KernelFields DEF Init, Received
  <2> QED BY <2>2, <2>3
<1> QED BY <1>1, <1>2, <1>3, <1>4 DEF IInv

(* What TypeOK and InOrder say of one kernel.                              *)
LEMMA KernelState ==
  ASSUME IInv, NEW k \in Kernel
  PROVE  /\ round[k] \in Nat /\ got[k] \in Nat /\ put[k] \in Nat
         /\ lane[k] \in Nat /\ lane[k] >= 1 /\ fill[k] \in Nat
         /\ round[k] <= Net.rounds[k] /\ got[k] <= Net.reads[k]
         /\ put[k] <= Net.writes[k] /\ fill[k] <= Net.depth[k]
         /\ lane[k] <= Len(Net.outs[k]) \/ lane[k] = 1
BY DEF IInv, TypeOK

LEMMA StartCounts ==
  ASSUME IInv, NEW k \in Kernel, Start(k)
  PROVE  IInv'
<1>1. TypeOK'
  BY DEF IInv, TypeOK, Start, kernel_vars
<1>2. Idle'
  BY DEF IInv, Idle, Start, kernel_vars
<1>3. InOrder' /\ Unfed'
  BY DEF IInv, InOrder, Unfed, Finished, Start, kernel_vars
<1>4. Fill'
  BY DEF IInv, Fill, Sent, Passed, Received, Start, kernel_vars
<1> QED BY <1>1, <1>2, <1>3, <1>4 DEF IInv

LEMMA ReadCounts ==
  ASSUME IInv, NEW k \in Kernel, Read(k)
  PROVE  IInv'
<1>1. /\ k \in started /\ round[k] < Net.rounds[k]
      /\ got[k] < Net.reads[k] /\ fill[k] > 0
      /\ got' = [got EXCEPT ![k] = @ + 1] /\ fill' = [fill EXCEPT ![k] = @ - 1]
      /\ started' = started /\ round' = round /\ put' = put /\ lane' = lane
  BY DEF Read, CanRead, InRound
<1>2. got \in [Kernel -> Nat] /\ fill \in [Kernel -> Nat]
  BY DEF IInv, TypeOK
<1>3. /\ got'[k] = got[k] + 1 /\ fill'[k] = fill[k] - 1
      /\ \A j \in Kernel : j # k => got'[j] = got[j] /\ fill'[j] = fill[j]
  BY <1>1, <1>2
<1>4. got' \in [Kernel -> Nat] /\ fill' \in [Kernel -> Nat]
  BY <1>1, <1>2
<1>5. TypeOK'
  <2>1. ASSUME NEW j \in Kernel
        PROVE  got'[j] <= Net.reads[j] /\ fill'[j] <= Net.depth[j]
    BY <1>1, <1>2, <1>3, KernelState, KernelFields
  <2> QED BY <1>1, <1>4, <2>1 DEF IInv, TypeOK
<1>6. Idle'
  BY <1>1, <1>3 DEF IInv, Idle
<1>7. InOrder'
  <2>1. put[k] = 0 /\ lane[k] = 1
    BY <1>1, KernelState, KernelFields DEF IInv, InOrder
  <2> QED BY <1>1, <1>3, <2>1, KernelState, KernelFields DEF IInv, InOrder, Finished
<1>8. Fill'
  <2> SUFFICES ASSUME NEW w \in Kernel, NEW i \in DOMAIN Net.outs[w]
               PROVE  (fill[Net.outs[w][i]] + Received(Net.outs[w][i]) = Sent(w, i))'
    BY DEF Fill
  <2> DEFINE j == Net.outs[w][i]
  <2>1. j \in Kernel
    BY KernelFields
  <2>2. fill[j] + Received(j) = Sent(w, i)
    BY DEF IInv, Fill
  <2>3. Sent(w, i)' = Sent(w, i)
    BY <1>1 DEF Sent, Passed
  <2>4. round[j] * Net.reads[j] \in Nat
    BY <2>1, KernelState, KernelFields, NextMultiple
  <2>5. got'[j] - got[j] = fill[j] - fill'[j] /\ got'[j] \in Nat /\ fill'[j] \in Nat
    BY <1>2, <1>3, <1>4, <2>1
  <2>6. fill'[j] + Received(j)' = fill[j] + Received(j)
    <3> DEFINE m == round[j] * Net.reads[j]
    <3>1. Received(j) = m + got[j] /\ Received(j)' = m + got'[j]
      BY <1>1 DEF Received
    <3> HIDE DEF m, j
    <3>2. m \in Nat
      BY <2>4 DEF m
    <3>3. got[j] \in Nat /\ fill[j] \in Nat
      BY <1>2, <2>1
    <3> QED BY <2>5, <3>1, <3>2, <3>3
  <2> QED BY <2>2, <2>3, <2>6
<1>9. Unfed'
  BY <1>1, <1>3, <1>2 DEF IInv, Unfed
<1> QED BY <1>5, <1>6, <1>7, <1>8, <1>9 DEF IInv

LEMMA WriteCounts ==
  ASSUME IInv, NEW k \in Kernel, Write(k)
  PROVE  IInv'
<1> DEFINE n == Len(Net.outs[k])
           o == Out(k)
<1>1. /\ k \in started /\ round[k] < Net.rounds[k]
      /\ got[k] = Net.reads[k] /\ put[k] < Net.writes[k]
      /\ fill[o] < Net.depth[o]
      /\ fill' = [fill EXCEPT ![o] = @ + 1]
      /\ started' = started /\ round' = round /\ got' = got
  BY DEF Write, CanWrite, Writing, InRound
<1>2. \/ lane[k] < n /\ lane' = [lane EXCEPT ![k] = @ + 1] /\ put' = put
      \/ ~ (lane[k] < n) /\ lane' = [lane EXCEPT ![k] = 1] /\ put' = [put EXCEPT ![k] = @ + 1]
  BY DEF Write
<1>3. /\ lane \in [Kernel -> Nat \ {0}] /\ put \in [Kernel -> Nat]
      /\ fill \in [Kernel -> Nat]
  BY DEF IInv, TypeOK
<1>4. n \in Nat /\ n > 0 /\ DOMAIN Net.outs[k] = 1 .. n
  BY <1>1, Writer, KernelFields, KernelState
<1>5. lane[k] \in 1 .. n
  BY <1>4, KernelState
<1>6. o \in Kernel /\ lane[k] \in DOMAIN Net.outs[k] /\ o = Net.outs[k][lane[k]]
  BY <1>4, <1>5, KernelFields DEF Out
<1> HIDE DEF o, n
<1>7. /\ lane' \in [Kernel -> Nat \ {0}] /\ put' \in [Kernel -> Nat]
      /\ \A j \in Kernel : j # k => lane'[j] = lane[j] /\ put'[j] = put[j]
      /\ \/ lane[k] < n /\ lane'[k] = lane[k] + 1 /\ put'[k] = put[k]
         \/ lane[k] = n /\ lane'[k] = 1 /\ put'[k] = put[k] + 1
  BY <1>2, <1>3, <1>4, <1>5
<1>8. /\ fill' \in [Kernel -> Nat]
      /\ fill'[o] = fill[o] + 1
      /\ \A j \in Kernel : j # o => fill'[j] = fill[j]
  BY <1>1, <1>3, <1>6
<1>9. TypeOK'
  <2>1. ASSUME NEW j \in Kernel
        PROVE  /\ put'[j] <= Net.writes[j]
               /\ lane'[j] <= Len(Net.outs[j]) \/ lane'[j] = 1
               /\ fill'[j] <= Net.depth[j]
    <3>1. /\ put[j] <= Net.writes[j] /\ fill[j] <= Net.depth[j]
          /\ lane[j] <= Len(Net.outs[j]) \/ lane[j] = 1
      BY KernelState
    <3>2. fill'[j] <= Net.depth[j]
      <4>1. Net.depth[j] \in Nat /\ fill[j] \in Nat
        BY <1>3, KernelFields
      <4> QED BY <1>1, <1>8, <3>1, <4>1
    <3>3. CASE j = k
      <4>1. put'[k] <= Net.writes[k]
        <5>1. Net.writes[k] \in Nat /\ put[k] \in Nat
          BY <1>3, KernelFields
        <5> QED BY <1>1, <1>7, <5>1
      <4>2. lane'[k] <= n \/ lane'[k] = 1
        BY <1>4, <1>5, <1>7
      <4> QED BY <3>2, <3>3, <4>1, <4>2 DEF n
    <3>4. CASE j # k
      BY <1>7, <3>1, <3>2, <3>4
    <3> QED BY <3>3, <3>4
  <2> QED BY <1>1, <1>7, <1>8, <2>1 DEF IInv, TypeOK
<1>10. Idle'
  BY <1>1, <1>7 DEF IInv, Idle
<1>11. InOrder'
  <2>1. ~ Finished(k)'
    BY <1>1, KernelState, KernelFields DEF Finished
  <2>2. lane'[k] # 1 => put'[k] < Net.writes[k]
    BY <1>1, <1>5, <1>7
  <2>3. ASSUME NEW j \in Kernel, j # k
        PROVE  /\ put'[j] # 0 \/ lane'[j] # 1 => got'[j] = Net.reads[j]
               /\ lane'[j] # 1 => put'[j] < Net.writes[j] /\ round'[j] < Net.rounds[j]
               /\ Finished(j)' => got'[j] = 0 /\ put'[j] = 0
    BY <1>1, <1>7, <2>3 DEF IInv, InOrder, Finished
  <2> QED BY <1>1, <2>1, <2>2, <2>3 DEF InOrder
<1>12. Unfed'
  <2>1. Feeding(Net, o) # {}
    BY <1>6, ReaderOf
  <2> QED BY <1>8, <2>1 DEF IInv, Unfed
<1>13. Fill'
  <2> SUFFICES ASSUME NEW w \in Kernel, NEW i \in DOMAIN Net.outs[w]
               PROVE  (fill[Net.outs[w][i]] + Received(Net.outs[w][i]) = Sent(w, i))'
    BY DEF Fill
  <2> DEFINE j == Net.outs[w][i]
             m == round[w] * Net.writes[w]
  <2>1. j \in Kernel /\ i \in Nat /\ i >= 1
    BY KernelFields
  <2>2. fill[j] + Received(j) = Sent(w, i)
    BY DEF IInv, Fill
  <2>3. Received(j)' = Received(j) /\ Received(j) \in Nat
    <3>1. round[j] * Net.reads[j] \in Nat /\ got[j] \in Nat
      BY <2>1, KernelState, KernelFields, NextMultiple
    <3> QED BY <1>1, <3>1 DEF Received
  <2>4. m \in Nat
    BY KernelState, KernelFields, NextMultiple
  <2>5. Sent(w, i) = m + put[w] + Passed(w, i) /\ Sent(w, i)' = m + put'[w] + Passed(w, i)'
    BY <1>1 DEF Sent
  <2>6. put[w] \in Nat /\ put'[w] \in Nat /\ lane[w] \in Nat /\ lane'[w] \in Nat
    BY <1>3, <1>7
  <2> HIDE DEF m
  <2>7. CASE w = k /\ i = lane[k]
    <3>1. j = o /\ fill'[j] = fill[j] + 1 /\ fill[j] \in Nat
      BY <1>3, <1>6, <1>8, <2>7
    <3>2. Sent(w, i)' = Sent(w, i) + 1
      <4>1. put'[k] + Passed(k, i)' = put[k] + Passed(k, i) + 1
        BY <1>7, <2>1, <2>6, <2>7 DEF Passed
      <4> QED BY <2>4, <2>5, <2>6, <2>7, <4>1 DEF Passed
    <3>3. Sent(w, i) \in Nat
      BY <2>4, <2>5, <2>6 DEF Passed
    <3> QED BY <2>2, <2>3, <3>1, <3>2, <3>3
  <2>8. CASE w = k /\ i # lane[k]
    <3>1. j # o
      BY <1>6, <2>8, OneWriterOfEach
    <3>2. i <= n
      BY <1>4, <2>8
    <3>3. put'[k] + Passed(k, i)' = put[k] + Passed(k, i)
      BY <1>4, <1>7, <2>1, <2>6, <2>8, <3>2 DEF Passed
    <3>4. Sent(w, i)' = Sent(w, i)
      BY <2>4, <2>5, <2>6, <2>8, <3>3 DEF Passed
    <3> QED BY <1>8, <2>1, <2>2, <2>3, <3>1, <3>4
  <2>9. CASE w # k
    <3>1. j # o
      BY <1>6, <2>9, OneWriterOfEach
    <3>2. Sent(w, i)' = Sent(w, i)
      BY <1>7, <2>5, <2>9 DEF Passed
    <3> QED BY <1>8, <2>1, <2>2, <2>3, <3>1, <3>2
  <2> QED BY <2>7, <2>8, <2>9
<1> QED BY <1>9, <1>10, <1>11, <1>12, <1>13 DEF IInv

LEMMA TurnCounts ==
  ASSUME IInv, NEW k \in Kernel, Turn(k)
  PROVE  IInv'
<1>1. /\ k \in started /\ round[k] < Net.rounds[k]
      /\ got[k] = Net.reads[k] /\ put[k] = Net.writes[k]
      /\ round' = [round EXCEPT ![k] = @ + 1]
      /\ got' = [got EXCEPT ![k] = 0] /\ put' = [put EXCEPT ![k] = 0]
      /\ started' = started /\ lane' = lane /\ fill' = fill
  BY DEF Turn, CanTurn, InRound
<1>2. round \in [Kernel -> Nat] /\ got \in [Kernel -> Nat] /\ put \in [Kernel -> Nat]
  BY DEF IInv, TypeOK
<1>3. /\ round' \in [Kernel -> Nat] /\ got' \in [Kernel -> Nat] /\ put' \in [Kernel -> Nat]
      /\ round'[k] = round[k] + 1 /\ got'[k] = 0 /\ put'[k] = 0
      /\ \A j \in Kernel : j # k =>
           round'[j] = round[j] /\ got'[j] = got[j] /\ put'[j] = put[j]
  BY <1>1, <1>2
<1>4. lane[k] = 1
  BY <1>1, KernelState, KernelFields DEF IInv, InOrder
<1>5. TypeOK'
  <2>1. ASSUME NEW j \in Kernel
        PROVE  /\ round'[j] <= Net.rounds[j]
               /\ got'[j] <= Net.reads[j] /\ put'[j] <= Net.writes[j]
    BY <1>1, <1>3, KernelState, KernelFields
  <2> QED BY <1>1, <1>3, <2>1 DEF IInv, TypeOK
<1>6. Idle' /\ Unfed'
  BY <1>1, <1>3 DEF IInv, Idle, Unfed
<1>7. InOrder'
  BY <1>1, <1>3, <1>4, KernelState, KernelFields DEF IInv, InOrder, Finished
<1>8. Fill'
  <2> SUFFICES ASSUME NEW w \in Kernel, NEW i \in DOMAIN Net.outs[w]
               PROVE  (fill[Net.outs[w][i]] + Received(Net.outs[w][i]) = Sent(w, i))'
    BY DEF Fill
  <2> DEFINE j == Net.outs[w][i]
  <2>1. j \in Kernel
    BY KernelFields
  <2>2. fill[j] + Received(j) = Sent(w, i)
    BY DEF IInv, Fill
  <2>3. Received(j)' = Received(j)
    <3>1. CASE j = k
      <4>1. (round[k] + 1) * Net.reads[k] = round[k] * Net.reads[k] + Net.reads[k]
            /\ (round[k] + 1) * Net.reads[k] \in Nat
        BY KernelState, KernelFields, NextMultiple
      <4>2. Received(k)' = (round[k] + 1) * Net.reads[k] + 0
        BY <1>3 DEF Received
      <4>3. Received(k) = round[k] * Net.reads[k] + Net.reads[k]
        BY <1>1 DEF Received
      <4> QED BY <3>1, <4>1, <4>2, <4>3
    <3>2. CASE j # k
      BY <1>3, <2>1, <3>2 DEF Received
    <3> QED BY <3>1, <3>2
  <2>4. Sent(w, i)' = Sent(w, i)
    <3>1. CASE w = k
      <4>1. (round[k] + 1) * Net.writes[k] = round[k] * Net.writes[k] + Net.writes[k]
            /\ (round[k] + 1) * Net.writes[k] \in Nat
        BY KernelState, KernelFields, NextMultiple
      <4>2. Sent(k, i)' = (round[k] + 1) * Net.writes[k] + 0 + Passed(k, i)
        BY <1>1, <1>3 DEF Sent, Passed
      <4>3. Sent(k, i) = round[k] * Net.writes[k] + Net.writes[k] + Passed(k, i)
        BY <1>1 DEF Sent
      <4> QED BY <3>1, <4>1, <4>2, <4>3
    <3>2. CASE w # k
      BY <1>1, <1>3, <3>2 DEF Sent, Passed
    <3> QED BY <3>1, <3>2
  <2> QED BY <1>1, <2>2, <2>3, <2>4
<1> QED BY <1>5, <1>6, <1>7, <1>8 DEF IInv

LEMMA NextCounts == IInv /\ [Next]_vars => IInv'
<1> SUFFICES ASSUME IInv, [Next]_vars PROVE IInv'
  OBVIOUS
<1>1. ASSUME NEW k \in Kernel, Start(k) PROVE IInv'
  BY <1>1, StartCounts
<1>2. ASSUME NEW k \in Kernel, Step(k) PROVE IInv'
  BY <1>2, ReadCounts, WriteCounts, TurnCounts DEF Step
<1>3. CASE UNCHANGED vars
  BY <1>3 DEF vars, kernel_vars, IInv, TypeOK, Idle, InOrder, Finished, Fill, Unfed,
              Sent, Passed, Received
<1> QED BY <1>1, <1>2, <1>3 DEF Next

LEMMA Counts == Spec => []IInv
BY InitCounts, NextCounts, PTL DEF Spec

(* The type invariant of the kernels: in particular no channel ever holds  *)
(* more packets than its depth, and no loop counts past its end.           *)
THEOREM TypeCorrect == Spec => []TypeOK
<1>1. IInv => TypeOK
  BY DEF IInv
<1> QED BY Counts, <1>1, PTL

-----------------------------------------------------------------------------
(* Nothing is left over, and nothing stalls.                               *)

(* No output gets more packets than its reader takes, and before the next  *)
(* packet goes to it, it has got fewer.                                    *)
LEMMA SentBound ==
  ASSUME IInv, NEW w \in Kernel, NEW i \in DOMAIN Net.outs[w]
  PROVE  /\ Sent(w, i) \in Nat /\ Net.rounds[w] * Net.writes[w] \in Nat
         /\ Sent(w, i) <= Net.rounds[w] * Net.writes[w]
         /\ Finished(w) => Sent(w, i) = Net.rounds[w] * Net.writes[w]
         /\ ~ Finished(w) /\ put[w] < Net.writes[w] /\ lane[w] = i
              => Sent(w, i) < Net.rounds[w] * Net.writes[w]
<1> DEFINE m == round[w] * Net.writes[w]
           t == Net.rounds[w] * Net.writes[w]
<1>1. /\ round[w] \in Nat /\ put[w] \in Nat /\ lane[w] \in Nat /\ lane[w] >= 1
      /\ Net.rounds[w] \in Nat /\ Net.writes[w] \in Nat /\ i \in Nat /\ i >= 1
      /\ round[w] <= Net.rounds[w] /\ put[w] <= Net.writes[w]
  BY KernelState, KernelFields
<1>2. m \in Nat /\ t \in Nat
  BY <1>1, NextMultiple
<1>3. Sent(w, i) = m + put[w] + Passed(w, i) /\ Passed(w, i) \in {0, 1}
  BY DEF Sent, Passed
<1>4. CASE Finished(w)
  <2>1. put[w] = 0 /\ lane[w] = 1 /\ m = t
    BY <1>1, <1>4 DEF IInv, InOrder, Finished
  <2>2. Passed(w, i) = 0
    BY <1>1, <2>1 DEF Passed
  <2> HIDE DEF m, t
  <2>3. Sent(w, i) = t
    BY <1>2, <1>3, <2>1, <2>2
  <2>4. t \in Nat /\ Sent(w, i) \in Nat /\ Sent(w, i) <= t
    BY <1>2, <2>3
  <2> QED BY <1>4, <2>3, <2>4 DEF t
<1>5. CASE ~ Finished(w)
  <2>1. m + Net.writes[w] <= t
    <3>1. round[w] < Net.rounds[w]
      BY <1>1, <1>5 DEF Finished
    <3> QED BY <1>1, <3>1, Within
  <2>2. put[w] + Passed(w, i) <= Net.writes[w]
    BY <1>1 DEF Passed, IInv, InOrder
  <2>3. lane[w] = i => Passed(w, i) = 0
    BY <1>1 DEF Passed
  <2> HIDE DEF m, t
  <2>4. Sent(w, i) \in Nat /\ Sent(w, i) <= t
    BY <1>1, <1>2, <1>3, <2>1, <2>2
  <2>5. put[w] < Net.writes[w] /\ lane[w] = i => Sent(w, i) < t
    BY <1>1, <1>2, <1>3, <2>1, <2>3
  <2> QED BY <1>2, <1>5, <2>4, <2>5 DEF t
<1> QED BY <1>4, <1>5

(* A reader has all the packets it will ever get when it has ended, and    *)
(* not before it has read the input of its last round.                     *)
LEMMA ReceivedBound ==
  ASSUME IInv, NEW k \in Kernel
  PROVE  /\ Received(k) \in Nat /\ Net.rounds[k] * Net.reads[k] \in Nat
         /\ Finished(k) => Received(k) = Net.rounds[k] * Net.reads[k]
         /\ ~ Finished(k) /\ got[k] < Net.reads[k]
              => Received(k) < Net.rounds[k] * Net.reads[k]
<1> DEFINE m == round[k] * Net.reads[k]
           t == Net.rounds[k] * Net.reads[k]
<1>1. /\ round[k] \in Nat /\ got[k] \in Nat
      /\ Net.rounds[k] \in Nat /\ Net.reads[k] \in Nat
      /\ round[k] <= Net.rounds[k]
  BY KernelState, KernelFields
<1>2. m \in Nat /\ t \in Nat
  BY <1>1, NextMultiple
<1>3. Received(k) = m + got[k]
  BY DEF Received
<1>4. Finished(k) => got[k] = 0 /\ m = t
  BY DEF IInv, InOrder, Finished
<1>5. ~ Finished(k) => m + Net.reads[k] <= t
  <2>1. ~ Finished(k) => round[k] < Net.rounds[k]
    BY <1>1 DEF Finished
  <2> QED BY <1>1, <2>1, Within
<1> HIDE DEF m, t
<1>6. Received(k) \in Nat
  BY <1>1, <1>2, <1>3
<1>7. Finished(k) => Received(k) = t
  BY <1>2, <1>3, <1>4
<1>8. ~ Finished(k) /\ got[k] < Net.reads[k] => Received(k) < t
  BY <1>1, <1>2, <1>3, <1>5
<1> QED BY <1>2, <1>6, <1>7, <1>8 DEF t

(* What is in the channel a kernel reads.                                  *)
LEMMA InChannel ==
  ASSUME IInv, NEW w \in Kernel, NEW i \in DOMAIN Net.outs[w]
  PROVE  /\ fill[Net.outs[w][i]] = Sent(w, i) - Received(Net.outs[w][i])
         /\ fill[Net.outs[w][i]] \in Nat
<1> DEFINE k == Net.outs[w][i]
<1>1. k \in Kernel /\ fill[k] \in Nat
  BY KernelFields, KernelState
<1>2. Received(k) \in Nat /\ Sent(w, i) \in Nat
  BY <1>1, ReceivedBound, SentBound
<1>3. fill[k] + Received(k) = Sent(w, i)
  BY DEF IInv, Fill
<1> HIDE DEF k
<1>4. fill[k] = Sent(w, i) - Received(k)
  BY <1>1, <1>2, <1>3
<1> QED BY <1>1, <1>4 DEF k

LEMMA EmptyAtTheEnd == IInv => NoLeftovers
<1> SUFFICES ASSUME IInv, NEW k \in Kernel, Finished(k) PROVE fill[k] = 0
  BY DEF NoLeftovers
<1>1. CASE Net.reads[k] = 0
  <2>1. Feeding(Net, k) = {}
    BY <1>1, NetAssumption DEF IsKernelNet, OneWriter, Kernel
  <2> QED BY <2>1 DEF IInv, Unfed
<1>2. CASE Net.reads[k] # 0
  <2>1. PICK w \in Kernel : \E i \in DOMAIN Net.outs[w] : k = Net.outs[w][i]
    BY <1>2, Writer
  <2>2. PICK i \in DOMAIN Net.outs[w] : k = Net.outs[w][i]
    BY <2>1
  <2>3. Sent(w, i) <= Net.rounds[w] * Net.writes[w] /\ Sent(w, i) \in Nat
    BY SentBound
  <2>4. Net.rounds[w] * Net.writes[w] = Net.rounds[k] * Net.reads[k]
    BY <2>2, ReaderOf
  <2>5. Received(k) = Net.rounds[k] * Net.reads[k] /\ Received(k) \in Nat
    BY ReceivedBound
  <2>6. fill[k] = Sent(w, i) - Received(k) /\ fill[k] \in Nat
    BY <2>2, InChannel
  <2>7. Sent(w, i) <= Received(k)
    BY <2>3, <2>4, <2>5
  <2> QED BY <2>3, <2>5, <2>6, <2>7
<1> QED BY <1>1, <1>2

(* No kernel leaves a packet behind: the channels are empty when the next  *)
(* inference begins.                                                       *)
THEOREM ChannelsEmptied == Spec => []NoLeftovers
BY Counts, EmptyAtTheEnd, PTL

(* A kernel that nothing can move, and that has not ended, has room in no  *)
(* output: if its feeder has ended it got its whole input.                 *)
LEMMA BlockedOnWrite ==
  ASSUME IInv, Stuck, NEW k \in Kernel, ~ Finished(k), k \in started,
         Net.reads[k] # 0 => fill[k] > 0 \/ \A w \in Feeding(Net, k) : Finished(w)
  PROVE  Writing(k) /\ fill[Out(k)] >= Net.depth[Out(k)]
<1>1. InRound(k) /\ ~ CanRead(k) /\ ~ CanWrite(k) /\ ~ CanTurn(k)
  BY KernelState, KernelFields DEF Stuck, InRound, Finished
<1>2. got[k] = Net.reads[k]
  <2> SUFFICES ASSUME got[k] < Net.reads[k] PROVE FALSE
    BY KernelState, KernelFields
  <2>1. fill[k] = 0 /\ Net.reads[k] # 0
    BY <1>1, KernelState, KernelFields DEF CanRead
  <2>2. PICK w \in Kernel : \E i \in DOMAIN Net.outs[w] :
          k = Net.outs[w][i] /\ w \in Feeding(Net, k)
    BY <2>1, Writer
  <2>3. PICK i \in DOMAIN Net.outs[w] : k = Net.outs[w][i] /\ w \in Feeding(Net, k)
    BY <2>2
  <2>4. Sent(w, i) = Net.rounds[w] * Net.writes[w] /\ Sent(w, i) \in Nat
    BY <2>1, <2>3, SentBound
  <2>5. Net.rounds[w] * Net.writes[w] = Net.rounds[k] * Net.reads[k]
    BY <2>3, ReaderOf
  <2>6. Received(k) < Net.rounds[k] * Net.reads[k] /\ Received(k) \in Nat
    BY ReceivedBound
  <2>7. fill[k] = Sent(w, i) - Received(k)
    BY <2>3, InChannel
  <2>8. Received(k) < Sent(w, i)
    BY <2>4, <2>5, <2>6
  <2> QED BY <2>1, <2>4, <2>6, <2>7, <2>8
<1>3. Writing(k)
  BY <1>1, <1>2, KernelState, KernelFields DEF CanTurn, Writing
<1>4. Out(k) \in Kernel
  <2>1. Len(Net.outs[k]) > 0
    BY <1>3, Writer, KernelFields, KernelState DEF Writing
  <2> QED BY <2>1, KernelFields, KernelState DEF Out
<1>5. fill[Out(k)] \in Nat /\ Net.depth[Out(k)] \in Nat
  BY <1>4, KernelFields, KernelState
<1> QED BY <1>1, <1>3, <1>5 DEF CanWrite

LEMMA NothingStalls == IInv => NoStall
<1> SUFFICES ASSUME IInv, Stuck, NEW k0 \in Kernel, ~ Finished(k0) PROVE FALSE
  BY DEF NoStall
<1> DEFINE U == {k \in Kernel : ~ Finished(k)}
           Blocked(k) == Writing(k) /\ fill[Out(k)] >= Net.depth[Out(k)]
           B == {k \in Kernel : Blocked(k)}
(* The unfinished kernel of lowest level waits for nobody but its reader.  *)
<1>1. B # {}
  <2>1. PICK k \in U : \A j \in U : ~ (Net.level[j] < Net.level[k])
    <3>1. U \subseteq Kernel /\ U # {}
      OBVIOUS
    <3> HIDE DEF U
    <3> QED BY <3>1, LowestAndHighest, NetAssumption DEF IsKernelNet, Kernel
  <2>2. \A w \in Feeding(Net, k) \cup Net.after[k] : w \in Kernel /\ Net.level[w] < Net.level[k]
    BY KernelFields, NetAssumption DEF IsKernelNet, Layered, Kernel, Feeding
  <2>3. \A w \in Feeding(Net, k) \cup Net.after[k] : Finished(w)
    BY <2>1, <2>2
  <2>4. k \in started
    BY <2>3 DEF Stuck, CanStart
  <2>5. Blocked(k)
    BY <2>3, <2>4, BlockedOnWrite
  <2> QED BY <2>5
(* The reader of the blocked kernel of highest level can read, and so is   *)
(* not at reading but blocked as well.                                     *)
<1>2. PICK k \in B : \A j \in B : ~ (Net.level[k] < Net.level[j])
  <2>1. B \subseteq Kernel
    OBVIOUS
  <2> HIDE DEF B
  <2> QED BY <1>1, <2>1, LowestAndHighest, NetAssumption DEF IsKernelNet, Kernel
<1> DEFINE r == Out(k)
<1>3. lane[k] \in DOMAIN Net.outs[k] /\ r = Net.outs[k][lane[k]] /\ r \in Kernel
  <2>1. Len(Net.outs[k]) > 0
    BY Writer, KernelFields, KernelState DEF Writing
  <2> QED BY <2>1, KernelFields, KernelState DEF Out
<1>4. fill[r] > 0
  <2>1. fill[r] \in Nat /\ Net.depth[r] \in Nat /\ Net.depth[r] > 0
    BY <1>3, KernelFields, KernelState
  <2> QED BY <2>1
<1>5. ~ Finished(r)
  <2> SUFFICES ASSUME Finished(r) PROVE FALSE
    OBVIOUS
  <2>1. fill[r] = 0
    BY <1>3, EmptyAtTheEnd DEF NoLeftovers
  <2> QED BY <1>4, <2>1
<1>6. r \in started
  BY <1>3, ReaderOf DEF Stuck, CanStart
<1>7. Blocked(r)
  BY <1>3, <1>4, <1>5, <1>6, BlockedOnWrite
<1>8. Net.level[k] < Net.level[r]
  BY <1>3, ReaderOf
<1> QED BY <1>2, <1>3, <1>7, <1>8

(* The kernels never stall: when none can go on, all have ended, whatever  *)
(* the depths of the channels.                                             *)
THEOREM KernelsNeverStall == Spec => []NoStall
BY Counts, NothingStalls, PTL

-----------------------------------------------------------------------------
(* The kernels implement Streams.                                          *)

Delivered == {k \in started : HasInput(k)}

(* A kernel that is through with its input has all of it, and whoever      *)
(* feeds it too: the counts of both loops end together.                    *)
LEMMA FeederDelivered ==
  ASSUME IInv, NEW w \in Kernel, NEW i \in DOMAIN Net.outs[w],
         Sent(w, i) = Net.rounds[w] * Net.writes[w]
  PROVE  HasInput(w) /\ w \in started
<1> DEFINE m == round[w] * Net.writes[w]
           t == Net.rounds[w] * Net.writes[w]
<1>1. /\ round[w] \in Nat /\ put[w] \in Nat /\ lane[w] \in Nat
      /\ Net.rounds[w] \in Nat /\ Net.rounds[w] > 0 /\ Net.writes[w] \in Nat
      /\ round[w] <= Net.rounds[w] /\ put[w] <= Net.writes[w]
      /\ i \in Nat /\ i >= 1
  BY KernelState, KernelFields
<1>2. Net.writes[w] > 0
  <2>1. Net.outs[w] # <<>>
    BY KernelFields
  <2> QED BY <1>1, <2>1, NetAssumption DEF IsKernelNet, OneWriter, Kernel
<1>3. w \in started
  <2> SUFFICES ASSUME w \notin started PROVE FALSE
    OBVIOUS
  <2>1. round[w] = 0 /\ put[w] = 0 /\ lane[w] = 1
    BY DEF IInv, Idle
  <2>2. Sent(w, i) = 0
    BY <1>1, <2>1 DEF Sent, Passed
  <2>3. 0 * Net.writes[w] + Net.writes[w] <= t
    BY <1>1, Within
  <2> QED BY <1>1, <1>2, <2>2, <2>3
<1>4. HasInput(w)
  <2> SUFFICES ASSUME ~ Finished(w) PROVE HasInput(w)
    BY DEF HasInput
  <2>1. m + Net.writes[w] <= t /\ m \in Nat /\ t \in Nat
    <3>1. round[w] < Net.rounds[w]
      BY <1>1 DEF Finished
    <3> QED BY <1>1, <3>1, Within
  <2>2. Sent(w, i) = m + put[w] + Passed(w, i) /\ Passed(w, i) \in {0, 1}
    BY DEF Sent, Passed
  <2>3. put[w] + Passed(w, i) <= Net.writes[w]
    BY <1>1 DEF Passed, IInv, InOrder
  <2>4. put[w] + Passed(w, i) = Net.writes[w]
    <3> HIDE DEF m
    <3>1. m + put[w] + Passed(w, i) = t
      BY <2>2
    <3> HIDE DEF t
    <3> QED BY <1>1, <2>1, <2>2, <2>3, <3>1
  <2>5. got[w] = Net.reads[w]
    BY <1>1, <1>2, <2>4 DEF Passed, IInv, InOrder
  <2>6. round[w] = Net.rounds[w] - 1
    <3> SUFFICES ASSUME round[w] + 1 < Net.rounds[w] PROVE FALSE
      BY <1>1 DEF Finished
    <3>1. (round[w] + 1) * Net.writes[w] + Net.writes[w] <= t
      <4>1. round[w] + 1 \in Nat
        BY <1>1
      <4> QED BY <1>1, <4>1, Within
    <3>2. (round[w] + 1) * Net.writes[w] = m + Net.writes[w]
      BY <1>1, NextMultiple
    <3>3. m + Net.writes[w] = t
      BY <2>1, <2>2, <2>4, <1>1
    <3> HIDE DEF m, t
    <3> QED BY <1>1, <1>2, <2>1, <3>1, <3>2, <3>3
  <2> QED BY <2>5, <2>6 DEF HasInput
<1> QED BY <1>3, <1>4

(* Then the other readers of that feeder run as well, or their channels    *)
(* would hold more than they can.                                          *)
LEMMA ReadersStarted ==
  ASSUME IInv, NEW w \in Kernel, NEW i \in DOMAIN Net.outs[w],
         Sent(w, i) = Net.rounds[w] * Net.writes[w],
         Net.outs[w][i] \in started
  PROVE  Readers(Net, w) \subseteq started
<1> DEFINE t == Net.rounds[w] * Net.writes[w]
<1> SUFFICES ASSUME NEW j \in DOMAIN Net.outs[w], Net.outs[w][j] \notin started
             PROVE  FALSE
  BY DEF Readers
<1> DEFINE r == Net.outs[w][j]
<1>1. r \in Kernel /\ r \in Readers(Net, w) /\ Len(Net.outs[w]) > 1
  BY KernelFields, ReaderOf
<1>2. t > Net.depth[r] + 1
  BY <1>1, NetAssumption DEF IsKernelNet, Streaming, Kernel, Written
<1>3. Received(r) = 0
  <2>1. round[r] = 0 /\ got[r] = 0
    BY <1>1 DEF IInv, Idle
  <2> QED BY <1>1, <2>1, KernelFields DEF Received
<1>4. fill[r] = Sent(w, j) /\ fill[r] <= Net.depth[r]
  BY <1>1, <1>3, InChannel, SentBound, KernelState
<1>5. Sent(w, i) <= Sent(w, j) + 1
  <2>1. round[w] * Net.writes[w] \in Nat /\ put[w] \in Nat
    BY KernelState, KernelFields, NextMultiple
  <2>2. Passed(w, i) \in {0, 1} /\ Passed(w, j) \in {0, 1}
    BY DEF Passed
  <2> QED BY <2>1, <2>2 DEF Sent
<1>6. Sent(w, j) \in Nat /\ t \in Nat /\ Net.depth[r] \in Nat
  BY <1>1, SentBound, KernelFields
<1> HIDE DEF t
<1> QED BY <1>2, <1>4, <1>5, <1>6 DEF t

LEMMA StartRefines ==
  ASSUME IInv, NEW k \in Kernel, Start(k)
  PROVE  S!Start(k)
<1>1. /\ k \notin started /\ started' = started \cup {k}
      /\ \A w \in Net.after[k] : Finished(w)
      /\ round' = round /\ got' = got
  BY DEF Start, CanStart, kernel_vars
<1>2. Net.after[k] \subseteq Delivered
  <2> SUFFICES ASSUME NEW w \in Net.after[k] PROVE w \in started /\ HasInput(w)
    BY DEF Delivered
  <2>1. w \in Kernel /\ round[w] = Net.rounds[w] /\ Net.rounds[w] > 0
    BY <1>1, KernelFields DEF Finished
  <2>2. w \in started
    BY <2>1 DEF IInv, Idle
  <2> QED BY <1>1, <2>2 DEF HasInput
<1>3. HasInput(k)' <=> Net.reads[k] = 0
  <2>1. round[k] = 0 /\ got[k] = 0 /\ Net.rounds[k] \in Nat /\ Net.rounds[k] > 0
    BY <1>1, KernelFields DEF IInv, Idle
  <2>2. Net.reads[k] = 0 => Net.rounds[k] = 1
    BY NetAssumption DEF IsKernelNet, Layered, Kernel
  <2> QED BY <1>1, <2>1, <2>2 DEF HasInput, Finished
<1>4. \A j \in started : HasInput(j)' <=> HasInput(j)
  BY <1>1 DEF HasInput, Finished
<1>5. Delivered' = IF Net.reads[k] = 0 THEN Delivered \cup {k} ELSE Delivered
  <2>1. Delivered' = {j \in started \cup {k} : HasInput(j)'}
    BY <1>1 DEF Delivered
  <2>2. ASSUME NEW j
        PROVE  j \in Delivered' <=>
                 j \in IF Net.reads[k] = 0 THEN Delivered \cup {k} ELSE Delivered
    <3>1. CASE j = k
      BY <1>1, <1>3, <2>1, <3>1 DEF Delivered
    <3>2. CASE j # k
      BY <1>4, <2>1, <3>2 DEF Delivered
    <3> QED BY <3>1, <3>2
  <2> QED BY <2>2
<1> QED BY <1>1, <1>2, <1>5 DEF S!Start, Delivered

(* Only the last packet of its input makes a difference to Streams.        *)
LEMMA ReadRefines ==
  ASSUME IInv, NEW k \in Kernel, Read(k)
  PROVE  S!Deliver(k) \/ (started' = started /\ Delivered' = Delivered)
<1>1. /\ k \in started /\ round[k] < Net.rounds[k] /\ got[k] < Net.reads[k]
      /\ got' = [got EXCEPT ![k] = @ + 1]
      /\ started' = started /\ round' = round
      /\ fill[k] > 0
  BY DEF Read, CanRead, InRound
<1>2. /\ got'[k] = got[k] + 1
      /\ \A j \in Kernel : j # k => got'[j] = got[j]
  BY <1>1 DEF IInv, TypeOK
<1>3. started \subseteq Kernel
  BY DEF IInv, TypeOK
<1>4. \A j \in started : j # k => (HasInput(j)' <=> HasInput(j))
  BY <1>1, <1>2, <1>3 DEF HasInput, Finished
<1>5. ~ HasInput(k)
  BY <1>1, KernelState, KernelFields DEF HasInput, Finished
<1>6. Delivered' = {j \in started : HasInput(j)'}
  BY <1>1 DEF Delivered
<1>7. CASE ~ HasInput(k)'
  BY <1>1, <1>4, <1>5, <1>6, <1>7 DEF Delivered
<1>8. CASE HasInput(k)'
  <2>1. Delivered' = Delivered \cup {k} /\ k \notin Delivered
    BY <1>1, <1>4, <1>5, <1>6, <1>8 DEF Delivered
  <2>2. round[k] = Net.rounds[k] - 1 /\ got[k] + 1 = Net.reads[k]
    BY <1>1, <1>2, <1>8, KernelState, KernelFields DEF HasInput, Finished
  <2>3. Received(k) + 1 = Net.rounds[k] * Net.reads[k]
    <3> DEFINE m == round[k] * Net.reads[k]
               t == Net.rounds[k] * Net.reads[k]
    <3>1. round[k] \in Nat /\ Net.reads[k] \in Nat /\ round[k] + 1 = Net.rounds[k]
      BY <2>2, KernelState, KernelFields
    <3>2. t = m + Net.reads[k] /\ m \in Nat
      BY <3>1, NextMultiple
    <3>3. Received(k) = m + got[k] /\ got[k] \in Nat
      BY KernelState DEF Received
    <3> HIDE DEF m
    <3>4. Received(k) + 1 = t
      <4> HIDE DEF t
      <4> QED BY <2>2, <3>1, <3>2, <3>3
    <3> QED BY <3>4
  <2>4. ASSUME NEW w \in Feeding(Net, k)
        PROVE  w \in Delivered /\ Readers(Net, w) \subseteq started
    <3>1. w \in Kernel /\ \E i \in DOMAIN Net.outs[w] : k = Net.outs[w][i]
      BY <2>4 DEF Feeding, Readers, Kernel
    <3>2. PICK i \in DOMAIN Net.outs[w] : k = Net.outs[w][i]
      BY <3>1
    <3>3. /\ Sent(w, i) \in Nat /\ Net.rounds[w] * Net.writes[w] \in Nat
          /\ Sent(w, i) <= Net.rounds[w] * Net.writes[w]
      BY <3>1, SentBound
    <3>4. Net.rounds[w] * Net.writes[w] = Net.rounds[k] * Net.reads[k]
      BY <3>1, <3>2, ReaderOf
    <3>5. fill[k] = Sent(w, i) - Received(k) /\ Received(k) \in Nat /\ fill[k] \in Nat
      BY <3>1, <3>2, InChannel, ReceivedBound
    <3>6. Sent(w, i) = Net.rounds[w] * Net.writes[w]
      <4> DEFINE t == Net.rounds[w] * Net.writes[w]
      <4>1. Received(k) + 1 = t /\ t \in Nat /\ Sent(w, i) <= t
        BY <2>3, <3>3, <3>4
      <4> HIDE DEF t
      <4>2. Sent(w, i) = t
        BY <1>1, <3>3, <3>5, <4>1
      <4> QED BY <4>2 DEF t
    <3>7. HasInput(w) /\ w \in started
      BY <3>1, <3>6, FeederDelivered
    <3>8. Readers(Net, w) \subseteq started
      BY <1>1, <3>1, <3>2, <3>6, ReadersStarted
    <3> QED BY <3>7, <3>8 DEF Delivered
  <2>5. \A w \in S!Feeding(Net, k) : w \in Delivered /\ S!Readers(Net, w) \subseteq started
    BY <2>4 DEF S!Feeding, S!Readers, S!KernelsOf, Feeding, Readers, KernelsOf
  <2> QED BY <1>1, <2>1, <2>5 DEF S!Deliver, Delivered
<1> QED BY <1>7, <1>8

LEMMA WriteRefines ==
  ASSUME IInv, NEW k \in Kernel, Write(k)
  PROVE  started' = started /\ Delivered' = Delivered
BY DEF Write, Delivered, HasInput, Finished

LEMMA TurnRefines ==
  ASSUME IInv, NEW k \in Kernel, Turn(k)
  PROVE  started' = started /\ Delivered' = Delivered
<1>1. /\ k \in started /\ round[k] < Net.rounds[k]
      /\ got[k] = Net.reads[k]
      /\ round' = [round EXCEPT ![k] = @ + 1] /\ got' = [got EXCEPT ![k] = 0]
      /\ started' = started
  BY DEF Turn, CanTurn, InRound
<1>2. /\ round'[k] = round[k] + 1 /\ got'[k] = 0
      /\ \A j \in Kernel : j # k => round'[j] = round[j] /\ got'[j] = got[j]
  BY <1>1 DEF IInv, TypeOK
<1>3. started \subseteq Kernel
  BY DEF IInv, TypeOK
<1>4. \A j \in started : j # k => (HasInput(j)' <=> HasInput(j))
  BY <1>2, <1>3 DEF HasInput, Finished
<1>5. HasInput(k)' <=> HasInput(k)
  <2>1. Net.reads[k] = 0 => Net.rounds[k] = 1
    BY NetAssumption DEF IsKernelNet, Layered, Kernel
  <2>2. /\ round[k] \in Nat /\ Net.rounds[k] \in Nat /\ Net.reads[k] \in Nat
    BY KernelState, KernelFields
  <2> QED BY <1>1, <1>2, <2>1, <2>2 DEF HasInput, Finished
<1>6. Delivered' = {j \in started : HasInput(j)'}
  BY <1>1 DEF Delivered
<1>7. \A j \in started : HasInput(j)' <=> HasInput(j)
  BY <1>4, <1>5
<1> QED BY <1>1, <1>6, <1>7 DEF Delivered

(* Packet by packet, in bounded channels, the kernels give the hosts what  *)
(* module Streams promises with whole tensors: a kernel gets its input     *)
(* once its feeder has, and only with all readers of its feeder running.   *)
THEOREM KernelsImplementStreams == Spec => RefinesStreams
<1>1. Init => S!Init
  BY DEF Init, S!Init
<1>2. IInv /\ [Next]_vars => [S!Next]_(S!vars)
  <2> SUFFICES ASSUME IInv, [Next]_vars PROVE S!Next \/ UNCHANGED S!vars
    OBVIOUS
  <2>1. ASSUME NEW k \in Kernel, Start(k) PROVE S!Next
    BY <2>1, StartRefines DEF S!Next, S!Kernel, S!KernelsOf, Kernel, KernelsOf
  <2>2. (started' = started /\ Delivered' = Delivered) => UNCHANGED S!vars
    BY DEF S!vars, Delivered
  <2>3. ASSUME NEW k \in Kernel, Step(k) PROVE S!Next \/ UNCHANGED S!vars
    <3>1. CASE Read(k)
      BY <2>2, <3>1, ReadRefines DEF S!Next, S!Kernel, S!KernelsOf, Kernel, KernelsOf
    <3>2. CASE Write(k)
      BY <2>2, <3>2, WriteRefines
    <3>3. CASE Turn(k)
      BY <2>2, <3>3, TurnRefines
    <3> QED BY <2>3, <3>1, <3>2, <3>3 DEF Step
  <2>4. CASE UNCHANGED vars
    <3>1. started' = started /\ Delivered' = Delivered
      BY <2>4 DEF vars, kernel_vars, Delivered, HasInput, Finished
    <3> QED BY <2>2, <3>1
  <2> QED BY <2>1, <2>3, <2>4 DEF Next
<1> QED BY Counts, <1>1, <1>2, PTL DEF Spec, RefinesStreams, S!Spec
=============================================================================
