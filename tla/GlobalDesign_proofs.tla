------------------------ MODULE GlobalDesign_proofs ------------------------
(***************************************************************************)
(* Theorems about GlobalDesign for every tree, network, cut of the network *)
(* into bitstreams and number of ranks.                                    *)
(*                                                                         *)
(* The inductive invariant IInv adds to TypeOK that a rank whose walk has  *)
(* not begun has an untouched tree, that only ranks other than 0 receive,  *)
(* that a rank has something to send exactly while it sends, and that the  *)
(* indices in the tree are those of buffers that exist.  Two parts with an  *)
(* invariant of their own follow: the messages from rank to rank, and the  *)
(* queue of the walk.                                                      *)
(***************************************************************************)
EXTENDS GlobalDesign, FiniteSetTheorems, SequenceTheorems, TLAPS

Early   == {"flash", "barrier", "recvName", "recvDims", "recvData"}
Walks   == {"walk", "send", "sending", "read", "done"}

(* A rank that still starts up has the tree as it was parsed.              *)
EarlyFresh ==
  \A r \in Rank : pc[r] \in Early =>
    /\ visited[r] = {}
    /\ buffers[r] = <<>>
    /\ \A p \in Node : outBuf[r][p] = 0 /\ parentBuf[r][p] = <<>>

(* Rank 0 does not receive.                                                *)
ReceiversOK ==
  \A r \in Rank : pc[r] \in {"recvName", "recvDims", "recvData"} => r # 0

(* A rank has messages left exactly while it sends.                        *)
SendersOK ==
  \A r \in Rank :
    /\ pc[r] = "send" => unsent[r] # <<>>
    /\ pc[r] \in Early \cup {"walk", "read"} => unsent[r] = <<>>

IInv == TypeOK /\ EarlyFresh /\ ReceiversOK /\ SendersOK /\ BuffersCreated

-----------------------------------------------------------------------------
(* Lemmas about the operators of the walk.                                 *)

(* A node of the tree is a record of its type.                             *)
LEMMA NodeFields ==
  ASSUME NEW p \in Node
  PROVE  /\ Tree[p].kind \in {"layer", "dummy", "anyName"}
         /\ Tree[p].children \in Seq(Node)
         /\ Tree[p].parents \in Seq(Node)
<1> DEFINE R == [kind : {"layer", "dummy", "anyName"},
                 layer : Layer \cup {Tree[q].layer : q \in Node},
                 children : Seq(Node), parents : Seq(Node)]
<1>1. Tree \in Seq(R)
  BY TreeAssumption
<1>2. p \in 1 .. Len(Tree)
  BY <1>1, LenProperties DEF Node
<1>3. Tree[p] \in R
  <2> HIDE DEF R
  <2> QED BY <1>1, <1>2, ElementOfSeq
<1> QED BY <1>3

(* The node the walk stands at, the queue behind it and the count left.    *)
LEMMA WalkTypes ==
  ASSUME TypeOK, NEW r \in Rank, HasLive(queue[r])
  PROVE  /\ FirstLive(queue[r]) \in DOMAIN queue[r]
         /\ At(r) \in Node
         /\ Rest(r) \in Seq(Node)
         /\ Left(r) \in Int
<1> DEFINE q == queue[r]
           k == FirstLive(q)
<1>1. q \in Seq(Node) /\ n[r] \in Int
  BY DEF TypeOK
<1>2. k \in DOMAIN q
  BY DEF HasLive, FirstLive
<1>3. DOMAIN q = 1 .. Len(q) /\ Len(q) \in Nat
  BY <1>1, LenProperties
<1> HIDE DEF k, q
<1>4. k \in Int /\ Len(q) \in Int
  BY <1>2, <1>3
<1>5. q[k] \in Node
  BY <1>1, <1>2, <1>3, ElementOfSeq
<1>6. \A i \in (k + 1) .. Len(q) : q[i] \in Node
  BY <1>1, <1>2, <1>3, <1>4, ElementOfSeq
<1>7. SubSeq(q, k + 1, Len(q)) \in Seq(Node)
  <2>1. k + 1 \in Int
    BY <1>4
  <2> QED BY <2>1, <1>4, <1>6, SubSeqProperties
<1> QED BY <1>1, <1>2, <1>4, <1>5, <1>7 DEF At, Rest, Left, k, q

(* Only a layer with a kernel on the rank is launched.                     *)
LEMMA LocalIsLayer ==
  ASSUME NEW r \in Rank, NEW p \in Node, p \notin Remote[r]
  PROVE  p \in LayerNode /\ Tree[p].layer \in Layer
BY TreeAssumption DEF Remote, get_program_num, LayerNode

(* What an entry of buffers[] may be.                                      *)
Entry == Tensor \cup {Unset}

(* A launch takes up to five entries of buffers[], one of which is its     *)
(* output.                                                                 *)
LEMMA NewBuffersFacts ==
  ASSUME NEW l \in Layer, NEW t \in Tensor
  PROVE  /\ NewBuffers(l, t) \in Seq(Entry)
         /\ Len(NewBuffers(l, t)) \in 1 .. 5
         /\ OutSlot(l) \in 0 .. Len(NewBuffers(l, t)) - 1
         /\ NewBuffers(l, t)[OutSlot(l) + 1] = t
<1>1. t \in Entry /\ Garbage \in Entry /\ Unset \in Entry
  BY DEF Entry, Tensor
<1>2. CASE Type[l] = "Convolution" /\ l \in Padded
  <2>1. NewBuffers(l, t) = <<Garbage, t, Unset, Garbage, Garbage>> /\ OutSlot(l) = 1
    BY <1>2 DEF NewBuffers, OutSlot
  <2> QED BY <1>1, <2>1
<1>3. CASE Type[l] \in {"Pooling", "Eltwise", "Concat"}
  <2>1. OutSlot(l) = 0
    BY <1>3 DEF OutSlot
  <2>2. CASE NewBuffers(l, t) = <<t>>
    BY <1>1, <2>1, <2>2
  <2>3. CASE NewBuffers(l, t) = <<t, Unset, Unset>>
    BY <1>1, <2>1, <2>3
  <2>4. CASE NewBuffers(l, t) = <<t, Unset, Unset, Unset, Unset>>
    BY <1>1, <2>1, <2>4
  <2> QED BY <1>3, <2>2, <2>3, <2>4 DEF NewBuffers
<1>4. CASE /\ Type[l] \notin {"Pooling", "Eltwise", "Concat"}
           /\ ~ (Type[l] = "Convolution" /\ l \in Padded)
  <2>1. NewBuffers(l, t) = <<t, Unset, Garbage, Garbage>> /\ OutSlot(l) = 0
    BY <1>4 DEF NewBuffers, OutSlot
  <2> QED BY <1>1, <2>1
<1> QED BY <1>2, <1>3, <1>4

(* They are put behind those there are.                                    *)
LEMMA AppendBuffers ==
  ASSUME NEW old \in Seq(Entry), NEW new \in Seq(Entry),
         Len(new) \in 1 .. 5, NEW j \in 0 .. Len(new) - 1, new[j + 1] \in Tensor
  PROVE  /\ old \o new \in Seq(Entry)
         /\ Len(old \o new) = Len(old) + Len(new)
         /\ (old \o new)[Len(old) + j + 1] = new[j + 1]
         /\ \A i \in Nat : i < Len(old) => (old \o new)[i + 1] = old[i + 1]
<1>1. /\ old \o new \in Seq(Entry)
      /\ Len(old \o new) = Len(old) + Len(new)
      /\ \A i \in 1 .. Len(old) + Len(new) :
           (old \o new)[i] = IF i <= Len(old) THEN old[i] ELSE new[i - Len(old)]
  BY ConcatProperties
<1>2. Len(old) \in Nat /\ Len(new) \in Nat
  BY LenProperties
<1>3. (old \o new)[Len(old) + j + 1] = new[j + 1]
  <2> DEFINE k == Len(old) + j + 1
  <2>1. /\ k \in 1 .. Len(old) + Len(new) /\ ~ (k <= Len(old))
        /\ k - Len(old) = j + 1
    BY <1>2
  <2> HIDE DEF k
  <2>2. (old \o new)[k] = new[k - Len(old)]
    BY <1>1, <2>1
  <2> QED BY <2>1, <2>2 DEF k
<1>4. ASSUME NEW i \in Nat, i < Len(old)
      PROVE  (old \o new)[i + 1] = old[i + 1]
  <2>1. i + 1 \in 1 .. Len(old) + Len(new) /\ i + 1 <= Len(old)
    BY <1>2, <1>4
  <2> QED BY <1>1, <2>1
<1> QED BY <1>1, <1>3, <1>4

(* A kernel yields a tensor, whatever it reads.                            *)
LEMMA KernelType ==
  ASSUME NEW l \in Layer, NEW arg
  PROVE  Kernel(l, arg) \in Tensor
BY DEF Kernel, Tensor

(* The messages of a send are messages.                                    *)
LEMMA MessagesType ==
  ASSUME NEW l \in Layer, NEW t \in Tensor
  PROVE  Messages(l, t) \in Seq(Message) /\ Messages(l, t) # <<>>
BY DEF Messages, Message, Tensor
-----------------------------------------------------------------------------
(* Type correctness.                                                       *)

LEMMA PassChildrenType ==
  ASSUME TypeOK, NEW r \in Rank, NEW p \in Node, NEW q \in Seq(Node),
         NEW m \in Int, PassChildren(r, p, q, m)
  PROVE  queue' \in [Rank -> Seq(Node)] /\ n' \in [Rank -> Int]
<1>1. q \o Tree[p].children \in Seq(Node)
  BY NodeFields, ConcatProperties
<1> QED BY <1>1 DEF PassChildren, TypeOK

(* The buffers and indices after a launch.                                 *)
LEMMA LaunchTypes ==
  ASSUME TypeOK, NEW r \in Rank, Launch(r)
  PROVE  /\ At(r) \in LayerNode /\ At(r) \notin visited[r]
         /\ visited' = [visited EXCEPT ![r] = @ \cup {At(r)}]
         /\ current' = [current EXCEPT ![r] = At(r)]
         /\ buffers' \in [Rank -> Seq(Entry)]
         /\ outBuf' \in [Rank -> [Node -> Nat]]
         /\ parentBuf' \in [Rank -> [Node -> Seq(Nat)]]
         /\ \E out \in Nat :
              /\ Len(buffers[r]) <= out /\ out < Len(buffers'[r])
              /\ buffers'[r][out + 1] \in Tensor
              /\ outBuf' = [outBuf EXCEPT ![r][At(r)] = out]
              /\ parentBuf' = [parentBuf EXCEPT ![r] =
                   [c \in Node |-> IF c \in Children(At(r))
                                   THEN Append(@[c], out) ELSE @[c]]]
         /\ Len(buffers'[r]) \in Len(buffers[r]) + 1 .. Len(buffers[r]) + 5
         /\ \A i \in Nat : i < Len(buffers[r]) => buffers'[r][i + 1] = buffers[r][i + 1]
         /\ \A s \in Rank \ {r} : buffers'[s] = buffers[s]
<1> DEFINE p   == At(r)
           l   == Tree[p].layer
           out == Len(buffers[r]) + OutSlot(l)
           arg == [k \in 1 .. Arity(l) |-> Argument(r, p, k)]
           new == NewBuffers(l, Kernel(l, arg))
<1>1. /\ HasLive(queue[r])
      /\ p \notin Remote[r] \cup visited[r]
  BY DEF Launch, Launchable, ToLaunch
<1>2. p \in Node
  BY <1>1, WalkTypes
<1>3. p \in LayerNode /\ l \in Layer
  BY <1>1, <1>2, LocalIsLayer
<1>4. Kernel(l, arg) \in Tensor
  BY <1>3, KernelType
<1>5. buffers[r] \in Seq(Entry) /\ Len(buffers[r]) \in Nat
  BY LenProperties DEF TypeOK, Entry
<1>6. /\ new \in Seq(Entry) /\ Len(new) \in 1 .. 5
      /\ OutSlot(l) \in 0 .. Len(new) - 1 /\ new[OutSlot(l) + 1] \in Tensor
  <2> HIDE DEF l, arg
  <2> QED BY <1>3, <1>4, NewBuffersFacts
<1>7. /\ outBuf' = [outBuf EXCEPT ![r][p] = out]
      /\ parentBuf' = [parentBuf EXCEPT ![r] =
           [c \in Node |-> IF c \in Children(p)
                           THEN Append(@[c], out) ELSE @[c]]]
      /\ buffers' = [buffers EXCEPT ![r] = @ \o new]
      /\ visited' = [visited EXCEPT ![r] = @ \cup {p}]
      /\ current' = [current EXCEPT ![r] = p]
  BY DEF Launch
<1>9. out \in Nat
  BY <1>5, <1>6
<1> DEFINE old == buffers[r]
           j   == OutSlot(l)
<1>8. out = Len(old) + j
  OBVIOUS
<1> HIDE DEF p, l, out, arg, new, j
<1>10. /\ old \o new \in Seq(Entry)
       /\ Len(old \o new) = Len(old) + Len(new)
       /\ (old \o new)[Len(old) + j + 1] \in Tensor
       /\ \A i \in Nat : i < Len(old) => (old \o new)[i + 1] = old[i + 1]
  <2>1. /\ old \in Seq(Entry) /\ new \in Seq(Entry) /\ Len(new) \in 1 .. 5
        /\ j \in 0 .. Len(new) - 1 /\ new[j + 1] \in Tensor
    BY <1>5, <1>6 DEF j
  <2> HIDE DEF old
  <2> QED BY <2>1, AppendBuffers
<1>11. buffers' \in [Rank -> Seq(Entry)] /\ buffers'[r] = old \o new
  BY <1>7, <1>10 DEF TypeOK, Entry
<1>12. Len(buffers'[r]) = Len(old) + Len(new)
  BY <1>10, <1>11
<1>13. Len(old) \in Nat /\ Len(new) \in 1 .. 5 /\ j \in 0 .. Len(new) - 1
  BY <1>5, <1>6 DEF j
<1>14. /\ Len(old) <= out /\ out < Len(buffers'[r])
       /\ buffers'[r][out + 1] \in Tensor
  <2>1. Len(old) <= out /\ out < Len(buffers'[r])
    BY <1>8, <1>12, <1>13
  <2>2. buffers'[r][out + 1] \in Tensor
    BY <1>8, <1>10, <1>11
  <2> QED BY <2>1, <2>2
<1>15. /\ Len(buffers'[r]) \in Len(old) + 1 .. Len(old) + 5
       /\ \A i \in Nat : i < Len(old) => buffers'[r][i + 1] = old[i + 1]
  <2>1. \A a \in Nat, m \in 1 .. 5 : a + m \in a + 1 .. a + 5
    OBVIOUS
  <2>2. Len(buffers'[r]) \in Len(old) + 1 .. Len(old) + 5
    <3> HIDE DEF old
    <3> QED BY <1>12, <1>13, <2>1, Zenon
  <2> QED BY <1>10, <1>11, <2>2
<1>16. outBuf' \in [Rank -> [Node -> Nat]]
  BY <1>2, <1>7, <1>9 DEF TypeOK
<1>17. parentBuf' \in [Rank -> [Node -> Seq(Nat)]]
  <2>1. \A c \in Node : Append(parentBuf[r][c], out) \in Seq(Nat)
    BY <1>9, AppendProperties DEF TypeOK
  <2> QED BY <2>1, <1>7 DEF TypeOK
<1>18. \A s \in Rank \ {r} : buffers'[s] = buffers[s]
  BY <1>7 DEF TypeOK
<1> QED
  BY <1>1, <1>3, <1>7, <1>9, <1>11, <1>14, <1>15, <1>16, <1>17, <1>18 DEF p
(* What a launch leaves of the walk.                                       *)
LEMMA LaunchControl ==
  ASSUME TypeOK, NEW r \in Rank, Launch(r)
  PROVE  /\ pc[r] = "walk"
         /\ \E new \in {"walk", "send", "read"} :
              pc' = [pc EXCEPT ![r] = new]
         /\ queue' \in [Rank -> Seq(Node)]
         /\ n' \in [Rank -> Int]
         /\ unsent' \in [Rank -> Seq(Message)]
         /\ \/ pc'[r] = "send" /\ \E l \in Layer, t \in Tensor :
                   unsent' = [unsent EXCEPT ![r] = Messages(l, t)]
            \/ pc'[r] # "send" /\ unsent' = unsent
         /\ UNCHANGED <<received, result, channel>>
<1> DEFINE p   == At(r)
           l   == Tree[p].layer
           arg == [k \in 1 .. Arity(l) |-> Argument(r, p, k)]
<1>1. pc[r] = "walk" /\ HasLive(queue[r]) /\ p \notin Remote[r]
  BY DEF Launch, Launchable, ToLaunch, Walking
<1>2. /\ p \in Node /\ l \in Layer
      /\ Rest(r) \in Seq(Node) /\ Left(r) \in Int
  BY <1>1, WalkTypes, LocalIsLayer
<1>3. Kernel(l, arg) \in Tensor
  BY <1>2, KernelType
<1>4. Messages(l, Kernel(l, arg)) \in Seq(Message)
  BY <1>2, <1>3, MessagesType
<1>5. /\ UNCHANGED <<received, result, channel>>
      /\ IF Sends(r, p)
         THEN /\ pc' = [pc EXCEPT ![r] = "send"]
              /\ unsent' = [unsent EXCEPT ![r] = Messages(l, Kernel(l, arg))]
              /\ queue' = [queue EXCEPT ![r] = Rest(r)]
              /\ n' = [n EXCEPT ![r] = Left(r)]
         ELSE IF l = LastLayer
         THEN /\ pc' = [pc EXCEPT ![r] = "read"]
              /\ UNCHANGED <<queue, n, unsent>>
         ELSE /\ PassChildren(r, p, Rest(r), Left(r))
              /\ UNCHANGED <<pc, unsent>>
  BY DEF Launch
<1> HIDE DEF p, l, arg
<1>6. CASE Sends(r, p)
  <2>1. /\ pc' = [pc EXCEPT ![r] = "send"] /\ pc'[r] = "send"
        /\ unsent' = [unsent EXCEPT ![r] = Messages(l, Kernel(l, arg))]
        /\ queue' = [queue EXCEPT ![r] = Rest(r)]
        /\ n' = [n EXCEPT ![r] = Left(r)]
    BY <1>5, <1>6 DEF TypeOK
  <2>2. /\ queue' \in [Rank -> Seq(Node)] /\ n' \in [Rank -> Int]
        /\ unsent' \in [Rank -> Seq(Message)]
    BY <2>1, <1>2, <1>4 DEF TypeOK
  <2> QED BY <1>1, <1>2, <1>3, <1>5, <2>1, <2>2
<1>7. CASE ~ Sends(r, p) /\ l = LastLayer
  <2>1. pc' = [pc EXCEPT ![r] = "read"] /\ pc'[r] = "read"
    BY <1>5, <1>7 DEF TypeOK
  <2> QED BY <1>1, <1>5, <1>7, <2>1 DEF TypeOK
<1>8. CASE ~ Sends(r, p) /\ l # LastLayer
  <2>1. queue' \in [Rank -> Seq(Node)] /\ n' \in [Rank -> Int]
    BY <1>2, <1>5, <1>8, PassChildrenType
  <2>2. UNCHANGED <<pc, unsent>> /\ pc' = [pc EXCEPT ![r] = "walk"]
    BY <1>1, <1>5, <1>8 DEF TypeOK
  <2> QED BY <1>1, <1>5, <2>1, <2>2 DEF TypeOK
<1> QED BY <1>6, <1>7, <1>8

(* Every step keeps the types.                                             *)
LEMMA TypeStep ==
  ASSUME IInv, [Next]_vars
  PROVE  TypeOK'
<1> USE DEF tree_vars
<1>0. TypeOK
  BY DEF IInv
<1>1. CASE UNCHANGED vars
  BY <1>0, <1>1 DEF vars, TypeOK, States
<1>2. SUFFICES ASSUME NEW r \in Rank, Step(r) \/ SendBuffered(r) \/ Abort(r)
               PROVE  TypeOK'
  BY <1>1 DEF Next
<1>3. CASE Flash(r)
  BY <1>0, <1>3 DEF Flash, TypeOK, States
<1>4. CASE BarrierFirst(r)
  <2>1. <<Image>> \in Seq(Entry) /\ <<Root>> \in Seq(Node) /\ Root \in Node
    BY TreeAssumption DEF Entry, Tensor, LayerNode
  <2>2. Append(parentBuf[r][Root], 0) \in Seq(Nat)
    BY <1>0, <2>1, AppendProperties DEF TypeOK
  <2>3. /\ pc' = [pc EXCEPT ![r] = "walk"]
        /\ queue' = [queue EXCEPT ![r] = <<Root>>]
        /\ n' = [n EXCEPT ![r] = 1]
        /\ buffers' = [buffers EXCEPT ![r] = <<Image>>]
        /\ parentBuf' = [parentBuf EXCEPT ![r][Root] = Append(@, 0)]
        /\ UNCHANGED <<visited, outBuf, current, unsent, received, result, channel>>
    BY <1>4 DEF BarrierFirst, StartWalk
  <2>4. parentBuf' \in [Rank -> [Node -> Seq(Nat)]]
    BY <1>0, <2>2, <2>3 DEF TypeOK
  <2>5. buffers' \in [Rank -> Seq(Entry)] /\ queue' \in [Rank -> Seq(Node)]
    BY <1>0, <2>1, <2>3 DEF TypeOK, Entry
  <2> QED BY <1>0, <2>3, <2>4, <2>5 DEF TypeOK, States, Entry
<1>5. CASE BarrierOther(r)
  BY <1>0, <1>5 DEF BarrierOther, TypeOK, States
<1>6. ASSUME RecvName(r) \/ RecvDims(r) \/ RecvData(r)
      PROVE  /\ r - 1 \in Rank
             /\ Head(channel[r - 1]) \in Message
             /\ Head(channel[r - 1]).value \in Tensor
             /\ Tail(channel[r - 1]) \in Seq(Message)
  <2>1. r # 0
    BY <1>6 DEF RecvName, RecvDims, RecvData, IInv, ReceiversOK
  <2>2. r - 1 \in Rank
    BY <2>1, RankAssumption DEF Rank
  <2>3. channel[r - 1] \in Seq(Message) /\ channel[r - 1] # <<>>
    BY <1>0, <1>6, <2>2 DEF TypeOK, RecvName, RecvDims, RecvData
  <2>4. Head(channel[r - 1]) \in Message /\ Tail(channel[r - 1]) \in Seq(Message)
    BY <2>3, HeadTailProperties
  <2> QED BY <2>2, <2>4 DEF Message
<1>7. CASE RecvName(r)
  BY <1>0, <1>6, <1>7 DEF RecvName, TypeOK, States
<1>8. CASE RecvDims(r)
  BY <1>0, <1>6, <1>8 DEF RecvDims, TypeOK, States
<1>9. CASE RecvData(r)
  <2>1. <<Head(channel[r - 1]).value>> \in Seq(Entry)
        /\ <<Root>> \in Seq(Node)
    BY <1>6, <1>9, TreeAssumption DEF LayerNode, Entry
  <2>2. \A p \in Node : Append(parentBuf[r][p], 0) \in Seq(Nat)
    BY <1>0, AppendProperties DEF TypeOK
  <2>3. parentBuf' \in [Rank -> [Node -> Seq(Nat)]]
    BY <1>0, <1>9, <2>2 DEF RecvData, TypeOK
  <2>4. buffers' \in [Rank -> Seq(Entry)] /\ queue' \in [Rank -> Seq(Node)]
    BY <1>0, <1>9, <2>1 DEF RecvData, StartWalk, TypeOK, Entry
  <2>5. channel' \in [Rank -> Seq(Message)]
    BY <1>0, <1>6, <1>9 DEF RecvData, TypeOK
  <2>6. pc' \in [Rank -> States] /\ n' \in [Rank -> Int]
    BY <1>0, <1>9 DEF RecvData, StartWalk, TypeOK, States
  <2> QED BY <1>0, <1>9, <2>3, <2>4, <2>5, <2>6 DEF RecvData, TypeOK, Entry
<1>10. CASE NextLevel(r)
  <2>1. Len(queue[r]) \in Int
    BY <1>0, LenProperties DEF TypeOK
  <2> QED BY <1>0, <1>10, <2>1 DEF NextLevel, TypeOK, States
<1>11. CASE WalkEnds(r)
  BY <1>0, <1>11 DEF WalkEnds, TypeOK, States
<1>12. CASE FrontOfEmpty(r)
  BY <1>0, <1>12 DEF FrontOfEmpty, TypeOK, States
<1>13. CASE PassOn(r)
  <2>1. queue' \in [Rank -> Seq(Node)] /\ n' \in [Rank -> Int]
    BY <1>0, <1>13, WalkTypes, PassChildrenType DEF PassOn
  <2> QED BY <1>0, <1>13, <2>1 DEF PassOn, TypeOK, States
<1>14. CASE PutBack(r)
  <2>1. At(r) \in Node /\ Rest(r) \in Seq(Node) /\ Left(r) \in Int
    BY <1>0, <1>14, WalkTypes DEF PutBack, ToLaunch
  <2>2. PutBackQueue(r, At(r)) \in Seq(Node)
    BY <2>1, AppendProperties DEF PutBackQueue
  <2> QED BY <1>0, <1>14, <2>1, <2>2 DEF PutBack, TypeOK, States
<1>15. CASE MissingArgument(r)
  BY <1>0, <1>15 DEF MissingArgument, TypeOK, States
<1>16. CASE Launch(r)
  <2>1. pc' \in [Rank -> States]
    BY <1>0, <1>16, LaunchControl DEF TypeOK, States
  <2>2. visited' \in [Rank -> SUBSET LayerNode] /\ current' \in [Rank -> Node]
    <3>1. At(r) \in LayerNode
      BY <1>0, <1>16, LaunchTypes
    <3>2. /\ visited' = [visited EXCEPT ![r] = @ \cup {At(r)}]
          /\ current' = [current EXCEPT ![r] = At(r)]
      BY <1>0, <1>16, LaunchTypes
    <3>3. At(r) \in Node
      BY <3>1 DEF LayerNode
    <3> QED BY <1>0, <3>1, <3>2, <3>3 DEF TypeOK
  <2>3. /\ outBuf' \in [Rank -> [Node -> Nat]]
        /\ parentBuf' \in [Rank -> [Node -> Seq(Nat)]]
        /\ buffers' \in [Rank -> Seq(Entry)]
    BY <1>0, <1>16, LaunchTypes
  <2>4. /\ queue' \in [Rank -> Seq(Node)]
        /\ n' \in [Rank -> Int]
        /\ unsent' \in [Rank -> Seq(Message)]
        /\ UNCHANGED <<received, result, channel>>
    BY <1>0, <1>16, LaunchControl
  <2> QED BY <1>0, <2>1, <2>2, <2>3, <2>4 DEF TypeOK, Entry
<1>17. CASE ReadScores(r)
  <2> DEFINE i == outBuf[r][current[r]]
  <2>1. /\ i \in Nat /\ i < Len(buffers[r]) /\ Buffer(r, i) # Unset
        /\ buffers[r] \in Seq(Entry)
    BY <1>17 DEF ReadScores, IInv, TypeOK, BuffersCreated, Created, Entry
  <2>2. Len(buffers[r]) \in Nat
    BY <2>1, LenProperties
  <2> HIDE DEF i
  <2>3. i + 1 \in 1 .. Len(buffers[r])
    BY <2>1, <2>2
  <2>4. Buffer(r, i) \in Tensor
    BY <2>1, <2>3, ElementOfSeq DEF Buffer, Entry
  <2> QED BY <1>0, <1>17, <2>4 DEF ReadScores, TypeOK, States, i
<1>18. CASE Send(r)
  <2>1. unsent[r] \in Seq(Message) /\ unsent[r] # <<>>
    BY <1>18 DEF Send, IInv, TypeOK, SendersOK
  <2>2. Head(unsent[r]) \in Message /\ Tail(unsent[r]) \in Seq(Message)
    BY <2>1, HeadTailProperties
  <2>3. Append(channel[r], Head(unsent[r])) \in Seq(Message)
    BY <1>0, <2>2, AppendProperties DEF TypeOK
  <2> QED BY <1>0, <1>18, <2>2, <2>3 DEF Send, TypeOK, States
<1>19. CASE SendToNobody(r)
  BY <1>0, <1>19 DEF SendToNobody, TypeOK, States
<1>20. CASE AfterSend(r)
  <2>1. CASE unsent[r] # <<>>
    BY <1>0, <1>20, <2>1 DEF AfterSend, TypeOK, States
  <2>2. CASE unsent[r] = <<>>
    <3>1. queue' \in [Rank -> Seq(Node)] /\ n' \in [Rank -> Int]
      BY <1>0, <1>20, <2>2, PassChildrenType DEF AfterSend, TypeOK
    <3> QED BY <1>0, <1>20, <2>2, <3>1 DEF AfterSend, TypeOK, States
  <2> QED BY <2>1, <2>2
<1>21. CASE Abort(r)
  BY <1>0, <1>21 DEF Abort, TypeOK, States
<1> QED
  BY <1>2, <1>3, <1>4, <1>5, <1>7, <1>8, <1>9, <1>10, <1>11, <1>12, <1>13,
     <1>14, <1>15, <1>16, <1>17, <1>18, <1>19, <1>20, <1>21
  DEF Step, SendMatched, SendBuffered
-----------------------------------------------------------------------------
(* The steps that touch the tree are BarrierFirst, RecvData and Launch.    *)

Quiet ==
  /\ UNCHANGED tree_vars
  /\ \A r \in Rank : /\ pc'[r] \in Walks => pc[r] \in Walks
                     /\ pc'[r] \in Early => pc[r] \in Early

LEMMA QuietSteps ==
  ASSUME TypeOK, [Next]_vars
  PROVE  Quiet \/ \E r \in Rank : BarrierFirst(r) \/ RecvData(r) \/ Launch(r)
<1> USE DEF Walks, Early, Quiet, TypeOK, States
<1>1. CASE UNCHANGED vars
  BY <1>1 DEF vars, tree_vars
<1>2. SUFFICES ASSUME NEW r \in Rank, Step(r) \/ SendBuffered(r) \/ Abort(r)
               PROVE  Quiet \/ BarrierFirst(r) \/ RecvData(r) \/ Launch(r)
  BY <1>1 DEF Next
<1>3. CASE Flash(r) \/ BarrierOther(r) \/ RecvName(r) \/ RecvDims(r)
  BY <1>3 DEF Flash, BarrierOther, RecvName, RecvDims
<1>4. CASE NextLevel(r) \/ WalkEnds(r) \/ FrontOfEmpty(r)
  BY <1>4 DEF NextLevel, WalkEnds, FrontOfEmpty
<1>5. CASE PassOn(r) \/ PutBack(r)
  BY <1>5 DEF PassOn, PutBack
<1>6. CASE MissingArgument(r) \/ ReadScores(r)
  BY <1>6 DEF MissingArgument, ReadScores
<1>7. CASE Send(r) \/ SendToNobody(r) \/ AfterSend(r)
  BY <1>7 DEF Send, SendToNobody, AfterSend
<1>8. CASE Abort(r)
  BY <1>8 DEF Abort
<1> QED
  BY <1>2, <1>3, <1>4, <1>5, <1>6, <1>7, <1>8
  DEF Step, SendMatched, SendBuffered

(* The first buffer gets the image, or a tensor from the rank before.      *)
LEMMA FirstTensor ==
  ASSUME IInv, NEW r \in Rank, BarrierFirst(r) \/ RecvData(r)
  PROVE  /\ pc[r] \in Early
         /\ pc' = [pc EXCEPT ![r] = "walk"]
         /\ outBuf' = outBuf /\ visited' = visited
         /\ \E t \in Tensor : buffers' = [buffers EXCEPT ![r] = <<t>>]
<1>1. CASE BarrierFirst(r)
  BY <1>1 DEF BarrierFirst, StartWalk, Early, Tensor
<1>2. CASE RecvData(r)
  <2>1. r - 1 \in Rank
    BY <1>2, RankAssumption DEF RecvData, IInv, ReceiversOK, Rank
  <2>2. channel[r - 1] \in Seq(Message) /\ channel[r - 1] # <<>>
    BY <1>2, <2>1 DEF IInv, TypeOK, RecvData
  <2>3. Head(channel[r - 1]) \in Message
    BY <2>2, HeadTailProperties
  <2>4. Head(channel[r - 1]).value \in Tensor
    BY <2>3 DEF Message
  <2> QED BY <1>2, <2>4 DEF RecvData, StartWalk, Early
<1> QED BY <1>1, <1>2

(* The indices stay those of buffers that exist: a launch appends entries  *)
(* to buffers[], sets the one whose index it hands out, and leaves those   *)
(* before them alone.                                                      *)
LEMMA IndexStep ==
  ASSUME IInv, [Next]_vars
  PROVE  EarlyFresh' /\ BuffersCreated'
<1>0. TypeOK /\ EarlyFresh /\ BuffersCreated /\ TypeOK'
  BY TypeStep DEF IInv
<1> USE DEF Created, Buffer
<1> DEFINE AllCreated(s) == \A p \in Node :
             /\ Created(s, outBuf[s][p])
             /\ \A k \in DOMAIN parentBuf[s][p] : Created(s, parentBuf[s][p][k])
<1>1. CASE Quiet
  BY <1>0, <1>1 DEF Quiet, tree_vars, EarlyFresh, BuffersCreated, Walks
<1>2. ASSUME NEW r \in Rank, BarrierFirst(r) \/ RecvData(r)
      PROVE  EarlyFresh' /\ BuffersCreated'
  <2>1. /\ pc[r] \in Early
        /\ pc' = [pc EXCEPT ![r] = "walk"]
        /\ outBuf' = outBuf /\ visited' = visited
        /\ \E t \in Tensor : buffers' = [buffers EXCEPT ![r] = <<t>>]
    BY <1>0, <1>2, FirstTensor
  <2>2. /\ \A s \in Rank \ {r} : parentBuf'[s] = parentBuf[s]
        /\ \A p \in Node : \/ parentBuf'[r][p] = parentBuf[r][p]
                           \/ parentBuf'[r][p] = Append(parentBuf[r][p], 0)
    <3>1. parentBuf \in [Rank -> [Node -> Seq(Nat)]]
      BY <1>0 DEF TypeOK
    <3>2. CASE BarrierFirst(r)
      <4>1. parentBuf' = [parentBuf EXCEPT ![r][Root] = Append(@, 0)]
        BY <3>2 DEF BarrierFirst
      <4> QED BY <3>1, <4>1
    <3>3. CASE RecvData(r)
      <4>1. \E S : parentBuf' = [parentBuf EXCEPT ![r] =
              [p \in Node |-> IF p \in S THEN Append(@[p], 0) ELSE @[p]]]
        BY <3>3 DEF RecvData
      <4> QED BY <3>1, <4>1
    <3> QED BY <1>2, <3>2, <3>3
  <2>3. \A s \in Rank \ {r} : /\ pc'[s] = pc[s]
                              /\ buffers'[s] = buffers[s]
                              /\ outBuf'[s] = outBuf[s]
                              /\ visited'[s] = visited[s]
                              /\ parentBuf'[s] = parentBuf[s]
    BY <1>0, <2>1, <2>2 DEF TypeOK
  <2>4. pc'[r] = "walk" /\ Len(buffers'[r]) = 1 /\ buffers'[r][1] # Unset
    BY <1>0, <2>1, NameAssumption DEF TypeOK
  <2>5. \A p \in Node : outBuf'[r][p] = 0 /\ parentBuf[r][p] = <<>>
    BY <1>0, <2>1 DEF EarlyFresh
  <2>6. \A p \in Node : parentBuf'[r][p] \in {<<>>, <<0>>}
    <3>1. Append(<<>>, 0) = <<0>>
      OBVIOUS
    <3> QED BY <2>2, <2>5, <3>1
  <2>7. AllCreated(r)'
    <3>1. \A t \in {<<>>, <<0>>} : \A k \in DOMAIN t : t[k] = 0
      OBVIOUS
    <3> QED BY <2>4, <2>5, <2>6, <3>1
  <2>8. EarlyFresh'
    BY <1>0, <2>3, <2>4 DEF EarlyFresh, Early
  <2>9. ASSUME NEW s \in Rank, pc'[s] \in Walks
        PROVE  AllCreated(s)'
    <3>1. CASE s = r
      BY <2>7, <3>1
    <3>2. CASE s # r
      <4>1. pc[s] \in Walks
        BY <2>3, <2>9, <3>2
      <4>2. AllCreated(s)
        BY <1>0, <4>1 DEF BuffersCreated, Walks
      <4> QED BY <2>3, <3>2, <4>2
    <3> QED BY <3>1, <3>2
  <2> QED BY <2>8, <2>9 DEF BuffersCreated, Walks
<1>3. ASSUME NEW r \in Rank, Launch(r)
      PROVE  EarlyFresh' /\ BuffersCreated'
  <2>1. pc[r] = "walk" /\ \E new \in {"walk", "send", "read"} :
              pc' = [pc EXCEPT ![r] = new]
    BY <1>0, <1>3, LaunchControl
  <2>2. PICK out \in Nat :
          /\ Len(buffers[r]) <= out /\ out < Len(buffers'[r])
          /\ buffers'[r][out + 1] \in Tensor
          /\ outBuf' = [outBuf EXCEPT ![r][At(r)] = out]
          /\ parentBuf' = [parentBuf EXCEPT ![r] =
               [c \in Node |-> IF c \in Children(At(r))
                               THEN Append(@[c], out) ELSE @[c]]]
    BY <1>0, <1>3, LaunchTypes
  <2>3. \A s \in Rank \ {r} : /\ pc'[s] = pc[s]
                              /\ buffers'[s] = buffers[s]
                              /\ outBuf'[s] = outBuf[s]
                              /\ visited'[s] = visited[s]
                              /\ parentBuf'[s] = parentBuf[s]
    <3>1. \A s \in Rank \ {r} : pc'[s] = pc[s] /\ outBuf'[s] = outBuf[s]
                               /\ parentBuf'[s] = parentBuf[s]
      BY <1>0, <2>1, <2>2 DEF TypeOK
    <3>2. /\ visited' = [visited EXCEPT ![r] = @ \cup {At(r)}]
          /\ \A s \in Rank \ {r} : buffers'[s] = buffers[s]
      BY <1>0, <1>3, LaunchTypes
    <3> QED BY <1>0, <3>1, <3>2 DEF TypeOK
  <2>4. /\ pc'[r] \in {"walk", "send", "read"}
        /\ \A p \in Node : outBuf'[r][p] = IF p = At(r) THEN out ELSE outBuf[r][p]
        /\ \A p \in Node : parentBuf'[r][p] =
             IF p \in Children(At(r)) THEN Append(parentBuf[r][p], out)
             ELSE parentBuf[r][p]
    <3>1. /\ pc \in [Rank -> States]
          /\ outBuf \in [Rank -> [Node -> Nat]]
          /\ parentBuf \in [Rank -> [Node -> Seq(Nat)]]
      BY <1>0 DEF TypeOK
    <3>2. pc'[r] \in {"walk", "send", "read"}
      BY <2>1, <3>1
    <3>3. \A p \in Node : outBuf'[r][p] = IF p = At(r) THEN out ELSE outBuf[r][p]
      BY <2>2, <3>1
    <3>4. parentBuf'[r] = [c \in Node |-> IF c \in Children(At(r))
                                         THEN Append(parentBuf[r][c], out)
                                         ELSE parentBuf[r][c]]
      BY <2>2, <3>1
    <3> QED BY <3>2, <3>3, <3>4
  <2>5. AllCreated(r)
    BY <1>0, <2>1 DEF BuffersCreated
  <2> DEFINE Was(i) == Created(r, i)
             Is(i)  == i < Len(buffers'[r]) /\ buffers'[r][i + 1] # Unset
  <2>6. Is(out) /\ \A i \in Nat : Was(i) => Is(i)
    <3>1. Len(buffers[r]) \in Nat /\ Len(buffers'[r]) \in Nat
      BY <1>0, LenProperties DEF TypeOK
    <3>2. \A i \in Nat : i < Len(buffers[r]) => buffers'[r][i + 1] = buffers[r][i + 1]
      BY <1>0, <1>3, LaunchTypes
    <3> QED BY <2>2, <3>1, <3>2, NameAssumption
  <2>12. \A p \in Node : /\ Was(outBuf[r][p])
                         /\ \A k \in DOMAIN parentBuf[r][p] : Was(parentBuf[r][p][k])
    BY <2>5
  <2> HIDE DEF Was, Is, AllCreated
  <2>7. ASSUME NEW p \in Node
        PROVE  Is(outBuf'[r][p])
    <3>1. outBuf[r][p] \in Nat
      BY <1>0 DEF TypeOK
    <3> QED BY <2>4, <2>6, <2>12, <3>1
  <2>8. ASSUME NEW p \in Node, NEW k \in DOMAIN parentBuf'[r][p]
        PROVE  Is(parentBuf'[r][p][k])
    <3> DEFINE b == parentBuf[r][p]
    <3>1. /\ b \in Seq(Nat)
          /\ \A j \in DOMAIN b : b[j] \in Nat /\ Is(b[j])
      <4>1. b \in Seq(Nat)
        BY <1>0 DEF TypeOK
      <4>2. \A j \in DOMAIN b : b[j] \in Nat
        BY <4>1, LenProperties, ElementOfSeq
      <4>3. \A j \in DOMAIN b : Was(b[j])
        BY <2>12
      <4> HIDE DEF b
      <4> QED BY <2>6, <4>1, <4>2, <4>3
    <3> HIDE DEF b
    <3>2. \A j \in DOMAIN Append(b, out) :
            \/ Append(b, out)[j] = out
            \/ /\ j \in DOMAIN b
               /\ Append(b, out)[j] = b[j]
      <4>1. DOMAIN Append(b, out) = 1 .. Len(b) + 1 /\ DOMAIN b = 1 .. Len(b)
            /\ Len(b) \in Nat
        BY <3>1, AppendProperties, LenProperties
      <4>2. \A j \in 1 .. Len(b) : Append(b, out)[j] = b[j]
        BY <3>1
      <4>3. Append(b, out)[Len(b) + 1] = out
        BY <3>1
      <4> QED BY <4>1, <4>2, <4>3
    <3>3. parentBuf'[r][p] = Append(b, out) \/ parentBuf'[r][p] = b
      BY <2>4 DEF b
    <3>4. parentBuf'[r][p][k] = out
          \/ \E j \in DOMAIN b : parentBuf'[r][p][k] = b[j]
      <4>1. CASE parentBuf'[r][p] = Append(b, out)
        <5>1. k \in DOMAIN Append(b, out)
          BY <2>8, <4>1
        <5>2. Append(b, out)[k] = out \/ \E j \in DOMAIN b : Append(b, out)[k] = b[j]
          BY <3>2, <5>1
        <5> QED BY <4>1, <5>2
      <4>2. CASE parentBuf'[r][p] = b
        BY <2>8, <4>2
      <4> QED BY <3>3, <4>1, <4>2
    <3> QED BY <2>6, <3>1, <3>4
  <2>9. AllCreated(r)'
    BY <2>7, <2>8 DEF Is, AllCreated
  <2> USE DEF AllCreated
  <2>10. EarlyFresh'
    BY <1>0, <2>3, <2>4 DEF EarlyFresh, Early
  <2>11. ASSUME NEW s \in Rank, pc'[s] \in Walks
         PROVE  AllCreated(s)'
    <3>1. CASE s = r
      BY <2>9, <3>1
    <3>2. CASE s # r
      <4>1. pc[s] \in Walks
        BY <2>3, <2>11, <3>2
      <4>2. AllCreated(s)
        BY <1>0, <4>1 DEF BuffersCreated, Walks
      <4> QED BY <2>3, <3>2, <4>2
    <3> QED BY <3>1, <3>2
  <2> QED BY <2>10, <2>11 DEF BuffersCreated, Walks
<1> QED BY <1>0, <1>1, <1>2, <1>3, QuietSteps
(* Who receives, and who has something to send.                            *)
LEMMA ControlStep ==
  ASSUME IInv, [Next]_vars
  PROVE  ReceiversOK' /\ SendersOK'
<1> USE DEF ReceiversOK, SendersOK, Early
<1>0. /\ ReceiversOK /\ SendersOK
      /\ pc \in [Rank -> States] /\ unsent \in [Rank -> Seq(Message)]
  BY DEF IInv, TypeOK
<1>1. CASE UNCHANGED vars
  BY <1>0, <1>1 DEF vars
<1>2. SUFFICES ASSUME NEW r \in Rank, Step(r) \/ SendBuffered(r) \/ Abort(r)
               PROVE  ReceiversOK' /\ SendersOK'
  BY <1>1 DEF Next
<1>3. CASE Flash(r) \/ BarrierFirst(r) \/ BarrierOther(r)
  BY <1>0, <1>3 DEF Flash, BarrierFirst, BarrierOther, StartWalk
<1>4. CASE RecvName(r) \/ RecvDims(r) \/ RecvData(r)
  BY <1>0, <1>4 DEF RecvName, RecvDims, RecvData, StartWalk
<1>5. CASE NextLevel(r) \/ WalkEnds(r) \/ FrontOfEmpty(r)
  BY <1>0, <1>5 DEF NextLevel, WalkEnds, FrontOfEmpty
<1>6. CASE PassOn(r) \/ PutBack(r)
  BY <1>0, <1>6 DEF PassOn, PutBack
<1>7. CASE MissingArgument(r) \/ ReadScores(r)
  BY <1>0, <1>7 DEF MissingArgument, ReadScores
<1>8. CASE Launch(r)
  <2>1. /\ pc[r] = "walk"
        /\ \E new \in {"walk", "send", "read"} : pc' = [pc EXCEPT ![r] = new]
    BY <1>8, LaunchControl DEF IInv
  <2>2. CASE pc'[r] = "send" /\ \E l \in Layer, t \in Tensor :
                 unsent' = [unsent EXCEPT ![r] = Messages(l, t)]
    BY <1>0, <2>1, <2>2, MessagesType
  <2>3. CASE pc'[r] # "send" /\ unsent' = unsent
    BY <1>0, <2>1, <2>3
  <2> QED BY <1>8, <2>2, <2>3, LaunchControl DEF IInv
<1>9. CASE Send(r) \/ SendToNobody(r)
  BY <1>0, <1>9 DEF Send, SendToNobody
<1>10. CASE AfterSend(r)
  BY <1>0, <1>10 DEF AfterSend
<1>11. CASE Abort(r)
  BY <1>0, <1>11 DEF Abort
<1> QED
  BY <1>2, <1>3, <1>4, <1>5, <1>6, <1>7, <1>8, <1>9, <1>10, <1>11
  DEF Step, SendMatched, SendBuffered

-----------------------------------------------------------------------------
(* IInv is inductive.                                                      *)

LEMMA InitIInv == Init => IInv
<1> SUFFICES ASSUME Init PROVE IInv
  OBVIOUS
<1>1. Root \in Node
  BY TreeAssumption DEF LayerNode
<1>2. TypeOK
  BY <1>1 DEF Init, TypeOK, States, NoIndex, Tensor, Message
<1>3. EarlyFresh
  BY DEF Init, EarlyFresh, NoIndex
<1>4. ReceiversOK /\ SendersOK
  BY DEF Init, ReceiversOK, SendersOK
<1>5. BuffersCreated
  BY DEF Init, BuffersCreated
<1> QED BY <1>2, <1>3, <1>4, <1>5 DEF IInv

LEMMA NextIInv == IInv /\ [Next]_vars => IInv'
BY TypeStep, IndexStep, ControlStep DEF IInv

THEOREM Inductive == Spec => []IInv
BY InitIInv, NextIInv, PTL DEF Spec

(* Type correctness: whatever the tree, the bitstreams and the messages,   *)
(* the walk, the sends and the receives of launcher_global keep every      *)
(* variable in its type, and no count of nodes or index leaves its range.  *)
THEOREM TypeCorrect == Spec => []TypeOK
BY Inductive, PTL DEF IInv

(* No index which launches and find_by_name leave in the tree, nor the     *)
(* index 0 that every node starts with, is that of an entry of buffers[]   *)
(* that was never created: those are counted among the others (an input of *)
(* a kernel takes a number and no buffer), and a kernel that got one would *)
(* follow an unset pointer.                                                *)
THEOREM CreatedBuffers == Spec => []BuffersCreated
BY Inductive, PTL DEF IInv
-----------------------------------------------------------------------------
(* The buffers.                                                            *)

LEMMA VisitedFinite ==
  ASSUME NEW S \in SUBSET LayerNode
  PROVE  IsFiniteSet(S) /\ Cardinality(S) \in Nat
<1>1. Node = 1 .. Len(Tree) /\ Len(Tree) \in Nat
  BY TreeAssumption, LenProperties DEF Node
<1>2. IsFiniteSet(Node)
  BY <1>1, FS_Interval
<1>3. S \in SUBSET Node
  BY DEF LayerNode
<1> QED BY <1>2, <1>3, FS_Subset, FS_CardinalityType

LEMMA BuffersStep ==
  ASSUME IInv, FiveBuffersPerLaunch, [Next]_vars
  PROVE  FiveBuffersPerLaunch'
<1> DEFINE Bound(r) == Len(buffers[r]) <= 1 + 5 * Cardinality(visited[r])
<1>0. TypeOK /\ TypeOK'
  BY TypeStep DEF IInv
<1>1. CASE Quiet
  BY <1>1 DEF Quiet, tree_vars, FiveBuffersPerLaunch
<1>2. ASSUME NEW r \in Rank, BarrierFirst(r) \/ RecvData(r), NEW s \in Rank
      PROVE  Bound(s)'
  <2>1. visited' = visited /\ \E t : buffers' = [buffers EXCEPT ![r] = <<t>>]
    BY <1>2 DEF BarrierFirst, RecvData
  <2>2. CASE s = r
    <3>1. Len(buffers'[s]) = 1
      BY <1>0, <2>1, <2>2 DEF TypeOK
    <3>2. Cardinality(visited'[s]) \in Nat
      BY <1>0, VisitedFinite DEF TypeOK
    <3> QED BY <3>1, <3>2
  <2>3. CASE s # r
    BY <1>0, <2>1, <2>3 DEF TypeOK, FiveBuffersPerLaunch
  <2> QED BY <2>2, <2>3
<1>3. ASSUME NEW r \in Rank, Launch(r), NEW s \in Rank
      PROVE  Bound(s)'
  <2>1. /\ At(r) \notin visited[r]
        /\ visited' = [visited EXCEPT ![r] = @ \cup {At(r)}]
        /\ Len(buffers'[r]) \in Len(buffers[r]) + 1 .. Len(buffers[r]) + 5
        /\ \A q \in Rank \ {r} : buffers'[q] = buffers[q]
    BY <1>0, <1>3, LaunchTypes
  <2>2. CASE s = r
    <3>1. visited'[r] = visited[r] \cup {At(r)} /\ visited[r] \in SUBSET LayerNode
      BY <1>0, <2>1 DEF TypeOK
    <3>2. IsFiniteSet(visited[r]) /\ Cardinality(visited[r]) \in Nat
      BY <3>1, VisitedFinite
    <3>3. Cardinality(visited'[r]) = Cardinality(visited[r]) + 1
      BY <2>1, <3>1, <3>2, FS_AddElement
    <3>4. Len(buffers[r]) \in Nat /\ Len(buffers[r]) <= 1 + 5 * Cardinality(visited[r])
      BY <1>0, LenProperties DEF TypeOK, FiveBuffersPerLaunch
    <3> QED BY <2>1, <2>2, <3>2, <3>3, <3>4
  <2>3. CASE s # r
    BY <1>0, <2>1, <2>3 DEF TypeOK, FiveBuffersPerLaunch
  <2> QED BY <2>2, <2>3
<1> QED BY <1>0, <1>1, <1>2, <1>3, QuietSteps DEF FiveBuffersPerLaunch

(* buffer_index never exceeds one more than five times the layers that     *)
(* were launched, in every network and for every cut.                      *)
THEOREM BuffersCounted == Spec => []FiveBuffersPerLaunch
<1>1. Init => FiveBuffersPerLaunch
  BY FS_EmptySet DEF Init, FiveBuffersPerLaunch
<1>2. IInv /\ FiveBuffersPerLaunch /\ [Next]_vars => FiveBuffersPerLaunch'
  BY BuffersStep
<1> QED BY <1>1, <1>2, Inductive, PTL DEF Spec

(* The array buffers of 500 places is large enough for every tree of at    *)
(* most 99 layers, which launcher_global does not check.                   *)
THEOREM BuffersFit ==
  ASSUME Cardinality(LayerNode) <= 99
  PROVE  Spec => [](\A r \in Rank : Len(buffers[r]) <= 500)
<1>1. TypeOK /\ FiveBuffersPerLaunch => \A r \in Rank : Len(buffers[r]) <= 500
  <2> SUFFICES ASSUME TypeOK, FiveBuffersPerLaunch, NEW r \in Rank
               PROVE  Len(buffers[r]) <= 500
    OBVIOUS
  <2>1. visited[r] \in SUBSET LayerNode /\ Len(buffers[r]) \in Nat
    BY LenProperties DEF TypeOK
  <2>2. IsFiniteSet(LayerNode) /\ Cardinality(LayerNode) \in Nat
        /\ Cardinality(visited[r]) \in Nat
    BY <2>1, VisitedFinite
  <2>3. Cardinality(visited[r]) <= Cardinality(LayerNode)
    BY <2>1, <2>2, FS_Subset
  <2>4. Len(buffers[r]) <= 1 + 5 * Cardinality(visited[r])
    BY DEF FiveBuffersPerLaunch
  <2> QED BY <2>1, <2>2, <2>3, <2>4
<1> QED BY <1>1, TypeCorrect, BuffersCounted, PTL

-----------------------------------------------------------------------------
(***************************************************************************)
(* The messages meet their receives, however many layers a rank sends.     *)
(*                                                                         *)
(* What a rank has sent and has still to send, in one sequence, is a       *)
(* number of whole groups (name, dims, data), the first of which may have  *)
(* lost the messages the receiver has taken, which is where the receiver   *)
(* stands.                                                                 *)
(***************************************************************************)
After == [name |-> "dims", dims |-> "data", data |-> "name"]

(* The kinds of messages s go round from kind e on and end with data.      *)
Chain(s, e) ==
  IF s = <<>> THEN e = "name"
  ELSE /\ s[1].kind = e
       /\ s[Len(s)].kind = "data"
       /\ \A k \in 1 .. Len(s) - 1 : s[k + 1].kind = After[s[k].kind]

(* All that rank r has for the next one.                                   *)
Stream(r) == channel[r] \o unsent[r]

(* The kind of message that rank r takes next.                             *)
Expected(r) ==
  CASE pc[r] = "recvDims" -> "dims"
    [] pc[r] = "recvData" -> "data"
    [] OTHER              -> "name"

StreamsOK ==
  \A r \in Rank \ {0} : pc[r] # "aborted" => Chain(Stream(r - 1), Expected(r))

-----------------------------------------------------------------------------
(* Sequences of messages.                                                  *)

LEMMA ChainTail ==
  ASSUME NEW s \in Seq(Message), s # <<>>, NEW e, Chain(s, e)
  PROVE  s[1].kind = e /\ Chain(Tail(s), After[e])
<1>1. Len(s) \in Nat \ {0} /\ s[1].kind = e /\ s[Len(s)].kind = "data"
  BY EmptySeq DEF Chain
<1>2. /\ Tail(s) \in Seq(Message) /\ Len(Tail(s)) = Len(s) - 1
      /\ \A k \in 1 .. Len(s) - 1 : Tail(s)[k] = s[k + 1]
  BY HeadTailProperties
<1>3. CASE Len(s) = 1
  <2>1. Tail(s) = <<>>
    <3>1. Len(Tail(s)) = 0
      BY <1>2, <1>3
    <3> QED BY <1>2, <3>1, EmptySeq
  <2> QED BY <1>1, <1>3, <2>1 DEF Chain, After
<1>4. CASE Len(s) # 1
  <2>1. Tail(s) # <<>> /\ 1 \in 1 .. Len(s) - 1
    BY <1>1, <1>2, <1>4, EmptySeq
  <2>2. Tail(s)[1].kind = After[e]
    BY <1>1, <1>2, <2>1 DEF Chain
  <2>3. Tail(s)[Len(Tail(s))].kind = "data"
    BY <1>1, <1>2, <1>4
  <2>4. \A k \in 1 .. Len(Tail(s)) - 1 : Tail(s)[k + 1].kind = After[Tail(s)[k].kind]
    BY <1>1, <1>2 DEF Chain
  <2> QED BY <1>1, <2>1, <2>2, <2>3, <2>4 DEF Chain
<1> QED BY <1>3, <1>4

LEMMA ChainSend ==
  ASSUME NEW s \in Seq(Message), NEW e, Chain(s, e),
         NEW l \in Layer, NEW t \in Tensor
  PROVE  Chain(s \o Messages(l, t), e)
<1> DEFINE m == Messages(l, t)
           u == s \o m
<1>1. /\ m \in Seq(Message) /\ Len(m) = 3
      /\ m[1].kind = "name" /\ m[2].kind = "dims" /\ m[3].kind = "data"
  BY MessagesType DEF Messages
<1> HIDE DEF m
<1>2. Len(s) \in Nat
  BY LenProperties
<1>3. /\ u \in Seq(Message) /\ Len(u) = Len(s) + 3
      /\ \A k \in 1 .. Len(s) : u[k] = s[k]
      /\ u[Len(s) + 1] = m[1] /\ u[Len(s) + 2] = m[2] /\ u[Len(s) + 3] = m[3]
  <2>1. /\ u \in Seq(Message) /\ Len(u) = Len(s) + Len(m)
        /\ \A k \in 1 .. Len(s) + Len(m) :
             u[k] = IF k <= Len(s) THEN s[k] ELSE m[k - Len(s)]
    BY <1>1, ConcatProperties, Zenon
  <2> HIDE DEF u
  <2>2. u \in Seq(Message) /\ Len(u) = Len(s) + 3
    BY <1>1, <2>1
  <2>3. \A k \in 1 .. Len(s) + 3 : u[k] = IF k <= Len(s) THEN s[k] ELSE m[k - Len(s)]
    BY <1>1, <2>1
  <2>4. \A k \in 1 .. Len(s) : u[k] = s[k]
    BY <1>2, <2>3
  <2>5. \A j \in 1 .. 3 : u[Len(s) + j] = m[j]
    BY <1>2, <2>3
  <2> QED BY <2>2, <2>4, <2>5
<1> HIDE DEF u
<1>4. u # <<>> /\ u[Len(u)].kind = "data"
  BY <1>1, <1>2, <1>3, EmptySeq
<1>5. u[1].kind = e
  <2>1. CASE s = <<>>
    BY <1>1, <1>3, <2>1 DEF Chain
  <2>2. CASE s # <<>>
    <3>1. Len(s) # 0
      BY <2>2, EmptySeq
    <3>2. 1 \in 1 .. Len(s)
      BY <1>2, <3>1
    <3>3. u[1] = s[1]
      BY <1>3, <3>2, Zenon
    <3> QED BY <2>2, <3>3 DEF Chain
  <2> QED BY <2>1, <2>2
<1>6. ASSUME NEW k \in 1 .. Len(u) - 1
      PROVE  u[k + 1].kind = After[u[k].kind]
  <2>1. CASE k < Len(s)
    <3>1. k \in 1 .. Len(s) - 1 /\ k \in 1 .. Len(s) /\ k + 1 \in 1 .. Len(s)
      BY <1>2, <1>3, <2>1
    <3>2. s # <<>> /\ u[k] = s[k] /\ u[k + 1] = s[k + 1]
      BY <1>3, <3>1
    <3> QED BY <3>1, <3>2 DEF Chain
  <2>2. CASE k = Len(s)
    <3>1. s # <<>> /\ s[Len(s)].kind = "data"
      BY <1>2, <1>6, <2>2, EmptySeq DEF Chain
    <3> QED BY <1>1, <1>2, <1>3, <2>2, <3>1 DEF After
  <2>3. CASE k = Len(s) + 1 \/ k = Len(s) + 2
    BY <1>1, <1>2, <1>3, <2>3 DEF After
  <2> QED BY <1>2, <1>3, <2>1, <2>2, <2>3
<1> QED BY <1>4, <1>5, <1>6 DEF Chain, u, m
-----------------------------------------------------------------------------
(* The streams, step by step.                                              *)

LEMMA StreamType ==
  ASSUME TypeOK, NEW r \in Rank
  PROVE  /\ channel[r] \in Seq(Message) /\ unsent[r] \in Seq(Message)
         /\ Stream(r) \in Seq(Message)
BY ConcatProperties DEF TypeOK, Stream

(* Steps that neither send nor receive, and leave no rank between receives.*)
LEMMA SilentStep ==
  ASSUME StreamsOK, UNCHANGED <<channel, unsent>>,
         \A r \in Rank : \/ pc'[r] = "aborted"
                         \/ pc[r] # "aborted" /\ Expected(r)' = Expected(r)
                         \/ pc'[r] = pc[r]
  PROVE  StreamsOK'
<1> SUFFICES ASSUME NEW r \in Rank \ {0}, pc'[r] # "aborted"
             PROVE  Chain(Stream(r - 1), Expected(r))'
  BY DEF StreamsOK
<1>1. pc[r] # "aborted" /\ Expected(r)' = Expected(r)
  BY DEF Expected
<1>2. Stream(r - 1)' = Stream(r - 1)
  BY DEF Stream
<1>3. Chain(Stream(r - 1), Expected(r))
  BY <1>1 DEF StreamsOK
<1> QED BY <1>1, <1>2, <1>3 DEF Chain

(* A receive takes the first message of the stream.                        *)
LEMMA ReceiveStep ==
  ASSUME TypeOK, TypeOK', StreamsOK, NEW r \in Rank \ {0}, pc[r] # "aborted",
         channel[r - 1] # <<>>,
         channel' = [channel EXCEPT ![r - 1] = Tail(@)], unsent' = unsent,
         \A q \in Rank \ {r} : pc'[q] = pc[q],
         Expected(r)' = After[Expected(r)]
  PROVE  StreamsOK'
<1>1. r - 1 \in Rank
  BY RankAssumption DEF Rank
<1>2. ASSUME NEW q \in Rank \ {0}, q # r, pc'[q] # "aborted"
      PROVE  Chain(Stream(q - 1), Expected(q))'
  <2>1. q - 1 \in Rank /\ q - 1 # r - 1
    BY <1>2, RankAssumption DEF Rank
  <2>2. Stream(q - 1)' = Stream(q - 1)
    BY <1>1, <2>1 DEF Stream, TypeOK
  <2>3. pc'[q] = pc[q] /\ Expected(q)' = Expected(q)
    BY <1>2 DEF Expected
  <2>4. Chain(Stream(q - 1), Expected(q))
    BY <1>2, <2>3 DEF StreamsOK
  <2> QED BY <2>2, <2>3, <2>4 DEF Chain
<1>3. Chain(Stream(r - 1), Expected(r))'
  <2> DEFINE c == channel[r - 1]
             u == unsent[r - 1]
  <2>1. /\ c \in Seq(Message) /\ u \in Seq(Message) /\ c # <<>>
        /\ c \o u \in Seq(Message)
    BY <1>1, StreamType DEF Stream
  <2>2. Stream(r - 1)' = Tail(c) \o u
    BY <1>1 DEF Stream, TypeOK
  <2>3. Chain(c \o u, Expected(r))
    BY DEF StreamsOK, Stream
  <2> HIDE DEF c, u
  <2>4. Tail(c) \o u = Tail(c \o u) /\ c \o u # <<>>
    BY <2>1
  <2>5. Chain(Tail(c \o u), After[Expected(r)])
    BY <2>1, <2>3, <2>4, ChainTail
  <2>6. Stream(r - 1)' = Tail(c \o u)
    BY <2>2, <2>4
  <2>7. Expected(r)' = After[Expected(r)]
    OBVIOUS
  <2> QED BY <2>5, <2>6, <2>7 DEF Chain
<1> QED BY <1>2, <1>3 DEF StreamsOK

(* The first message of the stream is the first one of the channel.        *)
LEMMA FirstOfStream ==
  ASSUME TypeOK, StreamsOK, NEW r \in Rank \ {0}, pc[r] # "aborted",
         channel[r - 1] # <<>>
  PROVE  Head(channel[r - 1]).kind = Expected(r)
<1>1. r - 1 \in Rank
  BY RankAssumption DEF Rank
<1> DEFINE c == channel[r - 1]
           u == unsent[r - 1]
<1>2. /\ c \in Seq(Message) /\ u \in Seq(Message) /\ c # <<>>
      /\ c \o u \in Seq(Message)
  BY <1>1, StreamType DEF Stream
<1>3. Chain(c \o u, Expected(r))
  BY DEF StreamsOK, Stream
<1> HIDE DEF c, u
<1>4. c \o u # <<>> /\ (c \o u)[1] = Head(c)
  BY <1>2
<1>5. Head(c).kind = Expected(r)
  BY <1>2, <1>3, <1>4, ChainTail
<1> QED BY <1>5 DEF c
(* A launch that sends adds one group to the rank's stream.                *)
LEMMA LaunchStep ==
  ASSUME IInv, StreamsOK, NEW r \in Rank, Launch(r)
  PROVE  StreamsOK'
<1>0. TypeOK
  BY DEF IInv
<1>1. /\ pc[r] = "walk" /\ channel' = channel
      /\ \E new \in {"walk", "send", "read"} : pc' = [pc EXCEPT ![r] = new]
  BY <1>0, LaunchControl
<1>2. ASSUME NEW q \in Rank, pc'[q] # "aborted"
      PROVE  pc[q] # "aborted" /\ Expected(q)' = Expected(q)
  BY <1>0, <1>1, <1>2 DEF Expected, TypeOK
<1>3. CASE unsent' = unsent
  <2>1. UNCHANGED <<channel, unsent>>
    BY <1>1, <1>3
  <2>2. \A q \in Rank : \/ pc'[q] = "aborted"
                        \/ pc[q] # "aborted" /\ Expected(q)' = Expected(q)
    BY <1>0, <1>1 DEF Expected, TypeOK
  <2> QED BY <2>1, <2>2, SilentStep
<1>4. ASSUME NEW l \in Layer, NEW t \in Tensor,
             unsent' = [unsent EXCEPT ![r] = Messages(l, t)]
      PROVE  StreamsOK'
  <2> SUFFICES ASSUME NEW q \in Rank \ {0}, pc'[q] # "aborted"
               PROVE  Chain(Stream(q - 1), Expected(q))'
    BY DEF StreamsOK
  <2>1. q - 1 \in Rank
    BY RankAssumption DEF Rank
  <2>2. Chain(Stream(q - 1), Expected(q))
    BY <1>2 DEF StreamsOK
  <2>3. CASE q - 1 # r
    <3>1. Stream(q - 1)' = Stream(q - 1)
      BY <1>0, <1>1, <1>4, <2>1, <2>3 DEF Stream, TypeOK
    <3>2. Expected(q)' = Expected(q)
      BY <1>2
    <3> QED BY <2>2, <3>1, <3>2 DEF Chain
  <2>4. CASE q - 1 = r
    <3>1. unsent[r] = <<>>
      BY <1>1 DEF IInv, SendersOK
    <3>2. channel[r] \in Seq(Message) /\ Stream(r) = channel[r]
      BY <1>0, <3>1, StreamType, ConcatEmptySeq DEF Stream
    <3>3. Stream(r)' = channel[r] \o Messages(l, t)
      BY <1>0, <1>1, <1>4 DEF Stream, TypeOK
    <3>4. Chain(channel[r], Expected(q))
      BY <2>2, <2>4, <3>2
    <3>5. Chain(channel[r] \o Messages(l, t), Expected(q))
      BY <3>2, <3>4, ChainSend
    <3>6. Expected(q)' = Expected(q) /\ Stream(q - 1)' = channel[r] \o Messages(l, t)
      BY <1>2, <2>4, <3>3
    <3> QED BY <3>5, <3>6 DEF Chain
  <2> QED BY <2>3, <2>4
<1> QED BY <1>0, <1>3, <1>4, LaunchControl

(* A send moves a message from one part of the stream to the other.        *)
LEMMA SendStep ==
  ASSUME IInv, StreamsOK, NEW r \in Rank, Send(r)
  PROVE  StreamsOK'
<1>0. TypeOK
  BY DEF IInv
<1> DEFINE c == channel[r]
           u == unsent[r]
<1>1. c \in Seq(Message) /\ u \in Seq(Message) /\ u # <<>>
  BY <1>0, StreamType DEF IInv, SendersOK, Send
<1>2. Append(c, Head(u)) \o Tail(u) = c \o u
  <2> HIDE DEF c, u
  <2>1. /\ Head(u) \in Message /\ Tail(u) \in Seq(Message)
        /\ <<Head(u)>> \in Seq(Message)
    BY <1>1, HeadTailProperties
  <2>2. Append(c, Head(u)) = c \o <<Head(u)>>
    BY <1>1, <2>1, AppendIsConcat
  <2>3. (c \o <<Head(u)>>) \o Tail(u) = c \o (<<Head(u)>> \o Tail(u))
    BY <1>1, <2>1, ConcatAssociative
  <2>4. <<Head(u)>> \o Tail(u) = u
    BY <1>1
  <2> QED BY <2>2, <2>3, <2>4
<1>3. \A q \in Rank : Stream(q)' = Stream(q)
  BY <1>0, <1>2 DEF Send, Stream, TypeOK
<1>4. \A q \in Rank : Expected(q)' = Expected(q) /\ (pc'[q] = "aborted" <=> pc[q] = "aborted")
  BY <1>0 DEF Send, Expected, TypeOK
<1> SUFFICES ASSUME NEW q \in Rank \ {0}, pc'[q] # "aborted"
             PROVE  Chain(Stream(q - 1), Expected(q))'
  BY DEF StreamsOK
<1>5. q - 1 \in Rank
  BY RankAssumption DEF Rank
<1>6. Chain(Stream(q - 1), Expected(q))
  BY <1>4 DEF StreamsOK
<1> QED BY <1>3, <1>4, <1>5, <1>6 DEF Chain

LEMMA StreamsStep ==
  ASSUME IInv, StreamsOK, [Next]_vars
  PROVE  StreamsOK'
<1>0. TypeOK /\ TypeOK'
  BY TypeStep DEF IInv
<1>1. pc \in [Rank -> States]
  BY <1>0 DEF TypeOK
<1>2. CASE UNCHANGED vars
  BY <1>2, SilentStep DEF vars
<1>3. SUFFICES ASSUME NEW r \in Rank, Step(r) \/ SendBuffered(r) \/ Abort(r)
               PROVE  StreamsOK'
  BY <1>2 DEF Next
<1>4. CASE Flash(r) \/ BarrierFirst(r) \/ BarrierOther(r)
  <2>1. UNCHANGED <<channel, unsent>>
    BY <1>4 DEF Flash, BarrierFirst, BarrierOther
  <2>2. \A q \in Rank : \/ pc'[q] = pc[q]
                        \/ pc[q] # "aborted" /\ Expected(q)' = Expected(q)
    BY <1>1, <1>4 DEF Flash, BarrierFirst, BarrierOther, StartWalk, Expected
  <2> QED BY <2>1, <2>2, SilentStep
<1>5. CASE RecvName(r) \/ RecvDims(r) \/ RecvData(r)
  <2>1. r \in Rank \ {0}
    BY <1>5 DEF RecvName, RecvDims, RecvData, IInv, ReceiversOK
  <2>2. /\ pc[r] # "aborted" /\ channel[r - 1] # <<>>
        /\ channel' = [channel EXCEPT ![r - 1] = Tail(@)] /\ unsent' = unsent
    BY <1>5 DEF RecvName, RecvDims, RecvData
  <2>3. \A q \in Rank \ {r} : pc'[q] = pc[q]
    BY <1>1, <1>5 DEF RecvName, RecvDims, RecvData, StartWalk
  <2>4. Expected(r)' = After[Expected(r)]
    BY <1>1, <1>5 DEF RecvName, RecvDims, RecvData, StartWalk, Expected, After
  <2> QED BY <1>0, <2>1, <2>2, <2>3, <2>4, ReceiveStep
<1>6. CASE NextLevel(r) \/ WalkEnds(r) \/ FrontOfEmpty(r) \/ PassOn(r) \/ PutBack(r)
           \/ MissingArgument(r) \/ ReadScores(r) \/ SendToNobody(r) \/ AfterSend(r)
  <2>1. UNCHANGED <<channel, unsent>>
    BY <1>6 DEF NextLevel, WalkEnds, FrontOfEmpty, PassOn, PutBack,
                MissingArgument, ReadScores, SendToNobody, AfterSend
  <2>2. /\ \A q \in Rank \ {r} : pc'[q] = pc[q]
        /\ \/ pc'[r] = pc[r]
           \/ /\ pc[r] \in {"walk", "read", "send", "sending"}
              /\ pc'[r] \in {"done", "undefined", "failed", "send", "walk"}
    BY <1>1, <1>6 DEF NextLevel, WalkEnds, FrontOfEmpty, PassOn, PutBack, ToLaunch,
                      Launchable, Walking,
                      MissingArgument, ReadScores, SendToNobody, AfterSend
  <2>3. \A q \in Rank : \/ pc'[q] = pc[q]
                        \/ pc[q] # "aborted" /\ Expected(q)' = Expected(q)
    BY <2>2 DEF Expected
  <2> QED BY <2>1, <2>3, SilentStep
<1>7. CASE Launch(r)
  BY <1>7, LaunchStep
<1>8. CASE Send(r)
  BY <1>8, SendStep
<1>9. CASE Abort(r)
  BY <1>1, <1>9, SilentStep DEF Abort
<1> QED
  BY <1>3, <1>4, <1>5, <1>6, <1>7, <1>8, <1>9 DEF Step, SendMatched, SendBuffered

-----------------------------------------------------------------------------
(* Each MPI_Recv takes the message that was meant for it, although all     *)
(* have one tag: a name is never taken for a size, nor a size for data,    *)
(* for any number of ranks and of layers that each of them sends.          *)
THEOREM ReceivesMeetSends == Spec => []ReceivesMatch
<1>1. Init => StreamsOK
  <2> SUFFICES ASSUME Init PROVE StreamsOK
    OBVIOUS
  <2>1. \A r \in Rank : Stream(r) = <<>> /\ Expected(r) = "name"
    BY DEF Init, Stream, Expected
  <2>2. \A r \in Rank \ {0} : r - 1 \in Rank
    BY RankAssumption DEF Rank
  <2> QED BY <2>1, <2>2 DEF StreamsOK, Chain
<1>2. IInv /\ StreamsOK /\ [Next]_vars => StreamsOK'
  BY StreamsStep
<1>3. IInv /\ StreamsOK => ReceivesMatch
  BY FirstOfStream DEF IInv, ReceivesMatch, Expected
<1> QED BY <1>1, <1>2, <1>3, Inductive, PTL DEF Spec

-----------------------------------------------------------------------------
(***************************************************************************)
(* No node waits twice in the queue of a rank, for every tree in which     *)
(* each node is on one list of children.                                   *)
(*                                                                         *)
(* Putting back and passing on never multiply a node because every node    *)
(* that waits was brought there by its only parent, which was passed; the  *)
(* nodes passed are in no variable, so the invariant says that there is    *)
(* such a set.                                                             *)
(***************************************************************************)
Distinct(q) == \A j, k \in DOMAIN q : q[j] = q[k] => j = k
Waiting(q)  == {q[k] : k \in DOMAIN q}

(* With queue q and visited nodes V: G are the nodes whose children were   *)
(* queued, B those just launched whose children are to be queued.          *)
Once(q, G, B, V) ==
  /\ Distinct(q)
  /\ Waiting(q) \cap (G \cup B) = {} /\ G \cap B = {}
  /\ V \subseteq G \cup B
  /\ \A c \in Waiting(q) \cup G \cup B : c = Root \/ \E p \in G : c \in Children(p)

WalkOnce(r) ==
  /\ pc[r] = "walk" =>
       \E G \in SUBSET Node : Once(queue[r], G, {}, visited[r])
  /\ pc[r] \in {"send", "sending"} =>
       \E G \in SUBSET Node : Once(queue[r], G, {current[r]}, visited[r])

WalksOnce == \A r \in Rank : WalkOnce(r)

-----------------------------------------------------------------------------
(* Queues without repetition.                                              *)

LEMMA JoinDistinct ==
  ASSUME NEW a \in Seq(Node), NEW b \in Seq(Node), Distinct(a), Distinct(b),
         Waiting(a) \cap Waiting(b) = {}
  PROVE  Distinct(a \o b) /\ Waiting(a \o b) = Waiting(a) \cup Waiting(b)
<1> DEFINE c == a \o b
           m == Len(a)
           k == Len(b)
<1>1. m \in Nat /\ k \in Nat /\ DOMAIN a = 1 .. m /\ DOMAIN b = 1 .. k
  BY LenProperties
<1>2. c \in Seq(Node) /\ Len(c) = m + k
  BY ConcatProperties
<1>3. \A i \in 1 .. m + k : c[i] = IF i <= m THEN a[i] ELSE b[i - m]
  BY ConcatProperties
<1>4. DOMAIN c = 1 .. m + k
  BY <1>2, LenProperties
<1> HIDE DEF c, m, k
<1>5. \A i \in 1 .. m : i \in 1 .. m + k /\ c[i] = a[i]
  BY <1>1, <1>3
<1>6. \A i \in 1 .. k : m + i \in 1 .. m + k /\ c[m + i] = b[i]
  <2> SUFFICES ASSUME NEW i \in 1 .. k
               PROVE  m + i \in 1 .. m + k /\ c[m + i] = b[i]
    OBVIOUS
  <2>1. m + i \in 1 .. m + k /\ ~ (m + i <= m) /\ (m + i) - m = i
    BY <1>1
  <2> QED BY <1>3, <2>1
<1>7. \A i \in 1 .. m + k : i \in 1 .. m \/ (i - m \in 1 .. k /\ c[i] = b[i - m])
  <2> SUFFICES ASSUME NEW i \in 1 .. m + k, i \notin 1 .. m
               PROVE  i - m \in 1 .. k /\ c[i] = b[i - m]
    OBVIOUS
  <2>1. ~ (i <= m) /\ i - m \in 1 .. k
    BY <1>1
  <2> QED BY <1>3, <2>1
<1>8. Waiting(c) = Waiting(a) \cup Waiting(b)
  <2>1. ASSUME NEW i \in 1 .. m + k PROVE c[i] \in Waiting(a) \cup Waiting(b)
    BY <1>1, <1>5, <1>7 DEF Waiting
  <2>2. ASSUME NEW i \in 1 .. m PROVE a[i] \in Waiting(c)
    <3>1. i \in DOMAIN c /\ c[i] = a[i]
      BY <1>4, <1>5
    <3> QED BY <3>1 DEF Waiting
  <2>3. ASSUME NEW i \in 1 .. k PROVE b[i] \in Waiting(c)
    <3>1. m + i \in DOMAIN c /\ c[m + i] = b[i]
      BY <1>4, <1>6
    <3> QED BY <3>1 DEF Waiting
  <2>4. Waiting(c) = {c[i] : i \in 1 .. m + k}
    BY <1>4 DEF Waiting
  <2>5. Waiting(a) = {a[i] : i \in 1 .. m} /\ Waiting(b) = {b[i] : i \in 1 .. k}
    BY <1>1 DEF Waiting
  <2>6. Waiting(c) \subseteq Waiting(a) \cup Waiting(b)
    BY <2>1, <2>4
  <2>7. Waiting(a) \cup Waiting(b) \subseteq Waiting(c)
    BY <2>2, <2>3, <2>5
  <2> QED BY <2>6, <2>7
<1>9. \A i \in 1 .. m + k : i \in 1 .. m => c[i] \in Waiting(a)
  BY <1>1, <1>5 DEF Waiting
<1>10. \A i \in 1 .. m + k : i \notin 1 .. m => c[i] \in Waiting(b)
  BY <1>1, <1>7 DEF Waiting
<1>11. ASSUME NEW i \in 1 .. m + k, NEW j \in 1 .. m + k, c[i] = c[j] PROVE i = j
  <2>1. CASE i \in 1 .. m /\ j \in 1 .. m
    BY <1>1, <1>5, <1>11, <2>1 DEF Distinct
  <2>2. CASE i \notin 1 .. m /\ j \notin 1 .. m
    <3>1. i - m = j - m
      BY <1>1, <1>7, <1>11, <2>2 DEF Distinct
    <3> QED BY <1>1, <3>1
  <2>3. CASE i \in 1 .. m /\ j \notin 1 .. m
    BY <1>11, <1>9, <1>10, <2>3
  <2>4. CASE i \notin 1 .. m /\ j \in 1 .. m
    BY <1>11, <1>9, <1>10, <2>4
  <2> QED BY <2>1, <2>2, <2>3, <2>4
<1> QED BY <1>4, <1>8, <1>11 DEF Distinct, c

LEMMA AppendDistinct ==
  ASSUME NEW a \in Seq(Node), NEW p \in Node, Distinct(a), p \notin Waiting(a)
  PROVE  Distinct(Append(a, p)) /\ Waiting(Append(a, p)) = Waiting(a) \cup {p}
<1> DEFINE b == <<p>>
<1>1. b \in Seq(Node) /\ Distinct(b) /\ Waiting(b) = {p}
  BY DEF Distinct, Waiting
<1>2. Append(a, p) = a \o b
  OBVIOUS
<1> HIDE DEF b
<1>3. Distinct(a \o b) /\ Waiting(a \o b) = Waiting(a) \cup Waiting(b)
  BY <1>1, JoinDistinct
<1> QED BY <1>1, <1>2, <1>3

(* The queue behind the node the walk stands at.                           *)
LEMMA RestDistinct ==
  ASSUME TypeOK, NEW r \in Rank, HasLive(queue[r]), Distinct(queue[r])
  PROVE  /\ Distinct(Rest(r)) /\ Waiting(Rest(r)) \subseteq Waiting(queue[r])
         /\ At(r) \in Waiting(queue[r]) /\ At(r) \notin Waiting(Rest(r))
<1> DEFINE q == queue[r]
           k == FirstLive(q)
           t == SubSeq(q, k + 1, Len(q))
<1>1. q \in Seq(Node) /\ DOMAIN q = 1 .. Len(q) /\ Len(q) \in Nat
  BY LenProperties DEF TypeOK
<1>2. k \in DOMAIN q
  BY WalkTypes
<1>3. Rest(r) = t /\ At(r) = q[k]
  BY DEF Rest, At
<1>4. Distinct(q)
  OBVIOUS
<1>5. t = [i \in 1 .. Len(q) - k |-> q[i + k]]
  <2> HIDE DEF q, k
  <2>1. k \in Nat /\ k + 1 \in Int /\ Len(q) \in Int /\ k <= Len(q)
    BY <1>1, <1>2
  <2>2. \A i \in (k + 1) .. Len(q) : q[i] \in Node
    BY <1>1, <2>1, ElementOfSeq
  <2>3. t = [i \in 1 .. (Len(q) - (k + 1) + 1) |-> q[i + (k + 1) - 1]]
    BY <2>1, SubSeqProperties
  <2>4. Len(q) - (k + 1) + 1 = Len(q) - k /\ \A i \in Int : i + (k + 1) - 1 = i + k
    BY <2>1
  <2> QED BY <2>3, <2>4
<1> HIDE DEF q, k, t
<1>6. DOMAIN t = 1 .. Len(q) - k /\ k \in Nat
  BY <1>1, <1>2, <1>5
<1>7. \A i \in DOMAIN t : t[i] = q[i + k] /\ i + k \in DOMAIN q /\ i + k # k
  BY <1>1, <1>2, <1>5, <1>6
<1>8. Distinct(t)
  BY <1>4, <1>6, <1>7 DEF Distinct
<1>9. Waiting(t) \subseteq Waiting(q) /\ q[k] \in Waiting(q)
  BY <1>2, <1>7 DEF Waiting
<1>10. q[k] \notin Waiting(t)
  BY <1>2, <1>4, <1>7 DEF Waiting, Distinct
<1> QED BY <1>3, <1>8, <1>9, <1>10 DEF q

LEMMA ChildrenDistinct ==
  ASSUME NEW p \in Node
  PROVE  /\ Distinct(Tree[p].children) /\ Waiting(Tree[p].children) = Children(p)
         /\ Root \notin Children(p)
         /\ \A q \in Node : q # p => Children(p) \cap Children(q) = {}
BY ChildrenAssumption DEF Distinct, Waiting, Children, ToSet

-----------------------------------------------------------------------------
(* What the walk does with its queue.                                      *)

(* It takes a node ...                                                     *)
LEMMA TakeOnce ==
  ASSUME NEW q, NEW t, NEW p, NEW G, NEW V, Once(q, G, {}, V),
         Distinct(t), Waiting(t) \subseteq Waiting(q), p \in Waiting(q), p \notin Waiting(t)
  PROVE  Once(t, G, {p}, V) /\ Once(t, G, {p}, V \cup {p})
BY DEF Once

(* ... puts its children into the queue ...                                *)
LEMMA QueueOnce ==
  ASSUME NEW q \in Seq(Node), NEW p \in Node, NEW G \in SUBSET Node, NEW V,
         Once(q, G, {p}, V)
  PROVE  Once(q \o Tree[p].children, G \cup {p}, {}, V)
<1> DEFINE ch == Tree[p].children
<1>1. ch \in Seq(Node)
  BY NodeFields
<1>2. Distinct(ch) /\ Waiting(ch) = Children(p) /\ Root \notin Children(p)
  BY ChildrenDistinct
<1>3. p \notin G
  BY DEF Once
<1>4. ASSUME NEW c \in Children(p), c \in Waiting(q) \cup G \cup {p} PROVE FALSE
  <2>1. PICK f \in G : c \in Children(f)
    BY <1>2, <1>4 DEF Once
  <2>2. f # p /\ f \in Node
    BY <1>3
  <2> QED BY <2>1, <2>2, ChildrenDistinct
<1> HIDE DEF ch
<1>5. Distinct(q \o ch) /\ Waiting(q \o ch) = Waiting(q) \cup Children(p)
  <2>1. Distinct(q) /\ Waiting(q) \cap Waiting(ch) = {}
    BY <1>2, <1>4 DEF Once
  <2> QED BY <1>1, <1>2, <2>1, JoinDistinct
<1>6. Waiting(q \o ch) \cap (G \cup {p}) = {}
  BY <1>4, <1>5 DEF Once
<1>7. V \subseteq G \cup {p}
  BY DEF Once
<1>8. \A c \in Waiting(q \o ch) \cup (G \cup {p}) :
        c = Root \/ \E f \in G \cup {p} : c \in Children(f)
  BY <1>5 DEF Once
<1> QED BY <1>5, <1>6, <1>7, <1>8 DEF Once, ch

(* ... or puts it back.                                                    *)
LEMMA BackOnce ==
  ASSUME NEW q, NEW t \in Seq(Node), NEW p \in Node, NEW G, NEW V, Once(q, G, {}, V),
         Distinct(t), Waiting(t) \subseteq Waiting(q), p \in Waiting(q), p \notin Waiting(t)
  PROVE  Once(t, G, {}, V) /\ Once(Append(t, p), G, {}, V)
<1>1. Distinct(Append(t, p)) /\ Waiting(Append(t, p)) = Waiting(t) \cup {p}
  BY AppendDistinct
<1> QED BY <1>1 DEF Once

-----------------------------------------------------------------------------
(* The steps.                                                              *)

Move(r) == Step(r) \/ SendBuffered(r) \/ Abort(r)

(* A step of a rank leaves the walks of the others alone.                  *)
LEMMA OtherRanks ==
  ASSUME TypeOK, NEW r \in Rank, Move(r), NEW s \in Rank \ {r}
  PROVE  /\ pc'[s] = pc[s] /\ queue'[s] = queue[s]
         /\ visited'[s] = visited[s] /\ current'[s] = current[s]
<1> USE DEF TypeOK, tree_vars
<1>1. CASE Flash(r) \/ BarrierFirst(r) \/ BarrierOther(r)
  BY <1>1 DEF Flash, BarrierFirst, BarrierOther, StartWalk
<1>2. CASE RecvName(r) \/ RecvDims(r) \/ RecvData(r)
  BY <1>2 DEF RecvName, RecvDims, RecvData, StartWalk
<1>3. CASE NextLevel(r) \/ WalkEnds(r) \/ FrontOfEmpty(r)
  BY <1>3 DEF NextLevel, WalkEnds, FrontOfEmpty
<1>4. CASE PassOn(r) \/ PutBack(r)
  BY <1>4 DEF PassOn, PutBack, PassChildren
<1>5. CASE MissingArgument(r) \/ ReadScores(r)
  BY <1>5 DEF MissingArgument, ReadScores
<1>6. CASE Launch(r)
  <2>1. /\ \E new \in {"walk", "send", "read"} : pc' = [pc EXCEPT ![r] = new]
        /\ visited' = [visited EXCEPT ![r] = @ \cup {At(r)}]
        /\ current' = [current EXCEPT ![r] = At(r)]
    BY <1>6, LaunchControl, LaunchTypes
  <2>2. queue' = queue \/ \E q : queue' = [queue EXCEPT ![r] = q]
    BY <1>6 DEF Launch, PassChildren
  <2> QED BY <2>1, <2>2
<1>7. CASE Send(r) \/ SendToNobody(r)
  BY <1>7 DEF Send, SendToNobody
<1>8. CASE AfterSend(r)
  <2>1. /\ \E new \in {"walk", "send"} : pc' = [pc EXCEPT ![r] = new]
        /\ queue' = queue \/ \E q : queue' = [queue EXCEPT ![r] = q]
        /\ visited' = visited /\ current' = current
    BY <1>8 DEF AfterSend, PassChildren
  <2> QED BY <2>1
<1>9. CASE Abort(r)
  BY <1>9 DEF Abort
<1> QED
  BY <1>1, <1>2, <1>3, <1>4, <1>5, <1>6, <1>7, <1>8, <1>9
  DEF Move, Step, SendMatched, SendBuffered

(* The node the walk stands at was waiting, and waits no more.             *)
LEMMA AtOnce ==
  ASSUME TypeOK, NEW r \in Rank, pc[r] = "walk", WalkOnce(r), HasLive(queue[r])
  PROVE  /\ At(r) \in Node /\ Rest(r) \in Seq(Node)
         /\ Distinct(Rest(r)) /\ Waiting(Rest(r)) \subseteq Waiting(queue[r])
         /\ At(r) \in Waiting(queue[r]) /\ At(r) \notin Waiting(Rest(r))
         /\ \E G \in SUBSET Node : Once(queue[r], G, {}, visited[r])
<1>1. PICK G \in SUBSET Node : Once(queue[r], G, {}, visited[r])
  BY DEF WalkOnce
<1>2. Distinct(queue[r])
  BY <1>1 DEF Once
<1> QED BY <1>1, <1>2, WalkTypes, RestDistinct

LEMMA OnceStep ==
  ASSUME IInv, NEW r \in Rank, WalkOnce(r), Move(r)
  PROVE  WalkOnce(r)'
<1> USE DEF tree_vars
<1>0. /\ TypeOK /\ EarlyFresh
      /\ pc \in [Rank -> States] /\ queue \in [Rank -> Seq(Node)]
      /\ visited \in [Rank -> SUBSET LayerNode] /\ current \in [Rank -> Node]
  BY DEF IInv, TypeOK
<1>1. CASE Flash(r) \/ BarrierOther(r) \/ RecvName(r) \/ RecvDims(r)
  BY <1>0, <1>1 DEF Flash, BarrierOther, RecvName, RecvDims, WalkOnce
<1>2. CASE BarrierFirst(r) \/ RecvData(r)
  <2>1. /\ pc'[r] = "walk" /\ queue'[r] = <<Root>> /\ visited'[r] = {}
    BY <1>0, <1>2 DEF BarrierFirst, RecvData, StartWalk, EarlyFresh, Early
  <2>2. Once(<<Root>>, {}, {}, {})
    BY DEF Once, Distinct, Waiting
  <2> QED BY <2>1, <2>2 DEF WalkOnce
<1>3. CASE NextLevel(r)
  BY <1>0, <1>3 DEF NextLevel, WalkOnce
<1>4. CASE WalkEnds(r) \/ FrontOfEmpty(r) \/ MissingArgument(r) \/ ReadScores(r)
           \/ SendToNobody(r) \/ Abort(r)
  <2>1. pc'[r] \in {"done", "undefined", "failed", "aborted"}
    BY <1>0, <1>4
    DEF WalkEnds, FrontOfEmpty, MissingArgument, ReadScores, SendToNobody, Abort
  <2> QED BY <2>1 DEF WalkOnce
<1>5. CASE PassOn(r)
  <2> DEFINE p == At(r)
             t == Rest(r)
  <2>1. /\ pc[r] = "walk" /\ HasLive(queue[r]) /\ pc' = pc
        /\ visited' = visited /\ queue' = [queue EXCEPT ![r] = t \o Tree[p].children]
    BY <1>5 DEF PassOn, PassChildren, Walking
  <2>2. p \in Node /\ t \in Seq(Node)
    BY <1>0, <2>1, AtOnce
  <2>3. PICK G \in SUBSET Node : Once(queue[r], G, {}, visited[r])
    BY <2>1 DEF WalkOnce
  <2>4. Once(t, G, {p}, visited[r])
    <3>1. /\ Distinct(t) /\ Waiting(t) \subseteq Waiting(queue[r])
          /\ p \in Waiting(queue[r]) /\ p \notin Waiting(t)
      BY <1>0, <2>1, AtOnce
    <3> HIDE DEF p, t
    <3> QED BY <2>3, <3>1, TakeOnce
  <2> HIDE DEF p, t
  <2>5. Once(t \o Tree[p].children, G \cup {p}, {}, visited[r])
    BY <2>2, <2>4, QueueOnce
  <2>6. queue'[r] = t \o Tree[p].children /\ G \cup {p} \in SUBSET Node
    BY <1>0, <2>1, <2>2
  <2> QED BY <2>1, <2>5, <2>6 DEF WalkOnce
<1>6. CASE PutBack(r)
  <2> DEFINE p == At(r)
             t == Rest(r)
  <2>1. /\ pc[r] = "walk" /\ HasLive(queue[r]) /\ pc' = pc
        /\ visited' = visited
        /\ \/ queue' = [queue EXCEPT ![r] = t]
           \/ queue' = [queue EXCEPT ![r] = Append(t, p)]
    BY <1>6 DEF PutBack, PutBackQueue, ToLaunch, Walking
  <2>2. p \in Node /\ t \in Seq(Node)
    BY <1>0, <2>1, AtOnce
  <2>3. PICK G \in SUBSET Node : Once(queue[r], G, {}, visited[r])
    BY <2>1 DEF WalkOnce
  <2>4. /\ Distinct(t) /\ Waiting(t) \subseteq Waiting(queue[r])
        /\ p \in Waiting(queue[r]) /\ p \notin Waiting(t)
    BY <1>0, <2>1, AtOnce
  <2> HIDE DEF p, t
  <2>5. Once(t, G, {}, visited[r]) /\ Once(Append(t, p), G, {}, visited[r])
    BY <2>2, <2>3, <2>4, BackOnce
  <2>6. queue'[r] = t \/ queue'[r] = Append(t, p)
    BY <1>0, <2>1
  <2> QED BY <2>1, <2>5, <2>6 DEF WalkOnce
<1>7. CASE Launch(r)
  <2> DEFINE p == At(r)
             t == Rest(r)
             V == visited[r] \cup {p}
  <2>1. pc[r] = "walk" /\ HasLive(queue[r])
    BY <1>7 DEF Launch, Launchable, ToLaunch, Walking
  <2>2. /\ p \in Node /\ t \in Seq(Node)
        /\ visited'[r] = V /\ current'[r] = p
    BY <1>0, <1>7, <2>1, AtOnce, LaunchTypes
  <2>3. PICK G \in SUBSET Node : Once(queue[r], G, {}, visited[r])
    BY <2>1 DEF WalkOnce
  <2>4. Once(t, G, {p}, V)
    <3>1. /\ Distinct(t) /\ Waiting(t) \subseteq Waiting(queue[r])
          /\ p \in Waiting(queue[r]) /\ p \notin Waiting(t)
      BY <1>0, <2>1, AtOnce
    <3> HIDE DEF p, t
    <3> QED BY <2>3, <3>1, TakeOnce
  <2>5. \/ pc' = [pc EXCEPT ![r] = "send"] /\ queue' = [queue EXCEPT ![r] = t]
        \/ pc' = [pc EXCEPT ![r] = "read"]
        \/ pc' = pc /\ queue' = [queue EXCEPT ![r] = t \o Tree[p].children]
    BY <1>7 DEF Launch, PassChildren
  <2> HIDE DEF p, t, V
  <2>6. Once(t \o Tree[p].children, G \cup {p}, {}, V)
    BY <2>2, <2>4, QueueOnce
  <2>7. CASE pc' = [pc EXCEPT ![r] = "send"] /\ queue' = [queue EXCEPT ![r] = t]
    BY <1>0, <2>2, <2>4, <2>7 DEF WalkOnce
  <2>8. CASE pc' = [pc EXCEPT ![r] = "read"]
    BY <1>0, <2>8 DEF WalkOnce
  <2>9. CASE pc' = pc /\ queue' = [queue EXCEPT ![r] = t \o Tree[p].children]
    <3>1. /\ pc'[r] = "walk" /\ queue'[r] = t \o Tree[p].children
          /\ G \cup {p} \in SUBSET Node
      BY <1>0, <2>1, <2>2, <2>9
    <3> QED BY <2>2, <2>6, <3>1 DEF WalkOnce
  <2> QED BY <2>5, <2>7, <2>8, <2>9
<1>8. CASE Send(r)
  BY <1>0, <1>8 DEF Send, WalkOnce
<1>9. CASE AfterSend(r)
  <2>1. /\ pc[r] = "sending" /\ visited' = visited /\ current' = current
        /\ \/ pc' = [pc EXCEPT ![r] = "send"] /\ queue' = queue
           \/ /\ pc' = [pc EXCEPT ![r] = "walk"]
              /\ queue' = [queue EXCEPT ![r] = queue[r] \o Tree[current[r]].children]
    BY <1>9 DEF AfterSend, PassChildren
  <2>2. PICK G \in SUBSET Node : Once(queue[r], G, {current[r]}, visited[r])
    BY <2>1 DEF WalkOnce
  <2>3. queue[r] \in Seq(Node) /\ current[r] \in Node
    BY <1>0
  <2>4. Once(queue[r] \o Tree[current[r]].children, G \cup {current[r]}, {}, visited[r])
    BY <2>2, <2>3, QueueOnce
  <2>5. CASE pc' = [pc EXCEPT ![r] = "send"] /\ queue' = queue
    BY <1>0, <2>1, <2>2, <2>5 DEF WalkOnce
  <2>6. CASE /\ pc' = [pc EXCEPT ![r] = "walk"]
             /\ queue' = [queue EXCEPT ![r] = queue[r] \o Tree[current[r]].children]
    <3>1. /\ pc'[r] = "walk" /\ queue'[r] = queue[r] \o Tree[current[r]].children
          /\ G \cup {current[r]} \in SUBSET Node
      BY <1>0, <2>3, <2>6
    <3> QED BY <2>1, <2>4, <3>1 DEF WalkOnce
  <2> QED BY <2>1, <2>5, <2>6
<1> QED
  BY <1>1, <1>2, <1>3, <1>4, <1>5, <1>6, <1>7, <1>8, <1>9
  DEF Move, Step, SendMatched, SendBuffered

LEMMA WalksOnceStep ==
  ASSUME IInv, WalksOnce, [Next]_vars
  PROVE  WalksOnce'
<1>1. CASE UNCHANGED vars
  BY <1>1 DEF WalksOnce, WalkOnce, vars, tree_vars
<1>2. ASSUME NEW r \in Rank, Move(r), NEW s \in Rank
      PROVE  WalkOnce(s)'
  <2>1. CASE s = r
    BY <1>2, <2>1, OnceStep DEF WalksOnce
  <2>2. CASE s # r
    <3>1. /\ pc'[s] = pc[s] /\ queue'[s] = queue[s]
          /\ visited'[s] = visited[s] /\ current'[s] = current[s]
      BY <1>2, <2>2, OtherRanks DEF IInv
    <3> QED BY <3>1 DEF WalksOnce, WalkOnce
  <2> QED BY <2>1, <2>2
<1> QED BY <1>1, <1>2 DEF Next, Move, WalksOnce

(* Whatever the tree, the cut and the messages, no layer waits twice in    *)
(* the queue of a rank and none waits after its launch: putting a layer    *)
(* back and passing children on never make the walk run a layer twice.     *)
THEOREM NoNodeTwice == Spec => []QueuedOnce
<1>1. Init => WalksOnce
  BY DEF Init, WalksOnce, WalkOnce
<1>2. IInv /\ WalksOnce /\ [Next]_vars => WalksOnce'
  BY WalksOnceStep
<1>3. WalksOnce => QueuedOnce
  <2> SUFFICES ASSUME WalksOnce, NEW r \in Rank, pc[r] = "walk",
                      NEW j \in DOMAIN queue[r], NEW k \in DOMAIN queue[r],
                      queue[r][j] = queue[r][k]
               PROVE  j = k /\ queue[r][j] \notin visited[r]
    BY DEF QueuedOnce
  <2>1. PICK G : Once(queue[r], G, {}, visited[r])
    BY DEF WalksOnce, WalkOnce
  <2>2. j = k
    BY <2>1 DEF Once, Distinct
  <2>3. queue[r][j] \in Waiting(queue[r])
    BY DEF Waiting
  <2> QED BY <2>1, <2>2, <2>3 DEF Once
<1> QED BY <1>1, <1>2, <1>3, Inductive, PTL DEF Spec
=============================================================================
