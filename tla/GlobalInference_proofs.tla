----------------------- MODULE GlobalInference_proofs -----------------------
(***************************************************************************)
(* The global design computes the network: every kernel runs on the        *)
(* tensors of its layer's inputs, and the ranks together implement module  *)
(* Inference.                                                              *)
(*                                                                         *)
(* The invariant follows a tensor from the kernel that makes it to those   *)
(* that read it: through the buffer and the indices in the tree, or        *)
(* through the messages to the next rank and its first buffer.  The last   *)
(* part is about the walk: when it ends, it has launched every layer of    *)
(* the rank.                                                               *)
(***************************************************************************)
EXTENDS GlobalDesign_proofs, WellFoundedInduction

(* The outputs a rank that has launched V sends.                           *)
Sent(r, V) == {Tree[q].layer : q \in {p \in V : Sends(r, p)}}

(* A launched layer has its output at its index; index 0 is that of others.*)
NodesOK(r) ==
  /\ \A p \in visited[r] :
       /\ p \notin Remote[r] /\ Type[Tree[p].layer] # "Reshape"
       /\ Parents(p) \subseteq visited[r] \cup Remote[r]
       /\ Buffer(r, outBuf[r][p]) = Tree[p].layer
  /\ \A p \in Node \ visited[r] : outBuf[r][p] = 0

(* The first buffer holds the image, or what the rank before has sent.     *)
FirstBufferOK(r) ==
  buffers[r] # <<>> =>
    IF r = 0 THEN Buffer(r, 0) = Image
    ELSE Buffer(r, 0) \in Sent(r - 1, visited[r - 1]) /\ received[r] # NoName

(* The indices a node was given are those of its parent's output.          *)
IndicesOK(r) ==
  /\ \A k \in DOMAIN parentBuf[r][Root] : parentBuf[r][Root][k] = 0
  /\ \A q \in LayerNode : \A c \in Children(q) : \A k \in DOMAIN parentBuf[r][c] :
       Buffer(r, parentBuf[r][c][k]) = Tree[q].layer

(* The children of what was launched or received were given an index.      *)
IndexedOK(r) ==
  buffers[r] # <<>> =>
    /\ parentBuf[r][Root] # <<>>
    /\ \A q \in visited[r] : \A c \in Children(q) : parentBuf[r][c] # <<>>
    /\ r # 0 /\ received[r] # Unknown =>
         \A q \in LayerNode : Sends(r - 1, q) =>
           \A c \in Children(q) : parentBuf[r][c] # <<>>

RankOK(r) == NodesOK(r) /\ FirstBufferOK(r) /\ IndicesOK(r) /\ IndexedOK(r)

Carries(q, S) == \A k \in DOMAIN q : q[k].value \in S

(* The messages of a rank carry the output it sends and its name.          *)
MessagesOK(r) ==
  /\ Carries(channel[r], Sent(r, visited[r]))
  /\ Carries(unsent[r], Sent(r, visited[r]))
  /\ received[r] \notin {NoName, Unknown} =>
       r # 0 /\ received[r] \in Sent(r - 1, visited[r - 1])
  /\ pc[r] \in {"recvDims", "recvData"} => received[r] # NoName

TensorsOK == \A r \in Rank : RankOK(r) /\ MessagesOK(r)

-----------------------------------------------------------------------------
(* What is sent.                                                           *)

LEMMA SentStays ==
  ASSUME NEW r, NEW V, NEW W, V \subseteq W
  PROVE  Sent(r, V) \subseteq Sent(r, W)
BY DEF Sent

LEMMA SentIsOne ==
  ASSUME NEW r \in Rank, NEW V \in SUBSET LayerNode, NEW t \in Sent(r, V)
  PROVE  /\ \E q \in V : Sends(r, q) /\ t = Tree[q].layer
         /\ \A q \in LayerNode : Sends(r, q) => t = Tree[q].layer /\ q \in V
BY CutAssumption DEF Sent

(* A layer's parents are layers.                                           *)
LEMMA ParentsAreLayers ==
  ASSUME NEW p \in LayerNode
  PROVE  /\ Parents(p) \subseteq LayerNode
         /\ Tree[p].parents \in Seq(Node)
         /\ \A k \in DOMAIN Tree[p].parents : Tree[p].parents[k] \in Parents(p)
<1>1. p \in Node
  BY DEF LayerNode
<1> QED BY <1>1, NodeFields, TreeAssumption DEF Parents, ToSet

(* The tensors of the parents of a layer about to be launched.             *)
LEMMA ParentsTensors ==
  ASSUME IInv, TensorsOK, NEW r \in Rank, Launch(r), NEW q \in Parents(At(r))
  PROVE  Buffer(r, outBuf[r][q]) = Tree[q].layer /\ q \in visited[r] \cup Remote[r]
<1> DEFINE p == At(r)
<1>0. /\ TypeOK /\ visited[r] \in SUBSET LayerNode /\ RankOK(r)
  BY DEF IInv, TypeOK, TensorsOK
<1>1. /\ pc[r] = "walk" /\ Ready(r, p) /\ p \notin Remote[r]
      /\ Type[Tree[p].layer] # "Reshape"
  BY DEF Launch, Launchable, ToLaunch, Walking
<1>2. p \in LayerNode
  BY <1>0, LaunchTypes
<1>3. q \in LayerNode /\ q \in Node
  BY <1>2, ParentsAreLayers DEF LayerNode
<1>4. q \in visited[r] \cup Remote[r]
  BY <1>1 DEF Ready
<1> HIDE DEF p
<1>5. CASE q \in visited[r]
  BY <1>0, <1>5 DEF RankOK, NodesOK
<1>6. CASE q \notin visited[r]
  <2>1. outBuf[r][q] = 0
    BY <1>0, <1>3, <1>6 DEF RankOK, NodesOK
  <2>2. r - 1 \in Rank /\ Sends(r - 1, q)
    <3>1. q \in Parents(p) \cap Remote[r]
      BY <1>4, <1>6 DEF p
    <3> QED BY <1>1, <1>2, <3>1, CutAssumption
  <2>3. buffers[r] # <<>>
    <3>1. outBuf[r][q] < Len(buffers[r])
      BY <1>1, <1>3 DEF IInv, BuffersCreated, Created
    <3> QED BY <2>1, <3>1
  <2>4. r # 0
    BY <2>2 DEF Rank
  <2>5. Buffer(r, 0) \in Sent(r - 1, visited[r - 1])
    BY <1>0, <2>3, <2>4 DEF RankOK, FirstBufferOK
  <2>6. visited[r - 1] \in SUBSET LayerNode
    BY <1>0, <2>2 DEF TypeOK
  <2>7. Buffer(r, 0) = Tree[q].layer
    BY <1>3, <2>2, <2>5, <2>6, SentIsOne
  <2> QED BY <1>4, <2>1, <2>7
<1> QED BY <1>4, <1>5, <1>6

(* A kernel is given what it should be given.                              *)
LEMMA LaunchArguments ==
  ASSUME IInv, TensorsOK, NEW r \in Rank, Launch(r)
  PROVE  [k \in 1 .. Arity(Tree[At(r)].layer) |-> Argument(r, At(r), k)] = Feed(At(r))
<1> DEFINE p == At(r)
           l == Tree[p].layer
<1>0. TypeOK /\ RankOK(r) /\ r \in Rank
  BY DEF IInv, TensorsOK
<1>1. /\ pc[r] = "walk" /\ p \notin Remote[r] /\ Type[l] # "Reshape" /\ HasArguments(r, p)
  BY DEF Launch, Launchable, ToLaunch, Walking
<1>2. p \in LayerNode /\ p \in Node
  BY <1>0, LaunchTypes DEF LayerNode
<1>3. ASSUME NEW k \in 1 .. Arity(l), ByParents(l)
      PROVE  p # Root /\ Argument(r, p, k) = Tree[Tree[p].parents[k]].layer
  <2>1. p # Root /\ Arity(l) <= Len(Tree[p].parents)
    BY <1>1, <1>2, <1>3, InputsAssumption
  <2>2. Tree[p].parents \in Seq(Node)
    BY <1>2, NodeFields
  <2>3. k \in DOMAIN Tree[p].parents
    <3>1. Arity(l) \in Nat
      BY DEF Arity
    <3>2. Len(Tree[p].parents) \in Nat /\ DOMAIN Tree[p].parents = 1 .. Len(Tree[p].parents)
      BY <2>2, LenProperties
    <3> HIDE DEF l, p
    <3> QED BY <2>1, <3>1, <3>2
  <2>4. Tree[p].parents[k] \in Parents(p)
    BY <1>2, <2>3, ParentsAreLayers
  <2>5. Buffer(r, outBuf[r][Tree[p].parents[k]]) = Tree[Tree[p].parents[k]].layer
    BY <2>4, ParentsTensors
  <2> QED BY <1>3, <2>1, <2>5 DEF Argument
<1>4. ASSUME ~ ByParents(l)
      PROVE  /\ Arity(l) = 1 /\ 1 \in DOMAIN parentBuf[r][p]
             /\ \A k \in 1 .. 1 : Argument(r, p, k) = Buffer(r, parentBuf[r][p][1])
  <2>1. Arity(l) = 1
    BY <1>4 DEF Arity, ByParents
  <2>2. parentBuf[r][p] \in Seq(Nat)
    BY <1>0, <1>2 DEF TypeOK
  <2>3. 1 <= Len(parentBuf[r][p])
    BY <1>1, <1>4, <2>1 DEF HasArguments
  <2>4. 1 \in DOMAIN parentBuf[r][p]
    <3>1. Len(parentBuf[r][p]) \in Nat /\ DOMAIN parentBuf[r][p] = 1 .. Len(parentBuf[r][p])
      BY <2>2, LenProperties
    <3> QED BY <2>3, <3>1
  <2> QED BY <1>4, <2>1, <2>4 DEF Argument
<1>5. CASE ByParents(l)
  <2>1. \A k \in 1 .. Arity(l) : Argument(r, p, k) = Tree[Tree[p].parents[k]].layer
    BY <1>3, <1>5
  <2>2. p # Root
    BY <1>1, <1>2, <1>5, InputsAssumption
  <2> HIDE DEF p
  <2> QED BY <2>1, <2>2 DEF Feed, p
<1>6. CASE ~ ByParents(l) /\ p = Root
  <2>1. parentBuf[r][p][1] = 0
    BY <1>0, <1>4, <1>6 DEF RankOK, IndicesOK
  <2>2. r = 0
    BY <1>1, <1>6, CutAssumption
  <2>3. buffers[r] # <<>>
    <3>1. outBuf[r][p] < Len(buffers[r]) /\ outBuf[r][p] \in Nat
      BY <1>0, <1>1, <1>2 DEF IInv, BuffersCreated, Created, TypeOK
    <3>2. Len(<<>>) = 0
      OBVIOUS
    <3> QED BY <3>1, <3>2
  <2>4. Buffer(r, 0) = Image
    BY <1>0, <2>2, <2>3 DEF RankOK, FirstBufferOK
  <2>5. \A k \in 1 .. 1 : Argument(r, p, k) = Image
    BY <1>4, <1>6, <2>1, <2>4
  <2>6. Arity(l) = 1 /\ Feed(p) = <<Image>>
    BY <1>4, <1>6 DEF Feed
  <2> HIDE DEF p, l
  <2> QED BY <2>5, <2>6 DEF p, l
<1>7. CASE ~ ByParents(l) /\ p # Root
  <2>1. PICK q \in LayerNode : Tree[p].parents = <<q>> /\ p \in Children(q)
    BY <1>1, <1>2, <1>7, InputsAssumption
  <2>2. Buffer(r, parentBuf[r][p][1]) = Tree[q].layer
    BY <1>0, <1>4, <1>7, <2>1 DEF RankOK, IndicesOK
  <2>3. Tree[p].parents[1] = q
    BY <2>1
  <2>4. \A k \in 1 .. 1 : Argument(r, p, k) = Tree[Tree[p].parents[k]].layer
    BY <1>4, <1>7, <2>2, <2>3
  <2>5. Arity(l) = 1
    BY <1>4, <1>7
  <2> HIDE DEF p
  <2> QED BY <1>7, <2>4, <2>5 DEF Feed, p
<1> QED BY <1>5, <1>6, <1>7

(* So its output is what its layer ought to produce, in a new buffer.      *)
LEMMA LaunchOutput ==
  ASSUME IInv, TensorsOK, NEW r \in Rank, Launch(r)
  PROVE  /\ \E out \in Nat :
              /\ buffers'[r][out + 1] = Tree[At(r)].layer
              /\ outBuf'[r] = [outBuf[r] EXCEPT ![At(r)] = out]
              /\ parentBuf'[r] = [c \in Node |-> IF c \in Children(At(r))
                                                 THEN Append(parentBuf[r][c], out)
                                                 ELSE parentBuf[r][c]]
         /\ buffers'[r] # <<>>
         /\ \A i \in Nat : i < Len(buffers[r]) => buffers'[r][i + 1] = buffers[r][i + 1]
         /\ \/ unsent' = unsent
            \/ /\ Sends(r, At(r))
               /\ unsent' = [unsent EXCEPT ![r] = Messages(Tree[At(r)].layer, Tree[At(r)].layer)]
<1> DEFINE p   == At(r)
           l   == Tree[p].layer
           out == Len(buffers[r]) + OutSlot(l)
           arg == [k \in 1 .. Arity(l) |-> Argument(r, p, k)]
           new == NewBuffers(l, Kernel(l, arg))
<1>0. TypeOK
  BY DEF IInv
<1>1. p \in LayerNode /\ p \in Node /\ l \in Layer
  BY <1>0, LaunchTypes, TreeAssumption DEF LayerNode
<1>2. Type[l] # "Reshape"
  BY DEF Launch, Launchable
<1>3. Kernel(l, arg) = l /\ l \in Tensor
  BY <1>1, <1>2, LaunchArguments, InputsAssumption DEF Tensor
<1>4. /\ outBuf' = [outBuf EXCEPT ![r][p] = out]
      /\ parentBuf' = [parentBuf EXCEPT ![r] =
           [c \in Node |-> IF c \in Children(p)
                           THEN Append(@[c], out) ELSE @[c]]]
      /\ buffers' = [buffers EXCEPT ![r] = @ \o new]
      /\ \/ unsent' = unsent
         \/ Sends(r, p) /\ unsent' = [unsent EXCEPT ![r] = Messages(l, Kernel(l, arg))]
  BY DEF Launch
<1>5. /\ new \in Seq(Entry) /\ Len(new) \in 1 .. 5
      /\ OutSlot(l) \in 0 .. Len(new) - 1 /\ new[OutSlot(l) + 1] = l
  <2> HIDE DEF l, arg
  <2> QED BY <1>1, <1>3, NewBuffersFacts
<1> DEFINE old == buffers[r]
           j   == OutSlot(l)
<1>6. old \in Seq(Entry) /\ Len(old) \in Nat
  BY <1>0, LenProperties DEF TypeOK, Entry
<1>7. out \in Nat /\ out = Len(old) + j
  BY <1>5, <1>6
<1>8. buffers'[r] = old \o new
  BY <1>0, <1>4 DEF TypeOK
<1> HIDE DEF new, arg, l, p, j
<1>9. /\ Len(old \o new) = Len(old) + Len(new)
      /\ (old \o new)[Len(old) + j + 1] = l
      /\ \A i \in Nat : i < Len(old) => (old \o new)[i + 1] = old[i + 1]
  <2>1. /\ Len(new) \in 1 .. 5 /\ j \in 0 .. Len(new) - 1
        /\ new[j + 1] = l /\ new[j + 1] \in Tensor
    BY <1>3, <1>5 DEF j, l
  <2> HIDE DEF old
  <2> QED BY <1>5, <1>6, <2>1, AppendBuffers
<1>10. buffers'[r][out + 1] = l
  BY <1>7, <1>8, <1>9
<1>11. ASSUME NEW i \in Nat, i < Len(old)
       PROVE  buffers'[r][i + 1] = old[i + 1]
  BY <1>8, <1>9, <1>11
<1>12. buffers'[r] # <<>>
  <2>1. Len(old \o new) # 0
    BY <1>5, <1>6, <1>9
  <2> QED BY <1>8, <2>1
<1>13. /\ outBuf'[r] = [outBuf[r] EXCEPT ![p] = out]
       /\ parentBuf'[r] = [c \in Node |-> IF c \in Children(p)
                                          THEN Append(parentBuf[r][c], out)
                                          ELSE parentBuf[r][c]]
  <2> HIDE DEF out
  <2> QED BY <1>0, <1>4 DEF TypeOK
<1> QED BY <1>3, <1>4, <1>7, <1>10, <1>11, <1>12, <1>13 DEF l, p

-----------------------------------------------------------------------------
(* What a step of one rank leaves to the others.                           *)

LEMMA OtherTrees ==
  ASSUME TypeOK, NEW r \in Rank, Move(r), NEW s \in Rank \ {r}
  PROVE  /\ outBuf'[s] = outBuf[s] /\ parentBuf'[s] = parentBuf[s]
         /\ buffers'[s] = buffers[s] /\ received'[s] = received[s]
         /\ result'[s] = result[s] /\ unsent'[s] = unsent[s]
<1> USE DEF TypeOK, tree_vars
<1>1. CASE Flash(r) \/ BarrierFirst(r) \/ BarrierOther(r)
  BY <1>1 DEF Flash, BarrierFirst, BarrierOther, StartWalk
<1>2. CASE RecvName(r) \/ RecvDims(r) \/ RecvData(r)
  BY <1>2 DEF RecvName, RecvDims, RecvData, StartWalk
<1>3. CASE NextLevel(r) \/ WalkEnds(r) \/ FrontOfEmpty(r)
  BY <1>3 DEF NextLevel, WalkEnds, FrontOfEmpty
<1>4. CASE PassOn(r) \/ PutBack(r)
  BY <1>4 DEF PassOn, PutBack
<1>5. CASE MissingArgument(r) \/ ReadScores(r)
  BY <1>5 DEF MissingArgument, ReadScores
<1>6. CASE Launch(r)
  <2> HIDE DEF TypeOK
  <2>1. PICK out \in Nat :
          /\ Len(buffers[r]) <= out /\ out < Len(buffers'[r])
          /\ buffers'[r][out + 1] \in Tensor
          /\ outBuf' = [outBuf EXCEPT ![r][At(r)] = out]
          /\ parentBuf' = [parentBuf EXCEPT ![r] =
               [c \in Node |-> IF c \in Children(At(r))
                               THEN Append(@[c], out) ELSE @[c]]]
    BY <1>6, LaunchTypes
  <2>2. \A q \in Rank \ {r} : buffers'[q] = buffers[q]
    BY <1>6, LaunchTypes
  <2>3. /\ \/ \E l \in Layer, t \in Tensor : unsent' = [unsent EXCEPT ![r] = Messages(l, t)]
           \/ unsent' = unsent
        /\ UNCHANGED <<received, result>>
    BY <1>6, LaunchControl
  <2> QED BY <2>1, <2>2, <2>3 DEF TypeOK
<1>7. CASE Send(r) \/ SendToNobody(r)
  BY <1>7 DEF Send, SendToNobody
<1>8. CASE AfterSend(r)
  BY <1>8 DEF AfterSend
<1>9. CASE Abort(r)
  BY <1>9 DEF Abort
<1> QED
  BY <1>1, <1>2, <1>3, <1>4, <1>5, <1>6, <1>7, <1>8, <1>9
  DEF Move, Step, SendMatched, SendBuffered

(* The steps that leave the tree of their rank as it is, and what it has.  *)
Still(r) ==
  /\ UNCHANGED <<tree_vars, unsent, channel, received>>
  /\ pc'[r] \in {"recvDims", "recvData"} => pc[r] \in {"recvDims", "recvData"}

LEMMA MoveCases ==
  ASSUME TypeOK, NEW r \in Rank, Move(r)
  PROVE  \/ Still(r) \/ BarrierFirst(r) \/ RecvName(r) \/ RecvDims(r)
         \/ RecvData(r) \/ Launch(r) \/ Send(r)
<1> USE DEF TypeOK, Still
<1>1. CASE Flash(r) \/ BarrierOther(r)
  BY <1>1 DEF Flash, BarrierOther
<1>2. CASE NextLevel(r) \/ WalkEnds(r) \/ FrontOfEmpty(r)
  BY <1>2 DEF NextLevel, WalkEnds, FrontOfEmpty
<1>3. CASE PassOn(r) \/ PutBack(r)
  BY <1>3 DEF PassOn, PutBack
<1>4. CASE MissingArgument(r) \/ ReadScores(r) \/ SendToNobody(r)
  BY <1>4 DEF MissingArgument, ReadScores, SendToNobody
<1>5. CASE AfterSend(r)
  BY <1>5 DEF AfterSend
<1>6. CASE Abort(r)
  BY <1>6 DEF Abort
<1> QED
  BY <1>1, <1>2, <1>3, <1>4, <1>5, <1>6
  DEF Move, Step, SendMatched, SendBuffered

(* Nobody forgets what it has launched.                                    *)
LEMMA VisitedGrow ==
  ASSUME TypeOK, NEW r \in Rank, Move(r), NEW s \in Rank
  PROVE  visited[s] \subseteq visited'[s]
<1>1. CASE s # r
  BY <1>1, OtherRanks
<1>2. CASE s = r
  <2>1. CASE Launch(r)
    BY <1>2, <2>1, LaunchTypes, SMTT(30) DEF TypeOK
  <2>2. CASE ~ Launch(r)
    BY <2>2, MoveCases
    DEF Still, tree_vars, BarrierFirst, RecvName, RecvDims, RecvData, Send
  <2> QED BY <2>1, <2>2
<1> QED BY <1>1, <1>2

-----------------------------------------------------------------------------
(* The tree of a rank.                                                     *)

(* It is not disturbed by steps that leave it alone.                       *)
LEMMA RankStays ==
  ASSUME NEW r \in Rank, RankOK(r), r # 0 => visited[r - 1] \subseteq visited'[r - 1],
         visited'[r] = visited[r], outBuf'[r] = outBuf[r],
         parentBuf'[r] = parentBuf[r], buffers'[r] = buffers[r],
         buffers[r] # <<>> => received'[r] = received[r]
  PROVE  RankOK(r)'
<1>1. NodesOK(r)'
  BY DEF RankOK, NodesOK, Buffer
<1>2. FirstBufferOK(r)'
  <2>1. r # 0 => Sent(r - 1, visited[r - 1]) \subseteq Sent(r - 1, visited'[r - 1])
    BY SentStays
  <2> QED BY <2>1 DEF RankOK, FirstBufferOK, Buffer
<1>3. IndicesOK(r)'
  BY DEF RankOK, IndicesOK, Buffer
<1>4. IndexedOK(r)'
  BY DEF RankOK, IndexedOK
<1> QED BY <1>1, <1>2, <1>3, <1>4 DEF RankOK

(* The image, or the data received, comes into the first buffer, and its   *)
(* index to the nodes that are to read it.                                 *)
LEMMA RankStarts ==
  ASSUME IInv, TensorsOK, NEW r \in Rank, BarrierFirst(r) \/ RecvData(r)
  PROVE  RankOK(r)'
<1>0. TypeOK /\ MessagesOK(r) /\ pc[r] \in Early
  BY DEF IInv, TensorsOK, BarrierFirst, RecvData, Early
<1>1. /\ visited[r] = {}
      /\ \A p \in Node : outBuf[r][p] = 0 /\ parentBuf[r][p] = <<>>
  BY <1>0 DEF IInv, EarlyFresh
<1>2. /\ visited' = visited /\ outBuf' = outBuf /\ received' = received
      /\ \E t : buffers' = [buffers EXCEPT ![r] = <<t>>]
  BY DEF BarrierFirst, RecvData
<1>3. buffers'[r] # <<>> /\ Root \in Node
  BY <1>0, <1>2, TreeAssumption DEF TypeOK, LayerNode
<1>4. NodesOK(r)'
  BY <1>1, <1>2 DEF NodesOK
<1>5. CASE BarrierFirst(r)
  <2>1. /\ r = 0 /\ buffers'[r] = <<Image>>
        /\ parentBuf'[r] = [parentBuf[r] EXCEPT ![Root] = Append(@, 0)]
    BY <1>0, <1>5 DEF BarrierFirst, TypeOK
  <2>2. /\ parentBuf'[r][Root] = <<0>>
        /\ \A p \in Node \ {Root} : parentBuf'[r][p] = <<>>
    <3>1. parentBuf[r][Root] = <<>> /\ Append(<<>>, 0) = <<0>>
      BY <1>1, <1>3
    <3>2. parentBuf[r] \in [Node -> Seq(Nat)]
      BY <1>0 DEF TypeOK
    <3> QED BY <1>1, <1>3, <2>1, <3>1, <3>2
  <2>3. FirstBufferOK(r)'
    BY <2>1 DEF FirstBufferOK, Buffer
  <2>4. \A q \in LayerNode : Children(q) \subseteq Node \ {Root}
    BY NodeFields, ChildrenDistinct DEF LayerNode, Children, ToSet
  <2>5. IndicesOK(r)'
    BY <2>2, <2>4 DEF IndicesOK
  <2>6. IndexedOK(r)'
    <3>1. parentBuf'[r][Root] # <<>>
      BY <2>2
    <3> QED BY <1>1, <1>2, <2>1, <3>1 DEF IndexedOK
  <2> QED BY <1>4, <2>3, <2>5, <2>6 DEF RankOK
<1>6. CASE RecvData(r)
  <2> DEFINE m == Head(channel[r - 1]).value
             S == NamedChildren(received[r]) \cup {Root}
  <2>1. /\ pc[r] = "recvData" /\ channel[r - 1] # <<>>
        /\ buffers'[r] = <<m>>
        /\ parentBuf'[r] = [p \in Node |-> IF p \in S THEN Append(parentBuf[r][p], 0)
                                         ELSE parentBuf[r][p]]
    BY <1>0, <1>6 DEF RecvData, TypeOK
  <2>2. \A p \in Node : parentBuf'[r][p] = IF p \in S THEN <<0>> ELSE <<>>
    <3>1. Append(<<>>, 0) = <<0>>
      OBVIOUS
    <3> HIDE DEF S
    <3> QED BY <1>1, <2>1, <3>1
  <2>3. r # 0 /\ r - 1 \in Rank /\ received[r] # NoName
    <3>1. r # 0
      BY <2>1 DEF IInv, ReceiversOK
    <3>2. r - 1 \in Rank
      BY <3>1, RankAssumption DEF Rank
    <3> QED BY <1>0, <2>1, <3>1, <3>2 DEF MessagesOK
  <2>4. m \in Sent(r - 1, visited[r - 1])
    <3>1. 1 \in DOMAIN channel[r - 1] /\ Head(channel[r - 1]) = channel[r - 1][1]
      <4>1. channel[r - 1] \in Seq(Message)
        BY <1>0, <2>3 DEF TypeOK
      <4> QED BY <2>1, <4>1
    <3>2. MessagesOK(r - 1)
      BY <2>3 DEF TensorsOK
    <3> QED BY <3>1, <3>2 DEF MessagesOK, Carries
  <2>5. visited[r - 1] \in SUBSET LayerNode
    BY <1>0, <2>3 DEF TypeOK
  <2>6. \A q \in LayerNode : Sends(r - 1, q) =>
            m = Tree[q].layer /\ received[r] \in {Tree[q].layer, Unknown}
    <3>1. received[r] \in Sent(r - 1, visited[r - 1]) \/ received[r] = Unknown
      BY <1>0, <2>3 DEF MessagesOK
    <3> HIDE DEF m
    <3> QED BY <2>3, <2>4, <2>5, <3>1, SentIsOne
  <2> HIDE DEF m
  <2>7. FirstBufferOK(r)'
    <3>1. Buffer(r, 0)' = m
      BY <2>1 DEF Buffer
    <3> QED BY <1>2, <2>3, <2>4, <3>1 DEF FirstBufferOK
  <2>8. ASSUME NEW q \in LayerNode, NEW c \in Children(q), c \in S
        PROVE  m = Tree[q].layer
    <3>1. c # Root /\ q \in Node
      BY ChildrenDistinct DEF LayerNode
    <3>2. PICK p \in LayerNode : Tree[p].layer = received[r] /\ c \in Children(p)
      BY <2>8, <3>1 DEF NamedChildren
    <3>3. p = q
      BY <3>1, <3>2, ChildrenDistinct DEF LayerNode
    <3>4. received[r] \in Layer /\ received[r] # Unknown
      BY <3>2, TreeAssumption, NameAssumption
    <3>5. received[r] \in Sent(r - 1, visited[r - 1])
      BY <1>0, <2>3, <3>4 DEF MessagesOK
    <3>6. PICK s \in visited[r - 1] : Sends(r - 1, s) /\ received[r] = Tree[s].layer
      BY <2>3, <2>5, <3>5, SentIsOne
    <3>7. s = p /\ s \in LayerNode
      BY <2>5, <3>2, <3>6, InputsAssumption
    <3> QED BY <2>6, <3>3, <3>6, <3>7
  <2>9. IndicesOK(r)'
    <3>1. \A k \in DOMAIN parentBuf'[r][Root] : parentBuf'[r][Root][k] = 0
      BY <1>3, <2>2
    <3>2. ASSUME NEW q \in LayerNode, NEW c \in Children(q),
                 NEW k \in DOMAIN parentBuf'[r][c]
          PROVE  Buffer(r, parentBuf[r][c][k])' = Tree[q].layer
      <4>1. c \in Node
        BY NodeFields DEF LayerNode, Children, ToSet
      <4>2. c \in S /\ parentBuf'[r][c] = <<0>>
        BY <2>2, <3>2, <4>1
      <4>3. k = 1 /\ parentBuf'[r][c][k] = 0
        BY <3>2, <4>2
      <4>4. buffers'[r][0 + 1] = m
        BY <2>1
      <4> QED BY <2>8, <4>2, <4>3, <4>4 DEF Buffer
    <3> QED BY <3>1, <3>2 DEF IndicesOK
  <2>10. IndexedOK(r)'
    <3>1. parentBuf'[r][Root] # <<>>
      <4>1. Root \in S /\ <<0>> # <<>>
        OBVIOUS
      <4> HIDE DEF S
      <4> QED BY <1>3, <2>2, <4>1, SMTT(30)
    <3>2. ASSUME received[r] # Unknown, NEW q \in LayerNode, Sends(r - 1, q),
                 NEW c \in Children(q)
          PROVE  parentBuf'[r][c] # <<>>
      <4>1. c \in S
        BY <2>6, <3>2 DEF NamedChildren
      <4>2. c \in Node
        BY NodeFields DEF LayerNode, Children, ToSet
      <4> QED BY <2>2, <4>1, <4>2
    <3> QED BY <1>1, <1>2, <3>1, <3>2 DEF IndexedOK
  <2> QED BY <1>4, <2>7, <2>9, <2>10 DEF RankOK
<1> QED BY <1>5, <1>6

(* A launch leaves its output in a new buffer, and its index below it.     *)
LEMMA RankLaunches ==
  ASSUME IInv, TensorsOK, NEW r \in Rank, Launch(r)
  PROVE  RankOK(r)'
<1> DEFINE p == At(r)
           old == buffers[r]
<1>0. TypeOK /\ RankOK(r) /\ pc[r] = "walk"
  BY SMTT(30) DEF IInv, TensorsOK, Launch, Launchable, ToLaunch, Walking
<1>1. /\ p \in LayerNode /\ p \in Node /\ p \notin visited[r] /\ p \notin Remote[r]
      /\ Type[Tree[p].layer] # "Reshape"
      /\ visited' = [visited EXCEPT ![r] = @ \cup {p}]
      /\ UNCHANGED received
  BY <1>0, LaunchTypes, LaunchControl DEF LayerNode, Launch, Launchable, ToLaunch
<1>2. PICK out \in Nat :
        /\ buffers'[r][out + 1] = Tree[p].layer
        /\ outBuf'[r] = [outBuf[r] EXCEPT ![p] = out]
        /\ parentBuf'[r] = [c \in Node |-> IF c \in Children(p)
                                           THEN Append(parentBuf[r][c], out)
                                           ELSE parentBuf[r][c]]
  BY LaunchOutput
<1>3. \A i \in Nat : i < Len(old) => buffers'[r][i + 1] = old[i + 1]
  BY LaunchOutput
<1>4. \A q \in Parents(p) : q \in visited[r] \cup Remote[r]
  BY ParentsTensors
<1>5. \A q \in Node : /\ outBuf[r][q] \in Nat /\ outBuf[r][q] < Len(old)
                      /\ parentBuf[r][q] \in Seq(Nat)
                      /\ \A k \in DOMAIN parentBuf[r][q] : parentBuf[r][q][k] < Len(old)
  BY <1>0 DEF IInv, TypeOK, BuffersCreated, Created
<1>6. /\ visited'[r] = visited[r] \cup {p}
      /\ \A s \in Rank \ {r} : visited'[s] = visited[s]
      /\ visited[r] \subseteq Node
      /\ outBuf[r] \in [Node -> Nat]
  BY <1>0, <1>1 DEF TypeOK, LayerNode
<1>7. \A q \in LayerNode : Children(q) \subseteq Node \ {Root}
  BY NodeFields, ChildrenDistinct DEF LayerNode, Children, ToSet
<1> HIDE DEF p
<1>8. NodesOK(r)'
  <2>1. ASSUME NEW q \in visited[r]
        PROVE  Buffer(r, outBuf[r][q])' = Tree[q].layer
    <3>1. outBuf'[r][q] = outBuf[r][q]
      BY <1>1, <1>2, <1>6
    <3>2. buffers'[r][outBuf[r][q] + 1] = old[outBuf[r][q] + 1]
      BY <1>3, <1>5, <1>6
    <3>3. old[outBuf[r][q] + 1] = Tree[q].layer
      BY <1>0 DEF RankOK, NodesOK, Buffer
    <3> QED BY <3>1, <3>2, <3>3 DEF Buffer
  <2>2. buffers'[r][outBuf'[r][p] + 1] = Tree[p].layer
    <3>1. outBuf'[r][p] = out
      BY <1>1, <1>2, <1>6
    <3> QED BY <1>2, <3>1
  <2>3. \A q \in Node \ visited'[r] : outBuf'[r][q] = 0
    BY <1>0, <1>1, <1>2, <1>6 DEF RankOK, NodesOK
  <2>4. \A q \in visited'[r] :
          /\ q \notin Remote[r] /\ Type[Tree[q].layer] # "Reshape"
          /\ Parents(q) \subseteq visited'[r] \cup Remote[r]
    <3>1. \A q \in visited[r] :
            /\ q \notin Remote[r] /\ Type[Tree[q].layer] # "Reshape"
            /\ Parents(q) \subseteq visited[r] \cup Remote[r]
      BY <1>0 DEF RankOK, NodesOK
    <3> QED BY <1>1, <1>4, <1>6, <3>1
  <2>5. \A q \in visited'[r] : buffers'[r][outBuf'[r][q] + 1] = Tree[q].layer
    BY <1>6, <2>1, <2>2 DEF Buffer
  <2> QED BY <2>3, <2>4, <2>5 DEF NodesOK, Buffer
<1>9. FirstBufferOK(r)'
  <2>1. 0 < Len(old) /\ old # <<>>
    <3>1. 0 < Len(old)
      BY <1>1, <1>5
    <3> QED BY <3>1
  <2>2. Buffer(r, 0)' = Buffer(r, 0)
    BY <1>3, <2>1 DEF Buffer
  <2>3. CASE r = 0
    BY <1>0, <2>1, <2>2, <2>3 DEF RankOK, FirstBufferOK
  <2>4. CASE r # 0
    <3>1. r - 1 \in Rank \ {r}
      BY <2>4, RankAssumption DEF Rank
    <3>2. visited'[r - 1] = visited[r - 1]
      BY <1>6, <3>1
    <3> QED BY <1>0, <1>1, <2>1, <2>2, <2>4, <3>2 DEF RankOK, FirstBufferOK
  <2> QED BY <2>3, <2>4
<1>10. IndicesOK(r)'
  <2>1. Root \in Node /\ Root \notin Children(p)
    BY <1>1, <1>7, TreeAssumption DEF LayerNode
  <2>2. \A k \in DOMAIN parentBuf'[r][Root] : parentBuf'[r][Root][k] = 0
    BY <1>0, <1>2, <2>1 DEF RankOK, IndicesOK
  <2>3. ASSUME NEW q \in LayerNode, NEW c \in Children(q), NEW k \in DOMAIN parentBuf[r][c]
        PROVE  buffers'[r][parentBuf[r][c][k] + 1] = Tree[q].layer
    <3>1. /\ c \in Node /\ parentBuf[r][c][k] < Len(old)
          /\ parentBuf[r][c][k] \in Nat
      <4>1. c \in Node
        BY <1>7
      <4> QED BY <1>5, <4>1
    <3>2. buffers'[r][parentBuf[r][c][k] + 1] = old[parentBuf[r][c][k] + 1]
      BY <1>3, <3>1
    <3> QED BY <1>0, <3>2 DEF RankOK, IndicesOK, Buffer
  <2>4. ASSUME NEW q \in LayerNode, NEW c \in Children(q), NEW k \in DOMAIN parentBuf'[r][c]
        PROVE  Buffer(r, parentBuf[r][c][k])' = Tree[q].layer
    <3>1. c \in Node /\ q \in Node
      BY <1>7 DEF LayerNode
    <3>2. CASE c \notin Children(p)
      BY <1>2, <2>3, <2>4, <3>1, <3>2 DEF Buffer
    <3>3. CASE c \in Children(p)
      <4>1. q = p
        BY <1>1, <3>1, <3>3, ChildrenDistinct
      <4> DEFINE s == parentBuf[r][c]
      <4>2. parentBuf'[r][c] = Append(s, out) /\ s \in Seq(Nat)
        BY <1>2, <1>5, <3>1, <3>3
      <4>3. (k \in DOMAIN s /\ Append(s, out)[k] = s[k]) \/ Append(s, out)[k] = out
        <5>1. k \in DOMAIN Append(s, out)
          BY <2>4, <4>2
        <5> HIDE DEF s
        <5> QED BY <4>2, <5>1
      <4>4. CASE k \in DOMAIN s /\ Append(s, out)[k] = s[k]
        BY <2>3, <4>2, <4>4 DEF Buffer
      <4>5. CASE Append(s, out)[k] = out
        BY <1>2, <4>1, <4>2, <4>5 DEF Buffer
      <4> QED BY <4>3, <4>4, <4>5
    <3> QED BY <3>2, <3>3
  <2> QED BY <2>2, <2>4 DEF IndicesOK
<1>11. IndexedOK(r)'
  <2>1. old # <<>>
    <3>1. 0 < Len(old)
      BY <1>1, <1>5
    <3> QED BY <3>1
  <2>2. ASSUME NEW c \in Node
        PROVE  /\ parentBuf[r][c] # <<>> => parentBuf'[r][c] # <<>>
               /\ c \in Children(p) => parentBuf'[r][c] # <<>>
    <3>1. Append(parentBuf[r][c], out) # <<>>
      <4>1. \A s \in Seq(Nat) : Len(Append(s, out)) = Len(s) + 1 /\ Len(s) \in Nat
        OBVIOUS
      <4>2. Len(Append(parentBuf[r][c], out)) # 0
        BY <1>5, <4>1
      <4>3. Len(<<>>) = 0
        OBVIOUS
      <4> QED BY <4>2, <4>3, Zenon
    <3> QED BY <1>2, <3>1
  <2>3. \A q \in LayerNode : \A c \in Children(q) : c \in Node
    BY <1>7
  <2>4. visited'[r] \subseteq LayerNode /\ Root \in Node
    BY <1>0, <1>1, <1>6, TreeAssumption DEF TypeOK, LayerNode
  <2> QED BY <1>0, <1>1, <1>6, <2>1, <2>2, <2>3, <2>4 DEF RankOK, IndexedOK
<1> QED BY <1>8, <1>9, <1>10, <1>11 DEF RankOK

-----------------------------------------------------------------------------
(* The messages.                                                           *)

LEMMA CarriesTail ==
  ASSUME NEW q \in Seq(Message), q # <<>>, NEW S, Carries(q, S)
  PROVE  Carries(Tail(q), S) /\ Head(q).value \in S
<1>1. Len(q) \in Nat \ {0} /\ DOMAIN q = 1 .. Len(q)
  BY EmptySeq
<1>2. /\ Tail(q) \in Seq(Message) /\ Len(Tail(q)) = Len(q) - 1
      /\ \A k \in 1 .. Len(q) - 1 : Tail(q)[k] = q[k + 1]
      /\ Head(q) = q[1]
  BY HeadTailProperties
<1>3. DOMAIN Tail(q) = 1 .. Len(q) - 1
  BY <1>2, LenProperties
<1>4. Head(q).value \in S
  BY <1>1, <1>2 DEF Carries
<1>5. ASSUME NEW k \in 1 .. Len(q) - 1
      PROVE  Tail(q)[k].value \in S
  <2>1. k + 1 \in 1 .. Len(q)
    BY <1>1
  <2> QED BY <1>1, <1>2, <2>1 DEF Carries
<1> QED BY <1>3, <1>4, <1>5 DEF Carries

LEMMA CarriesAppend ==
  ASSUME NEW q \in Seq(Message), NEW m \in Message, NEW S, Carries(q, S), m.value \in S
  PROVE  Carries(Append(q, m), S)
<1>1. ASSUME NEW k \in DOMAIN Append(q, m)
      PROVE  (k \in DOMAIN q /\ Append(q, m)[k] = q[k]) \/ Append(q, m)[k] = m
  BY <1>1
<1> QED BY <1>1 DEF Carries

(* Every step keeps what the messages and the received names say.          *)
LEMMA MessagesStep ==
  ASSUME IInv, TensorsOK, NEW r \in Rank, Move(r), NEW s \in Rank
  PROVE  MessagesOK(s)'
<1>0. TypeOK /\ MessagesOK(s) /\ MessagesOK(r)
  BY DEF IInv, TensorsOK
<1>1. Sent(s, visited[s]) \subseteq Sent(s, visited'[s])
  BY <1>0, VisitedGrow, SentStays
<1>2. s # 0 => s - 1 \in Rank /\ Sent(s - 1, visited[s - 1]) \subseteq Sent(s - 1, visited'[s - 1])
  <2>1. s # 0 => s - 1 \in Rank
    BY RankAssumption DEF Rank
  <2> QED BY <1>0, <2>1, VisitedGrow, SentStays
<1>3. /\ channel \in [Rank -> Seq(Message)] /\ unsent \in [Rank -> Seq(Message)]
      /\ received \in [Rank -> Tensor \cup {NoName, Unknown}]
  BY <1>0 DEF TypeOK
<1>4. ASSUME RecvName(r) \/ RecvDims(r) \/ RecvData(r)
      PROVE  /\ r # 0 /\ r - 1 \in Rank /\ channel[r - 1] # <<>>
             /\ channel' = [channel EXCEPT ![r - 1] = Tail(@)]
             /\ Carries(channel[r - 1], Sent(r - 1, visited[r - 1]))
             /\ unsent' = unsent
  <2>1. r # 0 /\ channel[r - 1] # <<>>
    BY <1>4 DEF RecvName, RecvDims, RecvData, IInv, ReceiversOK
  <2>2. r - 1 \in Rank
    BY <2>1, RankAssumption DEF Rank
  <2> QED BY <1>4, <2>1, <2>2 DEF RecvName, RecvDims, RecvData, TensorsOK, MessagesOK
<1>5. ASSUME Send(r)
      PROVE  /\ unsent[r] # <<>>
             /\ channel' = [channel EXCEPT ![r] = Append(@, Head(unsent[r]))]
             /\ unsent' = [unsent EXCEPT ![r] = Tail(@)]
             /\ received' = received /\ pc'[r] = "sending"
  BY <1>0, <1>5 DEF Send, IInv, SendersOK, TypeOK
<1>6. ASSUME Launch(r)
      PROVE  /\ \/ unsent' = unsent
                \/ /\ Tree[At(r)].layer \in Sent(r, visited'[r])
                   /\ unsent' = [unsent EXCEPT
                        ![r] = Messages(Tree[At(r)].layer, Tree[At(r)].layer)]
             /\ UNCHANGED <<channel, received>>
             /\ pc'[r] \in {"walk", "send", "read"}
  <2>1. At(r) \in visited'[r]
    <3>1. visited' = [visited EXCEPT ![r] = @ \cup {At(r)}]
      BY <1>0, <1>6, LaunchTypes
    <3>2. visited \in [Rank -> SUBSET LayerNode]
      BY <1>0 DEF TypeOK
    <3> QED BY <3>1, <3>2
  <2> QED BY <1>0, <1>6, <2>1, LaunchOutput, LaunchControl, ZenonT(30) DEF Sent, TypeOK
<1>7. Carries(channel[s], Sent(s, visited[s]))'
  <2>1. Carries(channel[s], Sent(s, visited'[s]))
    BY <1>0, <1>1 DEF MessagesOK, Carries
  <2>2. CASE channel'[s] = channel[s]
    BY <2>1, <2>2
  <2>3. CASE RecvName(r) \/ RecvDims(r) \/ RecvData(r)
    <3>1. CASE s = r - 1
      <4>1. channel'[s] = Tail(channel[s]) /\ channel[s] # <<>> /\ channel[s] \in Seq(Message)
        BY <1>3, <1>4, <2>3, <3>1
      <4> QED BY <2>1, <4>1, CarriesTail
    <3>2. CASE s # r - 1
      BY <1>3, <1>4, <2>2, <2>3, <3>2
    <3> QED BY <3>1, <3>2
  <2>4. CASE Send(r)
    <3>1. CASE s = r
      <4>1. /\ channel'[s] = Append(channel[s], Head(unsent[s]))
            /\ channel[s] \in Seq(Message) /\ unsent[s] \in Seq(Message) /\ unsent[s] # <<>>
        BY <1>3, <1>5, <2>4, <3>1
      <4>2. Head(unsent[s]).value \in Sent(s, visited[s])
        BY <1>0, <4>1, CarriesTail DEF MessagesOK
      <4>3. Head(unsent[s]) \in Message
        BY <4>1, HeadTailProperties
      <4> QED BY <1>1, <2>1, <4>1, <4>2, <4>3, CarriesAppend
    <3>2. CASE s # r
      BY <1>3, <1>5, <2>2, <2>4, <3>2
    <3> QED BY <3>1, <3>2
  <2>5. CASE Still(r) \/ BarrierFirst(r) \/ Launch(r)
    BY <1>6, <2>2, <2>5 DEF Still, BarrierFirst
  <2> QED BY <1>0, <2>3, <2>4, <2>5, MoveCases
<1>8. Carries(unsent[s], Sent(s, visited[s]))'
  <2>1. Carries(unsent[s], Sent(s, visited'[s]))
    BY <1>0, <1>1 DEF MessagesOK, Carries
  <2>2. CASE unsent'[s] = unsent[s]
    BY <2>1, <2>2
  <2>3. CASE s # r
    BY <1>0, <2>2, <2>3, OtherTrees
  <2>4. CASE Launch(r) /\ s = r
    <3>1. CASE unsent' = unsent
      BY <2>2, <3>1
    <3> DEFINE l == Tree[At(r)].layer
    <3>2. CASE l \in Sent(r, visited'[r]) /\ unsent' = [unsent EXCEPT ![r] = Messages(l, l)]
      <4>1. unsent'[r] = Messages(l, l)
        BY <1>3, <3>2
      <4>2. \A k \in DOMAIN Messages(l, l) : Messages(l, l)[k].value = l
        BY DEF Messages
      <4> QED BY <2>4, <3>2, <4>1, <4>2 DEF Carries
    <3> QED BY <1>6, <2>4, <3>1, <3>2
  <2>5. CASE Send(r) /\ s = r
    <3>1. unsent'[s] = Tail(unsent[s]) /\ unsent[s] \in Seq(Message) /\ unsent[s] # <<>>
      BY <1>3, <1>5, <2>5
    <3> QED BY <2>1, <3>1, CarriesTail
  <2>6. CASE Still(r) \/ BarrierFirst(r) \/ RecvName(r) \/ RecvDims(r) \/ RecvData(r)
    BY <1>4, <2>2, <2>6 DEF Still, BarrierFirst
  <2> QED BY <1>0, <2>3, <2>4, <2>5, <2>6, MoveCases
<1>9. CASE s # r
  <2>1. received'[s] = received[s] /\ pc'[s] = pc[s]
    BY <1>0, <1>9, OtherTrees, OtherRanks
  <2> QED BY <1>0, <1>2, <1>7, <1>8, <2>1 DEF MessagesOK
<1>10. CASE s = r /\ RecvName(r)
  <2>1. received'[r] \in {Head(channel[r - 1]).value, Unknown} /\ pc'[r] = "recvDims"
    BY <1>0, <1>3, <1>10 DEF RecvName, TypeOK
  <2>2. r # 0 /\ Head(channel[r - 1]).value \in Sent(r - 1, visited[r - 1])
    BY <1>3, <1>4, <1>10, CarriesTail
  <2>3. Sent(r - 1, visited[r - 1]) \subseteq Layer
    <3>1. visited[r - 1] \subseteq LayerNode
      BY <1>0, <1>4, <1>10 DEF TypeOK
    <3> QED BY <3>1, TreeAssumption DEF Sent
  <2> QED BY <1>2, <1>7, <1>8, <1>10, <2>1, <2>2, <2>3, NameAssumption DEF MessagesOK
<1>11. CASE s = r /\ ~ RecvName(r)
  <2>1. /\ received' = received
        /\ pc'[r] \in {"recvDims", "recvData"} => pc[r] \in {"recvDims", "recvData"}
    <3>1. CASE Still(r)
      BY <3>1 DEF Still
    <3>2. CASE BarrierFirst(r) \/ RecvDims(r) \/ RecvData(r)
      BY <1>0, <3>2 DEF BarrierFirst, RecvDims, RecvData, StartWalk, TypeOK
    <3>3. CASE Launch(r) \/ Send(r)
      BY <1>5, <1>6, <3>3
    <3> QED BY <1>0, <1>11, <3>1, <3>2, <3>3, MoveCases
  <2> QED BY <1>0, <1>2, <1>7, <1>8, <1>11, <2>1 DEF MessagesOK
<1> QED BY <1>9, <1>10, <1>11

-----------------------------------------------------------------------------
(* The invariant.                                                          *)

LEMMA TensorsStep ==
  ASSUME IInv, TensorsOK, [Next]_vars
  PROVE  TensorsOK'
<1>0. TypeOK
  BY DEF IInv
<1>1. CASE UNCHANGED vars
  BY <1>1 DEF vars, tree_vars, TensorsOK, RankOK, NodesOK, FirstBufferOK, IndicesOK,
              IndexedOK, MessagesOK, Carries, Buffer
<1>2. ASSUME NEW r \in Rank, Move(r), NEW s \in Rank
      PROVE  RankOK(s)'
  <2>1. RankOK(s) /\ (s # 0 => visited[s - 1] \subseteq visited'[s - 1])
    <3>1. s # 0 => s - 1 \in Rank
      BY RankAssumption DEF Rank
    <3> QED BY <1>0, <1>2, <3>1, VisitedGrow DEF TensorsOK
  <2>2. CASE s # r
    BY <1>0, <1>2, <2>1, <2>2, OtherTrees, OtherRanks, RankStays
  <2>3. CASE s = r /\ (Still(r) \/ RecvName(r) \/ RecvDims(r) \/ Send(r))
    <3>1. UNCHANGED tree_vars
      BY <2>3 DEF Still, RecvName, RecvDims, Send
    <3>2. CASE RecvName(r)
      <4>1. buffers[r] = <<>>
        BY <3>2 DEF RecvName, IInv, EarlyFresh, Early
      <4> QED BY <2>1, <2>3, <3>1, <4>1, RankStays DEF tree_vars
    <3>3. CASE ~ RecvName(r)
      <4>1. received' = received
        BY <2>3, <3>3 DEF Still, RecvDims, Send
      <4> QED BY <2>1, <2>3, <3>1, <4>1, RankStays DEF tree_vars
    <3> QED BY <3>2, <3>3
  <2>4. CASE s = r /\ (BarrierFirst(r) \/ RecvData(r))
    BY <2>4, RankStarts
  <2>5. CASE s = r /\ Launch(r)
    BY <2>5, RankLaunches
  <2> QED BY <1>0, <1>2, <2>2, <2>3, <2>4, <2>5, MoveCases
<1> QED BY <1>1, <1>2, MessagesStep DEF TensorsOK, Next, Move

LEMMA InitTensorsOK == Init => TensorsOK
<1> SUFFICES ASSUME Init PROVE TensorsOK
  OBVIOUS
<1>1. ASSUME NEW r \in Rank
      PROVE  RankOK(r)
  <2>1. /\ visited[r] = {} /\ buffers[r] = <<>>
        /\ \A p \in Node : outBuf[r][p] = 0 /\ parentBuf[r][p] = <<>>
    BY DEF Init, NoIndex
  <2>2. Root \in Node /\ \A q \in LayerNode : Children(q) \subseteq Node
    BY NodeFields, TreeAssumption DEF LayerNode, Children, ToSet
  <2>3. NodesOK(r) /\ FirstBufferOK(r) /\ IndexedOK(r)
    BY <2>1 DEF NodesOK, FirstBufferOK, IndexedOK
  <2>4. IndicesOK(r)
    BY <2>1, <2>2 DEF IndicesOK
  <2> QED BY <2>3, <2>4 DEF RankOK
<1>2. \A r \in Rank : MessagesOK(r)
  BY DEF Init, MessagesOK, Carries
<1> QED BY <1>1, <1>2 DEF TensorsOK

THEOREM TensorsInvariant == Spec => []TensorsOK
<1>1. IInv /\ TensorsOK /\ [Next]_vars => TensorsOK'
  BY TensorsStep
<1> QED BY <1>1, InitTensorsOK, Inductive, PTL DEF Spec

(* Every kernel that has run read the outputs of exactly the layers that   *)
(* feed its layer, whatever the tree, the cut into bitstreams and the      *)
(* order in which the ranks and their messages run.                        *)
THEOREM KernelsReadTheirInputs == Spec => []TensorsRight
<1>1. TensorsOK => TensorsRight
  BY DEF TensorsOK, RankOK, NodesOK, TensorsRight
<1> QED BY <1>1, TensorsInvariant, PTL

-----------------------------------------------------------------------------
(* What the launcher is about.                                             *)

(* A rank sends the output its bitstream has to, reads the scores of the   *)
(* last layer, and has a result when it is done.                           *)
ControlOK(r) ==
  /\ pc[r] \in {"send", "sending"} => current[r] \in LayerNode /\ Sends(r, current[r])
  /\ pc[r] = "read" => current[r] \in visited[r] /\ Tree[current[r]].layer = LastLayer
  /\ result[r] = LastLayer =>
       pc[r] = "done" /\ \E p \in visited[r] : Tree[p].layer = LastLayer

LEMMA LaunchGoesOn ==
  ASSUME TypeOK, NEW r \in Rank, Launch(r)
  PROVE  pc'[r] = IF Sends(r, At(r)) THEN "send"
                  ELSE IF Tree[At(r)].layer = LastLayer THEN "read" ELSE "walk"
<1>1. pc \in [Rank -> States] /\ pc[r] = "walk"
  BY DEF TypeOK, Launch, Launchable, ToLaunch, Walking
<1>2. IF Sends(r, At(r)) THEN pc' = [pc EXCEPT ![r] = "send"]
      ELSE IF Tree[At(r)].layer = LastLayer THEN pc' = [pc EXCEPT ![r] = "read"]
      ELSE pc' = pc
  BY DEF Launch
<1> QED BY <1>1, <1>2

LEMMA ControlOKStep ==
  ASSUME IInv, NEW r \in Rank, ControlOK(r), Move(r)
  PROVE  ControlOK(r)'
<1>0. /\ TypeOK /\ pc \in [Rank -> States] /\ current \in [Rank -> Node]
      /\ visited \in [Rank -> SUBSET LayerNode] /\ result \in [Rank -> Tensor]
  BY DEF IInv, TypeOK
<1> USE DEF ControlOK, tree_vars
<1>1. CASE Flash(r) \/ BarrierFirst(r) \/ BarrierOther(r)
  BY <1>0, <1>1 DEF Flash, BarrierFirst, BarrierOther, StartWalk
<1>2. CASE RecvName(r) \/ RecvDims(r) \/ RecvData(r)
  BY <1>0, <1>2 DEF RecvName, RecvDims, RecvData, StartWalk
<1>3. CASE NextLevel(r) \/ WalkEnds(r) \/ FrontOfEmpty(r)
  BY <1>0, <1>3 DEF NextLevel, WalkEnds, FrontOfEmpty, Walking
<1>4. CASE PassOn(r) \/ PutBack(r)
  BY <1>0, <1>4 DEF PassOn, PutBack, Walking, ToLaunch
<1>5. CASE MissingArgument(r)
  BY <1>0, <1>5 DEF MissingArgument, Launchable, ToLaunch, Walking
<1>6. CASE Launch(r)
  <2>1. pc[r] = "walk" /\ result' = result
    BY <1>0, <1>6, LaunchControl
  <2>2. /\ At(r) \in LayerNode /\ current'[r] = At(r) /\ At(r) \in visited'[r]
    BY <1>0, <1>6, LaunchTypes DEF LayerNode
  <2> QED BY <1>0, <1>6, <2>1, <2>2, LaunchGoesOn
<1>7. CASE ReadScores(r)
  <2>1. /\ pc[r] = "read" /\ pc'[r] = "done"
        /\ UNCHANGED <<visited, current>>
    BY <1>0, <1>7 DEF ReadScores
  <2> QED BY <2>1
<1>8. CASE Send(r) \/ SendToNobody(r)
  BY <1>0, <1>8 DEF Send, SendToNobody
<1>9. CASE AfterSend(r)
  BY <1>0, <1>9 DEF AfterSend
<1>10. CASE Abort(r)
  BY <1>0, <1>10 DEF Abort
<1> QED
  BY <1>1, <1>2, <1>3, <1>4, <1>5, <1>6, <1>7, <1>8, <1>9, <1>10
  DEF Move, Step, SendMatched, SendBuffered

LEMMA ControlsOKStep ==
  ASSUME IInv, \A r \in Rank : ControlOK(r), [Next]_vars, NEW s \in Rank
  PROVE  ControlOK(s)'
<1>0. TypeOK
  BY DEF IInv
<1>1. CASE UNCHANGED vars
  BY <1>1 DEF vars, tree_vars, ControlOK
<1>2. ASSUME NEW r \in Rank, Move(r), s # r
      PROVE  ControlOK(s)'
  BY <1>0, <1>2, OtherRanks, OtherTrees DEF ControlOK
<1> QED BY <1>1, <1>2, ControlOKStep DEF Next, Move

THEOREM ControlInvariant == Spec => [](\A r \in Rank : ControlOK(r))
<1>1. Init => \A r \in Rank : ControlOK(r)
  BY NameAssumption DEF Init, ControlOK
<1>2. IInv /\ (\A r \in Rank : ControlOK(r)) /\ [Next]_vars => (\A r \in Rank : ControlOK(r))'
  BY ControlsOKStep
<1> QED BY <1>1, <1>2, Inductive, PTL DEF Spec

-----------------------------------------------------------------------------
(* Failures.                                                               *)

(* A kernel has no argument only after a name that could not be found.     *)
LEMMA MissingAfterSpoilt ==
  ASSUME IInv, TensorsOK, NEW r \in Rank, MissingArgument(r)
  PROVE  received[r] = Unknown
<1> DEFINE p == At(r)
           l == Tree[p].layer
<1>0. TypeOK /\ RankOK(r)
  BY DEF IInv, TensorsOK
<1>1. /\ pc[r] = "walk" /\ HasLive(queue[r]) /\ p \notin Remote[r] /\ Ready(r, p)
      /\ Type[l] # "Reshape" /\ ~ HasArguments(r, p)
  BY DEF MissingArgument, Launchable, ToLaunch, Walking
<1>2. p \in LayerNode /\ p \in Node
  BY <1>0, <1>1, WalkTypes, LocalIsLayer
<1>3. CASE ByParents(l)
  BY <1>1, <1>2, <1>3, InputsAssumption DEF HasArguments
<1>4. CASE ~ ByParents(l)
  <2>1. Arity(l) = 1
    BY <1>4 DEF Arity, ByParents
  <2>2. parentBuf[r][p] = <<>>
    <3>1. ~ (1 <= Len(parentBuf[r][p]))
      BY <1>1, <1>4, <2>1 DEF HasArguments
    <3>2. parentBuf[r][p] \in Seq(Nat)
      BY <1>0, <1>2 DEF TypeOK
    <3>3. Len(parentBuf[r][p]) \in Nat
      BY <3>2, LenProperties
    <3>4. Len(parentBuf[r][p]) = 0
      BY <3>1, <3>3
    <3> QED BY <3>2, <3>4, EmptySeq
  <2>3. buffers[r] # <<>>
    <3>1. outBuf[r][p] < Len(buffers[r]) /\ outBuf[r][p] \in Nat
      BY <1>0, <1>1, <1>2 DEF IInv, BuffersCreated, Created, TypeOK
    <3>2. Len(<<>>) = 0
      OBVIOUS
    <3> QED BY <3>1, <3>2
  <2>4. p # Root
    BY <1>0, <2>2, <2>3 DEF RankOK, IndexedOK
  <2>5. PICK q \in LayerNode : Tree[p].parents = <<q>> /\ p \in Children(q)
    BY <1>1, <1>2, <1>4, <2>4, InputsAssumption
  <2>6. q \in Parents(p)
    BY <2>5 DEF Parents, ToSet
  <2>7. q \notin visited[r]
    BY <1>0, <2>2, <2>3, <2>5 DEF RankOK, IndexedOK
  <2>8. q \in Remote[r]
    BY <1>1, <2>6, <2>7 DEF Ready
  <2>9. r - 1 \in Rank /\ Sends(r - 1, q)
    BY <1>1, <1>2, <2>6, <2>8, CutAssumption
  <2>10. r # 0
    BY <2>9 DEF Rank
  <2> QED BY <1>0, <2>2, <2>3, <2>5, <2>9, <2>10 DEF RankOK, IndexedOK
<1> QED BY <1>3, <1>4

(* A kernel finds its arguments unless the name of the received layer was  *)
(* spoilt, when no layer of the last rank is sent on.                      *)
THEOREM KernelsFindArguments ==
  ASSUME \A p \in LayerNode : ~ Sends(NumRanks - 1, p)
  PROVE  Spec => []ArgumentsFound
<1> DEFINE Inv == IInv /\ TensorsOK /\ \A r \in Rank : ControlOK(r)
<1>1. Init => ArgumentsFound
  BY DEF Init, ArgumentsFound
<1>2. Inv /\ ArgumentsFound /\ [Next]_vars => ArgumentsFound'
  <2> SUFFICES ASSUME Inv, ArgumentsFound, [Next]_vars, NEW s \in Rank, pc'[s] = "failed"
               PROVE  received'[s] = Unknown
    BY DEF ArgumentsFound
  <2>0. TypeOK /\ pc \in [Rank -> States]
    BY DEF IInv, TypeOK
  <2>1. CASE UNCHANGED vars
    BY <2>1 DEF vars, ArgumentsFound
  <2>2. ASSUME NEW r \in Rank, Move(r)
        PROVE  received'[s] = Unknown
    <3>1. CASE s # r
      BY <2>0, <2>2, <3>1, OtherRanks, OtherTrees DEF ArgumentsFound
    <3>2. CASE s = r /\ MissingArgument(r)
      BY <3>2, MissingAfterSpoilt DEF MissingArgument
    <3>3. ~ SendToNobody(r)
      <4>1. SUFFICES ASSUME SendToNobody(r) PROVE FALSE
        OBVIOUS
      <4>2. current[r] \in LayerNode /\ Sends(r, current[r])
        BY <4>1 DEF SendToNobody, ControlOK
      <4>3. r = NumRanks - 1
        BY <4>1, RankAssumption DEF SendToNobody, Rank
      <4> QED BY <4>2, <4>3
    <3>4. CASE s = r /\ ~ MissingArgument(r)
      <4> USE <2>0, <3>4
      <4>1. CASE Flash(r) \/ BarrierFirst(r) \/ BarrierOther(r)
        BY <4>1 DEF Flash, BarrierFirst, BarrierOther, StartWalk
      <4>2. CASE RecvName(r) \/ RecvDims(r) \/ RecvData(r)
        BY <4>2 DEF RecvName, RecvDims, RecvData, StartWalk
      <4>3. CASE NextLevel(r) \/ WalkEnds(r) \/ FrontOfEmpty(r)
        BY <4>3 DEF NextLevel, WalkEnds, FrontOfEmpty
      <4>4. CASE PassOn(r) \/ PutBack(r)
        BY <4>4 DEF PassOn, PutBack, Walking, ToLaunch
      <4>5. CASE Launch(r)
        BY <4>5, LaunchControl
      <4>6. CASE ReadScores(r) \/ Send(r)
        BY <4>6 DEF ReadScores, Send
      <4>7. CASE AfterSend(r)
        BY <4>7 DEF AfterSend
      <4>8. CASE Abort(r)
        BY <4>8 DEF Abort
      <4> QED
        BY <2>2, <3>3, <4>1, <4>2, <4>3, <4>4, <4>5, <4>6, <4>7, <4>8
        DEF Move, Step, SendMatched, SendBuffered
    <3> QED BY <3>1, <3>2, <3>4
  <2> QED BY <2>1, <2>2 DEF Next, Move
<1> QED BY <1>1, <1>2, Inductive, TensorsInvariant, ControlInvariant, PTL DEF Spec

-----------------------------------------------------------------------------
(* The ranks implement module Inference.                                   *)

(* The node of a layer and the rank it is local to.                        *)
LEMMA LocalLayer ==
  ASSUME NEW l \in Local
  PROVE  /\ l \in Layer /\ Home[l] \in Rank /\ NodeOf[l] \in LayerNode
         /\ Tree[NodeOf[l]].layer = l
         /\ \A r \in Rank : Program[r][l] # 0 => r = Home[l]
         /\ \A p \in LayerNode : Tree[p].layer = l => p = NodeOf[l]
<1>1. l \in Layer /\ \E r \in Rank : Program[r][l] # 0
  BY DEF Local
<1>2. Home[l] = CHOOSE r \in Rank : Program[r][l] # 0
  BY DEF Home
<1>3. Home[l] \in Rank /\ Program[Home[l]][l] # 0
  BY <1>1, <1>2
<1>4. \E p \in LayerNode : Tree[p].layer = l
  BY <1>1, InputsAssumption
<1>5. NodeOf[l] = CHOOSE p \in LayerNode : Tree[p].layer = l
  BY DEF NodeOf
<1>6. NodeOf[l] \in LayerNode /\ Tree[NodeOf[l]].layer = l
  BY <1>4, <1>5
<1> QED BY <1>1, <1>3, <1>6, CutAssumption, InputsAssumption

(* A node with a kernel on a rank is that of a local layer.                *)
LEMMA LocalNode ==
  ASSUME NEW r \in Rank, NEW p \in LayerNode \ Remote[r], Type[Tree[p].layer] # "Reshape"
  PROVE  /\ Tree[p].layer \in Local /\ Home[Tree[p].layer] = r
         /\ NodeOf[Tree[p].layer] = p
<1> DEFINE l == Tree[p].layer
<1>1. p \in Node /\ l \in Layer /\ IsLayer(p)
  BY TreeAssumption DEF LayerNode
<1>2. Program[r][l] # 0
  BY <1>1 DEF Remote, get_program_num
<1>3. l \in Local
  BY <1>1, <1>2 DEF Local
<1> HIDE DEF l
<1>4. Home[l] = r /\ NodeOf[l] = p
  BY <1>2, <1>3, LocalLayer DEF l
<1> QED BY <1>3, <1>4 DEF l

(* The output of a local layer.                                            *)
LEMMA OutputIs ==
  ASSUME TypeOK, TensorsOK, NEW l \in Local
  PROVE  OutputOf(l) = IF NodeOf[l] \in visited[Home[l]] THEN l ELSE NoName
BY LocalLayer DEF OutputOf, TensorsOK, RankOK, NodesOK

LEMMA OutputSame ==
  ASSUME NEW l \in Local, UNCHANGED tree_vars
  PROVE  OutputOf(l)' = OutputOf(l)
BY DEF OutputOf, Buffer, tree_vars

(* When a kernel is launched, the layers that feed it have been computed.  *)
LEMMA FeedsComputed ==
  ASSUME IInv, TensorsOK, NEW r \in Rank, Launch(r),
         NEW m \in ToSet(Inputs[Tree[At(r)].layer]) \ {Image}
  PROVE  m \in Local /\ OutputOf(m) = m
<1> DEFINE p == At(r)
           l == Tree[p].layer
<1>0. TypeOK /\ pc[r] = "walk" /\ Type[l] # "Reshape" /\ p \notin Remote[r]
  BY DEF IInv, Launch, Launchable, ToLaunch, Walking
<1>1. p \in LayerNode
  BY <1>0, LaunchTypes
<1>2. m \in ToSet(Feed(p))
  BY <1>0, <1>1, InputsAssumption
<1>3. p # Root
  <2>1. SUFFICES ASSUME p = Root PROVE FALSE
    OBVIOUS
  <2>2. Feed(p) = <<Image>>
    BY <2>1 DEF Feed
  <2> HIDE DEF p
  <2> QED BY <1>2, <2>2 DEF ToSet
<1>4. PICK k \in 1 .. Arity(l) : m = Tree[Tree[p].parents[k]].layer
  <2>1. Feed(p) = [k \in 1 .. Arity(l) |-> Tree[Tree[p].parents[k]].layer]
    BY <1>3 DEF Feed
  <2> HIDE DEF p, l
  <2> QED BY <1>2, <2>1 DEF ToSet
<1> DEFINE q == Tree[p].parents[k]
<1>5. q \in Parents(p) /\ q \in LayerNode
  <2>1. Arity(l) <= Len(Tree[p].parents) /\ Arity(l) \in Nat
    BY <1>0, <1>1, <1>3, InputsAssumption DEF Arity
  <2>2. Tree[p].parents \in Seq(Node)
    BY <1>1, ParentsAreLayers
  <2>3. k \in DOMAIN Tree[p].parents
    <3>1. Len(Tree[p].parents) \in Nat /\ DOMAIN Tree[p].parents = 1 .. Len(Tree[p].parents)
      BY <2>2, LenProperties
    <3> HIDE DEF l, p
    <3> QED BY <2>1, <3>1
  <2> QED BY <1>1, <2>3, ParentsAreLayers
<1> HIDE DEF p, l, q
<1>6. q \in visited[r] \cup Remote[r]
  BY <1>5, ParentsTensors DEF p
<1>7. ASSUME NEW s \in Rank, q \in visited[s]
      PROVE  m \in Local /\ OutputOf(m) = m
  <2>1. q \notin Remote[s] /\ Type[Tree[q].layer] # "Reshape" /\ m = Tree[q].layer
    BY <1>4, <1>7 DEF q, TensorsOK, RankOK, NodesOK
  <2>2. m \in Local /\ Home[m] = s /\ NodeOf[m] = q
    BY <1>5, <2>1, LocalNode
  <2> QED BY <1>0, <1>7, <2>2, OutputIs
<1>8. CASE q \notin visited[r]
  <2>1. r - 1 \in Rank /\ Sends(r - 1, q)
    <3>1. q \in Parents(p) \cap Remote[r]
      BY <1>5, <1>6, <1>8
    <3> QED BY <1>0, <1>1, <3>1, CutAssumption DEF l, p
  <2>2. buffers[r] # <<>>
    <3>1. q \in Node
      BY <1>5 DEF LayerNode
    <3>2. outBuf[r][q] < Len(buffers[r]) /\ outBuf[r][q] \in Nat
      BY <1>0, <3>1 DEF IInv, BuffersCreated, Created, TypeOK
    <3>3. Len(<<>>) = 0
      OBVIOUS
    <3> QED BY <3>2, <3>3
  <2>3. r # 0 /\ visited[r - 1] \in SUBSET LayerNode
    <3>1. r # 0
      BY <2>1 DEF Rank
    <3>2. visited \in [Rank -> SUBSET LayerNode]
      BY <1>0 DEF TypeOK
    <3> QED BY <2>1, <3>1, <3>2
  <2>4. Buffer(r, 0) \in Sent(r - 1, visited[r - 1])
    BY <2>2, <2>3 DEF TensorsOK, RankOK, FirstBufferOK
  <2>5. q \in visited[r - 1]
    BY <1>5, <2>1, <2>3, <2>4, SentIsOne
  <2> QED BY <1>7, <2>1, <2>5
<1> QED BY <1>7, <1>8

(* A launch computes its layer.                                            *)
LEMMA LaunchComputes ==
  ASSUME IInv, TensorsOK, TensorsOK', NEW r \in Rank, Launch(r)
  PROVE  \E l \in Local : I!Compute(l)
<1>0. TypeOK /\ TypeOK'
  BY TypeStep, SMTT(30) DEF IInv, Next, Step
<1>1. /\ Type[Tree[At(r)].layer] # "Reshape" /\ At(r) \notin Remote[r]
      /\ At(r) \in LayerNode /\ At(r) \notin visited[r]
      /\ visited' = [visited EXCEPT ![r] = @ \cup {At(r)}]
      /\ result' = result
  BY <1>0, LaunchTypes, LaunchControl DEF Launch, Launchable, ToLaunch
<1>2. PICK p \in LayerNode : p = At(r)
  BY <1>1
<1> DEFINE l == Tree[p].layer
<1>3. l \in Local /\ Home[l] = r /\ NodeOf[l] = p
  BY <1>1, <1>2, LocalNode
<1>4. \A m \in ToSet(Inputs[l]) \ {Image} : m \in Local /\ OutputOf(m) = m
  BY <1>2, FeedsComputed
<1> HIDE DEF l
<1>5. ASSUME NEW m \in Local
      PROVE  OutputOf(m)' = IF NodeOf[m] \in visited'[Home[m]] THEN m ELSE NoName
  BY LocalLayer DEF OutputOf, TensorsOK, RankOK, NodesOK
<1>6. OutputOf(l) = NoName /\ OutputOf(l)' = l
  <2>1. p \in visited'[r] /\ p \notin visited[r]
    BY <1>0, <1>1, <1>2 DEF TypeOK
  <2> QED BY <1>0, <1>3, <1>5, <2>1, OutputIs
<1>7. ASSUME NEW m \in Local, m # l
      PROVE  OutputOf(m)' = OutputOf(m)
  <2>1. NodeOf[m] # p
    BY <1>3, <1>7, LocalLayer
  <2>2. NodeOf[m] \in visited'[Home[m]] <=> NodeOf[m] \in visited[Home[m]]
    BY <1>0, <1>1, <1>2, <2>1, LocalLayer DEF TypeOK
  <2> QED BY <1>0, <1>5, <2>2, OutputIs
<1>8. [k \in Local |-> OutputOf(k)']
        = [[k \in Local |-> OutputOf(k)] EXCEPT ![l] = l]
  BY <1>3, <1>6, <1>7
<1>9. I!Compute(l)
  BY <1>1, <1>3, <1>4, <1>6, <1>8 DEF I!Compute, ToSet
<1> QED BY <1>3, <1>9, SMTT(30)

(* Reading the scores gives the answer, once.                              *)
LEMMA ReadAnswers ==
  ASSUME IInv, TensorsOK, \A s \in Rank : ControlOK(s), NEW r \in Rank, ReadScores(r)
  PROVE  I!Answer
<1>0. /\ TypeOK /\ result \in [Rank -> Tensor]
  BY DEF IInv, TypeOK
<1> DEFINE p == current[r]
<1>1. /\ pc[r] = "read" /\ UNCHANGED tree_vars
      /\ result' = [result EXCEPT ![r] = Buffer(r, outBuf[r][p])]
  BY DEF ReadScores
<1>2. p \in visited[r] /\ Tree[p].layer = LastLayer
  BY <1>1 DEF ControlOK
<1>3. Buffer(r, outBuf[r][p]) = LastLayer
  BY <1>2 DEF TensorsOK, RankOK, NodesOK
<1>4. ASSUME NEW s \in Rank, NEW q \in visited[s], Tree[q].layer = LastLayer
      PROVE  LastLayer \in Local /\ Home[LastLayer] = s /\ NodeOf[LastLayer] = q
  <2>1. q \notin Remote[s] /\ Type[Tree[q].layer] # "Reshape" /\ q \in LayerNode
    BY <1>0, <1>4 DEF TensorsOK, RankOK, NodesOK, TypeOK
  <2> QED BY <1>4, <2>1, LocalNode
<1>5. LastLayer \in Local /\ OutputOf(LastLayer) = LastLayer
  <2>1. LastLayer \in Local /\ Home[LastLayer] = r /\ NodeOf[LastLayer] = p
    BY <1>2, <1>4
  <2> QED BY <1>0, <1>2, <2>1, OutputIs
<1>6. ASSUME NEW s \in Rank, result[s] = LastLayer PROVE FALSE
  <2>1. PICK q \in visited[s] : Tree[q].layer = LastLayer
    BY <1>6 DEF ControlOK
  <2>2. s = r
    BY <1>2, <1>4, <2>1
  <2> QED BY <1>1, <1>6, <2>2 DEF ControlOK
<1>7. result'[r] = LastLayer
  BY <1>0, <1>1, <1>3
<1>8. [k \in Local |-> OutputOf(k)'] = [k \in Local |-> OutputOf(k)]
  BY <1>1, OutputSame
<1> QED BY <1>5, <1>6, <1>7, <1>8 DEF I!Answer

(* The other steps are invisible.                                          *)
LEMMA OthersStutter ==
  ASSUME IInv, TensorsOK, NEW r \in Rank, Move(r), ~ Launch(r), ~ ReadScores(r)
  PROVE  UNCHANGED I!vars
<1>0. TypeOK
  BY DEF IInv
<1>1. result' = result
  BY DEF Move, Step, SendMatched, SendBuffered, AfterSend, Flash, BarrierFirst,
         BarrierOther, RecvName, RecvDims, RecvData, NextLevel, WalkEnds, FrontOfEmpty,
         PassOn, PutBack, MissingArgument, Send, SendToNobody, Abort
<1>2. ASSUME NEW l \in Local
      PROVE  OutputOf(l)' = OutputOf(l)
  <2>1. CASE BarrierFirst(r) \/ RecvData(r)
    <3>1. visited' = visited /\ outBuf' = outBuf /\ pc[r] \in Early
      BY <2>1 DEF BarrierFirst, RecvData, Early
    <3>2. visited[r] = {} /\ (\A s \in Rank \ {r} : buffers'[s] = buffers[s])
      BY <1>0, <2>1, <3>1, OtherTrees DEF IInv, EarlyFresh
    <3> QED BY <3>1, <3>2, LocalLayer DEF OutputOf, Buffer
  <2>2. CASE Still(r) \/ RecvName(r) \/ RecvDims(r) \/ Send(r)
    BY <2>2, OutputSame DEF Still, RecvName, RecvDims, Send
  <2> QED BY <1>0, <2>1, <2>2, MoveCases
<1>3. [l \in Local |-> OutputOf(l)'] = [l \in Local |-> OutputOf(l)]
  BY <1>2
<1> QED BY <1>1, <1>3 DEF I!vars

(* The ranks together compute the network as one machine would: each layer *)
(* once, from the outputs of the layers that feed it, and the answer from  *)
(* the last one, whatever the order in which ranks and messages run.       *)
THEOREM ImplementsInference == Spec => RefinesInference
<1> DEFINE Inv == IInv /\ TensorsOK /\ \A r \in Rank : ControlOK(r)
<1>1. Init => I!Init
  <2>1. SUFFICES ASSUME Init PROVE I!Init
    OBVIOUS
  <2>2. \A r \in Rank : visited[r] = {} /\ result[r] # LastLayer
    BY <2>1, NameAssumption DEF Init
  <2>3. \A l \in Local : OutputOf(l) = NoName
    BY <2>2, LocalLayer DEF OutputOf
  <2> QED BY <2>2, <2>3 DEF I!Init
<1>2. Inv /\ TensorsOK' /\ [Next]_vars => [I!Next]_(I!vars)
  <2>1. SUFFICES ASSUME Inv, TensorsOK', [Next]_vars PROVE [I!Next]_(I!vars)
    OBVIOUS
  <2>2. CASE UNCHANGED vars
    <3>1. [l \in Local |-> OutputOf(l)'] = [l \in Local |-> OutputOf(l)] /\ result' = result
      BY <2>2, OutputSame DEF vars, tree_vars
    <3> QED BY <3>1 DEF I!vars
  <2>3. ASSUME NEW r \in Rank, Move(r) PROVE [I!Next]_(I!vars)
    <3>1. CASE Launch(r)
      BY <2>1, <3>1, LaunchComputes DEF I!Next
    <3>2. CASE ReadScores(r)
      BY <2>1, <3>2, ReadAnswers DEF I!Next
    <3> QED BY <2>1, <2>3, <3>1, <3>2, OthersStutter
  <2> QED BY <2>1, <2>2, <2>3 DEF Next, Move
<1> QED
  BY <1>1, <1>2, Inductive, TensorsInvariant, ControlInvariant, PTL
  DEF Spec, RefinesInference, I!Spec

-----------------------------------------------------------------------------
(* The walk passes the whole tree.                                         *)

(* With queue q and visited nodes V: G are the nodes whose children were   *)
(* queued, B those just launched.  Nothing below them is lost but dummies. *)
Passed(r, q, G, B, V) ==
  /\ G \cup B \subseteq V \cup Remote[r]
  /\ Root \in Waiting(q) \cup G \cup B
  /\ \A w \in Waiting(q) : w = Root \/ \E g \in G : w \in Children(g)
  /\ \A g \in G : Children(g) \subseteq Waiting(q) \cup G \cup B \cup DummyNode

WalkPassed(r) ==
  /\ pc[r] = "walk" =>
       \E G \in SUBSET Node : Passed(r, queue[r], G, {}, visited[r])
  /\ pc[r] \in {"send", "sending"} =>
       \E G \in SUBSET Node : Passed(r, queue[r], G, {current[r]}, visited[r])

(* A rank that is done has launched what it has to.                        *)
WalkComplete(r) ==
  pc[r] \in {"done", "undefined"} =>
    \A p \in LayerNode :
      p \in visited[r] \cup Remote[r] \/ Type[Tree[p].layer] = "Reshape"

LEMMA SmallestPosition ==
  ASSUME NEW S \in SUBSET Nat, S # {}
  PROVE  \E x \in S : \A y \in S : ~ (y < x)
<1> DEFINE R == OpToRel(<, Nat)
<1>1. IsWellFoundedOn(R, Nat)
  BY NatLessThanWellFounded
<1>2. \A a, b \in Nat : a < b => <<a, b>> \in R
  BY DEF OpToRel
<1> HIDE DEF R
<1>3. \E x \in S : \A y \in S : ~ (<<y, x>> \in R)
  BY <1>1, WFMin
<1> QED BY <1>2, <1>3

LEMMA WaitingJoin ==
  ASSUME NEW a \in Seq(Node), NEW b \in Seq(Node)
  PROVE  Waiting(a \o b) = Waiting(a) \cup Waiting(b)
<1>1. /\ DOMAIN a = 1 .. Len(a) /\ DOMAIN b = 1 .. Len(b)
      /\ Len(a) \in Nat /\ Len(b) \in Nat
  BY LenProperties
<1>2. /\ a \o b \in Seq(Node) /\ Len(a \o b) = Len(a) + Len(b)
      /\ \A i \in 1 .. Len(a) + Len(b) :
           (a \o b)[i] = IF i <= Len(a) THEN a[i] ELSE b[i - Len(a)]
  BY ConcatProperties
<1>3. DOMAIN (a \o b) = 1 .. Len(a) + Len(b)
  BY <1>2, LenProperties
<1> DEFINE m == Len(a)
           k == Len(b)
           c == a \o b
<1>4. m \in Nat /\ k \in Nat
  BY <1>1
<1> HIDE DEF m, k, c
<1>5. \A i \in 1 .. m : i \in 1 .. m + k /\ c[i] = a[i]
  BY <1>2, <1>4 DEF m, k, c
<1>6. \A i \in 1 .. k : m + i \in 1 .. m + k /\ c[m + i] = b[i]
  <2>1. ASSUME NEW i \in 1 .. k
        PROVE  m + i \in 1 .. m + k /\ ~ (m + i <= m) /\ (m + i) - m = i
    BY <1>4
  <2> QED BY <1>2, <2>1 DEF m, k, c
<1>7. \A i \in 1 .. m + k : \/ i \in 1 .. m /\ c[i] = a[i]
                            \/ i - m \in 1 .. k /\ c[i] = b[i - m]
  <2>1. ASSUME NEW i \in 1 .. m + k
        PROVE  (i \in 1 .. m /\ i <= m) \/ (i - m \in 1 .. k /\ ~ (i <= m))
    BY <1>4
  <2> QED BY <1>2, <2>1 DEF m, k, c
<1>8. Waiting(a) = {a[i] : i \in 1 .. m} /\ Waiting(b) = {b[i] : i \in 1 .. k}
      /\ Waiting(c) = {c[i] : i \in 1 .. m + k}
  BY <1>1, <1>3 DEF Waiting, m, k, c
<1>9. Waiting(a) \subseteq Waiting(c) /\ Waiting(b) \subseteq Waiting(c)
  BY <1>5, <1>6, <1>8
<1>10. Waiting(c) \subseteq Waiting(a) \cup Waiting(b)
  BY <1>7, <1>8
<1> QED BY <1>9, <1>10 DEF c

LEMMA WaitingAppend ==
  ASSUME NEW a \in Seq(Node), NEW p \in Node
  PROVE  Waiting(Append(a, p)) = Waiting(a) \cup {p}
<1>1. Append(a, p) = a \o <<p>> /\ <<p>> \in Seq(Node)
  OBVIOUS
<1>2. Waiting(<<p>>) = {p}
  BY DEF Waiting
<1> QED BY <1>1, <1>2, WaitingJoin

(* The walk takes a node, and drops only dummies before it.                *)
LEMMA WaitingTaken ==
  ASSUME TypeOK, NEW r \in Rank, HasLive(queue[r])
  PROVE  /\ At(r) \in Waiting(queue[r])
         /\ Waiting(Rest(r)) \subseteq Waiting(queue[r])
         /\ Waiting(queue[r]) \subseteq Waiting(Rest(r)) \cup {At(r)} \cup DummyNode
<1> DEFINE q == queue[r]
           k == FirstLive(q)
           t == SubSeq(q, k + 1, Len(q))
<1>1. q \in Seq(Node) /\ DOMAIN q = 1 .. Len(q) /\ Len(q) \in Nat
  BY LenProperties DEF TypeOK
<1>2. k \in DOMAIN q /\ \A j \in 1 .. k - 1 : q[j] \in DummyNode
  BY DEF HasLive, FirstLive, IsFirstLive
<1>3. Rest(r) = t /\ At(r) = q[k]
  BY DEF Rest, At
<1> HIDE DEF k, q
<1>4. k \in 1 .. Len(q) /\ k + 1 \in Int /\ k \in Nat
  BY <1>1, <1>2
<1>5. t = [i \in 1 .. Len(q) - k |-> q[i + k]]
  <2>1. \A i \in (k + 1) .. Len(q) : q[i] \in Node
    BY <1>1, <1>4, ElementOfSeq
  <2>2. t = [i \in 1 .. (Len(q) - (k + 1) + 1) |-> q[i + (k + 1) - 1]]
    BY <1>1, <1>4, <2>1, SubSeqProperties
  <2>3. Len(q) - (k + 1) + 1 = Len(q) - k /\ \A i \in Int : i + (k + 1) - 1 = i + k
    BY <1>1, <1>4
  <2> HIDE DEF t
  <2> QED BY <2>2, <2>3
<1> HIDE DEF t
<1>6. DOMAIN t = 1 .. Len(q) - k
  BY <1>5
<1>7. \A i \in 1 .. Len(q) - k : i + k \in DOMAIN q
  BY <1>1, <1>4
<1>8. Waiting(t) \subseteq Waiting(q)
  BY <1>5, <1>6, <1>7 DEF Waiting
<1>9. ASSUME NEW i \in DOMAIN q
      PROVE  q[i] \in Waiting(t) \cup {q[k]} \cup DummyNode
  <2>1. CASE i < k
    <3>1. i \in 1 .. k - 1
      BY <1>1, <1>4, <2>1
    <3> QED BY <1>2, <3>1
  <2>2. CASE i = k
    BY <2>2
  <2>3. CASE k < i
    <3>1. i - k \in 1 .. Len(q) - k /\ (i - k) + k = i
      BY <1>1, <1>4, <2>3
    <3> QED BY <1>5, <1>6, <3>1 DEF Waiting
  <2>4. i \in Nat
    BY <1>1
  <2> QED BY <1>4, <2>1, <2>2, <2>3, <2>4
<1>10. Waiting(q) \subseteq Waiting(t) \cup {q[k]} \cup DummyNode
  BY <1>9 DEF Waiting
<1> QED BY <1>2, <1>3, <1>8, <1>10 DEF Waiting, q

(* A walk that has nothing but dummies left has passed every layer.        *)
LEMMA EverythingPassed ==
  ASSUME NEW r \in Rank, NEW q, NEW G \in SUBSET Node, NEW V,
         Passed(r, q, G, {}, V), Waiting(q) \subseteq DummyNode
  PROVE  LayerNode \subseteq V \cup Remote[r]
<1> DEFINE S == Node \ (G \cup DummyNode)
<1>1. S = {}
  <2> SUFFICES ASSUME S # {} PROVE FALSE
    OBVIOUS
  <2>1. Node \subseteq Nat
    BY TreeAssumption, LenProperties DEF Node
  <2>2. PICK p \in S : \A y \in S : ~ (y < p)
    BY <2>1, SmallestPosition
  <2>3. Root \notin DummyNode /\ Root \in Node
    BY TreeAssumption DEF LayerNode, DummyNode, IsLayer
  <2>4. p # Root
    BY <2>2, <2>3 DEF Passed
  <2>5. PICK g \in Node \ DummyNode : g < p /\ p \in Children(g)
    BY <2>4, ChildrenAssumption
  <2>6. g \in G
    BY <2>2, <2>5
  <2> QED BY <2>2, <2>5, <2>6 DEF Passed
<1>2. LayerNode \subseteq G
  BY <1>1 DEF LayerNode, DummyNode, IsLayer
<1> QED BY <1>2 DEF Passed

(* A queue without a live node has nothing but dummies.                    *)
LEMMA DeadQueue ==
  ASSUME NEW q \in Seq(Node), ~ HasLive(q)
  PROVE  Waiting(q) \subseteq DummyNode
<1> DEFINE S == {k \in DOMAIN q : q[k] \notin DummyNode}
<1>1. DOMAIN q = 1 .. Len(q) /\ Len(q) \in Nat
  BY LenProperties
<1>2. S \in SUBSET Nat
  BY <1>1
<1> HIDE DEF S
<1>3. S = {}
  <2> SUFFICES ASSUME S # {} PROVE FALSE
    OBVIOUS
  <2>1. PICK k \in S : \A y \in S : ~ (y < k)
    BY <1>2, SmallestPosition
  <2>2. ASSUME NEW j \in 1 .. k - 1 PROVE q[j] \in DummyNode
    <3>1. j \in DOMAIN q /\ j < k
      BY <1>1, <2>1 DEF S
    <3> QED BY <2>1, <3>1 DEF S
  <2> QED BY <2>1, <2>2 DEF HasLive, IsFirstLive, S
<1> QED BY <1>3 DEF Waiting, S

(* Passing on a node that was taken.                                       *)
LEMMA PassedOn ==
  ASSUME NEW r \in Rank, NEW q \in Seq(Node), NEW p \in Node, NEW G \in SUBSET Node,
         NEW B, B \subseteq {p}, NEW V, NEW old, Passed(r, old, G, B, V),
         Waiting(q) \subseteq Waiting(old),
         Waiting(old) \subseteq Waiting(q) \cup {p} \cup DummyNode,
         NEW W, V \subseteq W, p \in W \cup Remote[r]
  PROVE  Passed(r, q \o Tree[p].children, G \cup {p}, {}, W)
<1> DEFINE ch == Tree[p].children
<1>1. Waiting(q \o ch) = Waiting(q) \cup Children(p)
  BY NodeFields, ChildrenDistinct, WaitingJoin
<1>2. Root \notin DummyNode
  BY TreeAssumption DEF LayerNode, DummyNode, IsLayer
<1> HIDE DEF ch
<1> QED BY <1>1, <1>2 DEF Passed, ch

(* A ScaleShift is never put back: it is below its only parent, which the  *)
(* walk has passed, so it does not matter that it would be dropped.        *)
LEMMA NoScaleShiftBack ==
  ASSUME TypeOK, NEW r \in Rank, PutBack(r), NEW G \in SUBSET Node,
         Passed(r, queue[r], G, {}, visited[r])
  PROVE  Type[Tree[At(r)].layer] # "ScaleShift"
<1> DEFINE p == At(r)
           l == Tree[p].layer
<1> SUFFICES ASSUME Type[l] = "ScaleShift" PROVE FALSE
  OBVIOUS
<1>1. HasLive(queue[r]) /\ p \notin Remote[r] /\ ~ Ready(r, p)
  BY DEF PutBack, ToLaunch
<1>2. p \in LayerNode /\ p \in Node /\ p \in Waiting(queue[r])
  BY <1>1, WalkTypes, LocalIsLayer, WaitingTaken
<1>3. ~ Strict(p) /\ ~ ByParents(l)
  BY DEF Strict, ByParents
<1>4. Parents(p) \subseteq visited[r] \cup Remote[r]
  <2>1. CASE p = Root
    BY <1>2, <2>1, InputsAssumption
  <2>2. CASE p # Root
    <3>1. PICK q \in LayerNode : Tree[p].parents = <<q>> /\ p \in Children(q)
      BY <1>2, <1>3, <2>2, InputsAssumption
    <3>2. PICK g \in G : p \in Children(g)
      BY <1>2, <2>2 DEF Passed
    <3>3. g = q
      BY <3>1, <3>2, ChildrenDistinct DEF LayerNode
    <3>4. Parents(p) = {q}
      BY <3>1 DEF Parents, ToSet
    <3> QED BY <3>2, <3>3, <3>4 DEF Passed
  <2> QED BY <2>1, <2>2
<1> QED BY <1>1, <1>3, <1>4 DEF Ready

LEMMA PassedStep ==
  ASSUME IInv, NEW r \in Rank, WalkPassed(r), Move(r)
  PROVE  WalkPassed(r)'
<1>0. /\ TypeOK /\ pc \in [Rank -> States] /\ queue \in [Rank -> Seq(Node)]
      /\ current \in [Rank -> Node] /\ visited \in [Rank -> SUBSET LayerNode]
  BY DEF IInv, TypeOK
<1>1. CASE Flash(r) \/ BarrierOther(r) \/ RecvName(r) \/ RecvDims(r)
  BY <1>0, <1>1 DEF Flash, BarrierOther, RecvName, RecvDims, WalkPassed
<1>2. CASE BarrierFirst(r) \/ RecvData(r)
  <2>1. pc'[r] = "walk" /\ queue'[r] = <<Root>>
    BY <1>0, <1>2 DEF BarrierFirst, RecvData, StartWalk
  <2>2. Waiting(<<Root>>) = {Root}
    BY DEF Waiting
  <2>3. Passed(r, queue'[r], {}, {}, visited'[r])
    BY <2>1, <2>2 DEF Passed
  <2> QED BY <2>1, <2>3 DEF WalkPassed
<1>3. CASE NextLevel(r)
  BY <1>0, <1>3 DEF NextLevel, WalkPassed, tree_vars
<1>4. CASE WalkEnds(r) \/ FrontOfEmpty(r) \/ MissingArgument(r)
           \/ ReadScores(r) \/ SendToNobody(r) \/ Abort(r)
  BY <1>0, <1>4 DEF WalkEnds, FrontOfEmpty, MissingArgument, ReadScores,
                    SendToNobody, Abort, WalkPassed
<1>5. CASE PassOn(r)
  <2>1. /\ pc[r] = "walk" /\ HasLive(queue[r]) /\ pc' = pc /\ visited' = visited
        /\ At(r) \in Remote[r] \cup visited[r]
        /\ queue'[r] = Rest(r) \o Tree[At(r)].children
    BY <1>0, <1>5 DEF PassOn, PassChildren, Walking, tree_vars
  <2>2. PICK G \in SUBSET Node : Passed(r, queue[r], G, {}, visited[r])
    BY <2>1 DEF WalkPassed
  <2>3. At(r) \in Node /\ Rest(r) \in Seq(Node)
    BY <1>0, <2>1, WalkTypes
  <2>4. Passed(r, Rest(r) \o Tree[At(r)].children, G \cup {At(r)}, {}, visited[r])
    BY <1>0, <2>1, <2>2, <2>3, WaitingTaken, PassedOn
  <2> QED BY <2>1, <2>3, <2>4 DEF WalkPassed
<1>6. CASE PutBack(r)
  <2>1. pc[r] = "walk" /\ HasLive(queue[r]) /\ pc' = pc /\ visited' = visited
    BY <1>6 DEF PutBack, ToLaunch, Walking, tree_vars
  <2>2. PICK G \in SUBSET Node : Passed(r, queue[r], G, {}, visited[r])
    BY <2>1 DEF WalkPassed
  <2>3. At(r) \in Node /\ Rest(r) \in Seq(Node)
    BY <1>0, <2>1, WalkTypes
  <2>4. queue'[r] = Append(Rest(r), At(r))
    BY <1>0, <1>6, <2>2, NoScaleShiftBack DEF PutBack, PutBackQueue
  <2>5. /\ Waiting(queue'[r]) = Waiting(Rest(r)) \cup {At(r)}
        /\ Waiting(Rest(r)) \cup {At(r)} \subseteq Waiting(queue[r])
        /\ Waiting(queue[r]) \subseteq Waiting(queue'[r]) \cup DummyNode
    BY <1>0, <2>1, <2>3, <2>4, WaitingAppend, WaitingTaken
  <2>6. Root \notin DummyNode
    BY TreeAssumption, SMTT(30) DEF LayerNode, DummyNode, IsLayer
  <2>7. Passed(r, queue'[r], G, {}, visited[r])
    BY <2>2, <2>5, <2>6, SMTT(30) DEF Passed
  <2> QED BY <2>1, <2>7 DEF WalkPassed
<1>7. CASE Launch(r)
  <2>1. /\ pc[r] = "walk" /\ HasLive(queue[r])
        /\ visited' = [visited EXCEPT ![r] = @ \cup {At(r)}]
        /\ current' = [current EXCEPT ![r] = At(r)]
    BY <1>0, <1>7, LaunchTypes DEF Launch, Launchable, ToLaunch, Walking
  <2>2. PICK G \in SUBSET Node : Passed(r, queue[r], G, {}, visited[r])
    BY <2>1 DEF WalkPassed
  <2>3. At(r) \in Node /\ Rest(r) \in Seq(Node)
    BY <1>0, <2>1, WalkTypes
  <2>4. /\ visited[r] \subseteq visited'[r] /\ At(r) \in visited'[r]
        /\ current'[r] = At(r)
    BY <1>0, <2>1, <2>3
  <2>5. /\ Waiting(Rest(r)) \subseteq Waiting(queue[r])
        /\ Waiting(queue[r]) \subseteq Waiting(Rest(r)) \cup {At(r)} \cup DummyNode
    BY <1>0, <2>1, WaitingTaken
  <2>6. CASE Sends(r, At(r))
    <3>1. pc'[r] = "send" /\ queue'[r] = Rest(r)
      BY <1>0, <1>7, <2>6 DEF Launch
    <3>2. Root \notin DummyNode
      BY TreeAssumption DEF LayerNode, DummyNode, IsLayer
    <3>3. Passed(r, queue'[r], G, {current'[r]}, visited'[r])
      BY <2>2, <2>4, <2>5, <3>1, <3>2 DEF Passed
    <3> QED BY <3>1, <3>3 DEF WalkPassed
  <2>7. CASE ~ Sends(r, At(r)) /\ Tree[At(r)].layer = LastLayer
    <3>1. pc'[r] = "read"
      BY <1>0, <1>7, <2>7, LaunchGoesOn
    <3> QED BY <3>1 DEF WalkPassed
  <2>8. CASE ~ Sends(r, At(r)) /\ Tree[At(r)].layer # LastLayer
    <3>1. pc'[r] = "walk" /\ queue'[r] = Rest(r) \o Tree[At(r)].children
      BY <1>0, <1>7, <2>1, <2>8 DEF Launch, PassChildren
    <3>2. Passed(r, Rest(r) \o Tree[At(r)].children, G \cup {At(r)}, {}, visited'[r])
      BY <2>2, <2>3, <2>4, <2>5, PassedOn
    <3> QED BY <2>3, <3>1, <3>2 DEF WalkPassed
  <2> QED BY <2>6, <2>7, <2>8, SMTT(30)
<1>8. CASE Send(r)
  BY <1>0, <1>8 DEF Send, WalkPassed, tree_vars
<1>9. CASE AfterSend(r)
  <2>1. pc[r] = "sending" /\ UNCHANGED <<visited, current>>
    BY <1>9 DEF AfterSend, tree_vars
  <2>2. CASE unsent[r] # <<>>
    BY <1>0, <1>9, <2>1, <2>2 DEF AfterSend, WalkPassed
  <2>3. CASE unsent[r] = <<>>
    <3> DEFINE p == current[r]
    <3>1. pc'[r] = "walk" /\ queue'[r] = queue[r] \o Tree[p].children
      BY <1>0, <1>9, <2>3 DEF AfterSend, PassChildren
    <3>2. PICK G \in SUBSET Node : Passed(r, queue[r], G, {p}, visited[r])
      BY <2>1 DEF WalkPassed
    <3>3. p \in Node /\ p \in visited[r] \cup Remote[r] /\ queue[r] \in Seq(Node)
      BY <1>0, <3>2 DEF Passed
    <3>4. Passed(r, queue[r] \o Tree[p].children, G \cup {p}, {}, visited[r])
      BY <3>2, <3>3, PassedOn
    <3> QED BY <2>1, <3>1, <3>3, <3>4 DEF WalkPassed
  <2> QED BY <2>2, <2>3
<1> QED
  BY <1>1, <1>2, <1>3, <1>4, <1>5, <1>6, <1>7, <1>8, <1>9
  DEF Move, Step, SendMatched, SendBuffered

(* When a walk ends, it has launched what it has to: all of the tree was   *)
(* passed, or the last layer was launched, which needs all the others.     *)
LEMMA CompleteStep ==
  ASSUME IInv, TensorsOK, NEW r \in Rank, ControlOK(r), WalkPassed(r), WalkComplete(r), Move(r)
  PROVE  WalkComplete(r)'
<1>0. /\ TypeOK /\ pc \in [Rank -> States] /\ queue \in [Rank -> Seq(Node)]
      /\ visited \in [Rank -> SUBSET LayerNode]
  BY DEF IInv, TypeOK
<1>1. CASE WalkEnds(r) \/ FrontOfEmpty(r)
  <2>1. pc[r] = "walk" /\ visited' = visited /\ Waiting(queue[r]) \subseteq DummyNode
    <3>1. CASE WalkEnds(r)
      BY <3>1 DEF WalkEnds, Waiting, tree_vars
    <3>2. CASE FrontOfEmpty(r)
      BY <1>0, <3>2, DeadQueue DEF FrontOfEmpty, Walking, tree_vars
    <3> QED BY <1>1, <3>1, <3>2
  <2>2. PICK G \in SUBSET Node : Passed(r, queue[r], G, {}, visited[r])
    BY <2>1 DEF WalkPassed
  <2>3. LayerNode \subseteq visited[r] \cup Remote[r]
    BY <2>1, <2>2, EverythingPassed
  <2> QED BY <2>1, <2>3 DEF WalkComplete
<1>2. CASE ReadScores(r)
  <2>1. pc[r] = "read" /\ visited' = visited
    BY <1>2 DEF ReadScores, tree_vars
  <2>2. current[r] \in visited[r] /\ Tree[current[r]].layer = LastLayer
    BY <2>1 DEF ControlOK
  <2>3. visited[r] \subseteq LocalTo(r)
    BY <1>0 DEF TensorsOK, RankOK, NodesOK, LocalTo
  <2>4. \A p \in visited[r] : Parents(p) \cap LocalTo(r) \subseteq visited[r]
    BY DEF TensorsOK, RankOK, NodesOK, LocalTo
  <2>5. visited[r] = LocalTo(r)
    BY <2>2, <2>3, <2>4, LastAssumption
  <2> QED BY <2>1, <2>5 DEF WalkComplete, LocalTo
<1>3. CASE ~ WalkEnds(r) /\ ~ FrontOfEmpty(r) /\ ~ ReadScores(r)
  <2> SUFFICES pc'[r] \notin {"done", "undefined"}
    BY DEF WalkComplete
  <2> USE <1>0
  <2>1. CASE Flash(r) \/ BarrierFirst(r) \/ BarrierOther(r)
    BY <2>1 DEF Flash, BarrierFirst, BarrierOther, StartWalk
  <2>2. CASE RecvName(r) \/ RecvDims(r) \/ RecvData(r)
    BY <2>2 DEF RecvName, RecvDims, RecvData, StartWalk
  <2>3. CASE NextLevel(r)
    BY <2>3 DEF NextLevel
  <2>4. CASE PassOn(r) \/ PutBack(r)
    BY <2>4 DEF PassOn, PutBack, Walking, ToLaunch
  <2>5. CASE Launch(r)
    BY <2>5, LaunchControl
  <2>6. CASE MissingArgument(r) \/ Send(r) \/ SendToNobody(r)
    BY <2>6 DEF MissingArgument, Send, SendToNobody
  <2>7. CASE AfterSend(r)
    BY <2>7 DEF AfterSend
  <2>8. CASE Abort(r)
    BY <2>8 DEF Abort
  <2> QED
    BY <1>3, <2>1, <2>2, <2>3, <2>4, <2>5, <2>6, <2>7, <2>8
    DEF Move, Step, SendMatched, SendBuffered
<1> QED BY <1>1, <1>2, <1>3

THEOREM WalksInvariant == Spec => [](\A r \in Rank : WalkPassed(r) /\ WalkComplete(r))
<1> DEFINE Known  == IInv /\ TensorsOK /\ \A r \in Rank : ControlOK(r)
           Walked == \A r \in Rank : WalkPassed(r) /\ WalkComplete(r)
<1>1. Init => Walked
  BY DEF Init, WalkPassed, WalkComplete
<1>2. Known /\ Walked /\ [Next]_vars => Walked'
  <2> SUFFICES ASSUME Known, Walked, [Next]_vars, NEW s \in Rank
               PROVE  WalkPassed(s)' /\ WalkComplete(s)'
    OBVIOUS
  <2>0. TypeOK
    BY DEF IInv
  <2>1. CASE UNCHANGED vars
    BY <2>1 DEF vars, tree_vars, WalkPassed, WalkComplete
  <2>2. ASSUME NEW r \in Rank, Move(r), s # r
        PROVE  WalkPassed(s)' /\ WalkComplete(s)'
    BY <2>0, <2>2, OtherRanks DEF WalkPassed, WalkComplete
  <2> QED BY <2>1, <2>2, PassedStep, CompleteStep DEF Next, Move
<1> QED BY <1>1, <1>2, Inductive, TensorsInvariant, ControlInvariant, PTL DEF Spec

(* A rank whose walk is over has launched every local layer, but for the   *)
(* Reshape: none is stranded in the queue, dropped, or left behind the     *)
(* last convolution, which ends the walk in the middle of the tree.        *)
THEOREM EveryLayerLaunched == Spec => []AllLaunched
<1>1. (\A r \in Rank : WalkPassed(r) /\ WalkComplete(r)) => AllLaunched
  BY DEF WalkComplete, AllLaunched
<1> QED BY <1>1, WalksInvariant, PTL

-----------------------------------------------------------------------------
(* The rank of the last layer.                                             *)

(* It reads the scores after this layer and does not send them on.         *)
ReadsAfter(r, p) == Tree[p].layer = LastLayer /\ ~ Sends(r, p)
Classifies(r)    == \E p \in LocalTo(r) : ReadsAfter(r, p)

(* Its walk is over once it has launched the layer, and not before.        *)
ClassifierOK(r) ==
  /\ \A p \in visited[r] : ReadsAfter(r, p) => pc[r] \in {"read", "done", "aborted"}
  /\ Classifies(r) => /\ pc[r] # "undefined"
                      /\ pc[r] = "done" => result[r] = LastLayer

LEMMA ClassifierStep ==
  ASSUME IInv, TensorsOK, NEW r \in Rank, ControlOK(r), WalkPassed(r), ClassifierOK(r), Move(r)
  PROVE  ClassifierOK(r)'
<1>0. /\ TypeOK /\ pc \in [Rank -> States] /\ queue \in [Rank -> Seq(Node)]
      /\ visited \in [Rank -> SUBSET LayerNode] /\ result \in [Rank -> Tensor]
  BY DEF IInv, TypeOK
<1>1. CASE WalkEnds(r) \/ FrontOfEmpty(r)
  <2>1. pc[r] = "walk" /\ visited' = visited /\ Waiting(queue[r]) \subseteq DummyNode
    <3>1. CASE WalkEnds(r)
      BY <3>1 DEF WalkEnds, Waiting, tree_vars
    <3>2. CASE FrontOfEmpty(r)
      BY <1>0, <3>2, DeadQueue DEF FrontOfEmpty, Walking, tree_vars
    <3> QED BY <1>1, <3>1, <3>2
  <2>2. PICK G \in SUBSET Node : Passed(r, queue[r], G, {}, visited[r])
    BY <2>1 DEF WalkPassed
  <2>3. LocalTo(r) \subseteq visited[r]
    BY <2>1, <2>2, EverythingPassed DEF LocalTo
  <2>4. \A p \in visited[r] : ~ ReadsAfter(r, p)
    BY <2>1 DEF ClassifierOK
  <2> QED BY <2>1, <2>3, <2>4 DEF ClassifierOK, Classifies
<1>2. CASE ReadScores(r)
  <2>1. /\ pc[r] = "read" /\ pc'[r] = "done" /\ visited' = visited
        /\ result'[r] = Buffer(r, outBuf[r][current[r]])
    BY <1>0, <1>2 DEF ReadScores, tree_vars
  <2>2. current[r] \in visited[r] /\ Tree[current[r]].layer = LastLayer
    BY <2>1 DEF ControlOK
  <2>3. result'[r] = LastLayer
    BY <2>1, <2>2 DEF TensorsOK, RankOK, NodesOK
  <2> QED BY <2>1, <2>3 DEF ClassifierOK
<1>3. CASE Launch(r)
  <2>1. pc[r] = "walk" /\ visited'[r] = visited[r] \cup {At(r)}
    BY <1>0, <1>3, LaunchTypes, LaunchControl
  <2>2. \A p \in visited[r] : ~ ReadsAfter(r, p)
    BY <2>1 DEF ClassifierOK
  <2>3. pc'[r] \in {"walk", "send", "read"}
    BY <1>0, <1>3, LaunchGoesOn
  <2>4. ReadsAfter(r, At(r)) => pc'[r] = "read"
    BY <1>0, <1>3, LaunchGoesOn DEF ReadsAfter
  <2> QED BY <2>1, <2>2, <2>3, <2>4 DEF ClassifierOK
<1>4. ASSUME visited' = visited, pc[r] \notin {"read", "done", "aborted"},
             pc'[r] \notin {"done", "undefined"}
      PROVE  ClassifierOK(r)'
  BY <1>4 DEF ClassifierOK
<1> USE <1>0 DEF tree_vars
<1>5. CASE Flash(r) \/ BarrierFirst(r) \/ BarrierOther(r)
  BY <1>4, <1>5 DEF Flash, BarrierFirst, BarrierOther, StartWalk
<1>6. CASE RecvName(r) \/ RecvDims(r) \/ RecvData(r)
  BY <1>4, <1>6 DEF RecvName, RecvDims, RecvData, StartWalk
<1>7. CASE NextLevel(r) \/ PassOn(r) \/ PutBack(r) \/ MissingArgument(r)
  BY <1>4, <1>7 DEF NextLevel, PassOn, PutBack, MissingArgument, Launchable, ToLaunch, Walking
<1>8. CASE Send(r) \/ SendToNobody(r)
  BY <1>4, <1>8 DEF Send, SendToNobody
<1>9. CASE AfterSend(r)
  BY <1>4, <1>9 DEF AfterSend
<1>10. CASE Abort(r)
  BY <1>10 DEF Abort, ClassifierOK
<1> QED
  BY <1>1, <1>2, <1>3, <1>5, <1>6, <1>7, <1>8, <1>9, <1>10
  DEF Move, Step, SendMatched, SendBuffered

LEMMA ClassifierInvariant == Spec => [](\A r \in Rank : ClassifierOK(r))
<1> DEFINE Known == /\ IInv /\ TensorsOK /\ \A r \in Rank : ControlOK(r)
                    /\ \A r \in Rank : WalkPassed(r) /\ WalkComplete(r)
           Class == \A r \in Rank : ClassifierOK(r)
<1>1. Init => Class
  BY DEF Init, ClassifierOK
<1>2. Known /\ Class /\ [Next]_vars => Class'
  <2> SUFFICES ASSUME Known, Class, [Next]_vars, NEW s \in Rank
               PROVE  ClassifierOK(s)'
    OBVIOUS
  <2>0. TypeOK
    BY DEF IInv
  <2>1. CASE UNCHANGED vars
    BY <2>1 DEF vars, tree_vars, ClassifierOK
  <2>2. ASSUME NEW r \in Rank, Move(r), s # r
        PROVE  ClassifierOK(s)'
    BY <2>0, <2>2, OtherRanks, OtherTrees DEF ClassifierOK
  <2> QED BY <2>1, <2>2, ClassifierStep DEF Next, Move
<1> QED
  BY <1>1, <1>2, Inductive, TensorsInvariant, ControlInvariant, WalksInvariant, PTL
  DEF Spec

(* The rank that holds the last layer never takes the front of an empty    *)
(* queue, and launcher_global does not return there without the scores of  *)
(* that layer, computed from what they should be: it never leaves the walk *)
(* by the end of the tree.  Only a rank that has to send the last layer to *)
(* the next one can get there.                                             *)
THEOREM ClassifierEnds ==
  Spec => [](\A r \in Rank : Classifies(r) =>
               /\ pc[r] # "undefined"
               /\ pc[r] = "done" => result[r] = LastLayer)
<1>1. (\A r \in Rank : ClassifierOK(r)) =>
        \A r \in Rank : Classifies(r) => /\ pc[r] # "undefined"
                                         /\ pc[r] = "done" => result[r] = LastLayer
  BY DEF ClassifierOK
<1> QED BY <1>1, ClassifierInvariant, PTL

-----------------------------------------------------------------------------
(* The walk never goes round and round.                                    *)

(* Of the layers that were not passed, the one nearest to the image waits: *)
(* the walk has passed its parents, so it can pass or launch this one.     *)
LEMMA SomethingPassable ==
  ASSUME TypeOK, NEW r \in Rank, pc[r] = "walk", WalkPassed(r), ClassifierOK(r),
         HasLive(queue[r])
  PROVE  \E k \in DOMAIN queue[r] :
           queue[r][k] \notin DummyNode /\ Passable(r, queue[r][k])
<1>1. PICK G \in SUBSET Node : Passed(r, queue[r], G, {}, visited[r])
  BY DEF WalkPassed
<1> DEFINE S == LayerNode \ G
           D == {Depth[Tree[p].layer] : p \in S}
<1>2. CASE S = {}
  <2>1. PICK k \in DOMAIN queue[r] : queue[r][k] \notin DummyNode
    BY DEF HasLive, IsFirstLive
  <2>2. PICK p : p = queue[r][k]
    OBVIOUS
  <2>3. p \in Node
    BY <2>1, <2>2, LenProperties, ElementOfSeq DEF TypeOK
  <2>4. p \in Remote[r] \cup visited[r]
    <3>1. CASE p \in LayerNode
      BY <1>1, <1>2, <3>1 DEF Passed
    <3>2. CASE p \notin LayerNode
      BY <2>3, <3>2 DEF LayerNode, Remote, get_program_num
    <3> QED BY <3>1, <3>2
  <2> QED BY <2>1, <2>2, <2>4 DEF Passable
<1>3. CASE S # {}
  <2>1. D \in SUBSET Nat /\ D # {}
    BY <1>3, TreeAssumption, OrderAssumption
  <2>2. PICK d \in D : \A e \in D : ~ (e < d)
    <3> HIDE DEF D
    <3> QED BY <2>1, SmallestPosition
  <2>3. PICK p \in S : \A q \in S : ~ (Depth[Tree[q].layer] < Depth[Tree[p].layer])
    BY <2>2
  <2>4. Parents(p) \subseteq G
    BY <2>3, ParentsAreLayers, OrderAssumption
  <2>5. p \in Node /\ p \notin G /\ p \notin DummyNode
    BY <2>3 DEF LayerNode, DummyNode, IsLayer
  <2>6. p \in Waiting(queue[r])
    <3>1. CASE p = Root
      BY <1>1, <2>5, <3>1 DEF Passed
    <3>2. CASE p # Root
      <4>1. PICK q \in Parents(p) : p \in Children(q)
        BY <2>3, <3>2, OrderAssumption
      <4> QED BY <1>1, <2>4, <2>5, <4>1 DEF Passed
    <3> QED BY <3>1, <3>2
  <2>7. Parents(p) \subseteq visited[r] \cup Remote[r]
    BY <1>1, <2>4 DEF Passed
  <2>8. Passable(r, p)
    <3> DEFINE l == Tree[p].layer
    <3>1. CASE p \in Remote[r]
      BY <3>1 DEF Passable
    <3>2. CASE p \notin Remote[r] /\ Type[l] = "Reshape"
      <4>1. PICK q \in LocalTo(r) : Parents(p) = {q} /\ ReadsAfter(r, q)
        BY <2>3, <3>2, WaitAssumption DEF ReadsAfter
      <4>2. q \in visited[r]
        BY <2>7, <4>1 DEF LocalTo
      <4> QED BY <4>1, <4>2 DEF ClassifierOK
    <3>3. CASE p \notin Remote[r] /\ Type[l] # "Reshape"
      <4>1. Type[l] = "Concat" => Parents(p) \cap Remote[r] = {}
        BY <2>3, <3>3, WaitAssumption
      <4> QED BY <2>7, <3>3, <4>1 DEF Passable, Ready, Strict
    <3> QED BY <3>1, <3>2, <3>3
  <2> QED BY <2>5, <2>6, <2>8 DEF Waiting
<1> QED BY <1>2, <1>3

(* No rank walks for ever around layers that are never ready.              *)
THEOREM WalksGoOn == Spec => []WalkGoesOn
<1>1. /\ IInv
      /\ \A r \in Rank : WalkPassed(r) /\ WalkComplete(r)
      /\ \A r \in Rank : ClassifierOK(r)
      => WalkGoesOn
  BY SomethingPassable DEF IInv, WalkGoesOn, Spins
<1> QED BY <1>1, Inductive, WalksInvariant, ClassifierInvariant, PTL

-----------------------------------------------------------------------------
(* Nobody waits for ever.  A rank has one output for the next one, three   *)
(* messages, and what became of them can be counted: those the next rank   *)
(* has taken, those on the way, and those still to send.                   *)

Taken(r) ==
  CASE pc[r] \in {"flash", "barrier", "recvName"} -> 0
    [] pc[r] = "recvDims" -> 1
    [] pc[r] = "recvData" -> 2
    [] OTHER              -> 3

Gave(r) == IF Sent(r, visited[r]) = {} THEN 0 ELSE 3

CountOK(r) ==
  pc[r] # "aborted" =>
    Len(channel[r - 1]) + Len(unsent[r - 1]) + Taken(r) = Gave(r - 1)

Receives(r) == RecvName(r) \/ RecvDims(r) \/ RecvData(r)

LEMMA OneReceived ==
  ASSUME IInv, NEW r \in Rank, Receives(r)
  PROVE  /\ r - 1 \in Rank /\ r # 0 /\ pc[r] # "aborted" /\ Taken(r)' = Taken(r) + 1
         /\ channel[r - 1] # <<>> /\ channel' = [channel EXCEPT ![r - 1] = Tail(@)]
         /\ unsent' = unsent /\ visited' = visited
<1>0. pc \in [Rank -> States]
  BY DEF IInv, TypeOK
<1>1. r # 0
  BY DEF Receives, RecvName, RecvDims, RecvData, IInv, ReceiversOK
<1>2. r - 1 \in Rank
  BY <1>1, RankAssumption DEF Rank
<1>3. CASE RecvName(r)
  BY <1>0, <1>1, <1>2, <1>3 DEF RecvName, Taken, tree_vars
<1>4. CASE RecvDims(r)
  BY <1>0, <1>1, <1>2, <1>4 DEF RecvDims, Taken, tree_vars
<1>5. CASE RecvData(r)
  BY <1>0, <1>1, <1>2, <1>5 DEF RecvData, StartWalk, Taken
<1> QED BY <1>3, <1>4, <1>5 DEF Receives

(* A rank that does anything else has taken as much as before.             *)
LEMMA NoneReceived ==
  ASSUME TypeOK, NEW r \in Rank, r # 0, Move(r), ~ Receives(r), pc'[r] # "aborted"
  PROVE  pc[r] # "aborted" /\ Taken(r)' = Taken(r)
<1>0. pc \in [Rank -> States]
  BY DEF TypeOK
<1> USE <1>0 DEF Taken
<1>1. CASE Flash(r) \/ BarrierOther(r)
  BY <1>1 DEF Flash, BarrierOther
<1>2. CASE NextLevel(r) \/ WalkEnds(r) \/ FrontOfEmpty(r)
  BY <1>2 DEF NextLevel, WalkEnds, FrontOfEmpty, Walking
<1>3. CASE PassOn(r) \/ PutBack(r) \/ MissingArgument(r)
  BY <1>3 DEF PassOn, PutBack, MissingArgument, Launchable, ToLaunch, Walking
<1>4. CASE Launch(r)
  <2>1. pc[r] = "walk" /\ \E new \in {"walk", "send", "read"} : pc' = [pc EXCEPT ![r] = new]
    BY <1>4, LaunchControl
  <2> QED BY <2>1
<1>5. CASE ReadScores(r) \/ Send(r) \/ SendToNobody(r)
  BY <1>5 DEF ReadScores, Send, SendToNobody
<1>6. CASE AfterSend(r)
  BY <1>6 DEF AfterSend
<1>7. ~ BarrierFirst(r)
  BY DEF BarrierFirst
<1>8. ~ Abort(r)
  BY DEF Abort
<1> QED
  BY <1>1, <1>2, <1>3, <1>4, <1>5, <1>6, <1>7, <1>8
  DEF Move, Step, SendMatched, SendBuffered, Receives

(* The messages a rank has to give, and has given, change by its own steps *)
(* only: a launch may add three, a send takes one from here to there.      *)
LEMMA Given ==
  ASSUME IInv, NEW r \in Rank, Move(r), ~ Receives(r), NEW q \in Rank
  PROVE  /\ (Len(channel[q]) + Len(unsent[q]))' - Gave(q)'
              = Len(channel[q]) + Len(unsent[q]) - Gave(q)
         /\ Len(channel[q]) \in Nat /\ Len(unsent[q]) \in Nat
<1>0. /\ TypeOK /\ visited \in [Rank -> SUBSET LayerNode]
      /\ channel \in [Rank -> Seq(Message)] /\ unsent \in [Rank -> Seq(Message)]
      /\ Len(channel[q]) \in Nat /\ Len(unsent[q]) \in Nat
  BY LenProperties DEF IInv, TypeOK
<1>1. Gave(q) \in Nat
  BY DEF Gave
<1>2. CASE channel'[q] = channel[q] /\ unsent'[q] = unsent[q] /\ visited'[q] = visited[q]
  BY <1>0, <1>1, <1>2 DEF Gave
<1>3. CASE Still(r) \/ BarrierFirst(r)
  BY <1>2, <1>3 DEF Still, BarrierFirst, tree_vars
<1>4. CASE Send(r)
  <2>1. /\ unsent[r] # <<>> /\ visited' = visited
        /\ channel' = [channel EXCEPT ![r] = Append(@, Head(unsent[r]))]
        /\ unsent' = [unsent EXCEPT ![r] = Tail(@)]
    BY <1>4 DEF Send, IInv, SendersOK, tree_vars
  <2>2. CASE q # r
    BY <1>0, <1>2, <2>1, <2>2
  <2>3. CASE q = r
    <3>1. channel'[q] = Append(channel[q], Head(unsent[q])) /\ unsent'[q] = Tail(unsent[q])
      BY <1>0, <2>1, <2>3
    <3>2. Len(Tail(unsent[q])) = Len(unsent[q]) - 1
      BY <1>0, <2>1, <2>3
    <3>3. Head(unsent[q]) \in Message
      BY <1>0, <2>1, <2>3
    <3>4. Len(Append(channel[q], Head(unsent[q]))) = Len(channel[q]) + 1
      BY <1>0, <3>3, AppendProperties
    <3>5. Gave(q)' = Gave(q)
      BY <2>1 DEF Gave
    <3>6. PICK a \in Nat, b \in Nat, g \in Nat :
            a = Len(channel[q]) /\ b = Len(unsent[q]) /\ g = Gave(q)
      BY <1>0, <1>1
    <3>7. Len(channel'[q]) = a + 1 /\ Len(unsent'[q]) = b - 1 /\ Gave(q)' = g
      BY <3>1, <3>2, <3>4, <3>5, <3>6
    <3> QED BY <1>0, <3>6, <3>7
  <2> QED BY <2>2, <2>3
<1>5. CASE Launch(r)
  <2>1. /\ channel' = channel /\ At(r) \in LayerNode /\ At(r) \notin visited[r]
        /\ visited' = [visited EXCEPT ![r] = @ \cup {At(r)}] /\ pc[r] = "walk"
    BY <1>0, <1>5, LaunchTypes, LaunchControl
  <2>2. CASE q # r
    <3>1. unsent'[q] = unsent[q]
      BY <1>0, <2>2, OtherTrees
    <3> QED BY <1>0, <1>2, <2>1, <2>2, <3>1
  <2>3. CASE q = r
    <3>1. unsent[q] = <<>> /\ visited'[q] = visited[q] \cup {At(r)}
      BY <1>0, <2>1, <2>3 DEF IInv, SendersOK
    <3>2. CASE Sends(r, At(r))
      <4>1. pc'[r] = "send"
        BY <1>0, <1>5, <3>2, LaunchGoesOn
      <4>2. PICK l \in Layer, t \in Tensor : unsent' = [unsent EXCEPT ![r] = Messages(l, t)]
        BY <1>0, <1>5, <4>1, LaunchControl
      <4>3. Len(unsent'[q]) = 3
        BY <1>0, <2>3, <4>2 DEF Messages
      <4>4. Sent(q, visited[q]) = {}
        BY <1>0, <2>1, <2>3, <3>2, CutAssumption DEF Sent
      <4>5. Sent(q, visited'[q]) # {}
        BY <2>3, <3>1, <3>2 DEF Sent
      <4>6. Gave(q) = 0 /\ Gave(q)' = 3
        BY <4>4, <4>5 DEF Gave
      <4>7. Len(unsent[q]) = 0 /\ channel'[q] = channel[q]
        BY <2>1, <3>1
      <4> QED BY <1>0, <4>3, <4>6, <4>7
    <3>3. CASE ~ Sends(r, At(r))
      <4>1. pc'[r] # "send"
        BY <1>0, <1>5, <3>3, LaunchGoesOn
      <4>2. unsent' = unsent
        BY <1>0, <1>5, <4>1, LaunchControl
      <4>3. Sent(q, visited'[q]) = Sent(q, visited[q])
        BY <2>3, <3>1, <3>3 DEF Sent
      <4>4. Gave(q)' = Gave(q)
        BY <4>3 DEF Gave
      <4> QED BY <1>0, <1>1, <2>1, <4>2, <4>4
    <3> QED BY <3>2, <3>3
  <2> QED BY <2>2, <2>3
<1>6. Still(r) \/ BarrierFirst(r) \/ Send(r) \/ Launch(r)
  BY <1>0, MoveCases DEF Receives
<1> QED BY <1>0, <1>3, <1>4, <1>5, <1>6

LEMMA CountStep ==
  ASSUME IInv, NEW r \in Rank, Move(r), NEW s \in Rank \ {0}, CountOK(s)
  PROVE  CountOK(s)'
<1>1. PICK d \in Rank : d = s - 1
  BY RankAssumption DEF Rank
<1> DEFINE On == Len(channel[d]) + Len(unsent[d])
<1>2. /\ pc[s] # "aborted" => On + Taken(s) = Gave(d)
      /\ (pc'[s] # "aborted" => (On + Taken(s) = Gave(d))') => CountOK(s)'
  BY <1>1 DEF CountOK
<1>3. /\ TypeOK /\ pc \in [Rank -> States] /\ s \in Rank /\ s # 0
      /\ channel \in [Rank -> Seq(Message)] /\ channel[d] \in Seq(Message)
      /\ Len(channel[d]) \in Nat /\ Len(unsent[d]) \in Nat
      /\ Taken(s) \in Nat /\ Gave(d) \in Nat
  BY LenProperties DEF IInv, TypeOK, Taken, Gave
<1>4. TypeOK' /\ Len(channel'[d]) \in Nat /\ Len(unsent'[d]) \in Nat /\ Gave(d)' \in Nat
  <2>1. TypeOK'
    BY TypeStep DEF Next, Move
  <2> QED BY <2>1, LenProperties DEF TypeOK, Gave
<1>5. PICK a \in Nat, b \in Nat, t \in Nat, g \in Nat :
        a = Len(channel[d]) /\ b = Len(unsent[d]) /\ t = Taken(s) /\ g = Gave(d)
  BY <1>3
<1>6. PICK a1 \in Nat, b1 \in Nat, g1 \in Nat :
        a1 = Len(channel'[d]) /\ b1 = Len(unsent'[d]) /\ g1 = Gave(d)'
  BY <1>4
<1> SUFFICES ASSUME pc'[s] # "aborted"
             PROVE  (On + Taken(s) = Gave(d))'
  BY <1>2
<1>7. CASE Receives(r)
  <2>1. /\ r - 1 \in Rank /\ pc[r] # "aborted" /\ Taken(r)' = Taken(r) + 1
        /\ channel[r - 1] # <<>> /\ channel' = [channel EXCEPT ![r - 1] = Tail(@)]
        /\ unsent' = unsent /\ visited' = visited
    BY <1>7, OneReceived
  <2>2. b1 = b /\ g1 = g
    BY <1>5, <1>6, <2>1 DEF Gave
  <2>3. CASE s = r
    <3>1. channel'[d] = Tail(channel[d]) /\ channel[d] # <<>>
      BY <1>1, <1>3, <2>1, <2>3
    <3>2. Len(channel'[d]) = Len(channel[d]) - 1
      BY <1>3, <3>1
    <3>3. a + b + t = g
      BY <1>2, <1>5, <2>1, <2>3
    <3>4. a1 = a - 1 /\ Taken(s)' = t + 1
      BY <1>5, <1>6, <2>1, <2>3, <3>2
    <3>5. a1 + b1 + (t + 1) = g1
      BY <2>2, <3>3, <3>4
    <3> QED BY <1>6, <3>4, <3>5
  <2>4. CASE s # r
    <3>1. r - 1 # d
      BY <1>1, <2>4 DEF Rank
    <3>2. channel'[d] = channel[d]
      BY <1>3, <2>1, <3>1
    <3>3. pc'[s] = pc[s]
      BY <1>3, <2>4, OtherRanks
    <3>4. Taken(s)' = Taken(s)
      BY <3>3 DEF Taken
    <3>5. a + b + t = g /\ a1 = a
      BY <1>2, <1>5, <1>6, <3>2, <3>3
    <3> QED BY <1>5, <1>6, <2>2, <3>4, <3>5
  <2> QED BY <2>3, <2>4
<1>8. CASE ~ Receives(r)
  <2>1. pc[s] # "aborted" /\ Taken(s)' = Taken(s)
    <3>1. CASE s = r
      BY <1>3, <1>8, <3>1, NoneReceived
    <3>2. CASE s # r
      <4>1. pc'[s] = pc[s]
        BY <1>3, <3>2, OtherRanks
      <4> QED BY <4>1 DEF Taken
    <3> QED BY <3>1, <3>2
  <2>2. (a1 + b1) - g1 = a + b - g
    BY <1>5, <1>6, <1>8, Given
  <2>3. a + b + t = g
    BY <1>2, <1>5, <2>1
  <2>4. a1 + b1 + t = g1
    BY <2>2, <2>3
  <2> QED BY <1>5, <1>6, <2>1, <2>4
<1> QED BY <1>7, <1>8

(* A job is aborted after a failure, and only a rank before another sends. *)
JobOK ==
  /\ (\E r \in Rank : pc[r] = "aborted") => \E r \in Rank : pc[r] = "failed"
  /\ \A r \in Rank : pc[r] = "sending" => r + 1 \in Rank

LEMMA JobStep ==
  ASSUME TypeOK, JobOK, NEW r \in Rank, Move(r)
  PROVE  JobOK'
<1>0. pc \in [Rank -> States]
  BY DEF TypeOK
<1>1. ASSUME pc[r] # "failed", NEW p, p # "aborted", p # "sending", pc' = [pc EXCEPT ![r] = p]
      PROVE  JobOK'
  BY <1>0, <1>1 DEF JobOK
<1>2. CASE Flash(r) \/ BarrierFirst(r) \/ BarrierOther(r) \/ Receives(r)
  BY <1>1, <1>2 DEF Flash, BarrierFirst, BarrierOther, Receives, RecvName, RecvDims,
                    RecvData, StartWalk
<1>3. CASE NextLevel(r) \/ PassOn(r) \/ PutBack(r)
  BY <1>3 DEF NextLevel, PassOn, PutBack, JobOK
<1>4. CASE WalkEnds(r) \/ FrontOfEmpty(r) \/ MissingArgument(r)
  BY <1>1, <1>4 DEF WalkEnds, FrontOfEmpty, MissingArgument, Launchable, ToLaunch, Walking
<1>5. CASE Launch(r)
  <2>1. pc[r] = "walk" /\ \E new \in {"walk", "send", "read"} : pc' = [pc EXCEPT ![r] = new]
    BY <1>5, LaunchControl
  <2> QED BY <1>1, <2>1
<1>6. CASE ReadScores(r) \/ SendToNobody(r)
  BY <1>1, <1>6 DEF ReadScores, SendToNobody
<1>7. CASE Send(r)
  BY <1>0, <1>7 DEF Send, JobOK
<1>8. CASE AfterSend(r)
  BY <1>1, <1>8 DEF AfterSend
<1>9. CASE Abort(r)
  BY <1>0, <1>9 DEF Abort, JobOK
<1> QED
  BY <1>2, <1>3, <1>4, <1>5, <1>6, <1>7, <1>8, <1>9
  DEF Move, Step, SendMatched, SendBuffered, Receives

(* Who is done has sent all it had to send.                                *)
SentOut == \A r \in Rank : pc[r] \in {"done", "undefined"} => unsent[r] = <<>>

LEMMA SentOutStep ==
  ASSUME IInv, SentOut, NEW r \in Rank, Move(r)
  PROVE  SentOut'
<1>0. TypeOK /\ pc \in [Rank -> States]
  BY DEF IInv, TypeOK
<1>1. ASSUME NEW s \in Rank \ {r}, pc'[s] \in {"done", "undefined"}
      PROVE  unsent'[s] = <<>>
  BY <1>0, <1>1, OtherRanks, OtherTrees DEF SentOut
<1>2. ASSUME pc'[r] \in {"done", "undefined"}
      PROVE  unsent'[r] = <<>>
  <2>1. CASE WalkEnds(r) \/ FrontOfEmpty(r) \/ ReadScores(r)
    BY <2>1 DEF WalkEnds, FrontOfEmpty, ReadScores, Walking, IInv, SendersOK
  <2> SUFFICES ASSUME ~ WalkEnds(r), ~ FrontOfEmpty(r), ~ ReadScores(r)
               PROVE  pc'[r] \notin {"done", "undefined"} \/ (unsent' = unsent /\ pc' = pc)
    BY <1>2, <2>1 DEF SentOut
  <2>2. CASE Flash(r) \/ BarrierFirst(r) \/ BarrierOther(r) \/ Receives(r)
    BY <1>0, <2>2 DEF Flash, BarrierFirst, BarrierOther, Receives, RecvName, RecvDims,
                      RecvData, StartWalk
  <2>3. CASE NextLevel(r) \/ PassOn(r) \/ PutBack(r)
    BY <2>3 DEF NextLevel, PassOn, PutBack
  <2>4. CASE MissingArgument(r) \/ SendToNobody(r)
    BY <1>0, <2>4 DEF MissingArgument, SendToNobody
  <2>5. CASE Launch(r)
    <3>1. \E new \in {"walk", "send", "read"} : pc' = [pc EXCEPT ![r] = new]
      BY <1>0, <2>5, LaunchControl
    <3> QED BY <1>0, <3>1
  <2>6. CASE Send(r) \/ AfterSend(r) \/ Abort(r)
    BY <1>0, <2>6 DEF Send, AfterSend, Abort
  <2> QED
    BY <2>2, <2>3, <2>4, <2>5, <2>6
    DEF Move, Step, SendMatched, SendBuffered, Receives
<1> QED BY <1>1, <1>2 DEF SentOut

LEMMA CountInvariant ==
  Spec => [](JobOK /\ SentOut /\ \A r \in Rank \ {0} : CountOK(r))
<1> DEFINE Counted == JobOK /\ SentOut /\ \A r \in Rank \ {0} : CountOK(r)
<1>1. Init => Counted
  <2> SUFFICES ASSUME Init PROVE Counted
    OBVIOUS
  <2>1. JobOK /\ SentOut
    BY DEF Init, JobOK, SentOut
  <2>2. ASSUME NEW r \in Rank \ {0} PROVE CountOK(r)
    <3>1. r - 1 \in Rank
      BY RankAssumption DEF Rank
    <3>2. Len(channel[r - 1]) = 0 /\ Len(unsent[r - 1]) = 0 /\ visited[r - 1] = {}
      BY <3>1 DEF Init
    <3>3. Taken(r) = 0 /\ Gave(r - 1) = 0
      BY <3>2 DEF Init, Taken, Gave, Sent
    <3> QED BY <3>2, <3>3 DEF CountOK
  <2> QED BY <2>1, <2>2
<1>2. IInv /\ Counted /\ [Next]_vars => Counted'
  <2> SUFFICES ASSUME IInv, Counted, [Next]_vars PROVE Counted'
    OBVIOUS
  <2>1. CASE UNCHANGED vars
    BY <2>1 DEF vars, tree_vars, JobOK, SentOut, CountOK, Taken, Gave
  <2>2. ASSUME NEW r \in Rank, Move(r) PROVE Counted'
    BY <2>2, JobStep, SentOutStep, CountStep DEF IInv
  <2> QED BY <2>1, <2>2 DEF Next, Move
<1> QED BY <1>1, <1>2, Inductive, PTL DEF Spec

(* Who waits for a message waits for the rank before it, and that one has  *)
(* launched, and sent, all it ever will; who waits to be rid of one waits  *)
(* for a rank that receives.                                               *)
LEMMA NobodyWaits ==
  ASSUME IInv, JobOK, SentOut, \A r \in Rank \ {0} : CountOK(r), \A r \in Rank : WalkComplete(r),
         \A r \in Rank : Waits(r) \/ Ended(r), \A r \in Rank : pc[r] # "failed"
  PROVE  \A r \in Rank : Ended(r)
<1>0. /\ pc \in [Rank -> States] /\ channel \in [Rank -> Seq(Message)]
      /\ unsent \in [Rank -> Seq(Message)]
      /\ \A r \in Rank : Len(channel[r]) \in Nat /\ Len(unsent[r]) \in Nat
  BY LenProperties DEF IInv, TypeOK
<1>1. \A r \in Rank : pc[r] # "aborted"
  BY DEF JobOK
<1>2. \A r \in Rank : pc[r] \notin {"flash", "barrier"}
  BY DEF Waits, Ended
<1>3. ASSUME NEW r \in Rank, pc[r] = "sending" PROVE FALSE
  <2>1. r + 1 \in Rank \ {0} /\ (r + 1) - 1 = r
    BY <1>3 DEF JobOK, Rank
  <2>2. channel[r] # <<>>
    BY <1>3 DEF Waits, Ended
  <2>3. Len(channel[r]) # 0
    BY <1>0, <2>2
  <2>4. Len(channel[r]) + Len(unsent[r]) + Taken(r + 1) = Gave(r)
    BY <1>1, <2>1 DEF CountOK
  <2>5. Taken(r + 1) < 3
    BY <1>0, <2>3, <2>4 DEF Gave, Taken
  <2>6. pc[r + 1] \in {"recvName", "recvDims", "recvData"}
    BY <1>2, <2>1, <2>5 DEF Taken
  <2> QED BY <2>1, <2>2, <2>6 DEF Waits, Ended
<1> DEFINE W == {r \in Rank : ~ Ended(r)}
<1> SUFFICES ASSUME W # {} PROVE FALSE
  OBVIOUS
<1>4. W \in SUBSET Nat
  BY RankAssumption DEF Rank
<1>5. PICK r \in W : \A q \in W : ~ (q < r)
  <2> HIDE DEF W
  <2> QED BY <1>4, SmallestPosition
<1>6. pc[r] \in {"recvName", "recvDims", "recvData"} /\ channel[r - 1] = <<>>
  BY <1>2, <1>3, <1>5 DEF Waits
<1>7. r \in Rank \ {0}
  BY <1>5, <1>6 DEF IInv, ReceiversOK
<1>8. r - 1 \in Rank /\ r - 1 < r /\ (r - 1) + 1 \in Rank
  BY <1>7, RankAssumption DEF Rank
<1>9. pc[r - 1] \in {"done", "undefined"}
  <2>1. Ended(r - 1)
    BY <1>5, <1>8
  <2> QED BY <1>1, <1>8, <2>1 DEF Ended
<1>10. PICK p \in LayerNode : Sends(r - 1, p)
  BY <1>8, WaitAssumption
<1>11. p \in visited[r - 1]
  <2>1. p \notin Remote[r - 1] /\ Type[Tree[p].layer] # "Reshape"
    BY <1>8, <1>10 DEF Sends, Remote
  <2> QED BY <1>8, <1>9, <2>1 DEF WalkComplete
<1>12. Gave(r - 1) = 3
  BY <1>10, <1>11 DEF Gave, Sent
<1>13. Len(channel[r - 1]) = 0 /\ Taken(r) \in 0 .. 2
  BY <1>6 DEF Taken
<1>14. Len(unsent[r - 1]) # 0
  BY <1>0, <1>1, <1>7, <1>8, <1>12, <1>13 DEF CountOK
<1> QED BY <1>0, <1>8, <1>9, <1>14 DEF SentOut

(* Whenever nobody can go on, every rank has ended.  A rank whose walk has *)
(* begun goes on, since what may be launched among the least deep is ready *)
(* (WalksGoOn); messages are counted, and the smallest rank that waits     *)
(* would wait for one that the rank before it has sent.                    *)
THEOREM NobodyStuck == Spec => []NoDeadlock
<1> DEFINE Counted == JobOK /\ SentOut /\ \A r \in Rank \ {0} : CountOK(r)
           Complete == \A r \in Rank : WalkPassed(r) /\ WalkComplete(r)
<1>1. IInv /\ Counted /\ Complete /\ WalkGoesOn => NoDeadlock
  BY NobodyWaits DEF NoDeadlock, WalkGoesOn
<1> QED BY <1>1, Inductive, CountInvariant, WalksInvariant, WalksGoOn, PTL

=============================================================================
