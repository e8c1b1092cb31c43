-------------------------- MODULE LayerTree_proofs --------------------------
(***************************************************************************)
(* Theorems about the parse for every network: the types, one node per     *)
(* layer, and parents that lie above their children.                       *)
(*                                                                         *)
(* isDuplicate catches every layer but the root, whose ID is not in        *)
(* ID_list.  The root is never met again because an IR is acyclic: every   *)
(* active call of parse_child is for a layer below the root.               *)
(***************************************************************************)
EXTENDS LayerTree, SequenceTheorems, WellFoundedInduction, TLAPS

NodeSet(D) == [kind : Kinds, id : Nat, children : Seq(D), parents : Seq(D)]
FrameSet(D) == [layer : LayersOf(net), owner : D, result : D, next : Nat \ {0}]

(* The layers of node i lie above layer l, or are l.                       *)
NotBelow(i, l) ==
  \A m \in LayersOf(net) : net.id[m] = tree[i].id => net.depth[m] <= net.depth[l]

(* A layer, or the dummy of one.                                           *)
Stands(i) == tree[i].kind \in {"layer", "dummy"}

StackOK ==
  /\ phase = "root" => tree = <<>>
  /\ phase = "parse" => stack # <<>>

(* Calls work for a layer that is not below the one they look at, and stay *)
(* below the root.                                                         *)
FramesOK ==
  \A k \in DOMAIN stack :
    /\ stack[k].owner \in LayerNodes
    /\ NotBelow(stack[k].owner, stack[k].layer)
    /\ it <= Len(net.order)
    /\ net.depth[net.order[it]] <= net.depth[stack[k].layer]

RootOK ==
  phase # "root" /\ tree # <<>> =>
    /\ it <= Len(net.order)
    /\ tree[1].id = net.id[net.order[it]]

IDsOK == \A i \in LayerNodes : i # 1 => tree[i].id \in ID_list

DummiesOK ==
  \A i \in DOMAIN tree :
    /\ tree[i].kind = "dummy" => tree[i].parents # <<>>
    /\ Stands(i) => \A k \in DOMAIN tree[i].parents :
         LET p == tree[i].parents[k] IN
           /\ p \in LayerNodes
           /\ \A l, m \in LayersOf(net) :
                net.id[l] = tree[p].id /\ net.id[m] = tree[i].id
                  => net.depth[l] < net.depth[m]

IInv ==
  /\ TypeOK /\ StackOK /\ FramesOK /\ RootOK /\ IDsOK /\ DummiesOK
  /\ OneNodePerLayer

-----------------------------------------------------------------------------
(* Trees as sequences of nodes.                                            *)

LEMMA GrowTree ==
  ASSUME NEW D, NEW E, D \subseteq E, NEW t \in Seq(NodeSet(D))
  PROVE  t \in Seq(NodeSet(E))
<1>1. Seq(D) \subseteq Seq(E)
  BY SeqMonotonic
<1>2. NodeSet(D) \subseteq NodeSet(E)
  BY <1>1 DEF NodeSet
<1> QED BY <1>2, SeqMonotonic

LEMMA PushNode ==
  ASSUME NEW D, NEW t \in Seq(NodeSet(D)), NEW i \in DOMAIN t, NEW c \in D
  PROVE  /\ PushChild(t, i, c) \in Seq(NodeSet(D))
         /\ Len(PushChild(t, i, c)) = Len(t)
         /\ \A j \in DOMAIN t : /\ PushChild(t, i, c)[j].kind = t[j].kind
                                /\ PushChild(t, i, c)[j].id = t[j].id
                                /\ PushChild(t, i, c)[j].parents = t[j].parents
<1> DEFINE x == [t[i] EXCEPT !.children = Append(@, c)]
<1>1. DOMAIN t = 1 .. Len(t)
  BY LenProperties
<1>2. t[i] \in NodeSet(D)
  BY <1>1, ElementOfSeq
<1>3. Append(t[i].children, c) \in Seq(D)
  BY <1>2, AppendProperties DEF NodeSet
<1>4. /\ x \in NodeSet(D)
      /\ x.kind = t[i].kind /\ x.id = t[i].id /\ x.parents = t[i].parents
  BY <1>2, <1>3 DEF NodeSet
<1>5. PushChild(t, i, c) = [t EXCEPT ![i] = x]
  BY DEF PushChild
<1> HIDE DEF x
<1>6. /\ PushChild(t, i, c) \in Seq(NodeSet(D))
      /\ Len(PushChild(t, i, c)) = Len(t)
      /\ \A j \in DOMAIN t : PushChild(t, i, c)[j] = IF j = i THEN x ELSE t[j]
  BY <1>1, <1>4, <1>5, ExceptSeq
<1> QED BY <1>4, <1>6

LEMMA AddNode ==
  ASSUME NEW t, NEW n \in Nat, Len(t) = n, t \in Seq(NodeSet(1 .. n + 1)),
         NEW x \in NodeSet(1 .. n + 1)
  PROVE  /\ Append(t, x) \in Seq(NodeSet(DOMAIN Append(t, x)))
         /\ DOMAIN Append(t, x) = 1 .. n + 1
         /\ \A j \in 1 .. n : Append(t, x)[j] = t[j]
         /\ Append(t, x)[n + 1] = x
<1>1. /\ Append(t, x) \in Seq(NodeSet(1 .. n + 1))
      /\ Len(Append(t, x)) = n + 1
      /\ \A j \in 1 .. n : Append(t, x)[j] = t[j]
      /\ Append(t, x)[n + 1] = x
  BY AppendProperties
<1>2. DOMAIN Append(t, x) = 1 .. n + 1
  BY <1>1, LenProperties
<1> QED BY <1>1, <1>2

LEMMA LayerFacts ==
  ASSUME NEW g, IsNetwork(g), NEW l \in LayersOf(g)
  PROVE  /\ g.id[l] \in Nat /\ g.depth[l] \in Nat
         /\ g.succ[l] \in Seq(LayersOf(g))
         /\ \A k \in 1 .. Len(g.succ[l]) :
              /\ g.succ[l][k] \in LayersOf(g)
              /\ g.depth[l] < g.depth[g.succ[l][k]]
<1>1. /\ g.id[l] \in Nat /\ g.depth[l] \in Nat
      /\ g.succ[l] \in Seq(LayersOf(g))
  BY DEF IsNetwork
<1>2. DOMAIN g.succ[l] = 1 .. Len(g.succ[l])
  BY <1>1, LenProperties
<1>3. \A k \in 1 .. Len(g.succ[l]) : g.succ[l][k] \in LayersOf(g)
  BY <1>1, ElementOfSeq
<1> QED BY <1>1, <1>2, <1>3 DEF IsNetwork
LEMMA TreeFacts ==
  ASSUME TypeOK
  PROVE  /\ tree \in Seq(NodeSet(DOMAIN tree)) /\ Len(tree) \in Nat
         /\ DOMAIN tree = 1 .. Len(tree)
         /\ \A i \in DOMAIN tree : tree[i] \in NodeSet(DOMAIN tree)
         /\ stack \in Seq(FrameSet(DOMAIN tree)) /\ Len(stack) \in Nat
         /\ DOMAIN stack = 1 .. Len(stack)
         /\ \A k \in DOMAIN stack : stack[k] \in FrameSet(DOMAIN tree)
<1>1. tree \in Seq(NodeSet(DOMAIN tree)) /\ stack \in Seq(FrameSet(DOMAIN tree))
  BY DEF TypeOK, NodeSet, FrameSet
<1>2. /\ Len(tree) \in Nat /\ DOMAIN tree = 1 .. Len(tree)
      /\ Len(stack) \in Nat /\ DOMAIN stack = 1 .. Len(stack)
  BY <1>1, LenProperties
<1>3. \A i \in 1 .. Len(tree) : tree[i] \in NodeSet(DOMAIN tree)
  BY <1>1, ElementOfSeq
<1>4. \A k \in 1 .. Len(stack) : stack[k] \in FrameSet(DOMAIN tree)
  BY <1>1, ElementOfSeq
<1> QED BY <1>1, <1>2, <1>3, <1>4

(* The innermost call.                                                     *)
LEMMA TopFacts ==
  ASSUME IInv, phase = "parse"
  PROVE  /\ Len(stack) \in DOMAIN stack
         /\ Top \in FrameSet(DOMAIN tree)
         /\ Top.owner \in LayerNodes
         /\ NotBelow(Top.owner, Top.layer)
         /\ it <= Len(net.order) /\ net.order[it] \in LayersOf(net)
         /\ net.depth[net.order[it]] <= net.depth[Top.layer]
         /\ 1 \in DOMAIN tree /\ tree[1].id = net.id[net.order[it]]
<1>1. TypeOK /\ stack # <<>>
  BY DEF IInv, StackOK
<1>2. Len(stack) \in DOMAIN stack
  BY <1>1, TreeFacts, EmptySeq
<1>3. /\ Top \in FrameSet(DOMAIN tree)
      /\ Top.owner \in LayerNodes
      /\ NotBelow(Top.owner, Top.layer)
      /\ it <= Len(net.order)
      /\ net.depth[net.order[it]] <= net.depth[Top.layer]
  BY <1>1, <1>2, TreeFacts DEF IInv, FramesOK, Top
<1>4. 1 \in DOMAIN tree
  BY <1>1, <1>3, TreeFacts DEF LayerNodes
<1>5. tree # <<>>
  BY <1>4
<1>6. tree[1].id = net.id[net.order[it]]
  BY <1>5 DEF IInv, RootOK
<1>7. net.order[it] \in LayersOf(net)
  <2>1. net.order \in Seq(LayersOf(net)) /\ it \in Nat \ {0}
    BY <1>1 DEF TypeOK, IsNetwork
  <2>2. it \in 1 .. Len(net.order)
    BY <1>3, <2>1, LenProperties
  <2> QED BY <2>1, <2>2, ElementOfSeq
<1> QED BY <1>2, <1>3, <1>4, <1>6, <1>7

(* A consumer lies below its layer, its owner and the root.                *)
LEMMA ConsumerFacts ==
  ASSUME IInv, Calling
  PROVE  /\ Consumer \in LayersOf(net)
         /\ net.id[Consumer] \in Nat
         /\ net.depth[Top.layer] < net.depth[Consumer]
         /\ \A l, m \in LayersOf(net) :
              net.id[l] = tree[Top.owner].id /\ net.id[m] = net.id[Consumer]
                => net.depth[l] < net.depth[m]
         /\ net.id[Consumer] # tree[1].id
<1>1. phase = "parse" /\ Top.next <= Len(net.succ[Top.layer]) /\ IsNetwork(net)
  BY DEF Calling, IInv, TypeOK
<1>2. Top.layer \in LayersOf(net) /\ Top.next \in Nat \ {0}
  BY <1>1, TopFacts DEF FrameSet
<1>3. /\ Consumer \in LayersOf(net)
      /\ net.depth[Top.layer] < net.depth[Consumer]
  <2>1. Len(net.succ[Top.layer]) \in Nat
    BY <1>1, <1>2, LayerFacts, LenProperties
  <2>2. Top.next \in 1 .. Len(net.succ[Top.layer])
    BY <1>1, <1>2, <2>1
  <2> QED BY <1>1, <1>2, <2>2, LayerFacts DEF Consumer
<1>4. \A l, m \in LayersOf(net) : net.id[l] = net.id[m] => l = m
  BY <1>1 DEF IsNetwork
<1>5. \A l \in LayersOf(net) : net.depth[l] \in Nat /\ net.id[l] \in Nat
  BY <1>1, LayerFacts
<1>6. \A l, m \in LayersOf(net) :
        net.id[l] = tree[Top.owner].id /\ net.id[m] = net.id[Consumer]
          => net.depth[l] < net.depth[m]
  <2>1. NotBelow(Top.owner, Top.layer)
    BY <1>1, TopFacts
  <2> SUFFICES ASSUME NEW l \in LayersOf(net), NEW m \in LayersOf(net),
                      net.id[l] = tree[Top.owner].id, net.id[m] = net.id[Consumer]
               PROVE  net.depth[l] < net.depth[m]
    OBVIOUS
  <2>2. m = Consumer
    BY <1>3, <1>4
  <2>3. net.depth[l] <= net.depth[Top.layer]
    BY <2>1 DEF NotBelow
  <2> QED BY <1>2, <1>3, <1>5, <2>2, <2>3
<1>7. net.id[Consumer] # tree[1].id
  <2>1. /\ net.order[it] \in LayersOf(net)
        /\ net.depth[net.order[it]] <= net.depth[Top.layer]
        /\ tree[1].id = net.id[net.order[it]]
    BY <1>1, TopFacts
  <2>2. net.order[it] # Consumer
    BY <1>2, <1>3, <1>5, <2>1
  <2> QED BY <1>3, <1>4, <2>1, <2>2
<1> QED BY <1>3, <1>5, <1>6, <1>7
-----------------------------------------------------------------------------
(* A step of the recursion that makes a node and changes no other one but  *)
(* for its children.                                                       *)

Same(j) == /\ tree'[j].kind = tree[j].kind
           /\ tree'[j].id = tree[j].id
           /\ tree'[j].parents = tree[j].parents

Extends == /\ net' = net /\ it' = it /\ phase = "parse" /\ phase' = "parse"
           /\ DOMAIN tree \subseteq DOMAIN tree'
           /\ \A j \in DOMAIN tree : Same(j)
           /\ ID_list \subseteq ID_list'

(* The node made by a call that Top starts for Consumer.                   *)
Made(x) ==
  \/ x.kind = "anyName"
  \/ /\ x.kind = "dummy"
     /\ x.id = net.id[Consumer] /\ x.parents = <<Top.owner>>
  \/ /\ x.kind = "layer"
     /\ x.id = net.id[Consumer] /\ x.parents = <<Top.owner>>
     /\ x.id \notin ID_list /\ x.id \in ID_list'

LEMMA FramesKept ==
  ASSUME IInv, Extends, NEW k \in DOMAIN stack
  PROVE  /\ stack[k].owner \in LayerNodes'
         /\ \A m \in LayersOf(net') : net'.id[m] = tree'[stack[k].owner].id
              => net'.depth[m] <= net'.depth[stack[k].layer]
         /\ it' <= Len(net'.order)
         /\ net'.depth[net'.order[it']] <= net'.depth[stack[k].layer]
<1>1. stack[k].owner \in LayerNodes /\ NotBelow(stack[k].owner, stack[k].layer)
      /\ it <= Len(net.order)
      /\ net.depth[net.order[it]] <= net.depth[stack[k].layer]
  BY DEF IInv, FramesOK
<1>2. stack[k].owner \in LayerNodes'
  BY <1>1 DEF Extends, Same, LayerNodes
<1>3. tree'[stack[k].owner].id = tree[stack[k].owner].id
  BY <1>1 DEF Extends, Same, LayerNodes
<1>4. \A m \in LayersOf(net') : net'.id[m] = tree'[stack[k].owner].id
        => net'.depth[m] <= net'.depth[stack[k].layer]
  BY <1>1, <1>3 DEF Extends, NotBelow
<1> QED BY <1>1, <1>2, <1>4 DEF Extends

(* Without a new node.                                                     *)
LEMMA NodesKept ==
  ASSUME IInv, Extends, DOMAIN tree' = DOMAIN tree
  PROVE  OneNodePerLayer' /\ IDsOK' /\ DummiesOK' /\ RootOK'
<1>1. 1 \in DOMAIN tree /\ tree # <<>> /\ it <= Len(net.order)
      /\ tree[1].id = net.id[net.order[it]]
  BY TopFacts DEF Extends
<1>2. LayerNodes' = LayerNodes
  BY DEF Extends, Same, LayerNodes
<1>3. OneNodePerLayer' /\ IDsOK'
  BY <1>2 DEF IInv, OneNodePerLayer, IDsOK, Extends, Same, LayerNodes
<1>4. DummiesOK'
  <2> SUFFICES ASSUME NEW i \in DOMAIN tree'
               PROVE  /\ tree'[i].kind = "dummy" => tree'[i].parents # <<>>
                      /\ Stands(i)' => \A k \in DOMAIN tree'[i].parents :
                           LET p == tree'[i].parents[k] IN
                             /\ p \in LayerNodes'
                             /\ \A l, m \in LayersOf(net') :
                                  net'.id[l] = tree'[p].id /\ net'.id[m] = tree'[i].id
                                    => net'.depth[l] < net'.depth[m]
    BY DEF DummiesOK
  <2>1. i \in DOMAIN tree /\ Same(i) /\ net' = net
    BY DEF Extends
  <2>2. /\ tree[i].kind = "dummy" => tree[i].parents # <<>>
        /\ Stands(i) => \A k \in DOMAIN tree[i].parents :
             /\ tree[i].parents[k] \in LayerNodes
             /\ \A l, m \in LayersOf(net) :
                  net.id[l] = tree[tree[i].parents[k]].id /\ net.id[m] = tree[i].id
                    => net.depth[l] < net.depth[m]
    BY <2>1 DEF IInv, DummiesOK
  <2>3. \A p \in LayerNodes : tree'[p].id = tree[p].id
    BY DEF Extends, Same, LayerNodes
  <2> QED BY <1>2, <2>1, <2>2, <2>3 DEF Same, Stands
<1>5. RootOK'
  <2>1. tree'[1].id = tree[1].id
    BY <1>1 DEF Extends, Same
  <2> QED BY <1>1, <2>1 DEF RootOK, Extends
<1> QED BY <1>3, <1>4, <1>5

(* With a new one.                                                         *)
LEMMA NodeAdded ==
  ASSUME IInv, Calling, Extends, DOMAIN tree' = 1 .. New, Made(tree'[New])
  PROVE  OneNodePerLayer' /\ IDsOK' /\ DummiesOK' /\ RootOK'
<1>1. /\ 1 \in DOMAIN tree /\ tree # <<>> /\ it <= Len(net.order)
      /\ tree[1].id = net.id[net.order[it]]
      /\ Top.owner \in LayerNodes
  BY TopFacts DEF Extends
<1>2. DOMAIN tree = 1 .. Len(tree) /\ Len(tree) \in Nat
  BY TreeFacts DEF IInv
<1>3. /\ New \notin DOMAIN tree /\ New # 1
      /\ DOMAIN tree' = DOMAIN tree \cup {New}
  BY <1>1, <1>2 DEF New
<1>4. \A j \in DOMAIN tree : Same(j)
  BY DEF Extends
<1>5. /\ LayerNodes \subseteq LayerNodes'
      /\ LayerNodes' \subseteq LayerNodes \cup {New}
      /\ LayerNodes \subseteq DOMAIN tree
  BY <1>3, <1>4 DEF LayerNodes, Same
<1>6. \A j \in LayerNodes : tree'[j].id = tree[j].id
  BY <1>4, <1>5 DEF Same
<1>7. New \in LayerNodes' => /\ tree'[New].id \notin ID_list
                             /\ tree'[New].id \in ID_list'
                             /\ tree'[New].id # tree[1].id
  BY ConsumerFacts DEF Made, LayerNodes
<1>8. \A j \in LayerNodes : j # 1 => tree[j].id \in ID_list
  BY DEF IInv, IDsOK
<1>9. IDsOK'
  BY <1>3, <1>5, <1>6, <1>7, <1>8 DEF IDsOK, Extends
<1>10. OneNodePerLayer'
  <2>1. \A i, j \in LayerNodes : tree[i].id = tree[j].id => i = j
    BY DEF IInv, OneNodePerLayer
  <2>2. \A j \in LayerNodes : New \in LayerNodes' => tree'[New].id # tree[j].id
    BY <1>7, <1>8
  <2> QED BY <1>5, <1>6, <2>1, <2>2 DEF OneNodePerLayer
<1>11. DummiesOK'
  <2> SUFFICES ASSUME NEW i \in DOMAIN tree'
               PROVE  /\ tree'[i].kind = "dummy" => tree'[i].parents # <<>>
                      /\ Stands(i)' => \A k \in DOMAIN tree'[i].parents :
                           LET p == tree'[i].parents[k] IN
                             /\ p \in LayerNodes'
                             /\ \A l, m \in LayersOf(net') :
                                  net'.id[l] = tree'[p].id /\ net'.id[m] = tree'[i].id
                                    => net'.depth[l] < net'.depth[m]
    BY DEF DummiesOK
  <2>1. net' = net
    BY DEF Extends
  <2>2. CASE i \in DOMAIN tree
    <3>1. /\ tree[i].kind = "dummy" => tree[i].parents # <<>>
          /\ Stands(i) => \A k \in DOMAIN tree[i].parents :
               /\ tree[i].parents[k] \in LayerNodes
               /\ \A l, m \in LayersOf(net) :
                    net.id[l] = tree[tree[i].parents[k]].id /\ net.id[m] = tree[i].id
                      => net.depth[l] < net.depth[m]
      BY <2>2 DEF IInv, DummiesOK
    <3>2. Same(i)
      BY <1>4, <2>2
    <3> QED BY <1>5, <1>6, <2>1, <3>1, <3>2 DEF Same, Stands
  <2>3. CASE i = New /\ tree'[New].kind \in {"layer", "dummy"}
    <3>1. tree'[New].id = net.id[Consumer] /\ tree'[New].parents = <<Top.owner>>
      BY <2>3 DEF Made
    <3>2. \A l, m \in LayersOf(net) :
            net.id[l] = tree[Top.owner].id /\ net.id[m] = net.id[Consumer]
              => net.depth[l] < net.depth[m]
      BY ConsumerFacts
    <3>3. Top.owner \in LayerNodes' /\ tree'[Top.owner].id = tree[Top.owner].id
      BY <1>1, <1>5, <1>6
    <3>4. /\ <<Top.owner>> # <<>> /\ DOMAIN <<Top.owner>> = {1}
          /\ <<Top.owner>>[1] = Top.owner
      OBVIOUS
    <3> QED BY <2>1, <2>3, <3>1, <3>2, <3>3, <3>4
  <2>4. CASE i = New /\ tree'[New].kind = "anyName"
    BY <2>4 DEF Stands
  <2> QED BY <1>3, <2>2, <2>3, <2>4 DEF Made
<1>12. RootOK'
  <2>1. tree'[1].id = tree[1].id
    BY <1>1, <1>4 DEF Same
  <2> QED BY <1>1, <2>1 DEF RootOK, Extends
<1> QED BY <1>9, <1>10, <1>11, <1>12
-----------------------------------------------------------------------------
(* The stack of calls.                                                     *)

LEMMA AdvanceFacts ==
  ASSUME TypeOK, stack # <<>>
  PROVE  /\ Advance(stack) \in Seq(FrameSet(DOMAIN tree))
         /\ Len(Advance(stack)) = Len(stack)
         /\ \A k \in DOMAIN stack : /\ Advance(stack)[k].owner = stack[k].owner
                                    /\ Advance(stack)[k].layer = stack[k].layer
<1> DEFINE f == [Top EXCEPT !.next = @ + 1]
<1>1. /\ Len(stack) \in DOMAIN stack /\ DOMAIN stack = 1 .. Len(stack)
      /\ stack \in Seq(FrameSet(DOMAIN tree))
      /\ Top \in FrameSet(DOMAIN tree)
  BY TreeFacts, EmptySeq DEF Top
<1>2. f \in FrameSet(DOMAIN tree) /\ f.owner = Top.owner /\ f.layer = Top.layer
  BY <1>1 DEF FrameSet
<1>3. Advance(stack) = [stack EXCEPT ![Len(stack)] = f]
  BY DEF Advance, Top
<1> HIDE DEF f
<1>4. /\ Advance(stack) \in Seq(FrameSet(DOMAIN tree))
      /\ Len(Advance(stack)) = Len(stack)
      /\ \A k \in DOMAIN stack :
           Advance(stack)[k] = IF k = Len(stack) THEN f ELSE stack[k]
  BY <1>1, <1>2, <1>3, ExceptSeq
<1> QED BY <1>2, <1>4 DEF Top

LEMMA FrontFacts ==
  ASSUME TypeOK, Len(stack) > 1
  PROVE  /\ Front(stack) \in Seq(FrameSet(DOMAIN tree)) /\ Front(stack) # <<>>
         /\ DOMAIN Front(stack) \subseteq DOMAIN stack
         /\ \A k \in DOMAIN Front(stack) : Front(stack)[k] = stack[k]
<1>1. /\ stack \in Seq(FrameSet(DOMAIN tree)) /\ Len(stack) \in Nat
      /\ DOMAIN stack = 1 .. Len(stack)
      /\ \A k \in DOMAIN stack : stack[k] \in FrameSet(DOMAIN tree)
  BY TreeFacts
<1>2. /\ Front(stack) \in Seq(FrameSet(DOMAIN tree))
      /\ Len(Front(stack)) = Len(stack) - 1
      /\ \A k \in 1 .. Len(stack) - 1 : Front(stack)[k] = stack[k]
  <2>1. Front(stack) = SubSeq(stack, 1, Len(stack) - 1)
    BY DEF Front
  <2>2. \A k \in 1 .. Len(stack) - 1 : stack[k] \in FrameSet(DOMAIN tree)
    BY <1>1
  <2> QED BY <1>1, <2>1, <2>2, SubSeqProperties
<1>3. DOMAIN Front(stack) = 1 .. Len(stack) - 1 /\ Front(stack) # <<>>
  BY <1>1, <1>2, LenProperties, EmptySeq
<1> QED BY <1>1, <1>2, <1>3

(* A stack of typed frames stays so in a larger tree.                      *)
LEMMA GrowStack ==
  ASSUME NEW D, NEW E, D \subseteq E, NEW s \in Seq(FrameSet(D))
  PROVE  s \in Seq(FrameSet(E))
<1>1. FrameSet(D) \subseteq FrameSet(E)
  BY DEF FrameSet
<1> QED BY <1>1, SeqMonotonic
-----------------------------------------------------------------------------
(* The actions of the recursion.                                           *)

(* What the three ways to start a call have in common: t is the tree with  *)
(* perhaps one more child, x the new node, f the new frame if there is one.*)
LEMMA CallStep ==
  ASSUME IInv, Calling, UNCHANGED <<net, phase, it, queue>>,
         NEW D, D = 1 .. New,
         NEW t \in Seq(NodeSet(D)), Len(t) = Len(tree),
         \A j \in DOMAIN tree : /\ t[j].kind = tree[j].kind
                                /\ t[j].id = tree[j].id
                                /\ t[j].parents = tree[j].parents,
         NEW x \in NodeSet(D), tree' = Append(t, x), Made(x),
         ID_list \subseteq ID_list', ID_list' \subseteq Nat,
         NEW f \in FrameSet(D), f.layer = Consumer,
         f.owner = Top.owner \/ (f.owner = New /\ x.kind = "layer"),
         stack' = Advance(stack) \/ stack' = Append(Advance(stack), f)
  PROVE  IInv'
<1>1. phase = "parse"
  BY DEF Calling
<1>2. /\ TypeOK /\ stack # <<>> /\ Len(tree) \in Nat /\ DOMAIN tree = 1 .. Len(tree)
      /\ New = Len(tree) + 1 /\ DOMAIN tree \subseteq D /\ New \in D
      /\ Top.owner \in LayerNodes
  BY <1>1, TreeFacts, TopFacts DEF IInv, StackOK, New
<1>3. /\ tree' \in Seq(NodeSet(DOMAIN tree')) /\ DOMAIN tree' = D
      /\ \A j \in DOMAIN tree : tree'[j] = t[j]
      /\ tree'[New] = x
  BY <1>2, AddNode
<1>4. Extends
  BY <1>1, <1>2, <1>3 DEF Extends, Same
<1>5. OneNodePerLayer' /\ IDsOK' /\ DummiesOK' /\ RootOK'
  BY <1>3, <1>4, NodeAdded
<1>6. /\ Advance(stack) \in Seq(FrameSet(D)) /\ Len(Advance(stack)) = Len(stack)
      /\ DOMAIN Advance(stack) = DOMAIN stack
      /\ \A k \in DOMAIN stack : /\ Advance(stack)[k].owner = stack[k].owner
                                 /\ Advance(stack)[k].layer = stack[k].layer
  <2>1. /\ Advance(stack) \in Seq(FrameSet(DOMAIN tree))
        /\ Len(Advance(stack)) = Len(stack)
        /\ \A k \in DOMAIN stack : /\ Advance(stack)[k].owner = stack[k].owner
                                   /\ Advance(stack)[k].layer = stack[k].layer
    BY <1>2, AdvanceFacts
  <2>2. DOMAIN Advance(stack) = DOMAIN stack
    BY <1>2, <2>1, TreeFacts, LenProperties
  <2> QED BY <1>2, <2>1, <2>2, GrowStack
<1>7. /\ stack' \in Seq(FrameSet(D)) /\ stack' # <<>>
      /\ \A k \in DOMAIN stack' :
           \/ k \in DOMAIN stack /\ stack'[k].owner = stack[k].owner
                                /\ stack'[k].layer = stack[k].layer
           \/ stack'[k] = f
  <2>1. CASE stack' = Advance(stack)
    <3>1. Len(stack) \in Nat \ {0}
      BY <1>2, TreeFacts, EmptySeq
    <3> QED BY <1>6, <2>1, <3>1
  <2>2. CASE stack' = Append(Advance(stack), f)
    <3>1. /\ stack' \in Seq(FrameSet(D)) /\ stack' # <<>>
          /\ Len(stack') = Len(stack) + 1
          /\ \A k \in 1 .. Len(stack) : stack'[k] = Advance(stack)[k]
          /\ stack'[Len(stack) + 1] = f
      BY <1>6, <2>2, AppendProperties
    <3>2. DOMAIN stack' = 1 .. Len(stack) + 1 /\ DOMAIN stack = 1 .. Len(stack)
          /\ Len(stack) \in Nat
      BY <1>2, <3>1, TreeFacts, LenProperties
    <3> QED BY <1>6, <3>1, <3>2
  <2> QED BY <2>1, <2>2
<1>8. TypeOK'
  <2>1. queue' \in Seq(DOMAIN tree')
    BY <1>2, <1>3, SeqMonotonic DEF TypeOK
  <2>2. LayersOf(net)' = LayersOf(net)
    BY DEF LayersOf
  <2> QED BY <1>2, <1>3, <1>7, <2>1, <2>2 DEF TypeOK, NodeSet, FrameSet
<1>9. StackOK'
  BY <1>1, <1>7 DEF StackOK
<1>10. FramesOK'
  <2> SUFFICES ASSUME NEW k \in DOMAIN stack'
               PROVE  /\ stack'[k].owner \in LayerNodes'
                      /\ \A m \in LayersOf(net') : net'.id[m] = tree'[stack'[k].owner].id
                           => net'.depth[m] <= net'.depth[stack'[k].layer]
                      /\ it' <= Len(net'.order)
                      /\ net'.depth[net'.order[it']] <= net'.depth[stack'[k].layer]
    BY DEF FramesOK, NotBelow
  <2>1. CASE k \in DOMAIN stack /\ stack'[k].owner = stack[k].owner
             /\ stack'[k].layer = stack[k].layer
    BY <1>4, <2>1, FramesKept
  <2>2. CASE stack'[k] = f
    <3>1. /\ net.depth[net.order[it]] \in Nat /\ net.depth[Top.layer] \in Nat
          /\ net.depth[Consumer] \in Nat /\ Consumer \in LayersOf(net)
          /\ \A m \in LayersOf(net) : net.depth[m] \in Nat
      BY <1>1, <1>2, TopFacts, ConsumerFacts, LayerFacts DEF TypeOK, FrameSet
    <3>2. /\ it <= Len(net.order) /\ net.depth[net.order[it]] <= net.depth[Top.layer]
          /\ net.depth[Top.layer] < net.depth[Consumer]
          /\ NotBelow(Top.owner, Top.layer)
      BY <1>1, TopFacts, ConsumerFacts
    <3>3. CASE f.owner = Top.owner
      <4>1. Top.owner \in LayerNodes' /\ tree'[Top.owner].id = tree[Top.owner].id
        BY <1>2, <1>4 DEF Extends, Same, LayerNodes
      <4>2. net' = net /\ it' = it /\ stack'[k].owner = Top.owner /\ stack'[k].layer = Consumer
        BY <2>2, <3>3
      <4>3. \A m \in LayersOf(net) : net.id[m] = tree[Top.owner].id
              => net.depth[m] <= net.depth[Top.layer]
        BY <3>2 DEF NotBelow
      <4>4. \A m \in LayersOf(net) : net.id[m] = tree[Top.owner].id
              => net.depth[m] <= net.depth[Consumer]
        <5> SUFFICES ASSUME NEW m \in LayersOf(net), net.id[m] = tree[Top.owner].id
                     PROVE  net.depth[m] <= net.depth[Consumer]
          OBVIOUS
        <5>1. net.depth[m] <= net.depth[Top.layer]
          BY <4>3
        <5>2. net.depth[m] \in Nat
          BY <3>1
        <5> QED BY <3>1, <3>2, <5>1, <5>2
      <4>5. net.depth[net.order[it]] <= net.depth[Consumer]
        BY <3>1, <3>2
      <4> QED BY <3>2, <4>1, <4>2, <4>4, <4>5
    <3>4. CASE f.owner = New /\ x.kind = "layer"
      <4>1. New \in LayerNodes' /\ tree'[New].id = net.id[Consumer]
        BY <1>2, <1>3, <3>4 DEF LayerNodes, Made
      <4>2. \A m \in LayersOf(net) : net.id[m] = net.id[Consumer] => m = Consumer
        BY <1>2, <3>1 DEF TypeOK, IsNetwork
      <4>3. net' = net /\ it' = it /\ stack'[k].owner = New /\ stack'[k].layer = Consumer
        BY <2>2, <3>4
      <4>4. net.depth[net.order[it]] <= net.depth[Consumer]
        BY <3>1, <3>2
      <4>5. \A m \in LayersOf(net) : net.id[m] = tree'[New].id
              => net.depth[m] <= net.depth[Consumer]
        BY <3>1, <4>1, <4>2
      <4> QED BY <3>2, <4>1, <4>3, <4>4, <4>5
    <3> QED BY <3>3, <3>4
  <2> QED BY <1>7, <2>1, <2>2
<1> QED BY <1>5, <1>8, <1>9, <1>10 DEF IInv
LEMMA NewFacts ==
  ASSUME IInv, Calling
  PROVE  /\ TypeOK /\ DOMAIN tree \subseteq 1 .. New /\ New \in 1 .. New
         /\ Top.owner \in DOMAIN tree /\ Top.owner \in 1 .. New
         /\ ID_list \subseteq Nat
         /\ tree \in Seq(NodeSet(1 .. New))
<1>1. TypeOK /\ phase = "parse"
  BY DEF IInv, Calling
<1>2. /\ Len(tree) \in Nat /\ DOMAIN tree = 1 .. Len(tree)
      /\ tree \in Seq(NodeSet(DOMAIN tree))
  BY <1>1, TreeFacts
<1>3. DOMAIN tree \subseteq 1 .. New /\ New \in 1 .. New
  BY <1>2 DEF New
<1>4. Top.owner \in DOMAIN tree
  BY <1>1, TopFacts DEF LayerNodes
<1>5. tree \in Seq(NodeSet(1 .. New))
  BY <1>2, <1>3, GrowTree
<1>6. ID_list \subseteq Nat
  BY <1>1 DEF TypeOK
<1> QED BY <1>1, <1>3, <1>4, <1>5, <1>6

LEMMA DuplicateStep ==
  ASSUME IInv, ParseDuplicate
  PROVE  IInv'
<1> DEFINE D == 1 .. New
           t == PushChild(tree, Top.owner, New)
           f == Frame(Consumer, Top.owner, Top.owner)
<1>1. /\ Calling /\ tree' = Append(t, Dummy) /\ stack' = Advance(stack)
      /\ UNCHANGED <<net, phase, it, ID_list, queue>> /\ phase = "parse"
  BY DEF ParseDuplicate, Calling
<1>2. /\ TypeOK /\ DOMAIN tree \subseteq D /\ New \in D
      /\ Top.owner \in DOMAIN tree /\ Top.owner \in D /\ ID_list \subseteq Nat
  BY <1>1, NewFacts
<1>3. tree \in Seq(NodeSet(D))
  BY <1>1, NewFacts
<1>4. Dummy \in NodeSet(D) /\ Made(Dummy)
  BY <1>1, <1>2, ConsumerFacts DEF Dummy, Node, NodeSet, Kinds, Made
<1>5. f \in FrameSet(D) /\ f.layer = Consumer /\ f.owner = Top.owner
  BY <1>1, <1>2, ConsumerFacts DEF Frame, FrameSet, First
<1> HIDE DEF D, f
<1>6. /\ t \in Seq(NodeSet(D)) /\ Len(t) = Len(tree)
      /\ \A j \in DOMAIN tree : /\ t[j].kind = tree[j].kind /\ t[j].id = tree[j].id
                                 /\ t[j].parents = tree[j].parents
  BY <1>2, <1>3, PushNode
<1> HIDE DEF t
<1> QED BY <1>1, <1>2, <1>4, <1>5, <1>6, CallStep DEF D

LEMMA LayerStep ==
  ASSUME IInv, ParseLayer
  PROVE  IInv'
<1> DEFINE D == 1 .. New
           x == Node("layer", net.id[Consumer], <<Top.owner>>)
           f == Frame(Consumer, New, New)
<1>1. /\ Calling /\ tree' = Append(tree, x) /\ stack' = Append(Advance(stack), f)
      /\ ID_list' = ID_list \cup {net.id[Consumer]}
      /\ net.id[Consumer] \notin ID_list
      /\ UNCHANGED <<net, phase, it, queue>> /\ phase = "parse"
  BY DEF ParseLayer, Calling, Remember
<1>2. /\ TypeOK /\ DOMAIN tree \subseteq D /\ New \in D
      /\ Top.owner \in DOMAIN tree /\ Top.owner \in D /\ ID_list' \subseteq Nat
  BY <1>1, NewFacts, ConsumerFacts
<1>3. tree \in Seq(NodeSet(D))
  BY <1>1, NewFacts
<1>4. x \in NodeSet(D) /\ Made(x) /\ x.kind = "layer"
  BY <1>1, <1>2, ConsumerFacts DEF Node, NodeSet, Kinds, Made
<1>5. f \in FrameSet(D) /\ f.layer = Consumer /\ f.owner = New
  BY <1>1, <1>2, ConsumerFacts DEF Frame, FrameSet, First
<1> HIDE DEF x, f
<1> QED BY <1>1, <1>2, <1>3, <1>4, <1>5, CallStep

LEMMA UnsupportedStep ==
  ASSUME IInv, ParseUnsupported
  PROVE  IInv'
<1> DEFINE D == 1 .. New
           f == Frame(Consumer, Top.owner, New)
<1>1. /\ Calling /\ stack' = Append(Advance(stack), f)
      /\ UNCHANGED <<net, phase, it, ID_list, queue>> /\ phase = "parse"
  BY DEF ParseUnsupported, Calling
<1>2. PICK id \in GarbageIDs : tree' = Append(tree, Node("anyName", id, <<>>))
  BY DEF ParseUnsupported
<1> DEFINE x == Node("anyName", id, <<>>)
<1>3. /\ TypeOK /\ DOMAIN tree \subseteq D /\ New \in D
      /\ Top.owner \in DOMAIN tree /\ Top.owner \in D /\ ID_list \subseteq Nat
  BY <1>1, NewFacts
<1>4. tree \in Seq(NodeSet(D))
  BY <1>1, NewFacts
<1>5. x \in NodeSet(D) /\ Made(x)
  BY GarbageAssumption DEF Node, NodeSet, Kinds, Made
<1>6. f \in FrameSet(D) /\ f.layer = Consumer /\ f.owner = Top.owner
  BY <1>1, <1>3, ConsumerFacts DEF Frame, FrameSet, First
<1>7. tree' = Append(tree, x)
  BY <1>2
<1> HIDE DEF x, f
<1> QED BY <1>1, <1>3, <1>4, <1>5, <1>6, <1>7, CallStep

LEMMA ReturnStep ==
  ASSUME IInv, ParseReturn
  PROVE  IInv'
<1> DEFINE D == DOMAIN tree
<1>1. /\ tree' = PushChild(tree, Caller.owner, Top.result)
      /\ stack' = Front(stack) /\ Len(stack) > 1
      /\ UNCHANGED <<net, phase, it, ID_list, queue>> /\ phase = "parse"
  BY DEF ParseReturn, Returning
<1>2. /\ TypeOK /\ tree \in Seq(NodeSet(D)) /\ Top.result \in D
      /\ Len(stack) \in Nat /\ DOMAIN stack = 1 .. Len(stack)
  BY <1>1, TreeFacts, TopFacts DEF IInv, FrameSet
<1>3. Caller.owner \in D
  <2>1. Len(stack) - 1 \in DOMAIN stack
    BY <1>1, <1>2
  <2>2. stack[Len(stack) - 1] \in FrameSet(D)
    BY <1>2, <2>1, TreeFacts
  <2> QED BY <2>2 DEF Caller, FrameSet
<1>4. /\ tree' \in Seq(NodeSet(D)) /\ Len(tree') = Len(tree)
      /\ \A j \in DOMAIN tree : Same(j)
  <2> DEFINE u == PushChild(tree, Caller.owner, Top.result)
  <2>1. /\ u \in Seq(NodeSet(D)) /\ Len(u) = Len(tree)
        /\ \A j \in DOMAIN tree : /\ u[j].kind = tree[j].kind
                                   /\ u[j].id = tree[j].id
                                   /\ u[j].parents = tree[j].parents
    BY <1>2, <1>3, PushNode
  <2> HIDE DEF u
  <2> QED BY <1>1, <2>1 DEF Same, u
<1>5. DOMAIN tree' = DOMAIN tree
  BY <1>2, <1>4, LenProperties
<1>6. Extends
  BY <1>1, <1>4, <1>5 DEF Extends
<1>7. OneNodePerLayer' /\ IDsOK' /\ DummiesOK' /\ RootOK'
  BY <1>5, <1>6, NodesKept
<1>8. /\ stack' \in Seq(FrameSet(D)) /\ stack' # <<>>
      /\ DOMAIN stack' \subseteq DOMAIN stack
      /\ \A k \in DOMAIN stack' : stack'[k] = stack[k]
  BY <1>1, <1>2, FrontFacts
<1>9. TypeOK'
  BY <1>1, <1>2, <1>4, <1>5, <1>8 DEF TypeOK, NodeSet, FrameSet
<1>10. StackOK'
  BY <1>1, <1>8 DEF StackOK
<1>11. FramesOK'
  <2> SUFFICES ASSUME NEW k \in DOMAIN stack'
               PROVE  /\ stack'[k].owner \in LayerNodes'
                      /\ \A m \in LayersOf(net') : net'.id[m] = tree'[stack'[k].owner].id
                           => net'.depth[m] <= net'.depth[stack'[k].layer]
                      /\ it' <= Len(net'.order)
                      /\ net'.depth[net'.order[it']] <= net'.depth[stack'[k].layer]
    BY DEF FramesOK, NotBelow
  <2> QED BY <1>6, <1>8, FramesKept
<1> QED BY <1>7, <1>9, <1>10, <1>11 DEF IInv
-----------------------------------------------------------------------------
(* The actions of parse_root and of find_missing_duplicates.               *)

(* Before the root is found nothing is parsed.                             *)
LEMMA NothingParsed ==
  ASSUME IInv, phase = "root"
  PROVE  tree = <<>> /\ LayerNodes = {} /\ DOMAIN stack = {}
<1>1. tree = <<>>
  BY DEF IInv, StackOK
<1>2. LayerNodes = {}
  BY <1>1 DEF LayerNodes
<1>3. DOMAIN stack = {}
  BY <1>2 DEF IInv, FramesOK
<1> QED BY <1>1, <1>2, <1>3

LEMMA SkipLayerStep ==
  ASSUME IInv, SkipLayer
  PROVE  IInv'
<1>1. /\ phase = "root" /\ phase' = "root" /\ it' = it + 1 /\ net' = net /\ tree' = tree
      /\ ID_list' = ID_list /\ stack' = stack /\ queue' = queue
  BY DEF SkipLayer
<1>2. tree = <<>> /\ LayerNodes = {} /\ DOMAIN stack = {}
  BY <1>1, NothingParsed
<1>3. TypeOK'
  BY <1>1 DEF IInv, TypeOK, LayersOf
<1>4. StackOK' /\ RootOK'
  BY <1>1, <1>2 DEF StackOK, RootOK
<1>5. FramesOK'
  BY <1>1, <1>2 DEF FramesOK
<1>6. OneNodePerLayer' /\ IDsOK' /\ DummiesOK'
  BY <1>1, <1>2 DEF OneNodePerLayer, IDsOK, DummiesOK, LayerNodes
<1> QED BY <1>3, <1>4, <1>5, <1>6 DEF IInv

LEMMA FoundRootStep ==
  ASSUME IInv, FoundRoot
  PROVE  IInv'
<1> DEFINE root == net.order[it]
           x == Node("layer", net.id[root], <<>>)
           f == Frame(root, 1, 1)
<1>1. /\ phase = "root" /\ phase' = "parse" /\ it' = it /\ it <= Len(net.order)
      /\ net' = net /\ tree' = <<x>> /\ stack' = <<f>>
      /\ ID_list' = ID_list /\ queue' = queue
  BY DEF FoundRoot
<1>2. /\ TypeOK /\ tree = <<>>
  BY <1>1, NothingParsed DEF IInv
<1>3. root \in LayersOf(net)
  <2>1. net.order \in Seq(LayersOf(net)) /\ it \in Nat \ {0}
    BY <1>2 DEF TypeOK, IsNetwork
  <2>2. it \in 1 .. Len(net.order)
    BY <1>1, <2>1, LenProperties
  <2> QED BY <2>1, <2>2, ElementOfSeq
<1>4. /\ net.id[root] \in Nat /\ net.depth[root] \in Nat
      /\ \A m \in LayersOf(net) : net.id[m] = net.id[root] => m = root
  BY <1>2, <1>3, LayerFacts DEF TypeOK, IsNetwork
<1>5. /\ x.kind = "layer" /\ x.id = net.id[root] /\ x.parents = <<>>
      /\ x \in NodeSet({1})
  BY <1>4 DEF Node, NodeSet, Kinds
<1>6. f.layer = root /\ f.owner = 1 /\ f \in FrameSet({1})
  BY <1>3 DEF Frame, FrameSet, First
<1> HIDE DEF x, f, root
<1>7. DOMAIN tree' = {1} /\ tree'[1] = x /\ tree' \in Seq(NodeSet({1})) /\ tree' # <<>>
  BY <1>1, <1>5
<1>8. DOMAIN stack' = {1} /\ stack'[1] = f /\ stack' \in Seq(FrameSet({1})) /\ stack' # <<>>
  BY <1>1, <1>6
<1>9. LayerNodes' = {1} /\ tree'[1].id = net.id[root] /\ tree'[1].parents = <<>>
  BY <1>5, <1>7 DEF LayerNodes
<1>10. TypeOK'
  <2>1. queue' \in Seq(DOMAIN tree')
    BY <1>1, <1>2, SeqMonotonic DEF TypeOK
  <2> QED BY <1>1, <1>2, <1>7, <1>8, <2>1 DEF TypeOK, NodeSet, FrameSet, LayersOf
<1>11. StackOK' /\ RootOK'
  BY <1>1, <1>8, <1>9 DEF StackOK, RootOK, root
<1>12. FramesOK'
  <2>1. \A m \in LayersOf(net) : net.id[m] = net.id[root]
          => net.depth[m] <= net.depth[root]
    BY <1>4
  <2>2. stack'[1].owner = 1 /\ stack'[1].layer = root
    BY <1>6, <1>8
  <2>3. net.depth[net.order[it]] <= net.depth[root]
    BY <1>4 DEF root
  <2> QED BY <1>1, <1>8, <1>9, <2>1, <2>2, <2>3 DEF FramesOK, NotBelow
<1>13. OneNodePerLayer' /\ IDsOK'
  BY <1>9 DEF OneNodePerLayer, IDsOK
<1>14. DummiesOK'
  BY <1>5, <1>7, <1>9 DEF DummiesOK
<1> QED BY <1>10, <1>11, <1>12, <1>13, <1>14 DEF IInv

(* The steps that only move the launcher on, its root parsed or not.       *)
LEMMA PhaseStep ==
  ASSUME IInv, NoRoot \/ TreeParsed \/ Finish \/ UNCHANGED vars
  PROVE  IInv'
<1>1. /\ net' = net /\ it' = it /\ tree' = tree /\ ID_list' = ID_list
      /\ phase' \in {"root", "parse", "duplicates", "done", "failed"}
      /\ \/ phase' = phase
         \/ phase' \notin {"root", "parse"}
      /\ phase = "root" => tree = <<>>
      /\ stack' = stack \/ stack' = <<>>
      /\ queue' = queue \/ (queue' = <<1>> /\ 1 \in DOMAIN tree)
      /\ stack' = stack \/ phase' # "parse"
  <2>1. /\ phase \in {"root", "parse", "duplicates", "done", "failed"}
        /\ phase = "root" => tree = <<>>
    BY DEF IInv, TypeOK, StackOK
  <2>2. CASE NoRoot
    BY <2>1, <2>2 DEF NoRoot
  <2>3. CASE TreeParsed
    <3>1. 1 \in DOMAIN tree
      BY <2>3, TopFacts DEF TreeParsed, Returning
    <3> QED BY <2>1, <2>3, <3>1 DEF TreeParsed
  <2>4. CASE Finish
    BY <2>1, <2>4 DEF Finish
  <2>5. CASE UNCHANGED vars
    BY <2>1, <2>5 DEF vars
  <2> QED BY <2>2, <2>3, <2>4, <2>5
<1>2. TypeOK'
  <2>1. <<>> \in Seq(FrameSet(DOMAIN tree)) /\ (1 \in DOMAIN tree => <<1>> \in Seq(DOMAIN tree))
    OBVIOUS
  <2>2. stack' \in Seq(FrameSet(DOMAIN tree)) /\ queue' \in Seq(DOMAIN tree)
    BY <1>1, <2>1 DEF IInv, TypeOK, FrameSet
  <2> QED BY <1>1, <2>2 DEF IInv, TypeOK, FrameSet, LayersOf
<1>3. StackOK'
  BY <1>1 DEF IInv, StackOK
<1>4. RootOK'
  BY <1>1 DEF IInv, RootOK
<1>5. FramesOK'
  <2>1. CASE stack' = stack
    BY <1>1, <2>1 DEF IInv, FramesOK, NotBelow, LayerNodes
  <2>2. CASE stack' = <<>>
    BY <2>2 DEF FramesOK
  <2> QED BY <1>1, <2>1, <2>2
<1>6. OneNodePerLayer' /\ IDsOK' /\ DummiesOK'
  BY <1>1 DEF IInv, OneNodePerLayer, IDsOK, DummiesOK, Stands, LayerNodes
<1> QED BY <1>2, <1>3, <1>4, <1>5, <1>6 DEF IInv

(* findbyID gives a layer one more parent: the first one of a dummy with   *)
(* its ID, which lies above it.                                            *)
LEMMA FindFacts ==
  ASSUME TypeOK, NEW id, NEW q \in DOMAIN tree
  PROVE  /\ findbyID(tree, id, q) \in Seq(NodeSet(DOMAIN tree))
         /\ DOMAIN findbyID(tree, id, q) = DOMAIN tree
         /\ \A i \in DOMAIN tree :
              LET n == findbyID(tree, id, q)[i] IN
                /\ n.kind = tree[i].kind /\ n.id = tree[i].id
                /\ \/ n.parents = tree[i].parents
                   \/ /\ tree[i].kind # "dummy" /\ tree[i].id = id
                      /\ \A k \in DOMAIN n.parents :
                           \/ n.parents[k] = q
                           \/ k \in DOMAIN tree[i].parents
                              /\ n.parents[k] = tree[i].parents[k]
<1> DEFINE D == DOMAIN tree
           F == findbyID(tree, id, q)
<1>1. /\ tree \in Seq(NodeSet(D)) /\ Len(tree) \in Nat /\ D = 1 .. Len(tree)
      /\ \A i \in D : tree[i] \in NodeSet(D)
  BY TreeFacts
<1>2. DOMAIN F = D
  BY DEF findbyID
<1>3. ASSUME NEW i \in D
      PROVE  /\ F[i] \in NodeSet(D) /\ F[i].kind = tree[i].kind /\ F[i].id = tree[i].id
             /\ \/ F[i].parents = tree[i].parents
                \/ /\ tree[i].kind # "dummy" /\ tree[i].id = id
                   /\ \A k \in DOMAIN F[i].parents :
                        \/ F[i].parents[k] = q
                        \/ k \in DOMAIN tree[i].parents
                           /\ F[i].parents[k] = tree[i].parents[k]
  <2> DEFINE ps == tree[i].parents
  <2>1. tree[i] \in NodeSet(D) /\ ps \in Seq(D)
    BY <1>1, <1>3 DEF NodeSet
  <2>2. CASE tree[i].id = id /\ tree[i].kind # "dummy"
    <3>1. F[i] = [tree[i] EXCEPT !.parents = Append(ps, q)]
      BY <1>3, <2>2 DEF findbyID
    <3>2. /\ Append(ps, q) \in Seq(D) /\ Len(ps) \in Nat
          /\ DOMAIN ps = 1 .. Len(ps)
          /\ DOMAIN Append(ps, q) = 1 .. Len(ps) + 1
          /\ \A k \in 1 .. Len(ps) : Append(ps, q)[k] = ps[k]
          /\ Append(ps, q)[Len(ps) + 1] = q
      BY <2>1, AppendProperties, LenProperties
    <3> DEFINE aps == Append(ps, q)
    <3>3. \A k \in DOMAIN aps : aps[k] = q \/ (k \in DOMAIN ps /\ aps[k] = ps[k])
      BY <3>2
    <3>4. aps \in Seq(D)
      BY <3>2
    <3> HIDE DEF aps
    <3>5. F[i] = [tree[i] EXCEPT !.parents = aps]
      BY <3>1 DEF aps
    <3>6. /\ F[i] \in NodeSet(D) /\ F[i].kind = tree[i].kind /\ F[i].id = tree[i].id
          /\ F[i].parents = aps
      BY <2>1, <3>4, <3>5 DEF NodeSet
    <3> QED BY <2>2, <3>3, <3>6
  <2>3. CASE ~ (tree[i].id = id /\ tree[i].kind # "dummy")
    <3>1. F[i] = tree[i]
      BY <1>3, <2>3 DEF findbyID
    <3> QED BY <2>1, <3>1
  <2> QED BY <2>2, <2>3
<1>4. F \in Seq(NodeSet(D))
  <2>1. F = [i \in 1 .. Len(tree) |-> F[i]]
    BY <1>1, <1>2 DEF findbyID
  <2> HIDE DEF F
  <2> QED BY <1>1, <1>3, <2>1
<1> QED BY <1>2, <1>3, <1>4

LEMMA VisitNodeStep ==
  ASSUME IInv, VisitNode
  PROVE  IInv'
<1> DEFINE h == Head(queue)
           q == tree[h].parents[1]
<1>1. /\ phase = "duplicates" /\ phase' = "duplicates" /\ net' = net /\ it' = it
      /\ ID_list' = ID_list /\ stack' = stack /\ queue # <<>>
      /\ tree' = IF tree[h].kind = "dummy" THEN findbyID(tree, tree[h].id, q) ELSE tree
      /\ queue' = Tail(queue) \o tree[h].children
  BY DEF VisitNode, NextQueue
<1>2. net' = net /\ it' = it /\ ID_list' = ID_list /\ stack' = stack
  BY <1>1
<1>3. /\ TypeOK /\ tree \in Seq(NodeSet(DOMAIN tree)) /\ queue \in Seq(DOMAIN tree)
      /\ DOMAIN tree = 1 .. Len(tree) /\ Len(tree) \in Nat
      /\ \A i \in DOMAIN tree : tree[i] \in NodeSet(DOMAIN tree)
  BY TreeFacts DEF IInv, TypeOK
<1>4. h \in DOMAIN tree /\ Tail(queue) \in Seq(DOMAIN tree)
  BY <1>1, <1>3, HeadTailProperties
<1>5. tree[h].kind = "dummy" =>
        /\ q \in LayerNodes
        /\ \A l, m \in LayersOf(net) :
             net.id[l] = tree[q].id /\ net.id[m] = tree[h].id
               => net.depth[l] < net.depth[m]
  <2> SUFFICES ASSUME tree[h].kind = "dummy"
               PROVE  /\ q \in LayerNodes
                      /\ \A l, m \in LayersOf(net) :
                           net.id[l] = tree[q].id /\ net.id[m] = tree[h].id
                             => net.depth[l] < net.depth[m]
    OBVIOUS
  <2>1. Stands(h) /\ tree[h].parents # <<>>
    BY <1>4 DEF Stands, IInv, DummiesOK
  <2>2. 1 \in DOMAIN tree[h].parents
    <3>1. tree[h].parents \in Seq(DOMAIN tree)
      BY <1>3, <1>4 DEF NodeSet
    <3>2. /\ DOMAIN tree[h].parents = 1 .. Len(tree[h].parents)
          /\ Len(tree[h].parents) \in Nat
      BY <3>1, LenProperties
    <3>3. Len(tree[h].parents) # 0
      BY <2>1, <3>1, EmptySeq
    <3> QED BY <3>2, <3>3
  <2> QED BY <1>4, <2>1, <2>2 DEF IInv, DummiesOK
<1> HIDE DEF h, q
<1>6. /\ tree' \in Seq(NodeSet(DOMAIN tree)) /\ DOMAIN tree' = DOMAIN tree
      /\ \A i \in DOMAIN tree :
           /\ tree'[i].kind = tree[i].kind /\ tree'[i].id = tree[i].id
           /\ \/ tree'[i].parents = tree[i].parents
              \/ /\ tree[h].kind = "dummy"
                 /\ tree[i].kind # "dummy" /\ tree[i].id = tree[h].id
                 /\ \A k \in DOMAIN tree'[i].parents :
                      \/ tree'[i].parents[k] = q
                      \/ k \in DOMAIN tree[i].parents
                         /\ tree'[i].parents[k] = tree[i].parents[k]
  <2>1. CASE tree[h].kind = "dummy"
    <3>1. q \in DOMAIN tree
      BY <1>5, <2>1 DEF LayerNodes
    <3> DEFINE F == findbyID(tree, tree[h].id, q)
    <3>2. tree' = F
      BY <1>1, <2>1
    <3>3. /\ F \in Seq(NodeSet(DOMAIN tree)) /\ DOMAIN F = DOMAIN tree
          /\ \A i \in DOMAIN tree :
               /\ F[i].kind = tree[i].kind /\ F[i].id = tree[i].id
               /\ \/ F[i].parents = tree[i].parents
                  \/ /\ tree[i].kind # "dummy" /\ tree[i].id = tree[h].id
                     /\ \A k \in DOMAIN F[i].parents :
                          \/ F[i].parents[k] = q
                          \/ k \in DOMAIN tree[i].parents
                             /\ F[i].parents[k] = tree[i].parents[k]
      BY <1>3, <3>1, FindFacts
    <3> HIDE DEF F
    <3> QED BY <2>1, <3>2, <3>3
  <2>2. CASE tree[h].kind # "dummy"
    BY <1>1, <1>3, <2>2
  <2> QED BY <2>1, <2>2
<1>7. LayerNodes' = LayerNodes /\ \A i \in LayerNodes : tree'[i].id = tree[i].id
  BY <1>6 DEF LayerNodes
<1>8. queue' \in Seq(DOMAIN tree)
  <2>1. tree[h].children \in Seq(DOMAIN tree)
    BY <1>3, <1>4 DEF NodeSet
  <2>2. Tail(queue) \o tree[h].children \in Seq(DOMAIN tree)
    BY <1>4, <2>1, ConcatProperties, Zenon
  <2> QED BY <1>1, <2>2
<1>9. phase' = "duplicates"
  BY <1>1
<1>10. TypeOK'
  <2>1. tree' \in Seq(NodeSet(DOMAIN tree')) /\ queue' \in Seq(DOMAIN tree')
    BY <1>6, <1>8
  <2>2. stack' \in Seq(FrameSet(DOMAIN tree'))
    BY <1>3, <1>6, <1>2, TreeFacts
  <2>3. IsNetwork(net) /\ it \in Nat \ {0} /\ ID_list \subseteq Nat
    BY <1>3 DEF TypeOK
  <2> QED BY <1>2, <1>9, <2>1, <2>2, <2>3 DEF TypeOK, NodeSet, FrameSet, LayersOf
<1>11. StackOK'
  BY <1>9 DEF StackOK
<1>12. RootOK'
  <2>1. tree' # <<>> => DOMAIN tree' # {}
    BY <1>6, EmptySeq, LenProperties
  <2>2. tree' # <<>> => 1 \in DOMAIN tree /\ tree # <<>>
    BY <1>3, <1>6, <2>1
  <2>3. 1 \in DOMAIN tree => tree'[1].id = tree[1].id
    BY <1>6
  <2>4. phase # "root"
    BY <1>1
  <2> QED BY <1>2, <2>2, <2>3, <2>4 DEF IInv, RootOK
<1>13. FramesOK'
  BY <1>7, <1>2 DEF IInv, FramesOK, NotBelow
<1>14. OneNodePerLayer' /\ IDsOK'
  BY <1>7, <1>2 DEF IInv, OneNodePerLayer, IDsOK
<1>15. DummiesOK'
  <2> SUFFICES ASSUME NEW i \in DOMAIN tree'
               PROVE  /\ tree'[i].kind = "dummy" => tree'[i].parents # <<>>
                      /\ Stands(i)' => \A k \in DOMAIN tree'[i].parents :
                           LET p == tree'[i].parents[k] IN
                             /\ p \in LayerNodes'
                             /\ \A l, m \in LayersOf(net') :
                                  net'.id[l] = tree'[p].id /\ net'.id[m] = tree'[i].id
                                    => net'.depth[l] < net'.depth[m]
    BY DEF DummiesOK
  <2>1. /\ tree[i].kind = "dummy" => tree[i].parents # <<>>
        /\ Stands(i) => \A k \in DOMAIN tree[i].parents :
             /\ tree[i].parents[k] \in LayerNodes
             /\ \A l, m \in LayersOf(net) :
                  net.id[l] = tree[tree[i].parents[k]].id /\ net.id[m] = tree[i].id
                    => net.depth[l] < net.depth[m]
    BY <1>6 DEF IInv, DummiesOK
  <2>2. i \in DOMAIN tree /\ (Stands(i)' <=> Stands(i)) /\ tree'[i].id = tree[i].id
    BY <1>6 DEF Stands
  <2>3. tree'[i].kind = "dummy" => tree'[i].parents # <<>>
    BY <1>6, <2>1, <2>2
  <2>4. ASSUME Stands(i)', NEW k \in DOMAIN tree'[i].parents
        PROVE  /\ tree'[i].parents[k] \in LayerNodes
               /\ \A l, m \in LayersOf(net) :
                    net.id[l] = tree[tree'[i].parents[k]].id /\ net.id[m] = tree[i].id
                      => net.depth[l] < net.depth[m]
    <3>1. CASE k \in DOMAIN tree[i].parents /\ tree'[i].parents[k] = tree[i].parents[k]
      BY <2>1, <2>2, <2>4, <3>1
    <3>2. CASE /\ tree[h].kind = "dummy" /\ tree[i].id = tree[h].id
               /\ tree'[i].parents[k] = q
      BY <1>5, <3>2
    <3> QED BY <1>6, <2>2, <2>4, <3>1, <3>2
  <2>5. net' = net
    BY <1>2
  <2>6. \A p \in LayerNodes : p \in LayerNodes' /\ tree'[p].id = tree[p].id
    BY <1>7
  <2>7. ASSUME Stands(i)', NEW k \in DOMAIN tree'[i].parents
        PROVE  /\ tree'[i].parents[k] \in LayerNodes'
               /\ \A l, m \in LayersOf(net') :
                    net'.id[l] = tree'[tree'[i].parents[k]].id /\ net'.id[m] = tree'[i].id
                      => net'.depth[l] < net'.depth[m]
    <3>1. /\ tree'[i].parents[k] \in LayerNodes
          /\ \A l, m \in LayersOf(net) :
               net.id[l] = tree[tree'[i].parents[k]].id /\ net.id[m] = tree[i].id
                 => net.depth[l] < net.depth[m]
      BY <2>4, <2>7
    <3> QED BY <2>2, <2>5, <2>6, <3>1
  <2> QED BY <2>3, <2>7
<1> QED BY <1>10, <1>11, <1>12, <1>13, <1>14, <1>15 DEF IInv

-----------------------------------------------------------------------------
LEMMA InitIInv == Init => IInv
<1> SUFFICES ASSUME Init PROVE IInv
  OBVIOUS
<1>1. /\ IsNetwork(net) /\ phase = "root" /\ it = 1 /\ tree = <<>>
      /\ ID_list = {} /\ stack = <<>> /\ queue = <<>>
  BY NetworksAssumption DEF Init
<1>2. TypeOK
  BY <1>1 DEF TypeOK
<1> QED BY <1>1, <1>2 DEF IInv, StackOK, FramesOK, RootOK, IDsOK, DummiesOK,
                         OneNodePerLayer, LayerNodes

(* IInv holds at the start and no step of the parse breaks it.             *)
THEOREM ParseInductive == Init /\ [][Next]_vars => []IInv
<1>1. IInv /\ [Next]_vars => IInv'
  <2> SUFFICES ASSUME IInv, [Next]_vars PROVE IInv'
    OBVIOUS
  <2>1. CASE SkipLayer
    BY <2>1, SkipLayerStep
  <2>2. CASE FoundRoot
    BY <2>2, FoundRootStep
  <2>3. CASE ParseDuplicate
    BY <2>3, DuplicateStep
  <2>4. CASE ParseLayer
    BY <2>4, LayerStep
  <2>5. CASE ParseUnsupported
    BY <2>5, UnsupportedStep
  <2>6. CASE ParseReturn
    BY <2>6, ReturnStep
  <2>7. CASE VisitNode
    BY <2>7, VisitNodeStep
  <2>8. CASE NoRoot \/ TreeParsed \/ Finish \/ UNCHANGED vars
    BY <2>8, PhaseStep
  <2> QED BY <2>1, <2>2, <2>3, <2>4, <2>5, <2>6, <2>7, <2>8 DEF Next
<1> QED BY InitIInv, <1>1, PTL

(* Every address the parse keeps, of a child, a parent, a frame's node or  *)
(* a queued one, is that of a node it allocated: parse_child and           *)
(* find_missing_duplicates follow no dangling pointer.                     *)
THEOREM ParseTypeCorrect == Spec => []TypeOK
<1>1. IInv => TypeOK
  BY DEF IInv
<1> QED BY ParseInductive, <1>1, PTL DEF Spec

(* However many paths lead to a layer, and although the root's ID is not   *)
(* in ID_list, parse_child makes one node for it.                          *)
THEOREM OneNode == Spec => []OneNodePerLayer
<1>1. IInv => OneNodePerLayer
  BY DEF IInv
<1> QED BY ParseInductive, <1>1, PTL DEF Spec

(* The parents a layer has, those find_missing_duplicates adds from its    *)
(* dummies among them, are layers above it in the network: no layer waits  *)
(* for itself.                                                             *)
THEOREM ParentsLieAbove == Spec => []ParentsAbove
<1>1. IInv => ParentsAbove
  BY DEF IInv, DummiesOK, Stands, ParentsAbove, LayerNodes
<1> QED BY ParseInductive, <1>1, PTL DEF Spec

-----------------------------------------------------------------------------
(* The children pointers.                                                  *)

(* Number k of the children of p is c, in tree t.                          *)
At(t, p, k, c) ==
  p \in DOMAIN t /\ k \in DOMAIN t[p].children /\ t[p].children[k] = c

(* In tree t each node hangs on one place, on a node made before it; but   *)
(* those in L hang nowhere.                                                *)
Hanging(t, L) ==
  \A c \in DOMAIN t :
    /\ c \in L => \A p, k : ~ At(t, p, k, c)
    /\ c \notin L => \E p, k : /\ At(t, p, k, c) /\ p < c
                               /\ \A q, j : At(t, q, j, c) => q = p /\ j = k

(* Tree u has one more child than t: number m of i is c.                   *)
Pushed(t, u, i, m, c) ==
  \A p, k, x : At(u, p, k, x) <=> At(t, p, k, x) \/ (p = i /\ k = m /\ x = c)

(* The root, and what the active calls are going to return.                *)
Loose == {1} \cup {stack[k].result : k \in DOMAIN stack}

(* Each active call but the first has its own node to return, which was    *)
(* made after the one its caller will hang it on.                          *)
CallsOK ==
  /\ \A k \in DOMAIN stack : k > 1 => stack[k - 1].owner < stack[k].result
  /\ \A j, k \in DOMAIN stack : stack[j].result = stack[k].result => j = k
  /\ stack # <<>> => stack[1].result = 1
  /\ phase \in {"duplicates", "done"} => stack = <<>>

HangInv == IInv /\ CallsOK /\ Hanging(tree, Loose)

LEMMA HangNew ==
  ASSUME NEW t, NEW u, NEW L, NEW n, Hanging(t, L), DOMAIN u = DOMAIN t \cup {n},
         n \notin DOMAIN t, \A p, k, c : At(u, p, k, c) <=> At(t, p, k, c),
         \A p, k : ~ At(t, p, k, n)
  PROVE  Hanging(u, L \cup {n})
BY DEF Hanging

LEMMA HangPushed ==
  ASSUME NEW t, NEW u, NEW L, NEW i, NEW m, NEW c, Hanging(t, L), i < c,
         DOMAIN u \subseteq DOMAIN t \cup {c}, \A p, k : ~ At(t, p, k, c),
         Pushed(t, u, i, m, c)
  PROVE  Hanging(u, L \ {c})
<1>0. \A p, k, x : At(u, p, k, x) <=> At(t, p, k, x) \/ (p = i /\ k = m /\ x = c)
  BY DEF Pushed
<1> SUFFICES ASSUME NEW x \in DOMAIN u
             PROVE  /\ x \in L \ {c} => \A p, k : ~ At(u, p, k, x)
                    /\ x \notin L \ {c} => \E p, k : /\ At(u, p, k, x) /\ p < x
                                         /\ \A q, j : At(u, q, j, x) => q = p /\ j = k
  BY DEF Hanging
<1>1. CASE x = c
  <2>1. At(u, i, m, c)
    BY <1>0
  <2>2. \A q, j : At(u, q, j, c) => q = i /\ j = m
    BY <1>0
  <2> QED BY <1>1, <2>1, <2>2
<1>2. CASE x # c
  <2>1. \A p, k : At(u, p, k, x) <=> At(t, p, k, x)
    BY <1>0, <1>2
  <2>2. x \in DOMAIN t
    BY <1>2
  <2>3. /\ x \in L => \A p, k : ~ At(t, p, k, x)
        /\ x \notin L => \E p, k : /\ At(t, p, k, x) /\ p < x
                                   /\ \A q, j : At(t, q, j, x) => q = p /\ j = k
    BY <2>2 DEF Hanging
  <2> QED BY <1>2, <2>1, <2>3
<1> QED BY <1>1, <1>2

LEMMA AppendPlaces ==
  ASSUME NEW D, NEW t \in Seq(NodeSet(D)), NEW x \in NodeSet(D), x.children = <<>>
  PROVE  \A p, k, c : At(Append(t, x), p, k, c) <=> At(t, p, k, c)
<1> DEFINE u == Append(t, x)
<1>1. /\ u \in Seq(NodeSet(D)) /\ Len(u) = Len(t) + 1 /\ Len(t) \in Nat
      /\ DOMAIN t = 1 .. Len(t) /\ \A j \in 1 .. Len(t) : u[j] = t[j]
      /\ u[Len(t) + 1] = x
  BY AppendProperties, LenProperties
<1> HIDE DEF u
<1>2. DOMAIN u = 1 .. Len(t) + 1
  BY <1>1, LenProperties
<1>3. DOMAIN x.children = {}
  OBVIOUS
<1>4. DOMAIN u = DOMAIN t \cup {Len(t) + 1} /\ Len(t) + 1 \notin DOMAIN t
  BY <1>1, <1>2
<1>5. \A p, k, c : At(u, p, k, c) <=> At(t, p, k, c)
  BY <1>1, <1>3, <1>4 DEF At
<1> QED BY <1>5 DEF u

LEMMA PushPlaces ==
  ASSUME NEW D, NEW t \in Seq(NodeSet(D)), NEW i \in DOMAIN t, NEW c \in D
  PROVE  /\ \E m : Pushed(t, PushChild(t, i, c), i, m, c)
         /\ DOMAIN PushChild(t, i, c) = DOMAIN t
<1> DEFINE ch == t[i].children
           ach == Append(ch, c)
           u == PushChild(t, i, c)
<1>1. t[i] \in NodeSet(D)
  BY LenProperties, ElementOfSeq
<1>2. ch \in Seq(D)
  BY <1>1 DEF NodeSet
<1>3. /\ Len(ch) \in Nat /\ DOMAIN ch = 1 .. Len(ch)
      /\ ach \in Seq(D) /\ Len(ach) = Len(ch) + 1
      /\ \A k \in 1 .. Len(ch) : ach[k] = ch[k]
      /\ ach[Len(ch) + 1] = c
  BY <1>2, AppendProperties, LenProperties
<1> HIDE DEF ach
<1>4. DOMAIN ach = 1 .. Len(ch) + 1
  BY <1>3, LenProperties
<1>5. DOMAIN u = DOMAIN t /\ u[i] = [t[i] EXCEPT !.children = ach]
  BY DEF PushChild, ach
<1>6. u[i].children = ach
  BY <1>1, <1>5 DEF NodeSet
<1>7. \A p \in DOMAIN t : p # i => u[p] = t[p]
  BY DEF PushChild
<1> HIDE DEF u, ch
<1>8. \A k, x : (k \in DOMAIN ach /\ ach[k] = x)
                  <=> (k \in DOMAIN ch /\ ch[k] = x) \/ (k = Len(ch) + 1 /\ x = c)
  BY <1>3, <1>4
<1>9. \A p, k, x : At(u, p, k, x) <=> At(t, p, k, x) \/ (p = i /\ k = Len(ch) + 1 /\ x = c)
  <2> SUFFICES ASSUME NEW p, NEW k, NEW x
               PROVE  At(u, p, k, x) <=> At(t, p, k, x) \/ (p = i /\ k = Len(ch) + 1 /\ x = c)
    OBVIOUS
  <2>1. CASE p = i
    BY <1>5, <1>6, <1>8, <2>1 DEF At, ch
  <2>2. CASE p # i
    BY <1>5, <1>7, <2>2 DEF At
  <2> QED BY <2>1, <2>2
<1>10. Pushed(t, u, i, Len(ch) + 1, c)
  BY <1>9 DEF Pushed
<1> QED BY <1>5, <1>10 DEF u

(* No child is a node yet to be made.                                      *)
LEMMA NoPlaceForNew ==
  ASSUME TypeOK
  PROVE  /\ New \notin DOMAIN tree /\ New \in Nat /\ \A i \in DOMAIN tree : i \in Nat /\ i < New
         /\ \A p, k : ~ At(tree, p, k, New)
<1>1. /\ Len(tree) \in Nat /\ DOMAIN tree = 1 .. Len(tree)
      /\ \A i \in DOMAIN tree : tree[i] \in NodeSet(DOMAIN tree)
  BY TreeFacts
<1>2. New \notin DOMAIN tree /\ New \in Nat /\ \A i \in DOMAIN tree : i \in Nat /\ i < New
  BY <1>1 DEF New
<1>3. ASSUME NEW p, NEW k, At(tree, p, k, New) PROVE FALSE
  <2>1. tree[p].children \in Seq(DOMAIN tree)
    BY <1>1, <1>3 DEF At, NodeSet
  <2>2. tree[p].children[k] \in DOMAIN tree
    BY <1>3, <2>1, LenProperties DEF At
  <2> QED BY <1>2, <1>3, <2>2 DEF At
<1> QED BY <1>2, <1>3

LEMMA AdvanceResults ==
  ASSUME TypeOK, stack # <<>>
  PROVE  /\ DOMAIN Advance(stack) = DOMAIN stack
         /\ \A k \in DOMAIN stack : /\ Advance(stack)[k].result = stack[k].result
                                    /\ Advance(stack)[k].owner = stack[k].owner
<1>1. /\ Len(stack) \in DOMAIN stack /\ \A k \in DOMAIN stack : stack[k] \in FrameSet(DOMAIN tree)
  BY TreeFacts, EmptySeq
<1> DEFINE f == [Top EXCEPT !.next = @ + 1]
<1>2. f.result = Top.result /\ f.owner = Top.owner
  BY <1>1 DEF FrameSet, Top
<1>3. Advance(stack) = [stack EXCEPT ![Len(stack)] = f]
  BY DEF Advance, Top
<1> HIDE DEF f
<1> QED BY <1>1, <1>2, <1>3 DEF Top

(* A call that starts with the new node.                                   *)
LEMMA CallHangs ==
  ASSUME HangInv, Calling, phase' = phase, NEW x \in NodeSet(1 .. New), x.children = <<>>,
         NEW f \in FrameSet(1 .. New), f.result = New,
         tree' = Append(tree, x), stack' = Append(Advance(stack), f)
  PROVE  CallsOK' /\ Hanging(tree, Loose)'
<1>1. /\ TypeOK /\ phase = "parse" /\ stack # <<>>
      /\ Len(stack) \in Nat /\ DOMAIN stack = 1 .. Len(stack)
      /\ tree \in Seq(NodeSet(1 .. New)) /\ Top.owner \in DOMAIN tree
      /\ Len(stack) \in DOMAIN stack
  BY NewFacts, TreeFacts, EmptySeq DEF HangInv, IInv, Calling, StackOK
<1>2. Advance(stack) \in Seq(FrameSet(1 .. New))
  BY <1>1, AdvanceFacts, NewFacts, GrowStack DEF HangInv
<1>3. /\ DOMAIN stack' = 1 .. Len(stack) + 1
      /\ \A k \in DOMAIN stack : /\ stack'[k].result = stack[k].result
                                 /\ stack'[k].owner = stack[k].owner
      /\ stack'[Len(stack) + 1] = f
  <2> DEFINE a == Advance(stack)
             s == Append(a, f)
  <2>1. Len(a) = Len(stack) /\ \A k \in DOMAIN stack : /\ a[k].result = stack[k].result
                                                        /\ a[k].owner = stack[k].owner
    BY <1>1, AdvanceFacts, AdvanceResults
  <2> HIDE DEF a
  <2>2. /\ s \in Seq(FrameSet(1 .. New)) /\ Len(s) = Len(stack) + 1
        /\ \A k \in 1 .. Len(stack) : s[k] = a[k]
        /\ s[Len(stack) + 1] = f
    BY <1>2, <2>1, AppendProperties DEF a
  <2>3. DOMAIN s = 1 .. Len(stack) + 1
    BY <2>2, LenProperties
  <2>4. stack' = s
    BY DEF a
  <2> QED BY <1>1, <2>1, <2>2, <2>3, <2>4
<1>4. \A k \in DOMAIN stack : stack[k].result \in DOMAIN tree
  BY <1>1, TreeFacts DEF FrameSet
<1>5. /\ New \notin DOMAIN tree /\ Top.owner < New
  BY <1>1, NoPlaceForNew
<1>6. DOMAIN stack' = DOMAIN stack \cup {Len(stack) + 1} /\ Len(stack) + 1 \notin DOMAIN stack
  BY <1>1, <1>3
<1>7. CallsOK'
  <2>1. ASSUME NEW k \in DOMAIN stack', k > 1 PROVE stack'[k - 1].owner < stack'[k].result
    <3>1. CASE k \in DOMAIN stack
      <4>1. k - 1 \in DOMAIN stack
        BY <1>1, <2>1, <3>1
      <4> QED BY <1>3, <2>1, <3>1, <4>1 DEF HangInv, CallsOK
    <3>2. CASE k = Len(stack) + 1
      <4>1. k - 1 = Len(stack)
        BY <1>1, <3>2
      <4> QED BY <1>1, <1>3, <1>5, <3>2, <4>1 DEF Top
    <3> QED BY <1>6, <3>1, <3>2
  <2>2. \A j, k \in DOMAIN stack' : stack'[j].result = stack'[k].result => j = k
    BY <1>3, <1>4, <1>5, <1>6 DEF HangInv, CallsOK
  <2>3. stack'[1].result = 1
    <3>1. 1 \in DOMAIN stack
      BY <1>1
    <3> QED BY <1>1, <1>3, <3>1 DEF HangInv, CallsOK
  <2> QED BY <1>1, <2>1, <2>2, <2>3 DEF CallsOK
<1>8. Loose' = Loose \cup {New}
  BY <1>3, <1>6 DEF Loose
<1>9. DOMAIN tree' = DOMAIN tree \cup {New}
  <2>1. Len(tree) \in Nat /\ DOMAIN tree = 1 .. Len(tree) /\ New = Len(tree) + 1
    BY <1>1, TreeFacts DEF New
  <2>2. DOMAIN tree' = 1 .. New
    BY <1>1, <2>1, AddNode
  <2> QED BY <2>1, <2>2
<1>10. \A p, k, c : At(tree', p, k, c) <=> At(tree, p, k, c)
  BY <1>1, AppendPlaces
<1>11. Hanging(tree', Loose \cup {New})
  BY <1>1, <1>9, <1>10, NoPlaceForNew, HangNew DEF HangInv
<1> QED BY <1>7, <1>8, <1>11

LEMMA LayerHangs ==
  ASSUME HangInv, ParseLayer
  PROVE  CallsOK' /\ Hanging(tree, Loose)'
<1> DEFINE x == Node("layer", net.id[Consumer], <<Top.owner>>)
           f == Frame(Consumer, New, New)
<1>1. /\ Calling /\ tree' = Append(tree, x) /\ stack' = Append(Advance(stack), f)
      /\ phase' = phase
  BY DEF ParseLayer
<1>2. x \in NodeSet(1 .. New) /\ x.children = <<>>
  BY <1>1, NewFacts, ConsumerFacts DEF HangInv, Node, NodeSet, Kinds
<1>3. f \in FrameSet(1 .. New) /\ f.result = New
  BY <1>1, NewFacts, ConsumerFacts DEF HangInv, Frame, FrameSet, First
<1> HIDE DEF x, f
<1> QED BY <1>1, <1>2, <1>3, CallHangs

LEMMA UnsupportedHangs ==
  ASSUME HangInv, ParseUnsupported
  PROVE  CallsOK' /\ Hanging(tree, Loose)'
<1> DEFINE f == Frame(Consumer, Top.owner, New)
<1>1. Calling /\ stack' = Append(Advance(stack), f) /\ phase' = phase
  BY DEF ParseUnsupported
<1>2. PICK id \in GarbageIDs : tree' = Append(tree, Node("anyName", id, <<>>))
  BY DEF ParseUnsupported
<1> DEFINE x == Node("anyName", id, <<>>)
<1>3. x \in NodeSet(1 .. New) /\ x.children = <<>>
  BY GarbageAssumption DEF Node, NodeSet, Kinds
<1>4. f \in FrameSet(1 .. New) /\ f.result = New
  BY <1>1, NewFacts, ConsumerFacts DEF HangInv, Frame, FrameSet, First
<1>5. tree' = Append(tree, x)
  BY <1>2
<1> HIDE DEF x, f
<1> QED BY <1>1, <1>3, <1>4, <1>5, CallHangs

(* A dummy is hung at once.                                                *)
LEMMA DuplicateHangs ==
  ASSUME HangInv, ParseDuplicate
  PROVE  CallsOK' /\ Hanging(tree, Loose)'
<1> DEFINE D == 1 .. New
           t == PushChild(tree, Top.owner, New)
<1>1. /\ Calling /\ tree' = Append(t, Dummy) /\ stack' = Advance(stack) /\ phase' = phase
      /\ phase = "parse"
  BY DEF ParseDuplicate, Calling
<1>2. /\ TypeOK /\ New \in D /\ Top.owner \in DOMAIN tree /\ tree \in Seq(NodeSet(D))
      /\ stack # <<>> /\ Top.owner \in D
  BY <1>1, NewFacts DEF HangInv, IInv, StackOK
<1>3. Dummy \in NodeSet(D) /\ Dummy.children = <<>>
  BY <1>1, <1>2, ConsumerFacts DEF HangInv, Dummy, Node, NodeSet, Kinds
<1>4. PICK m : Pushed(tree, t, Top.owner, m, New)
  BY <1>2, PushPlaces
<1>5. t \in Seq(NodeSet(D)) /\ Len(t) = Len(tree)
  BY <1>2, PushNode
<1> HIDE DEF t
<1>6. Pushed(tree, tree', Top.owner, m, New)
  <2>1. \A p, k, x : At(tree', p, k, x) <=> At(t, p, k, x)
    BY <1>1, <1>3, <1>5, AppendPlaces
  <2> QED BY <1>4, <2>1 DEF Pushed
<1>7. DOMAIN tree' = DOMAIN tree \cup {New}
  <2>1. Len(tree) \in Nat /\ DOMAIN tree = 1 .. Len(tree) /\ New = Len(tree) + 1
    BY <1>2, TreeFacts DEF New
  <2>2. DOMAIN tree' = 1 .. New
    BY <1>1, <1>3, <1>5, <2>1, AddNode
  <2> QED BY <2>1, <2>2
<1>8. New \notin DOMAIN tree /\ Top.owner < New /\ \A p, k : ~ At(tree, p, k, New)
  BY <1>2, NoPlaceForNew
<1>9. Hanging(tree', Loose \ {New})
  BY <1>6, <1>7, <1>8, HangPushed DEF HangInv
<1>10. /\ DOMAIN stack' = DOMAIN stack
       /\ \A k \in DOMAIN stack : /\ stack'[k].result = stack[k].result
                                  /\ stack'[k].owner = stack[k].owner
  BY <1>1, <1>2, AdvanceResults
<1>11. DOMAIN stack = 1 .. Len(stack) /\ Len(stack) \in Nat
       /\ \A k \in DOMAIN stack : stack[k].result \in DOMAIN tree
  BY <1>2, TreeFacts DEF FrameSet
<1>12. Loose' = Loose
  BY <1>10 DEF Loose
<1>13. New \notin Loose
  <2>1. 1 \in DOMAIN tree
    BY <1>1, TopFacts DEF HangInv
  <2> QED BY <1>8, <1>11, <2>1 DEF Loose
<1>14. Loose \ {New} = Loose
  BY <1>13
<1>15. CallsOK'
  <2>1. \A k \in DOMAIN stack : k > 1 => k - 1 \in DOMAIN stack
    BY <1>11
  <2>2. 1 \in DOMAIN stack
    BY <1>2, <1>11, TreeFacts, EmptySeq
  <2> QED BY <1>1, <1>10, <2>1, <2>2 DEF HangInv, CallsOK
<1> QED BY <1>9, <1>12, <1>14, <1>15

(* A call that returns hangs its node.                                     *)
LEMMA ReturnHangs ==
  ASSUME HangInv, ParseReturn
  PROVE  CallsOK' /\ Hanging(tree, Loose)'
<1> DEFINE D == DOMAIN tree
           n == Len(stack)
           c == Top.result
<1>1. /\ tree' = PushChild(tree, Caller.owner, c) /\ stack' = Front(stack) /\ n > 1
      /\ phase' = phase /\ phase = "parse"
  BY DEF ParseReturn, Returning
<1>2. /\ TypeOK /\ tree \in Seq(NodeSet(D)) /\ n \in Nat /\ DOMAIN stack = 1 .. n
      /\ \A k \in DOMAIN stack : stack[k] \in FrameSet(D)
  BY TreeFacts DEF HangInv, IInv
<1>3. /\ n \in DOMAIN stack /\ n - 1 \in DOMAIN stack /\ 1 \in DOMAIN stack
      /\ c = stack[n].result /\ Caller.owner = stack[n - 1].owner
  BY <1>1, <1>2 DEF Top, Caller
<1>4. c \in D /\ Caller.owner \in D /\ Caller.owner < c
  BY <1>1, <1>2, <1>3 DEF FrameSet, HangInv, CallsOK
<1>5. c # 1 /\ stack[1].result = 1
  BY <1>1, <1>2, <1>3 DEF HangInv, CallsOK
<1>6. c \in Loose
  BY <1>3 DEF Loose
<1>7. \A p, k : ~ At(tree, p, k, c)
  BY <1>4, <1>6 DEF HangInv, Hanging
<1> DEFINE u == PushChild(tree, Caller.owner, c)
<1>8. DOMAIN u = DOMAIN tree /\ \E m : Pushed(tree, u, Caller.owner, m, c)
  BY <1>2, <1>4, PushPlaces
<1> HIDE DEF c, u
<1>9. Hanging(tree', Loose \ {c})
  <2>1. DOMAIN u \subseteq DOMAIN tree \cup {c} /\ Hanging(tree, Loose)
    BY <1>8 DEF HangInv
  <2>2. Hanging(u, Loose \ {c})
    BY <1>4, <1>7, <1>8, <2>1, HangPushed
  <2>3. tree' = u
    BY <1>1 DEF u
  <2> QED BY <2>2, <2>3
<1>10. DOMAIN stack' = 1 .. n - 1 /\ \A k \in DOMAIN stack' : stack'[k] = stack[k]
  <2>1. stack' = SubSeq(stack, 1, n - 1)
    BY <1>1 DEF Front
  <2>2. stack \in Seq(FrameSet(D)) /\ \A k \in 1 .. n - 1 : stack[k] \in FrameSet(D)
    BY <1>2, TreeFacts
  <2>3. /\ stack' \in Seq(FrameSet(D)) /\ Len(stack') = n - 1
        /\ \A k \in 1 .. n - 1 : stack'[k] = stack[k]
    BY <1>1, <1>2, <2>1, <2>2, SubSeqProperties
  <2> QED BY <2>3, LenProperties
<1>11. /\ DOMAIN stack' \subseteq DOMAIN stack /\ n \notin DOMAIN stack'
       /\ DOMAIN stack = DOMAIN stack' \cup {n} /\ 1 \in DOMAIN stack'
       /\ \A k \in DOMAIN stack' : k > 1 => k - 1 \in DOMAIN stack'
  BY <1>1, <1>2, <1>10
<1>12. \A j \in DOMAIN stack' : stack[j].result # c
  BY <1>3, <1>11 DEF HangInv, CallsOK
<1>13. Loose' = Loose \ {c}
  <2>1. {stack'[k].result : k \in DOMAIN stack'} = {stack[k].result : k \in DOMAIN stack'}
    BY <1>10
  <2>2. {stack[k].result : k \in DOMAIN stack}
          = {stack[k].result : k \in DOMAIN stack'} \cup {c}
    BY <1>3, <1>11
  <2>3. c \notin {stack[k].result : k \in DOMAIN stack'}
    BY <1>12
  <2> QED BY <1>5, <2>1, <2>2, <2>3 DEF Loose
<1>14. CallsOK'
  <2>1. \A k \in DOMAIN stack' : k > 1 => stack'[k - 1].owner < stack'[k].result
    BY <1>10, <1>11 DEF HangInv, CallsOK
  <2>2. \A j, k \in DOMAIN stack' : stack'[j].result = stack'[k].result => j = k
    <3>1. \A j, k \in DOMAIN stack : stack[j].result = stack[k].result => j = k
      BY DEF HangInv, CallsOK
    <3> QED BY <1>10, <1>11, <3>1
  <2> QED BY <1>1, <1>5, <1>10, <1>11, <2>1, <2>2 DEF CallsOK
<1> QED BY <1>9, <1>13, <1>14

(* The root hangs nowhere.                                                 *)
LEMMA RootHangs ==
  ASSUME HangInv, FoundRoot
  PROVE  CallsOK' /\ Hanging(tree, Loose)'
<1> DEFINE x == Node("layer", net.id[net.order[it]], <<>>)
           f == Frame(net.order[it], 1, 1)
<1>1. phase' = "parse" /\ tree' = <<x>> /\ stack' = <<f>>
  BY DEF FoundRoot
<1>2. x.children = <<>> /\ f.result = 1
  BY DEF Node, Frame
<1> HIDE DEF x, f
<1>3. DOMAIN tree' = {1} /\ tree'[1] = x /\ DOMAIN stack' = {1} /\ stack'[1] = f
  BY <1>1
<1>4. Loose' = {1}
  BY <1>2, <1>3 DEF Loose
<1>5. \A p, k, c : ~ At(tree', p, k, c)
  BY <1>2, <1>3 DEF At
<1>6. Hanging(tree', {1})
  BY <1>3, <1>5 DEF Hanging
<1>7. CallsOK'
  BY <1>1, <1>2, <1>3 DEF CallsOK
<1> QED BY <1>4, <1>6, <1>7

(* The other steps leave the children and the calls alone.                 *)
LEMMA SameHangs ==
  ASSUME HangInv, DOMAIN tree' = DOMAIN tree, stack' = stack,
         \A p \in DOMAIN tree : tree'[p].children = tree[p].children,
         phase' \in {"duplicates", "done"} => phase \in {"duplicates", "done"}
  PROVE  CallsOK' /\ Hanging(tree, Loose)'
<1>1. \A p, k, c : At(tree', p, k, c) <=> At(tree, p, k, c)
  BY DEF At
<1>2. Hanging(tree', Loose)
  BY <1>1 DEF HangInv, Hanging
<1>3. Loose' = Loose
  BY DEF Loose
<1>4. CallsOK'
  BY DEF HangInv, CallsOK
<1> QED BY <1>2, <1>3, <1>4

(* The root's loop is over: only the root hangs nowhere.                   *)
LEMMA ParsedHangs ==
  ASSUME HangInv, TreeParsed
  PROVE  CallsOK' /\ Hanging(tree, Loose)'
<1>1. tree' = tree /\ stack' = <<>> /\ Len(stack) = 1
  BY DEF TreeParsed, RootLoopOver
<1>2. DOMAIN stack = {1} /\ stack # <<>>
  <2>1. DOMAIN stack = 1 .. Len(stack)
    BY TreeFacts DEF HangInv, IInv
  <2>2. DOMAIN stack = {1}
    BY <1>1, <2>1
  <2> QED BY <2>2
<1>3. Loose = {1} /\ Loose' = {1}
  BY <1>1, <1>2 DEF HangInv, CallsOK, Loose
<1>4. CallsOK'
  BY <1>1 DEF CallsOK
<1> QED BY <1>1, <1>3, <1>4 DEF HangInv

LEMMA HangInductive ==
  ASSUME HangInv, [Next]_vars
  PROVE  CallsOK' /\ Hanging(tree, Loose)'
<1>1. ASSUME VisitNode PROVE CallsOK' /\ Hanging(tree, Loose)'
  <2>1. /\ tree' = tree \/ \E id, q : tree' = findbyID(tree, id, q)
        /\ stack' = stack /\ phase = "duplicates"
    BY <1>1 DEF VisitNode
  <2>2. \A i \in DOMAIN tree : tree[i] \in NodeSet(DOMAIN tree)
    BY TreeFacts DEF HangInv, IInv
  <2>3. DOMAIN tree' = DOMAIN tree /\ \A i \in DOMAIN tree : tree'[i].children = tree[i].children
    <3> SUFFICES ASSUME NEW id, NEW q, tree' = findbyID(tree, id, q)
                 PROVE  /\ DOMAIN tree' = DOMAIN tree
                        /\ \A i \in DOMAIN tree : tree'[i].children = tree[i].children
      BY <2>1
    <3>1. DOMAIN tree' = DOMAIN tree
      BY DEF findbyID
    <3>2. ASSUME NEW i \in DOMAIN tree PROVE tree'[i].children = tree[i].children
      <4>1. \/ tree'[i] = [tree[i] EXCEPT !.parents = Append(@, q)]
            \/ tree'[i] = tree[i]
        BY <3>2 DEF findbyID
      <4> QED BY <2>2, <4>1 DEF NodeSet
    <3> QED BY <3>1, <3>2
  <2> QED BY <2>1, <2>3, SameHangs
<1>2. ASSUME SkipLayer \/ NoRoot \/ Finish \/ UNCHANGED vars
      PROVE  CallsOK' /\ Hanging(tree, Loose)'
  <2>1. /\ tree' = tree /\ stack' = stack
        /\ phase' \in {"duplicates", "done"} => phase \in {"duplicates", "done"}
    BY <1>2 DEF SkipLayer, NoRoot, Finish, vars
  <2> QED BY <2>1, SameHangs
<1> QED BY <1>1, <1>2, LayerHangs, UnsupportedHangs, DuplicateHangs, ReturnHangs,
           RootHangs, ParsedHangs DEF Next

THEOREM HangInvariant == Spec => []HangInv
<1>1. Init => CallsOK /\ Hanging(tree, Loose)
  BY DEF Init, CallsOK, Hanging
<1>2. HangInv /\ [Next]_vars => (CallsOK /\ Hanging(tree, Loose))'
  BY HangInductive
<1> QED BY <1>1, <1>2, ParseInductive, PTL DEF Spec, HangInv

(* Once parsed, every node but the root hangs on exactly one place, on a   *)
(* node made before it, for every network: so findbyID, find_by_name and   *)
(* the launchers, which remember no node they have seen, meet each once    *)
(* and end.                                                                *)
THEOREM ChildrenAreATree == Spec => []ChildrenFormTree
<1>1. HangInv => ChildrenFormTree
  <2> SUFFICES ASSUME HangInv, phase \in {"duplicates", "done"}, NEW c \in DOMAIN tree
               PROVE  IF c = 1 THEN Places(c) = {}
                      ELSE \E e \in Places(c) : Places(c) = {e} /\ e[1] < c
    BY DEF ChildrenFormTree
  <2>1. Loose = {1}
    BY DEF HangInv, CallsOK, Loose
  <2>2. \A e : e \in Places(c) <=> \E p, k : e = <<p, k>> /\ At(tree, p, k, c)
    BY DEF Places, At
  <2>3. CASE c = 1
    BY <2>1, <2>2, <2>3 DEF HangInv, Hanging
  <2>4. CASE c # 1
    <3>1. PICK p, k : /\ At(tree, p, k, c) /\ p < c
                      /\ \A q, j : At(tree, q, j, c) => q = p /\ j = k
      BY <2>1, <2>4 DEF HangInv, Hanging
    <3>2. Places(c) = {<<p, k>>}
      BY <2>2, <3>1
    <3>3. <<p, k>>[1] < c
      BY <3>1
    <3> QED BY <2>4, <3>2, <3>3
  <2> QED BY <2>3, <2>4
<1> QED BY <1>1, HangInvariant, PTL

-----------------------------------------------------------------------------
(* The parents of a layer.                                                 *)

(* S has the consumers of layer m, and those of its unsupported layers.    *)
Closed(g, m, S) ==
  \A c \in LayersOf(g) :
    c = m \/ (c \in S /\ ~ isLayerSupported(g, c)) =>
      \A k \in DOMAIN g.succ[c] : g.succ[c][k] \in S

(* The layers to which a path leads from m through unsupported layers only:*)
(* the least such set.                                                     *)
Fed(g, m) ==
  {l \in LayersOf(g) : \A S \in SUBSET LayersOf(g) : Closed(g, m, S) => l \in S}

(* Node j is one of the parents of node i, in tree t.                      *)
Has(t, i, j) == \E k \in DOMAIN t[i].parents : t[i].parents[k] = j

(* A call that works for node j has yet to look at consumer k of layer c.  *)
Pending(j, c, k) ==
  \E f \in DOMAIN stack :
    stack[f].owner = j /\ stack[f].layer = c /\ stack[f].next <= k

(* The node of layer c, or a dummy of it, has parent j.                    *)
Recorded(j, c) ==
  \E i \in DOMAIN tree : Stands(i) /\ tree[i].id = net.id[c] /\ Has(tree, i, j)

(* S are the layers that calls for node j have looked at: they recorded    *)
(* the supported ones, and went or will go on below the others.            *)
Covers(j, S) ==
  /\ \A c \in S : isLayerSupported(net, c) => Recorded(j, c)
  /\ \A c \in LayersOf(net) :
       net.id[c] = tree[j].id \/ (c \in S /\ ~ isLayerSupported(net, c)) =>
         \A k \in DOMAIN net.succ[c] : net.succ[c][k] \in S \/ Pending(j, c, k)

(* Node i stands for a supported layer, which its parents feed; a dummy    *)
(* has one parent, and its layer has a node.                               *)
Sound(i) ==
  /\ \E l \in LayersOf(net) : net.id[l] = tree[i].id /\ isLayerSupported(net, l)
  /\ \A j : Has(tree, i, j) => \A l, m \in LayersOf(net) :
       net.id[l] = tree[i].id /\ net.id[m] = tree[j].id => l \in Fed(net, m)
  /\ tree[i].kind = "dummy" =>
       /\ \E j \in LayerNodes : tree[j].id = tree[i].id
       /\ \A j : Has(tree, i, j) <=> j = tree[i].parents[1]

(* The layer of a call is that of the node it works for, or an unsupported *)
(* one that this layer feeds.                                              *)
LooksBelow(f) ==
  \A m \in LayersOf(net) : net.id[m] = tree[stack[f].owner].id =>
    \/ stack[f].layer = m
    \/ ~ isLayerSupported(net, stack[f].layer) /\ stack[f].layer \in Fed(net, m)

FedOK ==
  /\ \A i \in DOMAIN tree : Stands(i) => Sound(i)
  /\ \A f \in DOMAIN stack : LooksBelow(f)
  /\ \A n \in ID_list : \E i \in LayerNodes : tree[i].id = n
  /\ \A j \in LayerNodes : \E S \in SUBSET LayersOf(net) : Covers(j, S)

LEMMA FedStep ==
  ASSUME NEW g, IsNetwork(g), NEW m \in LayersOf(g), NEW c \in LayersOf(g),
         c = m \/ (c \in Fed(g, m) /\ ~ isLayerSupported(g, c)),
         NEW k \in DOMAIN g.succ[c]
  PROVE  g.succ[c][k] \in Fed(g, m)
<1>1. g.succ[c][k] \in LayersOf(g)
  <2>1. g.succ[c] \in Seq(LayersOf(g))
    BY LayerFacts
  <2>2. k \in 1 .. Len(g.succ[c])
    BY <2>1, LenProperties
  <2> QED BY <2>1, <2>2, ElementOfSeq
<1> QED BY <1>1 DEF Fed, Closed

(* What the steps of the recursion that make a node have in common: x is   *)
(* the new node, and o the node that a new call works for.                 *)
LEMMA CallFeeds ==
  ASSUME IInv, FedOK, Calling, Extends, DOMAIN tree' = DOMAIN tree \cup {New},
         isLayerSupported(net, Consumer) =>
           /\ tree'[New].kind \in {"layer", "dummy"}
           /\ tree'[New].id = net.id[Consumer] /\ tree'[New].parents = <<Top.owner>>,
         ~ isLayerSupported(net, Consumer) => tree'[New].kind = "anyName",
         tree'[New].kind = "dummy" => net.id[Consumer] \in ID_list,
         \A n \in ID_list' :
           n \in ID_list \/ (tree'[New].kind = "layer" /\ n = tree'[New].id),
         NEW o, tree'[New].kind = "layer" => o = New,
         tree'[New].kind = "anyName" => o = Top.owner,
         \A f \in DOMAIN stack :
           /\ f \in DOMAIN stack' /\ stack'[f].layer = stack[f].layer
           /\ stack'[f].owner = stack[f].owner
           /\ stack'[f].next = IF f = Len(stack) THEN stack[f].next + 1 ELSE stack[f].next,
         \A f \in DOMAIN stack' :
           f \in DOMAIN stack
             \/ /\ tree'[New].kind # "dummy"
                /\ stack'[f].owner = o /\ stack'[f].layer = Consumer,
         tree'[New].kind # "dummy" =>
           \E f \in DOMAIN stack' :
             stack'[f].owner = o /\ stack'[f].layer = Consumer /\ stack'[f].next = 1
  PROVE  FedOK'
<1>0. PICK w, C, z : w = Top.owner /\ C = Consumer /\ z = New
  OBVIOUS
<1> USE <1>0
<1>1. /\ TypeOK /\ phase = "parse" /\ net' = net /\ IsNetwork(net)
      /\ New \notin DOMAIN tree
      /\ C \in LayersOf(net) /\ w \in LayerNodes /\ w \in DOMAIN tree
      /\ Len(stack) \in DOMAIN stack /\ Top = stack[Len(stack)]
      /\ Top \in FrameSet(DOMAIN tree)
  BY NoPlaceForNew, ConsumerFacts, TopFacts DEF IInv, TypeOK, Extends, LayerNodes, Top
<1>2. /\ \A j \in DOMAIN tree : Same(j) /\ j \in DOMAIN tree'
      /\ LayerNodes \subseteq LayerNodes'
      /\ \A j \in LayerNodes' : j \in LayerNodes \/ (j = New /\ tree'[New].kind = "layer")
  BY DEF Extends, Same, LayerNodes
<1>3. \A l, m \in LayersOf(net) : net.id[l] = net.id[m] => l = m
  BY <1>1 DEF IsNetwork
<1>4. Top.layer \in LayersOf(net) /\ Top.next \in DOMAIN net.succ[Top.layer]
  <2>1. Top.layer \in LayersOf(net) /\ Top.next \in Nat \ {0}
    BY <1>1 DEF FrameSet
  <2>2. net.succ[Top.layer] \in Seq(LayersOf(net))
    BY <1>1, <2>1, LayerFacts
  <2> QED BY <2>1, <2>2, LenProperties DEF Calling
<1>5. \A m \in LayersOf(net) : net.id[m] = tree[w].id => C \in Fed(net, m)
  <2> SUFFICES ASSUME NEW m \in LayersOf(net), net.id[m] = tree[w].id
               PROVE  C \in Fed(net, m)
    OBVIOUS
  <2>1. \/ Top.layer = m
        \/ ~ isLayerSupported(net, Top.layer) /\ Top.layer \in Fed(net, m)
    BY <1>1 DEF FedOK, LooksBelow
  <2> QED BY <1>1, <1>4, <2>1, FedStep DEF Consumer
<1>6. \A j \in DOMAIN tree : \A p : Has(tree', j, p) <=> Has(tree, j, p)
  BY <1>2 DEF Has, Same
<1>7. tree'[New].parents = <<w>> => \A p : Has(tree', New, p) <=> p = w
  BY DEF Has
<1>8. \A i \in DOMAIN tree' : Stands(i)' => Sound(i)'
  <2> SUFFICES ASSUME NEW i \in DOMAIN tree', Stands(i)' PROVE Sound(i)'
    OBVIOUS
  <2>1. CASE i \in DOMAIN tree
    <3>1. Sound(i) /\ Same(i)
      BY <1>2, <2>1 DEF FedOK, Stands, Same
    <3>2. \A j : Has(tree, i, j) => j \in DOMAIN tree
      <4>1. tree[i].parents \in Seq(DOMAIN tree)
        BY <1>1, <2>1, TreeFacts DEF NodeSet
      <4> QED BY <4>1 DEF Has
    <3>3. \E l \in LayersOf(net') : net'.id[l] = tree'[i].id /\ isLayerSupported(net', l)
      BY <1>1, <3>1 DEF Sound, Same
    <3>4. \A j : Has(tree', i, j) => \A l, m \in LayersOf(net') :
            net'.id[l] = tree'[i].id /\ net'.id[m] = tree'[j].id => l \in Fed(net', m)
      <4> SUFFICES ASSUME NEW j, Has(tree', i, j), NEW l \in LayersOf(net), NEW m \in LayersOf(net),
                          net.id[l] = tree'[i].id, net.id[m] = tree'[j].id
                   PROVE  l \in Fed(net, m)
        BY <1>1
      <4>1. Has(tree, i, j) /\ j \in DOMAIN tree
        BY <1>6, <2>1, <3>2
      <4>2. tree'[i].id = tree[i].id /\ tree'[j].id = tree[j].id
        BY <1>2, <2>1, <4>1 DEF Same
      <4> QED BY <3>1, <4>1, <4>2 DEF Sound
    <3>5. tree'[i].kind = "dummy" =>
            /\ \E j \in LayerNodes' : tree'[j].id = tree'[i].id
            /\ \A j : Has(tree', i, j) <=> j = tree'[i].parents[1]
      BY <1>2, <1>6, <2>1, <3>1 DEF Sound, Same, LayerNodes
    <3> QED BY <3>3, <3>4, <3>5 DEF Sound
  <2>2. CASE i = New
    <3>1. /\ isLayerSupported(net, C) /\ tree'[New].id = net.id[C]
          /\ tree'[New].parents = <<w>>
      BY <2>2 DEF Stands
    <3>2. \A j : Has(tree', New, j) => \A l, m \in LayersOf(net) :
            net.id[l] = tree'[New].id /\ net.id[m] = tree'[j].id => l \in Fed(net, m)
      <4> SUFFICES ASSUME NEW l \in LayersOf(net), NEW m \in LayersOf(net),
                          net.id[l] = tree'[New].id, net.id[m] = tree'[w].id
                   PROVE  l \in Fed(net, m)
        BY <1>7, <3>1
      <4>1. l = C /\ tree'[w].id = tree[w].id
        BY <1>1, <1>2, <1>3, <3>1 DEF Same
      <4> QED BY <1>5, <4>1
    <3>3. tree'[New].kind = "dummy" => \E j \in LayerNodes' : tree'[j].id = tree'[New].id
      <4> SUFFICES ASSUME tree'[New].kind = "dummy"
                   PROVE  \E j \in LayerNodes' : tree'[j].id = tree'[New].id
        OBVIOUS
      <4>1. PICK j \in LayerNodes : tree[j].id = net.id[C]
        BY DEF FedOK
      <4>2. j \in LayerNodes' /\ tree'[j].id = tree[j].id
        BY <1>2 DEF LayerNodes, Same
      <4> QED BY <3>1, <4>1, <4>2
    <3>4. \A j : Has(tree', New, j) <=> j = tree'[New].parents[1]
      BY <1>7, <3>1
    <3> QED BY <1>1, <2>2, <3>1, <3>2, <3>3, <3>4 DEF Sound
  <2> QED BY <2>1, <2>2
<1>9. \A f \in DOMAIN stack' : LooksBelow(f)'
  <2> SUFFICES ASSUME NEW f \in DOMAIN stack', NEW m \in LayersOf(net),
                      net.id[m] = tree'[stack'[f].owner].id
               PROVE  \/ stack'[f].layer = m
                      \/ /\ ~ isLayerSupported(net, stack'[f].layer)
                         /\ stack'[f].layer \in Fed(net, m)
    BY <1>1 DEF LooksBelow
  <2>1. CASE f \in DOMAIN stack
    <3>1. /\ stack'[f].layer = stack[f].layer /\ stack'[f].owner = stack[f].owner
          /\ stack[f].owner \in DOMAIN tree /\ LooksBelow(f)
      BY <2>1 DEF FedOK, IInv, FramesOK, LayerNodes
    <3> QED BY <1>2, <3>1 DEF LooksBelow, Same
  <2>2. CASE /\ tree'[New].kind # "dummy"
             /\ stack'[f].owner = o /\ stack'[f].layer = C
    <3>1. CASE isLayerSupported(net, C)
      BY <1>1, <1>3, <2>2, <3>1
    <3>2. CASE ~ isLayerSupported(net, C)
      <4>1. stack'[f].owner = w /\ tree'[w].id = tree[w].id
        BY <1>1, <1>2, <2>2, <3>2 DEF Same
      <4> QED BY <1>5, <2>2, <3>2, <4>1
    <3> QED BY <3>1, <3>2
  <2> QED BY <2>1, <2>2
<1>10. \A n \in ID_list' : \E i \in LayerNodes' : tree'[i].id = n
  <2> SUFFICES ASSUME NEW n \in ID_list' PROVE \E i \in LayerNodes' : tree'[i].id = n
    OBVIOUS
  <2>1. CASE n \in ID_list
    BY <1>2, <2>1 DEF FedOK, LayerNodes, Same
  <2>2. CASE tree'[New].kind = "layer" /\ n = tree'[New].id
    BY <2>2 DEF LayerNodes
  <2> QED BY <2>1, <2>2
<1>11. \A j, c : Recorded(j, c) => Recorded(j, c)'
  BY <1>1, <1>2, <1>6 DEF Recorded, Same, Stands
<1>12. ASSUME NEW j, NEW c, NEW k \in Nat, Pending(j, c, k)
       PROVE  Pending(j, c, k)' \/ (j = w /\ c = Top.layer /\ k = Top.next)
  <2>1. PICK f \in DOMAIN stack :
          stack[f].owner = j /\ stack[f].layer = c /\ stack[f].next <= k
    BY <1>12 DEF Pending
  <2>2. stack[f].next \in Nat
    BY <1>1, TreeFacts DEF FrameSet
  <2>3. f \in DOMAIN stack' /\ stack'[f].layer = c /\ stack'[f].owner = j
    BY <2>1
  <2>4. CASE stack'[f].next <= k
    BY <2>3, <2>4 DEF Pending
  <2>5. CASE ~ (stack'[f].next <= k)
    <3>1. f = Len(stack) /\ ~ (stack[f].next + 1 <= k)
      BY <2>1, <2>5
    <3>2. stack[f].next = k
      BY <2>1, <2>2, <3>1
    <3> QED BY <1>1, <2>1, <3>1, <3>2
  <2> QED BY <2>4, <2>5
<1>13. ASSUME NEW j, NEW c \in LayersOf(net),
              tree'[New].kind # "dummy", o = j, c = C, NEW k \in DOMAIN net.succ[c]
       PROVE  Pending(j, c, k)'
  <2>1. k \in Nat \ {0}
    <3>1. net.succ[c] \in Seq(LayersOf(net))
      BY <1>1, LayerFacts
    <3> QED BY <3>1, LenProperties
  <2>2. PICK f \in DOMAIN stack' :
             stack'[f].owner = o /\ stack'[f].layer = Consumer /\ stack'[f].next = 1
    BY <1>13
  <2> QED BY <1>13, <2>1, <2>2 DEF Pending
<1>14. ASSUME NEW j \in LayerNodes'
       PROVE  \E S \in SUBSET LayersOf(net) : Covers(j, S)'
  <2>1. CASE j \in LayerNodes
    <3>1. PICK S \in SUBSET LayersOf(net) : Covers(j, S)
      BY <2>1 DEF FedOK
    <3>2. PICK U \in SUBSET LayersOf(net) :
             S \subseteq U /\ U = IF j = w THEN S \cup {C} ELSE S
      BY <1>1
    <3>3. \A c \in U : isLayerSupported(net, c) => Recorded(j, c)'
      <4>1. ASSUME j = w, isLayerSupported(net, C) PROVE Recorded(j, C)'
        <5>1. z \in DOMAIN tree' /\ Stands(z)' /\ tree'[z].id = net.id[C]
          BY <4>1 DEF Stands
        <5>2. Has(tree', z, w)
          BY <1>7, <4>1
        <5> QED BY <1>1, <4>1, <5>1, <5>2 DEF Recorded
      <4>2. \A c \in S : isLayerSupported(net, c) => Recorded(j, c)'
        BY <1>11, <3>1 DEF Covers
      <4> QED BY <3>2, <4>1, <4>2
    <3>4. ASSUME NEW c \in LayersOf(net), NEW k \in DOMAIN net.succ[c],
                 net.id[c] = tree[j].id \/ (c \in S /\ ~ isLayerSupported(net, c))
          PROVE  net.succ[c][k] \in U \/ Pending(j, c, k)'
      <4>1. k \in Nat
        <5>1. net.succ[c] \in Seq(LayersOf(net))
          BY <1>1, LayerFacts
        <5> QED BY <5>1, LenProperties
      <4>2. net.succ[c][k] \in S \/ Pending(j, c, k)
        BY <3>1, <3>4 DEF Covers
      <4>3. CASE j = w /\ c = Top.layer /\ k = Top.next
        BY <3>2, <4>3 DEF Consumer
      <4> QED BY <1>12, <3>2, <4>1, <4>2, <4>3
    <3>5. ASSUME NEW k \in DOMAIN net.succ[C], j = w, ~ isLayerSupported(net, C)
          PROVE  Pending(j, C, k)'
      <4>1. tree'[New].kind = "anyName" /\ o = j
        BY <3>5
      <4> QED BY <1>1, <1>13, <3>5, <4>1
    <3>6. tree'[j].id = tree[j].id
      BY <1>2, <2>1 DEF Same, LayerNodes
    <3>7. Covers(j, U)'
      <4>1. \A c \in LayersOf(net) :
              net.id[c] = tree'[j].id \/ (c \in U /\ ~ isLayerSupported(net, c)) =>
                \A k \in DOMAIN net.succ[c] : net.succ[c][k] \in U \/ Pending(j, c, k)'
        BY <3>2, <3>4, <3>5, <3>6
      <4> QED BY <1>1, <3>3, <4>1 DEF Covers
    <3> QED BY <3>2, <3>7
  <2>2. CASE j = New /\ tree'[New].kind = "layer"
    <3>1. \A c \in LayersOf(net) : net.id[c] = tree'[New].id => c = C
      <4>1. tree'[New].id = net.id[C]
        BY <2>2
      <4> QED BY <1>1, <1>3, <4>1
    <3>2. Covers(j, {})'
      <4>1. \A c \in LayersOf(net) : net.id[c] = tree'[j].id =>
                \A k \in DOMAIN net.succ[c] : Pending(j, c, k)'
        BY <1>13, <2>2, <3>1
      <4> QED BY <1>1, <4>1 DEF Covers
    <3> QED BY <3>2
  <2> QED BY <1>2, <2>1, <2>2
<1> QED BY <1>1, <1>8, <1>9, <1>10, <1>14 DEF FedOK

(* The tree after a call has made node x.                                  *)
LEMMA NodeMade ==
  ASSUME IInv, Calling, UNCHANGED <<net, phase, it>>, ID_list \subseteq ID_list',
         NEW t \in Seq(NodeSet(1 .. New)), Len(t) = Len(tree),
         \A j \in DOMAIN tree : /\ t[j].kind = tree[j].kind
                                /\ t[j].id = tree[j].id
                                /\ t[j].parents = tree[j].parents,
         NEW x \in NodeSet(1 .. New), tree' = Append(t, x)
  PROVE  /\ Extends /\ DOMAIN tree' = DOMAIN tree \cup {New}
         /\ tree'[New] = x
<1>1. Len(tree) \in Nat /\ DOMAIN tree = 1 .. Len(tree) /\ New = Len(tree) + 1
  BY TreeFacts DEF IInv, New
<1>2. /\ DOMAIN tree' = 1 .. New /\ tree'[New] = x
      /\ \A j \in 1 .. Len(tree) : tree'[j] = t[j]
  BY <1>1, AddNode
<1>3. DOMAIN tree' = DOMAIN tree \cup {New}
  BY <1>1, <1>2
<1> QED BY <1>1, <1>2, <1>3 DEF Extends, Same, Calling

(* The calls after Top has gone on to its next consumer.                   *)
LEMMA FramesAdvanced ==
  ASSUME TypeOK, stack # <<>>
  PROVE  /\ DOMAIN Advance(stack) = DOMAIN stack
         /\ \A k \in DOMAIN stack :
              LET f == Advance(stack)[k] IN
                /\ f.layer = stack[k].layer /\ f.owner = stack[k].owner
                /\ f.next = IF k = Len(stack) THEN stack[k].next + 1 ELSE stack[k].next
<1>1. /\ Len(stack) \in DOMAIN stack
      /\ \A k \in DOMAIN stack : stack[k] \in FrameSet(DOMAIN tree)
  BY TreeFacts, EmptySeq
<1> DEFINE f == [Top EXCEPT !.next = @ + 1]
<1>2. f.layer = Top.layer /\ f.owner = Top.owner /\ f.next = Top.next + 1
  BY <1>1 DEF FrameSet, Top
<1>3. Advance(stack) = [stack EXCEPT ![Len(stack)] = f]
  BY DEF Advance, Top
<1> HIDE DEF f
<1> QED BY <1>1, <1>2, <1>3 DEF Top

(* And after it has called itself.                                         *)
LEMMA FramesPushed ==
  ASSUME TypeOK, stack # <<>>, DOMAIN tree \subseteq 1 .. New, NEW f \in FrameSet(1 .. New)
  PROVE  LET s == Append(Advance(stack), f) IN
           /\ DOMAIN s = DOMAIN stack \cup {Len(stack) + 1}
           /\ \A k \in DOMAIN stack : s[k] = Advance(stack)[k]
           /\ s[Len(stack) + 1] = f
<1> DEFINE a == Advance(stack)
<1>1. a \in Seq(FrameSet(1 .. New)) /\ Len(a) = Len(stack)
  BY AdvanceFacts, GrowStack
<1>2. Len(stack) \in Nat /\ DOMAIN stack = 1 .. Len(stack)
  BY TreeFacts
<1> HIDE DEF a
<1>3. /\ Len(Append(a, f)) = Len(stack) + 1 /\ Append(a, f) \in Seq(FrameSet(1 .. New))
      /\ \A k \in 1 .. Len(stack) : Append(a, f)[k] = a[k]
      /\ Append(a, f)[Len(stack) + 1] = f
  BY <1>1, <1>2, AppendProperties
<1>4. DOMAIN Append(a, f) = 1 .. Len(stack) + 1
  BY <1>3, LenProperties
<1> QED BY <1>2, <1>3, <1>4 DEF a

LEMMA LayerFeeds ==
  ASSUME IInv, FedOK, ParseLayer
  PROVE  FedOK'
<1> DEFINE x == Node("layer", net.id[Consumer], <<Top.owner>>)
           f == Frame(Consumer, New, New)
<1>1. /\ Calling /\ tree' = Append(tree, x) /\ stack' = Append(Advance(stack), f)
      /\ ID_list' = ID_list \cup {net.id[Consumer]}
      /\ UNCHANGED <<net, phase, it>> /\ isLayerSupported(net, Consumer)
      /\ TypeOK /\ stack # <<>>
  BY DEF ParseLayer, Remember, IInv, StackOK, Calling
<1>2. /\ x \in NodeSet(1 .. New)
      /\ x.kind = "layer" /\ x.id = net.id[Consumer] /\ x.parents = <<Top.owner>>
  BY <1>1, NewFacts, ConsumerFacts DEF Node, NodeSet, Kinds
<1>3. /\ f \in FrameSet(1 .. New)
      /\ f.layer = Consumer /\ f.owner = New /\ f.next = 1
  BY <1>1, NewFacts, ConsumerFacts DEF Frame, FrameSet, First
<1> HIDE DEF x, f
<1>4. Extends /\ DOMAIN tree' = DOMAIN tree \cup {New} /\ tree'[New] = x
  BY <1>1, <1>2, NewFacts, NodeMade
<1>5. /\ DOMAIN stack' = DOMAIN stack \cup {Len(stack) + 1}
      /\ \A k \in DOMAIN stack : stack'[k] = Advance(stack)[k]
      /\ stack'[Len(stack) + 1] = f
  BY <1>1, <1>3, NewFacts, FramesPushed
<1>6. \A k \in DOMAIN stack :
        /\ stack'[k].layer = stack[k].layer /\ stack'[k].owner = stack[k].owner
        /\ stack'[k].next = IF k = Len(stack) THEN stack[k].next + 1 ELSE stack[k].next
  BY <1>1, <1>5, FramesAdvanced
<1> QED BY <1>1, <1>2, <1>3, <1>4, <1>5, <1>6, CallFeeds

LEMMA UnsupportedFeeds ==
  ASSUME IInv, FedOK, ParseUnsupported
  PROVE  FedOK'
<1> DEFINE f == Frame(Consumer, Top.owner, New)
<1>1. /\ Calling /\ stack' = Append(Advance(stack), f)
      /\ UNCHANGED <<net, phase, it, ID_list>> /\ ~ isLayerSupported(net, Consumer)
      /\ TypeOK /\ stack # <<>>
  BY DEF ParseUnsupported, IInv, StackOK, Calling
<1>2. PICK id \in GarbageIDs : tree' = Append(tree, Node("anyName", id, <<>>))
  BY DEF ParseUnsupported
<1> DEFINE x == Node("anyName", id, <<>>)
<1>3. x \in NodeSet(1 .. New) /\ x.kind = "anyName" /\ tree' = Append(tree, x)
  BY <1>2, GarbageAssumption DEF Node, NodeSet, Kinds
<1>4. /\ f \in FrameSet(1 .. New)
      /\ f.layer = Consumer /\ f.owner = Top.owner /\ f.next = 1
  BY <1>1, NewFacts, ConsumerFacts DEF Frame, FrameSet, First
<1> HIDE DEF x, f
<1>5. Extends /\ DOMAIN tree' = DOMAIN tree \cup {New} /\ tree'[New] = x
  BY <1>1, <1>3, NewFacts, NodeMade
<1>6. /\ DOMAIN stack' = DOMAIN stack \cup {Len(stack) + 1}
      /\ \A k \in DOMAIN stack : stack'[k] = Advance(stack)[k]
      /\ stack'[Len(stack) + 1] = f
  BY <1>1, <1>4, NewFacts, FramesPushed
<1>7. \A k \in DOMAIN stack :
        /\ stack'[k].layer = stack[k].layer /\ stack'[k].owner = stack[k].owner
        /\ stack'[k].next = IF k = Len(stack) THEN stack[k].next + 1 ELSE stack[k].next
  BY <1>1, <1>6, FramesAdvanced
<1> QED BY <1>1, <1>3, <1>4, <1>5, <1>6, <1>7, CallFeeds

LEMMA DuplicateFeeds ==
  ASSUME IInv, FedOK, ParseDuplicate
  PROVE  FedOK'
<1> DEFINE D == 1 .. New
           t == PushChild(tree, Top.owner, New)
<1>1. /\ Calling /\ tree' = Append(t, Dummy) /\ stack' = Advance(stack)
      /\ UNCHANGED <<net, phase, it, ID_list>> /\ isLayerSupported(net, Consumer)
      /\ net.id[Consumer] \in ID_list /\ TypeOK /\ stack # <<>>
  BY DEF ParseDuplicate, IInv, StackOK, Calling
<1>2. /\ New \in D /\ Top.owner \in DOMAIN tree /\ Top.owner \in D
      /\ tree \in Seq(NodeSet(D))
  BY <1>1, NewFacts
<1>3. /\ Dummy \in NodeSet(D) /\ Dummy.kind = "dummy"
      /\ Dummy.id = net.id[Consumer] /\ Dummy.parents = <<Top.owner>>
  BY <1>1, <1>2, ConsumerFacts DEF Dummy, Node, NodeSet, Kinds
<1> HIDE DEF D
<1>4. /\ t \in Seq(NodeSet(D)) /\ Len(t) = Len(tree)
      /\ \A j \in DOMAIN tree : /\ t[j].kind = tree[j].kind /\ t[j].id = tree[j].id
                                 /\ t[j].parents = tree[j].parents
  BY <1>2, PushNode
<1> HIDE DEF t
<1>5. Extends /\ DOMAIN tree' = DOMAIN tree \cup {New} /\ tree'[New] = Dummy
  BY <1>1, <1>3, <1>4, NodeMade DEF D
<1>6. /\ DOMAIN stack' = DOMAIN stack
      /\ \A k \in DOMAIN stack :
           /\ stack'[k].layer = stack[k].layer /\ stack'[k].owner = stack[k].owner
           /\ stack'[k].next = IF k = Len(stack) THEN stack[k].next + 1 ELSE stack[k].next
  BY <1>1, FramesAdvanced
<1> QED BY <1>1, <1>3, <1>5, <1>6, CallFeeds

(* A step that makes no node and forgets no parent, and no call that has   *)
(* not looked at all its consumers.                                        *)
LEMMA SameFeeds ==
  ASSUME IInv, FedOK, net' = net, ID_list' = ID_list, DOMAIN tree' = DOMAIN tree,
         \A i \in DOMAIN tree :
           /\ tree'[i].kind = tree[i].kind /\ tree'[i].id = tree[i].id
           /\ \A j : Has(tree, i, j) => Has(tree', i, j)
           /\ tree[i].kind = "dummy" => tree'[i].parents = tree[i].parents
           /\ \A j : Has(tree', i, j) /\ ~ Has(tree, i, j) =>
                j \in DOMAIN tree /\ \A l, m \in LayersOf(net) :
                  net.id[l] = tree[i].id /\ net.id[m] = tree[j].id => l \in Fed(net, m),
         \A f \in DOMAIN stack' : f \in DOMAIN stack /\ stack'[f] = stack[f],
         \A f \in DOMAIN stack \ DOMAIN stack' :
           ~ (stack[f].next <= Len(net.succ[stack[f].layer]))
  PROVE  FedOK'
<1>1. /\ TypeOK /\ IsNetwork(net) /\ LayerNodes' = LayerNodes /\ LayerNodes \subseteq DOMAIN tree
      /\ \A i \in DOMAIN tree : tree[i] \in NodeSet(DOMAIN tree)
      /\ \A f \in DOMAIN stack : stack[f] \in FrameSet(DOMAIN tree)
  BY TreeFacts DEF IInv, TypeOK, LayerNodes
<1>2. \A i \in DOMAIN tree : \A j : Has(tree, i, j) => j \in DOMAIN tree
  <2> SUFFICES ASSUME NEW i \in DOMAIN tree, NEW j, Has(tree, i, j) PROVE j \in DOMAIN tree
    OBVIOUS
  <2>1. tree[i].parents \in Seq(DOMAIN tree)
    BY <1>1 DEF NodeSet
  <2> QED BY <2>1 DEF Has
<1>3. ASSUME NEW i \in DOMAIN tree', Stands(i)' PROVE Sound(i)'
  <2>1. Sound(i)
    BY <1>3 DEF FedOK, Stands
  <2>2. \E l \in LayersOf(net) : net.id[l] = tree'[i].id /\ isLayerSupported(net, l)
    BY <2>1 DEF Sound
  <2>3. \A j : Has(tree', i, j) => \A l, m \in LayersOf(net) :
          net.id[l] = tree'[i].id /\ net.id[m] = tree'[j].id => l \in Fed(net, m)
    <3> SUFFICES ASSUME NEW j, Has(tree', i, j), NEW l \in LayersOf(net), NEW m \in LayersOf(net),
                        net.id[l] = tree'[i].id, net.id[m] = tree'[j].id
                 PROVE  l \in Fed(net, m)
      OBVIOUS
    <3>1. CASE Has(tree, i, j)
      BY <1>2, <2>1, <3>1 DEF Sound
    <3>2. CASE ~ Has(tree, i, j)
      BY <3>2
    <3> QED BY <3>1, <3>2
  <2>4. ASSUME tree'[i].kind = "dummy"
        PROVE  /\ \E j \in LayerNodes' : tree'[j].id = tree'[i].id
               /\ \A j : Has(tree', i, j) <=> j = tree'[i].parents[1]
    <3>1. tree[i].kind = "dummy" /\ tree'[i].parents = tree[i].parents
      BY <2>4
    <3>2. \A j : Has(tree', i, j) <=> Has(tree, i, j)
      BY <3>1 DEF Has
    <3> QED BY <1>1, <2>1, <3>1, <3>2 DEF Sound
  <2> QED BY <2>2, <2>3, <2>4 DEF Sound
<1>4. ASSUME NEW f \in DOMAIN stack' PROVE LooksBelow(f)'
  <2>1. LooksBelow(f) /\ stack'[f] = stack[f] /\ stack[f].owner \in DOMAIN tree
    BY <1>1, <1>4 DEF FedOK, FrameSet
  <2> QED BY <2>1 DEF LooksBelow
<1>5. \A j, c : Recorded(j, c) => Recorded(j, c)'
  BY DEF Recorded, Stands
<1>6. ASSUME NEW j, NEW c \in LayersOf(net), NEW k \in DOMAIN net.succ[c], Pending(j, c, k)
      PROVE  Pending(j, c, k)'
  <2>1. PICK f \in DOMAIN stack :
          stack[f].owner = j /\ stack[f].layer = c /\ stack[f].next <= k
    BY <1>6 DEF Pending
  <2>2. k \in Nat /\ Len(net.succ[c]) \in Nat /\ k <= Len(net.succ[c])
    <3>1. net.succ[c] \in Seq(LayersOf(net))
      BY <1>1, LayerFacts
    <3> QED BY <3>1, LenProperties
  <2>3. stack[f].next \in Nat
    BY <1>1 DEF FrameSet
  <2>4. f \in DOMAIN stack'
    BY <2>1, <2>2, <2>3
  <2> QED BY <2>1, <2>4 DEF Pending
<1>7. ASSUME NEW j \in LayerNodes'
      PROVE  \E S \in SUBSET LayersOf(net) : Covers(j, S)'
  <2>1. PICK S \in SUBSET LayersOf(net) : Covers(j, S)
    BY <1>1, <1>7 DEF FedOK
  <2>2. \A c \in S : isLayerSupported(net, c) => Recorded(j, c)'
    BY <1>5, <2>1 DEF Covers
  <2>3. tree'[j].id = tree[j].id
    BY <1>1, <1>7
  <2>4. \A c \in LayersOf(net) :
          net.id[c] = tree'[j].id \/ (c \in S /\ ~ isLayerSupported(net, c)) =>
            \A k \in DOMAIN net.succ[c] : net.succ[c][k] \in S \/ Pending(j, c, k)'
    BY <1>6, <2>1, <2>3 DEF Covers
  <2> QED BY <2>2, <2>4 DEF Covers
<1>8. \A n \in ID_list' : \E i \in LayerNodes' : tree'[i].id = n
  BY <1>1 DEF FedOK
<1> QED BY <1>3, <1>4, <1>7, <1>8 DEF FedOK

LEMMA ReturnFeeds ==
  ASSUME IInv, FedOK, ParseReturn
  PROVE  FedOK'
<1> DEFINE D == DOMAIN tree
           c == Top.result
           i == Caller.owner
           u == PushChild(tree, i, c)
<1>1. /\ tree' = u /\ stack' = Front(stack) /\ Len(stack) > 1
      /\ UNCHANGED <<net, ID_list>> /\ phase = "parse"
      /\ ~ (Top.next <= Len(net.succ[Top.layer])) /\ TypeOK
  <2>1. Top.next \in Nat /\ Len(net.succ[Top.layer]) \in Nat
    <3>1. Top \in FrameSet(D) /\ IsNetwork(net)
      BY TopFacts DEF ParseReturn, Returning, IInv, TypeOK
    <3>2. net.succ[Top.layer] \in Seq(LayersOf(net))
      BY <3>1, LayerFacts DEF FrameSet
    <3> QED BY <3>1, <3>2, LenProperties DEF FrameSet
  <2> QED BY <2>1 DEF ParseReturn, Returning, IInv
<1>2. /\ tree \in Seq(NodeSet(D)) /\ Len(stack) \in Nat /\ DOMAIN stack = 1 .. Len(stack)
      /\ \A k \in DOMAIN stack : stack[k] \in FrameSet(D)
  BY <1>1, TreeFacts
<1>3. i \in D /\ c \in D
  <2>1. Len(stack) \in DOMAIN stack /\ Len(stack) - 1 \in DOMAIN stack
    BY <1>1, <1>2
  <2> QED BY <1>2, <2>1 DEF Top, Caller, FrameSet
<1>4. /\ u \in Seq(NodeSet(D)) /\ Len(u) = Len(tree)
      /\ \A j \in D : /\ u[j].kind = tree[j].kind /\ u[j].id = tree[j].id
                      /\ u[j].parents = tree[j].parents
  BY <1>2, <1>3, PushNode
<1> HIDE DEF c, i, u
<1>5. DOMAIN tree' = D
  BY <1>1, <1>2, <1>4, LenProperties
<1>6. \A j \in D : \A p : Has(tree', j, p) <=> Has(tree, j, p)
  BY <1>1, <1>4 DEF Has
<1>7. DOMAIN stack' = 1 .. Len(stack) - 1 /\ \A f \in DOMAIN stack' : stack'[f] = stack[f]
  <2>1. stack' = SubSeq(stack, 1, Len(stack) - 1)
    BY <1>1 DEF Front
  <2>2. stack \in Seq(FrameSet(D)) /\ \A k \in 1 .. Len(stack) - 1 : stack[k] \in FrameSet(D)
    BY <1>1, <1>2, TreeFacts
  <2>3. /\ stack' \in Seq(FrameSet(D)) /\ Len(stack') = Len(stack) - 1
        /\ \A k \in 1 .. Len(stack) - 1 : stack'[k] = stack[k]
    BY <1>1, <1>2, <2>1, <2>2, SubSeqProperties
  <2> QED BY <2>3, LenProperties
<1>8. \A f \in DOMAIN stack' : f \in DOMAIN stack /\ stack'[f] = stack[f]
  BY <1>2, <1>7
<1>9. \A f \in DOMAIN stack \ DOMAIN stack' :
        ~ (stack[f].next <= Len(net.succ[stack[f].layer]))
  <2>1. \A f \in DOMAIN stack \ DOMAIN stack' : f = Len(stack)
    BY <1>2, <1>7
  <2> QED BY <1>1, <2>1 DEF Top
<1> QED BY <1>1, <1>4, <1>5, <1>6, <1>8, <1>9, SameFeeds

LEMMA ParsedFeeds ==
  ASSUME IInv, FedOK, TreeParsed
  PROVE  FedOK'
<1>1. /\ UNCHANGED <<net, ID_list, tree>> /\ stack' = <<>> /\ Len(stack) = 1
      /\ phase = "parse" /\ Top.next > Len(net.succ[Top.layer])
  BY DEF TreeParsed, Returning, RootLoopOver
<1>2. DOMAIN stack = {1} /\ Top = stack[1]
  <2>1. DOMAIN stack = 1 .. Len(stack)
    BY TreeFacts DEF IInv
  <2> QED BY <1>1, <2>1 DEF Top
<1>3. ~ (Top.next <= Len(net.succ[Top.layer]))
  <2>1. Top \in FrameSet(DOMAIN tree) /\ IsNetwork(net)
    BY <1>1, TopFacts DEF IInv, TypeOK
  <2>2. net.succ[Top.layer] \in Seq(LayersOf(net))
    BY <2>1, LayerFacts DEF FrameSet
  <2>3. Top.next \in Nat /\ Len(net.succ[Top.layer]) \in Nat
    BY <2>1, <2>2, LenProperties DEF FrameSet
  <2> QED BY <1>1, <2>3
<1>4. DOMAIN stack' = {}
  BY <1>1
<1> QED BY <1>1, <1>2, <1>3, <1>4, SameFeeds

LEMMA RootFeeds ==
  ASSUME IInv, FedOK, FoundRoot
  PROVE  FedOK'
<1> DEFINE root == net.order[it]
           x == Node("layer", net.id[root], <<>>)
           f == Frame(root, 1, 1)
<1>1. /\ phase = "root" /\ net' = net /\ tree' = <<x>> /\ stack' = <<f>> /\ it <= Len(net.order)
      /\ ID_list' = ID_list /\ isLayerSupported(net, root)
      /\ TypeOK /\ IsNetwork(net)
  BY DEF FoundRoot, IsRoot, IInv, TypeOK
<1>2. root \in LayersOf(net)
  <2>1. net.order \in Seq(LayersOf(net)) /\ it \in Nat \ {0}
    BY <1>1 DEF TypeOK, IsNetwork
  <2>2. it \in 1 .. Len(net.order)
    BY <1>1, <2>1, LenProperties
  <2> QED BY <2>1, <2>2, ElementOfSeq
<1>3. \A m \in LayersOf(net) : net.id[m] = net.id[root] => m = root
  BY <1>1, <1>2 DEF IsNetwork
<1>4. /\ x.kind = "layer" /\ x.id = net.id[root] /\ x.parents = <<>>
      /\ f.layer = root /\ f.owner = 1 /\ f.next = 1
  BY DEF Node, Frame, First
<1>5. ID_list = {}
  <2>1. LayerNodes = {}
    BY <1>1, NothingParsed
  <2> QED BY <2>1 DEF FedOK
<1> HIDE DEF x, f
<1>6. DOMAIN tree' = {1} /\ tree'[1] = x /\ DOMAIN stack' = {1} /\ stack'[1] = f
  BY <1>1
<1>7. LayerNodes' = {1}
  BY <1>4, <1>6 DEF LayerNodes
<1>8. \A j : ~ Has(tree', 1, j)
  BY <1>4, <1>6 DEF Has
<1>9. \A i \in DOMAIN tree' : Stands(i)' => Sound(i)'
  <2>1. Sound(1)'
    BY <1>1, <1>2, <1>4, <1>6, <1>8 DEF Sound
  <2> QED BY <1>6, <2>1
<1>10. \A k \in DOMAIN stack' : LooksBelow(k)'
  BY <1>1, <1>3, <1>4, <1>6 DEF LooksBelow
<1>11. Covers(1, {})'
  <2>1. PICK r : r = root
    OBVIOUS
  <2>2. \A k \in DOMAIN net.succ[r] : Pending(1, r, k)'
    <3>1. net.succ[r] \in Seq(LayersOf(net))
      BY <1>1, <1>2, <2>1, LayerFacts
    <3>2. \A k \in DOMAIN net.succ[r] : k \in Nat \ {0}
      BY <3>1, LenProperties
    <3>3. \A k \in Nat \ {0} : Pending(1, r, k)'
      BY <1>4, <1>6, <2>1 DEF Pending
    <3> QED BY <3>2, <3>3
  <2>3. tree'[1].id = net.id[r] /\ \A m \in LayersOf(net) : net.id[m] = net.id[r] => m = r
    BY <1>3, <1>4, <1>6, <2>1
  <2> QED BY <1>1, <2>2, <2>3 DEF Covers
<1>12. \E S \in SUBSET LayersOf(net') : Covers(1, S)'
  BY <1>11
<1> QED BY <1>1, <1>5, <1>7, <1>9, <1>10, <1>12 DEF FedOK

(* findbyID adds one parent to the layer and leaves the dummies alone.     *)
LEMMA FindHas ==
  ASSUME TypeOK, NEW id, NEW q \in DOMAIN tree, NEW i \in DOMAIN tree
  PROVE  LET F == findbyID(tree, id, q) IN
           /\ F[i].kind = tree[i].kind /\ F[i].id = tree[i].id
           /\ F[i].children = tree[i].children
           /\ tree[i].kind = "dummy" => F[i].parents = tree[i].parents
           /\ \A j : Has(F, i, j) <=> \/ Has(tree, i, j)
                                      \/ tree[i].id = id /\ tree[i].kind # "dummy" /\ j = q
<1> DEFINE F == findbyID(tree, id, q)
           ps == tree[i].parents
<1>1. tree[i] \in NodeSet(DOMAIN tree) /\ ps \in Seq(DOMAIN tree)
  BY TreeFacts DEF NodeSet
<1>2. CASE tree[i].id = id /\ tree[i].kind # "dummy"
  <2> DEFINE aps == Append(ps, q)
  <2>1. F[i] = [tree[i] EXCEPT !.parents = aps]
    BY <1>2 DEF findbyID
  <2>2. /\ Len(ps) \in Nat /\ DOMAIN ps = 1 .. Len(ps)
        /\ DOMAIN aps = 1 .. Len(ps) + 1
        /\ \A k \in 1 .. Len(ps) : aps[k] = ps[k]
        /\ aps[Len(ps) + 1] = q
    BY <1>1, AppendProperties, LenProperties
  <2> HIDE DEF aps, F
  <2>3. /\ F[i].kind = tree[i].kind /\ F[i].id = tree[i].id
        /\ F[i].children = tree[i].children /\ F[i].parents = aps
    BY <1>1, <2>1 DEF NodeSet
  <2>4. \A j : (\E k \in DOMAIN aps : aps[k] = j) <=> (\E k \in DOMAIN ps : ps[k] = j) \/ j = q
    BY <2>2
  <2> QED BY <1>2, <2>3, <2>4 DEF Has, F
<1>3. CASE ~ (tree[i].id = id /\ tree[i].kind # "dummy")
  <2>1. F[i] = tree[i]
    BY <1>3 DEF findbyID
  <2> QED BY <1>3, <2>1 DEF Has
<1> QED BY <1>2, <1>3

LEMMA VisitFeeds ==
  ASSUME IInv, FedOK, VisitNode
  PROVE  FedOK'
<1> DEFINE h == Head(queue)
           q == tree[h].parents[1]
<1>1. /\ net' = net /\ ID_list' = ID_list /\ stack' = stack /\ queue # <<>> /\ TypeOK
      /\ tree' = IF tree[h].kind = "dummy" THEN findbyID(tree, tree[h].id, q) ELSE tree
  BY DEF VisitNode, IInv
<1>2. h \in DOMAIN tree
  BY <1>1, HeadTailProperties DEF TypeOK
<1>3. CASE tree[h].kind # "dummy"
  BY <1>1, <1>3, SameFeeds
<1>4. CASE tree[h].kind = "dummy"
  <2>1. Sound(h) /\ Has(tree, h, q)
    BY <1>2, <1>4 DEF FedOK, Stands, Sound
  <2>2. q \in DOMAIN tree
    <3>1. tree[h].parents \in Seq(DOMAIN tree)
      BY <1>1, <1>2, TreeFacts DEF NodeSet
    <3> QED BY <2>1, <3>1 DEF Has
  <2>3. \A l, m \in LayersOf(net) :
          net.id[l] = tree[h].id /\ net.id[m] = tree[q].id => l \in Fed(net, m)
    BY <2>1 DEF Sound
  <2> HIDE DEF q, h
  <2>4. tree' = findbyID(tree, tree[h].id, q)
    BY <1>1, <1>4
  <2>5. DOMAIN tree' = DOMAIN tree
    BY <2>4 DEF findbyID
  <2>6. \A i \in DOMAIN tree :
          /\ tree'[i].kind = tree[i].kind /\ tree'[i].id = tree[i].id
          /\ tree[i].kind = "dummy" => tree'[i].parents = tree[i].parents
          /\ \A j : Has(tree', i, j) <=> \/ Has(tree, i, j)
                                         \/ /\ tree[i].id = tree[h].id
                                            /\ tree[i].kind # "dummy" /\ j = q
    BY <1>1, <2>2, <2>4, FindHas
  <2>7. \A f \in DOMAIN stack' : f \in DOMAIN stack /\ stack'[f] = stack[f]
    BY <1>1
  <2>8. DOMAIN stack \ DOMAIN stack' = {}
    BY <1>1
  <2>9. \A i \in DOMAIN tree : \A j : Has(tree', i, j) /\ ~ Has(tree, i, j) =>
          j \in DOMAIN tree /\ \A l, m \in LayersOf(net) :
            net.id[l] = tree[i].id /\ net.id[m] = tree[j].id => l \in Fed(net, m)
    BY <2>2, <2>3, <2>6
  <2> QED BY <1>1, <2>5, <2>6, <2>7, <2>8, <2>9, SameFeeds
<1> QED BY <1>3, <1>4

THEOREM FedInductive == Spec => []FedOK
<1>1. Init => FedOK
  BY DEF Init, FedOK, LayerNodes
<1>2. IInv /\ FedOK /\ [Next]_vars => FedOK'
  <2> SUFFICES ASSUME IInv, FedOK, [Next]_vars PROVE FedOK'
    OBVIOUS
  <2>1. CASE SkipLayer \/ NoRoot \/ Finish \/ UNCHANGED vars
    <3>1. UNCHANGED <<net, tree, ID_list, stack>>
      BY <2>1 DEF SkipLayer, NoRoot, Finish, vars
    <3> QED BY <3>1, SameFeeds
  <2> QED BY <2>1, LayerFeeds, UnsupportedFeeds, DuplicateFeeds, ReturnFeeds, RootFeeds,
             ParsedFeeds, VisitFeeds DEF Next
<1> QED BY <1>1, <1>2, ParseInductive, PTL DEF Spec

-----------------------------------------------------------------------------
(* The search for dummies.                                                 *)

Queued(c) == \E k \in DOMAIN queue : queue[k] = c

(* V are the nodes that find_missing_duplicates has taken from its queue.  *)
Searched(V) ==
  /\ 1 \in V \/ Queued(1)
  /\ \A p \in V : \A k, c : At(tree, p, k, c) => c \in V \/ Queued(c)
  /\ \A v \in V : tree[v].kind = "dummy" =>
       \A i \in LayerNodes : tree[i].id = tree[v].id => Has(tree, i, tree[v].parents[1])

SearchOK ==
  /\ phase = "done" => queue = <<>>
  /\ phase \in {"duplicates", "done"} => \E V \in SUBSET DOMAIN tree : Searched(V)

(* The search takes the head of its queue and appends the children ch.     *)
LEMMA QueueGoesOn ==
  ASSUME NEW D, queue \in Seq(D), queue # <<>>, NEW ch \in Seq(D),
         queue' = Tail(queue) \o ch
  PROVE  \A c : (Queued(c) /\ c # Head(queue)) \/ (\E k \in DOMAIN ch : ch[k] = c)
                  => Queued(c)'
<1>0. PICK q, u, t : q = queue /\ u = queue' /\ t = Tail(queue)
  OBVIOUS
<1>1. /\ t \in Seq(D) /\ Len(t) = Len(q) - 1 /\ Len(q) \in Nat /\ DOMAIN q = 1 .. Len(q)
      /\ \A k \in 1 .. Len(t) : t[k] = q[k + 1]
      /\ Len(ch) \in Nat /\ DOMAIN ch = 1 .. Len(ch) /\ Head(q) = q[1]
  BY <1>0, HeadTailProperties, LenProperties
<1>2. /\ u \in Seq(D) /\ Len(u) = Len(t) + Len(ch)
      /\ \A k \in 1 .. Len(t) + Len(ch) : u[k] = IF k <= Len(t) THEN t[k] ELSE ch[k - Len(t)]
  <2>1. /\ t \o ch \in Seq(D) /\ Len(t \o ch) = Len(t) + Len(ch)
        /\ \A k \in 1 .. Len(t) + Len(ch) :
             (t \o ch)[k] = IF k <= Len(t) THEN t[k] ELSE ch[k - Len(t)]
    BY <1>1, ConcatProperties, Zenon
  <2>2. u = t \o ch
    BY <1>0, Zenon
  <2> QED BY <2>1, <2>2, Zenon
<1>3. DOMAIN u = 1 .. Len(t) + Len(ch)
  BY <1>2, LenProperties
<1>4. ASSUME NEW k \in DOMAIN q PROVE q[k] = Head(q) \/ \E j \in DOMAIN u : u[j] = q[k]
  <2>1. CASE k = 1
    BY <1>1, <2>1
  <2>2. CASE k # 1
    <3>1. k - 1 \in 1 .. Len(t) /\ k - 1 \in DOMAIN u
      BY <1>1, <1>3, <2>2
    <3>2. u[k - 1] = t[k - 1] /\ t[k - 1] = q[k]
      BY <1>1, <1>2, <1>3, <3>1
    <3> QED BY <3>1, <3>2
  <2> QED BY <2>1, <2>2
<1>5. ASSUME NEW k \in DOMAIN ch PROVE \E j \in DOMAIN u : u[j] = ch[k]
  <2>1. /\ Len(t) + k \in DOMAIN u /\ Len(t) + k \in 1 .. Len(t) + Len(ch)
        /\ ~ (Len(t) + k <= Len(t)) /\ (Len(t) + k) - Len(t) = k
    BY <1>1, <1>3
  <2>2. u[Len(t) + k] = ch[(Len(t) + k) - Len(t)]
    BY <1>2, <2>1
  <2>3. u[Len(t) + k] = ch[k]
    BY <2>1, <2>2, Zenon
  <2> QED BY <2>1, <2>3, Zenon
<1>6. \A c : Queued(c) <=> \E k \in DOMAIN q : q[k] = c
  BY <1>0 DEF Queued
<1>7. \A c : Queued(c)' <=> \E k \in DOMAIN u : u[k] = c
  BY <1>0 DEF Queued
<1>8. Head(queue) = Head(q)
  BY <1>0
<1> HIDE DEF Queued
<1> QED BY <1>4, <1>5, <1>6, <1>7, <1>8, Zenon

LEMMA VisitSearches ==
  ASSUME IInv, FedOK, SearchOK, VisitNode
  PROVE  SearchOK'
<1> DEFINE D == DOMAIN tree
<1>1. PICK h : h = Head(queue)
  OBVIOUS
<1>2. PICK q : q = tree[h].parents[1]
  OBVIOUS
<1>3. /\ phase = "duplicates" /\ phase' = "duplicates" /\ queue # <<>> /\ TypeOK
      /\ tree' = IF tree[h].kind = "dummy" THEN findbyID(tree, tree[h].id, q) ELSE tree
      /\ queue' = Tail(queue) \o tree[h].children
  BY <1>1, <1>2 DEF VisitNode, NextQueue, IInv
<1>4. h \in D /\ queue \in Seq(D) /\ tree[h].children \in Seq(D)
  <2>1. h \in D /\ queue \in Seq(D)
    BY <1>1, <1>3, HeadTailProperties DEF TypeOK
  <2> QED BY <1>3, <2>1, TreeFacts DEF NodeSet
<1>5. \A c : (Queued(c) /\ c # h)
               \/ (\E k \in DOMAIN tree[h].children : tree[h].children[k] = c)
             => Queued(c)'
  BY <1>1, <1>3, <1>4, QueueGoesOn
<1>6. PICK V \in SUBSET D : Searched(V)
  BY <1>3 DEF SearchOK
<1>7. PICK U : U = V \cup {h}
  OBVIOUS
<1>8. tree[h].kind = "dummy" => q \in D /\ Has(tree, h, q)
  <2> SUFFICES ASSUME tree[h].kind = "dummy" PROVE q \in D /\ Has(tree, h, q)
    OBVIOUS
  <2>1. Has(tree, h, q)
    BY <1>2, <1>4 DEF FedOK, Stands, Sound
  <2>2. tree[h].parents \in Seq(DOMAIN tree)
    BY <1>3, <1>4, TreeFacts DEF NodeSet
  <2> QED BY <2>1, <2>2 DEF Has
<1>9. DOMAIN tree' = D
  BY <1>3 DEF findbyID
<1>10. \A i \in D :
         /\ tree'[i].kind = tree[i].kind /\ tree'[i].id = tree[i].id
         /\ tree'[i].children = tree[i].children
         /\ tree[i].kind = "dummy" => tree'[i].parents = tree[i].parents
         /\ \A j : Has(tree, i, j) => Has(tree', i, j)
         /\ tree[h].kind = "dummy" /\ tree[i].kind # "dummy" /\ tree[i].id = tree[h].id =>
              Has(tree', i, q)
  <2>1. CASE tree[h].kind = "dummy"
    BY <1>3, <1>8, <2>1, FindHas
  <2>2. CASE tree[h].kind # "dummy"
    BY <1>3, <2>2
  <2> QED BY <2>1, <2>2
<1>11. LayerNodes' = LayerNodes /\ \A p, k, c : At(tree', p, k, c) <=> At(tree, p, k, c)
  BY <1>9, <1>10 DEF LayerNodes, At
<1>12. 1 \in U \/ Queued(1)'
  BY <1>5, <1>6, <1>7 DEF Searched
<1>13. ASSUME NEW p \in U, NEW k, NEW c, At(tree, p, k, c) PROVE c \in U \/ Queued(c)'
  <2>1. CASE p = h
    <3>1. k \in DOMAIN tree[h].children /\ c = tree[h].children[k]
      BY <1>13, <2>1 DEF At
    <3> QED BY <1>5, <3>1
  <2>2. CASE p \in V
    BY <1>5, <1>6, <1>7, <1>13, <2>2 DEF Searched
  <2> QED BY <1>7, <2>1, <2>2
<1>14. ASSUME NEW v \in U, tree'[v].kind = "dummy", NEW i \in LayerNodes, tree'[i].id = tree'[v].id
       PROVE  Has(tree', i, tree'[v].parents[1])
  <2>1. v \in D /\ i \in D /\ tree[i].kind = "layer"
    BY <1>4, <1>6, <1>7 DEF LayerNodes
  <2>2. /\ tree[v].kind = "dummy" /\ tree[i].id = tree[v].id
        /\ tree'[v].parents = tree[v].parents
    BY <1>10, <1>14, <2>1
  <2>3. CASE v = h
    <3>1. Has(tree', i, q)
      BY <1>10, <2>1, <2>2, <2>3
    <3> QED BY <1>2, <2>2, <2>3, <3>1
  <2>4. CASE v \in V
    <3>1. Has(tree, i, tree[v].parents[1])
      BY <1>6, <2>2, <2>4 DEF Searched
    <3> QED BY <1>10, <2>1, <2>2, <3>1
  <2> QED BY <1>7, <2>3, <2>4
<1>15. Searched(U)'
  <2>1. \A v \in U : tree'[v].kind = "dummy" =>
          \A i \in LayerNodes : tree'[i].id = tree'[v].id => Has(tree', i, tree'[v].parents[1])
    BY <1>14
  <2> QED BY <1>11, <1>12, <1>13, <2>1 DEF Searched
<1>16. U \in SUBSET DOMAIN tree'
  BY <1>4, <1>7, <1>9
<1> QED BY <1>3, <1>15, <1>16 DEF SearchOK

LEMMA SearchStep ==
  ASSUME IInv, FedOK, SearchOK, [Next]_vars
  PROVE  SearchOK'
<1>1. CASE VisitNode
  BY <1>1, VisitSearches
<1>2. CASE TreeParsed
  <2>1. phase' = "duplicates" /\ queue' = <<1>>
    BY <1>2 DEF TreeParsed
  <2>2. Searched({})'
    BY <2>1 DEF Searched, Queued
  <2> QED BY <2>1, <2>2 DEF SearchOK
<1>3. CASE Finish \/ UNCHANGED vars
  <2>1. /\ tree' = tree /\ queue' = queue
        /\ phase' = "done" => queue = <<>>
        /\ phase' \in {"duplicates", "done"} => phase \in {"duplicates", "done"}
    BY <1>3 DEF Finish, vars, SearchOK
  <2>2. ASSUME NEW V, Searched(V) PROVE Searched(V)'
    BY <2>1, <2>2 DEF Searched, Queued, At, LayerNodes, Has
  <2> QED BY <2>1, <2>2 DEF SearchOK
<1>4. CASE SkipLayer \/ FoundRoot \/ NoRoot \/ ParseDuplicate \/ ParseLayer
           \/ ParseUnsupported \/ ParseReturn
  <2>1. phase' \notin {"duplicates", "done"}
    BY <1>4 DEF SkipLayer, FoundRoot, NoRoot, ParseDuplicate, ParseLayer,
                ParseUnsupported, ParseReturn, Calling, Returning
  <2> QED BY <2>1 DEF SearchOK
<1> QED BY <1>1, <1>2, <1>3, <1>4 DEF Next

THEOREM SearchInductive == Spec => []SearchOK
<1>1. Init => SearchOK
  BY DEF Init, SearchOK
<1>2. IInv /\ FedOK /\ SearchOK /\ [Next]_vars => SearchOK'
  BY SearchStep
<1> QED BY <1>1, <1>2, ParseInductive, FedInductive, PTL DEF Spec

LEMMA SmallestNode ==
  ASSUME NEW S \in SUBSET Nat, S # {}
  PROVE  \E x \in S : \A y \in S : ~ (y < x)
<1> DEFINE R == OpToRel(<, Nat)
<1>1. IsWellFoundedOn(R, Nat)
  BY NatLessThanWellFounded
<1>2. \A a, b \in Nat : a < b => <<a, b>> \in R
  BY DEF OpToRel
<1> HIDE DEF R
<1>3. \E x \in S : \A y \in S : ~ (<<y, x>> \in R)
  BY <1>1, WFMin
<1> QED BY <1>2, <1>3

(* The children pointers are a tree, so the search meets every node.       *)
LEMMA SearchMeetsAll ==
  ASSUME HangInv, SearchOK, phase = "done"
  PROVE  Searched(DOMAIN tree)
<1>1. PICK V \in SUBSET DOMAIN tree : Searched(V)
  BY DEF SearchOK
<1>2. \A c : ~ Queued(c)
  BY DEF SearchOK, Queued
<1>3. Loose = {1} /\ DOMAIN tree \subseteq Nat
  BY LenProperties DEF HangInv, IInv, TypeOK, CallsOK, Loose
<1>4. ASSUME DOMAIN tree \ V # {} PROVE FALSE
  <2>1. PICK x \in DOMAIN tree \ V : \A y \in DOMAIN tree \ V : ~ (y < x)
    <3>1. DOMAIN tree \ V \in SUBSET Nat
      BY <1>3
    <3> QED BY <1>4, <3>1, SmallestNode
  <2>2. x # 1
    BY <1>1, <1>2 DEF Searched
  <2>3. PICK p, k : At(tree, p, k, x) /\ p < x
    BY <1>3, <2>2 DEF HangInv, Hanging
  <2>4. p \in V
    BY <2>1, <2>3 DEF At
  <2> QED BY <1>1, <1>2, <2>3, <2>4 DEF Searched
<1>5. V = DOMAIN tree
  BY <1>4
<1> QED BY <1>1, <1>5

(* The node of a layer has the parents of exactly the layers that feed it. *)
FeedersAreParents ==
  phase = "done" =>
    \A j \in LayerNodes : \A l, m \in LayersOf(net) :
      net.id[m] = tree[j].id /\ isLayerSupported(net, l) =>
        (l \in Fed(net, m) <=>
           \E i \in LayerNodes : tree[i].id = net.id[l] /\ Has(tree, i, j))

(* For every network, the parents with which the parse ends are the        *)
(* layers that feed a layer, straight or through layers that are not       *)
(* supported: the recursion loses none at a layer it meets again, nor at   *)
(* one it looks through, and find_missing_duplicates brings to the node    *)
(* what only the dummies have seen.                                        *)
THEOREM ParentsAreFeeders == Spec => []FeedersAreParents
<1>1. HangInv /\ FedOK /\ SearchOK => FeedersAreParents
  <2> SUFFICES ASSUME HangInv, FedOK, SearchOK, phase = "done", NEW j \in LayerNodes,
                      NEW l \in LayersOf(net), NEW m \in LayersOf(net),
                      net.id[m] = tree[j].id, isLayerSupported(net, l)
               PROVE  l \in Fed(net, m) <=>
                        \E i \in LayerNodes : tree[i].id = net.id[l] /\ Has(tree, i, j)
    BY DEF FeedersAreParents
  <2>1. ASSUME NEW i \in LayerNodes, tree[i].id = net.id[l], Has(tree, i, j)
        PROVE  l \in Fed(net, m)
    <3>1. i \in DOMAIN tree /\ Sound(i)
      BY DEF FedOK, LayerNodes, Stands
    <3> QED BY <2>1, <3>1 DEF Sound
  <2>2. ASSUME l \in Fed(net, m)
        PROVE  \E i \in LayerNodes : tree[i].id = net.id[l] /\ Has(tree, i, j)
    <3>1. PICK S \in SUBSET LayersOf(net) : Covers(j, S)
      BY DEF FedOK
    <3>2. \A c, k : ~ Pending(j, c, k)
      BY DEF HangInv, CallsOK, Pending
    <3>3. Closed(net, m, S)
      BY <3>1, <3>2 DEF Covers, Closed
    <3>4. PICK i \in DOMAIN tree : /\ Stands(i) /\ tree[i].id = net.id[l]
                                   /\ Has(tree, i, j)
      <4>1. l \in S
        BY <2>2, <3>3 DEF Fed
      <4> QED BY <3>1, <4>1 DEF Covers, Recorded
    <3>5. CASE tree[i].kind = "layer"
      BY <3>4, <3>5 DEF LayerNodes
    <3>6. CASE tree[i].kind = "dummy"
      <4>1. Sound(i)
        BY <3>4 DEF FedOK
      <4>2. PICK n \in LayerNodes : tree[n].id = tree[i].id
        BY <3>6, <4>1 DEF Sound
      <4>3. tree[i].parents[1] = j
        BY <3>4, <3>6, <4>1 DEF Sound
      <4>4. Has(tree, n, j)
        BY <3>6, <4>2, <4>3, SearchMeetsAll DEF Searched
      <4> QED BY <3>4, <4>2, <4>4
    <3> QED BY <3>4, <3>5, <3>6 DEF Stands
  <2> QED BY <2>1, <2>2
<1> QED BY <1>1, HangInvariant, FedInductive, SearchInductive, PTL
=============================================================================
