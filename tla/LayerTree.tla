----------------------------- MODULE LayerTree -----------------------------
(***************************************************************************)
(* How every rank turns the network it read into the tree of layers that   *)
(* the launchers walk: fpga_plugin.cpp, parse_root, parse_child and        *)
(* find_missing_duplicates.                                                *)
(*                                                                         *)
(* The network is a DAG.  parse_child explores it depth first.  The first  *)
(* visit of a layer makes its node; a later visit makes a leaf named       *)
(* "dummy"; a layer the plugin does not support is transparent: what its   *)
(* consumers yield is pushed on the children of the supported layer above  *)
(* it, and so is the useless node "anyName" the call itself returns.  A    *)
(* breadth-first pass then gives each layer the parents its dummies saw.   *)
(*                                                                         *)
(* The C++ recursion is a stack of frames here, one step per call and per  *)
(* return.  A node is a position of the sequence tree: its address.        *)
(*                                                                         *)
(* A definition ...Mutant is the next one with a plausible bug in it, that *)
(* some property must catch; no action uses it.                            *)
(***************************************************************************)
EXTENDS Network, SequencesExt

CONSTANTS
  Networks,    \* the networks the plugin may be given
  GarbageIDs   \* what the never assigned layerID of an "anyName" may read

ASSUME NetworksAssumption == \A g \in Networks : IsNetwork(g)

ASSUME GarbageAssumption == GarbageIDs \subseteq Nat

VARIABLES
  net,      \* the network being parsed
  phase,    \* where fpga_launcher is
  it,       \* parse_root's iterator, a position of net.order
  tree,     \* the nodes made so far, in the order of their allocation
  ID_list,  \* the IDs parse_child has made a node for
  stack,    \* the active calls of parse_child; the first is the root's loop
  queue     \* the queue of find_missing_duplicates

vars == <<net, phase, it, tree, ID_list, stack, queue>>

Kinds == {"layer", "dummy", "anyName"}

(* The number of the first consumer.                                       *)
First == 1

Node(kind, id, parents) ==
  [kind |-> kind, id |-> id, children |-> <<>>, parents |-> parents]

(* A call of parse_child whose loop stands before consumer number next of  *)
(* layer: results are pushed on the children of owner, and the call itself *)
(* returns result.                                                         *)
Frame(layer, owner, result) ==
  [layer |-> layer, owner |-> owner, result |-> result, next |-> First]

PushChild(t, i, c) == [t EXCEPT ![i].children = Append(@, c)]
Advance(s)         == [s EXCEPT ![Len(s)].next = @ + 1]

Top      == stack[Len(stack)]
CallerMutant == Top
Caller   == stack[Len(stack) - 1]
Consumer == net.succ[Top.layer][Top.next]
New      == Len(tree) + 1

(* The dummy of a call, which knows the node its caller works for.         *)
DummyMutant == Node("dummy", net.id[Consumer], <<Len(tree)>>)
Dummy == Node("dummy", net.id[Consumer], <<Top.owner>>)

-----------------------------------------------------------------------------
Init ==
  /\ net \in Networks
  /\ phase = "root"
  /\ it = 1
  /\ tree = <<>>
  /\ ID_list = {}
  /\ stack = <<>>
  /\ queue = <<>>

(* parse_root looks at the layer under its iterator.                       *)
SkipLayer ==
  /\ phase = "root"
  /\ it <= Len(net.order)
  /\ ~ IsRoot(net, net.order[it])
  /\ it' = it + 1
  /\ UNCHANGED <<net, phase, tree, ID_list, stack, queue>>

(* The root's ID does not enter ID_list.                                   *)
FoundRoot ==
  /\ phase = "root"
  /\ it <= Len(net.order)
  /\ IsRoot(net, net.order[it])
  /\ phase' = "parse"
  /\ tree' = <<Node("layer", net.id[net.order[it]], <<>>)>>
  /\ stack' = <<Frame(net.order[it], 1, 1)>>
  /\ UNCHANGED <<net, it, ID_list, queue>>

(* "Tree creation failed": exit(-1).                                       *)
NoRoot ==
  /\ phase = "root"
  /\ it > Len(net.order)
  /\ phase' = "failed"
  /\ UNCHANGED <<net, it, tree, ID_list, stack, queue>>

Calling == phase = "parse" /\ Top.next <= Len(net.succ[Top.layer])

(* The consumer has a node already: the call returns a dummy at once.      *)
ParseDuplicate ==
  /\ Calling
  /\ isLayerSupported(net, Consumer)
  /\ net.id[Consumer] \in ID_list
  /\ tree' = Append(PushChild(tree, Top.owner, New), Dummy)
  /\ stack' = Advance(stack)
  /\ UNCHANGED <<net, phase, it, ID_list, queue>>

RememberMutant(id) == ID_list
Remember(id) == ID_list \cup {id}

ParseLayer ==
  /\ Calling
  /\ isLayerSupported(net, Consumer)
  /\ net.id[Consumer] \notin ID_list
  /\ tree' = Append(tree, Node("layer", net.id[Consumer], <<Top.owner>>))
  /\ ID_list' = Remember(net.id[Consumer])
  /\ stack' = Append(Advance(stack), Frame(Consumer, New, New))
  /\ UNCHANGED <<net, phase, it, queue>>

ParseUnsupported ==
  /\ Calling
  /\ ~ isLayerSupported(net, Consumer)
  /\ \E id \in GarbageIDs : tree' = Append(tree, Node("anyName", id, <<>>))
  /\ stack' = Append(Advance(stack), Frame(Consumer, Top.owner, New))
  /\ UNCHANGED <<net, phase, it, ID_list, queue>>

Returning == phase = "parse" /\ Top.next > Len(net.succ[Top.layer])

ParseReturn ==
  /\ Returning
  /\ Len(stack) > 1
  /\ tree' = PushChild(tree, Caller.owner, Top.result)
  /\ stack' = Front(stack)
  /\ UNCHANGED <<net, phase, it, ID_list, queue>>

RootLoopOverMutant == stack = <<>>
RootLoopOver == Len(stack) = 1

(* The root's loop is over; find_missing_duplicates(root) begins.          *)
TreeParsed ==
  /\ Returning
  /\ RootLoopOver
  /\ phase' = "duplicates"
  /\ queue' = <<1>>
  /\ stack' = <<>>
  /\ UNCHANGED <<net, it, tree, ID_list>>

(* findbyID(root, id, parent).  Its own traversal meets every node once    *)
(* (ChildrenFormTree below).                                               *)
findbyIDLastMutant(t, id, parent) ==
  [i \in DOMAIN t |->
     IF t[i].id = id /\ t[i].kind # "dummy"
     THEN [t[i] EXCEPT !.parents = <<parent>>]
     ELSE t[i]]

findbyIDFirstMutant(t, id, parent) ==
  [i \in DOMAIN t |->
     IF t[i].id = id /\ t[i].kind # "dummy"
     THEN [t[i] EXCEPT !.parents = <<parent>> \o @]
     ELSE t[i]]

findbyID(t, id, parent) ==
  [i \in DOMAIN t |->
     IF t[i].id = id /\ t[i].kind # "dummy"
     THEN [t[i] EXCEPT !.parents = Append(@, parent)]
     ELSE t[i]]

NextQueueMutant(p) == p.children \o Tail(queue)
NextQueue(p) == Tail(queue) \o p.children

VisitNode ==
  /\ phase = "duplicates"
  /\ queue # <<>>
  /\ LET p == tree[Head(queue)] IN
       /\ tree' = IF p.kind = "dummy"
                  THEN findbyID(tree, p.id, p.parents[1])
                  ELSE tree
       /\ queue' = NextQueue(p)
  /\ UNCHANGED <<net, phase, it, ID_list, stack>>

Finish ==
  /\ phase = "duplicates"
  /\ queue = <<>>
  /\ phase' = "done"
  /\ UNCHANGED <<net, it, tree, ID_list, stack, queue>>

Next ==
  \/ SkipLayer \/ FoundRoot \/ NoRoot
  \/ ParseDuplicate \/ ParseLayer \/ ParseUnsupported
  \/ ParseReturn \/ TreeParsed
  \/ VisitNode \/ Finish

(* One thread runs all of it, so it goes on as long as it can.             *)
Spec == Init /\ [][Next]_vars /\ WF_vars(Next)

-----------------------------------------------------------------------------
(* Properties.                                                             *)

(* Every variable has its type; node addresses are positions of the tree.  *)
TypeOK ==
  /\ IsNetwork(net)
  /\ phase \in {"root", "parse", "duplicates", "done", "failed"}
  /\ it \in Nat \ {0}
  /\ tree \in Seq([kind : Kinds, id : Nat, children : Seq(DOMAIN tree),
                  parents : Seq(DOMAIN tree)])
  /\ ID_list \subseteq Nat
  /\ stack \in Seq([layer : LayersOf(net), owner : DOMAIN tree,
                    result : DOMAIN tree, next : Nat \ {0}])
  /\ queue \in Seq(DOMAIN tree)

LayerNodes == {i \in DOMAIN tree : tree[i].kind = "layer"}

(* A layer is launched through its node, so it must have exactly one:      *)
(* isDuplicate must catch each later visit, on whatever path it comes, and *)
(* also for the root, which parse_root leaves out of ID_list.              *)
OneNodePerLayer ==
  \A i, j \in LayerNodes : tree[i].id = tree[j].id => i = j

(* The traversals of the plugin (findbyID, find_by_name, the launchers)    *)
(* keep no set of nodes they have seen: they are right because the         *)
(* children pointers form a tree.  Once parsed, every node but the root    *)
(* hangs on exactly one place, in the children of a node made before it,   *)
(* although unsupported layers push on a list that is not their own.       *)
Places(c) == {e \in UNION {{p} \X DOMAIN tree[p].children : p \in DOMAIN tree} :
                tree[e[1]].children[e[2]] = c}

ChildrenFormTree ==
  phase \in {"duplicates", "done"} =>
    \A c \in DOMAIN tree :
      IF c = 1 THEN Places(c) = {}
      ELSE \E e \in Places(c) : Places(c) = {e} /\ e[1] < c

(* No node is its own ancestor by parents: a layer that waited for itself  *)
(* would never be launched.  Parents of a layer lie above it in the        *)
(* network, whatever dummies brought them.                                 *)
ParentsAbove ==
  \A i \in LayerNodes : \A k \in DOMAIN tree[i].parents :
    LET p == tree[i].parents[k] IN
      /\ p \in LayerNodes
      /\ \A l, m \in LayersOf(net) :
           net.id[l] = tree[p].id /\ net.id[m] = tree[i].id
             => net.depth[l] < net.depth[m]

(* The parse ends: although unsupported layers are parsed again on every   *)
(* path, the recursion follows an acyclic graph.                           *)
ParseEnds == <>(phase \in {"done", "failed"})
=============================================================================
