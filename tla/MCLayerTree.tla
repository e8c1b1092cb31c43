---------------------------- MODULE MCLayerTree ----------------------------
(***************************************************************************)
(* LayerTree on every small DAG: each subset of the edges from lower to    *)
(* higher layers, each choice of supported layers, several orders of the   *)
(* layers' names; and on a slice of GoogLeNet and one of ResNet-50.        *)
(***************************************************************************)
EXTENDS LayerTree, Slices

P == INSTANCE ParseTree

(* Name orders: position n[l] of layer l among the names.                  *)
Small(l) == <<"small", l>>
Sorted(S, n) == LET t == SetToSortSeq(S, LAMBDA a, b : n[a] < n[b])
                IN  [k \in DOMAIN t |-> Small(t[k])]

Dags(N, names) ==
  {[order   |-> [k \in 1 .. N |-> Small(k)],
    type    |-> [l \in {Small(k) : k \in 1 .. N} |->
                   IF l[2] \in s THEN "Convolution" ELSE "ReLU"],
    succ    |-> [l \in {Small(k) : k \in 1 .. N} |->
                   Sorted({e[2] : e \in {x \in es : x[1] = l[2]}}, n)],
    id      |-> [l \in {Small(k) : k \in 1 .. N} |-> l[2]],
    scaling |-> Small(0),
    depth   |-> [l \in {Small(k) : k \in 1 .. N} |-> l[2]]] :
      s \in SUBSET (1 .. N),
      es \in SUBSET {e \in (1 .. N) \X (1 .. N) : e[1] < e[2]},
      n \in names}

Bijections(N) == {n \in [1 .. N -> 1 .. N] :
                    \A a, b \in 1 .. N : n[a] = n[b] => a = b}

NetworksToParse == Dags(4, Bijections(4)) \cup {GoogLeNet1, Headless}

LayerWithID(id) == CHOOSE l \in LayersOf(net) : net.id[l] = id

(* How many paths lead from m to l through unsupported layers only.        *)
RECURSIVE Paths(_, _, _)
Paths(g, m, l) ==
  LET via(k) == LET c == g.succ[m][k] IN
                  (IF c = l THEN 1 ELSE 0)
                    + (IF isLayerSupported(g, c) THEN 0 ELSE Paths(g, c, l))
  IN  FoldFunction(+, 0, [k \in DOMAIN g.succ[m] |-> via(k)])

(* The parents of a layer decide when it may be launched and what it reads.*)
(* Once the parse is done they are exactly the supported layers that feed  *)
(* it, through any chain of unsupported ones, each once per path, although *)
(* all but one of them arrived through dummies; and no supported layer     *)
(* below a parsed one is lost.                                             *)
ParentsComplete ==
  phase = "done" =>
    \A j \in LayerNodes :
      /\ \A i \in LayerNodes :
           Cardinality({k \in DOMAIN tree[i].parents : tree[i].parents[k] = j})
             = Paths(net, LayerWithID(tree[j].id), LayerWithID(tree[i].id))
      /\ \A l \in LayersOf(net) :
           isLayerSupported(net, l) /\ Paths(net, LayerWithID(tree[j].id), l) > 0
             => \E i \in LayerNodes : tree[i].id = net.id[l]

(* The loops of LayerTree compute the recursion of the source, up to the   *)
(* garbage the "anyName" nodes hold.                                       *)
SameAsRecursion ==
  phase = "done" =>
    LET t == P!BuildTree(net) IN
      /\ DOMAIN t = DOMAIN tree
      /\ \A i \in DOMAIN t :
           /\ t[i].kind = tree[i].kind
           /\ t[i].children = tree[i].children
           /\ t[i].kind # "anyName" =>
                /\ net.id[t[i].layer] = tree[i].id
                /\ t[i].parents = tree[i].parents

(* The branches a Concat joins, in the order of its inputs in the IR.      *)
ConcatInputs(m) == <<<<m, "b0">>, <<m, "b1b">>, <<m, "b2b">>, <<m, "b3c">>>>

(* launcher_global binds parents.at(0..3) to the arguments of a Concat     *)
(* kernel, which copies them in the order of the IR's inputs.  The order   *)
(* of parents comes from elsewhere: the first is the branch the recursion  *)
(* took, the others are in the level order of their dummies.  They agree   *)
(* because the names of branches sort like the inputs and the last three   *)
(* branches have the same number of supported layers.                      *)
ConcatInputsInOrder ==
  phase = "done" =>
    \A i \in LayerNodes :
      net.type[LayerWithID(tree[i].id)] = "Concat" =>
        [k \in DOMAIN tree[i].parents |-> LayerWithID(tree[tree[i].parents[k]].id)]
          = ConcatInputs(LayerWithID(tree[i].id)[1])
=============================================================================
