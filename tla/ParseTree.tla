----------------------------- MODULE ParseTree -----------------------------
(***************************************************************************)
(* The tree of layers as a function of the network: parse_root, parse_child*)
(* and find_missing_duplicates as the recursions they are in the source.   *)
(* LayerTree runs the same code step by step; its runs show that both give *)
(* the same tree, and the launchers take theirs from here.                 *)
(***************************************************************************)
EXTENDS Network, SequencesExt

Node(kind, layer, parents) ==
  [kind |-> kind, layer |-> layer, children |-> <<>>, parents |-> parents]

(* parse_root                                                              *)
RootLayer(g) ==
  SelectSeq(g.order, LAMBDA l : IsRoot(g, l))[1]

PushChild(t, i, c) == [t EXCEPT ![i].children = Append(@, c)]

(* parse_child(layer, parent) in state s = [tree, seen]; answers the state *)
(* after it and the node it returns.                                       *)
RECURSIVE parse_child(_, _, _, _), ParseAll(_, _, _, _, _)
parse_child(g, s, layer, parent) ==
  LET new == Len(s.tree) + 1
      made(kind, up) == Append(s.tree, Node(kind, layer, up))
  IN  IF ~ isLayerSupported(g, layer)
      THEN [state |-> ParseAll(g, [s EXCEPT !.tree = made("anyName", <<>>)],
                               layer, parent, 1),
            node |-> new]
      ELSE IF layer \in s.seen
      THEN [state |-> [s EXCEPT !.tree = made("dummy", <<parent>>)],
            node |-> new]
      ELSE [state |-> ParseAll(g, [tree |-> made("layer", <<parent>>),
                                   seen |-> s.seen \cup {layer}],
                               layer, new, 1),
            node |-> new]

(* The loop over the consumers of layer, from number k on.                 *)
ParseAll(g, s, layer, owner, k) ==
  IF k > Len(g.succ[layer]) THEN s
  ELSE LET r == parse_child(g, s, g.succ[layer][k], owner)
       IN  ParseAll(g, [r.state EXCEPT !.tree = PushChild(@, owner, r.node)],
                    layer, owner, k + 1)

(* findbyID(root, l, parent): a layer has one node.                        *)
findbyID(t, l, parent) ==
  LET i == CHOOSE j \in DOMAIN t : t[j].kind = "layer" /\ t[j].layer = l
  IN  [t EXCEPT ![i].parents = Append(@, parent)]

(* find_missing_duplicates: it walks the tree in level order, from the     *)
(* nodes of q on; the parents that the dummies of a layer saw come after   *)
(* the one that made its node.                                             *)
RECURSIVE find_missing_duplicates(_, _)
find_missing_duplicates(t, q) ==
  IF q = <<>> THEN t
  ELSE LET x == t[Head(q)]
       IN  find_missing_duplicates(
             IF x.kind = "dummy" THEN findbyID(t, x.layer, x.parents[1]) ELSE t,
             Tail(q) \o x.children)

BuildTree(g) ==
  LET root == RootLayer(g)
      s    == [tree |-> <<Node("layer", root, <<>>)>>, seen |-> {}]
  IN  find_missing_duplicates(ParseAll(g, s, root, 1, 1).tree, <<1>>)
=============================================================================
