---------------------------- MODULE ChannelWalk ----------------------------
(***************************************************************************)
(* The loop of launcher_channel over the tree of layers, as a function: in *)
(* which order a host launches the layers of its two bitstreams.  The host *)
(* alone moves through its tree, and what it visits depends on nothing     *)
(* else, so the whole walk can be had beforehand.  It is the loop of       *)
(* module GlobalDesign, which takes it step by step, but for the Concat:   *)
(* here it too counts a parent on another host as visited.                 *)
(***************************************************************************)
EXTENDS Integers, Sequences, SequencesExt

(* A walk is a record: q and n are the source's; the nodes visited, and    *)
(* the layers launched, in order.  tree is that of ParseTree, program      *)
(* get_program_num on this host.                                           *)
Program(tree, program, p) == IF tree[p].kind = "layer" THEN program[tree[p].layer] ELSE 0

Ready(tree, program, w, p) ==
  \A k \in DOMAIN tree[p].parents :
    \/ tree[p].parents[k] \in w.visited
    \/ Program(tree, program, tree[p].parents[k]) = 0

(* Conv2d_0c_1x1_Conv2D ends the launcher.                                 *)
Over(w, last) == w.q = <<>> \/ last \in ToSet(w.order)

(* One pass of the inner loop, from the first node that is not a dummy.    *)
Pass(tree, program, w) ==
  LET first == CHOOSE k \in DOMAIN w.q :
                 /\ tree[w.q[k]].kind # "dummy"
                 /\ \A j \in 1 .. k - 1 : tree[w.q[j]].kind = "dummy"
      p    == w.q[first]
      rest == SubSeq(w.q, first + 1, Len(w.q))
      left == w.n - (first - 1)
      on   == [w EXCEPT !.q = rest \o tree[p].children, !.n = left - 1]
  IN  IF Program(tree, program, p) = 0 \/ p \in w.visited THEN on
      ELSE IF Ready(tree, program, w, p)
      THEN [on EXCEPT !.visited = @ \cup {p}, !.order = Append(@, tree[p].layer)]
      ELSE [w EXCEPT !.q = Append(rest, p), !.n = left]

RECURSIVE Walk(_, _, _, _)
Walk(tree, program, last, w) ==
  IF Over(w, last) THEN w.order
  ELSE Walk(tree, program, last,
            IF w.n <= 0 THEN [w EXCEPT !.n = Len(w.q)] ELSE Pass(tree, program, w))

(* The layers a host launches, from the root in the queue.                 *)
LaunchOrder(tree, program, last) ==
  Walk(tree, program, last, [q |-> <<1>>, n |-> 1, visited |-> {}, order |-> <<>>])
=============================================================================
