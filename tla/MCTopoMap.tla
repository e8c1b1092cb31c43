----------------------------- MODULE MCTopoMap -----------------------------
(***************************************************************************)
(* The routing file of the repository, and files with the same entries in  *)
(* another order, with a second entry for a module, with a wrong port; and *)
(* all ten bitstreams on their five ranks.                                 *)
(***************************************************************************)
EXTENDS TopoMap, TLC

Entry(m, in, out) == [module |-> m, input |-> in, output |-> out]

(* torus_mod.xml.                                                          *)
TorusFile ==
  <<Entry("3a", 0, 3), Entry("3b", 2, 1), Entry("3c", 0, 2), Entry("4b", 3, 1),
    Entry("4c", 0, 3), Entry("4d", 2, 1), Entry("4e", 0, 3), Entry("4f", 2, 1),
    Entry("5b", 0, 3), Entry("5c", 2, 0)>>

Swapped(i, j) == [TorusFile EXCEPT ![i] = TorusFile[j], ![j] = TorusFile[i]]

CFiles ==
  {Swapped(i, j) : i, j \in DOMAIN TorusFile}
    \cup {Append(TorusFile, Entry(TorusFile[i].module, 1, 0)) : i \in DOMAIN TorusFile}
    \cup {[TorusFile EXCEPT ![i].output = 4] : i \in DOMAIN TorusFile}

Modules == <<"stem", "3b", "3c", "4b", "4c", "4d", "4e", "4f", "5b", "5c">>

(* The bitstreams in order, two to a rank.                                 *)
CPlaces ==
  [m \in {Modules[i] : i \in DOMAIN Modules} |->
     LET i == CHOOSE j \in DOMAIN Modules : Modules[j] = m
     IN  <<(i - 1) \div 2, 1 + ((i - 1) % 2)>>]

CHops == {<<Modules[i], Modules[i + 1]>> : i \in 1 .. Len(Modules) - 1}
=============================================================================
