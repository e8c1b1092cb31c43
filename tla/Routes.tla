------------------------------- MODULE Routes -------------------------------
(***************************************************************************)
(* How tensors find their way from FPGA to FPGA in the channel design: the *)
(* routing file, the map build_topo_map makes of it, the devices the       *)
(* bitstreams are flashed on, and the cables.                              *)
(*                                                                         *)
(* A file is a sequence of entries [module, input, output].  A definition  *)
(* ...Mutant is the next one with a plausible bug in it.                   *)
(***************************************************************************)
EXTENDS Integers, Sequences, FiniteSets

(* build_topo_map ends the process on a port above 3 ...                   *)
ValidPorts(e) == e.input < 4 /\ e.output < 4

(* ... and its insert() keeps what the map has for a name.                 *)
InsertMutant(routes, name, port) ==
  [x \in DOMAIN routes \cup {name} |-> IF x = name THEN port ELSE routes[x]]

Insert(routes, name, port) ==
  [x \in DOMAIN routes \cup {name} |-> IF x \in DOMAIN routes THEN routes[x] ELSE port]

AddEntry(routes, e) ==
  Insert(Insert(routes, <<e.module, "input">>, e.input),
         <<e.module, "output">>, e.output)

NoRoutes == [x \in {} |-> 0]

(* route_map[name]: a name that is not in the map gets port 0.             *)
Lookup(routes, name) == IF name \in DOMAIN routes THEN routes[name] ELSE 0

(* The names the launcher looks up for the feeder of a module and for the  *)
(* last kernel of it: the feeder of 5b asks for "5a".                      *)
InputName(m)  == <<IF m = "5b" THEN "5a" ELSE m, "input">>
OutputName(m) == <<IF m = "stem" THEN "3a" ELSE m, "output">>

(* The device that gets the first or second bitstream of a rank: they are  *)
(* swapped on odd ranks.                                                   *)
Device(rank, file) == IF rank % 2 = 0 THEN file ELSE 3 - file

(* The cables: ports 0 and 1 join a device to the same device of the rank  *)
(* before and of the next one, ports 2 and 3 join the two devices of a     *)
(* rank.  Where what leaves a device at a port arrives.                    *)
Arrival(rank, device, port) ==
  CASE port = 0 -> [rank |-> rank - 1, device |-> device, port |-> 1]
    [] port = 1 -> [rank |-> rank + 1, device |-> device, port |-> 0]
    [] port = 2 -> [rank |-> rank, device |-> 3 - device, port |-> 3]
    [] port = 3 -> [rank |-> rank, device |-> 3 - device, port |-> 2]

(* The last kernel of module m sends to where the feeder of module k       *)
(* listens.  where[m] is the <<place of its rank, file>> of the bitstream. *)
Connected(routes, where, m, k) ==
  Arrival(where[m][1], Device(where[m][1], where[m][2]), Lookup(routes, OutputName(m)))
    = [rank   |-> where[k][1],
       device |-> Device(where[k][1], where[k][2]),
       port   |-> Lookup(routes, InputName(k))]
=============================================================================
