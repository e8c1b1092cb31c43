------------------------------ MODULE TopoMap ------------------------------
(***************************************************************************)
(* build_topo_map: the routing file is read entry by entry into the map    *)
(* that the launcher looks its ports up in.                                *)
(***************************************************************************)
EXTENDS Routes

CONSTANTS
  Files,   \* the routing files
  Places,  \* the <<rank, file>> of the bitstream of each module
  Hops     \* <<m, k>>: the output of module m is the input of module k

VARIABLES
  file,    \* the file being read
  read,    \* how many of its entries have been
  routes,  \* route_map
  status   \* "reading", "done" or "exit": exit(-1)

vars == <<file, read, routes, status>>

Init ==
  /\ file \in Files
  /\ read = 0
  /\ routes = NoRoutes
  /\ status = "reading"

ReadEntry ==
  /\ status = "reading" /\ read < Len(file)
  /\ ValidPorts(file[read + 1])
  /\ routes' = AddEntry(routes, file[read + 1])
  /\ read' = read + 1
  /\ UNCHANGED <<file, status>>

InvalidEntry ==
  /\ status = "reading" /\ read < Len(file)
  /\ ~ ValidPorts(file[read + 1])
  /\ status' = "exit"
  /\ UNCHANGED <<file, read, routes>>

EndOfFile ==
  /\ status = "reading" /\ read = Len(file)
  /\ status' = "done"
  /\ UNCHANGED <<file, read, routes>>

Next == ReadEntry \/ InvalidEntry \/ EndOfFile

Spec == Init /\ [][Next]_vars

-----------------------------------------------------------------------------
(* A file with an invalid port ends the host before it makes anything of   *)
(* the map; from any other, every module sends to where the next listens:  *)
(* the file, the devices of the bitstreams, the cables and the port of     *)
(* names that are not in the map agree, whatever the order of the entries, *)
(* and also if later entries for a module say something else.              *)
HopsConnected ==
  status = "done" => \A hop \in Hops : Connected(routes, Places, hop[1], hop[2])
=============================================================================
