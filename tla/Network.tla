------------------------------ MODULE Network ------------------------------
(***************************************************************************)
(* The networks the plugin is given: what InferenceEngine::CNNNetwork and  *)
(* Builder::Network tell it.  A network g is a record of                   *)
(*   order   its layers, as CNNNetworkIterator meets them                  *)
(*   type    the type of each layer                                        *)
(*   succ    the consumers of its output, in the order of the map          *)
(*           getInputTo(), which is the order of their names               *)
(*   id      layerIDMap                                                    *)
(*   scaling the layer that normalises the image                           *)
(*   depth   a number that grows along every edge: an IR is acyclic (no    *)
(*           code reads it)                                                *)
(***************************************************************************)
EXTENDS Integers, Sequences, FiniteSets

LayersOf(g) == DOMAIN g.succ

supported_layers == {"Convolution", "Pooling", "FullyConnected", "Concat",
                     "Reshape", "Eltwise", "ScaleShift"}

isLayerSupported(g, l) == g.type[l] \in supported_layers

(* parse_root's test: the first supported layer that is not the            *)
(* normalisation of the image.                                             *)
IsRoot(g, l) == l # g.scaling /\ isLayerSupported(g, l)

IsNetwork(g) ==
  /\ g.order \in Seq(LayersOf(g))
  /\ g.succ \in [LayersOf(g) -> Seq(LayersOf(g))]
  /\ g.id \in [LayersOf(g) -> Nat]
  /\ g.depth \in [LayersOf(g) -> Nat]
  /\ \A l, m \in LayersOf(g) : g.id[l] = g.id[m] => l = m
  /\ \A l \in LayersOf(g) : \A k \in DOMAIN g.succ[l] :
       g.depth[l] < g.depth[g.succ[l][k]]
=============================================================================
