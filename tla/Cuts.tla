-------------------------------- MODULE Cuts --------------------------------
(***************************************************************************)
(* The slices of the networks as the launchers see them: the tree of       *)
(* layers, what each layer reads, and on which rank and in which bitstream *)
(* its kernel is.                                                          *)
(***************************************************************************)
EXTENDS Slices

CONSTANT Example   \* "googlenet", "resnet" or "headless"

P == INSTANCE ParseTree

TheNet == CASE Example = "googlenet" -> GoogLeNet3
            [] Example = "resnet"    -> ResNet
            [] Example = "headless"  -> Headless
TheTree == P!BuildTree(TheNet)
TheLayerNodes == {p \in DOMAIN TheTree : TheTree[p].kind = "layer"}
TheLayers == {TheTree[p].layer : p \in TheLayerNodes}
TheType == [l \in TheLayers |-> TheNet.type[l]]
ThePadded == {l \in TheLayers : l[2] \in {"b1b", "b2b", "conv", "c2"}}

(* Which <<rank, bitstream>> has the kernels of a part of the network.     *)
Cut == "stem" :> <<0, 1>> @@ "3b" :> <<0, 2>> @@ "3c" :> <<1, 2>>
         @@ "4b" :> <<2, 1>> @@ "tail" :> <<2, 1>>
         @@ "u2" :> <<0, 2>> @@ "u3" :> <<1, 1>> @@ "u4" :> <<1, 2>>
         @@ "u5" :> <<2, 1>> @@ "u6" :> <<2, 1>>

TheProgram == [r \in 0 .. 2 |->
  [l \in TheLayers |-> IF Cut[l[1]][1] = r THEN Cut[l[1]][2] ELSE 0]]

TheImage == <<"in", "image">>

(* The inputs of a layer in the IR, through unsupported layers.            *)
InputsOf(l) ==
  CASE l = <<"stem", "conv">> -> <<TheImage>>
    [] l[2] = "concat" -> <<<<l[1], "b0">>, <<l[1], "b1b">>, <<l[1], "b2b">>, <<l[1], "b3c">>>>
    [] OTHER -> LET p == CHOOSE q \in TheLayerNodes : TheTree[q].layer = l
                IN  [k \in DOMAIN TheTree[p].parents |-> TheTree[TheTree[p].parents[k]].layer]
TheInputs == [l \in TheLayers |-> InputsOf(l)]

(* The adds that send their output: block2_unit_4 and block3_unit_6.       *)
TheSendsAdd == {<<"u2", "add">>, <<"u4", "add">>} \cap TheLayers
TheLast == <<"tail", "logits">>
TheDepth == [l \in TheLayers |-> TheNet.depth[l]]
=============================================================================
