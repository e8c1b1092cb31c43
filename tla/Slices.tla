------------------------------- MODULE Slices -------------------------------
(***************************************************************************)
(* Slices of the two networks of the repository for TLC, with the layers,  *)
(* the order of consumers and the cuts between bitstreams of the real ones.*)
(* A layer is a pair: the part of the network it is in, its name there.    *)
(*                                                                         *)
(* GoogLeNet: a stem, inception modules (each four branches joined by a    *)
(* Concat, a ReLU after every convolution), and the classifier.            *)
(* ResNet-50 v2: a stem, bottleneck units (each a normalisation, three     *)
(* convolutions and a shortcut joined by an Eltwise), and the classifier.  *)
(***************************************************************************)
EXTENDS Network, SequencesExt, TLC

(* A chain of layers of part m: each feeds the next, the last feeds out.   *)
Chain(m, names, out) ==
  [l \in {<<m, names[k]>> : k \in DOMAIN names} |->
     LET k == CHOOSE j \in DOMAIN names : l = <<m, names[j]>>
     IN  IF k < Len(names) THEN <<<<m, names[k + 1]>>>> ELSE out]

Entry(m) == <<<<m, "b0">>, <<m, "b1a">>, <<m, "b2a">>, <<m, "b3p">>>>

Inception(m, out) ==
  LET join == <<<<m, "concat">>>> IN
    Chain(m, <<"b0", "r0">>, join)
      @@ Chain(m, <<"b1a", "r1a", "b1b", "r1b">>, join)
      @@ Chain(m, <<"b2a", "r2a", "b2b", "r2b">>, join)
      @@ Chain(m, <<"b3p", "b3c", "r3c">>, join)
      @@ (<<m, "concat">> :> out)

InceptionNames == <<"b0", "r0", "b1a", "r1a", "b1b", "r1b", "b2a", "r2a",
                    "b2b", "r2b", "b3p", "b3c", "r3c", "concat">>

(* The shortcut of a unit is a convolution of the normalised input, a      *)
(* pooling of the input, or the input itself.  Names sort with the         *)
(* normalisation ("Mul1_...") before the rest ("resnet_v2_50/...").        *)
Unit(m, kind, out) ==
  LET join == <<<<m, "add">>>>
      body == Chain(m, <<"c1", "r1", "c2", "r2", "c3">>, join) @@ (<<m, "add">> :> out)
  IN  CASE kind = "conv" ->
             body @@ (<<m, "ss">> :> <<<<m, "r">>>>)
                  @@ (<<m, "r">> :> <<<<m, "c1">>, <<m, "sc">>>>)
                  @@ (<<m, "sc">> :> join)
        [] kind = "pool" ->
             body @@ Chain(m, <<"ss", "r">>, <<<<m, "c1">>>>) @@ (<<m, "sp">> :> join)
        [] kind = "same" ->
             body @@ Chain(m, <<"ss", "r">>, <<<<m, "c1">>>>)

UnitEntry(m, kind) ==
  <<<<m, "ss">>>> \o (CASE kind = "conv" -> <<>>
                        [] kind = "pool" -> <<<<m, "sp">>>>
                        [] kind = "same" -> <<<<m, "add">>>>)

UnitNames(kind) ==
  <<"ss", "r", "c1", "r1", "c2", "r2", "c3">>
    \o (CASE kind = "conv" -> <<"sc">> [] kind = "pool" -> <<"sp">> [] kind = "same" -> <<>>)
    \o <<"add">>

TypeOf(name) ==
  CASE name \in {"concat"} -> "Concat"
    [] name \in {"add"} -> "Eltwise"
    [] name \in {"ss", "scale"} -> "ScaleShift"
    [] name \in {"b3p", "pool", "pool2", "pool3", "sp", "avg"} -> "Pooling"
    [] name \in {"squeeze"} -> "Reshape"
    [] name \in {"input"} -> "Input"
    [] name \in {"r", "r0", "r1", "r2", "r1a", "r1b", "r2a", "r2b", "r3c"} -> "ReLU"
    [] OTHER -> "Convolution"

(* names: the layers in an order every edge follows.                       *)
NetworkOf(names, succ) ==
  LET at == [l \in DOMAIN succ |-> CHOOSE k \in DOMAIN names : names[k] = l]
  IN  [order   |-> names,
       type    |-> [l \in DOMAIN succ |-> TypeOf(l[2])],
       succ    |-> succ,
       id      |-> at,
       scaling |-> <<"in", "scale">>,
       depth   |-> at]

In(m, names) == [k \in DOMAIN names |-> <<m, names[k]>>]

StemNames == In("in", <<"input", "scale">>) \o In("stem", <<"conv", "r", "pool">>)
Stem(out) == Chain("in", <<"input", "scale">>, <<<<"stem", "conv">>>>)
               @@ Chain("stem", <<"conv", "r", "pool">>, out)

(* Three inception modules between stem and classifier.                    *)
GoogleTail == <<"avg", "logits", "squeeze">>

GoogLeNet3 ==
  NetworkOf(StemNames \o In("3b", InceptionNames) \o In("3c", InceptionNames)
        \o In("4b", InceptionNames) \o In("tail", GoogleTail),
      Stem(Entry("3b")) @@ Inception("3b", Entry("3c"))
        @@ Inception("3c", Entry("4b"))
        @@ Inception("4b", <<<<"tail", "avg">>>>)
        @@ Chain("tail", GoogleTail, <<>>))

(* One of them.                                                            *)
GoogLeNet1 ==
  NetworkOf(StemNames \o In("3b", InceptionNames) \o In("tail", GoogleTail),
      Stem(Entry("3b")) @@ Inception("3b", <<<<"tail", "avg">>>>)
        @@ Chain("tail", GoogleTail, <<>>))

(* The last unit of block 2, the first and the last of block 3 and of      *)
(* block 4: the shortcut is a convolution in a first unit, a pooling in    *)
(* the last of blocks 2 and 3, the input itself in all the others.         *)
ResTail == <<"ss", "r", "avg", "logits", "squeeze">>

ResNet ==
  NetworkOf(StemNames \o In("u2", UnitNames("pool"))
        \o In("u3", UnitNames("conv")) \o In("u4", UnitNames("pool"))
        \o In("u5", UnitNames("conv")) \o In("u6", UnitNames("same"))
        \o In("tail", ResTail),
      Stem(UnitEntry("u2", "pool"))
        @@ Unit("u2", "pool", UnitEntry("u3", "conv"))
        @@ Unit("u3", "conv", UnitEntry("u4", "pool"))
        @@ Unit("u4", "pool", UnitEntry("u5", "conv"))
        @@ Unit("u5", "conv", UnitEntry("u6", "same"))
        @@ Unit("u6", "same", <<<<"tail", "ss">>>>)
        @@ Chain("tail", ResTail, <<>>))

(* The last unit of block 2, then an end in the sum of a unit without      *)
(* normalisation, whose shortcut has the first name.                       *)
HeadlessUnit == <<"sc", "c1", "r1", "c2", "add">>

Headless ==
  NetworkOf(StemNames \o In("u2", UnitNames("pool")) \o In("u4", HeadlessUnit),
      LET join == <<<<"u4", "add">>>> IN
        Stem(UnitEntry("u2", "pool"))
          @@ Unit("u2", "pool", In("u4", <<"sc", "c1">>))
          @@ Chain("u4", <<"sc">>, join)
          @@ Chain("u4", <<"c1", "r1", "c2">>, join)
          @@ (<<"u4", "add">> :> <<>>))
=============================================================================
