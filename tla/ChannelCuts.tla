---------------------------- MODULE ChannelCuts ----------------------------
(***************************************************************************)
(* A slice of GoogLeNet as the channel launcher sees it, over three hosts: *)
(* the stem and 3b, 3c and 4b, 5b and 5c with the classifier.  4b and 5b   *)
(* begin with the pooling before them.  Modules 4c to 4f, which are like   *)
(* 3c, are left out.                                                       *)
(***************************************************************************)
EXTENDS Slices

CONSTANT Hosts   \* 3, or 2: without the host of 3c and 4b

K == INSTANCE ChannelKernels
P == INSTANCE ParseTree
W == INSTANCE ChannelWalk
R == INSTANCE Routes

StemLayers == <<"conv1", "r", "pool2", "conv2b", "r1", "conv2c", "r2", "pool3">>
Pool(m)    == <<<<m, "pool">>>>
Pooled(m, out) == Chain(m, <<"pool">>, Entry(m)) @@ Inception(m, out)
PooledNames    == <<"pool">> \o InceptionNames
TailNames      == <<"avg", "conv", "squeeze">>
ImageNames     == In("in", <<"input", "scale">>)
Images == Chain("in", <<"input", "scale">>, <<<<"stem", "conv1">>>>)

TheNet ==
  IF Hosts = 3
  THEN NetworkOf(ImageNames \o In("stem", StemLayers) \o In("3b", InceptionNames)
             \o In("3c", InceptionNames) \o In("4b", PooledNames)
             \o In("5b", PooledNames) \o In("5c", InceptionNames)
             \o In("tail", TailNames),
           Images @@ Chain("stem", StemLayers, Entry("3b"))
             @@ Inception("3b", Entry("3c")) @@ Inception("3c", Pool("4b"))
             @@ Pooled("4b", Pool("5b")) @@ Pooled("5b", Entry("5c"))
             @@ Inception("5c", <<<<"tail", "avg">>>>)
             @@ Chain("tail", TailNames, <<>>))
  ELSE NetworkOf(ImageNames \o In("stem", StemLayers) \o In("3b", InceptionNames)
             \o In("5b", PooledNames) \o In("5c", InceptionNames)
             \o In("tail", TailNames),
           Images @@ Chain("stem", StemLayers, Entry("3b"))
             @@ Inception("3b", Pool("5b")) @@ Pooled("5b", Entry("5c"))
             @@ Inception("5c", <<<<"tail", "avg">>>>)
             @@ Chain("tail", TailNames, <<>>))

ThePlaces ==
  "stem" :> <<0, 1>> @@ "3b" :> <<0, 2>>
    @@ (IF Hosts = 3
        THEN "3c" :> <<1, 1>> @@ "4b" :> <<1, 2>> @@ "5b" :> <<2, 1>>
               @@ "5c" :> <<2, 2>> @@ "tail" :> <<2, 2>>
        ELSE "5b" :> <<1, 1>> @@ "5c" :> <<1, 2>> @@ "tail" :> <<1, 2>>)

TheTree == P!BuildTree(TheNet)
TheLayers == {TheTree[p].layer : p \in {q \in DOMAIN TheTree : TheTree[q].kind = "layer"}}
                \ {<<"tail", "squeeze">>}
NodeOf(l) == TheTree[CHOOSE q \in DOMAIN TheTree :
                       TheTree[q].kind = "layer" /\ TheTree[q].layer = l]
TheParents(l) == [k \in DOMAIN NodeOf(l).parents |-> TheTree[NodeOf(l).parents[k]].layer]

(* get_program_num on each host; no bitstream has a kernel for a Reshape.  *)
Program(h) ==
  [l \in TheLayers \cup {<<"tail", "squeeze">>} |->
     IF l \in TheLayers /\ ThePlaces[l[1]][1] = h
     THEN R!Device(h, ThePlaces[l[1]][2]) ELSE 0]

TheLast  == <<"tail", "conv">>
TheOrder == [h \in 0 .. Hosts - 1 |-> W!LaunchOrder(TheTree, Program(h), TheLast)]

FeederOf(m) == <<m, "feeder">>
TheFeeders ==
  [h \in 0 .. Hosts - 1 |->
     CASE h = 0         -> <<FeederOf("3b")>>
       [] h = Hosts - 1 -> <<FeederOf("5b"), FeederOf("5c")>>
       [] OTHER         -> <<FeederOf("3c"), FeederOf("4b")>>]

TheConcats  == {l \in TheLayers : TheNet.type[l] = "Concat"}
ThePoolings == {l \in TheLayers : TheNet.type[l] = "Pooling"}
TheKeeping  == {l \in TheLayers : l[2] \in {"b0", "b1b", "b2b", "b3c"}} \cup {TheLast}
TheConcatParents == [l \in TheConcats |-> TheParents(l)]

PadName == "conv1" :> "pad1" @@ "conv2c" :> "pad2c" @@ "b1b" :> "pad1" @@ "b2b" :> "pad2"
ThePads == [l \in {m \in TheLayers : m[2] \in DOMAIN PadName} |-> <<l[1], PadName[l[2]]>>]

TheImage == <<"in", "image">>
InputsOf(l) ==
  CASE l = <<"stem", "conv1">> -> <<TheImage>>
    [] l[2] = "concat" -> <<<<l[1], "b0">>, <<l[1], "b1b">>, <<l[1], "b2b">>, <<l[1], "b3c">>>>
    [] OTHER -> TheParents(l)
TheInputs == [l \in TheLayers |-> InputsOf(l)]

(* The numbers of packets do not matter here.                              *)
Few == [in |-> 3, head |-> 3, b1 |-> 1, padded1 |-> 1, b2 |-> 1, padded2 |-> 1,
        chunks |-> 1, b3 |-> 1, out |-> 3, io |-> 1, inner |-> 1]
FewStem == [padded1 |-> 1, conv1 |-> 1, chunks2 |-> 1, pool2 |-> 1, padded2 |-> 1,
            conv2c |-> 1, chunks3 |-> 1, out |-> 3, inner |-> 1]
FewLast == [in |-> 3, avg |-> 1, inner |-> 1]

TheKernels ==
  K!NetOf(
    K!Stem(FewStem, K!Feeder("3b"), 0)
      @@ (IF Hosts = 3
          THEN K!Fed("3b", Few, K!Feeder("3c"), 7) @@ K!Fed("3c", Few, K!Feeder("4b"), 12)
                 @@ K!Pooled("4b", Few, K!Feeder("5b"), 17)
          ELSE K!Fed("3b", Few, K!Feeder("5b"), 7))
      @@ K!Pooled("5b", Few, K!Feeder("5c"), 23)
      @@ K!Fed("5c", Few, <<<<"tail", "avg">>>>, 29)
      @@ K!Scores(FewLast, 34))

Entries(m, in, out) == [module |-> m, input |-> in, output |-> out]

(* torus_mod.xml.                                                          *)
TorusFile ==
  <<Entries("3a", 0, 3), Entries("3b", 2, 1), Entries("3c", 0, 2), Entries("4b", 3, 1),
    Entries("4c", 0, 3), Entries("4d", 2, 1), Entries("4e", 0, 3), Entries("4f", 2, 1),
    Entries("5b", 0, 3), Entries("5c", 2, 0)>>
=============================================================================
