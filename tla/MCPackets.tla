----------------------------- MODULE MCPackets -----------------------------
(***************************************************************************)
(* The kernels of a part of the network, with few packets in small         *)
(* channels; and the check of the numbers of the source, that what is      *)
(* proved of module Packets for every network holds of the real one.       *)
(***************************************************************************)
EXTENDS ChannelKernels, Packets, Padding

CONSTANT Slice   \* "fed", "pooled", "stem" or "source"

(* What module Packets assumes of its network, of all kernels with the     *)
(* numbers of the source: the loops on both sides of each channel agree.   *)
ASSUME SourceCounts == IsKernelNet(GoogLeNetKernels)

(* The padding kernels take and send as many packets as their loops have   *)
(* cells of the input and of the padded map (module Padding).              *)
PadsIn(k) == k.depth * k.side * k.side

ASSUME PaddedCounts ==
  /\ Counts1a3a.padded1 = Padding_1a.cells
  /\ Counts1a3a.pool2 = PadsIn(Padding_2c) /\ Counts1a3a.padded2 = Padding_2c.cells
  /\ \A c \in {<<Counts3b, Padding_3b_1, Padding_3b_2>>,
              <<Counts3c, Padding_3c_1, Padding_3c_2>>,
              <<Counts4b, Padding_4b_1, Padding_4b_2>>,
              <<Counts4c, Padding_4c_1, Padding_4c_2>>,
              <<Counts4d, Padding_4d_1, Padding_4d_2>>,
              <<Counts4e, Padding_4e_1, Padding_4e_2>>,
              <<Counts4f, Padding_4f_1, Padding_4f_2>>,
              <<Counts5b, Padding_5b_1, Padding_5b_2>>,
              <<Counts5c, Padding_5c_1, Padding_5c_2>>} :
       /\ c[1].b1 = PadsIn(c[2]) /\ c[1].padded1 = c[2].cells
       /\ c[1].b2 = PadsIn(c[3]) /\ c[1].padded2 = c[3].cells

Small == [in |-> 3, head |-> 3, b1 |-> 1, padded1 |-> 1, b2 |-> 1, padded2 |-> 1,
          chunks |-> 1, b3 |-> 1, out |-> 0, io |-> 1, inner |-> 1]

(* Of 4b: more packets after the pooling than before, branch 3 pooled      *)
(* channel by channel.                                                     *)
SmallPooled == [Small EXCEPT !.in = 1, !.head = 4, !.chunks = 2, !.b3 = 2]

SmallStem == [padded1 |-> 2, conv1 |-> 4, chunks2 |-> 2, pool2 |-> 2, padded2 |-> 3,
              conv2c |-> 4, chunks3 |-> 2, out |-> 2, inner |-> 2]

(* The FPGA before, which sends n packets, and the one after, which takes  *)
(* them; a slice without the latter ends in a Concat that sends nothing.   *)
Before(m, n) == <<m, "before">> :> Row(1, 0, n, Feeder(m), 1, {}, 0)
After(m, n) == <<m, "feeder">> :> Row(n, 1, 0, <<>>, 1, {}, 7)

CNet ==
  CASE Slice = "fed" ->
         NetOf(Before("3b", Small.in) @@ Fed("3b", Small, <<>>, 1))
    [] Slice = "pooled" ->
         NetOf(Before("4b", SmallPooled.in) @@ Pooled("4b", SmallPooled, <<>>, 1))
    [] Slice = "stem" ->
         NetOf(Stem(SmallStem, Feeder("3b"), 0) @@ After("3b", SmallStem.out))
    [] OTHER -> GoogLeNetKernels
=============================================================================
