--------------------------- MODULE ChannelKernels ---------------------------
(***************************************************************************)
(* The kernels of the bitstreams of the channel design, as networks of     *)
(* module KernelNet: what they read and write in their loops.  The numbers *)
(* of packets are parameters, so that the networks can be had with the     *)
(* numbers of the source and with small ones.                              *)
(*                                                                         *)
(* A kernel is a pair: the inception module it is in, its role there.      *)
(***************************************************************************)
EXTENDS KernelNet, TLC

(* One kernel.                                                             *)
Row(rounds, reads, writes, outs, depth, after, level) ==
  [rounds |-> rounds, reads |-> reads, writes |-> writes, outs |-> outs,
   depth |-> depth, after |-> after, level |-> level]

(* A network from a function of rows.                                      *)
NetOf(rows) ==
  [rounds |-> [k \in DOMAIN rows |-> rows[k].rounds],
   reads  |-> [k \in DOMAIN rows |-> rows[k].reads],
   writes |-> [k \in DOMAIN rows |-> rows[k].writes],
   outs   |-> [k \in DOMAIN rows |-> rows[k].outs],
   depth  |-> [k \in DOMAIN rows |-> rows[k].depth],
   after  |-> [k \in DOMAIN rows |-> rows[k].after],
   level  |-> [k \in DOMAIN rows |-> rows[k].level]]

Ends(m) == {<<m, "b0">>, <<m, "b1b">>, <<m, "b2b">>, <<m, "b3c">>}
Heads(m) == <<<<m, "b0">>, <<m, "b1a">>, <<m, "b2a">>, <<m, "b3p">>>>

(* The branches of an inception module and the Concat, with c.head packets *)
(* to each of the first kernels, c.chunks of them before the pooling of    *)
(* branch 3 writes: the kernels store their input, compute, write.  The    *)
(* last kernels of branches write to global memory, which the Concat reads *)
(* when the host has waited for them.                                      *)
Branches(m, c, next, base) ==
     <<m, "b0">>   :> Row(1, c.head, 0, <<>>, c.inner, {}, base)
  @@ <<m, "b1a">>  :> Row(1, c.head, c.b1, <<<<m, "pad1">>>>, c.inner, {}, base)
  @@ <<m, "pad1">> :> Row(1, c.b1, c.padded1, <<<<m, "b1b">>>>, c.inner, {}, base + 1)
  @@ <<m, "b1b">>  :> Row(1, c.padded1, 0, <<>>, c.inner, {}, base + 2)
  @@ <<m, "b2a">>  :> Row(1, c.head, c.b2, <<<<m, "pad2">>>>, c.inner, {}, base)
  @@ <<m, "pad2">> :> Row(1, c.b2, c.padded2, <<<<m, "b2b">>>>, c.inner, {}, base + 1)
  @@ <<m, "b2b">>  :> Row(1, c.padded2, 0, <<>>, c.inner, {}, base + 2)
  @@ <<m, "b3p">>  :> Row(c.chunks, c.head \div c.chunks, c.b3 \div c.chunks,
                          <<<<m, "b3c">>>>, c.inner, {}, base)
  @@ <<m, "b3c">>  :> Row(1, c.b3, 0, <<>>, c.inner, {}, base + 1)
  @@ <<m, "concat">> :> Row(1, 0, c.out, next, c.inner, Ends(m), base + 3)

(* The feeder hands each packet from the serial channel to the four        *)
(* branches in turn ...                                                    *)
Fed(m, c, next, base) ==
  <<m, "feeder">> :> Row(c.in, 1, 1, Heads(m), c.io, {}, base)
    @@ Branches(m, c, next, base + 1)

(* ... or, in 4b and 5b, to the pooling before the module, which does.     *)
Pooled(m, c, next, base) ==
     <<m, "feeder">> :> Row(c.in, 1, 1, <<<<m, "pool">>>>, c.io, {}, base)
  @@ <<m, "pool">>   :> Row(1, c.in, c.head, Heads(m), c.inner, {}, base + 1)
  @@ Branches(m, c, next, base + 2)

(* 1a to 3a: a pipeline whose poolings go channel by channel.              *)
Stem(c, next, base) ==
     <<"stem", "pad1">> :> Row(1, 0, c.padded1, <<<<"stem", "conv1">>>>, c.inner, {}, base)
  @@ <<"stem", "conv1">> :> Row(1, c.padded1, c.conv1, <<<<"stem", "pool2">>>>, c.inner, {}, base + 1)
  @@ <<"stem", "pool2">> :> Row(c.chunks2, c.conv1 \div c.chunks2, c.pool2 \div c.chunks2,
                                <<<<"stem", "conv2b">>>>, c.inner, {}, base + 2)
  @@ <<"stem", "conv2b">> :> Row(1, c.pool2, c.pool2, <<<<"stem", "pad2c">>>>, c.inner, {}, base + 3)
  @@ <<"stem", "pad2c">> :> Row(1, c.pool2, c.padded2, <<<<"stem", "conv2c">>>>, c.inner, {}, base + 4)
  @@ <<"stem", "conv2c">> :> Row(1, c.padded2, c.conv2c, <<<<"stem", "pool3">>>>, c.inner, {}, base + 5)
  @@ <<"stem", "pool3">> :> Row(c.chunks3, c.conv2c \div c.chunks3, c.out \div c.chunks3,
                                next, c.inner, {}, base + 6)

(* The end of 5c, on floats from its Concat.                               *)
Scores(c, base) ==
     <<"tail", "avg">> :> Row(1, c.in, c.avg, <<<<"tail", "conv">>>>, c.inner, {}, base)
  @@ <<"tail", "conv">> :> Row(1, c.avg, 0, <<>>, c.inner, {}, base + 1)

-----------------------------------------------------------------------------
(* The numbers of the source.                                              *)

Counts(in, head, b1, padded1, b2, padded2, chunks, b3, out) ==
  [in |-> in, head |-> head, b1 |-> b1, padded1 |-> padded1, b2 |-> b2,
   padded2 |-> padded2, chunks |-> chunks, b3 |-> b3, out |-> out,
   io |-> 8, inner |-> 32]

Counts1a3a == [padded1 |-> 157323, conv1 |-> 64 * 112 * 112, chunks2 |-> 64,
               pool2 |-> 64 * 56 * 56, padded2 |-> 215296, conv2c |-> 192 * 56 * 56,
               chunks3 |-> 192, out |-> (192 * 28 * 28) \div 8, inner |-> 32]
Counts3b == Counts(18816, 18816, 96 * 28 * 28, 86400, 16 * 28 * 28, 14400,
                   1, 192 * 28 * 28, 200704 \div 8)
Counts3c == Counts(25088, 25088, 128 * 28 * 28, 115200, 32 * 28 * 28, 28800,
                   1, 256 * 28 * 28, 376320 \div 8)
Counts4b == Counts(47040, 480 * 14 * 14, 96 * 14 * 14, 24576, 16 * 14 * 14, 4096,
                   480, 480 * 14 * 14, 100352 \div 8)
Counts4c == Counts(12544, 12544, 112 * 14 * 14, 28672, 24 * 14 * 14, 6144,
                   1, 512 * 14 * 14, 100352 \div 8)
Counts4d == Counts(12544, 12544, 128 * 14 * 14, 32768, 24 * 14 * 14, 6144,
                   1, 512 * 14 * 14, 100352 \div 8)
Counts4e == Counts(12544, 12544, 144 * 14 * 14, 36864, 32 * 14 * 14, 8192,
                   1, 512 * 14 * 14, 103488 \div 8)
Counts4f == Counts(12936, 12936, 160 * 14 * 14, 40960, 32 * 14 * 14, 8192,
                   1, 528 * 14 * 14, 163072 \div 8)
Counts5b == Counts(20384, 832 * 7 * 7, 160 * 7 * 7, 12960, 32 * 7 * 7, 2592,
                   1, 832 * 7 * 7, 40768 \div 8)
Counts5c == Counts(5096, 5096, 192 * 7 * 7, 15552, 48 * 7 * 7, 3888,
                   1, 832 * 7 * 7, 50176)
Counts6 == [in |-> 50176, avg |-> 1024, inner |-> 32]

Feeder(m) == <<<<m, "feeder">>>>

(* All kernels of an inference, over the nine FPGAs.                       *)
GoogLeNetKernels ==
  NetOf(Stem(Counts1a3a, Feeder("3b"), 0)
     @@ Fed("3b", Counts3b, Feeder("3c"), 7)
     @@ Fed("3c", Counts3c, Feeder("4b"), 12)
     @@ Pooled("4b", Counts4b, Feeder("4c"), 17)
     @@ Fed("4c", Counts4c, Feeder("4d"), 23)
     @@ Fed("4d", Counts4d, Feeder("4e"), 28)
     @@ Fed("4e", Counts4e, Feeder("4f"), 33)
     @@ Fed("4f", Counts4f, Feeder("5b"), 38)
     @@ Pooled("5b", Counts5b, Feeder("5c"), 43)
     @@ Fed("5c", Counts5c, <<<<"tail", "avg">>>>, 49)
     @@ Scores(Counts6, 54))
=============================================================================
