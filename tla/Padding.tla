------------------------------ MODULE Padding ------------------------------
(***************************************************************************)
(* The padding kernels: before a 3x3 convolution a kernel copies a map of  *)
(* side x side x depth floats into one with a frame of zeros around each   *)
(* plane, cell by cell, with the coordinates worked out of the cell's      *)
(* number by literals; the first, 7x7 convolution of each network has a    *)
(* kernel of another form before it.  The kernels of both designs of       *)
(* GoogLeNet and those of ResNet-50 have the same literals for the same    *)
(* side.                                                                   *)
(*                                                                         *)
(* A kernel is a record: the side and depth of its input, the cells its    *)
(* loop runs over and the literals in its test and its index.              *)
(***************************************************************************)
EXTENDS Integers

Pad56(depth, cells) ==
  [side |-> 56, depth |-> depth, cells |-> cells,
   plane |-> 3364, row |-> 58, bottom |-> 3306, right |-> 57, shift |-> 57]

Pad28(depth, cells) ==
  [side |-> 28, depth |-> depth, cells |-> cells,
   plane |-> 900, row |-> 30, bottom |-> 870, right |-> 29, shift |-> 29]

Pad14(depth, cells) ==
  [side |-> 14, depth |-> depth, cells |-> cells,
   plane |-> 256, row |-> 16, bottom |-> 240, right |-> 15, shift |-> 15]

Pad7(depth, cells) ==
  [side |-> 7, depth |-> depth, cells |-> cells,
   plane |-> 81, row |-> 9, bottom |-> 72, right |-> 8, shift |-> 8]

(* Which cells get a float of the input, and which.                        *)
Copies(k, i) ==
  /\ k.row <= i % k.plane /\ i % k.plane < k.bottom
  /\ 1 <= i % k.row /\ i % k.row < k.right

Source(k, i) ==
  ((i \div k.plane) * k.side + (i % k.plane) \div k.row) * k.side
    + (i % k.row) - k.shift

T_pad(k, input0, zero) ==
  [i \in 0 .. k.cells - 1 |-> IF Copies(k, i) THEN input0[Source(k, i)] ELSE zero]

-----------------------------------------------------------------------------
(* The kernels of GoogLeNet before its 3x3 convolutions.                   *)

Padding_2c == Pad56(64, 215296)
Padding_3b_1 == Pad28(96, 86400)
Padding_3b_2 == Pad28(16, 14400)
Padding_3c_1 == Pad28(128, 115200)
Padding_3c_2 == Pad28(32, 28800)
Padding_4b_1 == Pad14(96, 24576)
Padding_4b_2 == Pad14(16, 4096)
Padding_4c_1 == Pad14(112, 28672)
Padding_4c_2 == Pad14(24, 6144)
Padding_4d_1 == Pad14(128, 32768)
Padding_4d_2 == Pad14(24, 6144)
Padding_4e_1 == Pad14(144, 36864)
Padding_4e_2 == Pad14(32, 8192)
Padding_4f_1 == Pad14(160, 40960)
Padding_4f_2 == Pad14(32, 8192)
Padding_5b_1 == Pad7(160, 12960)
Padding_5b_2 == Pad7(32, 2592)
Padding_5c_1 == Pad7(192, 15552)
Padding_5c_2 == Pad7(48, 3888)

(* Those of ResNet-50; the units of a block have the same.                 *)
P_block1 == Pad56(64, 215296)
P_block2 == Pad28(128, 115200)
P_block3 == Pad14(256, 65536)
P_block4 == Pad7(512, 41472)

-----------------------------------------------------------------------------
(* The kernel before the first convolution reads an image whose three      *)
(* colours lie side by side.  GoogLeNet's makes a frame of two cells on    *)
(* the left and above, three on the right and below; ResNet-50's has three *)
(* cells on every side.                                                    *)
Padding_1a ==
  [side |-> 224, cells |-> 157323, plane |-> 52441, row |-> 229, top |-> 458,
   bottom |-> 51754, left |-> 2, right |-> 226, shift |-> 1350]

P_conv1 ==
  [side |-> 224, cells |-> 158700, plane |-> 52900, row |-> 230, top |-> 690,
   bottom |-> 52210, left |-> 3, right |-> 227, shift |-> 2025]

StemCopies(k, i) ==
  /\ k.top <= i % k.plane /\ i % k.plane < k.bottom
  /\ k.left <= i % k.row /\ i % k.row < k.right

StemSource(k, i) ==
  (((i % k.plane) \div k.row) * k.side + (i % k.row)) * 3 + i \div k.plane - k.shift
=============================================================================
