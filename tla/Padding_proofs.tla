--------------------------- MODULE Padding_proofs ---------------------------
(***************************************************************************)
(* Every padding kernel puts each float of its input, and no other memory, *)
(* where the convolution expects it: for every side and depth a kernel     *)
(* does so if its literals are what they ask for, and in all the kernels   *)
(* of the two networks they are.                                           *)
(***************************************************************************)
EXTENDS Padding, TLAPS

(* The kernels before 3x3 convolutions.                                    *)
PaddingKernels ==
  {Padding_2c, Padding_3b_1, Padding_3b_2, Padding_3c_1, Padding_3c_2,
   Padding_4b_1, Padding_4b_2, Padding_4c_1, Padding_4c_2, Padding_4d_1,
   Padding_4d_2, Padding_4e_1, Padding_4e_2, Padding_4f_1, Padding_4f_2,
   Padding_5b_1, Padding_5b_2, Padding_5c_1, Padding_5c_2,
   P_block1, P_block2, P_block3, P_block4}

(* What padding means: the number of a cell of a map of planes of h rows   *)
(* of w cells, in either order, and the cells within the frame.            *)
PlanesFirst(c, y, x, h, w) == (c * h + y) * w + x
ColoursLast(c, y, x, w) == (y * w + x) * 3 + c

Framed(y, x, frame, side) ==
  y \in frame .. frame + side - 1 /\ x \in frame .. frame + side - 1

(* The literals are what the side and the depth of the input ask for.      *)
LiteralsFit(k) ==
  /\ k.side \in Nat \ {0} /\ k.depth \in Nat
  /\ k.row = k.side + 2 /\ k.plane = k.row * k.row
  /\ k.bottom = k.plane - k.row
  /\ k.right = k.side + 1 /\ k.shift = k.side + 1
  /\ k.cells = k.depth * k.plane

(* Every cell of the padded map is a cell of the loop, those within the    *)
(* frame are copied, from where they are in the input.                     *)
PadsRight(k) ==
  \A c \in 0 .. k.depth - 1, y, x \in 0 .. k.side + 1 :
    LET i == PlanesFirst(c, y, x, k.side + 2, k.side + 2) IN
      /\ i \in 0 .. k.cells - 1
      /\ Copies(k, i) <=> Framed(y, x, 1, k.side)
      /\ Copies(k, i) =>
           /\ Source(k, i) = PlanesFirst(c, y - 1, x - 1, k.side, k.side)
           /\ Source(k, i) \in 0 .. k.depth * k.side * k.side - 1

LEMMA DivMod ==
  ASSUME NEW p \in Nat \ {0}, NEW q \in Nat, NEW r \in 0 .. p - 1
  PROVE  (q * p + r) \div p = q /\ (q * p + r) % p = r
BY SMT

LEMMA Times ==
  ASSUME NEW a \in Int, NEW b \in Int, NEW p \in Nat, a <= b
  PROVE  a * p <= b * p
BY SMT

(* For maps of every side and depth: a padding kernel whose literals are   *)
(* what the side and the depth ask for runs over exactly the cells of the  *)
(* padded map, its test picks those within the frame, and its index is     *)
(* that of the float which belongs there: it never reads outside its input.*)
THEOREM FitsPadsRight ==
  ASSUME NEW k, LiteralsFit(k)
  PROVE  PadsRight(k)
<1> SUFFICES ASSUME NEW c \in 0 .. k.depth - 1,
                    NEW y \in 0 .. k.side + 1, NEW x \in 0 .. k.side + 1,
                    NEW i, i = PlanesFirst(c, y, x, k.side + 2, k.side + 2)
             PROVE  /\ i \in 0 .. k.cells - 1
                    /\ Copies(k, i) <=> Framed(y, x, 1, k.side)
                    /\ Copies(k, i) =>
                         /\ Source(k, i) = PlanesFirst(c, y - 1, x - 1, k.side, k.side)
                         /\ Source(k, i) \in 0 .. k.depth * k.side * k.side - 1
  BY DEF PadsRight
<1> DEFINE s == k.side
           d == k.depth
           P == s + 2
           Q == P * P
           r == y * P + x
<1>1. /\ s \in Nat \ {0} /\ d \in Nat /\ P \in Nat \ {0} /\ Q \in Nat \ {0}
      /\ P = s + 2
      /\ c \in Nat /\ c <= d - 1
      /\ y \in Nat /\ y <= P - 1 /\ x \in Nat /\ x <= P - 1
  BY SMT DEF LiteralsFit
<1>2. /\ k.row = P /\ k.plane = Q /\ k.bottom = Q - P /\ k.right = s + 1
      /\ k.shift = s + 1 /\ k.cells = d * Q
  BY DEF LiteralsFit
<1>3. i = (c * P + y) * P + x
  BY DEF PlanesFirst
<1>4. k.side = s /\ k.depth = d
  OBVIOUS
<1>5. Q = P * P /\ r = y * P + x
  OBVIOUS
<1> HIDE DEF s, d, P, Q, r
<1>6. i % P = x
  <2> DEFINE q == c * P + y
  <2>1. q \in Nat /\ x \in 0 .. P - 1 /\ i = q * P + x
    BY <1>1, <1>3
  <2> HIDE DEF q
  <2>2. (q * P + x) % P = x
    <3>1. P \in Nat \ {0} /\ q \in Nat /\ x \in 0 .. P - 1
      BY <1>1, <2>1
    <3> QED BY <3>1, DivMod, Zenon
  <2> QED BY <2>1, <2>2
<1>7. r \in 0 .. Q - 1 /\ r \div P = y
  <2>1. x \in 0 .. P - 1 /\ y * P \in Nat /\ y * P <= (P - 1) * P
    BY <1>1, Times
  <2>2. (P - 1) * P = Q - P
    BY <1>1, <1>5
  <2>3. (y * P + x) \div P = y
    <3>1. P \in Nat \ {0} /\ y \in Nat /\ x \in 0 .. P - 1
      BY <1>1, <2>1
    <3> QED BY <3>1, DivMod, Zenon
  <2> QED BY <1>1, <1>5, <2>1, <2>2, <2>3
<1>8. i = c * Q + r
  BY <1>1, <1>3, <1>5
<1>9. i % Q = r /\ i \div Q = c
  <2>1. Q \in Nat \ {0} /\ c \in Nat /\ r \in 0 .. Q - 1
    BY <1>1, <1>7
  <2>2. (c * Q + r) % Q = r /\ (c * Q + r) \div Q = c
    BY <2>1, DivMod, Zenon
  <2> QED BY <1>8, <2>2
<1>10. i \in 0 .. k.cells - 1
  <2>1. c * Q <= (d - 1) * Q /\ c * Q \in Nat
    BY <1>1, Times
  <2>2. (d - 1) * Q = d * Q - Q
    BY <1>1
  <2> QED BY <1>1, <1>2, <1>7, <1>8, <2>1, <2>2
<1>11. Copies(k, i) <=> Framed(y, x, 1, s)
  <2>1. Copies(k, i) <=> P <= r /\ r < Q - P /\ 1 <= x /\ x < s + 1
    BY <1>2, <1>6, <1>9 DEF Copies
  <2>2. P <= r <=> 1 <= y
    <3>1. CASE y = 0
      BY <1>1, <1>5, <3>1
    <3>2. CASE 1 <= y
      <4>1. 1 * P <= y * P
        BY <1>1, <3>2, Times
      <4> QED BY <1>1, <1>5, <3>2, <4>1
    <3> QED BY <1>1, <3>1, <3>2
  <2>3. r < Q - P <=> y <= s
    <3>1. Q - P = (s + 1) * P
      BY <1>1, <1>5
    <3>2. CASE y <= s
      <4>1. y * P <= s * P
        BY <1>1, <3>2, Times
      <4>2. (s + 1) * P = s * P + P
        BY <1>1
      <4> QED BY <1>1, <1>5, <3>1, <3>2, <4>1, <4>2
    <3>3. CASE y = s + 1
      BY <1>1, <1>5, <3>1, <3>3
    <3> QED BY <1>1, <3>2, <3>3
  <2> QED BY <1>1, <2>1, <2>2, <2>3 DEF Framed
<1>12. Source(k, i) = (c * s + (y - 1)) * s + (x - 1)
  <2>1. Source(k, i) = (c * s + y) * s + x - (s + 1)
    BY <1>2, <1>6, <1>7, <1>9, <1>4 DEF Source
  <2>2. (c * s + y) * s = (c * s + (y - 1)) * s + s
    BY <1>1
  <2> QED BY <1>1, <2>1, <2>2
<1>13. ASSUME Framed(y, x, 1, s)
       PROVE  Source(k, i) \in 0 .. d * s * s - 1
  <2>1. 1 <= y /\ y <= s /\ 1 <= x /\ x <= s
    BY <1>1, <1>13 DEF Framed
  <2>2. c * s <= (d - 1) * s /\ (d - 1) * s = d * s - s /\ c * s \in Nat
    BY <1>1, Times
  <2> DEFINE z == c * s + (y - 1)
  <2>3. z \in Nat /\ z <= d * s - 1 /\ d * s \in Nat
    BY <1>1, <2>1, <2>2
  <2> HIDE DEF z
  <2>4. z * s <= (d * s - 1) * s /\ z * s \in Nat
    BY <1>1, <2>3, Times
  <2>5. (d * s - 1) * s = d * s * s - s
    BY <1>1
  <2>6. d * s * s \in Nat
    BY <1>1
  <2> QED BY <1>1, <1>12, <2>1, <2>4, <2>5, <2>6 DEF z
<1> QED BY <1>10, <1>11, <1>12, <1>13, <1>4 DEF PlanesFirst

(* And they are in each kernel before a 3x3 convolution of GoogLeNet and   *)
(* ResNet-50, which therefore pads right.                                  *)
THEOREM PaddingRight == \A k \in PaddingKernels : PadsRight(k)
<1>1. \A k \in {Padding_2c, P_block1} : LiteralsFit(k)
  BY DEF LiteralsFit, Pad56,
         Padding_2c, P_block1
<1>2. \A k \in {Padding_3b_1, Padding_3b_2, Padding_3c_1, Padding_3c_2,
             P_block2} : LiteralsFit(k)
  BY DEF LiteralsFit, Pad28,
         Padding_3b_1, Padding_3b_2, Padding_3c_1, Padding_3c_2, P_block2
<1>3. \A k \in {Padding_4b_1, Padding_4b_2, Padding_4c_1, Padding_4c_2,
             Padding_4d_1, Padding_4d_2, Padding_4e_1, Padding_4e_2,
             Padding_4f_1, Padding_4f_2, P_block3} : LiteralsFit(k)
  BY DEF LiteralsFit, Pad14,
         Padding_4b_1, Padding_4b_2, Padding_4c_1, Padding_4c_2,
         Padding_4d_1, Padding_4d_2, Padding_4e_1, Padding_4e_2,
         Padding_4f_1, Padding_4f_2, P_block3
<1>4. \A k \in {Padding_5b_1, Padding_5b_2, Padding_5c_1, Padding_5c_2,
             P_block4} : LiteralsFit(k)
  BY DEF LiteralsFit, Pad7,
         Padding_5b_1, Padding_5b_2, Padding_5c_1, Padding_5c_2, P_block4
<1> QED BY <1>1, <1>2, <1>3, <1>4, FitsPadsRight DEF PaddingKernels

(* So the map that a kernel leaves has the floats of its input, in their   *)
(* order, inside of a frame of zeros.                                      *)
THEOREM PaddedMap ==
  ASSUME NEW k \in PaddingKernels, NEW input0, NEW zero,
         NEW c \in 0 .. k.depth - 1,
         NEW y \in 0 .. k.side + 1, NEW x \in 0 .. k.side + 1
  PROVE  T_pad(k, input0, zero)[PlanesFirst(c, y, x, k.side + 2, k.side + 2)]
           = IF Framed(y, x, 1, k.side)
             THEN input0[PlanesFirst(c, y - 1, x - 1, k.side, k.side)] ELSE zero
<1> DEFINE i == PlanesFirst(c, y, x, k.side + 2, k.side + 2)
<1>1. /\ i \in 0 .. k.cells - 1
      /\ Copies(k, i) <=> Framed(y, x, 1, k.side)
      /\ Copies(k, i) => Source(k, i) = PlanesFirst(c, y - 1, x - 1, k.side, k.side)
  BY PaddingRight DEF PadsRight
<1> HIDE DEF i
<1>2. T_pad(k, input0, zero)[i] = IF Copies(k, i) THEN input0[Source(k, i)] ELSE zero
  BY <1>1 DEF T_pad
<1> QED BY <1>1, <1>2 DEF i

-----------------------------------------------------------------------------
(* The kernels before the first, 7x7 convolution: a frame of f cells on    *)
(* the left and above, and of three on the right and below.                *)

StemLiteralsFit(k, f) ==
  /\ k.side \in Nat \ {0} /\ f \in Nat \ {0}
  /\ k.row = k.side + f + 3 /\ k.plane = k.row * k.row
  /\ k.top = f * k.row /\ k.bottom = k.plane - 3 * k.row
  /\ k.left = f /\ k.right = k.side + f
  /\ k.shift = (f * k.side + f) * 3
  /\ k.cells = 3 * k.plane

StemPadsRight(k, f) ==
  \A c \in 0 .. 2, y, x \in 0 .. k.side + f + 2 :
    LET i == PlanesFirst(c, y, x, k.side + f + 3, k.side + f + 3) IN
      /\ i \in 0 .. k.cells - 1
      /\ StemCopies(k, i) <=> Framed(y, x, f, k.side)
      /\ StemCopies(k, i) =>
           /\ StemSource(k, i) = ColoursLast(c, y - f, x - f, k.side)
           /\ StemSource(k, i) \in 0 .. k.side * k.side * 3 - 1

(* For images of every side and frames of every width.                     *)
LEMMA FitsStemPadsRight ==
  ASSUME NEW k, NEW f, StemLiteralsFit(k, f)
  PROVE  StemPadsRight(k, f)
<1> SUFFICES ASSUME NEW c \in 0 .. 2,
                    NEW y \in 0 .. k.side + f + 2, NEW x \in 0 .. k.side + f + 2,
                    NEW i, i = PlanesFirst(c, y, x, k.side + f + 3, k.side + f + 3)
             PROVE  /\ i \in 0 .. k.cells - 1
                    /\ StemCopies(k, i) <=> Framed(y, x, f, k.side)
                    /\ StemCopies(k, i) =>
                         /\ StemSource(k, i) = ColoursLast(c, y - f, x - f, k.side)
                         /\ StemSource(k, i) \in 0 .. k.side * k.side * 3 - 1
  BY DEF StemPadsRight
<1> DEFINE s == k.side
           P == s + f + 3
           Q == P * P
           r == y * P + x
<1>1. /\ s \in Nat \ {0} /\ f \in Nat \ {0}
      /\ P \in Nat \ {0} /\ Q \in Nat \ {0}
      /\ P = s + f + 3
      /\ c \in Nat /\ c <= 2
      /\ y \in Nat /\ y <= P - 1 /\ x \in Nat /\ x <= P - 1
  BY SMT DEF StemLiteralsFit
<1>2. /\ k.row = P /\ k.plane = Q /\ k.top = f * P /\ k.bottom = Q - 3 * P
      /\ k.left = f /\ k.right = s + f /\ k.shift = (f * s + f) * 3
      /\ k.cells = 3 * Q
  BY DEF StemLiteralsFit
<1>3. i = (c * P + y) * P + x
  BY DEF PlanesFirst
<1>4. k.side = s /\ Q = P * P /\ r = y * P + x
  OBVIOUS
<1> HIDE DEF s, P, Q, r
<1>5. i % P = x
  <2> DEFINE q == c * P + y
  <2>1. q \in Nat /\ x \in 0 .. P - 1 /\ i = q * P + x
    BY <1>1, <1>3
  <2> HIDE DEF q
  <2>2. (q * P + x) % P = x
    <3>1. P \in Nat \ {0} /\ q \in Nat /\ x \in 0 .. P - 1
      BY <1>1, <2>1
    <3> QED BY <3>1, DivMod, Zenon
  <2> QED BY <2>1, <2>2
<1>6. r \in 0 .. Q - 1 /\ r \div P = y
  <2>1. x \in 0 .. P - 1 /\ y * P \in Nat /\ y * P <= (P - 1) * P
    BY <1>1, Times
  <2>2. (P - 1) * P = Q - P
    BY <1>1, <1>4
  <2>3. (y * P + x) \div P = y
    <3>1. P \in Nat \ {0} /\ y \in Nat /\ x \in 0 .. P - 1
      BY <1>1, <2>1
    <3> QED BY <3>1, DivMod, Zenon
  <2> QED BY <1>1, <1>4, <2>1, <2>2, <2>3
<1>7. i = c * Q + r
  BY <1>1, <1>3, <1>4
<1>8. i % Q = r /\ i \div Q = c
  <2>1. Q \in Nat \ {0} /\ c \in Nat /\ r \in 0 .. Q - 1
    BY <1>1, <1>6
  <2>2. (c * Q + r) % Q = r /\ (c * Q + r) \div Q = c
    BY <2>1, DivMod, Zenon
  <2> QED BY <1>7, <2>2
<1>9. i \in 0 .. k.cells - 1
  <2>1. c * Q <= 2 * Q /\ c * Q \in Nat
    BY <1>1, Times
  <2> QED BY <1>1, <1>2, <1>6, <1>7, <2>1
<1>10. StemCopies(k, i) <=> Framed(y, x, f, s)
  <2>1. StemCopies(k, i) <=> f * P <= r /\ r < Q - 3 * P /\ f <= x /\ x < s + f
    BY <1>2, <1>5, <1>8 DEF StemCopies
  <2>2. f * P <= r <=> f <= y
    <3>1. CASE y <= f - 1
      <4>1. y * P <= (f - 1) * P /\ (f - 1) * P = f * P - P
        BY <1>1, <3>1, Times
      <4> QED BY <1>1, <1>4, <3>1, <4>1
    <3>2. CASE f <= y
      <4>1. f * P <= y * P
        BY <1>1, <3>2, Times
      <4> QED BY <1>1, <1>4, <3>2, <4>1
    <3> QED BY <1>1, <3>1, <3>2
  <2>3. r < Q - 3 * P <=> y <= s + f - 1
    <3>1. Q - 3 * P = (s + f) * P
      BY <1>1, <1>4
    <3>2. CASE y <= s + f - 1
      <4>1. y * P <= (s + f - 1) * P
        BY <1>1, <3>2, Times
      <4>2. (s + f) * P = (s + f - 1) * P + P
        BY <1>1
      <4> QED BY <1>1, <1>4, <3>1, <3>2, <4>1, <4>2
    <3>3. CASE s + f <= y
      <4>1. (s + f) * P <= y * P
        BY <1>1, <3>3, Times
      <4> QED BY <1>1, <1>4, <3>1, <3>3, <4>1
    <3> QED BY <1>1, <3>2, <3>3
  <2> QED BY <1>1, <2>1, <2>2, <2>3 DEF Framed
<1>11. StemSource(k, i) = ((y - f) * s + (x - f)) * 3 + c
  <2>1. StemSource(k, i) = (y * s + x) * 3 + c - (f * s + f) * 3
    BY <1>2, <1>4, <1>5, <1>6, <1>8 DEF StemSource
  <2>2. y * s = (y - f) * s + f * s
    BY <1>1
  <2> QED BY <1>1, <2>1, <2>2
<1>12. ASSUME Framed(y, x, f, s)
       PROVE  StemSource(k, i) \in 0 .. s * s * 3 - 1
  <2>1. f <= y /\ y <= s + f - 1 /\ f <= x /\ x <= s + f - 1
    BY <1>1, <1>12 DEF Framed
  <2> DEFINE z == y - f
  <2>2. z \in Nat /\ z <= s - 1 /\ x - f \in 0 .. s - 1
    BY <1>1, <2>1
  <2>3. StemSource(k, i) = (z * s + (x - f)) * 3 + c
    BY <1>11
  <2> HIDE DEF z
  <2>4. z * s <= (s - 1) * s /\ z * s \in Nat
    BY <1>1, <2>2, Times
  <2>5. (s - 1) * s = s * s - s /\ s * s \in Nat
    BY <1>1
  <2> QED BY <1>1, <2>2, <2>3, <2>4, <2>5
<1> QED BY <1>4, <1>9, <1>10, <1>11, <1>12 DEF ColoursLast

(* GoogLeNet's kernel makes 229 x 229 cells of each colour out of an image *)
(* of 224 x 224 pixels, ResNet-50's 230 x 230, with frames of two and of   *)
(* three cells on the left and above, and none from outside of the image.  *)
THEOREM StemPaddingRight ==
  StemPadsRight(Padding_1a, 2) /\ StemPadsRight(P_conv1, 3)
<1>1. StemLiteralsFit(Padding_1a, 2)
  BY DEF StemLiteralsFit, Padding_1a
<1>2. StemLiteralsFit(P_conv1, 3)
  BY DEF StemLiteralsFit, P_conv1
<1> QED BY <1>1, <1>2, FitsStemPadsRight
=============================================================================
