-------------------------- MODULE KernelNet_proofs --------------------------
(***************************************************************************)
(* A lemma about networks of kernels, for Packets and for ChannelDesign.   *)
(***************************************************************************)
EXTENDS KernelNet, FiniteSetTheorems, WellFoundedInduction, TLAPS

(* Any set of kernels has one of lowest and one of highest level.          *)
LEMMA LowestAndHighest ==
  ASSUME NEW g, NetTypes(g), NEW U, U \subseteq KernelsOf(g), U # {}
  PROVE  /\ \E k \in U : \A j \in U : ~ (g.level[j] < g.level[k])
         /\ \E k \in U : \A j \in U : ~ (g.level[k] < g.level[j])
<1> DEFINE R == OpToRel(<, Nat)
           L == {g.level[k] : k \in U}
           N == Cardinality(KernelsOf(g))
           H == {N - g.level[k] : k \in U}
<1>1. IsWellFoundedOn(R, Nat)
  BY NatLessThanWellFounded
<1>2. N \in Nat /\ \A k \in U : g.level[k] \in 0 .. N
  BY FS_CardinalityType DEF NetTypes
<1>3. \A a, b \in Nat : a < b => <<a, b>> \in R
  BY DEF OpToRel
<1>4. L \subseteq Nat /\ L # {}
  BY <1>2
<1>5. H \subseteq Nat /\ H # {}
  BY <1>2
<1> HIDE DEF R
<1>6. \E x \in L : \A y \in L : ~ (<<y, x>> \in R)
  <2> HIDE DEF L
  <2> QED BY <1>1, <1>4, WFMin
<1>7. \E x \in H : \A y \in H : ~ (<<y, x>> \in R)
  <2> HIDE DEF H
  <2> QED BY <1>1, <1>5, WFMin
<1>8. \E k \in U : \A j \in U : ~ (g.level[j] < g.level[k])
  <2>1. PICK x \in L : \A y \in L : ~ (<<y, x>> \in R)
    BY <1>6
  <2>2. PICK k \in U : x = g.level[k]
    BY <2>1
  <2>3. ASSUME NEW j \in U, g.level[j] < g.level[k] PROVE FALSE
    <3>1. g.level[j] \in L /\ g.level[j] \in Nat /\ g.level[k] \in Nat
      BY <1>2
    <3>2. <<g.level[j], g.level[k]>> \in R
      BY <1>3, <2>3, <3>1
    <3> QED BY <2>1, <2>2, <3>1, <3>2
  <2> QED BY <2>3
<1>9. \E k \in U : \A j \in U : ~ (g.level[k] < g.level[j])
  <2>1. PICK x \in H : \A y \in H : ~ (<<y, x>> \in R)
    BY <1>7
  <2>2. PICK k \in U : x = N - g.level[k]
    BY <2>1
  <2>3. ASSUME NEW j \in U, g.level[k] < g.level[j] PROVE FALSE
    <3>1. N - g.level[j] < N - g.level[k]
      BY <1>2, <2>3
    <3>2. N - g.level[j] \in H /\ N - g.level[j] \in Nat /\ N - g.level[k] \in Nat
      BY <1>2
    <3> QED BY <1>3, <2>1, <2>2, <3>1, <3>2
  <2> QED BY <2>3
<1> QED BY <1>8, <1>9
=============================================================================
