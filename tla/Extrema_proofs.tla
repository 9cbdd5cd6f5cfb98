--------------------------- MODULE Extrema_proofs ---------------------------
(***************************************************************************)
(* Least and greatest elements of sets of naturals: what Min and Max of    *)
(* the community modules choose. The models use them for "the next line    *)
(* feed", "the first symbol of a chain", "the innermost scope".            *)
(***************************************************************************)
EXTENDS Integers, FiniteSetsExt, WellFoundedInduction, TLAPS

\* A non-empty set of naturals has a least element, and Min is it.
LEMMA LeastNatural ==
  ASSUME NEW S \in SUBSET Nat, S # {}
  PROVE  Min(S) \in S /\ \A x \in S : Min(S) <= x
<1> DEFINE R == {ss \in Nat \X Nat : ss[1] < ss[2]}
<1>1. IsWellFoundedOn(R, Nat)
  BY NatLessThanWellFounded DEF OpToRel
<1>2. PICK x \in S : \A y \in S : ~(<<y, x>> \in R)
  <2> HIDE DEF R
  <2> QED BY <1>1, WFMin
<1>3. \A y \in S : x <= y
  <2> TAKE y \in S
  <2>1. ~(<<y, x>> \in R)
    BY <1>2
  <2>2. ~(y < x)
    BY <2>1
  <2> QED BY <2>2
<1>4. \E z \in S : \A y \in S : z =< y
  BY <1>2, <1>3
<1> QED BY <1>4 DEF Min

\* So has a non-empty set of naturals with a bound, and Max is it.
LEMMA GreatestNatural ==
  ASSUME NEW n \in Nat, NEW S \in SUBSET (0 .. n), S # {}
  PROVE  Max(S) \in S /\ \A x \in S : x <= Max(S)
<1> DEFINE D == {d \in 0 .. n : n - d \in S}
<1>1. D \in SUBSET Nat
  OBVIOUS
<1>2. D # {}
  <2>1. PICK x \in S : TRUE
    OBVIOUS
  <2>2. n - x \in D
    <3>1. x \in 0 .. n
      OBVIOUS
    <3>2. n - x \in 0 .. n /\ n - (n - x) = x
      BY <3>1
    <3> QED BY <3>2
  <2> QED BY <2>2
<1>3. Min(D) \in D /\ \A d \in D : Min(D) <= d
  <2> HIDE DEF D
  <2> QED BY <1>1, <1>2, LeastNatural
<1> DEFINE m == Min(D)
<1> HIDE DEF m
<1>4. m \in 0 .. n /\ n - m \in S /\ \A y \in S : n - m >= y
  <2>1. m \in D
    BY <1>3 DEF m
  <2>2. ASSUME NEW y \in S PROVE n - m >= y
    <3>1. y \in 0 .. n /\ n - (n - y) = y
      OBVIOUS
    <3>2. n - y \in D
      BY <3>1
    <3>3. m <= n - y
      BY <1>3, <3>2 DEF m
    <3> QED BY <2>1, <3>1, <3>3
  <2> QED BY <2>1, <2>2
<1>5. \E z \in S : \A y \in S : z >= y
  BY <1>4
<1>6. Max(S) \in S /\ \A y \in S : Max(S) >= y
  BY <1>5 DEF Max
<1> QED BY <1>6

\* What holds of the first level and of each next one holds of all.
LEMMA LevelByLevel ==
  ASSUME NEW n \in Nat, NEW Good \in SUBSET Nat, 0 \in Good, \A k \in 1 .. n : k - 1 \in Good => k \in Good
  PROVE  \A k \in 0 .. n : k \in Good
<1> DEFINE Bad == {k \in 0 .. n : k \notin Good}
<1>1. SUFFICES ASSUME Bad # {} PROVE FALSE
  OBVIOUS
<1>2. PICK k \in Bad : \A m \in Bad : k <= m
  <2>1. Bad \in SUBSET Nat
    OBVIOUS
  <2> HIDE DEF Bad
  <2> QED BY <1>1, <2>1, LeastNatural
<1>3. k # 0
  BY <1>2
<1>4. k \in 1 .. n /\ k - 1 \in 0 .. n /\ k - 1 \notin Bad
  BY <1>2, <1>3
<1> QED BY <1>2, <1>4
=============================================================================
