---------------------------- MODULE NaturalSets ----------------------------
(***************************************************************************)
(* Induction over natural numbers for sets instead of predicates: the      *)
(* facts that the proofs about recursive functions over positions of a     *)
(* list rest on.                                                           *)
(***************************************************************************)
EXTENDS Integers, WellFoundedInduction, TLAPS

(* Every nonempty set of natural numbers has a least element.              *)
LEMMA LeastNatural ==
    ASSUME NEW T \in SUBSET Nat, T # {}
    PROVE  \E x \in T : \A y \in T : x <= y
<1> DEFINE R == OpToRel(<, Nat)
<1>1. IsWellFoundedOn(R, Nat)
  BY NatLessThanWellFounded
<1>2. \A x, y \in Nat : x < y => <<x, y>> \in R
  BY DEF OpToRel
<1> HIDE DEF R
<1>3. PICK x \in T : \A y \in T : ~ (<<y, x>> \in R)
  BY <1>1, WFMin
<1>4. \A y \in T : x <= y
  <2> TAKE y \in T
  <2>1. x \in Nat /\ y \in Nat
    OBVIOUS
  <2>2. ~ (y < x)
    BY <1>2, <1>3, <2>1
  <2> QED
    BY <2>1, <2>2
<1> QED
  BY <1>4

(* A nonempty set of bounded naturals has a greatest element.              *)
LEMMA GreatestExists ==
    ASSUME NEW n \in Nat, NEW S \in SUBSET (0 .. n), S # {}
    PROVE  \E x \in S : \A y \in S : y <= x
<1> DEFINE T == {k \in 0 .. n : n - k \in S}
<1>1. T \in SUBSET Nat
  OBVIOUS
<1>2. T # {}
  <2>1. PICK x \in S : TRUE
    OBVIOUS
  <2>2. n - x \in 0 .. n /\ n - (n - x) = x
    OBVIOUS
  <2> QED
    BY <2>1, <2>2
<1>3. PICK k \in T : \A j \in T : k <= j
  <2> HIDE DEF T
  <2> QED
    BY <1>1, <1>2, LeastNatural
<1>4. ASSUME NEW y \in S PROVE y <= n - k
  <2>1. n - y \in T
    <3>1. n - y \in 0 .. n /\ n - (n - y) = y
      OBVIOUS
    <3> QED
      BY <3>1
  <2>2. k <= n - y /\ k \in 0 .. n /\ y \in 0 .. n
    BY <1>3, <2>1
  <2> QED
    BY <2>2
<1>5. n - k \in S
  BY <1>3
<1> QED
  BY <1>4, <1>5

(* A set that contains 0 and is closed under successor up to n contains    *)
(* all of 0..n.                                                            *)
LEMMA IntervalInduction ==
    ASSUME NEW n \in Nat, NEW S, 0 \in S, \A k \in 0..(n - 1) : k \in S => k + 1 \in S
    PROVE  \A k \in 0..n : k \in S
<1> DEFINE T == {k \in 0..n : k \notin S}
<1> SUFFICES ASSUME T # {} PROVE FALSE
  OBVIOUS
<1>1. PICK x \in T : \A y \in T : x <= y
  <2>1. T \in SUBSET Nat
    OBVIOUS
  <2> QED
    BY <2>1, LeastNatural
<1>2. x \in 0..n /\ x \notin S /\ x # 0
  BY <1>1
<1>3. x - 1 \in 0..(n - 1) /\ x - 1 \in 0..n /\ ~(x <= x - 1) /\ (x - 1) + 1 = x
  BY <1>2
<1>4. x - 1 \in S
  BY <1>1, <1>3
<1> QED
  BY <1>2, <1>3, <1>4

(* f satisfies a recursive equation: it stops in Stop with a value and     *)
(* goes on elsewhere.                                                      *)
Descends(f, Dom, Stop, val, go) ==
    /\ f = [r \in Dom |-> f[r]]
    /\ \A r \in Dom : f[r] = IF r \in Stop THEN val[r] ELSE f[go[r]]

(* Such a function exists when every step lowers a bounded measure.        *)
LEMMA DescentExists ==
    ASSUME NEW Dom, NEW Stop, NEW val, NEW go, NEW size, NEW K \in Nat,
           \A r \in Dom : size[r] \in Nat /\ size[r] < K,
           \A r \in Dom \ Stop : go[r] \in Dom /\ size[go[r]] < size[r]
    PROVE  \E f : Descends(f, Dom, Stop, val, go)
<1> DEFINE Upto(f, k) == \A r \in Dom : size[r] < k =>
                             f[r] = IF r \in Stop THEN val[r] ELSE f[go[r]]
           S == {k \in 0..K : \E f : Upto(f, k)}
<1>1. 0 \in S
  OBVIOUS
<1>2. ASSUME NEW k \in 0..(K - 1), k \in S PROVE k + 1 \in S
  <2>1. PICK f : Upto(f, k)
    BY <1>2
  <2> DEFINE g == [r \in Dom |-> IF size[r] < k THEN f[r]
                                 ELSE IF r \in Stop THEN val[r] ELSE f[go[r]]]
  <2>2. ASSUME NEW r \in Dom, size[r] < k + 1
        PROVE  g[r] = IF r \in Stop THEN val[r] ELSE g[go[r]]
    <3>1. g[r] = IF r \in Stop THEN val[r] ELSE f[go[r]]
      BY <2>1
    <3>2. ASSUME r \notin Stop PROVE g[go[r]] = f[go[r]]
      <4>1. go[r] \in Dom /\ size[go[r]] \in Nat /\ size[r] \in Nat /\ size[go[r]] < size[r]
        BY <3>2
      <4>2. size[go[r]] < k
        BY <2>2, <4>1
      <4> QED
        BY <4>1, <4>2
    <3> HIDE DEF g
    <3> QED
      BY <3>1, <3>2
  <2> HIDE DEF g
  <2>3. Upto(g, k + 1)
    BY <2>2
  <2> QED
    BY <2>3
<1>3. K \in S
  <2> HIDE DEF S
  <2> QED
    BY <1>1, <1>2, IntervalInduction
<1>4. PICK f : Upto(f, K)
  BY <1>3
<1> DEFINE h == [r \in Dom |-> f[r]]
<1>5. \A r \in Dom : h[r] = IF r \in Stop THEN val[r] ELSE h[go[r]]
  BY <1>4
<1>6. h = [r \in Dom |-> h[r]]
  OBVIOUS
<1> HIDE DEF h
<1> QED
  BY <1>5, <1>6, Zenon DEF Descends
=============================================================================
