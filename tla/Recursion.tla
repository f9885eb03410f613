------------------------------ MODULE Recursion ------------------------------
(***************************************************************************)
(* Induction over the natural numbers, and recursion, stated about sets    *)
(* and functions, so that the first-order provers can instantiate them.    *)
(***************************************************************************)
EXTENDS Integers, Sequences, FiniteSets, WellFoundedInduction, TLAPS

(* Every set of natural numbers that is not empty has a least element.     *)
LEMMA LeastNatural ==
    ASSUME NEW T \in SUBSET Nat, T # {}
    PROVE  \E n \in T : \A m \in T : n <= m
<1> DEFINE R == OpToRel(<, Nat)
<1>1. IsWellFoundedOn(R, Nat)
  BY NatLessThanWellFounded
<1>2. \A x, y \in Nat : x < y => <<x, y>> \in R
  BY DEF OpToRel
<1> HIDE DEF R
<1>3. PICK x \in T : \A y \in T : ~ (<<y, x>> \in R)
  BY <1>1, WFMin
<1>4. \A y \in T : ~ (y < x)
  BY <1>2, <1>3
<1>5. QED
  BY <1>3, <1>4

(* ... and a greatest one, if it has a bound.                              *)
LEMMA GreatestNatural ==
    ASSUME NEW T \in SUBSET Nat, T # {}, NEW b \in Nat, \A m \in T : m <= b
    PROVE  \E n \in T : \A m \in T : m <= n
<1> DEFINE Bounds == {n \in Nat : \A m \in T : m <= n}
<1>1. PICK n \in Bounds : \A m \in Bounds : n <= m
  <2>1. b \in Bounds
    OBVIOUS
  <2> HIDE DEF Bounds
  <2>2. Bounds \in SUBSET Nat
    BY DEF Bounds
  <2>3. QED
    BY <2>1, <2>2, LeastNatural
<1>2. CASE n \in T
  BY <1>2
<1>3. CASE n \notin T
  <2>1. \A m \in T : m <= n - 1
    BY <1>3
  <2>2. n - 1 \in Nat
    <3>1. PICK m \in T : m <= n - 1
      BY <2>1
    <3>2. QED
      BY <3>1
  <2>3. QED
    BY <1>1, <2>1, <2>2
<1>4. QED
  BY <1>2, <1>3

(* The principle of induction.                                             *)
LEMMA SetInduction ==
    ASSUME NEW S, 0 \in S, \A n \in Nat : n \in S => n + 1 \in S
    PROVE  \A n \in Nat : n \in S
<1> DEFINE T == Nat \ S
<1>1. SUFFICES ASSUME T # {} PROVE FALSE
  OBVIOUS
<1>2. PICK n \in T : \A m \in T : n <= m
  BY <1>1, LeastNatural
<1>3. n # 0 /\ n - 1 \in Nat
  OBVIOUS
<1>4. n - 1 \in S
  BY <1>2, <1>3
<1>5. QED
  BY <1>3, <1>4

-----------------------------------------------------------------------------
(* A chain of n steps, the i-th of which makes step[<<i, v>>] of v.        *)
Chain(g, n, V, base, step) ==
    /\ g \in [0 .. n -> V]
    /\ g[0] = base
    /\ \A i \in 1 .. n : g[i] = step[<<i, g[i - 1]>>]

(* Whatever set of values the steps stay in, there is a chain.             *)
LEMMA ChainsExist ==
    ASSUME NEW m \in Nat, NEW V, NEW base \in V, NEW step,
           \A n \in 1 .. m : \A v \in V : step[<<n, v>>] \in V
    PROVE  \E g : Chain(g, m, V, base, step)
<1> DEFINE S == {n \in Nat : n <= m => \E g : Chain(g, n, V, base, step)}
<1>1. 0 \in S
  <2>1. Chain([i \in 0 .. 0 |-> base], 0, V, base, step)
    BY DEF Chain
  <2>2. QED
    BY <2>1
<1>2. ASSUME NEW n \in Nat, n \in S PROVE n + 1 \in S
  <2> SUFFICES ASSUME n + 1 <= m PROVE \E g : Chain(g, n + 1, V, base, step)
    OBVIOUS
  <2>1. PICK g : Chain(g, n, V, base, step)
    BY <1>2
  <2> DEFINE h == [i \in 0 .. n + 1 |->
                      IF i = n + 1 THEN step[<<n + 1, g[n]>>] ELSE g[i]]
  <2>2. h \in [0 .. n + 1 -> V] /\ h[0] = base
    <3>1. g \in [0 .. n -> V] /\ g[0] = base
      BY <2>1 DEF Chain
    <3>2. step[<<n + 1, g[n]>>] \in V
      BY <3>1
    <3>3. QED
      BY <3>1, <3>2
  <2>3. ASSUME NEW i \in 1 .. n + 1 PROVE h[i] = step[<<i, h[i - 1]>>]
    <3>1. CASE i = n + 1
      <4>1. n + 1 \in 0 .. n + 1 /\ n \in 0 .. n + 1 /\ n # n + 1 /\ (n + 1) - 1 = n
        OBVIOUS
      <4>2. h[n + 1] = step[<<n + 1, g[n]>>] /\ h[n] = g[n]
        BY <4>1
      <4> HIDE DEF h
      <4>3. QED
        BY <3>1, <4>1, <4>2
    <3>2. CASE i # n + 1
      <4>1. i \in 1 .. n /\ i - 1 \in 0 .. n
        BY <3>2
      <4>2. h[i] = g[i] /\ h[i - 1] = g[i - 1]
        BY <4>1
      <4>3. QED
        BY <2>1, <4>1, <4>2 DEF Chain
    <3>3. QED
      BY <3>1, <3>2
  <2>4. Chain(h, n + 1, V, base, step)
    BY <2>2, <2>3 DEF Chain
  <2>5. QED
    BY <2>4
<1> HIDE DEF S
<1>3. m \in S
  BY <1>1, <1>2, SetInduction
<1>4. QED
  BY <1>3 DEF S

-----------------------------------------------------------------------------
(* Sequences put together.                                                 *)
LEMMA Concatenation ==
    ASSUME NEW X, NEW a \in Seq(X), NEW b \in Seq(X)
    PROVE  /\ a \o b \in Seq(X)
           /\ Len(a \o b) = Len(a) + Len(b)
           /\ \A k \in 1 .. Len(a) : (a \o b)[k] = a[k]
           /\ \A k \in 1 .. Len(b) : (a \o b)[Len(a) + k] = b[k]
OBVIOUS

=============================================================================
