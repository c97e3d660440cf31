------------------------------- MODULE Induction -------------------------------
(* Induction over the naturals with a set in place of a predicate, and the     *)
(* recursion over an interval that it justifies.  The proofs about the model's *)
(* recursive definitions rest on these facts.                                  *)
EXTENDS Integers, WellFoundedInduction, TLAPS

(* A set of naturals has a least element.                                      *)
LEMMA LeastNumber ==
    ASSUME NEW T \in SUBSET Nat, T # {}
    PROVE  \E x \in T : \A y \in T : x <= y
<1> DEFINE R == OpToRel(<, Nat)
<1>1. IsWellFoundedOn(R, Nat)
  BY NatLessThanWellFounded, Zenon
<1>2. \A x, y \in Nat : <<x, y>> \in R <=> x < y
  BY Zenon DEF OpToRel
<1> HIDE DEF R
<1>3. PICK x \in T : \A y \in T : ~(<<y, x>> \in R)
  BY <1>1, WFMin, Zenon
<1>4. ASSUME NEW y \in T PROVE x <= y
  <2>1. x \in Nat /\ y \in Nat
    OBVIOUS
  <2>2. ~(y < x)
    BY <1>2, <1>3, <2>1, Zenon
  <2> QED BY <2>1, <2>2
<1> QED BY <1>4

(* Induction: a set that holds 0, and each number's successor, holds them all. *)
LEMMA InductiveSet ==
    ASSUME NEW T, 0 \in T, \A n \in Nat : n \in T => n + 1 \in T
    PROVE  Nat \subseteq T
<1> SUFFICES ASSUME Nat \ T # {} PROVE FALSE
  OBVIOUS
<1>1. PICK x \in Nat \ T : \A y \in Nat \ T : x <= y
  BY LeastNumber
<1>2. x - 1 \in Nat /\ x = (x - 1) + 1
  BY <1>1
<1>3. x - 1 \in T
  BY <1>1, <1>2
<1> QED BY <1>1, <1>2, <1>3

(* f is the function over 0..N that starts at base and follows step.           *)
Follows(f, N, base, step) ==
    f = [n \in 0..N |-> IF n = 0 THEN base ELSE step[n][f[n - 1]]]

(* A recursion over 0..N whose step is a function defines a function.          *)
LEMMA RecursionDefines ==
    ASSUME NEW N \in Nat, NEW S, NEW base \in S, NEW step \in [1..N -> [S -> S]]
    PROVE  \E f \in [0..N -> S] : Follows(f, N, base, step)
<1> DEFINE Fits(f, m) == f = [n \in 0..m |-> IF n = 0 THEN base ELSE step[n][f[n - 1]]]
           T == {m \in Nat : m <= N => \E f \in [0..m -> S] : Fits(f, m)}
<1>1. 0 \in T
  <2>1. [n \in 0..0 |-> base] \in [0..0 -> S] /\ Fits([n \in 0..0 |-> base], 0)
    OBVIOUS
  <2> QED BY <2>1
<1>2. ASSUME NEW m \in Nat, m \in T PROVE m + 1 \in T
  <2> SUFFICES ASSUME m + 1 <= N PROVE \E f \in [0..(m + 1) -> S] : Fits(f, m + 1)
    OBVIOUS
  <2>1. PICK g \in [0..m -> S] : Fits(g, m)
    BY <1>2
  <2> DEFINE f == [n \in 0..(m + 1) |-> IF n = m + 1 THEN step[m + 1][g[m]] ELSE g[n]]
  <2>2. f \in [0..(m + 1) -> S]
    <3>1. g[m] \in S /\ step[m + 1] \in [S -> S]
      OBVIOUS
    <3> QED BY <3>1
  <2>3. \A n \in 0..(m + 1) : f[n] = IF n = 0 THEN base ELSE step[n][f[n - 1]]
    <3> SUFFICES ASSUME NEW n \in 0..(m + 1)
                 PROVE  f[n] = IF n = 0 THEN base ELSE step[n][f[n - 1]]
      OBVIOUS
    <3>1. CASE n = m + 1
      BY <3>1
    <3>2. CASE n \in 0..m
      <4>1. g[n] = IF n = 0 THEN base ELSE step[n][g[n - 1]]
        BY <2>1, <3>2
      <4> QED BY <3>2, <4>1
    <3> QED BY <3>1, <3>2
  <2>4. Fits(f, m + 1)
    BY <2>2, <2>3
  <2> HIDE DEF f, Fits
  <2> QED BY <2>2, <2>4
<1>3. N \in T
  <2> HIDE DEF T
  <2> QED BY <1>1, <1>2, InductiveSet
<1> QED BY <1>3 DEF Follows
===============================================================================
