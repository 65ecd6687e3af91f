----------------------------- MODULE Induction ------------------------------
(***************************************************************************)
(* Induction over the naturals, stated about a set instead of a predicate: *)
(* this is the form in which the proofs about loops use it; and what a     *)
(* loop computes that goes through its turns in order.                     *)
(***************************************************************************)
EXTENDS Naturals, WellFoundedInduction, TLAPS

(* Every set of naturals that is not empty has a smallest element.         *)
LEMMA SmallestElement ==
  ASSUME NEW T, T \subseteq Nat, T # {}
  PROVE  \E x \in T : \A y \in T : ~ (y < x)
<1>1. \E x \in T : \A y \in T : <<y, x>> \notin OpToRel(<, Nat)
  BY NatLessThanWellFounded, WFMin
<1>2. \A x, y \in Nat : y < x => <<y, x>> \in OpToRel(<, Nat)
  BY DEF OpToRel
<1> QED
  BY <1>1, <1>2, Zenon

(* A set that has 0 and, with every natural, the next one, has them all.   *)
LEMMA SetInduction ==
  ASSUME NEW S, 0 \in S, \A n \in Nat : n \in S => n + 1 \in S
  PROVE  Nat \subseteq S
<1> SUFFICES ASSUME Nat \ S # {} PROVE FALSE
  OBVIOUS
<1>1. PICK x \in Nat \ S : \A y \in Nat \ S : ~ (y < x)
  BY SmallestElement
<1>2. x # 0 /\ x - 1 \in Nat
  BY <1>1
<1> QED
  BY <1>1, <1>2

(* A loop of n turns over values of T: f[k] is the value after turn k, and *)
(* body[k] what turn k makes of the value before it.                       *)
Iterates(f, n, first, body) ==
  f[0] = first /\ \A k \in 1 .. n : f[k] = body[k][f[k - 1]]

(* Such a loop has its values.                                             *)
LEMMA IterationExists ==
  ASSUME NEW T, NEW first \in T, NEW n \in Nat, NEW body \in [1 .. n -> [T -> T]]
  PROVE  \E f \in [0 .. n -> T] : Iterates(f, n, first, body)
<1> DEFINE S == {m \in Nat : m <= n => \E f \in [0 .. m -> T] : Iterates(f, m, first, body)}
<1>1. 0 \in S
  <2> DEFINE f == [k \in 0 .. 0 |-> first]
  <2>1. f \in [0 .. 0 -> T] /\ Iterates(f, 0, first, body)
    BY DEF Iterates
  <2> HIDE DEF f
  <2> QED
    BY <2>1
<1>2. ASSUME NEW i \in Nat, i \in S PROVE i + 1 \in S
  <2> SUFFICES ASSUME i + 1 <= n
               PROVE  \E f \in [0 .. i + 1 -> T] : Iterates(f, i + 1, first, body)
    OBVIOUS
  <2>1. PICK f \in [0 .. i -> T] : Iterates(f, i, first, body)
    BY <1>2
  <2> DEFINE g == [k \in 0 .. i + 1 |-> IF k = i + 1 THEN body[i + 1][f[i]] ELSE f[k]]
  <2>2. body[i + 1][f[i]] \in T
    BY <2>1
  <2>3. g \in [0 .. i + 1 -> T]
    BY <2>1, <2>2
  <2>4. g[0] = first
    BY <2>1 DEF Iterates
  <2>5. ASSUME NEW k \in 1 .. i + 1 PROVE g[k] = body[k][g[k - 1]]
    <3>1. CASE k = i + 1
      <4>1. g[k - 1] = f[i] /\ g[k] = body[i + 1][f[i]]
        BY <3>1
      <4> QED
        BY <3>1, <4>1
    <3>2. CASE k # i + 1
      <4>1. g[k - 1] = f[k - 1] /\ g[k] = f[k] /\ k \in 1 .. i
        BY <3>2
      <4> HIDE DEF g
      <4> QED
        BY <2>1, <4>1 DEF Iterates
    <3> QED
      BY <3>1, <3>2
  <2>6. Iterates(g, i + 1, first, body)
    BY <2>4, <2>5 DEF Iterates
  <2> HIDE DEF g
  <2> QED
    BY <2>3, <2>6
<1>3. Nat \subseteq S
  <2> HIDE DEF S
  <2> QED
    BY <1>1, <1>2, SetInduction
<1> QED
  BY <1>3
=============================================================================
