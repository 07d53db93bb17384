------------------------------ MODULE Recursion ------------------------------
(***************************************************************************)
(* A function defined by recursion on the naturals exists: whatever the    *)
(* step is, there is a function that starts at a value and takes the step  *)
(* from each number to the next.                                           *)
(***************************************************************************)
EXTENDS Naturals, NaturalsInduction, WellFoundedInduction, TLAPS

CONSTANT Siguiente(_, _)

\* One step after another, from v.
EsSerie(g, S, p, v) == g = [k \in S |-> IF k = 0 THEN v ELSE Siguiente(p, g[k - 1])]

\* A set of numbers with 0 and the successor of each of its members.
LEMMA Induccion ==
    ASSUME NEW M \in SUBSET Nat, 0 \in M, \A k \in M : k + 1 \in M
    PROVE  M = Nat
<1>1. SUFFICES ASSUME M # Nat PROVE FALSE
  OBVIOUS
<1>. DEFINE Faltan == Nat \ M
            R == OpToRel(<, Nat)
<1>2. \E x \in Faltan : \A y \in Faltan : ~ (<<y, x>> \in R)
  <2>1. IsWellFoundedOn(R, Nat)
    BY NatLessThanWellFounded
  <2>2. Faltan \subseteq Nat /\ Faltan # {}
    BY <1>1
  <2>. HIDE DEF Faltan, R
  <2>. QED BY <2>1, <2>2, WFMin
<1>3. PICK x \in Faltan : \A y \in Faltan : ~ (<<y, x>> \in R)
  BY <1>2
<1>4. x \in Nat /\ x - 1 \in Nat /\ x - 1 < x
  <2>1. x \in Nat /\ x # 0
    BY <1>3
  <2>. QED BY <2>1
<1>5. <<x - 1, x>> \in R
  BY <1>4 DEF OpToRel
<1>6. x - 1 \in M
  BY <1>3, <1>4, <1>5
<1>7. (x - 1) + 1 = x
  BY <1>4
<1>. QED BY <1>3, <1>6, <1>7

\* Two series with the same start agree wherever both are defined.
LEMMA Unica ==
    ASSUME NEW p, NEW v, NEW m \in Nat, NEW n \in Nat, NEW f, NEW g,
           EsSerie(f, 0..m, p, v), EsSerie(g, 0..n, p, v)
    PROVE  \A k \in Nat : k <= m /\ k <= n => f[k] = g[k]
<1>. DEFINE M == {k \in Nat : k <= m /\ k <= n => f[k] = g[k]}
<1>1. 0 \in M
  <2>1. f[0] = v /\ g[0] = v
    BY DEF EsSerie
  <2>. QED BY <2>1
<1>2. ASSUME NEW k \in M PROVE k + 1 \in M
  <2>1. SUFFICES ASSUME k + 1 <= m, k + 1 <= n PROVE f[k + 1] = g[k + 1]
    OBVIOUS
  <2>2. k <= m /\ k <= n /\ k + 1 # 0 /\ (k + 1) - 1 = k /\ k + 1 \in 0..m /\ k + 1 \in 0..n
    BY <2>1
  <2>3. f[k] = g[k]
    BY <2>2
  <2>4. f[k + 1] = Siguiente(p, f[k]) /\ g[k + 1] = Siguiente(p, g[k])
    BY <2>2 DEF EsSerie
  <2>. QED BY <2>3, <2>4
<1>3. M = Nat
  <2>. HIDE DEF M
  <2>1. M \in SUBSET Nat BY DEF M
  <2>. QED BY <1>1, <1>2, <2>1, Induccion
<1>. QED BY <1>3

\* There is one as far as any number.
LEMMA Parcial ==
    ASSUME NEW p, NEW v
    PROVE  \A n \in Nat : \E g : EsSerie(g, 0..n, p, v)
<1>. DEFINE M == {n \in Nat : \E g : EsSerie(g, 0..n, p, v)}
<1>1. 0 \in M
  <2>1. EsSerie([k \in 0..0 |-> v], 0..0, p, v)
    BY DEF EsSerie
  <2>. QED BY <2>1
<1>2. ASSUME NEW n \in M PROVE n + 1 \in M
  <2>1. PICK g : EsSerie(g, 0..n, p, v)
    OBVIOUS
  <2>. DEFINE h == [k \in 0..(n + 1) |-> IF k = n + 1 THEN Siguiente(p, g[n]) ELSE g[k]]
  <2>2. ASSUME NEW k \in 0..(n + 1)
        PROVE  h[k] = IF k = 0 THEN v ELSE Siguiente(p, h[k - 1])
    <3>1. CASE k = n + 1
      <4>1. k # 0 /\ k - 1 = n /\ n \in 0..(n + 1) /\ n # n + 1
        BY <3>1
      <4>. QED BY <3>1, <4>1
    <3>2. CASE k # n + 1 /\ k # 0
      <4>1. k \in 0..n /\ k - 1 \in 0..(n + 1) /\ k - 1 # n + 1
        BY <3>2
      <4>2. g[k] = Siguiente(p, g[k - 1])
        BY <2>1, <3>2, <4>1 DEF EsSerie
      <4>. QED BY <3>2, <4>1, <4>2
    <3>3. CASE k = 0
      <4>1. k # n + 1 /\ 0 \in 0..n
        BY <3>3
      <4>2. g[0] = v
        BY <2>1, <4>1 DEF EsSerie
      <4>. QED BY <3>3, <4>1, <4>2
    <3>. QED BY <3>1, <3>2, <3>3
  <2>3. h = [k \in 0..(n + 1) |-> IF k = 0 THEN v ELSE Siguiente(p, h[k - 1])]
    <3>. DEFINE w == [k \in 0..(n + 1) |-> IF k = 0 THEN v ELSE Siguiente(p, h[k - 1])]
    <3>1. h = [k \in 0..(n + 1) |-> h[k]]
      OBVIOUS
    <3>2. \A k \in 0..(n + 1) : h[k] = w[k]
      BY <2>2
    <3>. HIDE DEF h
    <3>. QED BY <3>1, <3>2
  <2>4. EsSerie(h, 0..(n + 1), p, v)
    BY <2>3 DEF EsSerie
  <2>. QED BY <2>4
<1>3. M = Nat
  <2>. HIDE DEF M
  <2>1. M \in SUBSET Nat BY DEF M
  <2>. QED BY <1>1, <1>2, <2>1, Induccion
<1>. QED BY <1>3

\* Of what those agree on there is one over all numbers.
THEOREM Existe ==
    ASSUME NEW p, NEW v
    PROVE  \E g : EsSerie(g, Nat, p, v)
<1>. DEFINE parte(n) == CHOOSE g : EsSerie(g, 0..n, p, v)
            h == [k \in Nat |-> parte(k)[k]]
<1>1. \A n \in Nat : EsSerie(parte(n), 0..n, p, v)
  BY Parcial
<1>2. ASSUME NEW k \in Nat
      PROVE  parte(k)[k] = IF k = 0 THEN v ELSE Siguiente(p, parte(k - 1)[k - 1])
  <2>1. EsSerie(parte(k), 0..k, p, v) /\ k \in 0..k
    BY <1>1
  <2>. HIDE DEF parte
  <2>2. parte(k)[k] = IF k = 0 THEN v ELSE Siguiente(p, parte(k)[k - 1])
    BY <2>1 DEF EsSerie
  <2>3. CASE k # 0
    <3>1. k - 1 \in Nat /\ k - 1 <= k /\ k - 1 <= k - 1
      BY <2>3
    <3>2. EsSerie(parte(k - 1), 0..(k - 1), p, v)
      BY <1>1, <3>1
    <3>3. parte(k)[k - 1] = parte(k - 1)[k - 1]
      BY <2>1, <3>1, <3>2, Unica
    <3>. QED BY <2>2, <2>3, <3>3
  <2>. QED BY <2>2, <2>3
<1>3. h = [k \in Nat |-> IF k = 0 THEN v ELSE Siguiente(p, h[k - 1])]
  <2>. HIDE DEF parte
  <2>1. \A k \in Nat : h[k] = IF k = 0 THEN v ELSE Siguiente(p, h[k - 1])
    <3>1. SUFFICES ASSUME NEW k \in Nat PROVE h[k] = IF k = 0 THEN v ELSE Siguiente(p, h[k - 1])
      OBVIOUS
    <3>2. k # 0 => k - 1 \in Nat
      OBVIOUS
    <3>. QED BY <1>2, <3>2
  <2>2. h = [k \in Nat |-> h[k]]
    OBVIOUS
  <2>. HIDE DEF h
  <2>. QED BY <2>1, <2>2
<1>. QED BY <1>3 DEF EsSerie
=============================================================================
