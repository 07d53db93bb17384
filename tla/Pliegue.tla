------------------------------ MODULE Pliegue ------------------------------
(***************************************************************************)
(* What a fold over a finite set keeps.  FoldSet is defined by a function  *)
(* that is recursive on the subsets; here it is shown that there is one,   *)
(* whatever the operator, and that what each step of the fold keeps, the   *)
(* fold keeps, in whatever order it takes the elements.                    *)
(***************************************************************************)
EXTENDS FiniteSetsExt, FiniteSetTheorems, WellFoundedInduction, TLAPS

CONSTANT Op(_, _, _)

\* The fold of Op with a parameter p.
Fold(p, base, S) == FoldSet(LAMBDA x, e : Op(p, x, e), base, S)

\* The fold of the subsets with one element more than those f folds.
Capa(q, f) == [s \in SUBSET q.S |-> IF s = {} THEN q.base
      ELSE Op(q.p, CHOOSE x \in s : TRUE, f[s \ {CHOOSE x \in s : TRUE}])]
R == INSTANCE Recursion WITH Siguiente <- Capa

\* "it" says what the fold of each subset is.
EsPliegue(it, p, base, S) ==
    it = [s \in SUBSET S |-> IF s = {} THEN base
                      ELSE Op(p, CHOOSE x \in s : TRUE, it[s \ {CHOOSE x \in s : TRUE}])]

\* Subsets of k elements are folded by the k-th layer, so such a function
\* exists, and FoldSet is one.
LEMMA Desplegado ==
    ASSUME NEW p, NEW base, NEW S, IsFiniteSet(S)
    PROVE  \E it : EsPliegue(it, p, base, S) /\ Fold(p, base, S) = it[S]
<1>. DEFINE Paso(s, v) == IF s = {} THEN base ELSE Op(p, CHOOSE x \in s : TRUE, v)
            F(it) == [s \in SUBSET S |-> IF s = {} THEN base
                      ELSE Op(p, CHOOSE x \in s : TRUE, it[s \ {CHOOSE x \in s : TRUE}])]
            q == [p |-> p, base |-> base, S |-> S]
<1>0. PICK h : R!EsSerie(h, Nat, q, [s \in SUBSET S |-> base])
  <2>. HIDE DEF q
  <2>. QED BY R!Existe
<1>1. h = [k \in Nat |-> IF k = 0 THEN [s \in SUBSET S |-> base] ELSE Capa(q, h[k - 1])]
  <2>. HIDE DEF q
  <2>. QED BY <1>0 DEF R!EsSerie
<1>. DEFINE g == [s \in SUBSET S |-> h[Cardinality(s)][s]]
<1>2. \A s \in SUBSET S : g[s] = IF s = {} THEN base ELSE Op(p, CHOOSE x \in s : TRUE, g[s \ {CHOOSE x \in s : TRUE}])
  <2>1. SUFFICES ASSUME NEW s \in SUBSET S
        PROVE g[s] = IF s = {} THEN base ELSE Op(p, CHOOSE x \in s : TRUE, g[s \ {CHOOSE x \in s : TRUE}])
    OBVIOUS
  <2>2. IsFiniteSet(s)
    BY FS_Subset
  <2>3. CASE s = {}
    <3>1. Cardinality(s) = 0
      BY <2>3, FS_EmptySet
    <3>2. h[0] = [t \in SUBSET S |-> base]
      BY <1>1
    <3>. QED BY <2>3, <3>1, <3>2
  <2>4. CASE s # {}
    <3>. DEFINE c == CHOOSE x \in s : TRUE
                t == s \ {c}
    <3>1. c \in s
      BY <2>4
    <3>. HIDE DEF c
    <3>2. Cardinality(t) = Cardinality(s) - 1 /\ Cardinality(s) \in Nat /\ Cardinality(s) # 0
      BY <2>2, <2>4, <3>1, FS_RemoveElement, FS_CardinalityType, FS_EmptySet
    <3>3. h[Cardinality(s)] = Capa(q, h[Cardinality(s) - 1])
      BY <1>1, <3>2
    <3>4. h[Cardinality(s)][s] = Op(p, c, h[Cardinality(s) - 1][t])
      BY <2>4, <3>3 DEF Capa, c
    <3>5. t \in SUBSET S /\ g[t] = h[Cardinality(s) - 1][t]
      BY <3>2
    <3>6. g[s] = Op(p, c, g[t])
      BY <3>4, <3>5
    <3>. QED BY <2>4, <3>6 DEF c
  <2>. QED BY <2>3, <2>4
<1>3. g = F(g)
  <2>1. g = [s \in SUBSET S |-> g[s]]
    OBVIOUS
  <2>. HIDE DEF g
  <2>. QED BY <1>2, <2>1
<1>. DEFINE it == CHOOSE f : f = F(f)
<1>4. it = F(it)
  <2>. HIDE DEF F, g
  <2>. QED BY <1>3
<1>5. Fold(p, base, S) = it[S]
  <2>. HIDE DEF F
  <2>. QED BY DEF F, Fold, FoldSet, MapThenFoldSet
<1>. QED
  <2>. HIDE DEF F
  <2>1. EsPliegue(it, p, base, S)
    BY <1>4 DEF EsPliegue, F
  <2>. QED BY <1>5, <2>1

\* I[T] holds of what is got from the elements of T: if it holds of the base
\* with none of them, and a step with one more element keeps it, it holds of
\* the fold with all of them.
THEOREM Invariante ==
    ASSUME NEW p, NEW base, NEW S, IsFiniteSet(S), NEW I, base \in I[{}],
           \A T \in SUBSET S : \A x \in S \ T : \A e \in I[T] : Op(p, x, e) \in I[T \cup {x}]
    PROVE  Fold(p, base, S) \in I[S]
<1>0. PICK it : EsPliegue(it, p, base, S) /\ Fold(p, base, S) = it[S]
  BY Desplegado
<1>1. /\ it = [s \in SUBSET S |-> IF s = {} THEN base
                      ELSE Op(p, CHOOSE x \in s : TRUE, it[s \ {CHOOSE x \in s : TRUE}])]
      /\ Fold(p, base, S) = it[S]
  BY <1>0 DEF EsPliegue
<1>2. SUFFICES ASSUME it[S] \notin I[S] PROVE FALSE
  BY <1>1
<1>. DEFINE Malos == {T \in SUBSET S : it[T] \notin I[T]}
            Orden == StrictSubsetOrdering(S)
<1>3. \E T \in Malos : \A U \in Malos : ~ (<<U, T>> \in Orden)
  <2>1. IsWellFoundedOn(Orden, FiniteSubsetsOf(S))
    BY FS_StrictSubsetOrderingWellFounded
  <2>2. Malos \subseteq FiniteSubsetsOf(S) /\ Malos # {}
    BY <1>2, FS_Subset DEF FiniteSubsetsOf
  <2>. HIDE DEF Malos, Orden
  <2>. QED BY <2>1, <2>2, WFMin
<1>4. PICK T \in Malos : \A U \in Malos : ~ (<<U, T>> \in Orden)
  BY <1>3
<1>5. T # {}
  BY <1>1
<1>. DEFINE c == CHOOSE x \in T : TRUE
<1>6. c \in T
  BY <1>5
<1>7. it[T] = Op(p, c, it[T \ {c}])
  BY <1>1, <1>5
<1>. HIDE DEF c
<1>8. T \ {c} \in SUBSET S /\ <<T \ {c}, T>> \in Orden
  BY <1>6 DEF StrictSubsetOrdering
<1>9. it[T \ {c}] \in I[T \ {c}]
  BY <1>4, <1>8
<1>10. c \in S \ (T \ {c}) /\ (T \ {c}) \cup {c} = T
  BY <1>6
<1>11. Op(p, c, it[T \ {c}]) \in I[(T \ {c}) \cup {c}]
  BY <1>8, <1>9, <1>10
<1>. QED BY <1>4, <1>7, <1>10, <1>11
=============================================================================
