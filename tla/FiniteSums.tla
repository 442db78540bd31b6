----------------------------- MODULE FiniteSums ------------------------------
(***************************************************************************)
(* Sums over finite sets: what SumFunctionOnSet of the community modules   *)
(* computes, whatever order its CHOOSE takes the elements in.              *)
(***************************************************************************)
EXTENDS Integers, FiniteSets, Functions, FiniteSetTheorems, WellFoundedInduction, TLAPS

\* The element a sum takes next
NextTerm(T) == CHOOSE x \in T : TRUE

\* The function g computes the sums of f over subsets of S
Computes(g, f, S) ==
    g = [T \in SUBSET S |-> IF T = {} THEN 0 ELSE f[NextTerm(T)] + g[T \ {NextTerm(T)}]]

(* A sum is what such a function computes, if there is one. *)
LEMMA SumIsComputed ==
    ASSUME NEW f, NEW S, NEW g, Computes(g, f, S)
    PROVE  \E h : Computes(h, f, S) /\ SumFunctionOnSet(f, S) = h[S]
<1>1. SumFunctionOnSet(f, S) =
        (CHOOSE h : h = [T \in SUBSET S |->
             IF T = {} THEN 0
             ELSE f[CHOOSE x \in T : TRUE] + h[T \ {CHOOSE x \in T : TRUE}]])[S]
  BY Zenon DEF SumFunctionOnSet, FoldFunctionOnSet, MapThenFoldSet
<1>2. PICK h : h = CHOOSE k : Computes(k, f, S)
  OBVIOUS
<1>3. Computes(h, f, S)
  BY <1>2, Zenon
<1>4. SumFunctionOnSet(f, S) = h[S]
  BY <1>1, <1>2, Zenon DEF Computes, NextTerm
<1> QED
  BY <1>3, <1>4

(* A finite set of numbers has a least one. *)
LEMMA LeastNumber ==
    ASSUME NEW N \in Nat, NEW B \in SUBSET (0..N), B # {}
    PROVE  \E l \in B : \A x \in B : l <= x
<1>1. IsWellFoundedOn(StrictSubsetOrdering(0..N), SUBSET (0..N))
  <2>1. 0 \in Int /\ N \in Int
    OBVIOUS
  <2>2. IsFiniteSet(0..N)
    BY <2>1, FS_Interval, Zenon
  <2>3. FiniteSubsetsOf(0..N) = SUBSET (0..N)
    BY <2>2, FS_FiniteSubsetsOfFinite, Zenon
  <2>4. IsWellFoundedOn(StrictSubsetOrdering(0..N), FiniteSubsetsOf(0..N))
    BY FS_StrictSubsetOrderingWellFounded, Zenon
  <2> QED
    BY <2>3, <2>4, Zenon
<1>2. PICK T : T = {0..x : x \in B}
  OBVIOUS
<1>3. T \subseteq SUBSET (0..N) /\ T # {}
  <2>1. \A x \in B : 0..x \subseteq 0..N
    OBVIOUS
  <2> QED
    BY <1>2, <2>1, Zenon
<1>4. PICK A \in T : \A C \in T : ~(<<C, A>> \in StrictSubsetOrdering(0..N))
  BY <1>1, <1>3, WFMin
<1>5. PICK l \in B : A = 0..l
  BY <1>2
<1>6. ASSUME NEW x \in B PROVE l <= x
  <2>1. (0..x) \in T
    BY <1>2
  <2>2. ~(<<0..x, 0..l>> \in StrictSubsetOrdering(0..N))
    BY <1>4, <1>5, <2>1
  <2>3. ~(0..x \subseteq 0..l /\ 0..x # 0..l)
    BY <2>2, <1>3, <1>5, <2>1 DEF StrictSubsetOrdering
  <2>4. x \in Nat /\ l \in Nat
    OBVIOUS
  <2>5. CASE x < l
    <3>1. l \in 0..l /\ l \notin 0..x
      BY <2>4, <2>5
    <3>2. 0..x \subseteq 0..l
      BY <2>4, <2>5
    <3> QED
      BY <2>3, <3>1, <3>2
  <2> QED
    BY <2>4, <2>5
<1> QED
  BY <1>6

(* A subset loses one element with the element a sum takes next. *)
LEMMA NextRemoved ==
    ASSUME NEW S, IsFiniteSet(S), NEW T \in SUBSET S, T # {}
    PROVE  /\ NextTerm(T) \in T /\ T \ {NextTerm(T)} \in SUBSET S
           /\ Cardinality(T) \in Nat /\ Cardinality(T) > 0
           /\ Cardinality(T \ {NextTerm(T)}) = Cardinality(T) - 1
<1>1. NextTerm(T) \in T
  BY DEF NextTerm
<1>2. IsFiniteSet(T)
  BY FS_Subset
<1>3. Cardinality(T) \in Nat /\ Cardinality(T) # 0
  BY <1>2, FS_CardinalityType, FS_EmptySet
<1>4. Cardinality(T \ {NextTerm(T)}) = Cardinality(T) - 1
  BY <1>1, <1>2, FS_RemoveElement
<1> QED
  BY <1>1, <1>3, <1>4

(* There is a function that computes the sums over the subsets of a finite set: *)
(* one that does so up to any size is extended to the next.                     *)
LEMMA SumsExist ==
    ASSUME NEW f, NEW S, IsFiniteSet(S)
    PROVE  \E g : Computes(g, f, S)
<1> DEFINE
      Term(g, T) == IF T = {} THEN 0 ELSE f[NextTerm(T)] + g[T \ {NextTerm(T)}]
      Upto(n, g) == \A T \in SUBSET S : Cardinality(T) <= n => g[T] = Term(g, T)
      N == Cardinality(S)
      Bad == {n \in 0..N : ~ \E g : Upto(n, g)}
<1>1. N \in Nat /\ \A T \in SUBSET S : /\ IsFiniteSet(T) /\ Cardinality(T) \in Nat
                                       /\ Cardinality(T) <= N /\ (Cardinality(T) = 0 <=> T = {})
  BY FS_Subset, FS_CardinalityType, FS_EmptySet
<1>2. ASSUME Bad # {} PROVE FALSE
  <2>1. PICK l \in Bad : \A x \in Bad : l <= x
    <3> HIDE DEF Upto, N
    <3> QED
      BY <1>1, <1>2, LeastNumber
  <2>2. l # 0
    <3>1. PICK g : g = [T \in SUBSET S |-> 0]
      OBVIOUS
    <3>2. Upto(0, g)
      <4> SUFFICES ASSUME NEW T \in SUBSET S, Cardinality(T) <= 0 PROVE g[T] = Term(g, T)
        OBVIOUS
      <4>1. T = {}
        BY <1>1
      <4> QED
        BY <3>1, <4>1
    <3> HIDE DEF Upto
    <3> QED
      BY <3>2
  <2>3. l \in Nat /\ l - 1 \in 0..N /\ l - 1 \notin Bad
    <3> HIDE DEF Upto, N
    <3> QED
      BY <1>1, <2>1, <2>2
  <2>4. PICK g : Upto(l - 1, g)
    <3> HIDE DEF Upto
    <3> QED
      BY <2>3
  <2>5. PICK h : h = [T \in SUBSET S |-> IF Cardinality(T) <= l - 1 THEN g[T] ELSE Term(g, T)]
    OBVIOUS
  <2>6. Upto(l, h)
    <3> SUFFICES ASSUME NEW T \in SUBSET S, Cardinality(T) <= l PROVE h[T] = Term(h, T)
      OBVIOUS
    <3>1. h[T] = Term(g, T)
      <4>1. CASE Cardinality(T) <= l - 1
        BY <2>4, <2>5, <4>1
      <4>2. CASE ~(Cardinality(T) <= l - 1)
        <5> HIDE DEF Term
        <5> QED
          BY <2>5, <4>2
      <4> QED
        BY <4>1, <4>2
    <3>2. CASE T = {}
      BY <3>1, <3>2
    <3>3. CASE T # {}
      <4>1. PICK U \in SUBSET S : U = T \ {NextTerm(T)}
        BY <3>3, NextRemoved
      <4>2. Cardinality(U) = Cardinality(T) - 1
        BY <3>3, <4>1, NextRemoved
      <4>3. Cardinality(U) <= l - 1
        BY <1>1, <2>3, <4>2
      <4>4. h[U] = g[U]
        BY <2>5, <4>3
      <4> QED
        BY <3>1, <3>3, <4>1, <4>4
    <3> QED
      BY <3>2, <3>3
  <2> HIDE DEF Upto
  <2> QED
    BY <2>1, <2>6
<1>3. PICK g : Upto(N, g)
  <2>1. N \in 0..N /\ N \notin Bad
    <3> HIDE DEF Bad, N
    <3> QED
      BY <1>1, <1>2
  <2> HIDE DEF Upto, N
  <2> QED
    BY <2>1
<1>4. \A T \in SUBSET S : g[T] = Term(g, T)
  BY <1>1, <1>3
<1>5. PICK h : h = [T \in SUBSET S |-> g[T]]
  OBVIOUS
<1>6. \A T \in SUBSET S : h[T] = Term(h, T)
  <2> TAKE T \in SUBSET S
  <2>1. h[T] = Term(g, T)
    BY <1>4, <1>5
  <2>2. CASE T # {}
    <3>1. PICK U \in SUBSET S : U = T \ {NextTerm(T)}
      BY <2>2, NextRemoved
    <3>2. h[U] = g[U]
      BY <1>5
    <3> QED
      BY <2>1, <2>2, <3>1, <3>2
  <2> QED
    BY <2>1, <2>2
<1>7. h = [T \in SUBSET S |-> Term(h, T)]
  <2> HIDE DEF Term
  <2> QED
    BY <1>5, <1>6
<1> QED
  BY <1>7 DEF Computes

(* Such functions agree where both say something. *)
LEMMA SumsAgree ==
    ASSUME NEW f, NEW S, IsFiniteSet(S), NEW R \in SUBSET S,
           NEW g, Computes(g, f, S), NEW h, Computes(h, f, R)
    PROVE  \A T \in SUBSET R : g[T] = h[T]
<1> DEFINE Bad == {T \in SUBSET R : g[T] # h[T]}
<1>1. IsFiniteSet(R)
  BY FS_Subset
<1>2. IsWellFoundedOn(StrictSubsetOrdering(R), SUBSET R)
  BY <1>1, FS_StrictSubsetOrderingWellFounded, FS_FiniteSubsetsOfFinite
<1>3. SUFFICES ASSUME Bad # {} PROVE FALSE
  OBVIOUS
<1>4. PICK T \in Bad : \A U \in Bad : ~(<<U, T>> \in StrictSubsetOrdering(R))
  <2> HIDE DEF Bad
  <2>1. Bad \subseteq SUBSET R
    BY DEF Bad
  <2> QED
    BY <1>2, <1>3, <2>1, WFMin
<1>5. T # {}
  <2>1. g[{}] = 0 /\ h[{}] = 0
    BY DEF Computes
  <2>2. g[T] # h[T]
    OBVIOUS
  <2> QED
    BY <2>1, <2>2, Zenon
<1>6. PICK U \in SUBSET R : U = T \ {NextTerm(T)} /\ NextTerm(T) \in T
  <2>1. T \in SUBSET R
    OBVIOUS
  <2>2. NextTerm(T) \in T /\ T \ {NextTerm(T)} \in SUBSET R
    BY <1>1, <1>5, <2>1, NextRemoved
  <2> QED
    BY <2>2
<1>7. g[T] = f[NextTerm(T)] + g[U] /\ h[T] = f[NextTerm(T)] + h[U]
  BY <1>5, <1>6 DEF Computes
<1>8. g[U] # h[U]
  BY <1>7
<1>9. <<U, T>> \in StrictSubsetOrdering(R)
  BY <1>6 DEF StrictSubsetOrdering
<1> QED
  BY <1>4, <1>8, <1>9

(* A sum is 0, or one term and the sum of the rest. *)
LEMMA SumStep ==
    ASSUME NEW f, NEW S, IsFiniteSet(S)
    PROVE  SumFunctionOnSet(f, S) =
             IF S = {} THEN 0 ELSE f[NextTerm(S)] + SumFunctionOnSet(f, S \ {NextTerm(S)})
<1>1. PICK g : Computes(g, f, S) /\ SumFunctionOnSet(f, S) = g[S]
  BY SumsExist, SumIsComputed
<1>2. CASE S = {}
  BY <1>1, <1>2 DEF Computes
<1>3. CASE S # {}
  <2>1. PICK R \in SUBSET S : R = S \ {NextTerm(S)}
    OBVIOUS
  <2>2. IsFiniteSet(R)
    BY FS_Subset
  <2>3. PICK h : Computes(h, f, R) /\ SumFunctionOnSet(f, R) = h[R]
    BY <2>2, SumsExist, SumIsComputed
  <2>4. g[R] = h[R]
    BY <1>1, <2>3, SumsAgree
  <2>5. g[S] = f[NextTerm(S)] + g[R]
    BY <1>1, <1>3, <2>1 DEF Computes
  <2> QED
    BY <1>1, <1>3, <2>1, <2>3, <2>4, <2>5
<1> QED
  BY <1>2, <1>3

(* A sum of integers is an integer, of natural numbers a natural number, and *)
(* of zeros zero.                                                            *)
LEMMA SumType ==
    ASSUME NEW f, NEW S, IsFiniteSet(S)
    PROVE  /\ (\A x \in S : f[x] \in Int) => SumFunctionOnSet(f, S) \in Int
           /\ (\A x \in S : f[x] \in Nat) => SumFunctionOnSet(f, S) \in Nat
           /\ (\A x \in S : f[x] = 0) => SumFunctionOnSet(f, S) = 0
<1>1. ASSUME NEW K \in {Int, Nat, {0}}, \A x \in S : f[x] \in K
      PROVE  SumFunctionOnSet(f, S) \in K
  <2> DEFINE Bad == {T \in SUBSET S : SumFunctionOnSet(f, T) \notin K}
  <2>1. IsWellFoundedOn(StrictSubsetOrdering(S), SUBSET S)
    BY FS_StrictSubsetOrderingWellFounded, FS_FiniteSubsetsOfFinite
  <2>2. SUFFICES ASSUME Bad # {} PROVE FALSE
    OBVIOUS
  <2>3. PICK T \in Bad : \A U \in Bad : ~(<<U, T>> \in StrictSubsetOrdering(S))
    <3>1. Bad \subseteq SUBSET S
      OBVIOUS
    <3> HIDE DEF Bad
    <3> QED
      BY <2>1, <2>2, <3>1, WFMin
  <2>4. IsFiniteSet(T)
    BY FS_Subset
  <2>5. T # {}
    <3>1. SumFunctionOnSet(f, {}) = 0
      BY SumStep, FS_EmptySet
    <3>2. 0 \in K
      OBVIOUS
    <3>3. SumFunctionOnSet(f, T) \notin K
      BY <2>3
    <3> QED
      BY <3>1, <3>2, <3>3, Zenon
  <2>6. PICK U \in SUBSET S : U = T \ {NextTerm(T)} /\ NextTerm(T) \in T
    <3>1. T \in SUBSET S
      OBVIOUS
    <3>2. NextTerm(T) \in T /\ T \ {NextTerm(T)} \in SUBSET S
      BY <2>5, <3>1, NextRemoved
    <3> QED
      BY <3>2
  <2>7. SumFunctionOnSet(f, T) = f[NextTerm(T)] + SumFunctionOnSet(f, U)
    BY <2>4, <2>5, <2>6, SumStep
  <2>8. <<U, T>> \in StrictSubsetOrdering(S)
    BY <2>6 DEF StrictSubsetOrdering
  <2>9. SumFunctionOnSet(f, U) \in K /\ f[NextTerm(T)] \in K
    BY <1>1, <2>3, <2>6, <2>8
  <2> QED
    BY <2>3, <2>7, <2>9
<1> QED
  BY <1>1

(* The order does not matter: any term may be taken out. *)
LEMMA SumTakeOut ==
    ASSUME NEW f, NEW S, IsFiniteSet(S), \A x \in S : f[x] \in Int, NEW s \in S
    PROVE  SumFunctionOnSet(f, S) = f[s] + SumFunctionOnSet(f, S \ {s})
<1> DEFINE Bad == {T \in SUBSET S :
                     \E x \in T : SumFunctionOnSet(f, T) # f[x] + SumFunctionOnSet(f, T \ {x})}
<1>1. IsWellFoundedOn(StrictSubsetOrdering(S), SUBSET S)
  BY FS_StrictSubsetOrderingWellFounded, FS_FiniteSubsetsOfFinite
<1>2. SUFFICES ASSUME Bad # {} PROVE FALSE
  OBVIOUS
<1>3. PICK T \in Bad : \A U \in Bad : ~(<<U, T>> \in StrictSubsetOrdering(S))
  <2>1. Bad \subseteq SUBSET S
    OBVIOUS
  <2> HIDE DEF Bad
  <2> QED
    BY <1>1, <1>2, <2>1, WFMin
<1>4. PICK x \in T : SumFunctionOnSet(f, T) # f[x] + SumFunctionOnSet(f, T \ {x})
  OBVIOUS
<1>5. IsFiniteSet(T) /\ T # {}
  BY <1>4, FS_Subset
<1>6. PICK n \in T : n = NextTerm(T)
  BY <1>5, NextRemoved
<1>7. PICK U \in SUBSET S, W \in SUBSET S, V \in SUBSET S :
        U = T \ {n} /\ W = T \ {x} /\ V = T \ {n, x}
  OBVIOUS
<1>8. IsFiniteSet(U) /\ IsFiniteSet(W) /\ IsFiniteSet(V)
  BY FS_Subset
<1>9. SumFunctionOnSet(f, T) = f[n] + SumFunctionOnSet(f, U)
  BY <1>5, <1>6, <1>7, SumStep
<1>10. n # x
  BY <1>4, <1>7, <1>9
<1>11. U \notin Bad /\ W \notin Bad
  BY <1>3, <1>4, <1>7 DEF StrictSubsetOrdering
<1>12. SumFunctionOnSet(f, U) = f[x] + SumFunctionOnSet(f, V)
  <2>1. x \in U /\ U \ {x} = V
    BY <1>7, <1>10
  <2> QED
    BY <1>11, <2>1
<1>13. SumFunctionOnSet(f, W) = f[n] + SumFunctionOnSet(f, V)
  <2>1. n \in W /\ W \ {n} = V
    BY <1>7, <1>10
  <2> QED
    BY <1>11, <2>1
<1>14. f[n] \in Int /\ f[x] \in Int /\ SumFunctionOnSet(f, V) \in Int
  BY <1>8, SumType
<1> HIDE DEF Bad
<1> QED
  BY <1>4, <1>7, <1>9, <1>12, <1>13, <1>14

(* The sum over one element more. *)
LEMMA SumOneMore ==
    ASSUME NEW f, NEW S, IsFiniteSet(S), NEW s, s \notin S, \A x \in S \cup {s} : f[x] \in Int
    PROVE  SumFunctionOnSet(f, S \cup {s}) = f[s] + SumFunctionOnSet(f, S)
<1>1. PICK T : T = S \cup {s}
  OBVIOUS
<1>2. s \in T /\ T \ {s} = S
  BY <1>1
<1>3. IsFiniteSet(T)
  BY <1>1, FS_AddElement
<1> QED
  BY <1>1, <1>2, <1>3, SumTakeOut

(* The sum over one element. *)
LEMMA SumOfOne ==
    ASSUME NEW f, NEW s, f[s] \in Int
    PROVE  SumFunctionOnSet(f, {s}) = f[s]
<1>1. SumFunctionOnSet(f, {}) = 0
  BY FS_EmptySet, SumStep
<1>2. SumFunctionOnSet(f, {} \cup {s}) = f[s] + SumFunctionOnSet(f, {})
  BY FS_EmptySet, SumOneMore
<1> QED
  BY <1>1, <1>2

(* A sum depends on the terms it adds up, and on nothing else of the function. *)
LEMMA SumSame ==
    ASSUME NEW f, NEW g, NEW S, IsFiniteSet(S), \A x \in S : f[x] = g[x]
    PROVE  SumFunctionOnSet(f, S) = SumFunctionOnSet(g, S)
<1> DEFINE Bad == {T \in SUBSET S : SumFunctionOnSet(f, T) # SumFunctionOnSet(g, T)}
<1>1. IsWellFoundedOn(StrictSubsetOrdering(S), SUBSET S)
  BY FS_StrictSubsetOrderingWellFounded, FS_FiniteSubsetsOfFinite
<1>2. SUFFICES ASSUME Bad # {} PROVE FALSE
  OBVIOUS
<1>3. PICK T \in Bad : \A U \in Bad : ~(<<U, T>> \in StrictSubsetOrdering(S))
  <2>1. Bad \subseteq SUBSET S
    OBVIOUS
  <2> HIDE DEF Bad
  <2> QED
    BY <1>1, <1>2, <2>1, WFMin
<1>4. IsFiniteSet(T)
  BY FS_Subset
<1>5. T # {}
  <2>1. SumFunctionOnSet(f, {}) = 0 /\ SumFunctionOnSet(g, {}) = 0
    BY SumStep, FS_EmptySet
  <2> QED
    BY <1>3, <2>1
<1>6. PICK U \in SUBSET S : U = T \ {NextTerm(T)} /\ NextTerm(T) \in T
  <2>1. T \in SUBSET S
    OBVIOUS
  <2>2. NextTerm(T) \in T /\ T \ {NextTerm(T)} \in SUBSET S
    BY <1>5, <2>1, NextRemoved
  <2> QED
    BY <2>2
<1>7. /\ SumFunctionOnSet(f, T) = f[NextTerm(T)] + SumFunctionOnSet(f, U)
      /\ SumFunctionOnSet(g, T) = g[NextTerm(T)] + SumFunctionOnSet(g, U)
  BY <1>4, <1>5, <1>6, SumStep
<1>8. U \notin Bad
  BY <1>3, <1>6 DEF StrictSubsetOrdering
<1> QED
  BY <1>6, <1>7, <1>8

(* One term changes, and the sum by as much. *)
LEMMA SumOneChanged ==
    ASSUME NEW f, NEW g, NEW S, IsFiniteSet(S), \A x \in S : f[x] \in Int /\ g[x] \in Int,
           NEW s \in S, \A x \in S : x = s \/ g[x] = f[x]
    PROVE  SumFunctionOnSet(g, S) = SumFunctionOnSet(f, S) - f[s] + g[s]
<1>1. PICK R \in SUBSET S : R = S \ {s}
  OBVIOUS
<1>2. IsFiniteSet(R) /\ SumFunctionOnSet(f, R) \in Int
  BY <1>1, FS_Subset, SumType
<1>3. SumFunctionOnSet(f, R) = SumFunctionOnSet(g, R)
  BY <1>1, <1>2, SumSame
<1>4. /\ SumFunctionOnSet(f, S) = f[s] + SumFunctionOnSet(f, R)
      /\ SumFunctionOnSet(g, S) = g[s] + SumFunctionOnSet(g, R)
  BY <1>1, SumTakeOut
<1>5. f[s] \in Int /\ g[s] \in Int
  OBVIOUS
<1> QED
  BY <1>2, <1>3, <1>4, <1>5

(* Two terms change.                                                         *)
LEMMA SumTwoChanged ==
    ASSUME NEW f, NEW g, NEW S, IsFiniteSet(S), \A x \in S : f[x] \in Int /\ g[x] \in Int,
           NEW s \in S, NEW t \in S, s # t, \A x \in S : x = s \/ x = t \/ g[x] = f[x]
    PROVE  SumFunctionOnSet(g, S) = SumFunctionOnSet(f, S) - f[s] - f[t] + g[s] + g[t]
<1>1. PICK h : h = [x \in S |-> IF x = t THEN f[x] ELSE g[x]]
  OBVIOUS
<1>2. /\ \A x \in S : h[x] \in Int /\ h[x] = IF x = t THEN f[x] ELSE g[x]
      /\ h[s] = g[s] /\ h[t] = f[t]
  BY <1>1
<1>3. (\A x \in S : x = s \/ h[x] = f[x]) /\ (\A x \in S : x = t \/ g[x] = h[x])
  BY <1>2
<1>4. SumFunctionOnSet(h, S) = SumFunctionOnSet(f, S) - f[s] + h[s]
  BY <1>2, <1>3, SumOneChanged
<1>5. SumFunctionOnSet(g, S) = SumFunctionOnSet(h, S) - h[t] + g[t]
  BY <1>2, <1>3, SumOneChanged
<1>6. SumFunctionOnSet(f, S) \in Int /\ f[s] \in Int /\ f[t] \in Int /\ g[s] \in Int /\ g[t] \in Int
  BY SumType
<1> QED
  BY <1>2, <1>4, <1>5, <1>6

(* No term is more than the sum. *)
LEMMA SumCovers ==
    ASSUME NEW f, NEW S, IsFiniteSet(S), \A x \in S : f[x] \in Nat, NEW s \in S
    PROVE  f[s] <= SumFunctionOnSet(f, S)
<1>1. PICK R \in SUBSET S : R = S \ {s}
  OBVIOUS
<1>2. SumFunctionOnSet(f, R) \in Nat
  BY <1>1, FS_Subset, SumType
<1>3. SumFunctionOnSet(f, S) = f[s] + SumFunctionOnSet(f, R)
  BY <1>1, SumTakeOut
<1>4. f[s] \in Nat
  OBVIOUS
<1> QED
  BY <1>2, <1>3, <1>4
=============================================================================
