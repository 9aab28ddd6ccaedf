------------------------------ MODULE FoldLemmas ---------------------------
(***************************************************************************)
(* What the folds of the community modules compute.  A fold is defined by  *)
(* recursion over its data and is taken here as the function that          *)
(* recursion defines: over a finite set, a sum, which does not depend on   *)
(* the order in which the elements are met; over a sequence, the filter    *)
(* that keeps the elements of a set, in their order.  Where a proof would  *)
(* go by induction it takes the smallest set, or the smallest number, at   *)
(* which its claim fails.                                                  *)
(***************************************************************************)
EXTENDS Integers, SequencesExt, FiniteSetTheorems, WellFoundedInduction, TLAPS

Pick(T) == CHOOSE x \in T : TRUE

\* I is the function that adds up f over every subset of S.
Sums(I, f, S) ==
  I = [T \in SUBSET S |-> IF T = {} THEN 0 ELSE f[Pick(T)] + I[T \ {Pick(T)}]]

\* The sum of f over S.
Sum(f, S) == (CHOOSE I : Sums(I, f, S))[S]

\* Every set of finite sets has a smallest one.
LEMMA Smallest ==
  ASSUME NEW S, IsFiniteSet(S), NEW C \in SUBSET (SUBSET S), C # {}
  PROVE  \E T \in C : \A U \in C : ~(U \subseteq T /\ U # T)
<1>1. IsWellFoundedOn(StrictSubsetOrdering(S), FiniteSubsetsOf(S))
  BY FS_StrictSubsetOrderingWellFounded
<1>2. C \subseteq FiniteSubsetsOf(S)
  BY FS_Subset DEF FiniteSubsetsOf
<1>3. PICK T \in C : \A U \in C : ~(<<U, T>> \in StrictSubsetOrdering(S))
  BY <1>1, <1>2, WFMin
<1>4. ASSUME NEW U \in C, U \subseteq T, U # T
      PROVE  <<U, T>> \in StrictSubsetOrdering(S)
  <2>1. U \in SUBSET S /\ T \in SUBSET S
    OBVIOUS
  <2> QED
    BY <1>4, <2>1 DEF StrictSubsetOrdering
<1>5. ASSUME NEW U \in C PROVE ~(U \subseteq T /\ U # T)
  BY <1>3, <1>4
<1> QED
  BY <1>5

LEMMA PickIn == \A T : T # {} => Pick(T) \in T
BY DEF Pick

LEMMA SumsUnique ==
  ASSUME NEW S, IsFiniteSet(S), NEW f, NEW I, NEW J, Sums(I, f, S), Sums(J, f, S)
  PROVE  I = J
<1>1. /\ I = [T \in SUBSET S |-> IF T = {} THEN 0 ELSE f[Pick(T)] + I[T \ {Pick(T)}]]
      /\ J = [T \in SUBSET S |-> IF T = {} THEN 0 ELSE f[Pick(T)] + J[T \ {Pick(T)}]]
  BY DEF Sums
<1> DEFINE C == {T \in SUBSET S : I[T] # J[T]}
<1>2. CASE C = {}
  <2>1. \A T \in SUBSET S : I[T] = J[T]
    BY <1>2
  <2> DEFINE e(K, T) == IF T = {} THEN 0 ELSE f[Pick(T)] + K[T \ {Pick(T)}]
  <2>2. \A T \in SUBSET S : e(I, T) = e(J, T)
    <3>1. \A T \in SUBSET S : I[T] = e(I, T) /\ J[T] = e(J, T)
      BY <1>1
    <3> HIDE DEF e
    <3> QED
      BY <2>1, <3>1
  <2>3. I = [T \in SUBSET S |-> e(I, T)] /\ J = [T \in SUBSET S |-> e(J, T)]
    BY <1>1, Zenon
  <2> HIDE DEF e
  <2>4. [T \in SUBSET S |-> e(I, T)] = [T \in SUBSET S |-> e(J, T)]
    BY <2>2
  <2> QED
    BY <2>3, <2>4, Zenon
<1>3. CASE C # {}
  <2>1. PICK T \in C : \A U \in C : ~(U \subseteq T /\ U # T)
    <3>1. C \in SUBSET (SUBSET S)
      OBVIOUS
    <3> HIDE DEF C
    <3> QED
      BY <1>3, <3>1, Smallest
  <2>2. /\ I[T] = IF T = {} THEN 0 ELSE f[Pick(T)] + I[T \ {Pick(T)}]
        /\ J[T] = IF T = {} THEN 0 ELSE f[Pick(T)] + J[T \ {Pick(T)}]
    BY <1>1
  <2>3. T # {} /\ I[T] # J[T]
    BY <2>2
  <2>4. T \ {Pick(T)} \in SUBSET S /\ T \ {Pick(T)} # T
    BY <2>3, PickIn
  <2>5. T \ {Pick(T)} \notin C
    BY <2>1, <2>4
  <2> QED
    BY <2>2, <2>3, <2>4, <2>5
<1> QED
  BY <1>2, <1>3

\* What adds up over a set adds up over the sets in it.
LEMMA SumsRestrict ==
  ASSUME NEW S, NEW f, NEW I, Sums(I, f, S), NEW T \in SUBSET S
  PROVE  Sums([U \in SUBSET T |-> I[U]], f, T)
<1> DEFINE R == [U \in SUBSET T |-> I[U]]
<1>1. ASSUME NEW U \in SUBSET T
      PROVE  R[U] = IF U = {} THEN 0 ELSE f[Pick(U)] + R[U \ {Pick(U)}]
  <2>1. U \in SUBSET S /\ U \ {Pick(U)} \in SUBSET T
    OBVIOUS
  <2>2. I[U] = IF U = {} THEN 0 ELSE f[Pick(U)] + I[U \ {Pick(U)}]
    BY <2>1 DEF Sums
  <2> QED
    BY <2>1, <2>2
<1>2. R = [U \in SUBSET T |-> R[U]]
  OBVIOUS
<1> HIDE DEF R
<1>3. R = [U \in SUBSET T |-> IF U = {} THEN 0 ELSE f[Pick(U)] + R[U \ {Pick(U)}]]
  BY <1>1, <1>2, Zenon
<1>4. Sums(R, f, T)
  BY <1>3 DEF Sums
<1> QED
  BY <1>4 DEF R

LEMMA SumsExist ==
  ASSUME NEW S, IsFiniteSet(S), NEW f
  PROVE  \E I : Sums(I, f, S)
<1> SUFFICES ASSUME ~\E I : Sums(I, f, S)
             PROVE  FALSE
  OBVIOUS
<1> DEFINE C == {T \in SUBSET S : ~\E I : Sums(I, f, T)}
<1>1. PICK T \in C : \A U \in C : ~(U \subseteq T /\ U # T)
  <2>1. C \in SUBSET (SUBSET S)
    OBVIOUS
  <2>2. S \in C
    OBVIOUS
  <2>3. C # {}
    BY <2>2
  <2> HIDE DEF C
  <2> QED
    BY <2>1, <2>3, Smallest
<1>2. T \in SUBSET S /\ ~\E I : Sums(I, f, T)
  BY <1>1
<1>3. IsFiniteSet(T) /\ \A U \in SUBSET T : IsFiniteSet(U)
  BY <1>2, FS_Subset
<1>4. ASSUME NEW U \in SUBSET T, U # T PROVE \E I : Sums(I, f, U)
  BY <1>1, <1>2, <1>4
<1> DEFINE Of(U) == CHOOSE I : Sums(I, f, U)
           I == [U \in SUBSET T |->
                  IF U = T THEN IF T = {} THEN 0
                                ELSE f[Pick(T)] + Of(T \ {Pick(T)})[T \ {Pick(T)}]
                  ELSE Of(U)[U]]
<1>5. ASSUME NEW U \in SUBSET T, U # T PROVE Sums(Of(U), f, U)
  BY <1>4, <1>5
<1>6. ASSUME NEW U \in SUBSET T, U # T, U # {}
      PROVE  Of(U)[U] = f[Pick(U)] + Of(U \ {Pick(U)})[U \ {Pick(U)}]
  <2> DEFINE V == U \ {Pick(U)}
  <2>1. Sums(Of(U), f, U)
    BY <1>5, <1>6
  <2>2. V \in SUBSET U /\ V \in SUBSET T /\ V # T
    BY <1>6
  <2>3. Sums(Of(V), f, V)
    BY <1>5, <2>2
  <2> HIDE DEF Of
  <2>4. Of(U)[U] = f[Pick(U)] + Of(U)[V]
    <3>1. U \in SUBSET U
      OBVIOUS
    <3> QED
      BY <1>6, <2>1, <3>1 DEF Sums
  <2>5. Of(U)[V] = Of(V)[V]
    <3> DEFINE R == [W \in SUBSET V |-> Of(U)[W]]
    <3>1. Sums(R, f, V)
      BY <2>1, <2>2, SumsRestrict
    <3>2. R = Of(V)
      <4> HIDE DEF R
      <4> QED
        BY <1>3, <2>2, <2>3, <3>1, SumsUnique
    <3>3. R[V] = Of(U)[V]
      OBVIOUS
    <3> QED
      BY <3>2, <3>3
  <2> QED
    BY <2>4, <2>5
<1>7. ASSUME NEW U \in SUBSET T, U # T, U = {} PROVE Of(U)[U] = 0
  <2>1. Sums(Of(U), f, U)
    BY <1>5, <1>7
  <2> HIDE DEF Of
  <2> QED
    BY <1>7, <2>1 DEF Sums
<1>8. ASSUME NEW U \in SUBSET T
      PROVE  I[U] = IF U = {} THEN 0 ELSE f[Pick(U)] + I[U \ {Pick(U)}]
  <2> HIDE DEF Of
  <2>1. CASE U = {}
    BY <1>7, <2>1
  <2>2. CASE U # {}
    <3>1. Pick(U) \in U /\ U \ {Pick(U)} \in SUBSET T /\ U \ {Pick(U)} # T
      BY <2>2, PickIn
    <3>2. I[U \ {Pick(U)}] = Of(U \ {Pick(U)})[U \ {Pick(U)}]
      BY <3>1
    <3>3. I[U] = f[Pick(U)] + Of(U \ {Pick(U)})[U \ {Pick(U)}]
      <4>1. CASE U = T
        BY <2>2, <4>1
      <4>2. CASE U # T
        BY <1>6, <2>2, <4>2
      <4> QED
        BY <4>1, <4>2
    <3> QED
      BY <2>2, <3>2, <3>3
  <2> QED
    BY <2>1, <2>2
<1>9. I = [U \in SUBSET T |-> I[U]]
  OBVIOUS
<1> HIDE DEF I
<1>10. I = [U \in SUBSET T |-> IF U = {} THEN 0 ELSE f[Pick(U)] + I[U \ {Pick(U)}]]
  BY <1>8, <1>9, Zenon
<1> QED
  BY <1>2, <1>10 DEF Sums

-----------------------------------------------------------------------------

\* Induction over the subsets of S, with the set B of those that fail.
LEMMA NoneFails ==
  ASSUME NEW S, IsFiniteSet(S), NEW B \in SUBSET (SUBSET S),
         \A T \in SUBSET S : (\A U \in SUBSET T : U # T => U \notin B) => T \notin B
  PROVE  B = {}
<1> SUFFICES ASSUME B # {} PROVE FALSE
  OBVIOUS
<1>1. PICK T \in B : \A U \in B : ~(U \subseteq T /\ U # T)
  BY Smallest
<1>2. T \in SUBSET S /\ \A U \in SUBSET T : U # T => U \notin B
  BY <1>1
<1> QED
  BY <1>1, <1>2

LEMMA SumEmpty == \A f : Sum(f, {}) = 0
<1> SUFFICES ASSUME NEW f PROVE Sum(f, {}) = 0
  OBVIOUS
<1>1. \E I : Sums(I, f, {})
  BY SumsExist, FS_EmptySet
<1> DEFINE I == CHOOSE J : Sums(J, f, {})
<1>2. Sums(I, f, {})
  BY <1>1
<1> HIDE DEF I
<1>3. I[{}] = 0
  BY <1>2 DEF Sums
<1> QED
  BY <1>3 DEF Sum, I

LEMMA SumPick ==
  ASSUME NEW S, IsFiniteSet(S), NEW f, S # {}
  PROVE  /\ Pick(S) \in S
         /\ Sum(f, S) = f[Pick(S)] + Sum(f, S \ {Pick(S)})
<1> DEFINE V == S \ {Pick(S)}
           I == CHOOSE J : Sums(J, f, S)
           K == CHOOSE J : Sums(J, f, V)
           R == [W \in SUBSET V |-> I[W]]
<1>1. V \in SUBSET S /\ IsFiniteSet(V)
  BY FS_Subset
<1>2. Sums(I, f, S)
  <2>1. \E J : Sums(J, f, S)
    BY SumsExist
  <2> QED
    BY <2>1
<1>3. Sums(K, f, V)
  <2>1. \E J : Sums(J, f, V)
    BY <1>1, SumsExist
  <2> QED
    BY <2>1
<1> HIDE DEF I, K
<1>4. Sums(R, f, V)
  BY <1>1, <1>2, SumsRestrict
<1>5. R = K
  <2> HIDE DEF R
  <2> QED
    BY <1>1, <1>3, <1>4, SumsUnique
<1>6. I[V] = K[V]
  <2>1. R[V] = I[V]
    OBVIOUS
  <2> QED
    BY <1>5, <2>1
<1>7. I[S] = f[Pick(S)] + I[V]
  BY <1>2 DEF Sums
<1> QED
  BY <1>6, <1>7, PickIn DEF Sum, I, K

\* A function that adds up over S gives the sum.
LEMMA SumIs ==
  ASSUME NEW S, IsFiniteSet(S), NEW f, NEW I, Sums(I, f, S)
  PROVE  I[S] = Sum(f, S)
<1> DEFINE J == CHOOSE K : Sums(K, f, S)
<1>1. Sums(J, f, S)
  OBVIOUS
<1> HIDE DEF J
<1>2. I = J
  BY <1>1, SumsUnique
<1> QED
  BY <1>2 DEF Sum, J

LEMMA SumNat ==
  ASSUME NEW S, IsFiniteSet(S), NEW f, \A x \in S : f[x] \in Nat
  PROVE  Sum(f, S) \in Nat
<1> DEFINE B == {T \in SUBSET S : Sum(f, T) \notin Nat}
<1>1. ASSUME NEW T \in SUBSET S, \A U \in SUBSET T : U # T => U \notin B
      PROVE  T \notin B
  <2>1. CASE T = {}
    BY <2>1, SumEmpty
  <2>2. CASE T # {}
    <3> DEFINE U == T \ {Pick(T)}
    <3>1. IsFiniteSet(T)
      BY FS_Subset
    <3>2. Pick(T) \in T /\ Sum(f, T) = f[Pick(T)] + Sum(f, U)
      BY <2>2, <3>1, SumPick
    <3>3. U \in SUBSET T /\ U # T /\ U \in SUBSET S
      BY <3>2
    <3>4. Sum(f, U) \in Nat
      BY <1>1, <3>3
    <3>5. f[Pick(T)] \in Nat
      BY <3>2
    <3> QED
      BY <3>2, <3>4, <3>5
  <2> QED
    BY <2>1, <2>2
<1>2. B \in SUBSET (SUBSET S)
  OBVIOUS
<1>3. B = {}
  <2> HIDE DEF B
  <2> QED
    BY <1>1, <1>2, NoneFails
<1> QED
  BY <1>3

\* Only the values on S matter.
LEMMA SumSame ==
  ASSUME NEW S, IsFiniteSet(S), NEW f, NEW g, \A x \in S : f[x] = g[x]
  PROVE  Sum(f, S) = Sum(g, S)
<1> DEFINE B == {T \in SUBSET S : Sum(f, T) # Sum(g, T)}
<1>1. ASSUME NEW T \in SUBSET S, \A U \in SUBSET T : U # T => U \notin B
      PROVE  T \notin B
  <2>1. CASE T = {}
    BY <2>1, SumEmpty
  <2>2. CASE T # {}
    <3> DEFINE U == T \ {Pick(T)}
    <3>1. IsFiniteSet(T)
      BY FS_Subset
    <3>2. /\ Pick(T) \in T
          /\ Sum(f, T) = f[Pick(T)] + Sum(f, U)
          /\ Sum(g, T) = g[Pick(T)] + Sum(g, U)
      BY <2>2, <3>1, SumPick
    <3>3. U \in SUBSET T /\ U # T /\ U \in SUBSET S
      BY <3>2
    <3>4. Sum(f, U) = Sum(g, U)
      BY <1>1, <3>3
    <3>5. f[Pick(T)] = g[Pick(T)]
      BY <3>2
    <3> QED
      BY <3>2, <3>4, <3>5
  <2> QED
    BY <2>1, <2>2
<1>2. B \in SUBSET (SUBSET S)
  OBVIOUS
<1>3. B = {}
  <2> HIDE DEF B
  <2> QED
    BY <1>1, <1>2, NoneFails
<1> QED
  BY <1>3

\* Any element may come first.
LEMMA SumRemove ==
  ASSUME NEW S, IsFiniteSet(S), NEW f, \A x \in S : f[x] \in Nat, NEW y \in S
  PROVE  Sum(f, S) = f[y] + Sum(f, S \ {y})
<1> DEFINE B == {T \in SUBSET S : \E z \in T : Sum(f, T) # f[z] + Sum(f, T \ {z})}
<1>1. ASSUME NEW T \in SUBSET S, \A U \in SUBSET T : U # T => U \notin B
      PROVE  T \notin B
  <2>1. ASSUME NEW z \in T PROVE Sum(f, T) = f[z] + Sum(f, T \ {z})
    <3> DEFINE p == Pick(T)
               U == T \ {p}
    <3>1. IsFiniteSet(T)
      BY FS_Subset
    <3>2. p \in T /\ Sum(f, T) = f[p] + Sum(f, U)
      BY <3>1, SumPick
    <3> HIDE DEF p
    <3>3. CASE z = p
      BY <3>2, <3>3
    <3>4. CASE z # p
      <4> DEFINE V == T \ {z}
                 W == U \ {z}
      <4>1. U \in SUBSET T /\ U # T /\ U \in SUBSET S /\ z \in U
        BY <3>2, <3>4
      <4>2. V \in SUBSET T /\ V # T /\ V \in SUBSET S /\ p \in V /\ V \ {p} = W
        BY <3>2, <3>4
      <4>3. Sum(f, U) = f[z] + Sum(f, W)
        BY <1>1, <4>1
      <4>4. Sum(f, V) = f[p] + Sum(f, W)
        <5>1. Sum(f, V) = f[p] + Sum(f, V \ {p})
          <6> HIDE DEF V
          <6> QED
            BY <1>1, <4>2
        <5> QED
          BY <4>2, <5>1
      <4>5. IsFiniteSet(W)
        BY <3>1, <4>1, FS_Subset
      <4>6. Sum(f, W) \in Nat
        BY <4>5, SumNat
      <4>7. f[z] \in Nat /\ f[p] \in Nat
        BY <3>2
      <4> HIDE DEF U, V, W
      <4> QED
        BY <3>2, <4>3, <4>4, <4>6, <4>7 DEF V
    <3> QED
      BY <3>3, <3>4
  <2> QED
    BY <2>1
<1>2. B \in SUBSET (SUBSET S)
  OBVIOUS
<1>3. B = {}
  <2> HIDE DEF B
  <2> QED
    BY <1>1, <1>2, NoneFails
<1>4. S \in SUBSET S
  OBVIOUS
<1> QED
  BY <1>3, <1>4

\* The sum of a part and of the rest.
LEMMA SumSplit ==
  ASSUME NEW S, IsFiniteSet(S), NEW f, \A x \in S : f[x] \in Nat, NEW R \in SUBSET S
  PROVE  Sum(f, S) = Sum(f, R) + Sum(f, S \ R)
<1> DEFINE B == {T \in SUBSET R : Sum(f, S) # Sum(f, T) + Sum(f, S \ T)}
<1>1. ASSUME NEW T \in SUBSET R, \A U \in SUBSET T : U # T => U \notin B
      PROVE  T \notin B
  <2>1. CASE T = {}
    <3>1. S \ T = S
      BY <2>1
    <3> QED
      BY <2>1, <3>1, SumEmpty, SumNat
  <2>2. CASE T # {}
    <3>1. PICK p \in T : TRUE
      BY <2>2
    <3> DEFINE U == T \ {p}
    <3>2. IsFiniteSet(T) /\ IsFiniteSet(U) /\ IsFiniteSet(S \ T) /\ IsFiniteSet(S \ U)
      <4>1. T \subseteq S /\ U \subseteq S /\ S \ T \subseteq S /\ S \ U \subseteq S
        OBVIOUS
      <4> QED
        BY <4>1, FS_Subset
    <3>3. Sum(f, T) = f[p] + Sum(f, U)
      <4>1. \A x \in T : f[x] \in Nat
        OBVIOUS
      <4> QED
        BY <3>2, <4>1, SumRemove
    <3>4. Sum(f, S \ U) = f[p] + Sum(f, S \ T)
      <4>1. p \in S \ U /\ (S \ U) \ {p} = S \ T
        OBVIOUS
      <4>2. Sum(f, S \ U) = f[p] + Sum(f, (S \ U) \ {p})
        BY <3>2, <4>1, SumRemove
      <4> QED
        BY <4>1, <4>2
    <3>5. Sum(f, S) = Sum(f, U) + Sum(f, S \ U)
      <4>1. U \in SUBSET T /\ U # T /\ U \in SUBSET R
        OBVIOUS
      <4> QED
        BY <1>1, <4>1
    <3>6. f[p] \in Nat /\ Sum(f, U) \in Nat /\ Sum(f, S \ T) \in Nat
      <4>1. Sum(f, U) \in Nat
        BY <3>2, SumNat
      <4>2. Sum(f, S \ T) \in Nat
        BY <3>2, SumNat
      <4> QED
        BY <4>1, <4>2
    <3> HIDE DEF U
    <3> QED
      BY <3>3, <3>4, <3>5, <3>6
  <2> QED
    BY <2>1, <2>2
<1>2. B \in SUBSET (SUBSET R)
  OBVIOUS
<1>3. B = {}
  <2>1. IsFiniteSet(R)
    BY FS_Subset
  <2> HIDE DEF B
  <2> QED
    BY <1>1, <1>2, <2>1, NoneFails
<1>4. R \in SUBSET R
  OBVIOUS
<1> QED
  BY <1>3, <1>4

-----------------------------------------------------------------------------

\* The folds of the community modules are these sums.
LEMMA FoldIsSum ==
  ASSUME NEW S, IsFiniteSet(S), NEW f
  PROVE  FoldFunctionOnSet(+, 0, f, S) = Sum(f, S)
<1> DEFINE I == CHOOSE J : J = [T \in SUBSET S |->
                   IF T = {} THEN 0 ELSE f[Pick(T)] + J[T \ {Pick(T)}]]
<1>1. FoldFunctionOnSet(+, 0, f, S) = I[S]
  BY DEF FoldFunctionOnSet, MapThenFoldSet, Pick
<1>2. Sums(I, f, S)
  <2>1. \E J : J = [T \in SUBSET S |->
                      IF T = {} THEN 0 ELSE f[Pick(T)] + J[T \ {Pick(T)}]]
    <3>1. \E J : Sums(J, f, S)
      BY SumsExist
    <3> QED
      BY <3>1 DEF Sums
  <2>2. I = [T \in SUBSET S |-> IF T = {} THEN 0 ELSE f[Pick(T)] + I[T \ {Pick(T)}]]
    BY <2>1
  <2> HIDE DEF I
  <2> QED
    BY <2>2 DEF Sums
<1> HIDE DEF I
<1> QED
  BY <1>1, <1>2, SumIs

LEMMA FoldOfFieldIsSum ==
  ASSUME NEW S, IsFiniteSet(S)
  PROVE  MapThenSumSet(LAMBDA o : o.qty, S) = Sum([o \in S |-> o.qty], S)
<1> DEFINE f == [o \in S |-> o.qty]
           I == CHOOSE J : J = [T \in SUBSET S |->
                   IF T = {} THEN 0 ELSE Pick(T).qty + J[T \ {Pick(T)}]]
<1>1. MapThenSumSet(LAMBDA o : o.qty, S) = I[S]
  BY DEF MapThenSumSet, MapThenFoldSet, Pick
<1> HIDE DEF f
<1>2. PICK K : Sums(K, f, S)
  BY SumsExist
<1>3. ASSUME NEW J
      PROVE  Sums(J, f, S)
               <=> J = [T \in SUBSET S |->
                         IF T = {} THEN 0 ELSE Pick(T).qty + J[T \ {Pick(T)}]]
  <2> DEFINE e(T) == IF T = {} THEN 0 ELSE f[Pick(T)] + J[T \ {Pick(T)}]
             d(T) == IF T = {} THEN 0 ELSE Pick(T).qty + J[T \ {Pick(T)}]
  <2>1. ASSUME NEW T \in SUBSET S PROVE e(T) = d(T)
    <3>1. CASE T = {}
      BY <3>1
    <3>2. CASE T # {}
      <4>1. Pick(T) \in S
        BY <3>2, PickIn
      <4>2. f[Pick(T)] = Pick(T).qty
        BY <4>1 DEF f
      <4> QED
        BY <3>2, <4>2
    <3> QED
      BY <3>1, <3>2
  <2>2. Sums(J, f, S) <=> J = [T \in SUBSET S |-> e(T)]
    BY Zenon DEF Sums
  <2> HIDE DEF e, d
  <2>3. [T \in SUBSET S |-> e(T)] = [T \in SUBSET S |-> d(T)]
    BY <2>1
  <2>4. Sums(J, f, S) <=> J = [T \in SUBSET S |-> d(T)]
    BY <2>2, <2>3, Zenon
  <2> QED
    BY <2>4, Zenon DEF d
<1>4. Sums(I, f, S)
  <2>1. I = [T \in SUBSET S |-> IF T = {} THEN 0 ELSE Pick(T).qty + I[T \ {Pick(T)}]]
    BY <1>2, <1>3
  <2> HIDE DEF I
  <2> QED
    BY <1>3, <2>1
<1> HIDE DEF I
<1> QED
  BY <1>1, <1>4, SumIs DEF f

-----------------------------------------------------------------------------
(* The largest element of a finite set of integers, and induction over the *)
(* naturals.                                                               *)

LEMMA LargestExists ==
  ASSUME NEW S \in SUBSET Int, IsFiniteSet(S), S # {}
  PROVE  \E x \in S : \A y \in S : y =< x
<1> DEFINE B == {T \in SUBSET S : T # {} /\ ~\E x \in T : \A y \in T : y =< x}
<1>1. ASSUME NEW T \in SUBSET S, \A U \in SUBSET T : U # T => U \notin B, T # {}
      PROVE  \E x \in T : \A y \in T : y =< x
  <2>1. PICK p \in T : TRUE
    BY <1>1
  <2> DEFINE U == T \ {p}
  <2>2. U \in SUBSET T /\ U # T /\ U \in SUBSET S /\ T = U \union {p} /\ p \in Int
    OBVIOUS
  <2>3. CASE U = {}
    BY <2>2, <2>3
  <2>4. CASE U # {}
    <3>1. PICK x \in U : \A y \in U : y =< x
      BY <1>1, <2>2, <2>4
    <3>2. x \in Int /\ \A y \in U : y \in Int
      BY <2>2
    <3>3. CASE p =< x
      BY <2>2, <3>1, <3>3
    <3>4. CASE ~(p =< x)
      <4>1. \A y \in U : y =< p
        BY <2>2, <3>1, <3>2, <3>4
      <4> QED
        BY <2>2, <4>1
    <3> QED
      BY <3>3, <3>4
  <2> QED
    BY <2>3, <2>4
<1>2. B \in SUBSET (SUBSET S) /\ \A T \in SUBSET S :
        (\A U \in SUBSET T : U # T => U \notin B) => T \notin B
  BY <1>1
<1>3. B = {}
  <2> HIDE DEF B
  <2> QED
    BY <1>2, NoneFails
<1>4. S \in SUBSET S
  OBVIOUS
<1> QED
  BY <1>3, <1>4

LEMMA MaxIn ==
  ASSUME NEW S \in SUBSET Int, IsFiniteSet(S), S # {}
  PROVE  Max(S) \in S /\ \A y \in S : y =< Max(S)
<1>1. \E x \in S : \A y \in S : x >= y
  BY LargestExists
<1>2. Max(S) \in S /\ \A y \in S : Max(S) >= y
  BY <1>1 DEF Max
<1> QED
  BY <1>2

LEMMA IntervalFinite == \A n \in Nat : IsFiniteSet(1..n)
<1> SUFFICES ASSUME NEW n \in Nat PROVE IsFiniteSet(1..n)
  OBVIOUS
<1>1. 1 \in Int /\ n \in Int
  OBVIOUS
<1> QED
  BY <1>1, FS_Interval

LEMMA MaxOfInterval == \A n \in Nat : n # 0 => Max(1..n) = n
<1> SUFFICES ASSUME NEW n \in Nat, n # 0 PROVE Max(1..n) = n
  OBVIOUS
<1>1. 1..n \in SUBSET Int /\ n \in 1..n
  OBVIOUS
<1>2. Max(1..n) \in 1..n /\ \A y \in 1..n : y =< Max(1..n)
  BY <1>1, IntervalFinite, MaxIn
<1> QED
  BY <1>1, <1>2

\* Induction up to n, with the set B of the numbers that fail.
LEMMA NoNumberFails ==
  ASSUME NEW n \in Nat, NEW B \in SUBSET (0..n), 0 \notin B,
         \A i \in 0..(n - 1) : i \notin B => i + 1 \notin B
  PROVE  B = {}
<1> SUFFICES ASSUME B # {} PROVE FALSE
  OBVIOUS
<1> DEFINE C == {n - k : k \in B}
<1>1. C \subseteq 0..n /\ C # {}
  OBVIOUS
<1>2. IsFiniteSet(0..n) /\ C \in SUBSET Int
  BY <1>1, FS_Interval
<1>3. IsFiniteSet(C)
  BY <1>1, <1>2, FS_Subset
<1>4. PICK x \in C : \A y \in C : y =< x
  <2> HIDE DEF C
  <2> QED
    BY <1>1, <1>2, <1>3, LargestExists
<1>5. PICK m \in B : x = n - m
  BY <1>4
<1>6. ASSUME NEW k \in B PROVE m =< k
  <2>1. n - k \in C
    OBVIOUS
  <2>2. n - k =< n - m
    BY <1>4, <1>5, <2>1
  <2> QED
    BY <2>2
<1>7. m \in 1..n
  OBVIOUS
<1>8. m - 1 \in B
  <2>1. m - 1 \in 0..(n - 1) /\ (m - 1) + 1 = m
    BY <1>7
  <2> QED
    BY <2>1
<1> QED
  BY <1>6, <1>7, <1>8

-----------------------------------------------------------------------------
(* What is left of a sequence when only the elements in E are kept.        *)

Grown(kept, e, E) == IF e \in E THEN Append(kept, e) ELSE kept

\* I is the function that keeps them, for the elements at every set of places.
Filters(I, seq, E, D) ==
  I = [T \in SUBSET D |->
        IF T = {} THEN <<>> ELSE Grown(I[T \ {Max(T)}], seq[Max(T)], E)]

Filter(seq, E) == (CHOOSE I : Filters(I, seq, E, DOMAIN seq))[DOMAIN seq]

LEMMA FiltersUnique ==
  ASSUME NEW D \in SUBSET Int, IsFiniteSet(D), NEW seq, NEW E, NEW I, NEW J,
         Filters(I, seq, E, D), Filters(J, seq, E, D)
  PROVE  I = J
<1> DEFINE e(K, T) == IF T = {} THEN <<>> ELSE Grown(K[T \ {Max(T)}], seq[Max(T)], E)
           B == {T \in SUBSET D : I[T] # J[T]}
<1>1. I = [T \in SUBSET D |-> e(I, T)] /\ J = [T \in SUBSET D |-> e(J, T)]
  BY DEF Filters
<1>2. ASSUME NEW T \in SUBSET D, \A U \in SUBSET T : U # T => U \notin B
      PROVE  e(I, T) = e(J, T)
  <2>1. CASE T = {}
    BY <2>1
  <2>2. CASE T # {}
    <3>1. IsFiniteSet(T) /\ T \in SUBSET Int
      BY FS_Subset
    <3>2. Max(T) \in T
      BY <2>2, <3>1, MaxIn
    <3>3. I[T \ {Max(T)}] = J[T \ {Max(T)}]
      BY <1>2, <3>2
    <3> QED
      BY <2>2, <3>3
  <2> QED
    BY <2>1, <2>2
<1>3. \A T \in SUBSET D : I[T] = e(I, T) /\ J[T] = e(J, T)
  <2> HIDE DEF e
  <2> QED
    BY <1>1
<1>4. B \in SUBSET (SUBSET D) /\ \A T \in SUBSET D :
        (\A U \in SUBSET T : U # T => U \notin B) => T \notin B
  <2> HIDE DEF e
  <2> QED
    BY <1>2, <1>3
<1>5. B = {}
  <2> HIDE DEF B
  <2> QED
    BY <1>4, NoneFails
<1>6. \A T \in SUBSET D : e(I, T) = e(J, T)
  <2> HIDE DEF e
  <2> QED
    BY <1>3, <1>5
<1> HIDE DEF e
<1>7. [T \in SUBSET D |-> e(I, T)] = [T \in SUBSET D |-> e(J, T)]
  BY <1>6
<1> QED
  BY <1>1, <1>7, Zenon

\* What filters the places in D filters those in a part of it, of any sequence that
\* is the same there.
LEMMA FiltersRestrict ==
  ASSUME NEW D \in SUBSET Int, IsFiniteSet(D), NEW seq, NEW E, NEW I, Filters(I, seq, E, D),
         NEW C \in SUBSET D, NEW other, \A i \in C : other[i] = seq[i]
  PROVE  Filters([U \in SUBSET C |-> I[U]], other, E, C)
<1> DEFINE R == [U \in SUBSET C |-> I[U]]
<1>1. ASSUME NEW U \in SUBSET C
      PROVE  R[U] = IF U = {} THEN <<>> ELSE Grown(R[U \ {Max(U)}], other[Max(U)], E)
  <2>1. U \in SUBSET D /\ U \ {Max(U)} \in SUBSET C
    OBVIOUS
  <2>2. I[U] = IF U = {} THEN <<>> ELSE Grown(I[U \ {Max(U)}], seq[Max(U)], E)
    BY <2>1 DEF Filters
  <2>3. U # {} => Max(U) \in U
    BY <2>1, FS_Subset, MaxIn
  <2> QED
    BY <2>1, <2>2, <2>3
<1>2. R = [U \in SUBSET C |-> R[U]]
  OBVIOUS
<1> HIDE DEF R
<1>3. R = [U \in SUBSET C |->
            IF U = {} THEN <<>> ELSE Grown(R[U \ {Max(U)}], other[Max(U)], E)]
  BY <1>1, <1>2, Zenon
<1>4. Filters(R, other, E, C)
  BY <1>3 DEF Filters
<1> QED
  BY <1>4 DEF R

LEMMA FiltersExist ==
  ASSUME NEW D \in SUBSET Int, IsFiniteSet(D), NEW seq, NEW E
  PROVE  \E I : Filters(I, seq, E, D)
<1> DEFINE B == {T \in SUBSET D : ~\E I : Filters(I, seq, E, T)}
<1>1. ASSUME NEW T \in SUBSET D, \A U \in SUBSET T : U # T => U \notin B
      PROVE  \E I : Filters(I, seq, E, T)
  <2> DEFINE Of(U) == CHOOSE I : Filters(I, seq, E, U)
             I == [U \in SUBSET T |->
                    IF U = T THEN IF T = {} THEN <<>>
                                  ELSE Grown(Of(T \ {Max(T)})[T \ {Max(T)}], seq[Max(T)], E)
                    ELSE Of(U)[U]]
  <2>1. ASSUME NEW U \in SUBSET T
        PROVE  U \in SUBSET D /\ U \in SUBSET Int /\ IsFiniteSet(U)
    BY <1>1, FS_Subset
  <2>2. ASSUME NEW U \in SUBSET T, U # T PROVE Filters(Of(U), seq, E, U)
    <3>1. \E J : Filters(J, seq, E, U)
      BY <1>1, <2>1, <2>2
    <3> QED
      BY <3>1
  <2> HIDE DEF Of
  <2>3. ASSUME NEW U \in SUBSET T, U # T, U # {}
        PROVE  Of(U)[U] = Grown(Of(U \ {Max(U)})[U \ {Max(U)}], seq[Max(U)], E)
    <3> DEFINE V == U \ {Max(U)}
               R == [W \in SUBSET V |-> Of(U)[W]]
    <3>1. V \in SUBSET U /\ V \in SUBSET T /\ V # T
      BY <2>3
    <3>2. Filters(Of(U), seq, E, U) /\ Filters(Of(V), seq, E, V)
      BY <2>2, <2>3, <3>1
    <3>3. Of(U)[U] = Grown(Of(U)[V], seq[Max(U)], E)
      <4>1. U \in SUBSET U
        OBVIOUS
      <4> QED
        BY <2>3, <3>2, <4>1 DEF Filters
    <3>4. Of(U)[V] = Of(V)[V]
      <4>1. \A i \in V : seq[i] = seq[i]
        OBVIOUS
      <4>2. Filters(R, seq, E, V)
        <5>1. U \in SUBSET Int /\ IsFiniteSet(U)
          BY <2>1
        <5> HIDE DEF V
        <5> QED
          BY <3>1, <3>2, <4>1, <5>1, FiltersRestrict
      <4>3. R = Of(V)
        <5> HIDE DEF R
        <5> QED
          BY <2>1, <3>1, <3>2, <4>2, FiltersUnique
      <4>4. R[V] = Of(U)[V]
        OBVIOUS
      <4> QED
        BY <4>3, <4>4
    <3> QED
      BY <3>3, <3>4
  <2>4. ASSUME NEW U \in SUBSET T, U # T, U = {} PROVE Of(U)[U] = <<>>
    <3>1. Filters(Of(U), seq, E, U)
      BY <2>2, <2>4
    <3> QED
      BY <2>4, <3>1 DEF Filters
  <2>5. ASSUME NEW U \in SUBSET T
        PROVE  I[U] = IF U = {} THEN <<>> ELSE Grown(I[U \ {Max(U)}], seq[Max(U)], E)
    <3>1. CASE U = {}
      BY <2>4, <3>1
    <3>2. CASE U # {}
      <4>1. Max(U) \in U /\ U \ {Max(U)} \in SUBSET T /\ U \ {Max(U)} # T
        BY <2>1, <3>2, MaxIn
      <4>2. I[U \ {Max(U)}] = Of(U \ {Max(U)})[U \ {Max(U)}]
        BY <4>1
      <4>3. I[U] = Grown(Of(U \ {Max(U)})[U \ {Max(U)}], seq[Max(U)], E)
        <5>1. CASE U = T
          BY <3>2, <5>1
        <5>2. CASE U # T
          BY <2>3, <3>2, <5>2
        <5> QED
          BY <5>1, <5>2
      <4> HIDE DEF I
      <4> QED
        BY <3>2, <4>2, <4>3
    <3> QED
      BY <3>1, <3>2
  <2>6. I = [U \in SUBSET T |-> I[U]]
    OBVIOUS
  <2> HIDE DEF I
  <2>7. I = [U \in SUBSET T |->
              IF U = {} THEN <<>> ELSE Grown(I[U \ {Max(U)}], seq[Max(U)], E)]
    BY <2>5, <2>6, Zenon
  <2>8. Filters(I, seq, E, T)
    BY <2>7 DEF Filters
  <2> QED
    BY <2>8
<1>2. B \in SUBSET (SUBSET D) /\ \A T \in SUBSET D :
        (\A U \in SUBSET T : U # T => U \notin B) => T \notin B
  BY <1>1
<1>3. B = {}
  <2> HIDE DEF B
  <2> QED
    BY <1>2, NoneFails
<1>4. D \in SUBSET D
  OBVIOUS
<1> QED
  BY <1>3, <1>4

LEMMA FilterEmpty == \A E : Filter(<<>>, E) = <<>>
<1> SUFFICES ASSUME NEW E PROVE Filter(<<>>, E) = <<>>
  OBVIOUS
<1> DEFINE I == CHOOSE J : Filters(J, <<>>, E, {})
<1>1. Filters(I, <<>>, E, {})
  <2>1. \E J : Filters(J, <<>>, E, {})
    BY FiltersExist, FS_EmptySet
  <2> QED
    BY <2>1
<1>2. DOMAIN <<>> = {}
  OBVIOUS
<1> HIDE DEF I
<1>3. I[{}] = <<>>
  BY <1>1 DEF Filters
<1> QED
  BY <1>2, <1>3 DEF Filter, I

\* One element after the other.
LEMMA FilterAppend ==
  ASSUME NEW S, NEW seq \in Seq(S), NEW e \in S, NEW E
  PROVE  Filter(Append(seq, e), E) = Grown(Filter(seq, E), e, E)
<1> DEFINE n == Len(seq)
           A == Append(seq, e)
           D == 1..(n + 1)
           C == 1..n
           I == CHOOSE J : Filters(J, A, E, D)
           K == CHOOSE J : Filters(J, seq, E, C)
           R == [U \in SUBSET C |-> I[U]]
<1>1. /\ n \in Nat /\ DOMAIN seq = C /\ DOMAIN A = D /\ A[n + 1] = e
      /\ \A i \in C : seq[i] = A[i]
  OBVIOUS
<1>2. /\ D \in SUBSET Int /\ IsFiniteSet(D) /\ C \in SUBSET D /\ C \in SUBSET Int
      /\ IsFiniteSet(C) /\ D # {} /\ D \ {n + 1} = C
  BY <1>1, IntervalFinite
<1>3. Max(D) = n + 1
  BY <1>1, MaxOfInterval
<1> HIDE DEF A, C, D, n
<1>4. Filters(I, A, E, D)
  <2>1. \E J : Filters(J, A, E, D)
    BY <1>2, FiltersExist
  <2> QED
    BY <2>1
<1>5. Filters(K, seq, E, C)
  <2>1. \E J : Filters(J, seq, E, C)
    BY <1>2, FiltersExist
  <2> QED
    BY <2>1
<1> HIDE DEF I, K
<1>6. Filters(R, seq, E, C)
  BY <1>1, <1>2, <1>4, FiltersRestrict
<1>7. R = K
  <2> HIDE DEF R
  <2> QED
    BY <1>2, <1>5, <1>6, FiltersUnique
<1>8. I[C] = K[C]
  <2>1. R[C] = I[C]
    OBVIOUS
  <2> QED
    BY <1>7, <2>1
<1>9. I[D] = Grown(I[C], e, E)
  <2>1. D \in SUBSET D
    OBVIOUS
  <2>2. I[D] = Grown(I[D \ {Max(D)}], A[Max(D)], E)
    BY <1>2, <1>4, <2>1 DEF Filters
  <2> QED
    BY <1>1, <1>2, <1>3, <2>2
<1>10. Filter(A, E) = I[D]
  BY <1>1 DEF Filter, I
<1>11. Filter(seq, E) = K[C]
  BY <1>1 DEF Filter, K
<1> QED
  BY <1>8, <1>9, <1>10, <1>11 DEF A

\* What a filtered sequence is: the elements at some of the places, in their order;
\* and a front of the sequence if nothing was dropped from before a kept one.
IsFiltered(out, seq, E) ==
  /\ out \in Seq(E) /\ Len(out) =< Len(seq)
  /\ \E m \in [1..Len(out) -> 1..Len(seq)] :
       /\ \A k \in 1..Len(out) : out[k] = seq[m[k]]
       /\ \A j, k \in 1..Len(out) : j < k => m[j] < m[k]
  /\ (\A i, j \in 1..Len(seq) : i < j /\ seq[j] \in E => seq[i] \in E) =>
       /\ \A k \in 1..Len(out) : out[k] = seq[k]
       /\ (\A i \in 1..Len(seq) : seq[i] \in E) => Len(out) = Len(seq)

LEMMA FilterGrows ==
  ASSUME NEW S, NEW seq \in Seq(S), NEW e \in S, NEW E, NEW out, IsFiltered(out, seq, E)
  PROVE  IsFiltered(Grown(out, e, E), Append(seq, e), E)
<1> DEFINE A == Append(seq, e)
           n == Len(seq)
           l == Len(out)
           G == Grown(out, e, E)
<1>1. /\ n \in Nat /\ Len(A) = n + 1 /\ A[n + 1] = e /\ \A i \in 1..n : A[i] = seq[i]
      /\ \A i : i \in 1..(n + 1) <=> i \in 1..n \/ i = n + 1
      /\ \A i \in 1..n : i < n + 1
  OBVIOUS
<1>2. /\ out \in Seq(E) /\ l \in Nat /\ l =< n
      /\ (\A i, j \in 1..n : i < j /\ seq[j] \in E => seq[i] \in E) =>
           /\ \A k \in 1..l : out[k] = seq[k]
           /\ (\A i \in 1..n : seq[i] \in E) => l = n
  BY DEF IsFiltered
<1>3. PICK m \in [1..l -> 1..n] :
        /\ \A k \in 1..l : out[k] = seq[m[k]]
        /\ \A j, k \in 1..l : j < k => m[j] < m[k]
  BY DEF IsFiltered
<1>4. CASE e \in E
  <2> DEFINE O == Append(out, e)
             w == [k \in 1..(l + 1) |-> IF k = l + 1 THEN n + 1 ELSE m[k]]
  <2>1. /\ O \in Seq(E) /\ Len(O) = l + 1 /\ O[l + 1] = e /\ \A k \in 1..l : O[k] = out[k]
        /\ \A k : k \in 1..(l + 1) <=> k \in 1..l \/ k = l + 1
        /\ \A k \in 1..l : k < l + 1 /\ k # l + 1
        /\ l + 1 =< n + 1
    BY <1>1, <1>2, <1>4
  <2>2. G = O
    BY <1>4 DEF Grown
  <2> HIDE DEF A, O, n, l
  <2>3. w \in [1..(l + 1) -> 1..(n + 1)]
    BY <1>1, <1>3, <2>1
  <2>4. /\ w[l + 1] = n + 1 /\ \A k \in 1..l : w[k] = m[k] /\ m[k] \in 1..n
    BY <1>3, <2>1
  <2> HIDE DEF w
  <2>5. \A k \in 1..(l + 1) : O[k] = A[w[k]]
    BY <1>1, <1>3, <2>1, <2>4
  <2>6. ASSUME NEW j \in 1..(l + 1), NEW k \in 1..(l + 1), j < k PROVE w[j] < w[k]
    <3>1. j \in 1..l
      BY <1>2, <2>6
    <3>2. CASE k = l + 1
      BY <1>1, <2>4, <3>1, <3>2
    <3>3. CASE k \in 1..l
      BY <1>3, <2>4, <2>6, <3>1, <3>3
    <3> QED
      BY <2>1, <3>2, <3>3
  <2>7. ASSUME \A i, j \in 1..(n + 1) : i < j /\ A[j] \in E => A[i] \in E
        PROVE  /\ \A k \in 1..(l + 1) : O[k] = A[k]
               /\ l + 1 = n + 1
    <3>1. \A i \in 1..n : seq[i] \in E
      <4>1. ASSUME NEW i \in 1..n PROVE seq[i] \in E
        <5>1. i \in 1..(n + 1) /\ n + 1 \in 1..(n + 1) /\ i < n + 1 /\ A[n + 1] \in E
          BY <1>1, <1>4
        <5>2. A[i] \in E
          BY <2>7, <5>1
        <5> QED
          BY <1>1, <5>2
      <4> QED
        BY <4>1
    <3>2. l = n /\ \A k \in 1..l : out[k] = seq[k]
      BY <1>2, <3>1
    <3> QED
      BY <1>1, <2>1, <3>2
  <2>8. IsFiltered(O, A, E)
    <3>1. O \in Seq(E) /\ Len(O) = l + 1 /\ Len(A) = n + 1 /\ Len(O) =< Len(A)
      BY <1>1, <2>1
    <3> QED
      BY <2>3, <2>5, <2>6, <2>7, <3>1 DEF IsFiltered
  <2> QED
    BY <2>2, <2>8 DEF A
<1>5. CASE e \notin E
  <2>1. G = out
    BY <1>5 DEF Grown
  <2> HIDE DEF A, n, l
  <2>2. m \in [1..l -> 1..(n + 1)]
    BY <1>1, <1>3
  <2>3. \A k \in 1..l : out[k] = A[m[k]]
    BY <1>1, <1>3
  <2>4. ASSUME \A i, j \in 1..(n + 1) : i < j /\ A[j] \in E => A[i] \in E
        PROVE  \A k \in 1..l : out[k] = A[k]
    <3>1. \A i, j \in 1..n : i < j /\ seq[j] \in E => seq[i] \in E
      BY <1>1, <2>4
    <3>2. \A k \in 1..l : out[k] = seq[k] /\ k \in 1..n
      BY <1>1, <1>2, <3>1
    <3> QED
      BY <1>1, <3>2
  <2>5. ~(\A i \in 1..(n + 1) : A[i] \in E)
    BY <1>1, <1>5
  <2>6. Len(out) = l /\ Len(A) = n + 1 /\ l =< n + 1
    BY <1>1, <1>2 DEF l
  <2>7. IsFiltered(out, A, E)
    BY <1>2, <1>3, <2>2, <2>3, <2>4, <2>5, <2>6 DEF IsFiltered
  <2> QED
    BY <2>1, <2>7 DEF A
<1> QED
  BY <1>4, <1>5

LEMMA EmptyIsFiltered ==
  ASSUME NEW E, NEW out \in Seq(E), Len(out) = 0
  PROVE  IsFiltered(out, out, E)
<1>1. 1..Len(out) = {}
  OBVIOUS
<1>2. ASSUME NEW D, D = {}
      PROVE  \E m \in [D -> D] :
               /\ \A k \in D : out[k] = out[m[k]]
               /\ \A j, k \in D : j < k => m[j] < m[k]
  <2>1. [k \in D |-> k] \in [D -> D]
    OBVIOUS
  <2> QED
    BY <1>2, <2>1
<1>3. \E m \in [1..Len(out) -> 1..Len(out)] :
        /\ \A k \in 1..Len(out) : out[k] = out[m[k]]
        /\ \A j, k \in 1..Len(out) : j < k => m[j] < m[k]
  BY <1>1, <1>2
<1>4. Len(out) =< Len(out)
  OBVIOUS
<1> QED
  BY <1>3, <1>4, Zenon DEF IsFiltered

LEMMA FilterIs ==
  ASSUME NEW S, NEW seq \in Seq(S), NEW E
  PROVE  IsFiltered(Filter(seq, E), seq, E)
<1> DEFINE n == Len(seq)
           Prefix(i) == SubSeq(seq, 1, i)
           B == {i \in 0..n : ~IsFiltered(Filter(Prefix(i), E), Prefix(i), E)}
<1>1. 0 \notin B
  <2>1. Prefix(0) = <<>>
    OBVIOUS
  <2>2. Filter(<<>>, E) = <<>>
    BY FilterEmpty
  <2>3. IsFiltered(<<>>, <<>>, E)
    <3>1. <<>> \in Seq(E) /\ Len(<<>>) = 0
      OBVIOUS
    <3> QED
      BY <3>1, EmptyIsFiltered
  <2> QED
    BY <2>1, <2>2, <2>3
<1>2. ASSUME NEW i \in 0..(n - 1), i \notin B PROVE i + 1 \notin B
  <2>1. /\ Prefix(i) \in Seq(S) /\ seq[i + 1] \in S
        /\ Prefix(i + 1) = Append(Prefix(i), seq[i + 1])
        /\ i \in 0..n
    OBVIOUS
  <2>2. IsFiltered(Filter(Prefix(i), E), Prefix(i), E)
    BY <1>2, <2>1
  <2> HIDE DEF Prefix
  <2>3. Filter(Prefix(i + 1), E) = Grown(Filter(Prefix(i), E), seq[i + 1], E)
    BY <2>1, FilterAppend
  <2>4. IsFiltered(Filter(Prefix(i + 1), E), Prefix(i + 1), E)
    BY <2>1, <2>2, <2>3, FilterGrows
  <2> QED
    BY <2>4
<1>3. n \in Nat /\ B \in SUBSET (0..n)
  OBVIOUS
<1>4. B = {}
  <2> HIDE DEF B, n
  <2> QED
    BY <1>1, <1>2, <1>3, NoNumberFails
<1>5. n \in 0..n /\ Prefix(n) = seq
  OBVIOUS
<1> HIDE DEF Prefix
<1> QED
  BY <1>4, <1>5

\* The fold of the community modules that filters is this one.
LEMMA FoldIsFilter ==
  ASSUME NEW S, NEW seq \in Seq(S), NEW E
  PROVE  FoldLeft(LAMBDA kept, e : IF e \in E THEN Append(kept, e) ELSE kept, <<>>, seq)
           = Filter(seq, E)
<1> DEFINE I == CHOOSE J : J = [T \in SUBSET DOMAIN seq |->
                   IF T = {} THEN <<>>
                   ELSE IF seq[Max(T)] \in E THEN Append(J[T \ {Max(T)}], seq[Max(T)])
                        ELSE J[T \ {Max(T)}]]
<1>1. FoldLeft(LAMBDA kept, e : IF e \in E THEN Append(kept, e) ELSE kept, <<>>, seq)
        = I[DOMAIN seq]
  BY DEF FoldLeft, MapThenFoldSet
<1>2. Filter(seq, E) = I[DOMAIN seq]
  BY DEF Filter, Filters, Grown
<1> QED
  BY <1>1, <1>2

=============================================================================
