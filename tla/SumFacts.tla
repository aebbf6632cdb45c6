------------------------------ MODULE SumFacts ------------------------------
(***************************************************************************)
(* What SumFunctionOnSet of the community modules computes on finite sets, *)
(* for the sums and the highest numbers of the models.  It is a recursive  *)
(* function on the subsets of its indices that takes them in an order of   *)
(* CHOOSE's: that there is such a function, that the order is of no        *)
(* account, and what the sum does when one term comes, goes or changes.    *)
(*                                                                         *)
(* The proofs are by minimal counterexamples: strict inclusion between the *)
(* subsets of a finite set is well-founded.                                *)
(***************************************************************************)
EXTENDS FiniteSetTheorems, FiniteSetsExt, TLAPS

\* A set of subsets of a finite set that is not empty has a minimal member.
LEMMA MinimalSubset ==
  ASSUME NEW S, IsFiniteSet(S), NEW B \in SUBSET (SUBSET S), B # {}
  PROVE  \E T \in B : \A U \in B : U \subseteq T => U = T
<1>1. IsWellFoundedOn(StrictSubsetOrdering(S), SUBSET S)
  BY FS_StrictSubsetOrderingWellFounded, FS_FiniteSubsetsOfFinite
<1>2. PICK T \in B : \A U \in B : ~ (<<U, T>> \in StrictSubsetOrdering(S))
  BY <1>1, WFMin
<1>3. \A U \in B : U \subseteq T => U = T
  BY <1>2 DEF StrictSubsetOrdering
<1> QED
  BY <1>3

Pick(s) == CHOOSE x \in s : TRUE

LEMMA Picked == ASSUME NEW s, s # {} PROVE Pick(s) \in s
BY DEF Pick

\* The functions among which the sum is chosen.
SumsOn(w, S, g) ==
  g = [s \in SUBSET S |-> IF s = {} THEN 0 ELSE w[Pick(s)] + g[s \ {Pick(s)}]]

LEMMA SumUnfolds ==
  ASSUME NEW w, NEW S
  PROVE  SumFunctionOnSet(w, S) = (CHOOSE g : SumsOn(w, S, g))[S]
BY DEF SumFunctionOnSet, FoldFunctionOnSet, MapThenFoldSet, SumsOn, Pick

\* What a member of them is at one subset.
LEMMA SumsAt ==
  ASSUME NEW w, NEW S, NEW g, SumsOn(w, S, g), NEW s \in SUBSET S
  PROVE  /\ s = {} => g[s] = 0
         /\ s # {} => g[s] = w[Pick(s)] + g[s \ {Pick(s)}]
<1> DEFINE rhs == [t \in SUBSET S |-> IF t = {} THEN 0 ELSE w[Pick(t)] + g[t \ {Pick(t)}]]
<1>1. g = rhs
  BY DEF SumsOn
<1>2. rhs[s] = IF s = {} THEN 0 ELSE w[Pick(s)] + g[s \ {Pick(s)}]
  OBVIOUS
<1> HIDE DEF rhs
<1> QED
  BY <1>1, <1>2

\* Any two of them agree where both are defined.
LEMMA SumsAgree ==
  ASSUME NEW w, NEW S, NEW T, NEW g, NEW h, SumsOn(w, S, g), SumsOn(w, T, h),
         NEW V, V \subseteq S, V \subseteq T, IsFiniteSet(V)
  PROVE  g[V] = h[V]
<1> DEFINE Bad == {U \in SUBSET V : g[U] # h[U]}
<1>1. ASSUME Bad # {} PROVE FALSE
  <2>1. PICK U \in Bad : \A W \in Bad : W \subseteq U => W = U
    <3> HIDE DEF Bad
    <3>1. Bad \in SUBSET (SUBSET V)
      BY DEF Bad
    <3> QED
      BY <1>1, <3>1, MinimalSubset
  <2>2. U # {}
    BY SumsAt
  <2>3. Pick(U) \in U
    BY <2>2, Picked
  <2>4. g[U \ {Pick(U)}] = h[U \ {Pick(U)}]
    BY <2>1, <2>3
  <2> QED
    BY <2>2, <2>4, SumsAt
<1> QED
  BY <1>1

\* There is one.
LEMMA SumsExist ==
  ASSUME NEW w, NEW S, IsFiniteSet(S)
  PROVE  \E g : SumsOn(w, S, g)
<1> DEFINE Bad == {T \in SUBSET S : ~ \E g : SumsOn(w, T, g)}
<1>1. ASSUME Bad # {} PROVE FALSE
  <2>1. PICK T \in Bad : \A W \in Bad : W \subseteq T => W = T
    <3> HIDE DEF Bad
    <3>1. Bad \in SUBSET (SUBSET S)
      BY DEF Bad
    <3> QED
      BY <1>1, <3>1, MinimalSubset
  <2> DEFINE on(U) == CHOOSE g : SumsOn(w, U, g)
             new == [U \in SUBSET T |->
                       IF U = {} THEN 0 ELSE w[Pick(U)] + on(U \ {Pick(U)})[U \ {Pick(U)}]]
  <2>2. ASSUME NEW U \in SUBSET T, U # T
        PROVE  SumsOn(w, U, on(U))
    BY <2>1, <2>2
  <2>3. ASSUME NEW U \in SUBSET T, U # {}
        PROVE  on(U \ {Pick(U)})[U \ {Pick(U)}] = new[U \ {Pick(U)}]
    <3> DEFINE V == U \ {Pick(U)}
    <3>1. V \in SUBSET T /\ V # T
      BY <2>3, Picked
    <3> HIDE DEF V, new
    <3>2. SumsOn(w, V, on(V))
      BY <2>2, <3>1
    <3>3. new[V] = IF V = {} THEN 0 ELSE w[Pick(V)] + on(V \ {Pick(V)})[V \ {Pick(V)}]
      BY <3>1 DEF new
    <3> HIDE DEF on
    <3>4. on(V)[V] = new[V]
      <4>1. CASE V = {}
        BY <3>2, <3>3, <4>1, SumsAt
      <4>2. CASE V # {}
        <5> DEFINE X == V \ {Pick(V)}
        <5>1. X \in SUBSET T /\ X # T /\ X \subseteq V
          BY <3>1, <4>2, Picked
        <5>2. IsFiniteSet(X)
          BY <5>1, <2>1, FS_Subset
        <5>3. new[V] = w[Pick(V)] + on(X)[X]
          BY <3>3, <4>2
        <5>4. on(V)[V] = w[Pick(V)] + on(V)[X]
          BY <3>2, <4>2, SumsAt
        <5> HIDE DEF X
        <5>5. SumsOn(w, X, on(X))
          BY <2>2, <5>1
        <5>6. on(V)[X] = on(X)[X]
          BY <3>2, <5>1, <5>2, <5>5, SumsAgree
        <5> QED
          BY <5>3, <5>4, <5>6
      <4> QED
        BY <4>1, <4>2
    <3> QED
      BY <3>4 DEF V
  <2>4. SumsOn(w, T, new)
    <3>1. \A U \in SUBSET T :
            new[U] = IF U = {} THEN 0 ELSE w[Pick(U)] + new[U \ {Pick(U)}]
      <4> HIDE DEF on
      <4>1. \A U \in SUBSET T :
              new[U] = IF U = {} THEN 0 ELSE w[Pick(U)] + on(U \ {Pick(U)})[U \ {Pick(U)}]
        OBVIOUS
      <4> HIDE DEF new
      <4> QED
        BY <2>3, <4>1
    <3>2. new = [U \in SUBSET T |-> new[U]]
      OBVIOUS
    <3> HIDE DEF new
    <3> QED
      BY <3>1, <3>2 DEF SumsOn
  <2> QED
    BY <2>1, <2>4
<1> QED
  BY <1>1

\* The sum as a recursion over the set.
LEMMA SumRecursion ==
  ASSUME NEW w, NEW S, IsFiniteSet(S)
  PROVE  /\ S = {} => SumFunctionOnSet(w, S) = 0
         /\ S # {} => SumFunctionOnSet(w, S) =
                        w[Pick(S)] + SumFunctionOnSet(w, S \ {Pick(S)})
<1> DEFINE g == CHOOSE f : SumsOn(w, S, f)
           h == CHOOSE f : SumsOn(w, S \ {Pick(S)}, f)
<1>1. IsFiniteSet(S \ {Pick(S)})
  BY FS_Subset
<1>2. SumsOn(w, S, g) /\ SumsOn(w, S \ {Pick(S)}, h)
  BY <1>1, SumsExist
<1>3. /\ SumFunctionOnSet(w, S) = g[S]
      /\ SumFunctionOnSet(w, S \ {Pick(S)}) = h[S \ {Pick(S)}]
  BY SumUnfolds
<1> HIDE DEF g, h
<1>4. g[S \ {Pick(S)}] = h[S \ {Pick(S)}]
  BY <1>1, <1>2, SumsAgree
<1> QED
  BY <1>2, <1>3, <1>4, SumsAt

-----------------------------------------------------------------------------
\* The empty sum.
LEMMA SumEmpty == ASSUME NEW w PROVE SumFunctionOnSet(w, {}) = 0
BY FS_EmptySet, SumRecursion

\* Sums of integers are integers.
LEMMA SumInt ==
  ASSUME NEW S, IsFiniteSet(S), NEW w, \A x \in S : w[x] \in Int
  PROVE  SumFunctionOnSet(w, S) \in Int
<1> DEFINE Bad == {T \in SUBSET S : SumFunctionOnSet(w, T) \notin Int}
<1>1. ASSUME Bad # {} PROVE FALSE
  <2>1. PICK T \in Bad : \A U \in Bad : U \subseteq T => U = T
    <3> HIDE DEF Bad
    <3>1. Bad \in SUBSET (SUBSET S)
      BY DEF Bad
    <3> QED
      BY <1>1, <3>1, MinimalSubset
  <2>2. IsFiniteSet(T)
    BY FS_Subset
  <2>3. T # {}
    BY SumEmpty
  <2>4. Pick(T) \in T
    BY <2>3, Picked
  <2>5. SumFunctionOnSet(w, T \ {Pick(T)}) \in Int
    BY <2>1, <2>4
  <2> QED
    BY <2>2, <2>3, <2>4, <2>5, SumRecursion
<1> QED
  BY <1>1

\* It is of no account which element is taken first.
LEMMA SumRemove ==
  ASSUME NEW S, IsFiniteSet(S), NEW w, \A x \in S : w[x] \in Int, NEW e \in S
  PROVE  SumFunctionOnSet(w, S) = w[e] + SumFunctionOnSet(w, S \ {e})
<1> DEFINE Fine(T, x) == SumFunctionOnSet(w, T) = w[x] + SumFunctionOnSet(w, T \ {x})
           Bad == {T \in SUBSET S : \E x \in T : ~ Fine(T, x)}
<1>1. ASSUME Bad # {} PROVE FALSE
  <2>1. PICK T \in Bad : \A U \in Bad : U \subseteq T => U = T
    <3> HIDE DEF Bad
    <3>1. Bad \in SUBSET (SUBSET S)
      BY DEF Bad
    <3> QED
      BY <1>1, <3>1, MinimalSubset
  <2>2. PICK x \in T : ~ Fine(T, x)
    BY <2>1
  <2> DEFINE p == Pick(T)
  <2>3. p \in T
    BY <2>2, Picked
  <2>4. Fine(T, p)
    BY <2>2, FS_Subset, SumRecursion
  <2>5. x # p
    BY <2>2, <2>4
  <2> HIDE DEF p
  <2>6. T \ {p} \in SUBSET S /\ T \ {x} \in SUBSET S /\ T \ {p} # T /\ T \ {x} # T
    BY <2>3
  <2>7. Fine(T \ {p}, x) /\ Fine(T \ {x}, p)
    BY <2>1, <2>3, <2>5, <2>6
  <2> DEFINE rest == SumFunctionOnSet(w, (T \ {x}) \ {p})
  <2>8. rest \in Int
    <3>1. IsFiniteSet((T \ {x}) \ {p})
      BY FS_Subset
    <3> QED
      BY <3>1, SumInt
  <2>9. (T \ {p}) \ {x} = (T \ {x}) \ {p}
    OBVIOUS
  <2>10. SumFunctionOnSet(w, T \ {p}) = w[x] + rest
    BY <2>7, <2>9
  <2>11. SumFunctionOnSet(w, T \ {x}) = w[p] + rest
    BY <2>7
  <2>12. SumFunctionOnSet(w, T) = w[p] + SumFunctionOnSet(w, T \ {p})
    BY <2>4
  <2>13. SumFunctionOnSet(w, T) # w[x] + SumFunctionOnSet(w, T \ {x})
    BY <2>2
  <2>14. w[x] \in Int /\ w[p] \in Int
    BY <2>3
  <2> HIDE DEF rest
  <2> QED
    BY <2>8, <2>10, <2>11, <2>12, <2>13, <2>14
<1>2. Bad = {} => Fine(S, e)
  OBVIOUS
<1> QED
  BY <1>1, <1>2

LEMMA SumAdd ==
  ASSUME NEW S, IsFiniteSet(S), NEW e, e \notin S, NEW w, \A x \in S \cup {e} : w[x] \in Int
  PROVE  SumFunctionOnSet(w, S \cup {e}) = SumFunctionOnSet(w, S) + w[e]
<1>1. IsFiniteSet(S \cup {e}) /\ (S \cup {e}) \ {e} = S
  BY FS_AddElement
<1>2. SumFunctionOnSet(w, S) \in Int
  BY SumInt
<1> QED
  BY <1>1, <1>2, SumRemove

\* A sum depends on the values at its own indices alone.
LEMMA SumSame ==
  ASSUME NEW S, IsFiniteSet(S), NEW v, NEW w, \A x \in S : v[x] = w[x]
  PROVE  SumFunctionOnSet(v, S) = SumFunctionOnSet(w, S)
<1> DEFINE Bad == {T \in SUBSET S : SumFunctionOnSet(v, T) # SumFunctionOnSet(w, T)}
<1>1. ASSUME Bad # {} PROVE FALSE
  <2>1. PICK T \in Bad : \A U \in Bad : U \subseteq T => U = T
    <3> HIDE DEF Bad
    <3>1. Bad \in SUBSET (SUBSET S)
      BY DEF Bad
    <3> QED
      BY <1>1, <3>1, MinimalSubset
  <2>2. IsFiniteSet(T)
    BY FS_Subset
  <2>3. T # {}
    BY SumEmpty
  <2>4. Pick(T) \in T
    BY <2>3, Picked
  <2>5. SumFunctionOnSet(v, T \ {Pick(T)}) = SumFunctionOnSet(w, T \ {Pick(T)})
    BY <2>1, <2>4
  <2> QED
    BY <2>2, <2>3, <2>4, <2>5, SumRecursion
<1> QED
  BY <1>1

\* One term changes: the sum over the same indices moves by the difference.
LEMMA SumChange ==
  ASSUME NEW S, IsFiniteSet(S), NEW e \in S, NEW v, NEW w,
         \A x \in S : v[x] \in Int /\ w[x] \in Int,
         \A x \in S \ {e} : v[x] = w[x]
  PROVE  SumFunctionOnSet(v, S) = SumFunctionOnSet(w, S) - w[e] + v[e]
<1>1. IsFiniteSet(S \ {e})
  BY FS_Subset
<1>2. SumFunctionOnSet(v, S \ {e}) = SumFunctionOnSet(w, S \ {e})
  BY <1>1, SumSame
<1>3. SumFunctionOnSet(w, S \ {e}) \in Int
  BY <1>1, SumInt
<1>4. SumFunctionOnSet(v, S) = v[e] + SumFunctionOnSet(v, S \ {e})
  BY SumRemove
<1>5. SumFunctionOnSet(w, S) = w[e] + SumFunctionOnSet(w, S \ {e})
  BY SumRemove
<1> QED
  BY <1>2, <1>3, <1>4, <1>5

\* Sums of natural numbers are natural numbers.
LEMMA SumNat ==
  ASSUME NEW S, IsFiniteSet(S), NEW w, \A x \in S : w[x] \in Nat
  PROVE  SumFunctionOnSet(w, S) \in Nat
<1> DEFINE Bad == {T \in SUBSET S : SumFunctionOnSet(w, T) \notin Nat}
<1>1. ASSUME Bad # {} PROVE FALSE
  <2>1. PICK T \in Bad : \A U \in Bad : U \subseteq T => U = T
    <3> HIDE DEF Bad
    <3>1. Bad \in SUBSET (SUBSET S)
      BY DEF Bad
    <3> QED
      BY <1>1, <3>1, MinimalSubset
  <2>2. IsFiniteSet(T)
    BY FS_Subset
  <2>3. T # {}
    BY SumEmpty
  <2>4. Pick(T) \in T
    BY <2>3, Picked
  <2>5. SumFunctionOnSet(w, T \ {Pick(T)}) \in Nat
    BY <2>1, <2>4
  <2> QED
    BY <2>2, <2>3, <2>4, <2>5, SumRecursion
<1> QED
  BY <1>1

-----------------------------------------------------------------------------
HasGreatest(T) == \E x \in T : \A y \in T : x >= y

\* A finite set of integers that is not empty has a greatest member, Max(S).
LEMMA MaxIsGreatest ==
  ASSUME NEW S, IsFiniteSet(S), \A x \in S : x \in Int, S # {}
  PROVE  Max(S) \in S /\ \A y \in S : Max(S) >= y
<1> DEFINE Bad == {T \in SUBSET S : T # {} /\ ~ HasGreatest(T)}
<1>1. ASSUME Bad # {} PROVE FALSE
  <2>1. PICK T \in Bad : \A U \in Bad : U \subseteq T => U = T
    <3> HIDE DEF Bad
    <3>1. Bad \in SUBSET (SUBSET S)
      BY DEF Bad
    <3> QED
      BY <1>1, <3>1, MinimalSubset
  <2>2. PICK e \in T : TRUE
    BY <2>1
  <2>3. T \ {e} # {} => HasGreatest(T \ {e})
    <3>1. T \ {e} \in SUBSET S /\ T \ {e} \subseteq T /\ T \ {e} # T
      BY <2>2
    <3> QED
      BY <2>1, <3>1
  <2>4. HasGreatest(T)
    <3>1. CASE T \ {e} = {}
      BY <2>2, <3>1 DEF HasGreatest
    <3>2. CASE T \ {e} # {}
      <4>1. PICK x \in T \ {e} : \A y \in T \ {e} : x >= y
        BY <2>3, <3>2 DEF HasGreatest
      <4>2. CASE x >= e
        BY <4>1, <4>2 DEF HasGreatest
      <4>3. CASE e >= x
        BY <2>2, <4>1, <4>3 DEF HasGreatest
      <4> QED
        BY <2>2, <4>1, <4>2, <4>3
    <3> QED
      BY <3>1, <3>2
  <2> QED
    BY <2>1, <2>4
<1>2. HasGreatest(S)
  BY <1>1
<1> QED
  BY <1>2 DEF Max, HasGreatest

HasLeast(T) == \E x \in T : \A y \in T : x <= y

\* A finite set of integers that is not empty has a least member, Min(S).
LEMMA MinIsLeast ==
  ASSUME NEW S, IsFiniteSet(S), \A x \in S : x \in Int, S # {}
  PROVE  Min(S) \in S /\ \A y \in S : Min(S) <= y
<1> DEFINE Bad == {T \in SUBSET S : T # {} /\ ~ HasLeast(T)}
<1>1. ASSUME Bad # {} PROVE FALSE
  <2>1. PICK T \in Bad : \A U \in Bad : U \subseteq T => U = T
    <3> HIDE DEF Bad
    <3>1. Bad \in SUBSET (SUBSET S)
      BY DEF Bad
    <3> QED
      BY <1>1, <3>1, MinimalSubset
  <2>2. PICK e \in T : TRUE
    BY <2>1
  <2>3. T \ {e} # {} => HasLeast(T \ {e})
    <3>1. T \ {e} \in SUBSET S /\ T \ {e} \subseteq T /\ T \ {e} # T
      BY <2>2
    <3> QED
      BY <2>1, <3>1
  <2>4. HasLeast(T)
    <3>1. CASE T \ {e} = {}
      BY <2>2, <3>1 DEF HasLeast
    <3>2. CASE T \ {e} # {}
      <4>1. PICK x \in T \ {e} : \A y \in T \ {e} : x <= y
        BY <2>3, <3>2 DEF HasLeast
      <4>2. CASE x <= e
        BY <4>1, <4>2 DEF HasLeast
      <4>3. CASE e <= x
        BY <2>2, <4>1, <4>3 DEF HasLeast
      <4> QED
        BY <2>2, <4>1, <4>2, <4>3
    <3> QED
      BY <3>1, <3>2
  <2> QED
    BY <2>1, <2>4
<1>2. HasLeast(S)
  BY <1>1
<1> QED
  BY <1>2 DEF Min, HasLeast

\* A sum is at most the number of its terms times a bound on each.
LEMMA SumAtMost ==
  ASSUME NEW S, IsFiniteSet(S), NEW M \in Int, NEW w,
         \A x \in S : w[x] \in Int /\ w[x] <= M
  PROVE  SumFunctionOnSet(w, S) <= Cardinality(S) * M
<1> DEFINE Bad == {T \in SUBSET S : ~ (SumFunctionOnSet(w, T) <= Cardinality(T) * M)}
<1>1. ASSUME Bad # {} PROVE FALSE
  <2>1. PICK T \in Bad : \A U \in Bad : U \subseteq T => U = T
    <3> HIDE DEF Bad
    <3>1. Bad \in SUBSET (SUBSET S)
      BY DEF Bad
    <3> QED
      BY <1>1, <3>1, MinimalSubset
  <2>2. T \in SUBSET S /\ IsFiniteSet(T)
    BY FS_Subset
  <2>3. CASE T = {}
    <3>1. SumFunctionOnSet(w, T) = 0 /\ Cardinality(T) = 0
      BY <2>3, SumEmpty, FS_EmptySet
    <3> QED
      BY <3>1
  <2>4. CASE T # {}
    <3>1. PICK e \in T : TRUE
      BY <2>4
    <3>2. T \ {e} \notin Bad /\ T \ {e} \in SUBSET S
      BY <2>1, <2>2, <3>1
    <3>3. SumFunctionOnSet(w, T \ {e}) <= Cardinality(T \ {e}) * M
      BY <3>2
    <3>4. /\ IsFiniteSet(T \ {e}) /\ Cardinality(T \ {e}) = Cardinality(T) - 1
          /\ Cardinality(T) \in Nat
      BY <2>2, <3>1, FS_RemoveElement, FS_CardinalityType
    <3>5. \A x \in T : w[x] \in Int
      BY <2>2
    <3>6. /\ SumFunctionOnSet(w, T) = w[e] + SumFunctionOnSet(w, T \ {e})
          /\ SumFunctionOnSet(w, T \ {e}) \in Int
      BY <2>2, <3>1, <3>4, <3>5, SumRemove, SumInt
    <3>7. w[e] \in Int /\ w[e] <= M
      BY <2>2, <3>1
    <3>8. (Cardinality(T) - 1) * M + M = Cardinality(T) * M
          /\ (Cardinality(T) - 1) * M \in Int /\ Cardinality(T) * M \in Int
      BY <3>4
    <3>9. SumFunctionOnSet(w, T) <= Cardinality(T) * M
      BY <3>3, <3>4, <3>6, <3>7, <3>8
    <3> QED
      BY <3>9
  <2> QED
    BY <2>3, <2>4
<1> QED
  BY <1>1

\* Smaller terms have a smaller sum.
LEMMA SumBelow ==
  ASSUME NEW S, IsFiniteSet(S), NEW v, NEW w,
         \A x \in S : v[x] \in Int /\ w[x] \in Int /\ v[x] <= w[x]
  PROVE  SumFunctionOnSet(v, S) <= SumFunctionOnSet(w, S)
<1> DEFINE Bad == {T \in SUBSET S : ~ (SumFunctionOnSet(v, T) <= SumFunctionOnSet(w, T))}
<1>1. ASSUME Bad # {} PROVE FALSE
  <2>1. PICK T \in Bad : \A U \in Bad : U \subseteq T => U = T
    <3> HIDE DEF Bad
    <3>1. Bad \in SUBSET (SUBSET S)
      BY DEF Bad
    <3> QED
      BY <1>1, <3>1, MinimalSubset
  <2>2. T \in SUBSET S /\ IsFiniteSet(T)
    BY FS_Subset
  <2>3. T # {}
    <3>1. SumFunctionOnSet(v, {}) <= SumFunctionOnSet(w, {})
      BY SumEmpty
    <3> QED
      BY <3>1
  <2>4. PICK e \in T : TRUE
    BY <2>3
  <2>5. T \ {e} \notin Bad /\ T \ {e} \in SUBSET S /\ IsFiniteSet(T \ {e})
    BY <2>1, <2>2, <2>4, FS_Subset
  <2>6. SumFunctionOnSet(v, T \ {e}) <= SumFunctionOnSet(w, T \ {e})
    BY <2>5
  <2>7. /\ SumFunctionOnSet(v, T) = v[e] + SumFunctionOnSet(v, T \ {e})
        /\ SumFunctionOnSet(w, T) = w[e] + SumFunctionOnSet(w, T \ {e})
    <3>1. \A x \in T : v[x] \in Int /\ w[x] \in Int
      BY <2>2
    <3> QED
      BY <2>2, <2>4, <3>1, SumRemove
  <2>8. SumFunctionOnSet(v, T \ {e}) \in Int /\ SumFunctionOnSet(w, T \ {e}) \in Int
    BY <2>5, SumInt
  <2>9. v[e] \in Int /\ w[e] \in Int /\ v[e] <= w[e]
    BY <2>2, <2>4
  <2>10. ~ (SumFunctionOnSet(v, T) <= SumFunctionOnSet(w, T))
    BY <2>1
  <2> QED
    BY <2>6, <2>7, <2>8, <2>9, <2>10
<1> QED
  BY <1>1

\* A larger set of naturals has no smaller sum.
LEMMA SumMonotone ==
  ASSUME NEW T, IsFiniteSet(T), NEW w, \A x \in T : w[x] \in Nat, NEW S \in SUBSET T
  PROVE  SumFunctionOnSet(w, S) <= SumFunctionOnSet(w, T)
<1> DEFINE Bad == {U \in SUBSET T : ~ (SumFunctionOnSet(w, U \cap S) <= SumFunctionOnSet(w, U))}
<1>1. ASSUME Bad # {} PROVE FALSE
  <2>1. PICK U \in Bad : \A V \in Bad : V \subseteq U => V = U
    <3> HIDE DEF Bad
    <3>1. Bad \in SUBSET (SUBSET T)
      BY DEF Bad
    <3> QED
      BY <1>1, <3>1, MinimalSubset
  <2>2. U \in SUBSET T /\ IsFiniteSet(U) /\ IsFiniteSet(U \cap S)
    BY FS_Subset
  <2>3. U # {}
    <3>1. ASSUME U = {} PROVE FALSE
      <4>1. U \cap S = U
        BY <3>1
      <4>2. SumFunctionOnSet(w, U) = 0
        BY <3>1, SumEmpty
      <4> QED
        BY <4>1, <4>2
    <3> QED
      BY <3>1
  <2>4. PICK e \in U : TRUE
    BY <2>3
  <2>5. U \ {e} \notin Bad /\ U \ {e} \in SUBSET T
    BY <2>1, <2>2, <2>4
  <2>6. SumFunctionOnSet(w, (U \ {e}) \cap S) <= SumFunctionOnSet(w, U \ {e})
    BY <2>5
  <2>7. \A x \in U : w[x] \in Int /\ w[x] \in Nat
    BY <2>2
  <2>8. /\ SumFunctionOnSet(w, U) = w[e] + SumFunctionOnSet(w, U \ {e})
        /\ IsFiniteSet(U \ {e})
    BY <2>2, <2>4, <2>7, SumRemove, FS_RemoveElement
  <2>9. SumFunctionOnSet(w, U \ {e}) \in Int /\ w[e] \in Nat
    BY <2>4, <2>7, <2>8, SumInt
  <2>10. CASE e \in S
    <3> DEFINE W == U \cap S
    <3>1. e \in W /\ W \ {e} = (U \ {e}) \cap S /\ \A x \in W : w[x] \in Int
      BY <2>4, <2>7, <2>10
    <3>2. IsFiniteSet(W)
      BY <2>2
    <3> HIDE DEF W
    <3>3. SumFunctionOnSet(w, W) = w[e] + SumFunctionOnSet(w, W \ {e})
      BY <3>1, <3>2, SumRemove
    <3>4. SumFunctionOnSet(w, W \ {e}) \in Int
      <4>1. IsFiniteSet(W \ {e}) /\ \A x \in W \ {e} : w[x] \in Int
        BY <3>1, <3>2, FS_RemoveElement
      <4> QED
        BY <4>1, SumInt
    <3>5. SumFunctionOnSet(w, W \ {e}) <= SumFunctionOnSet(w, U \ {e})
      BY <2>6, <3>1
    <3>6. w[e] + SumFunctionOnSet(w, W \ {e}) <= w[e] + SumFunctionOnSet(w, U \ {e})
      BY <2>9, <3>4, <3>5
    <3>7. SumFunctionOnSet(w, W) <= SumFunctionOnSet(w, U)
      BY <2>8, <3>3, <3>6, Zenon
    <3> QED
      BY <3>7, Zenon DEF W
  <2>11. CASE e \notin S
    <3>1. U \cap S = (U \ {e}) \cap S
      BY <2>11
    <3>2. \A x \in U \cap S : w[x] \in Int
      BY <2>7
    <3>3. SumFunctionOnSet(w, U \cap S) \in Int
      BY <2>2, <3>2, SumInt
    <3>4. SumFunctionOnSet(w, U \ {e}) <= w[e] + SumFunctionOnSet(w, U \ {e})
      BY <2>9
    <3>5. SumFunctionOnSet(w, U \cap S) <= SumFunctionOnSet(w, U \ {e})
      BY <2>6, <3>1, Zenon
    <3>6. SumFunctionOnSet(w, U \cap S) <= w[e] + SumFunctionOnSet(w, U \ {e})
      <4> QED
        BY <2>9, <3>3, <3>4, <3>5
    <3> QED
      BY <2>8, <3>6, Zenon
  <2> QED
    BY <2>10, <2>11
<1>2. T \notin Bad /\ T \cap S = S
  BY <1>1
<1> QED
  BY <1>2

\* A sum counted at other places, each of them taken once.
LEMMA SumMoved ==
  ASSUME NEW S, IsFiniteSet(S), NEW at, NEW v, NEW w,
         \A x \in S : v[x] = w[at[x]] /\ v[x] \in Int,
         \A x, y \in S : at[x] = at[y] => x = y
  PROVE  SumFunctionOnSet(v, S) = SumFunctionOnSet(w, {at[x] : x \in S})
<1> DEFINE Places(T) == {at[x] : x \in T}
           Bad == {T \in SUBSET S : SumFunctionOnSet(v, T) # SumFunctionOnSet(w, Places(T))}
<1>1. ASSUME Bad # {} PROVE FALSE
  <2>1. PICK T \in Bad : \A U \in Bad : U \subseteq T => U = T
    <3> HIDE DEF Bad
    <3>1. Bad \in SUBSET (SUBSET S)
      BY DEF Bad
    <3> QED
      BY <1>1, <3>1, MinimalSubset
  <2>2. T \in SUBSET S /\ IsFiniteSet(T)
    BY FS_Subset
  <2>3. T # {}
    <3>1. ASSUME T = {} PROVE FALSE
      <4>1. Places(T) = {}
        BY <3>1
      <4>2. SumFunctionOnSet(v, {}) = 0 /\ SumFunctionOnSet(w, {}) = 0
        BY SumEmpty
      <4> QED
        BY <3>1, <4>1, <4>2
    <3> QED
      BY <3>1
  <2>4. PICK e \in T : TRUE
    BY <2>3
  <2>5. T \ {e} \notin Bad /\ T \ {e} \in SUBSET S
    BY <2>1, <2>2, <2>4
  <2>6. SumFunctionOnSet(v, T \ {e}) = SumFunctionOnSet(w, Places(T \ {e}))
    BY <2>5
  <2>7. SumFunctionOnSet(v, T) = v[e] + SumFunctionOnSet(v, T \ {e})
    <3>1. \A x \in T : v[x] \in Int
      BY <2>2
    <3> QED
      BY <2>2, <2>4, <3>1, SumRemove
  <2>8. SumFunctionOnSet(w, Places(T)) = w[at[e]] + SumFunctionOnSet(w, Places(T) \ {at[e]})
    <3>1. IsFiniteSet(Places(T)) /\ at[e] \in Places(T)
      <4>1. IsFiniteSet(Places(T))
        <5> DEFINE f == [x \in T |-> at[x]]
        <5>1. f \in Surjection(T, Places(T))
          BY DEF Surjection
        <5> HIDE DEF f, Places
        <5> QED
          BY <2>2, <5>1, FS_Surjection
      <4> QED
        BY <2>4, <4>1
    <3>2. \A x \in Places(T) : w[x] \in Int
      BY <2>2
    <3> HIDE DEF Places
    <3> QED
      BY <3>1, <3>2, SumRemove
  <2>9. Places(T) \ {at[e]} = Places(T \ {e})
    BY <2>2, <2>4
  <2>10. v[e] = w[at[e]]
    BY <2>2, <2>4
  <2> QED
    BY <2>6, <2>7, <2>8, <2>9, <2>10
<1> QED
  BY <1>1
=============================================================================
