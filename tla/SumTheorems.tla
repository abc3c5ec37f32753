---------------------------- MODULE SumTheorems ----------------------------
(***************************************************************************)
(* What SumOf of Tally returns for every finite set: its type, and that it *)
(* is a sum whatever the order of its terms. SumOf is a fold of the        *)
(* community modules, whose definition picks the terms one by one; the     *)
(* lemmas rest on a minimal subset in place of induction. So do those      *)
(* about a fold from the first place of a list to its last, at the end.    *)
(***************************************************************************)
EXTENDS Tally, FiniteSetTheorems, WellFoundedInduction, TLAPS

Picked(s) == CHOOSE x \in s : TRUE

OneMore(w, f, s) == IF s = {} THEN 0 ELSE w[Picked(s)] + f[s \ {Picked(s)}]

Sums(w, S) == CHOOSE f : f = [s \in SUBSET S |-> OneMore(w, f, s)]

\* SumOf is the value, at the whole set, of the function that sums every subset.
LEMMA SumOfIsSums ==
  ASSUME NEW w, NEW S
  PROVE SumOf(w, S) = Sums(w, S)[S]
BY DEF SumOf, MapThenSumSet, MapThenFoldSet, Sums, OneMore, Picked

\* A nonempty family of subsets of a finite set has one with no smaller in the
\* family: what stands in for induction below.
LEMMA MinimalSubset ==
  ASSUME NEW S, IsFiniteSet(S), NEW F \in SUBSET (SUBSET S), F # {}
  PROVE \E T \in F : \A U \in F : U \subseteq T => U = T
<1>1. IsWellFoundedOn(StrictSubsetOrdering(S), SUBSET S)
  BY FS_StrictSubsetOrderingWellFounded, FS_FiniteSubsetsOfFinite
<1>2. PICK T \in F : \A U \in F : ~(<<U, T>> \in StrictSubsetOrdering(S))
  BY <1>1, WFMin
<1> QED
  BY <1>2 DEF StrictSubsetOrdering

\* A nonempty set of natural numbers has a least one.
LEMMA LeastNumber ==
  ASSUME NEW T \in SUBSET Nat, T # {}
  PROVE \E n \in T : \A m \in T : n <= m
<1>1. PICK k \in T : k \in Nat
  OBVIOUS
<1>2. PICK K : K = 1 .. k /\ IsFiniteSet(K)
  BY <1>1, FS_Interval
<1>3. PICK F : F = {V \in SUBSET K : \E n \in T : n <= k /\ V = 1 .. n}
  OBVIOUS
<1>4. F \subseteq SUBSET K /\ F # {}
  <2>1. K \in F
    BY <1>1, <1>2, <1>3
  <2> QED
    BY <1>3, <2>1
<1>5. PICK U \in F : \A V \in F : V \subseteq U => V = U
  <2>1. IsFiniteSet(K)
    BY <1>2
  <2>2. F \in SUBSET (SUBSET K)
    BY <1>4
  <2>3. F # {}
    BY <1>4
  <2> QED
    BY ONLY <2>1, <2>2, <2>3, MinimalSubset
<1>6. PICK n \in T : n <= k /\ U = 1 .. n
  BY <1>3, <1>5
<1>7. ASSUME NEW m \in T, m < n
      PROVE  FALSE
  <2>1. m \in Nat /\ n \in Nat /\ m <= k
    BY <1>1, <1>6, <1>7
  <2>2. 1 .. m \subseteq U /\ 1 .. m \subseteq K
    BY <1>1, <1>2, <1>6, <1>7, <2>1
  <2>3. 1 .. m \in F
    BY <1>3, <2>1, <2>2
  <2>4. n \in 1 .. m
    BY <1>5, <1>6, <1>7, <2>1, <2>2, <2>3
  <2> QED
    BY <1>7, <2>1, <2>4
<1> QED
  <2>1. \A m \in T : m \in Nat /\ n \in Nat
    BY <1>6
  <2> QED
    BY <1>6, <1>7, <2>1

\* The recursive definition behind the fold has a solution over a finite set.
LEMMA SumsExist ==
  ASSUME NEW S, IsFiniteSet(S), NEW w
  PROVE Sums(w, S) = [s \in SUBSET S |-> OneMore(w, Sums(w, S), s)]
<1> DEFINE Small(n) == {s \in SUBSET S : Cardinality(s) <= n}
           Fails == {n \in Nat : ~ \E f : f = [s \in Small(n) |-> OneMore(w, f, s)]}
<1>0. \A s \in SUBSET S : IsFiniteSet(s) /\ Cardinality(s) \in Nat
                          /\ Cardinality(s) <= Cardinality(S)
  BY FS_Subset, FS_CardinalityType
<1>a. \A s \in SUBSET S : s # {} => 
        /\ s \ {Picked(s)} \in SUBSET S
        /\ Cardinality(s \ {Picked(s)}) = Cardinality(s) - 1
  BY <1>0, FS_RemoveElement DEF Picked
<1>b. \A s \in SUBSET S : Cardinality(s) = 0 <=> s = {}
  BY <1>0, FS_EmptySet
<1>1. 0 \notin Fails
  <2> DEFINE f == [s \in Small(0) |-> 0]
  <2>1. \A s \in Small(0) : s = {}
    BY <1>0, <1>b
  <2>2. f = [s \in Small(0) |-> OneMore(w, f, s)]
    BY <2>1 DEF OneMore
  <2> QED
    BY <2>2
<1>2. ASSUME NEW n \in Nat, n \notin Fails
      PROVE  n + 1 \notin Fails
  <2>1. PICK f : f = [s \in Small(n) |-> OneMore(w, f, s)]
    BY <1>2
  <2> DEFINE g == [s \in Small(n + 1) |-> OneMore(w, f, s)]
  <2>2. \A s \in Small(n + 1) : s # {} => s \ {Picked(s)} \in Small(n)
    BY <1>a, <1>0
  <2>3. \A s \in Small(n) : s \in Small(n + 1) /\ g[s] = f[s]
    BY <2>1, <1>0
  <2>4. \A s \in Small(n + 1) : OneMore(w, g, s) = OneMore(w, f, s)
    BY <2>2, <2>3 DEF OneMore
  <2>5. g = [s \in Small(n + 1) |-> OneMore(w, g, s)]
    BY <2>4
  <2> QED
    BY <2>5
<1>3. Fails = {}
  <2> SUFFICES ASSUME Fails # {} PROVE FALSE
    OBVIOUS
  <2>1. PICK n \in Fails : \A m \in Fails : n <= m
    BY LeastNumber
  <2> HIDE DEF Fails
  <2>2. n \in Nat
    BY <2>1 DEF Fails
  <2>3. CASE n = 0
    BY <2>3, <1>1
  <2>4. CASE n # 0
    BY <1>2, <2>1, <2>2, <2>4, n - 1 \in Nat, (n - 1) + 1 = n
  <2> QED
    BY <2>3, <2>4
<1>4. Small(Cardinality(S)) = SUBSET S
  BY <1>0
<1>5. \E f : f = [s \in SUBSET S |-> OneMore(w, f, s)]
  <2>1. S \in SUBSET S /\ Cardinality(S) \in Nat
    BY <1>0
  <2>2. \E f : f = [s \in Small(Cardinality(S)) |-> OneMore(w, f, s)]
    BY <1>3, <2>1
  <2> QED
    BY <2>2, <1>4
<1> QED
  BY <1>5 DEF Sums

\* The sum of a set is the term picked first and the sum of the others.
LEMMA SumsStep ==
  ASSUME NEW S, IsFiniteSet(S), NEW w, NEW s \in SUBSET S
  PROVE  Sums(w, S)[s] = OneMore(w, Sums(w, S), s)
<1>1. PICK g : g = [t \in SUBSET S |-> OneMore(w, Sums(w, S), t)]
  OBVIOUS
<1>2. g[s] = OneMore(w, Sums(w, S), s)
  BY <1>1
<1>3. Sums(w, S) = g
  BY <1>1, SumsExist
<1> QED
  BY <1>2, <1>3

\* What is picked comes from the set, and leaves a smaller one.
LEMMA PickedFrom ==
  ASSUME NEW S, NEW s \in SUBSET S, s # {}
  PROVE  /\ Picked(s) \in s
         /\ s \ {Picked(s)} \in SUBSET S
         /\ s \ {Picked(s)} \subseteq s
         /\ s \ {Picked(s)} # s
BY DEF Picked

\* A sum of integers is an integer.
LEMMA SumsType ==
  ASSUME NEW S, IsFiniteSet(S), NEW w, \A x \in S : w[x] \in Int,
         NEW s \in SUBSET S
  PROVE  Sums(w, S)[s] \in Int
<1>1. PICK f : f = Sums(w, S)
  OBVIOUS
<1>2. PICK F : F = {t \in SUBSET S : f[t] \notin Int}
  OBVIOUS
<1>3. CASE F # {}
  <2>1. F \in SUBSET (SUBSET S)
    BY <1>2
  <2>2. PICK t \in F : \A u \in F : u \subseteq t => u = t
    BY <2>1, <1>3, MinimalSubset
  <2>3. t \in SUBSET S /\ f[t] \notin Int /\ f[t] = OneMore(w, f, t)
    BY <1>1, <1>2, <2>2, SumsStep
  <2>4. t # {}
    BY <2>3 DEF OneMore
  <2>5. f[t \ {Picked(t)}] \in Int
    BY <1>2, <2>2, <2>3, <2>4, PickedFrom
  <2>6. w[Picked(t)] \in Int
    BY <2>3, <2>4, PickedFrom
  <2> QED
    BY <2>3, <2>4, <2>5, <2>6 DEF OneMore
<1> QED
  BY <1>1, <1>2, <1>3

\* Only the terms of a set count, not the function or the set they are taken from.
LEMMA SumsSame ==
  ASSUME NEW S, IsFiniteSet(S), NEW T, IsFiniteSet(T), NEW w, NEW v,
         NEW s, s \subseteq S, s \subseteq T, \A x \in s : w[x] = v[x]
  PROVE  Sums(w, S)[s] = Sums(v, T)[s]
<1>1. PICK f : f = Sums(w, S)
  OBVIOUS
<1>2. PICK g : g = Sums(v, T)
  OBVIOUS
<1>3. PICK F : F = {t \in SUBSET S : t \subseteq s /\ f[t] # g[t]}
  OBVIOUS
<1>4. CASE F # {}
  <2>1. F \in SUBSET (SUBSET S)
    BY <1>3
  <2>2. PICK t \in F : \A u \in F : u \subseteq t => u = t
    BY <2>1, <1>4, MinimalSubset
  <2>3. t \in SUBSET S /\ t \in SUBSET T /\ t \subseteq s /\ f[t] # g[t]
    BY <1>3, <2>2
  <2>4. f[t] = OneMore(w, f, t) /\ g[t] = OneMore(v, g, t)
    BY <1>1, <1>2, <2>3, SumsStep
  <2>5. t # {}
    BY <2>3, <2>4 DEF OneMore
  <2>6. f[t \ {Picked(t)}] = g[t \ {Picked(t)}]
    BY <1>3, <2>2, <2>3, <2>5, PickedFrom
  <2>7. w[Picked(t)] = v[Picked(t)]
    BY <2>3, <2>5, PickedFrom
  <2> QED
    BY <2>3, <2>4, <2>5, <2>6, <2>7 DEF OneMore
<1> QED
  BY <1>1, <1>2, <1>3, <1>4

\* Any term may be taken out first, not only the one that is picked.
LEMMA SumsAnyOrder ==
  ASSUME NEW S, IsFiniteSet(S), NEW w, \A x \in S : w[x] \in Int,
         NEW s \in SUBSET S, NEW x \in s
  PROVE  Sums(w, S)[s] = w[x] + Sums(w, S)[s \ {x}]
<1>1. PICK f : f = Sums(w, S)
  OBVIOUS
<1>2. PICK F : F = {t \in SUBSET S : \E y \in t : f[t] # w[y] + f[t \ {y}]}
  OBVIOUS
<1>3. CASE F # {}
  <2>1. F \in SUBSET (SUBSET S)
    BY <1>2
  <2>2. PICK t \in F : \A u \in F : u \subseteq t => u = t
    BY <2>1, <1>3, MinimalSubset
  <2>3. PICK y \in t : f[t] # w[y] + f[t \ {y}]
    BY <1>2, <2>2
  <2>4. PICK c : c = Picked(t)
    OBVIOUS
  <2>5. t \in SUBSET S /\ t # {}
    BY <1>2, <2>2, <2>3
  <2>6. c \in t /\ t \ {c} \in SUBSET S /\ t \ {y} \in SUBSET S
        /\ (t \ {c}) \ {y} \in SUBSET S
    BY <2>4, <2>5, PickedFrom
  <2>7. f[t] = w[c] + f[t \ {c}]
    BY <1>1, <2>4, <2>5, SumsStep DEF OneMore
  <2>8. y # c
    BY <2>3, <2>7
  <2>9. t \ {c} \notin F /\ t \ {y} \notin F
    BY <2>2, <2>3, <2>6
  <2>10. f[t \ {c}] = w[y] + f[(t \ {c}) \ {y}]
    BY <1>2, <2>3, <2>6, <2>8, <2>9
  <2>11. f[t \ {y}] = w[c] + f[(t \ {y}) \ {c}]
    BY <1>2, <2>3, <2>6, <2>8, <2>9
  <2>12. (t \ {c}) \ {y} = (t \ {y}) \ {c}
    OBVIOUS
  <2>13. w[c] \in Int /\ w[y] \in Int /\ f[(t \ {c}) \ {y}] \in Int
    BY <1>1, <2>3, <2>5, <2>6, SumsType
  <2>14. PICK a, b, d \in Int : /\ a = w[c]
                               /\ b = w[y]
                               /\ d = f[(t \ {c}) \ {y}]
    BY <2>13
  <2>15. f[t] = a + (b + d) /\ f[t \ {y}] = a + d
    BY <2>7, <2>10, <2>11, <2>12, <2>14
  <2>16. f[t] = w[y] + f[t \ {y}]
    BY <2>14, <2>15
  <2> QED
    BY <2>3, <2>16
<1> QED
  BY <1>1, <1>2, <1>3

\* SumOf: any term and the sum of the others.
LEMMA SumsSplit ==
  ASSUME NEW S, IsFiniteSet(S), NEW w, \A x \in S : w[x] \in Int, NEW x \in S
  PROVE  /\ SumOf(w, S \ {x}) \in Int
         /\ SumOf(w, S) = w[x] + SumOf(w, S \ {x})
<1>1. IsFiniteSet(S \ {x}) /\ S \ {x} \in SUBSET S /\ S \in SUBSET S
  BY FS_RemoveElement
<1>2. Sums(w, S)[S \ {x}] = Sums(w, S \ {x})[S \ {x}]
  BY <1>1, SumsSame
<1>3. SumOf(w, S \ {x}) = Sums(w, S)[S \ {x}]
  BY <1>2, SumOfIsSums
<1>4. Sums(w, S)[S] = w[x] + Sums(w, S)[S \ {x}]
  BY <1>1, SumsAnyOrder
<1>5. Sums(w, S)[S \ {x}] \in Int
  BY <1>1, SumsType
<1> QED
  BY <1>3, <1>4, <1>5, SumOfIsSums

\* SumOf: nothing adds up to zero.
LEMMA SumOfEmpty ==
  ASSUME NEW w
  PROVE  SumOf(w, {}) = 0
<1>1. Sums(w, {})[{}] = OneMore(w, Sums(w, {}), {})
  BY FS_EmptySet, SumsStep
<1> QED
  BY <1>1, SumOfIsSums DEF OneMore

\* SumOf: a finite sum of integers is an integer.
LEMMA SumOfType ==
  ASSUME NEW S, IsFiniteSet(S), NEW w, \A x \in S : w[x] \in Int
  PROVE  SumOf(w, S) \in Int
BY SumOfIsSums, SumsType

\* SumOf: equal terms have equal sums.
LEMMA SumOfSame ==
  ASSUME NEW S, IsFiniteSet(S), NEW w, NEW v, \A x \in S : w[x] = v[x]
  PROVE  SumOf(w, S) = SumOf(v, S)
BY SumOfIsSums, SumsSame

\* SumOf: one term more.
LEMMA SumOfAdd ==
  ASSUME NEW S, IsFiniteSet(S), NEW x, x \notin S,
         NEW w, \A y \in S \cup {x} : w[y] \in Int
  PROVE  SumOf(w, S \cup {x}) = w[x] + SumOf(w, S)
<1>1. IsFiniteSet(S \cup {x}) /\ (S \cup {x}) \ {x} = S
  BY FS_AddElement
<1>2. SumOf(w, S \cup {x}) = w[x] + SumOf(w, (S \cup {x}) \ {x})
  BY <1>1, SumsSplit
<1> QED
  BY <1>1, <1>2

\* SumOf: a change of one term changes the sum by as much. What a movement does
\* to the total of a lot (prisma-sale-stock.ts).
LEMMA SumOfChange ==
  ASSUME NEW S, IsFiniteSet(S), NEW x \in S,
         NEW w, \A y \in S : w[y] \in Int,
         NEW v, \A y \in S : v[y] \in Int,
         \A y \in S \ {x} : v[y] = w[y]
  PROVE  SumOf(v, S) = SumOf(w, S) - w[x] + v[x]
<1>1. /\ SumOf(w, S \ {x}) \in Int
      /\ SumOf(w, S) = w[x] + SumOf(w, S \ {x})
  BY SumsSplit
<1>2. SumOf(v, S) = v[x] + SumOf(v, S \ {x})
  BY SumsSplit
<1>3. SumOf(v, S \ {x}) = SumOf(w, S \ {x})
  BY FS_RemoveElement, SumOfSame
<1>4. PICK a, b, c \in Int : a = w[x] /\ b = v[x] /\ c = SumOf(w, S \ {x})
  BY <1>1
<1> QED
  BY <1>1, <1>2, <1>3, <1>4

\* SumOf: the sum of two functions.
LEMMA SumOfPlus ==
  ASSUME NEW S, IsFiniteSet(S),
         NEW w, \A x \in S : w[x] \in Int,
         NEW v, \A x \in S : v[x] \in Int
  PROVE  SumOf([x \in S |-> w[x] + v[x]], S) = SumOf(w, S) + SumOf(v, S)
<1>1. PICK z : z = [x \in S |-> w[x] + v[x]]
  OBVIOUS
<1>2. PICK F : F = {T \in SUBSET S : SumOf(z, T) # SumOf(w, T) + SumOf(v, T)}
  OBVIOUS
<1>3. CASE F # {}
  <2>1. F \in SUBSET (SUBSET S)
    BY <1>2
  <2>2. PICK T \in F : \A U \in F : U \subseteq T => U = T
    BY <2>1, <1>3, MinimalSubset
  <2>3. T \in SUBSET S /\ SumOf(z, T) # SumOf(w, T) + SumOf(v, T)
    BY <1>2, <2>2
  <2>4. IsFiniteSet(T)
    BY <2>3, FS_Subset
  <2>5. T # {}
    BY <2>3, SumOfEmpty
  <2>6. PICK x \in T : TRUE
    BY <2>5
  <2>7. SumOf(z, T \ {x}) = SumOf(w, T \ {x}) + SumOf(v, T \ {x})
    BY <1>2, <2>2, <2>3, <2>6
  <2>8. \A y \in T : w[y] \in Int /\ v[y] \in Int /\ z[y] \in Int /\ z[y] = w[y] + v[y]
    BY <1>1, <2>3
  <2>9. /\ SumOf(w, T \ {x}) \in Int /\ SumOf(w, T) = w[x] + SumOf(w, T \ {x})
        /\ SumOf(v, T \ {x}) \in Int /\ SumOf(v, T) = v[x] + SumOf(v, T \ {x})
        /\ SumOf(z, T) = z[x] + SumOf(z, T \ {x})
    BY <2>4, <2>8, SumsSplit
  <2>10. PICK a, b, c, d \in Int : /\ a = w[x] /\ b = v[x]
                                  /\ c = SumOf(w, T \ {x}) /\ d = SumOf(v, T \ {x})
    BY <2>8, <2>9
  <2> QED
    BY <2>3, <2>7, <2>8, <2>9, <2>10
<1> QED
  BY <1>1, <1>2, <1>3

\* SumOf: zeros add up to zero.
LEMMA SumOfZero ==
  ASSUME NEW S, IsFiniteSet(S), NEW w, \A x \in S : w[x] = 0
  PROVE  SumOf(w, S) = 0
<1>1. PICK z : z = [x \in S |-> w[x] + w[x]]
  OBVIOUS
<1>2. \A x \in S : w[x] \in Int /\ z[x] = w[x]
  BY <1>1
<1>3. PICK n \in Int : n = SumOf(w, S)
  BY <1>2, SumOfType
<1>4. SumOf(z, S) = n + n
  BY <1>1, <1>2, <1>3, SumOfPlus
<1>5. SumOf(z, S) = n
  BY <1>2, <1>3, SumOfSame
<1>6. n + n = n
  BY ONLY <1>4, <1>5
<1>7. n = 0
  BY ONLY <1>6, n \in Int
<1> QED
  BY ONLY <1>3, <1>7

\* SumOf: a sum of natural numbers is a natural number.
LEMMA SumOfNat ==
  ASSUME NEW S, IsFiniteSet(S), NEW w, \A x \in S : w[x] \in Nat
  PROVE  SumOf(w, S) \in Nat
<1>1. PICK f : f = Sums(w, S)
  OBVIOUS
<1>2. PICK F : F = {t \in SUBSET S : f[t] \notin Nat}
  OBVIOUS
<1>3. CASE F # {}
  <2>1. F \in SUBSET (SUBSET S)
    BY <1>2
  <2>2. PICK t \in F : \A u \in F : u \subseteq t => u = t
    BY <2>1, <1>3, MinimalSubset
  <2>3. t \in SUBSET S /\ f[t] \notin Nat /\ f[t] = OneMore(w, f, t)
    BY <1>1, <1>2, <2>2, SumsStep
  <2>4. t # {}
    BY <2>3 DEF OneMore
  <2>5. f[t \ {Picked(t)}] \in Nat
    BY <1>2, <2>2, <2>3, <2>4, PickedFrom
  <2>6. w[Picked(t)] \in Nat
    BY <2>3, <2>4, PickedFrom
  <2> QED
    BY <2>3, <2>4, <2>5, <2>6 DEF OneMore
<1>4. CASE F = {}
  <2>1. S \in SUBSET S
    OBVIOUS
  <2> QED
    BY <1>1, <1>2, <1>4, <2>1, SumOfIsSums
<1> QED
  BY <1>3, <1>4

\* SumOf: no term is more than the sum of natural numbers it is part of.
LEMMA SumOfTerm ==
  ASSUME NEW S, IsFiniteSet(S), NEW w, \A x \in S : w[x] \in Nat, NEW x \in S
  PROVE  /\ SumOf(w, S \ {x}) \in Nat
         /\ SumOf(w, S) = w[x] + SumOf(w, S \ {x})
         /\ w[x] <= SumOf(w, S)
<1>1. IsFiniteSet(S \ {x})
  BY FS_RemoveElement
<1>2. SumOf(w, S \ {x}) \in Nat
  BY <1>1, SumOfNat
<1>3. SumOf(w, S) = w[x] + SumOf(w, S \ {x})
  BY SumsSplit
<1>4. w[x] \in Nat
  OBVIOUS
<1> QED
  BY <1>2, <1>3, <1>4

\* SumOf: the sums of the groups of a partition add up to the whole. What the
\* entry settles, shared out among the owners (prisma-oversale-settlement.ts).
LEMMA SumOfGroups ==
  ASSUME NEW S, IsFiniteSet(S), NEW G, IsFiniteSet(G),
         NEW group, \A x \in S : group[x] \in G,
         NEW w, \A x \in S : w[x] \in Int
  PROVE  SumOf([g \in G |-> SumOf(w, {x \in S : group[x] = g})], G) = SumOf(w, S)
<1> DEFINE Part(T, g) == {x \in T : group[x] = g}
           Whole(T) == SumOf([g \in G |-> SumOf(w, Part(T, g))], G)
<1>1. PICK F : F = {T \in SUBSET S : Whole(T) # SumOf(w, T)}
  OBVIOUS
<1>2. \A T \in SUBSET S : /\ IsFiniteSet(T)
                          /\ \A g \in G : IsFiniteSet(Part(T, g)) /\ SumOf(w, Part(T, g)) \in Int
  <2> TAKE T \in SUBSET S
  <2>1. IsFiniteSet(T)
    BY FS_Subset
  <2>2. ASSUME NEW g \in G
        PROVE  IsFiniteSet(Part(T, g)) /\ SumOf(w, Part(T, g)) \in Int
    <3>1. Part(T, g) \in SUBSET S
      OBVIOUS
    <3> HIDE DEF Part
    <3> QED
      BY <3>1, FS_Subset, SumOfType
  <2> QED
    BY <2>1, <2>2
<1>3. CASE F # {}
  <2>1. F \in SUBSET (SUBSET S)
    BY <1>1
  <2>2. PICK T \in F : \A U \in F : U \subseteq T => U = T
    BY <2>1, <1>3, MinimalSubset
  <2>3. T \in SUBSET S /\ Whole(T) # SumOf(w, T)
    BY <1>1, <2>2
  <2>4. T # {}
    <3> SUFFICES ASSUME T = {} PROVE FALSE
      OBVIOUS
    <3>1. \A g \in G : Part(T, g) = {}
      OBVIOUS
    <3>2. PICK v : v = [g \in G |-> SumOf(w, Part(T, g))]
      OBVIOUS
    <3> HIDE DEF Part
    <3>3. \A g \in G : v[g] = 0
      BY <3>1, <3>2, SumOfEmpty
    <3>4. Whole(T) = 0
      BY <3>2, <3>3, SumOfZero
    <3> QED
      BY <2>3, <3>4, SumOfEmpty
  <2>5. PICK x \in T : TRUE
    BY <2>4
  <2>6. PICK U \in SUBSET S : U = T \ {x} /\ x \notin U /\ T = U \cup {x}
    <3>1. T \ {x} \in SUBSET S /\ x \notin T \ {x} /\ T = (T \ {x}) \cup {x}
      BY <2>3, <2>5
    <3> QED
      BY <3>1
  <2>7. Whole(U) = SumOf(w, U)
    BY <1>1, <2>2, <2>5, <2>6
  <2>8. /\ \A g \in G \ {group[x]} : Part(T, g) = Part(U, g)
        /\ Part(T, group[x]) = Part(U, group[x]) \cup {x}
        /\ x \notin Part(U, group[x])
        /\ group[x] \in G /\ x \in S /\ w[x] \in Int
        /\ Part(T, group[x]) \in SUBSET S
    BY <2>3, <2>5, <2>6
  <2>9. PICK v : v = [g \in G |-> SumOf(w, Part(T, g))]
    OBVIOUS
  <2>10. PICK u : u = [g \in G |-> SumOf(w, Part(U, g))]
    OBVIOUS
  <2>11. Whole(T) = SumOf(v, G) /\ Whole(U) = SumOf(u, G)
    BY <2>9, <2>10
  <2> HIDE DEF Part, Whole
  <2>12. \A g \in G : v[g] \in Int /\ u[g] \in Int
    BY <1>2, <2>3, <2>6, <2>9, <2>10
  <2>13. \A g \in G \ {group[x]} : v[g] = u[g]
    BY <2>8, <2>9, <2>10
  <2>14. v[group[x]] = w[x] + u[group[x]]
    <3>1. PICK P : P = Part(U, group[x])
      OBVIOUS
    <3>2. P \cup {x} \in SUBSET S /\ IsFiniteSet(P) /\ x \notin P
      BY <1>2, <2>6, <2>8, <3>1
    <3>3. SumOf(w, P \cup {x}) = w[x] + SumOf(w, P)
      BY <3>2, SumOfAdd
    <3> QED
      BY <2>8, <2>9, <2>10, <3>1, <3>3
  <2>15. SumOf(v, G) = SumOf(u, G) - u[group[x]] + v[group[x]]
    BY <2>8, <2>12, <2>13, SumOfChange
  <2>16. SumOf(w, T) = w[x] + SumOf(w, U)
    <3>1. \A y \in U \cup {x} : w[y] \in Int
      BY <2>3, <2>6
    <3> QED
      BY <1>2, <2>6, <3>1, SumOfAdd
  <2>17. PICK a, b, c \in Int : a = w[x] /\ b = u[group[x]] /\ c = SumOf(u, G)
    BY <2>8, <2>12, SumOfType
  <2>18. SumOf(v, G) = c - b + (a + b) /\ SumOf(w, T) = a + c
    BY <2>7, <2>11, <2>14, <2>15, <2>16, <2>17
  <2> QED
    BY <2>3, <2>11, <2>18
<1>4. S \in SUBSET S
  OBVIOUS
<1> QED
  BY <1>1, <1>3, <1>4

\* SumOf: a sum is the sum over a part and over the rest.
LEMMA SumOfSplit ==
  ASSUME NEW S, IsFiniteSet(S), NEW T \in SUBSET S, NEW w, \A x \in S : w[x] \in Int
  PROVE  /\ SumOf(w, T) \in Int /\ SumOf(w, S \ T) \in Int
         /\ SumOf(w, S) = SumOf(w, T) + SumOf(w, S \ T)
<1>1. PICK group : group = [x \in S |-> IF x \in T THEN 1 ELSE 2]
  OBVIOUS
<1>2. PICK G : G = {1, 2}
  OBVIOUS
<1>3. PICK h : h = [g \in G |-> SumOf(w, {x \in S : group[x] = g})]
  OBVIOUS
<1>4. {x \in S : group[x] = 1} = T /\ {x \in S : group[x] = 2} = S \ T
  BY <1>1
<1>5. h[1] = SumOf(w, T) /\ h[2] = SumOf(w, S \ T)
  BY <1>2, <1>4, <1>3
<1>6. SumOf(w, T) \in Int /\ SumOf(w, S \ T) \in Int
  BY SumOfType, FS_Subset
<1>7. PICK one : one = {1} /\ IsFiniteSet(one) /\ IsFiniteSet({})
  BY FS_EmptySet, FS_Singleton
<1>8. G = one \cup {2} /\ one = {} \cup {1} /\ IsFiniteSet(G)
  BY <1>2, <1>7, FS_AddElement
<1>9. SumOf(h, G) = SumOf(w, S)
  <2>1. \A x \in S : group[x] \in G
    BY <1>1, <1>2
  <2>2. SumOf([g \in G |-> SumOf(w, {x \in S : group[x] = g})], G) = SumOf(w, S)
    <3>1. IsFiniteSet(G)
      BY <1>8
    <3> QED
      BY ONLY IsFiniteSet(S), <3>1, <2>1, \A x \in S : w[x] \in Int, SumOfGroups
  <2> QED
    BY <1>3, <2>2
<1>10. SumOf(h, G) = h[2] + h[1]
  <2>1. SumOf(h, one) = h[1] + SumOf(h, {})
    BY <1>5, <1>6, <1>7, <1>8, SumOfAdd
  <2>2. 2 \notin one /\ \A y \in one \cup {2} : h[y] \in Int
    BY <1>5, <1>6, <1>7
  <2>3. SumOf(h, G) = h[2] + SumOf(h, one)
    BY <1>7, <1>8, <2>2, SumOfAdd
  <2> QED
    BY <1>5, <1>6, <2>1, <2>3, SumOfEmpty
<1> QED
  BY <1>5, <1>6, <1>9, <1>10

\* SumOf: a single term.
LEMMA SumOfOne ==
  ASSUME NEW w, NEW x, w[x] \in Int
  PROVE  SumOf(w, {x}) = w[x]
<1>1. PICK none : none = {} /\ IsFiniteSet(none) /\ none \cup {x} = {x}
  BY FS_EmptySet
<1>2. SumOf(w, none \cup {x}) = w[x] + SumOf(w, none)
  BY <1>1, SumOfAdd
<1> QED
  BY <1>1, <1>2, SumOfEmpty

\* SumOf: a part of natural numbers adds up to no more than the whole.
LEMMA SumOfPart ==
  ASSUME NEW S, IsFiniteSet(S), NEW T \in SUBSET S, NEW w, \A x \in S : w[x] \in Nat
  PROVE  SumOf(w, T) \in Nat /\ SumOf(w, T) <= SumOf(w, S)
<1>1. \A x \in S : w[x] \in Int
  OBVIOUS
<1>2. SumOf(w, S) = SumOf(w, T) + SumOf(w, S \ T)
  BY <1>1, SumOfSplit
<1>3. IsFiniteSet(T) /\ IsFiniteSet(S \ T)
  BY FS_Subset
<1>4. SumOf(w, T) \in Nat /\ SumOf(w, S \ T) \in Nat
  BY <1>3, SumOfNat
<1> QED
  BY <1>2, <1>4

\* SumOf: the sum over a part is the sum over the whole with zeros elsewhere.
LEMMA SumOfWhere ==
  ASSUME NEW S, IsFiniteSet(S), NEW T \in SUBSET S, NEW w, \A x \in T : w[x] \in Int
  PROVE  SumOf([x \in S |-> IF x \in T THEN w[x] ELSE 0], S) = SumOf(w, T)
<1>1. PICK v : v = [x \in S |-> IF x \in T THEN w[x] ELSE 0]
  OBVIOUS
<1>2. /\ \A x \in S : v[x] \in Int
      /\ \A x \in T : v[x] = w[x]
      /\ \A x \in S \ T : v[x] = 0
  BY <1>1
<1>3. SumOf(v, T) \in Int /\ SumOf(v, S) = SumOf(v, T) + SumOf(v, S \ T)
  BY <1>2, SumOfSplit
<1>4. IsFiniteSet(T) /\ IsFiniteSet(S \ T)
  BY FS_Subset
<1>5. SumOf(v, T) = SumOf(w, T)
  BY <1>2, <1>4, SumOfSame
<1>6. SumOf(v, S \ T) = 0
  BY <1>2, <1>4, SumOfZero
<1>7. SumOf(v, S) = SumOf(w, T)
  BY <1>3, <1>5, <1>6
<1> QED
  BY <1>1, <1>7

\* SumOf: terms numbered in another way have the same sum. A list after its
\* first item, the rows an entry rewrites (prisma-oversale-settlement.ts).
LEMMA SumOfRenamed ==
  ASSUME NEW S, IsFiniteSet(S), NEW T, IsFiniteSet(T),
         NEW f, \A x \in S : f[x] \in T,
         \A x, y \in S : f[x] = f[y] => x = y,
         \A z \in T : \E x \in S : f[x] = z,
         NEW w, \A x \in S : w[x] \in Int,
         NEW v, \A x \in S : v[f[x]] = w[x]
  PROVE  SumOf(v, T) = SumOf(w, S)
<1>1. PICK h : h = [z \in T |-> SumOf(w, {x \in S : f[x] = z})]
  OBVIOUS
<1>2. SumOf(h, T) = SumOf(w, S)
  <2>1. SumOf([z \in T |-> SumOf(w, {x \in S : f[x] = z})], T) = SumOf(w, S)
    BY ONLY IsFiniteSet(S), IsFiniteSet(T), \A x \in S : f[x] \in T,
       \A x \in S : w[x] \in Int, SumOfGroups
  <2> QED
    BY <1>1, <2>1
<1>3. \A z \in T : h[z] = v[z]
  <2> TAKE z \in T
  <2>1. PICK x \in S : f[x] = z
    OBVIOUS
  <2>2. {y \in S : f[y] = z} = {x}
    BY <2>1
  <2>3. SumOf(w, {x}) = w[x]
    BY SumOfOne
  <2>4. h[z] = SumOf(w, {y \in S : f[y] = z})
    BY <1>1
  <2> QED
    BY <2>1, <2>2, <2>3, <2>4
<1>4. SumOf(h, T) = SumOf(v, T)
  BY <1>3, SumOfSame
<1> QED
  BY <1>2, <1>4

\* SumOf: terms that are zero add nothing.
LEMMA SumOfMore ==
  ASSUME NEW T, IsFiniteSet(T), NEW S \in SUBSET T,
         NEW w, \A x \in S : w[x] \in Int,
         NEW v, \A x \in S : v[x] = w[x], \A x \in T \ S : v[x] = 0
  PROVE  SumOf(v, T) = SumOf(w, S)
<1>1. \A x \in T : v[x] \in Int
  OBVIOUS
<1>2. SumOf(v, S) \in Int /\ SumOf(v, T) = SumOf(v, S) + SumOf(v, T \ S)
  BY <1>1, SumOfSplit
<1>3. IsFiniteSet(S) /\ IsFiniteSet(T \ S)
  BY FS_Subset
<1>4. SumOf(v, S) = SumOf(w, S)
  BY <1>3, SumOfSame
<1>5. SumOf(v, T \ S) = 0
  BY <1>3, SumOfZero
<1> QED
  BY <1>2, <1>4, <1>5

-----------------------------------------------------------------------------
\* The greatest of some numbers up to n is one of them.
LEMMA MaxOfSome ==
  ASSUME NEW n \in Nat, NEW T \in SUBSET (0 .. n), T # {}
  PROVE  /\ Max(T) \in T
         /\ \A y \in T : Max(T) >= y
<1>1. PICK F : F = {n - t : t \in T}
  OBVIOUS
<1>2. F \in SUBSET Nat /\ F # {}
  <2>1. \A t \in T : t \in 0 .. n
    OBVIOUS
  <2>2. \A t \in 0 .. n : n - t \in Nat
    OBVIOUS
  <2> QED
    BY <1>1, <2>1, <2>2
<1>3. PICK m \in F : \A k \in F : m <= k
  BY <1>2, LeastNumber
<1>4. PICK x \in T : m = n - x
  BY <1>1, <1>3
<1>5. \A y \in T : x >= y
  BY <1>1, <1>3, <1>4
<1>6. \E z \in T : \A y \in T : z >= y
  BY <1>4, <1>5
<1> QED
  BY <1>6 DEF Max

OneStep(base, g, h, T) == IF T = {} THEN base ELSE g[<<h[T \ {Max(T)}], Max(T)>>]

StepsWithin(U, n, g) == \A u \in U : \A i \in 1 .. n : g[<<u, i>>] \in U

FoldWithin(U, base, n, g) ==
    \E h \in [SUBSET (1 .. n) -> U] :
        \A T \in SUBSET (1 .. n) : h[T] = OneStep(base, g, h, T)

\* A fold over the places of a list has a solution, of the type of its steps.
LEMMA FoldSolved ==
  ASSUME NEW U, NEW base \in U, NEW n \in Nat, NEW g, StepsWithin(U, n, g)
  PROVE  FoldWithin(U, base, n, g)
<1> DEFINE S == 1 .. n
           Small(k) == {T \in SUBSET S : Cardinality(T) <= k}
           Solves(k, h) == \A T \in Small(k) : h[T] = OneStep(base, g, h, T)
           Fails == {k \in Nat : ~ \E h \in [SUBSET S -> U] : Solves(k, h)}
<1>0. /\ IsFiniteSet(S) /\ Cardinality(S) \in Nat
      /\ \A T \in SUBSET S : IsFiniteSet(T) /\ Cardinality(T) \in Nat
                             /\ Cardinality(T) <= Cardinality(S)
  <2>1. IsFiniteSet(S)
    BY FS_Interval
  <2>2. \A T \in SUBSET S : IsFiniteSet(T) /\ Cardinality(T) <= Cardinality(S)
    BY <2>1, FS_Subset
  <2> QED
    BY <2>1, <2>2, FS_CardinalityType
<1>m. \A T \in SUBSET S : T # {} => Max(T) \in T
  <2>1. \A T \in SUBSET S : T \in SUBSET (0 .. n)
    OBVIOUS
  <2> QED
    BY <2>1, MaxOfSome
<1>a. \A T \in SUBSET S : T # {} =>
        /\ T \ {Max(T)} \in SUBSET S
        /\ Cardinality(T \ {Max(T)}) = Cardinality(T) - 1
  BY <1>0, <1>m, FS_RemoveElement
<1>b. \A T \in SUBSET S : Cardinality(T) = 0 <=> T = {}
  BY <1>0, FS_EmptySet
<1>1. 0 \notin Fails
  <2>1. PICK h : h = [T \in SUBSET S |-> base]
    OBVIOUS
  <2>2. \A T \in Small(0) : T = {}
    BY <1>0, <1>b
  <2>3. h \in [SUBSET S -> U] /\ Solves(0, h)
    BY <2>1, <2>2 DEF OneStep
  <2> QED
    BY <2>3
<1>2. ASSUME NEW k \in Nat, k \notin Fails
      PROVE  k + 1 \notin Fails
  <2>1. PICK f \in [SUBSET S -> U] : Solves(k, f)
    BY <1>2
  <2>2. PICK h : h = [T \in SUBSET S |-> OneStep(base, g, f, T)]
    OBVIOUS
  <2>3. \A T \in SUBSET S : OneStep(base, g, f, T) \in U
    BY <1>a, <1>m DEF OneStep, StepsWithin
  <2>4. \A T \in Small(k) : h[T] = f[T]
    BY <2>1, <2>2
  <2>5. \A T \in Small(k + 1) : T # {} => T \ {Max(T)} \in Small(k)
    <3> SUFFICES ASSUME NEW T \in Small(k + 1), T # {}
                 PROVE  T \ {Max(T)} \in Small(k)
      OBVIOUS
    <3>1. Cardinality(T) \in Nat /\ Cardinality(T) <= k + 1
      BY <1>0
    <3>2. T \ {Max(T)} \in SUBSET S /\ Cardinality(T \ {Max(T)}) = Cardinality(T) - 1
      BY <1>a
    <3> QED
      BY <3>1, <3>2
  <2>6. \A T \in Small(k + 1) : OneStep(base, g, h, T) = OneStep(base, g, f, T)
    BY <2>4, <2>5 DEF OneStep
  <2>7. h \in [SUBSET S -> U] /\ Solves(k + 1, h)
    BY <2>2, <2>3, <2>6
  <2> QED
    BY <2>7
<1>3. Fails = {}
  <2> SUFFICES ASSUME Fails # {} PROVE FALSE
    OBVIOUS
  <2>1. PICK k \in Fails : \A m \in Fails : k <= m
    BY LeastNumber
  <2> HIDE DEF Fails
  <2>2. k \in Nat
    BY <2>1 DEF Fails
  <2>3. CASE k = 0
    BY <2>3, <1>1
  <2>4. CASE k # 0
    BY <1>2, <2>1, <2>2, <2>4, k - 1 \in Nat, (k - 1) + 1 = k
  <2> QED
    BY <2>3, <2>4
<1>4. Small(Cardinality(S)) = SUBSET S
  BY <1>0
<1> QED
  BY <1>0, <1>3, <1>4 DEF FoldWithin

\* Of a fold, the empty list gives its base and every place one step more.
LEMMA FoldPlaces ==
  ASSUME NEW n \in Nat, NEW base, NEW g, NEW h,
         \A T \in SUBSET (1 .. n) : h[T] = OneStep(base, g, h, T),
         NEW k \in 1 .. n
  PROVE  /\ h[{}] = base
         /\ h[1 .. k] = g[<<h[1 .. (k - 1)], k>>]
<1>1. 1 .. k \in SUBSET (0 .. n) /\ 1 .. k \in SUBSET (1 .. n) /\ k \in 1 .. k
  OBVIOUS
<1>2. Max(1 .. k) \in 1 .. k /\ Max(1 .. k) >= k
  BY <1>1, MaxOfSome
<1>3. Max(1 .. k) = k
  BY <1>2
<1>4. (1 .. k) \ {k} = 1 .. (k - 1)
  OBVIOUS
<1> QED
  BY <1>1, <1>3, <1>4 DEF OneStep

\* A finite set of natural numbers has a greatest one.
LEMMA MaxOfFinite ==
  ASSUME NEW T \in SUBSET Nat, IsFiniteSet(T), T # {}
  PROVE  /\ Max(T) \in T
         /\ \A y \in T : Max(T) >= y
<1>1. PICK w : w = [x \in T |-> x]
  OBVIOUS
<1>2. PICK n \in Nat : n = SumOf(w, T)
  BY <1>1, SumOfNat
<1>3. \A x \in T : x <= n
  BY <1>1, <1>2, SumOfTerm
<1>4. T \in SUBSET (0 .. n)
  BY <1>3
<1> QED
  BY <1>4, MaxOfSome

\* The image of a finite set is finite.
LEMMA FiniteImage ==
  ASSUME NEW S, IsFiniteSet(S), NEW f, NEW T, T = {f[x] : x \in S}
  PROVE  IsFiniteSet(T)
<1>1. PICK g : g = [x \in S |-> f[x]]
  OBVIOUS
<1>2. g \in Surjection(S, T)
  BY <1>1 DEF Surjection
<1> QED
  BY <1>2, FS_Surjection

\* What holds of zero, and of every place after one it holds of, holds up to n.
LEMMA UpTo ==
  ASSUME NEW n \in Nat, NEW P, 0 \in P, \A k \in 0 .. n - 1 : k \in P => k + 1 \in P
  PROVE  \A k \in 0 .. n : k \in P
<1>1. PICK F : F = {k \in 0 .. n : k \notin P}
  OBVIOUS
<1>2. ASSUME F # {}
      PROVE  FALSE
  <2>1. F \in SUBSET Nat
    BY <1>1
  <2>2. PICK k \in F : \A m \in F : k <= m
    BY <1>2, <2>1, LeastNumber
  <2>3. k \in 0 .. n /\ k \notin P /\ k # 0
    BY <1>1, <2>2
  <2>4. k - 1 \in 0 .. n - 1 /\ k - 1 \notin F
    BY <2>2, <2>3
  <2>5. k - 1 \in P
    BY <1>1, <2>3, <2>4
  <2> QED
    BY <2>3, <2>4, <2>5
<1> QED
  BY <1>1, <1>2

=============================================================================
