---------------------------- MODULE CountingLemmas ----------------------------
(***************************************************************************)
(* Facts about bounded sets of numbers, about counting and about queues    *)
(* that the proofs of several components cite.                             *)
(***************************************************************************)
EXTENDS Integers, Sequences, FiniteSets, TLAPS, FiniteSetTheorems, FunctionTheorems,
        SequenceTheorems, WellFoundedInduction

(* A bounded, nonempty set of naturals has a greatest element.             *)
LEMMA Greatest ==
  ASSUME NEW S \in SUBSET Nat, S # {}, NEW b \in Nat, \A x \in S : x <= b
  PROVE  \E x \in S : \A y \in S : y <= x
<1> DEFINE gaps == {b - x : x \in S}
<1>1. gaps \subseteq Nat /\ gaps # {}
  <2>1. \A x \in S : b - x \in Nat
    OBVIOUS
  <2> QED
    BY <2>1
<1>2. PICK g \in gaps : \A h \in gaps : ~ (<<h, g>> \in OpToRel(<, Nat))
  BY <1>1, WFMin, NatLessThanWellFounded
<1>3. \A h \in gaps : g <= h
  <2>1. \A h \in Nat : h < g => <<h, g>> \in OpToRel(<, Nat)
    BY <1>1 DEF OpToRel
  <2>2. \A h \in gaps : ~ (h < g)
    BY <1>1, <1>2, <2>1, Zenon
  <2> QED
    BY <1>1, <2>2
<1>4. PICK x \in S : g = b - x
  OBVIOUS
<1>5. \A y \in S : y <= x
  BY <1>3, <1>4
<1> QED
  BY <1>5

(* A nonempty set has an element whose number is least.                    *)
LEMMA Least ==
  ASSUME NEW S, S # {}, NEW number, \A x \in S : number[x] \in Nat
  PROVE  \E x \in S : \A y \in S : number[x] <= number[y]
<1> DEFINE numbers == {number[x] : x \in S}
<1>1. numbers \subseteq Nat /\ numbers # {}
  OBVIOUS
<1>2. PICK g \in numbers : \A h \in numbers : ~ (<<h, g>> \in OpToRel(<, Nat))
  BY <1>1, WFMin, NatLessThanWellFounded
<1>3. \A h \in Nat : h < g => <<h, g>> \in OpToRel(<, Nat)
  BY <1>1 DEF OpToRel
<1>4. \A h \in numbers : ~ (h < g)
  BY <1>1, <1>2, <1>3, Zenon
<1>5. PICK x \in S : g = number[x]
  OBVIOUS
<1>6. \A y \in S : number[x] <= number[y]
  BY <1>1, <1>4, <1>5
<1> QED
  BY <1>6

(* A part of a finite set is finite and counts no more than the whole.     *)
LEMMA PartCounts ==
  ASSUME NEW S, IsFiniteSet(S), NEW T \in SUBSET S
  PROVE  /\ IsFiniteSet(T) /\ Cardinality(T) \in Nat /\ Cardinality(S) \in Nat
         /\ Cardinality(T) <= Cardinality(S)
<1>1. IsFiniteSet(T) /\ Cardinality(T) <= Cardinality(S)
  BY FS_Subset
<1> QED
  BY <1>1, FS_CardinalityType

(* The newest of a set of numbers, each with fewer than n above it: every  *)
(* other number has n of them above it, if it has n of the set above it.   *)
NewestOf(S, n) == {e \in S : Cardinality({f \in S : f > e}) < n}

LEMMA NewestAbove ==
  ASSUME NEW S \in SUBSET Nat, NEW b \in Nat, \A x \in S : x <= b, NEW n \in Nat,
         NEW e \in Nat, Cardinality({f \in S : f > e}) >= n
  PROVE  Cardinality({f \in NewestOf(S, n) : f > e}) >= n
<1> DEFINE above(x) == {f \in S : f > x}
           older == {f \in above(e) : f \notin NewestOf(S, n)}
<1>1. IsFiniteSet(S)
  BY FS_BoundedSetOfNaturals
<1>2. {f \in NewestOf(S, n) : f > e} \in SUBSET S
  BY DEF NewestOf
<1>3. CASE older = {}
  <2>1. {f \in NewestOf(S, n) : f > e} = above(e)
    BY <1>3 DEF NewestOf
  <2> QED
    BY <2>1
<1>4. CASE older # {}
  <2>1. PICK g \in older : \A h \in older : h <= g
    <3>1. older \in SUBSET Nat /\ \A x \in older : x <= b
      OBVIOUS
    <3> HIDE DEF older
    <3> QED
      BY <1>4, <3>1, Greatest
  <2>2. above(g) \in SUBSET {f \in NewestOf(S, n) : f > e}
    <3> SUFFICES ASSUME NEW f \in S, f > g PROVE f \in NewestOf(S, n) /\ f > e
      OBVIOUS
    <3>1. f \in Nat /\ g \in Nat /\ g > e
      OBVIOUS
    <3>2. f > e
      BY <3>1
    <3>3. f \notin older
      BY <2>1, <3>1
    <3> QED
      BY <3>2, <3>3
  <2>3. Cardinality(above(g)) >= n
    <3>1. ~(Cardinality(above(g)) < n)
      BY DEF NewestOf
    <3>2. Cardinality(above(g)) \in Nat
      <4>1. above(g) \in SUBSET S
        OBVIOUS
      <4> QED
        BY <1>1, <4>1, PartCounts
    <3> QED
      BY <3>1, <3>2
  <2>4. /\ IsFiniteSet({f \in NewestOf(S, n) : f > e})
        /\ Cardinality({f \in NewestOf(S, n) : f > e}) \in Nat
    BY <1>1, <1>2, PartCounts
  <2>5. /\ Cardinality(above(g)) \in Nat
        /\ Cardinality(above(g)) <= Cardinality({f \in NewestOf(S, n) : f > e})
    BY <2>2, <2>4, PartCounts
  <2> QED
    BY <2>3, <2>4, <2>5
<1> QED
  BY <1>3, <1>4

(* Increasing numbers in a sequence are as many as it is long.             *)
Increasing(s) == \A i, j \in 1..Len(s) : i < j => s[i] < s[j]

LEMMA IncreasingCount ==
  ASSUME NEW s \in Seq(Int), Increasing(s)
  PROVE  /\ IsFiniteSet({s[i] : i \in 1..Len(s)})
         /\ Cardinality({s[i] : i \in 1..Len(s)}) = Len(s)
<1> DEFINE image == {s[i] : i \in 1..Len(s)}
           f == [i \in 1..Len(s) |-> s[i]]
<1>1. Len(s) \in Nat /\ \A i \in 1..Len(s) : s[i] \in Int
  OBVIOUS
<1>2. \A i, j \in 1..Len(s) : i # j => f[i] # f[j]
  <2> SUFFICES ASSUME NEW i \in 1..Len(s), NEW j \in 1..Len(s), i # j PROVE s[i] # s[j]
    OBVIOUS
  <2>1. i < j \/ j < i
    BY <1>1
  <2> QED
    BY <1>1, <2>1 DEF Increasing
<1>3. f \in Bijection(1..Len(s), image)
  <2>1. f \in [1..Len(s) -> image] /\ \A t \in image : \E i \in 1..Len(s) : f[i] = t
    OBVIOUS
  <2>2. \A i, j \in 1..Len(s) : f[i] = f[j] => i = j
    BY <1>2
  <2> HIDE DEF f, image
  <2> QED
    BY <2>1, <2>2, Fun_IsBij
<1>4. ExistsBijection(1..Len(s), image)
  BY <1>3 DEF ExistsBijection
<1>5. Cardinality(image) = Len(s)
  BY <1>1, <1>4, FS_CountingElements
<1>6. IsFiniteSet(image)
  BY <1>1, <1>4, FS_NatBijection
<1> QED
  BY <1>5, <1>6

(* A sequence without its k-th element has the others in their order.      *)
Removed(s, k) == SubSeq(s, 1, k - 1) \o SubSeq(s, k + 1, Len(s))

LEMMA Removal ==
  ASSUME NEW S, NEW s \in Seq(S), NEW k \in 1..Len(s)
  PROVE  /\ Removed(s, k) \in Seq(S) /\ Len(Removed(s, k)) = Len(s) - 1
         /\ \A i \in 1..(k - 1) : Removed(s, k)[i] = s[i]
         /\ \A i \in k..(Len(s) - 1) : Removed(s, k)[i] = s[i + 1]
<1> DEFINE a == SubSeq(s, 1, k - 1)
           b == SubSeq(s, k + 1, Len(s))
           t == a \o b
<1>1. Len(s) \in Nat /\ k \in Nat /\ 1 <= k /\ k <= Len(s)
  OBVIOUS
<1>2. /\ a \in Seq(S) /\ Len(a) = k - 1
      /\ \A i \in 1..(k - 1) : a[i] = s[i]
  BY <1>1
<1>3. /\ b \in Seq(S) /\ Len(b) = Len(s) - k
      /\ \A i \in 1..(Len(s) - k) : b[i] = s[k + i]
  BY <1>1
<1> HIDE DEF a, b
<1>4. /\ t \in Seq(S) /\ Len(t) = Len(a) + Len(b)
      /\ \A i \in 1..(Len(a) + Len(b)) :
           t[i] = IF i <= Len(a) THEN a[i] ELSE b[i - Len(a)]
  BY <1>2, <1>3, ConcatProperties
<1> HIDE DEF t
<1>5. ASSUME NEW i \in 1..(k - 1) PROVE t[i] = s[i]
  BY <1>1, <1>2, <1>3, <1>4
<1>6. ASSUME NEW i \in k..(Len(s) - 1) PROVE t[i] = s[i + 1]
  <2>1. /\ i \in 1..(Len(a) + Len(b)) /\ ~(i <= Len(a))
        /\ i - Len(a) \in 1..(Len(s) - k) /\ k + (i - Len(a)) = i + 1
    BY <1>1, <1>2, <1>3
  <2>2. t[i] = b[i - Len(a)]
    BY <1>4, <2>1
  <2> QED
    BY <1>3, <2>1, <2>2
<1>7. Removed(s, k) = t
  BY DEF Removed, t, a, b
<1>8. Len(t) = Len(s) - 1
  BY <1>1, <1>2, <1>3, <1>4
<1> QED
  BY <1>4, <1>5, <1>6, <1>7, <1>8

(* Things with numbers of their own are no more than the numbers.          *)
LEMMA CountInto ==
  ASSUME NEW S, NEW T, IsFiniteSet(T), \A x \in S : x.use \in T,
         \A x, y \in S : x.use = y.use => x = y
  PROVE  /\ IsFiniteSet(S) /\ Cardinality(S) \in Nat /\ Cardinality(T) \in Nat
         /\ Cardinality(S) <= Cardinality(T)
<1> DEFINE f == [x \in S |-> x.use]
<1>1. f \in Injection(S, T)
  <2>1. f \in [S -> T] /\ \A x, y \in S : f[x] = f[y] => x = y
    OBVIOUS
  <2> HIDE DEF f
  <2> QED
    BY <2>1, Fun_IsInj
<1> HIDE DEF f
<1>2. IsFiniteSet(S) /\ Cardinality(S) <= Cardinality(T)
  BY <1>1, FS_Injection
<1> QED
  BY <1>2, FS_CardinalityType

(* No more than the others, if each has one of the others' numbers.        *)
LEMMA CountAmong ==
  ASSUME NEW S, NEW T, IsFiniteSet(T), \A x \in S : \E y \in T : y.use = x.use,
         \A x, y \in S : x.use = y.use => x = y
  PROVE  /\ Cardinality(S) \in Nat /\ Cardinality(T) \in Nat
         /\ Cardinality(S) <= Cardinality(T)
<1> DEFINE f == [x \in S |-> CHOOSE y \in T : y.use = x.use]
<1>1. f \in Injection(S, T)
  <2>1. \A x \in S : f[x] \in T /\ f[x].use = x.use
    OBVIOUS
  <2>2. f \in [S -> T]
    BY <2>1
  <2> HIDE DEF f
  <2>3. \A x, y \in S : f[x] = f[y] => x = y
    BY <2>1
  <2> QED
    BY <2>2, <2>3, Fun_IsInj
<1> HIDE DEF f
<1>2. IsFiniteSet(S) /\ Cardinality(S) <= Cardinality(T)
  BY <1>1, FS_Injection
<1> QED
  BY <1>2, FS_CardinalityType

(* One more than the whole at most.                                        *)
LEMMA CountOneMore ==
  ASSUME NEW S, NEW x, IsFiniteSet(S), NEW T \in SUBSET (S \cup {x})
  PROVE  /\ IsFiniteSet(T) /\ Cardinality(T) \in Nat /\ Cardinality(S) \in Nat
         /\ Cardinality(T) <= Cardinality(S) + 1
<1>0. Cardinality(S) \in Nat
  BY FS_CardinalityType
<1>1. IsFiniteSet(S \cup {x}) /\ Cardinality(S \cup {x}) <= Cardinality(S) + 1
  <2>1. /\ IsFiniteSet(S \cup {x})
        /\ Cardinality(S \cup {x}) = IF x \in S THEN Cardinality(S) ELSE Cardinality(S) + 1
    BY FS_AddElement
  <2> QED
    BY <1>0, <2>1
<1>2. IsFiniteSet(T) /\ Cardinality(T) <= Cardinality(S \cup {x})
  BY <1>1, FS_Subset
<1> QED
  BY <1>0, <1>1, <1>2, FS_CardinalityType
================================================================================
