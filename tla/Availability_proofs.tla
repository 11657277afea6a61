------------------------- MODULE Availability_proofs -------------------------
(***************************************************************************)
(* What an availability preview computes, for every calendar, request and  *)
(* length of day: the lemmas are about the sort, the merge and the cuts of *)
(* adapter.go for lists of every length, and the theorems about what the   *)
(* plan stores and the preview says.                                       *)
(***************************************************************************)
EXTENDS Availability, FiniteSetTheorems, SequenceTheorems, TLAPS

-----------------------------------------------------------------------------
(***************************************************************************)
(* Induction.  The least element of a set of numbers takes the place of an *)
(* induction rule: sets can be named in a proof where predicates cannot.   *)
(***************************************************************************)

LEMMA LeastNatural ==
    ASSUME NEW T \in SUBSET Nat, T # {}
    PROVE  \E m \in T : \A k \in T : m <= k
  <1> DEFINE R == OpToRel(<, Nat)
  <1>1. IsWellFoundedOn(R, Nat)
    BY NatLessThanWellFounded
  <1>2. \A x, y \in Nat : <<x, y>> \in R <=> x < y
    BY DEF OpToRel
  <1> HIDE DEF R
  <1>3. PICK m \in T : \A k \in T : ~ (<<k, m>> \in R)
    BY <1>1, WFMin
  <1>4. \A k \in T : ~ (k < m)
    BY <1>2, <1>3
  <1>5. QED
    BY <1>3, <1>4

\* A set of numbers that has 0, and with each number the next up to n, has
\* n.
LEMMA Induction ==
    ASSUME NEW n \in Nat, NEW S, 0 \in S,
           \A i \in 0..n : i < n /\ i \in S => i + 1 \in S
    PROVE  n \in S
  <1> DEFINE T == (0..n) \ S
  <1>1. SUFFICES ASSUME T # {} PROVE FALSE
    OBVIOUS
  <1>2. T \in SUBSET Nat
    OBVIOUS
  <1>3. PICK m \in T : \A k \in T : m <= k
    BY <1>1, <1>2, LeastNatural
  <1>4. m # 0 /\ m - 1 \in 0..n /\ m - 1 < n
    BY <1>3
  <1>5. m - 1 \in S
    BY <1>3, <1>4
  <1>6. (m - 1) + 1 \in S
    BY <1>4, <1>5
  <1>7. QED
    BY <1>3, <1>6

-----------------------------------------------------------------------------
(***************************************************************************)
(* Sorting.                                                                *)
(***************************************************************************)

LEMMA EarlierIsOrder ==
    /\ \A r, s \in Interval : Earlier(r, s) \/ Earlier(s, r) \/ r = s
    /\ \A r, s, t \in Interval :
         Earlier(r, s) /\ Earlier(s, t) => Earlier(r, t)
    /\ \A r \in Interval : ~Earlier(r, r)
  BY DEF Earlier, Interval

\* A finite set of ranges has a latest one.
LEMMA LatestExists ==
    ASSUME NEW R \in SUBSET Interval, IsFiniteSet(R), R # {}
    PROVE  \E m \in R : \A r \in R : r # m => Earlier(r, m)
  <1> DEFINE n == Cardinality(R)
             S == {k \in 0..n :
                     \A T \in SUBSET R : Cardinality(T) = k /\ T # {} =>
                       \E m \in T : \A r \in T : r # m => Earlier(r, m)}
  <1>1. n \in Nat
    BY FS_CardinalityType
  <1>2. \A T \in SUBSET R : IsFiniteSet(T) /\ Cardinality(T) \in Nat
    BY FS_Subset, FS_CardinalityType
  <1>3. 0 \in S
    BY <1>1, <1>2, FS_EmptySet
  <1>4. ASSUME NEW i \in 0..n, i < n, i \in S
        PROVE  i + 1 \in S
    <2> SUFFICES ASSUME NEW T \in SUBSET R, Cardinality(T) = i + 1, T # {}
                 PROVE  \E m \in T : \A r \in T : r # m => Earlier(r, m)
      BY <1>1, <1>4
    <2>1. PICK x \in T : TRUE
      OBVIOUS
    <2>2. T \ {x} \in SUBSET R /\ Cardinality(T \ {x}) = i
      <3>1. Cardinality(T \ {x}) = Cardinality(T) - 1
        BY <1>2, <2>1, FS_RemoveElement
      <3>2. QED
        BY <3>1
    <2>3. CASE T \ {x} = {}
      BY <2>1, <2>3
    <2>4. CASE T \ {x} # {}
      <3>1. PICK m \in T \ {x} :
              \A r \in T \ {x} : r # m => Earlier(r, m)
        BY <1>4, <2>2, <2>4
      <3>2. CASE Earlier(x, m)
        BY <3>1, <3>2
      <3>3. CASE Earlier(m, x)
        <4>1. \A r \in T : r # x => Earlier(r, x)
          BY <3>1, <3>3, EarlierIsOrder
        <4>2. QED
          BY <2>1, <4>1
      <3>4. QED
        BY <2>1, <3>1, <3>2, <3>3, EarlierIsOrder
    <2>5. QED
      BY <2>3, <2>4
  <1> HIDE DEF n
  <1>5. n \in S
    <2> HIDE DEF S
    <2>1. QED
      BY <1>1, <1>3, <1>4, Induction
  <1>6. QED
    BY <1>5 DEF n

InOrder(s, R) == /\ ToSet(s) = R
                 /\ \A i, j \in DOMAIN s : i < j => Earlier(s[i], s[j])

\* A finite set of ranges can be sorted.
LEMMA SortedExists ==
    ASSUME NEW R \in SUBSET Interval, IsFiniteSet(R)
    PROVE  \E s \in [1..Cardinality(R) -> R] : InOrder(s, R)
  <1> DEFINE n == Cardinality(R)
             S == {k \in 0..n :
                     \A T \in SUBSET R : Cardinality(T) = k =>
                       \E s \in [1..k -> T] : InOrder(s, T)}
  <1>1. n \in Nat
    BY FS_CardinalityType
  <1>2. \A T \in SUBSET R : IsFiniteSet(T) /\ Cardinality(T) \in Nat
    BY FS_Subset, FS_CardinalityType
  <1>3. 0 \in S
    <2> SUFFICES ASSUME NEW T \in SUBSET R, Cardinality(T) = 0
                 PROVE  \E s \in [1..0 -> T] : InOrder(s, T)
      BY <1>1
    <2>1. T = {}
      BY <1>2, FS_EmptySet
    <2>2. [i \in 1..0 |-> 0] \in [1..0 -> T]
      OBVIOUS
    <2>3. InOrder([i \in 1..0 |-> 0], T)
      BY <2>1 DEF InOrder, ToSet
    <2>4. QED
      BY <2>2, <2>3
  <1>4. ASSUME NEW i \in 0..n, i < n, i \in S
        PROVE  i + 1 \in S
    <2> SUFFICES ASSUME NEW T \in SUBSET R, Cardinality(T) = i + 1
                 PROVE  \E s \in [1..(i + 1) -> T] : InOrder(s, T)
      BY <1>1, <1>4
    <2>1. T # {}
      BY <1>2, FS_EmptySet
    <2>2. PICK m \in T : \A r \in T : r # m => Earlier(r, m)
      BY <1>2, <2>1, LatestExists
    <2>3. T \ {m} \in SUBSET R /\ Cardinality(T \ {m}) = i
      <3>1. Cardinality(T \ {m}) = Cardinality(T) - 1
        BY <1>2, <2>2, FS_RemoveElement
      <3>2. QED
        BY <3>1
    <2>4. PICK s \in [1..i -> T \ {m}] : InOrder(s, T \ {m})
      BY <1>4, <2>3
    <2> DEFINE t == [j \in 1..(i + 1) |-> IF j = i + 1 THEN m ELSE s[j]]
    <2>5. t \in [1..(i + 1) -> T]
      BY <2>2, <2>4
    <2>6. ToSet(t) = T
      <3>1. ToSet(t) = {t[j] : j \in 1..(i + 1)}
        BY DEF ToSet
      <3>2. T \ {m} = {s[j] : j \in 1..i}
        BY <2>4 DEF ToSet, InOrder
      <3>3. \A j \in 1..i : t[j] = s[j]
        OBVIOUS
      <3>4. t[i + 1] = m
        OBVIOUS
      <3> HIDE DEF t
      <3>5. QED
        BY <2>5, <3>1, <3>2, <3>3, <3>4
    <2>7. \A j, k \in DOMAIN t : j < k => Earlier(t[j], t[k])
      BY <2>2, <2>4 DEF InOrder
    <2>8. QED
      BY <2>5, <2>6, <2>7 DEF InOrder
  <1> HIDE DEF n
  <1>5. n \in S
    <2> HIDE DEF S
    <2>1. QED
      BY <1>1, <1>3, <1>4, Induction
  <1>6. QED
    BY <1>5 DEF n

LEMMA SortedIsSorted ==
    ASSUME NEW R \in SUBSET Interval, IsFiniteSet(R)
    PROVE  /\ Sorted(R) \in Seq(R)
           /\ ToSet(Sorted(R)) = R
           /\ \A i, j \in 1..Len(Sorted(R)) :
                i < j => Earlier(Sorted(R)[i], Sorted(R)[j])
  <1>1. /\ Sorted(R) \in [1..Cardinality(R) -> R]
        /\ InOrder(Sorted(R), R)
    BY SortedExists DEF Sorted, InOrder
  <1>2. Cardinality(R) \in Nat
    BY FS_CardinalityType
  <1>3. Sorted(R) \in Seq(R)
    BY <1>1, <1>2
  <1>4. DOMAIN Sorted(R) = 1..Len(Sorted(R))
    BY <1>3
  <1>5. QED
    BY <1>1, <1>3, <1>4 DEF InOrder

-----------------------------------------------------------------------------
(***************************************************************************)
(* Merging.                                                                *)
(***************************************************************************)

Valid == {r \in Interval : r.start < r.end}

Covers(x, r)   == r.start <= x /\ x < r.end
Covered(x, R)  == \E r \in R : Covers(x, r)

\* Ranges in order that neither overlap nor touch.
Chain(m) == \A i, j \in 1..Len(m) : i < j => m[i].end < m[j].start

LEMMA UnitsAreCovered ==
    ASSUME NEW R \in SUBSET Interval
    PROVE  /\ Units(R) \subseteq Int
           /\ \A x \in Int : x \in Units(R) <=> Covered(x, R)
  BY DEF Units, Covered, Covers, Interval

LEMMA ToSetOfSeq ==
    ASSUME NEW S, NEW m \in Seq(S)
    PROVE  /\ ToSet(m) \subseteq S /\ \A i \in 1..Len(m) : m[i] \in ToSet(m)
           /\ \A r \in ToSet(m) : \E i \in 1..Len(m) : m[i] = r
  BY DEF ToSet

\* The ranges after one more: a chain that covers the new one as well.
LEMMA ExtendMerges ==
    ASSUME NEW m \in Seq(Valid), Chain(m), NEW r \in Valid,
           \A i \in 1..Len(m) : m[i].start <= r.start
    PROVE  LET e == Extend(m, r)
           IN  /\ e \in Seq(Valid) /\ Chain(e)
               /\ \A i \in 1..Len(e) : e[i].start <= r.start
               /\ \A x \in Int : Covered(x, ToSet(e)) <=>
                                 Covered(x, ToSet(m)) \/ Covers(x, r)
  <1> DEFINE e == Extend(m, r)
             n == Len(m)
  <1>0. n \in Nat /\ DOMAIN m = 1..n /\ (m # <<>> => n > 0)
    OBVIOUS
  <1>a. e = IF m # <<>> /\ Meets(m[n], r)
              THEN Append(SubSeq(m, 1, n - 1), Join(m[n], r)) ELSE Append(m, r)
    BY DEF Extend, Front, Last
  <1>b. Len(m) = n
    OBVIOUS
  <1> HIDE DEF e, n
  <1>1. CASE m # <<>> /\ Meets(m[n], r)
    <2> DEFINE j == Join(m[n], r)
               p == SubSeq(m, 1, n - 1)
    <2>1. m[n] \in Valid /\ m[n].start <= r.start /\ r.start <= m[n].end
      BY <1>0, <1>1 DEF Meets
    <2>2. /\ j \in Valid /\ j.start = m[n].start /\ m[n].end <= j.end
          /\ \A x \in Int : Covers(x, j) <=> Covers(x, m[n]) \/ Covers(x, r)
      BY <2>1 DEF Join, Between, Valid, Interval, Covers
    <2>3. e = Append(p, j)
      BY <1>a, <1>1
    <2>4. /\ p \in Seq(Valid) /\ Len(p) = n - 1
          /\ \A i \in 1..(n - 1) : p[i] = m[i]
      BY <1>0, <1>b, <1>1
    <2> HIDE DEF j, p
    <2>5. /\ e \in Seq(Valid) /\ Len(e) = n
          /\ \A i \in 1..(n - 1) : e[i] = m[i]
          /\ e[n] = j
      <3>1. /\ e \in Seq(Valid) /\ Len(e) = (n - 1) + 1
            /\ \A i \in 1..(n - 1) : e[i] = p[i]
            /\ e[(n - 1) + 1] = j
        BY <2>2, <2>3, <2>4, AppendProperties
      <3>2. (n - 1) + 1 = n
        BY <1>0
      <3>3. QED
        BY <2>4, <3>1, <3>2
    <2>6. Chain(e)
      BY <1>0, <1>b, <2>1, <2>2, <2>5 DEF Chain
    <2>7. \A i \in 1..Len(e) : e[i].start <= r.start
      BY <1>0, <1>b, <2>1, <2>2, <2>5
    <2>8. \A x \in Int : Covered(x, ToSet(e)) <=>
                         Covered(x, ToSet(m)) \/ Covers(x, r)
      <3>1. \A x \in Int : Covered(x, ToSet(m)) <=>
                           \E i \in 1..n : Covers(x, m[i])
        BY <1>b, ToSetOfSeq DEF Covered
      <3>2. \A x \in Int : Covered(x, ToSet(e)) <=>
                           \E i \in 1..n : Covers(x, e[i])
        BY <2>5, ToSetOfSeq DEF Covered
      <3>3. \A i \in 1..n : i \in 1..(n - 1) \/ i = n
        BY <1>0
      <3>4. n \in 1..n /\ 1..(n - 1) \subseteq 1..n
        BY <1>0, <1>1
      <3>5. QED
        BY <2>2, <2>5, <3>1, <3>2, <3>3, <3>4
    <2>9. QED
      BY <2>5, <2>6, <2>7, <2>8 DEF e
  <1>2. CASE ~(m # <<>> /\ Meets(m[n], r))
    <2>1. e = Append(m, r)
      BY <1>a, <1>2
    <2>2. /\ e \in Seq(Valid) /\ Len(e) = n + 1
          /\ \A i \in 1..n : e[i] = m[i]
          /\ e[n + 1] = r
      BY <1>b, <2>1, AppendProperties
    <2>3. \A i \in 1..n : m[i].end < r.start
      <3>1. n > 0 => m[n].end < r.start
        BY <1>0, <1>2 DEF Meets, Valid, Interval
      <3>2. \A i \in 1..n : m[i] \in Valid
        BY <1>b
      <3>3. \A i \in 1..n : i < n => m[i].end < m[n].start
        BY <1>0, <1>b DEF Chain
      <3>4. QED
        BY <1>0, <3>1, <3>2, <3>3 DEF Valid, Interval
    <2>4. Chain(e)
      BY <1>0, <1>b, <2>2, <2>3 DEF Chain
    <2>5. \A i \in 1..Len(e) : e[i].start <= r.start
      <3>1. \A i \in 1..(n + 1) : i \in 1..n \/ i = n + 1
        BY <1>0
      <3>2. r.start <= r.start
        BY DEF Valid, Interval
      <3>3. QED
        BY <1>b, <2>2, <3>1, <3>2
    <2>6. \A x \in Int : Covered(x, ToSet(e)) <=>
                         Covered(x, ToSet(m)) \/ Covers(x, r)
      <3>1. \A x \in Int : Covered(x, ToSet(m)) <=>
                           \E i \in 1..n : Covers(x, m[i])
        BY <1>b, ToSetOfSeq DEF Covered
      <3>2. \A x \in Int : Covered(x, ToSet(e)) <=>
                           \E i \in 1..(n + 1) : Covers(x, e[i])
        BY <2>2, ToSetOfSeq DEF Covered
      <3>3. \A i \in 1..(n + 1) : i \in 1..n \/ i = n + 1
        BY <1>0
      <3>4. n + 1 \in 1..(n + 1) /\ 1..n \subseteq 1..(n + 1)
        BY <1>0
      <3>5. QED
        BY <2>2, <3>1, <3>2, <3>3, <3>4
    <2>7. QED
      BY <2>2, <2>4, <2>5, <2>6 DEF e
  <1>3. QED
    BY <1>1, <1>2

\* The recursive function is there: Merging(sorted) is it.
LEMMA MergingUnfolds ==
    ASSUME NEW s \in Seq(Interval)
    PROVE  /\ Merging(s)[0] = <<>>
           /\ \A i \in 1..Len(s) :
                Merging(s)[i] = Extend(Merging(s)[i - 1], s[i])
  <1> DEFINE n == Len(s)
             Is(f, k) == f = [i \in 0..k |-> IF i = 0 THEN <<>>
                                              ELSE Extend(f[i - 1], s[i])]
             S == {k \in 0..n : \E f : Is(f, k)}
  <1>1. n \in Nat
    OBVIOUS
  <1>2. 0 \in S
    <2>1. Is([i \in 0..0 |-> <<>>], 0)
      OBVIOUS
    <2> HIDE DEF Is
    <2>2. QED
      BY <1>1, <2>1
  <1>3. ASSUME NEW k \in 0..n, k < n, k \in S
        PROVE  k + 1 \in S
    <2>1. PICK f : Is(f, k)
      BY <1>3
    <2> DEFINE g == [i \in 0..(k + 1) |->
                       IF i = k + 1 THEN Extend(f[k], s[k + 1]) ELSE f[i]]
    <2>2. \A i \in 0..(k + 1) : g[i] = IF i = 0 THEN <<>>
                                       ELSE Extend(g[i - 1], s[i])
      <3>1. \A i \in 0..k : g[i] = f[i]
        BY <1>3
      <3>2. g[k + 1] = Extend(f[k], s[k + 1])
        BY <1>3
      <3>3. \A i \in 0..k : f[i] = IF i = 0 THEN <<>>
                                   ELSE Extend(f[i - 1], s[i])
        BY <2>1
      <3>4. \A i \in 0..(k + 1) : i \in 0..k \/ i = k + 1
        BY <1>3
      <3>5. \A i \in 0..k : i # 0 => i - 1 \in 0..k
        BY <1>3
      <3>6. k \in 0..k /\ k + 1 # 0 /\ (k + 1) - 1 = k
        BY <1>3
      <3> HIDE DEF g
      <3>7. QED
        BY <3>1, <3>2, <3>3, <3>4, <3>5, <3>6
    <2>3. g = [i \in 0..(k + 1) |-> g[i]]
      OBVIOUS
    <2> HIDE DEF g
    <2>4. Is(g, k + 1)
      BY <2>2, <2>3
    <2> HIDE DEF Is
    <2>5. QED
      BY <1>1, <1>3, <2>4
  <1>4. \E f : Is(f, n)
    <2> HIDE DEF Is
    <2>1. \A i \in 0..n : i < n /\ i \in S => i + 1 \in S
      BY <1>3
    <2>2. n \in S
      <3> HIDE DEF S, n
      <3>1. QED
        BY <1>1, <1>2, <2>1, Induction
    <2>3. QED
      BY <2>2
  <1>5. Is(Merging(s), n)
    BY <1>4 DEF Merging
  <1>6. QED
    BY <1>1, <1>5

\* The first k ranges have been merged: into a chain that covers them, and
\* that starts no later than what is to come.
Merged(s, k) ==
    LET m == Merging(s)[k]
    IN  /\ m \in Seq(Valid) /\ Chain(m)
        /\ \A i \in 1..Len(m) : \A j \in (k + 1)..Len(s) :
             m[i].start <= s[j].start
        /\ \A x \in Int : Covered(x, ToSet(m)) <=>
                          \E j \in 1..k : Covers(x, s[j])

LEMMA MergingIsExact ==
    ASSUME NEW s \in Seq(Valid),
           \A i, j \in 1..Len(s) : i < j => s[i].start <= s[j].start
    PROVE  Merged(s, Len(s))
  <1> DEFINE n == Len(s)
             S == {k \in 0..n : Merged(s, k)}
  <1>1. n \in Nat /\ \A i \in 1..n : s[i] \in Valid /\ s[i].start \in Int
    BY DEF Valid, Interval
  <1>2. s \in Seq(Interval)
    BY DEF Valid
  <1>3. 0 \in S
    <2>1. Merging(s)[0] = <<>>
      BY <1>2, MergingUnfolds
    <2>2. Merged(s, 0)
      BY <2>1 DEF Merged, Chain, Covered, ToSet
    <2>3. QED
      BY <1>1, <2>2
  <1>4. ASSUME NEW k \in 0..n, k < n, k \in S
        PROVE  k + 1 \in S
    <2> DEFINE m == Merging(s)[k]
               e == Merging(s)[k + 1]
    <2>1. e = Extend(m, s[k + 1])
      <3>1. k + 1 \in 1..n /\ (k + 1) - 1 = k
        BY <1>1, <1>4
      <3>2. QED
        BY <1>2, <3>1, MergingUnfolds
    <2>2. /\ m \in Seq(Valid) /\ Chain(m)
          /\ \A i \in 1..Len(m) : \A j \in (k + 1)..n :
               m[i].start <= s[j].start
          /\ \A x \in Int : Covered(x, ToSet(m)) <=>
                            \E j \in 1..k : Covers(x, s[j])
      BY <1>4 DEF Merged
    <2>3. k + 1 \in 1..n /\ k + 1 \in (k + 1)..n
      BY <1>1, <1>4
    <2> HIDE DEF m, e
    <2>4. /\ e \in Seq(Valid) /\ Chain(e)
          /\ \A i \in 1..Len(e) : e[i].start <= s[k + 1].start
          /\ \A x \in Int : Covered(x, ToSet(e)) <=>
                            Covered(x, ToSet(m)) \/ Covers(x, s[k + 1])
      <3>1. \A i \in 1..Len(m) : m[i].start <= s[k + 1].start
        BY <2>2, <2>3
      <3>2. s[k + 1] \in Valid
        BY <1>1, <2>3
      <3>3. QED
        BY <2>1, <2>2, <3>1, <3>2, ExtendMerges
    <2>5. \A i \in 1..Len(e) : \A j \in (k + 2)..n : e[i].start <= s[j].start
      <3> SUFFICES ASSUME NEW i \in 1..Len(e), NEW j \in (k + 2)..n
                   PROVE  e[i].start <= s[j].start
        OBVIOUS
      <3>1. j \in 1..n /\ k + 1 < j
        BY <1>1, <1>4
      <3>2. s[k + 1].start <= s[j].start /\ e[i].start <= s[k + 1].start
        BY <2>3, <2>4, <3>1
      <3>3. e[i].start \in Int
        BY <2>4 DEF Valid, Interval
      <3>4. QED
        BY <1>1, <2>3, <3>1, <3>2, <3>3
    <2>6. \A x \in Int : Covered(x, ToSet(e)) <=>
                         \E j \in 1..(k + 1) : Covers(x, s[j])
      <3>1. \A j \in 1..(k + 1) : j \in 1..k \/ j = k + 1
        BY <1>4
      <3>2. k + 1 \in 1..(k + 1) /\ 1..k \subseteq 1..(k + 1)
        BY <1>4
      <3>3. QED
        BY <2>2, <2>4, <3>1, <3>2
    <2>7. (k + 1) + 1 = k + 2
      BY <1>4
    <2>8. Merged(s, k + 1)
      BY <2>4, <2>5, <2>6, <2>7 DEF Merged, e
    <2>9. QED
      BY <2>8, <1>1, <1>4
  <1> HIDE DEF n
  <1>5. n \in S
    <2> HIDE DEF S
    <2>1. QED
      BY <1>1, <1>3, <1>4, Induction
  <1>6. QED
    BY <1>5 DEF n

\* mergeMinuteRanges yields a chain that covers what the ranges cover.
LEMMA MergeIsExact ==
    ASSUME NEW R \in SUBSET Interval, IsFiniteSet(R)
    PROVE  LET m == mergeMinuteRanges(R)
           IN  /\ m \in Seq(Valid) /\ Chain(m)
               /\ \A x \in Int : Covered(x, ToSet(m)) <=> Covered(x, R)
  <1> DEFINE V == {r \in R : r.start < r.end}
             s == Sorted(V)
  <1>1. V \in SUBSET Valid /\ IsFiniteSet(V) /\ V \in SUBSET Interval
    <2>1. V \in SUBSET R
      OBVIOUS
    <2>2. QED
      BY <2>1, FS_Subset DEF Valid
  <1>2. mergeMinuteRanges(R) = Merging(s)[Len(s)]
    BY DEF mergeMinuteRanges
  <1>3. \A x \in Int : Covered(x, V) <=> Covered(x, R)
    BY DEF Covered, Covers, Interval
  <1> HIDE DEF V
  <1>4. /\ s \in Seq(V) /\ ToSet(s) = V
        /\ \A i, j \in 1..Len(s) : i < j => Earlier(s[i], s[j])
    BY <1>1, SortedIsSorted
  <1>5. s \in Seq(Valid)
    BY <1>1, <1>4
  <1> HIDE DEF s
  <1>6. \A i, j \in 1..Len(s) : i < j => s[i].start <= s[j].start
    <2>1. \A i \in 1..Len(s) : s[i].start \in Int
      BY <1>5 DEF Valid, Interval
    <2>2. QED
      BY <1>4, <2>1 DEF Earlier
  <1>7. Merged(s, Len(s))
    BY <1>5, <1>6, MergingIsExact
  <1>8. \A x \in Int : Covered(x, V) <=> \E j \in 1..Len(s) : Covers(x, s[j])
    BY <1>4, <1>5, ToSetOfSeq DEF Covered
  <1>9. QED
    BY <1>2, <1>3, <1>7, <1>8 DEF Merged

-----------------------------------------------------------------------------
(***************************************************************************)
(* Subtracting.                                                            *)
(***************************************************************************)

\* A cut leaves of a range what it does not cover.
LEMMA RemainsIsExact ==
    ASSUME NEW r \in Valid, NEW c \in Valid
    PROVE  /\ Remains(r, c) \in SUBSET Valid /\ IsFiniteSet(Remains(r, c))
           /\ \A x \in Int : Covered(x, Remains(r, c)) <=>
                             Covers(x, r) /\ ~Covers(x, c)
  <1>1. /\ r.start \in Int /\ r.end \in Int /\ r.start < r.end
        /\ c.start \in Int /\ c.end \in Int /\ c.start < c.end
    BY DEF Valid, Interval
  <1>2. CASE overlapsAny(r, {c})
    <2> DEFINE a == Between(r.start, c.start)
               b == Between(c.end, r.end)
    <2>1. r.start < c.end /\ r.end > c.start
      BY <1>2 DEF overlapsAny
    <2>2. /\ Remains(r, c) = {s \in {a, b} : s.start < s.end}
          /\ a \in Interval /\ b \in Interval
          /\ a.start = r.start /\ a.end = c.start
          /\ b.start = c.end /\ b.end = r.end
      BY <1>1, <1>2 DEF Remains, Between, Interval
    <2> HIDE DEF a, b
    <2>3. IsFiniteSet(Remains(r, c))
      <3>1. IsFiniteSet({a} \cup {b})
        BY FS_Singleton, FS_Union
      <3>2. Remains(r, c) \in SUBSET ({a} \cup {b})
        BY <2>2
      <3>3. QED
        BY <3>1, <3>2, FS_Subset
    <2>4. \A x \in Int : Covered(x, Remains(r, c)) <=>
                         Covers(x, a) \/ Covers(x, b)
      BY <1>1, <2>2 DEF Covered, Covers
    <2>5. \A x \in Int : Covers(x, a) \/ Covers(x, b) <=>
                         Covers(x, r) /\ ~Covers(x, c)
      BY <1>1, <2>1, <2>2 DEF Covers
    <2>6. Remains(r, c) \in SUBSET Valid
      BY <2>2 DEF Valid
    <2>7. QED
      BY <2>3, <2>4, <2>5, <2>6
  <1>3. CASE ~overlapsAny(r, {c})
    <2>1. ~(r.start < c.end /\ r.end > c.start)
      BY <1>3 DEF overlapsAny
    <2>2. Remains(r, c) = {r}
      BY <1>3 DEF Remains
    <2>3. IsFiniteSet({r})
      BY FS_Singleton
    <2>4. \A x \in Int : Covers(x, r) => ~Covers(x, c)
      BY <1>1, <2>1 DEF Covers
    <2>5. QED
      BY <2>2, <2>3, <2>4 DEF Covered
  <1>4. QED
    BY <1>2, <1>3

\* The recursive function is there: Cutting(L, c) is it.
LEMMA CuttingUnfolds ==
    ASSUME NEW L, NEW c \in Seq(Valid)
    PROVE  /\ Cutting(L, c)[0] = L
           /\ \A i \in 1..Len(c) :
                Cutting(L, c)[i] =
                  UNION {Remains(r, c[i]) : r \in Cutting(L, c)[i - 1]}
  <1> DEFINE n == Len(c)
             After(R, i) == UNION {Remains(r, c[i]) : r \in R}
             Is(f, k) == f = [i \in 0..k |->
                               IF i = 0 THEN L ELSE After(f[i - 1], i)]
             S == {k \in 0..n : \E f : Is(f, k)}
  <1>1. n \in Nat
    OBVIOUS
  <1>2. 0 \in S
    <2>1. Is([i \in 0..0 |-> L], 0)
      OBVIOUS
    <2> HIDE DEF Is
    <2>2. QED
      BY <1>1, <2>1
  <1>3. ASSUME NEW k \in 0..n, k < n, k \in S
        PROVE  k + 1 \in S
    <2>1. PICK f : Is(f, k)
      BY <1>3
    <2> DEFINE g == [i \in 0..(k + 1) |->
                       IF i = k + 1 THEN After(f[k], k + 1) ELSE f[i]]
    <2> HIDE DEF After
    <2>2. \A i \in 0..(k + 1) :
            g[i] = IF i = 0 THEN L ELSE After(g[i - 1], i)
      <3>1. \A i \in 0..k : g[i] = f[i]
        BY <1>3
      <3>2. g[k + 1] = After(f[k], k + 1)
        BY <1>3
      <3>3. \A i \in 0..k : f[i] = IF i = 0 THEN L ELSE After(f[i - 1], i)
        BY <2>1
      <3>4. \A i \in 0..(k + 1) : i \in 0..k \/ i = k + 1
        BY <1>3
      <3>5. \A i \in 0..k : i # 0 => i - 1 \in 0..k
        BY <1>3
      <3>6. k \in 0..k /\ k + 1 # 0 /\ (k + 1) - 1 = k
        BY <1>3
      <3> HIDE DEF g
      <3>7. QED
        BY <3>1, <3>2, <3>3, <3>4, <3>5, <3>6
    <2>3. g = [i \in 0..(k + 1) |-> g[i]]
      OBVIOUS
    <2> HIDE DEF g
    <2>4. Is(g, k + 1)
      BY <2>2, <2>3
    <2> HIDE DEF Is
    <2>5. QED
      BY <1>1, <1>3, <2>4
  <1>4. \E f : Is(f, n)
    <2> HIDE DEF Is
    <2>1. \A i \in 0..n : i < n /\ i \in S => i + 1 \in S
      BY <1>3
    <2>2. n \in S
      <3> HIDE DEF S, n
      <3>1. QED
        BY <1>1, <1>2, <2>1, Induction
    <2>3. QED
      BY <2>2
  <1>5. Is(Cutting(L, c), n)
    BY <1>4 DEF Cutting
  <1> HIDE DEF After
  <1>6. /\ Cutting(L, c)[0] = L
        /\ \A i \in 1..n : Cutting(L, c)[i] = After(Cutting(L, c)[i - 1], i)
    BY <1>1, <1>5
  <1>7. QED
    BY <1>6 DEF After

\* After the first k cuts: ranges that cover what these have left.
Cut(L, c, k) ==
    LET left == Cutting(L, c)[k]
    IN  /\ left \in SUBSET Valid /\ IsFiniteSet(left)
        /\ \A x \in Int : Covered(x, left) <=>
             Covered(x, L) /\ ~ \E j \in 1..k : Covers(x, c[j])

LEMMA CuttingIsExact ==
    ASSUME NEW L \in SUBSET Valid, IsFiniteSet(L), NEW c \in Seq(Valid)
    PROVE  Cut(L, c, Len(c))
  <1> DEFINE n == Len(c)
             S == {k \in 0..n : Cut(L, c, k)}
  <1>1. n \in Nat /\ \A i \in 1..n : c[i] \in Valid
    OBVIOUS
  <1>2. 0 \in S
    <2>1. Cutting(L, c)[0] = L
      BY CuttingUnfolds
    <2>2. Cut(L, c, 0)
      BY <2>1 DEF Cut
    <2>3. QED
      BY <1>1, <2>2
  <1>3. ASSUME NEW k \in 0..n, k < n, k \in S
        PROVE  k + 1 \in S
    <2> DEFINE left == Cutting(L, c)[k]
               cut  == c[k + 1]
               parts == {Remains(r, cut) : r \in left}
    <2>1. Cutting(L, c)[k + 1] = UNION parts
      <3>1. k + 1 \in 1..n /\ (k + 1) - 1 = k
        BY <1>1, <1>3
      <3>2. QED
        BY <3>1, CuttingUnfolds
    <2>2. /\ left \in SUBSET Valid /\ IsFiniteSet(left)
          /\ \A x \in Int : Covered(x, left) <=>
               Covered(x, L) /\ ~ \E j \in 1..k : Covers(x, c[j])
      BY <1>3 DEF Cut
    <2>3. cut \in Valid
      BY <1>1, <1>3
    <2> HIDE DEF left, cut
    <2>4. \A r \in left :
            /\ Remains(r, cut) \in SUBSET Valid
            /\ IsFiniteSet(Remains(r, cut))
            /\ \A x \in Int : Covered(x, Remains(r, cut)) <=>
                              Covers(x, r) /\ ~Covers(x, cut)
      BY <2>2, <2>3, RemainsIsExact
    <2>5. IsFiniteSet(UNION parts)
      <3>1. [r \in left |-> Remains(r, cut)] \in Surjection(left, parts)
        BY DEF Surjection
      <3>2. IsFiniteSet(parts)
        BY <2>2, <3>1, FS_Surjection
      <3>3. \A T \in parts : IsFiniteSet(T)
        BY <2>4
      <3> HIDE DEF parts
      <3>4. QED
        BY <3>2, <3>3, FS_UNION
    <2>6. \A x \in Int : Covered(x, UNION parts) <=>
                         Covered(x, left) /\ ~Covers(x, cut)
      <3>1. \A x : Covered(x, UNION parts) <=>
                   \E r \in left : Covered(x, Remains(r, cut))
        BY DEF Covered
      <3>2. QED
        BY <2>4, <3>1 DEF Covered
    <2>7. UNION parts \in SUBSET Valid
      BY <2>4
    <2> HIDE DEF parts
    <2>8. \A x : (\E j \in 1..(k + 1) : Covers(x, c[j])) <=>
                 (\E j \in 1..k : Covers(x, c[j])) \/ Covers(x, cut)
      <3>1. \A j \in 1..(k + 1) : j \in 1..k \/ j = k + 1
        BY <1>3
      <3>2. k + 1 \in 1..(k + 1) /\ 1..k \subseteq 1..(k + 1)
        BY <1>3
      <3>3. QED
        BY <3>1, <3>2 DEF cut
    <2>9. Cut(L, c, k + 1)
      BY <2>1, <2>2, <2>5, <2>6, <2>7, <2>8 DEF Cut
    <2>10. QED
      BY <1>1, <1>3, <2>9
  <1> HIDE DEF n
  <1>4. n \in S
    <2> HIDE DEF S
    <2>1. QED
      BY <1>1, <1>2, <1>3, Induction
  <1>5. QED
    BY <1>4 DEF n

\* subtractMinuteRanges yields a chain that covers what the ranges cover and
\* the cuts do not.
LEMMA SubtractIsExact ==
    ASSUME NEW R \in SUBSET Interval, IsFiniteSet(R),
           NEW C \in SUBSET Interval, IsFiniteSet(C)
    PROVE  LET m == subtractMinuteRanges(R, C)
           IN  /\ m \in Seq(Valid) /\ Chain(m)
               /\ \A x \in Int : Covered(x, ToSet(m)) <=>
                                 Covered(x, R) /\ ~Covered(x, C)
  <1> DEFINE b == mergeMinuteRanges(R)
             c == mergeMinuteRanges(C)
             left == Cutting(ToSet(b), c)[Len(c)]
  <1>1. /\ b \in Seq(Valid)
        /\ \A x \in Int : Covered(x, ToSet(b)) <=> Covered(x, R)
    BY MergeIsExact
  <1>2. /\ c \in Seq(Valid)
        /\ \A x \in Int : Covered(x, ToSet(c)) <=> Covered(x, C)
    BY MergeIsExact
  <1>3. subtractMinuteRanges(R, C) = mergeMinuteRanges(left)
    BY DEF subtractMinuteRanges
  <1> HIDE DEF b, c
  <1>4. ToSet(b) \in SUBSET Valid /\ IsFiniteSet(ToSet(b))
    <2>1. ToSet(b) \in SUBSET Valid
      BY <1>1, ToSetOfSeq
    <2>2. Len(b) \in Nat /\ b \in Surjection(1..Len(b), ToSet(b))
      BY <1>1, ToSetOfSeq DEF Surjection
    <2>3. IsFiniteSet(1..Len(b))
      BY <2>2, FS_Interval
    <2>4. QED
      BY <2>1, <2>2, <2>3, FS_Surjection
  <1>5. Cut(ToSet(b), c, Len(c))
    BY <1>2, <1>4, CuttingIsExact
  <1>6. /\ left \in SUBSET Valid /\ IsFiniteSet(left)
        /\ \A x \in Int : Covered(x, left) <=>
             Covered(x, ToSet(b)) /\ ~ \E j \in 1..Len(c) : Covers(x, c[j])
    BY <1>5 DEF Cut
  <1>7. \A x : Covered(x, ToSet(c)) <=> \E j \in 1..Len(c) : Covers(x, c[j])
    BY <1>2, ToSetOfSeq DEF Covered
  <1> HIDE DEF left
  <1>8. left \in SUBSET Interval
    BY <1>6 DEF Valid
  <1>9. LET m == mergeMinuteRanges(left)
        IN  /\ m \in Seq(Valid) /\ Chain(m)
            /\ \A x \in Int : Covered(x, ToSet(m)) <=> Covered(x, left)
    BY <1>6, <1>8, MergeIsExact
  <1>10. QED
    BY <1>1, <1>2, <1>3, <1>6, <1>7, <1>9

\* What a chain covers without a gap lies in one of its ranges.
LEMMA ChainHasNoSeams ==
    ASSUME NEW m \in Seq(Valid), Chain(m), NEW a \in Int, NEW b \in Int, a < b,
           \A x \in Int : a <= x /\ x < b => Covered(x, ToSet(m))
    PROVE  \E i \in 1..Len(m) : m[i].start <= a /\ b <= m[i].end
  <1>1. \A i \in 1..Len(m) : /\ m[i].start \in Int /\ m[i].end \in Int
                             /\ m[i].start < m[i].end
    BY DEF Valid, Interval
  <1>2. \A x \in Int : a <= x /\ x < b =>
          \E i \in 1..Len(m) : m[i].start <= x /\ x < m[i].end
    BY ToSetOfSeq DEF Covered, Covers
  <1>3. PICK i \in 1..Len(m) : m[i].start <= a /\ a < m[i].end
    BY <1>2
  <1>4. ASSUME m[i].end < b PROVE FALSE
    <2>1. PICK j \in 1..Len(m) :
            m[j].start <= m[i].end /\ m[i].end < m[j].end
      <3>1. m[i].end \in Int /\ a <= m[i].end
        BY <1>1, <1>3
      <3>2. QED
        BY <1>2, <1>4, <3>1
    <2>2. i < j \/ j < i \/ i = j
      OBVIOUS
    <2>3. QED
      BY <1>1, <1>3, <2>1, <2>2 DEF Chain
  <1>5. QED
    BY <1>1, <1>3, <1>4

-----------------------------------------------------------------------------
(***************************************************************************)
(* Days.                                                                   *)
(***************************************************************************)

\* An instant is its day and its unit within the day.
LEMMA DayAndUnit ==
    ASSUME NEW x \in Int
    PROVE  /\ x \div DayLength \in Int
           /\ x % DayLength \in 0..(DayLength - 1)
           /\ x % DayLength = x - DayLength * (x \div DayLength)
  <1>1. DayLength \in Int /\ DayLength > 0
    BY AvailabilityAssumption
  <1>2. \A y, n \in Int : n > 0 => /\ y \div n \in Int
                                 /\ y % n \in 0..(n - 1)
                                 /\ y % n = y - n * (y \div n)
    OBVIOUS
  <1>3. QED
    BY <1>1, <1>2

LEMMA DayIsUnique ==
    ASSUME NEW x \in Int, NEW d \in Int, NEW t \in 0..(DayLength - 1),
           x = d * DayLength + t
    PROVE  x \div DayLength = d /\ x % DayLength = t
  <1> DEFINE q == x \div DayLength
             u == x % DayLength
  <1>1. DayLength \in Int /\ DayLength > 0
    BY AvailabilityAssumption
  <1>2. q \in Int /\ u \in 0..(DayLength - 1) /\ u = x - DayLength * q
    BY DayAndUnit
  <1> HIDE DEF q, u
  <1>3. DayLength * (q - d) = t - u
    BY <1>1, <1>2
  <1>4. PICK e \in Int : e = q - d
    BY <1>2
  <1>5. DayLength * e = t - u
    BY <1>3, <1>4
  <1>6. e >= 1 => DayLength * e >= DayLength
    BY <1>1
  <1>7. e <= -1 => DayLength * e <= -DayLength
    BY <1>1
  <1>8. e = 0
    BY <1>1, <1>2, <1>5, <1>6, <1>7
  <1>9. q = d /\ u = t
    BY <1>1, <1>2, <1>4, <1>5, <1>8
  <1>10. QED
    BY <1>9 DEF q, u

-----------------------------------------------------------------------------
(***************************************************************************)
(* The invariant: a preview is what the slots and the parameters make of   *)
(* it, also after clients have booked more of them.                        *)
(***************************************************************************)

Typed ==
    /\ slots \in Calendars /\ bookings \subseteq slots /\ request \in Requests
    /\ step \in {"asked", "refused", "shown", "days sent", "slots sent",
                 "nothing sent"}

Previewed ==
    /\ preview.added = addedSlots /\ preview.removed = removedSlots
    /\ preview.days = [d \in selectedDays |->
                         buildAvailabilityExecutionRanges(d)]

IInv == Typed /\ (preview = NoPreview \/ Previewed)

\* The ranges that a day's opening times are made of, and those cut off.
Base(d) == IF setsHours THEN {request.hours} ELSE buildBaselineRanges(d)
CutOff  == IF setsHours \/ addsBreaks THEN request.breaks ELSE {closedRange}

LEMMA SlotFacts ==
    ASSUME Typed
    PROVE  /\ slots \in SUBSET Interval /\ IsFiniteSet(slots)
           /\ \A s \in slots : /\ s.start \in Int /\ s.end \in Int
                               /\ s.start < s.end
           /\ slots \cup bookings = slots
  BY AvailabilityAssumption DEF Typed, Interval

LEMMA RequestFacts ==
    ASSUME Typed
    PROVE  /\ request.hours \in Interval /\ request.close \in Interval
           /\ request.breaks \in SUBSET Interval /\ IsFiniteSet(request.breaks)
           /\ setsHours => /\ request.hours.start \in 0..(DayLength - 1)
                           /\ request.hours.end \in 0..(DayLength - 1)
  BY AvailabilityAssumption DEF Typed, Request, setsHours

LEMMA DayFacts ==
    /\ Days \subseteq Int /\ selectedDays \subseteq Days
    /\ DayLength \in Int /\ DayLength > 0
  BY AvailabilityAssumption DEF Days, selectedDays

\* The ranges are ranges, finitely many, and lie within the day.
LEMMA RangesAreFinite ==
    ASSUME Typed, NEW d \in Int
    PROVE  /\ Base(d) \in SUBSET Interval /\ IsFiniteSet(Base(d))
           /\ \A r \in Base(d) : 0 <= r.start /\ r.end < DayLength
           /\ CutOff \in SUBSET Interval /\ IsFiniteSet(CutOff)
  <1>1. CASE setsHours
    <2>1. Base(d) = {request.hours} /\ CutOff = request.breaks
      BY <1>1 DEF Base, CutOff
    <2>2. /\ request.hours \in Interval
          /\ 0 <= request.hours.start /\ request.hours.end < DayLength
      BY <1>1, RequestFacts, DayFacts DEF Interval
    <2>3. IsFiniteSet({request.hours})
      BY FS_Singleton
    <2>4. QED
      BY <2>1, <2>2, <2>3, RequestFacts
  <1>2. CASE ~setsHours
    <2> DEFINE S == {s \in slots : IsWithin(s, d)}
               R == {Between(s.start % DayLength, s.end % DayLength) : s \in S}
    <2>1. Base(d) = R
      BY <1>2, SlotFacts DEF Base, buildBaselineRanges
    <2>2. \A s \in slots : /\ s.start % DayLength \in 0..(DayLength - 1)
                           /\ s.end % DayLength \in 0..(DayLength - 1)
      BY SlotFacts, DayAndUnit
    <2>3. \A r \in R : r \in Interval /\ 0 <= r.start /\ r.end < DayLength
      BY <2>2, DayFacts DEF Between, Interval
    <2>4. IsFiniteSet(R)
      <3>1. IsFiniteSet(S)
        BY SlotFacts, FS_Subset
      <3>2. [s \in S |-> Between(s.start % DayLength, s.end % DayLength)]
              \in Surjection(S, R)
        BY DEF Surjection
      <3> HIDE DEF S, R
      <3>3. QED
        BY <3>1, <3>2, FS_Surjection
    <2> HIDE DEF R
    <2>5. closedRange \in Interval
      BY RequestFacts, DayFacts DEF closedRange, Between, Interval
    <2>6. CutOff \in SUBSET Interval /\ IsFiniteSet(CutOff)
      <3>1. CutOff = request.breaks \/ CutOff = {closedRange}
        BY DEF CutOff
      <3>2. QED
        BY <2>5, <3>1, RequestFacts, FS_Singleton
    <2>7. QED
      BY <2>1, <2>3, <2>4, <2>6
  <1>3. QED
    BY <1>1, <1>2

\* The opening times of a day are a chain that covers what was open, without
\* what is cut off.
LEMMA BuildIsExact ==
    ASSUME Typed, NEW d \in Int
    PROVE  LET m == buildAvailabilityExecutionRanges(d)
           IN  /\ m \in Seq(Valid) /\ Chain(m)
               /\ \A x \in Int : Covered(x, ToSet(m)) <=>
                                 Covered(x, Base(d)) /\ ~Covered(x, CutOff)
  <1>1. buildAvailabilityExecutionRanges(d)
          = subtractMinuteRanges(Base(d), CutOff)
    BY DEF buildAvailabilityExecutionRanges, Base, CutOff, addsBreaks
  <1>2. QED
    BY <1>1, RangesAreFinite, SubtractIsExact

\* The length of the slots that are added is a positive number.
LEMMA SlotDuration ==
    ASSUME Typed
    PROVE  inferSlotDuration \in Int /\ inferSlotDuration > 0
  <1> DEFINE T == ({s.end - s.start : s \in slots} \cap 1..SlotLength)
                    \cup {SlotLength}
  <1>1. T \in SUBSET Nat /\ T # {} /\ \A n \in T : n > 0
    BY AvailabilityAssumption
  <1>2. inferSlotDuration = CHOOSE n \in T : \A m \in T : n <= m
    BY DEF inferSlotDuration
  <1> HIDE DEF T
  <1>3. inferSlotDuration \in T
    BY <1>1, <1>2, LeastNatural
  <1>4. QED
    BY <1>1, <1>3

\* What is not removed from a day that is rewritten stays open.
LEMMA KeptStays ==
    ASSUME Typed, NEW d \in selectedDays, NEW s \in slots, IsWithin(s, d),
           s \notin removedSlots
    PROVE  LET m == buildAvailabilityExecutionRanges(d)
           IN  \E i \in DOMAIN m : /\ At(d, m[i]).start <= s.start
                                  /\ s.end <= At(d, m[i]).end
  <1> DEFINE D == DayLength
             m == buildAvailabilityExecutionRanges(d)
             a == s.start % D
             b == s.end % D
             o == d * D
  <1>1. /\ d \in Int /\ d \in Days /\ D \in Int /\ D > 0 /\ o \in Int
        /\ s.start \in Int /\ s.end \in Int /\ s.start < s.end
    BY DayFacts, SlotFacts
  <1>2. /\ a \in 0..(D - 1) /\ b \in 0..(D - 1)
        /\ a = s.start - o /\ b = s.end - o
    <2>1. s.start \div D = d /\ s.end \div D = d
      BY DEF IsWithin
    <2>2. D * d = o
      BY <1>1
    <2>3. QED
      BY <1>1, <2>1, <2>2, DayAndUnit
  <1>3. a < b
    BY <1>1, <1>2
  <1>4. \A c \in Interval : /\ At(d, c).start = o + c.start
                            /\ At(d, c).end = o + c.end
    BY DEF At, Between
  <1> HIDE DEF a, b, o, D, m
  <1>5. \A x \in Int : a <= x /\ x < b => Covered(x, Base(d))
    <2>1. CASE setsHours
      <3>1. s \in buildWorkingHoursSlots
        BY <2>1 DEF removedSlots
      <3> DEFINE n == inferSlotDuration
      <3>2. PICK e \in selectedDays,
                 t \in request.hours.start..(request.hours.end - n) :
              s = At(e, Between(t, t + n))
        BY <3>1 DEF buildWorkingHoursSlots
      <3>3. n \in Int /\ n > 0
        BY SlotDuration
      <3> DEFINE from == request.hours.start
                 to   == request.hours.end
      <3>a. from \in 0..(D - 1) /\ to \in 0..(D - 1)
        BY <2>1, RequestFacts DEF D
      <3>b. e \in Int
        BY DayFacts
      <3>c. t \in from..(to - n)
        OBVIOUS
      <3> HIDE DEF n, from, to
      <3>4. /\ e \in Int /\ t \in Int /\ from <= t /\ t <= to - n
            /\ 0 <= from /\ to <= D - 1 /\ from \in Int /\ to \in Int
        BY <1>1, <3>3, <3>a, <3>b, <3>c
      <3>5. s.start = e * D + t /\ s.end = e * D + (t + n)
        BY <3>2 DEF At, Between, D
      <3>6. t \in 0..(D - 1) /\ t + n \in 0..(D - 1)
        BY <1>1, <3>3, <3>4
      <3>7. a = t /\ b = t + n
        BY <1>1, <3>4, <3>5, <3>6, DayIsUnique DEF a, b, D
      <3>8. from <= a /\ b <= to
        BY <3>3, <3>4, <3>7
      <3>9. \A x \in Int : a <= x /\ x < b => from <= x /\ x < to
        BY <3>4, <3>6, <3>7, <3>8
      <3>10. QED
        BY <2>1, <3>9 DEF Base, Covered, Covers, from, to
    <2>2. CASE ~setsHours
      <3>1. Between(a, b) \in Base(d)
        BY <2>2, SlotFacts DEF Base, buildBaselineRanges, a, b, D
      <3>2. QED
        BY <3>1 DEF Covered, Covers, Between
    <2>3. QED
      BY <2>1, <2>2
  <1>6. \A c \in CutOff : ~overlapsAny(s, {At(d, c)})
    <2>1. CASE setsHours
      <3>1. s \in buildWorkingHoursSlots
        BY <2>1 DEF removedSlots
      <3>2. ~overlapsAny(s, buildBreakWindows)
        BY <3>1 DEF buildWorkingHoursSlots, BetweenBreaks
      <3>3. QED
        BY <2>1, <3>2 DEF CutOff, overlapsAny, buildBreakWindows
    <2>2. CASE ~setsHours /\ addsBreaks
      <3>1. ~overlapsAny(s, buildBreakWindows)
        BY <2>2 DEF removedSlots
      <3>2. QED
        BY <2>2, <3>1 DEF CutOff, overlapsAny, buildBreakWindows
    <2>3. CASE ~setsHours /\ ~addsBreaks
      <3>1. ~overlapsAny(s, buildCloseWindows)
        BY <2>3 DEF removedSlots
      <3>2. QED
        BY <1>1, <2>3, <3>1 DEF CutOff, overlapsAny, buildCloseWindows
    <2>4. QED
      BY <2>1, <2>2, <2>3
  <1>7. \A x \in Int : a <= x /\ x < b => ~Covered(x, CutOff)
    <2> SUFFICES ASSUME NEW c \in CutOff, NEW x \in Int,
                        a <= x, x < b, c.start <= x, x < c.end
                 PROVE  FALSE
      BY DEF Covered, Covers
    <2>1. c \in Interval /\ c.start \in Int /\ c.end \in Int
      BY <1>1, RangesAreFinite DEF Interval
    <2>2. ~ (s.start < o + c.end /\ s.end > o + c.start)
      BY <1>4, <1>6, <2>1 DEF overlapsAny
    <2>3. QED
      BY <1>1, <1>2, <2>1, <2>2
  <1>8. /\ m \in Seq(Valid) /\ Chain(m)
        /\ \A x \in Int : a <= x /\ x < b => Covered(x, ToSet(m))
    BY <1>1, <1>5, <1>7, BuildIsExact DEF m
  <1>9. PICK i \in 1..Len(m) : m[i].start <= a /\ b <= m[i].end
    <2>1. a \in Int /\ b \in Int
      BY <1>1, <1>2
    <2>2. QED
      BY <1>3, <1>8, <2>1, ChainHasNoSeams
  <1>10. m[i] \in Interval /\ m[i].start \in Int /\ m[i].end \in Int
    BY <1>8 DEF Valid, Interval
  <1>11. At(d, m[i]).start <= s.start /\ s.end <= At(d, m[i]).end
    <2>1. /\ At(d, m[i]).start = o + m[i].start
          /\ At(d, m[i]).end = o + m[i].end
      BY <1>4, <1>10
    <2>2. m[i].start <= s.start - o /\ s.end - o <= m[i].end
      BY <1>2, <1>9
    <2>3. QED
      BY <1>1, <1>10, <2>1, <2>2
  <1>12. QED
    BY <1>8, <1>11 DEF m

-----------------------------------------------------------------------------
(***************************************************************************)
(* The theorems.                                                           *)
(***************************************************************************)

\* Of the calendar, only the slots and the parameters decide what a preview
\* says; bookings are slots.
LEMMA Unmoved ==
    ASSUME Typed, Typed', slots' = slots, request' = request
    PROVE  /\ addedSlots' = addedSlots /\ removedSlots' = removedSlots
           /\ selectedDays' = selectedDays
           /\ \A d \in Days : /\ buildAvailabilityExecutionRanges(d)'
                                   = buildAvailabilityExecutionRanges(d)
                              /\ Opening(d)' = Opening(d)
  <1>1. /\ selectedDays' = selectedDays /\ setsHours' = setsHours
        /\ addsBreaks' = addsBreaks /\ closedRange' = closedRange
    BY DEF selectedDays, setsHours, addsBreaks, closedRange
  <1>2. /\ inferSlotDuration' = inferSlotDuration
        /\ buildBreakWindows' = buildBreakWindows
        /\ buildCloseWindows' = buildCloseWindows
    BY <1>1 DEF inferSlotDuration, buildBreakWindows, buildCloseWindows
  <1>3. buildWorkingHoursSlots' = buildWorkingHoursSlots
    BY <1>1, <1>2 DEF buildWorkingHoursSlots, BetweenBreaks
  <1>4. addedSlots' = addedSlots /\ removedSlots' = removedSlots
    BY <1>1, <1>2, <1>3 DEF addedSlots, removedSlots
  <1>5. (slots \cup bookings)' = slots \cup bookings
    BY SlotFacts DEF Typed
  <1>6. \A d \in Days : buildBaselineRanges(d)' = buildBaselineRanges(d)
    BY <1>5 DEF buildBaselineRanges
  <1>7. \A d \in Days : Opening(d)' = Opening(d)
    BY <1>1, <1>6 DEF Opening
  <1>8. \A d \in Days : buildAvailabilityExecutionRanges(d)'
                          = buildAvailabilityExecutionRanges(d)
    BY <1>1, <1>6 DEF buildAvailabilityExecutionRanges
  <1>9. QED
    BY <1>1, <1>4, <1>7, <1>8

LEMMA UnmovedPreview ==
    ASSUME IInv, Typed', slots' = slots, request' = request, preview' = preview
    PROVE  IInv'
  <1>1. Typed
    BY DEF IInv
  <1>2. /\ addedSlots' = addedSlots /\ removedSlots' = removedSlots
        /\ selectedDays' = selectedDays
        /\ \A d \in selectedDays : buildAvailabilityExecutionRanges(d)'
                                     = buildAvailabilityExecutionRanges(d)
    BY <1>1, Unmoved, DayFacts
  <1>3. CASE preview = NoPreview
    BY <1>3 DEF IInv, NoPreview
  <1>4. CASE Previewed
    <2>1. Previewed'
      BY <1>2, <1>4 DEF Previewed
    <2>2. QED
      BY <2>1 DEF IInv
  <1>5. QED
    BY <1>3, <1>4 DEF IInv

LEMMA InitInv == Init => IInv
  BY DEF Init, IInv, Typed

LEMMA PreviewInv ==
    ASSUME IInv, PreviewAvailabilityChange
    PROVE  IInv'
  <1>1. slots' = slots /\ bookings' = bookings /\ request' = request
    BY DEF PreviewAvailabilityChange
  <1>2. Typed /\ Typed'
    BY <1>1 DEF PreviewAvailabilityChange, IInv, Typed
  <1>3. CASE UNCHANGED preview
    BY <1>1, <1>2, <1>3, UnmovedPreview
  <1>4. CASE preview' # preview
    <2>1. /\ preview'.added = addedSlots /\ preview'.removed = removedSlots
          /\ preview'.days = [d \in selectedDays |->
                                buildAvailabilityExecutionRanges(d)]
      BY <1>4 DEF PreviewAvailabilityChange
    <2>2. /\ addedSlots' = addedSlots /\ removedSlots' = removedSlots
          /\ selectedDays' = selectedDays
          /\ \A d \in selectedDays : buildAvailabilityExecutionRanges(d)'
                                       = buildAvailabilityExecutionRanges(d)
      BY <1>1, <1>2, Unmoved, DayFacts
    <2>3. Previewed'
      BY <2>1, <2>2 DEF Previewed
    <2>4. QED
      BY <1>2, <2>3 DEF IInv
  <1>5. QED
    BY <1>3, <1>4

LEMMA NextInv == IInv /\ [Next]_vars => IInv'
  <1> SUFFICES ASSUME IInv, [Next]_vars
               PROVE  IInv'
    OBVIOUS
  <1>1. CASE PreviewAvailabilityChange
    BY <1>1, PreviewInv
  <1>2. CASE executeDirectBookably
    <2>1. UNCHANGED <<slots, bookings, request, preview>> /\ Typed'
      BY <1>2 DEF executeDirectBookably, IInv, Typed
    <2>2. QED
      BY <2>1, UnmovedPreview
  <1>3. ASSUME NEW s \in slots, ClientBooks(s)
        PROVE  IInv'
    <2>1. slots' = slots /\ UNCHANGED <<request, preview>> /\ Typed'
      BY <1>3 DEF ClientBooks, IInv, Typed
    <2>2. QED
      BY <2>1, UnmovedPreview
  <1>4. CASE UNCHANGED vars
    <2>1. UNCHANGED <<slots, request, preview>> /\ Typed'
      BY <1>4 DEF vars, IInv, Typed
    <2>2. QED
      BY <2>1, UnmovedPreview
  <1>5. QED
    BY <1>1, <1>2, <1>3, <1>4 DEF Next

LEMMA IInvAlways == Spec => []IInv
  BY InitInv, NextInv, PTL DEF Spec

\* The days of a preview, and what IInv says of one.
LEMMA PreviewDays ==
    ASSUME IInv, NEW d \in DOMAIN preview.days
    PROVE  /\ Previewed /\ d \in selectedDays /\ d \in Days /\ d \in Int
           /\ preview.days[d] = buildAvailabilityExecutionRanges(d)
  <1>1. preview # NoPreview
    BY DEF NoPreview
  <1>2. Previewed
    BY <1>1 DEF IInv
  <1>3. d \in selectedDays
    BY <1>2 DEF Previewed
  <1>4. QED
    BY <1>2, <1>3, DayFacts DEF Previewed

\* Types: the preview removes slots there are and adds slots there are not,
\* and opening times are proper ranges within the day.
THEOREM TypeCorrect == Spec => []TypeOK
  <1>1. IInv => TypeOK
    <2> SUFFICES ASSUME IInv
                 PROVE  TypeOK
      OBVIOUS
    <2>1. preview.removed \subseteq slots /\ preview.added \cap slots = {}
      <3>1. CASE preview = NoPreview
        BY <3>1 DEF NoPreview
      <3>2. CASE Previewed
        BY <3>2 DEF Previewed, removedSlots, addedSlots
      <3>3. QED
        BY <3>1, <3>2 DEF IInv
    <2>2. DOMAIN preview.days \subseteq Days
      BY PreviewDays
    <2>3. ASSUME NEW d \in DOMAIN preview.days,
                 NEW i \in DOMAIN preview.days[d]
          PROVE  LET r == preview.days[d][i]
                 IN  0 <= r.start /\ r.start < r.end /\ r.end <= DayLength
      <3> DEFINE m == preview.days[d]
                 r == m[i]
      <3>1. /\ d \in Int /\ Typed
            /\ m = buildAvailabilityExecutionRanges(d)
        BY PreviewDays DEF IInv
      <3>2. /\ m \in Seq(Valid)
            /\ \A x \in Int : Covered(x, ToSet(m)) => Covered(x, Base(d))
        BY <3>1, BuildIsExact
      <3> HIDE DEF m
      <3>3. i \in 1..Len(m)
        BY <3>2 DEF m
      <3>4. r \in ToSet(m) /\ r \in Valid
        BY <3>2, <3>3, ToSetOfSeq
      <3> HIDE DEF r
      <3>5. r.start \in Int /\ r.end \in Int /\ r.start < r.end
        BY <3>4 DEF Valid, Interval
      <3>6. Covered(r.start, ToSet(m)) /\ Covered(r.end - 1, ToSet(m))
        BY <3>4, <3>5 DEF Covered, Covers
      <3>7. \A x \in Int : Covered(x, Base(d)) => 0 <= x /\ x < DayLength
        <4>1. \A c \in Base(d) : /\ c.start \in Int /\ c.end \in Int
                                 /\ 0 <= c.start /\ c.end < DayLength
          BY <3>1, RangesAreFinite DEF Interval
        <4>2. QED
          BY <4>1, DayFacts DEF Covered, Covers
      <3>8. 0 <= r.start /\ r.end - 1 < DayLength
        BY <3>2, <3>5, <3>6, <3>7
      <3>9. QED
        BY <3>5, <3>8, DayFacts DEF r, m
    <2>4. QED
      BY <2>1, <2>2, <2>3 DEF TypeOK, IInv, Typed
  <1>2. QED
    BY <1>1, IInvAlways, PTL

\* Whatever slots and parameters overlap, touch or repeat one another: the
\* opening times are exactly what was open without what is cut off, written
\* as ranges in order that neither overlap nor touch.
THEOREM OpeningAlwaysExact == Spec => []OpeningIsExact
  <1>1. IInv => OpeningIsExact
    <2> SUFFICES ASSUME IInv, NEW d \in DOMAIN preview.days
                 PROVE  LET m == preview.days[d]
                        IN  /\ Units(ToSet(m)) = Opening(d)
                            /\ \A i \in 1..(Len(m) - 1) :
                                 m[i].end < m[i + 1].start
      BY DEF OpeningIsExact
    <2> DEFINE m == preview.days[d]
    <2>1. Typed /\ d \in Int /\ m = buildAvailabilityExecutionRanges(d)
      BY PreviewDays DEF IInv
    <2>2. /\ m \in Seq(Valid) /\ Chain(m)
          /\ \A x \in Int : Covered(x, ToSet(m)) <=>
                            Covered(x, Base(d)) /\ ~Covered(x, CutOff)
      BY <2>1, BuildIsExact
    <2> HIDE DEF m
    <2>3. Opening(d) = Units(Base(d)) \ Units(CutOff)
      BY DEF Opening, Base, CutOff
    <2>4. ToSet(m) \in SUBSET Interval
      BY <2>2, ToSetOfSeq DEF Valid
    <2>5. Base(d) \in SUBSET Interval /\ CutOff \in SUBSET Interval
      BY <2>1, RangesAreFinite
    <2>6. Units(ToSet(m)) = Opening(d)
      BY <2>2, <2>3, <2>4, <2>5, UnitsAreCovered
    <2>7. \A i \in 1..(Len(m) - 1) : m[i].end < m[i + 1].start
      BY <2>2 DEF Chain
    <2>8. QED
      BY <2>6, <2>7 DEF m
  <1>2. QED
    BY <1>1, IInvAlways, PTL

\* A slot of a day that is rewritten is counted as removed or stays open for
\* its whole length: two computations, one over slots and one over ranges,
\* that agree.
THEOREM KeptAlwaysOpen == Spec => []KeptSlotsStayOpen
  <1>1. IInv => KeptSlotsStayOpen
    <2> SUFFICES ASSUME IInv, NEW d \in DOMAIN preview.days, NEW s \in slots,
                        IsWithin(s, d), s \notin preview.removed
                 PROVE  StaysOpen(s, d)
      BY DEF KeptSlotsStayOpen
    <2>1. /\ Typed /\ d \in selectedDays /\ s \notin removedSlots
          /\ preview.days[d] = buildAvailabilityExecutionRanges(d)
      BY PreviewDays DEF IInv, Previewed
    <2>2. QED
      BY <2>1, KeptStays DEF StaysOpen
  <1>2. QED
    BY <1>1, IInvAlways, PTL

\* A booking that the new opening times leave out is among the conflicts that
\* the preview names.
THEOREM LostAlwaysNamed == Spec => LostBookingsAreNamed
  <1> DEFINE Named ==
        step' = "shown" /\ step = "asked" =>
          \A d \in DOMAIN preview'.days : \A b \in bookings :
            IsWithin(b, d) /\ ~StaysOpen(b, d)' => b \in preview'.conflicts
  <1>1. IInv /\ [Next]_vars => [Named]_vars
    <2> SUFFICES ASSUME IInv, IInv', Next, step' = "shown", step = "asked",
                        NEW d \in DOMAIN preview'.days, NEW b \in bookings,
                        IsWithin(b, d), ~StaysOpen(b, d)'
                 PROVE  b \in preview'.conflicts
      BY NextInv
    <2>1. PreviewAvailabilityChange
      BY DEF Next, executeDirectBookably, ClientBooks
    <2>2. /\ preview'.conflicts = findConflicts(removedSlots)
          /\ preview'.days = [e \in selectedDays |->
                                buildAvailabilityExecutionRanges(e)]
      BY <2>1 DEF PreviewAvailabilityChange
    <2>3. /\ Typed /\ b \in slots /\ d \in selectedDays
          /\ preview'.days[d] = buildAvailabilityExecutionRanges(d)
      BY <2>2 DEF IInv, Typed
    <2>4. b \in removedSlots
      BY <2>3, KeptStays DEF StaysOpen
    <2>5. StartsIn(b, b)
      BY <2>3, SlotFacts DEF StartsIn
    <2>6. QED
      BY <2>2, <2>4, <2>5 DEF findConflicts
  <1>2. QED
    BY <1>1, IInvAlways, PTL DEF Spec, LostBookingsAreNamed
=============================================================================
