----------------------------- MODULE UnitsProofs -----------------------------
(***************************************************************************)
(* Facts about the operators of Units, for specs and values of any number: *)
(* what sorting the values of an option keeps, and what rendering makes of *)
(* the options of a spec.  Where they need induction, it is taken as the   *)
(* least element of the set of counterexamples.                            *)
(***************************************************************************)
EXTENDS Units, FiniteSetTheorems, TLAPS

(***************************************************************************)
(* Sorting integers.                                                       *)
(***************************************************************************)
LEMMA LeastElement ==
    ASSUME NEW T \in SUBSET Nat, T # {}
    PROVE  \E m \in T : \A k \in T : m <= k
<1> DEFINE R == {ss \in Nat \X Nat : ss[1] < ss[2]}
<1>1. OpToRel(<, Nat) = R
  BY DEF OpToRel
<1>2. IsWellFoundedOn(R, Nat)
  BY <1>1, NatLessThanWellFounded
<1>3. \A m, k \in Nat : k < m => <<k, m>> \in R
  OBVIOUS
<1> HIDE DEF R
<1>4. PICK m \in T : \A k \in T : <<k, m>> \notin R
  BY <1>2, WFMin
<1>5. \A k \in T : ~(k < m) /\ k \in Nat /\ m \in Nat
  BY <1>3, <1>4
<1> QED
  BY <1>5

HasGreatest(r, m) == \E k \in 1..m : \A i \in 1..m : r[i] <= r[k]

\* So has a finite list of numbers a greatest one.
LEMMA GreatestElement ==
    ASSUME NEW n \in Nat \ {0}, NEW r \in [1..n -> Int]
    PROVE  HasGreatest(r, n)
<1> SUFFICES ASSUME ~HasGreatest(r, n) PROVE FALSE
  OBVIOUS
<1> DEFINE T == {m \in 1..n : ~HasGreatest(r, m)}
<1>1. T \in SUBSET Nat /\ n \in T
  OBVIOUS
<1> HIDE DEF T
<1>2. PICK m \in T : \A j \in T : m <= j
  BY <1>1, LeastElement
<1>3. m \in 1..n /\ ~HasGreatest(r, m)
  BY DEF T
<1>4. m # 1
  <2>1. HasGreatest(r, 1)
    BY DEF HasGreatest
  <2> QED
    BY <1>3, <2>1
<1>5. m - 1 \in 1..n /\ m - 1 \notin T
  BY <1>1, <1>2, <1>3, <1>4
<1>6. HasGreatest(r, m - 1)
  BY <1>5 DEF T
<1>7. PICK k \in 1..(m-1) : \A i \in 1..(m-1) : r[i] <= r[k]
  BY <1>6 DEF HasGreatest
<1>8. \A i \in 1..m : i = m \/ i \in 1..(m-1)
  BY <1>3
<1>9. CASE r[m] <= r[k]
  <2>1. k \in 1..m /\ \A i \in 1..m : r[i] <= r[k]
    BY <1>3, <1>7, <1>8, <1>9
  <2>2. HasGreatest(r, m)
    BY <2>1, Zenon DEF HasGreatest
  <2> QED
    BY <1>3, <2>2
<1>10. CASE r[k] <= r[m]
  <2>1. m \in 1..m /\ \A i \in 1..m : r[i] <= r[m]
    BY <1>3, <1>7, <1>8, <1>10
  <2>2. HasGreatest(r, m)
    BY <2>1, Zenon DEF HasGreatest
  <2> QED
    BY <1>3, <2>2
<1> QED
  BY <1>3, <1>7, <1>9, <1>10

Sorts(f, r, n) ==
    f \in Injection(1..n, 1..n) /\ \A i, j \in 1..n : i < j => r[f[i]] <= r[f[j]]
Sortable(n) == \A r \in [1..n -> Int] : \E f : Sorts(f, r, n)

\* The greatest goes last, in exchange for the one that is there.
LEMMA SortOneMore ==
    ASSUME NEW m \in Nat \ {0}, Sortable(m - 1)
    PROVE  Sortable(m)
<1> SUFFICES ASSUME NEW q \in [1..m -> Int] PROVE \E f : Sorts(f, q, m)
  BY DEF Sortable
<1>5. PICK k \in 1..m : \A i \in 1..m : q[i] <= q[k]
  BY GreatestElement DEF HasGreatest
<1> DEFINE p == [i \in 1..(m-1) |-> IF i = k THEN q[m] ELSE q[i]]
<1>6. p \in [1..(m-1) -> Int]
  OBVIOUS
<1>7. PICK g : Sorts(g, p, m-1)
  BY <1>6 DEF Sortable
<1>8. \A i \in 1..(m-1) : g[i] \in 1..(m-1)
  BY <1>7 DEF Sorts, Injection
<1>9. \A i, j \in 1..(m-1) : g[i] = g[j] => i = j
  BY <1>7 DEF Sorts, Injection, IsInjective
<1>a. \A i, j \in 1..(m-1) : i < j => p[g[i]] <= p[g[j]]
  BY <1>7 DEF Sorts
<1> DEFINE f == [i \in 1..m |-> IF i = m THEN k ELSE IF g[i] = k THEN m ELSE g[i]]
<1>b. f \in [1..m -> 1..m]
  BY <1>8
<1>c. f[m] = k /\ \A i \in 1..(m-1) : f[i] = (IF g[i] = k THEN m ELSE g[i]) /\ i \in 1..m /\ i # m
  OBVIOUS
<1>d. \A i \in 1..(m-1) : q[f[i]] = p[g[i]]
  BY <1>8, <1>c
<1>e. \A i \in 1..m : i = m \/ i \in 1..(m-1)
  OBVIOUS
<1> HIDE DEF f, p
<1>10. ASSUME NEW i \in 1..m, NEW j \in 1..m, f[i] = f[j] PROVE i = j
  <2>1. CASE i = m
    BY <1>8, <1>10, <1>c, <1>e, <2>1
  <2>2. CASE j = m
    BY <1>8, <1>10, <1>c, <1>e, <2>2
  <2>3. CASE i # m /\ j # m
    <3>1. i \in 1..(m-1) /\ j \in 1..(m-1)
      BY <2>3, <1>e
    <3>2. g[i] # m /\ g[j] # m
      BY <1>8, <3>1
    <3>3. g[i] = g[j]
      BY <1>10, <1>c, <3>1, <3>2
    <3> QED
      BY <1>9, <3>1, <3>3
  <2> QED
    BY <2>1, <2>2, <2>3
<1>11. ASSUME NEW i \in 1..m, NEW j \in 1..m, i < j
       PROVE  q[f[i]] <= q[f[j]]
  <2>1. i \in 1..(m-1) /\ f[i] \in 1..m
    <3>1. i \in 1..(m-1)
      BY <1>11
    <3>2. f[i] \in 1..m
      BY <1>b
    <3> QED
      BY <3>1, <3>2
  <2>2. CASE j = m
    BY <1>5, <1>c, <2>1, <2>2
  <2>3. CASE j # m
    <3>1. j \in 1..(m-1)
      BY <2>3, <1>e
    <3> QED
      BY <1>11, <1>a, <1>d, <2>1, <3>1
  <2> QED
    BY <2>2, <2>3
<1>12. f \in Injection(1..m, 1..m)
  BY <1>b, <1>10 DEF Injection, IsInjective
<1> QED
  BY <1>11, <1>12 DEF Sorts

\* Any finite sequence of integers is put in order by some permutation.
LEMMA SortExists ==
    ASSUME NEW n \in Nat
    PROVE  Sortable(n)
<1> SUFFICES ASSUME ~Sortable(n) PROVE FALSE
  OBVIOUS
<1> DEFINE T == {m \in Nat : ~Sortable(m)}
<1>1. T \in SUBSET Nat /\ n \in T
  OBVIOUS
<1> HIDE DEF T
<1>2. PICK m \in T : \A j \in T : m <= j
  BY <1>1, LeastElement
<1>3. m \in Nat /\ ~Sortable(m)
  BY DEF T
<1>4. m # 0
  <2>1. \A q \in [1..0 -> Int] : Sorts([i \in 1..0 |-> i], q, 0)
    BY DEF Sorts, Injection, IsInjective
  <2>2. Sortable(0)
    BY <2>1 DEF Sortable
  <2> QED
    BY <1>3, <2>2
<1>5. m - 1 \in Nat /\ m - 1 \notin T
  BY <1>1, <1>2, <1>3, <1>4
<1> QED
  BY <1>3, <1>4, <1>5, SortOneMore DEF T

\* An injection of 1..n into itself leaves no number out.
LEMMA InjectionOnto ==
    ASSUME NEW n \in Nat, NEW f \in Injection(1..n, 1..n)
    PROVE  \A j \in 1..n : \E i \in 1..n : f[i] = j
<1>1. IsFiniteSet(1..n)
  BY FS_Interval
<1>2. f \in Surjection(1..n, 1..n)
  BY <1>1, FS_Injection
<1> QED
  BY <1>2 DEF Surjection

(***************************************************************************)
(* Sorting the values of an option.                                        *)
(***************************************************************************)
Listed(values) == Pieces(values) \subseteq Pieces(ValueOrder)

\* A value has the rank of its place in ValueOrder.
LEMMA RankListed ==
    ASSUME NEW v \in Pieces(ValueOrder)
    PROVE  Rank(v) \in Nat /\ Rank(v) \in DOMAIN ValueOrder /\ ValueOrder[Rank(v)] = v
<1>1. \E i \in DOMAIN ValueOrder : ValueOrder[i] = v
  BY DEF Pieces
<1>2. Rank(v) \in DOMAIN ValueOrder /\ ValueOrder[Rank(v)] = v
  BY <1>1 DEF Rank
<1> QED
  BY <1>2, ValueOrderIsSequence

\* Sorting permutes a list of known values so that ranks do not decrease.
LEMMA SortedPermutes ==
    ASSUME NEW values, values \in Seq(Pieces(values)), Listed(values)
    PROVE  \E f \in Injection(1..Len(values), 1..Len(values)) :
              /\ Sorted(values) = [i \in 1..Len(values) |-> values[f[i]]]
              /\ \A i, j \in 1..Len(values) :
                    i < j => Rank(values[f[i]]) <= Rank(values[f[j]])
<1> DEFINE n == Len(values)
           r == [i \in 1..n |-> Rank(values[i])]
           At(f) == [i \in DOMAIN values |-> values[f[i]]]
<1>1. n \in Nat /\ DOMAIN values = 1..n
  OBVIOUS
<1>2. r \in [1..n -> Int]
  <2>1. \A i \in 1..n : values[i] \in Pieces(ValueOrder)
    BY <1>1 DEF Listed, Pieces
  <2>2. \A i \in 1..n : Rank(values[i]) \in Int
    BY <2>1, RankListed
  <2> QED
    BY <2>2
<1>3. PICK g : Sorts(g, r, n)
  BY <1>1, <1>2, SortExists DEF Sortable
<1>4. g \in Injection(1..n, 1..n) /\ \A i, j \in 1..n : i < j => r[g[i]] <= r[g[j]]
  BY <1>3 DEF Sorts
<1>5. \A i \in 1..n : g[i] \in 1..n
  BY <1>4 DEF Injection
<1>6. \A i, j \in DOMAIN At(g) : i < j => compareUnitOptions(At(g)[i], At(g)[j])
  BY <1>1, <1>4, <1>5 DEF compareUnitOptions
<1>7. At(g) \in {At(f) : f \in Injection(DOMAIN values, DOMAIN values)}
  BY <1>1, <1>4
<1>8. /\ Sorted(values) \in {At(f) : f \in Injection(DOMAIN values, DOMAIN values)}
      /\ \A i, j \in DOMAIN Sorted(values) :
            i < j => compareUnitOptions(Sorted(values)[i], Sorted(values)[j])
  BY <1>6, <1>7 DEF Sorted
<1>9. PICK f \in Injection(1..n, 1..n) : Sorted(values) = At(f)
  BY <1>1, <1>8
<1>10. \A i, j \in 1..n : i < j => Rank(values[f[i]]) <= Rank(values[f[j]])
  BY <1>1, <1>8, <1>9 DEF compareUnitOptions
<1> QED
  BY <1>1, <1>9, <1>10

\* Nothing happens to a list of at most one value.
LEMMA SortedShort ==
    ASSUME NEW v
    PROVE  Sorted(<<v>>) = <<v>> /\ Sorted(<<>>) = <<>>
<1>1. ASSUME NEW f \in Injection(DOMAIN <<v>>, DOMAIN <<v>>)
      PROVE  [i \in DOMAIN <<v>> |-> <<v>>[f[i]]] = <<v>>
  BY <1>1 DEF Injection
<1>2. [i \in DOMAIN <<v>> |-> i] \in Injection(DOMAIN <<v>>, DOMAIN <<v>>)
  BY DEF Injection, IsInjective
<1>3. {[i \in DOMAIN <<v>> |-> <<v>>[f[i]]] : f \in Injection(DOMAIN <<v>>, DOMAIN <<v>>)} = {<<v>>}
  BY <1>1, <1>2
<1>4. \A i, j \in DOMAIN <<v>> : ~(i < j)
  OBVIOUS
<1>5. Sorted(<<v>>) = <<v>>
  BY <1>3, <1>4 DEF Sorted
<1>6. [i \in {} |-> i] \in Injection({}, {})
  BY DEF Injection, IsInjective
<1>7. {[i \in {} |-> <<>>[f[i]]] : f \in Injection({}, {})} = {<<>>}
  BY <1>6
<1>8. Sorted(<<>>) = <<>>
  BY <1>7 DEF Sorted
<1> QED
  BY <1>5, <1>8

\* Where more values than one are sorted, all of them have a place in the order.
Orderable(values) ==
    values \in Seq(Pieces(values)) /\ (Len(values) > 1 => Listed(values))

\* Sorting neither drops a value nor makes one up.
LEMMA SortedKeepsValues ==
    ASSUME NEW values, Orderable(values)
    PROVE  Pieces(Sorted(values)) = Pieces(values)
<1> DEFINE n == Len(values)
<1>1. values \in Seq(Pieces(values)) /\ n \in Nat /\ DOMAIN values = 1..n
  BY DEF Orderable
<1>2. CASE n = 0
  <2>1. values = <<>>
    BY <1>1, <1>2
  <2> QED
    BY <2>1, SortedShort
<1>3. CASE n = 1
  <2>1. values = <<values[1]>>
    BY <1>1, <1>3
  <2> QED
    BY <2>1, SortedShort
<1>4. CASE n > 1
  <2>1. PICK f \in Injection(1..n, 1..n) : Sorted(values) = [i \in 1..n |-> values[f[i]]]
    BY <1>1, <1>4, SortedPermutes DEF Orderable
  <2>2. \A i \in 1..n : f[i] \in 1..n
    BY DEF Injection
  <2>3. \A j \in 1..n : \E i \in 1..n : f[i] = j
    BY <1>1, InjectionOnto
  <2>4. DOMAIN Sorted(values) = 1..n /\ \A i \in 1..n : Sorted(values)[i] = values[f[i]]
    BY <2>1
  <2>5. \A j \in 1..n : \E i \in 1..n : values[j] = Sorted(values)[i]
    BY <2>3, <2>4
  <2>6. \A i \in 1..n : \E j \in 1..n : Sorted(values)[i] = values[j]
    BY <2>2, <2>4
  <2>7. DOMAIN values = 1..n
    BY <1>1
  <2> HIDE DEF n
  <2>8. Pieces(values) = {values[i] : i \in 1..n}
    BY <2>7 DEF Pieces
  <2>9. Pieces(Sorted(values)) = {Sorted(values)[i] : i \in 1..n}
    BY <2>4 DEF Pieces
  <2> QED
    BY <2>5, <2>6, <2>8, <2>9
<1> QED
  BY <1>1, <1>2, <1>3, <1>4

(***************************************************************************)
(* Two options with the same values, none of them repeated, are sorted     *)
(* into the same sequence.                                                 *)
(***************************************************************************)
Increasing(s, n) ==
    /\ n \in Nat /\ s \in [1..n -> Pieces(ValueOrder)]
    /\ \A i, j \in 1..n : i < j => Rank(s[i]) < Rank(s[j])

\* Without repetition the ranks increase strictly.
LEMMA SortedIncreases ==
    ASSUME NEW values, values \in Seq(Pieces(values)), Listed(values), Unrepeated(values)
    PROVE  Increasing(Sorted(values), Len(values))
<1> DEFINE n == Len(values)
<1>1. n \in Nat /\ DOMAIN values = 1..n
  OBVIOUS
<1>2. PICK f \in Injection(1..n, 1..n) :
         /\ Sorted(values) = [i \in 1..n |-> values[f[i]]]
         /\ \A i, j \in 1..n : i < j => Rank(values[f[i]]) <= Rank(values[f[j]])
  BY SortedPermutes
<1>3. \A i \in 1..n : f[i] \in 1..n
  BY DEF Injection
<1>4. \A i, j \in 1..n : f[i] = f[j] => i = j
  BY DEF Injection, IsInjective
<1>5. \A i \in 1..n : values[i] \in Pieces(ValueOrder)
  BY <1>1 DEF Listed, Pieces
<1>6. ASSUME NEW i \in 1..n, NEW j \in 1..n, i < j
      PROVE  Rank(values[f[i]]) < Rank(values[f[j]])
  <2>1. values[f[i]] # values[f[j]]
    BY <1>1, <1>3, <1>4, <1>6 DEF Unrepeated
  <2>2. Rank(values[f[i]]) # Rank(values[f[j]])
    BY <1>3, <1>5, <2>1, RankListed
  <2>3. Rank(values[f[i]]) \in Nat /\ Rank(values[f[j]]) \in Nat
    BY <1>3, <1>5, RankListed
  <2> QED
    BY <1>2, <1>6, <2>2, <2>3
<1>7. Sorted(values) \in [1..n -> Pieces(ValueOrder)]
  BY <1>2, <1>3, <1>5
<1>8. \A i \in 1..n : Sorted(values)[i] = values[f[i]]
  BY <1>2
<1> QED
  BY <1>1, <1>6, <1>7, <1>8 DEF Increasing

\* Where two increasing sequences differ first, one of them skips a value of the other.
LEMMA IncreasingAgree ==
    ASSUME NEW s, NEW n, Increasing(s, n), NEW t, NEW m, Increasing(t, m), Pieces(s) = Pieces(t)
    PROVE  \A i \in 1..n \cap 1..m : s[i] = t[i]
<1> SUFFICES ASSUME NEW d \in 1..n \cap 1..m, s[d] # t[d] PROVE FALSE
  OBVIOUS
<1> DEFINE D == {i \in 1..n \cap 1..m : s[i] # t[i]}
<1>1. D \in SUBSET Nat /\ d \in D
  OBVIOUS
<1> HIDE DEF D
<1>2. PICK i \in D : \A j \in D : i <= j
  BY <1>1, LeastElement
<1>3. i \in 1..n /\ i \in 1..m /\ s[i] # t[i]
  BY DEF D
<1>4. n \in Nat /\ m \in Nat /\ DOMAIN s = 1..n /\ DOMAIN t = 1..m
  BY DEF Increasing
<1>5. \A j \in 1..n \cap 1..m : j < i => s[j] = t[j]
  BY <1>2, <1>3, <1>4 DEF D
<1>6. /\ \A j \in 1..n : Rank(s[j]) \in Nat
      /\ \A j \in 1..m : Rank(t[j]) \in Nat
  BY RankListed DEF Increasing
<1>7. PICK j \in 1..m : s[i] = t[j]
  BY <1>3, <1>4 DEF Pieces
<1>8. PICK k \in 1..n : t[i] = s[k]
  BY <1>3, <1>4 DEF Pieces
<1>9. Rank(t[i]) < Rank(s[i])
  <2>1. ~(j < i)
    <3> SUFFICES ASSUME j < i PROVE FALSE
      OBVIOUS
    <3>1. j \in 1..n /\ s[j] = s[i]
      BY <1>3, <1>4, <1>5, <1>7
    <3> QED
      BY <1>3, <1>6, <3>1 DEF Increasing
  <2>2. i < j
    BY <1>3, <1>4, <1>7, <2>1
  <2> QED
    BY <1>3, <1>7, <2>2 DEF Increasing
<1>10. Rank(s[i]) < Rank(t[i])
  <2>1. ~(k < i)
    <3> SUFFICES ASSUME k < i PROVE FALSE
      OBVIOUS
    <3>1. k \in 1..m /\ t[k] = t[i]
      BY <1>3, <1>4, <1>5, <1>8
    <3> QED
      BY <1>3, <1>6, <3>1 DEF Increasing
  <2>2. i < k
    BY <1>3, <1>4, <1>8, <2>1
  <2> QED
    BY <1>3, <1>8, <2>2 DEF Increasing
<1> QED
  BY <1>3, <1>6, <1>9, <1>10

\* Of two increasing lists with the same values none is longer.
LEMMA IncreasingNoLonger ==
    ASSUME NEW s, NEW n, Increasing(s, n), NEW t, NEW m, Increasing(t, m), Pieces(s) = Pieces(t)
    PROVE  ~(n < m)
<1> SUFFICES ASSUME n < m PROVE FALSE
  OBVIOUS
<1>1. n \in Nat /\ m \in Nat /\ DOMAIN s = 1..n /\ DOMAIN t = 1..m
  BY DEF Increasing
<1>2. m \in 1..m
  BY <1>1
<1>3. PICK k \in 1..n : t[m] = s[k]
  BY <1>1, <1>2 DEF Pieces
<1>4. k \in 1..m /\ k < m
  BY <1>1
<1>5. s[k] = t[k]
  BY <1>4, IncreasingAgree
<1>6. Rank(t[k]) < Rank(t[m]) /\ Rank(t[m]) \in Nat
  BY <1>2, <1>4, RankListed DEF Increasing
<1> QED
  BY <1>3, <1>5, <1>6

\* The sorted list depends only on which values it has, not on the order they came in.
LEMMA SortedUnique ==
    ASSUME NEW v, Orderable(v), Unrepeated(v), NEW w, Orderable(w), Unrepeated(w),
           Pieces(v) = Pieces(w)
    PROVE  Sorted(v) = Sorted(w)
<1> DEFINE n == Len(v)
           m == Len(w)
<1>1. /\ v \in Seq(Pieces(v)) /\ n \in Nat /\ DOMAIN v = 1..n
      /\ w \in Seq(Pieces(w)) /\ m \in Nat /\ DOMAIN w = 1..m
  BY DEF Orderable
<1>2. CASE n <= 1 /\ m <= 1
  <2>1. CASE n = 0 \/ m = 0
    <3>1. Pieces(v) = {}
      BY <1>1, <2>1 DEF Pieces
    <3>2. n # 1
      <4>1. n = 1 => v[1] \in Pieces(v)
        BY <1>1 DEF Pieces
      <4> QED
        BY <3>1, <4>1
    <3>3. m # 1
      <4>1. m = 1 => w[1] \in Pieces(w)
        BY <1>1 DEF Pieces
      <4> QED
        BY <3>1, <4>1
    <3>4. n = 0 /\ m = 0
      BY <1>1, <1>2, <3>2, <3>3
    <3> QED
      BY <1>1, <3>4
  <2>2. CASE n = 1 /\ m = 1
    <3>1. v[1] = w[1]
      BY <1>1, <2>2 DEF Pieces
    <3> QED
      BY <1>1, <2>2, <3>1
  <2> QED
    BY <1>1, <1>2, <2>1, <2>2
<1>3. CASE n > 1 \/ m > 1
  <2>1. Listed(v) /\ Listed(w)
    BY <1>3 DEF Orderable, Listed
  <2>2. Increasing(Sorted(v), n) /\ Increasing(Sorted(w), m)
    BY <1>1, <2>1, SortedIncreases
  <2>3. Pieces(Sorted(v)) = Pieces(Sorted(w))
    BY SortedKeepsValues
  <2>4. n = m
    <3>1. ~(n < m)
      BY <2>2, <2>3, IncreasingNoLonger
    <3>2. ~(m < n)
      BY <2>2, <2>3, IncreasingNoLonger
    <3>3. n \in Nat /\ m \in Nat
      BY <1>1
    <3> HIDE DEF n, m
    <3> QED
      BY <3>1, <3>2, <3>3
  <2>5. \A i \in 1..n : Sorted(v)[i] = Sorted(w)[i]
    BY <2>2, <2>3, <2>4, IncreasingAgree
  <2> QED
    BY <2>2, <2>4, <2>5 DEF Increasing
<1> QED
  BY <1>1, <1>2, <1>3

(***************************************************************************)
(* What rendering makes of the options of a spec.                          *)
(***************************************************************************)
LEMMA OwnPieces ==
    ASSUME NEW S, NEW v \in Seq(S)
    PROVE  v \in Seq(Pieces(v)) /\ Pieces(v) \subseteq S
BY DEF Pieces

\* What is in two lists is in the list of both.
LEMMA JoinedPieces ==
    ASSUME NEW v, v \in Seq(Pieces(v)), NEW w, w \in Seq(Pieces(w))
    PROVE  v \o w \in Seq(Pieces(v \o w)) /\ Pieces(v \o w) = Pieces(v) \cup Pieces(w)
<1> DEFINE S == Pieces(v) \cup Pieces(w)
<1>1. v \in Seq(S) /\ w \in Seq(S)
  BY DEF Pieces
<1>2. v \o w \in Seq(S)
  BY <1>1
<1>3. v \o w \in Seq(Pieces(v \o w)) /\ Pieces(v \o w) \subseteq S
  BY <1>2, OwnPieces
<1>4. \A i \in 1..Len(v) : (v \o w)[i] = v[i] /\ i \in DOMAIN (v \o w)
  BY <1>1
<1>5. \A i \in 1..Len(w) : (v \o w)[Len(v) + i] = w[i] /\ Len(v) + i \in DOMAIN (v \o w)
  BY <1>1
<1>6. Pieces(v) \subseteq Pieces(v \o w)
  BY <1>4 DEF Pieces
<1>7. Pieces(w) \subseteq Pieces(v \o w)
  <2>1. ASSUME NEW x \in Pieces(w) PROVE x \in Pieces(v \o w)
    <3>1. PICK i \in 1..Len(w) : x = w[i]
      BY DEF Pieces
    <3>2. (v \o w)[Len(v) + i] = x /\ Len(v) + i \in DOMAIN (v \o w)
      BY <1>5, <3>1
    <3> QED
      BY <3>2 DEF Pieces
  <2> QED
    BY <2>1
<1> QED
  BY <1>3, <1>6, <1>7

Lists(p) ==
    /\ \A k \in Option : Options(p)[k] \in Seq(Pieces(Options(p)[k]))
    /\ p.type = "container" => p.mounts \in Seq(Pieces(p.mounts))

\* What a spec gives for an option: its own values and those of its maps.
LEMMA GivenPieces ==
    ASSUME NEW p, Lists(p), NEW k \in Option
    PROVE  /\ Given(p, k) \in Seq(Pieces(Given(p, k)))
           /\ Pieces(Given(p, k)) = Pieces(Options(p)[k]) \cup Pieces(Extra(p, k))
<1>1. Extra(p, k) \in Seq(Pieces(Extra(p, k)))
  <2>1. CASE p.type = "container" /\ k = ContainerVolume
    <3>1. DOMAIN p.mounts = 1..Len(p.mounts) /\ Len(p.mounts) \in Nat
      BY <2>1 DEF Lists
    <3>2. Extra(p, k) = [i \in 1..Len(p.mounts) |-> <<p.name, p.mounts[i], "ro,Z">>]
      BY <2>1, <3>1 DEF Extra
    <3>3. DOMAIN Extra(p, k) = 1..Len(p.mounts)
      BY <3>2
    <3>4. Extra(p, k) \in [1..Len(p.mounts) -> Pieces(Extra(p, k))]
      BY <3>2, <3>3 DEF Pieces
    <3> QED
      BY <3>1, <3>4
  <2>2. CASE ~(p.type = "container" /\ k = ContainerVolume)
    <3>1. Extra(p, k) = <<>>
      BY <2>2 DEF Extra
    <3> QED
      BY <3>1 DEF Pieces
  <2> QED
    BY <2>1, <2>2
<1> QED
  BY <1>1, JoinedPieces DEF Given, Lists

\* A default leaves a list a list,
LEMMA EnsuredIsList ==
    ASSUME NEW S, NEW v \in Seq(S), NEW x
    PROVE  ensureUnitOption(v, x) \in Seq(S \cup {x})
<1>1. v \in Seq(S \cup {x}) /\ <<x>> \in Seq(S \cup {x})
  OBVIOUS
<1> QED
  BY <1>1 DEF ensureUnitOption

\* and so does an override,
LEMMA ForcedIsList ==
    ASSUME NEW S, NEW v \in Seq(S), NEW x
    PROVE  forceUnitOption(v, x) \in Seq(S \cup {x})
<1>1. v \in Seq(S \cup {x}) /\ <<x>> \in Seq(S \cup {x})
  OBVIOUS
<1>2. [v EXCEPT ![1] = x] \in Seq(S \cup {x})
  <2>1. Len(v) \in Nat /\ DOMAIN v = 1..Len(v)
    OBVIOUS
  <2>2. v \in [1..Len(v) -> S \cup {x}]
    BY <1>1
  <2>3. [v EXCEPT ![1] = x] \in [1..Len(v) -> S \cup {x}]
    BY <2>2
  <2> QED
    BY <2>1, <2>3
<1> QED
  BY <1>1, <1>2 DEF forceUnitOption

\* which is in the outcome,
LEMMA ForcedIsThere ==
    ASSUME NEW S, NEW v \in Seq(S), NEW x, x # NoValue
    PROVE  x \in Pieces(forceUnitOption(v, x))
<1>1. CASE v = <<>>
  <2>1. forceUnitOption(v, x) = <<x>>
    BY <1>1 DEF forceUnitOption
  <2> QED
    BY <2>1 DEF Pieces
<1>2. CASE v # <<>>
  <2>1. forceUnitOption(v, x) = [v EXCEPT ![1] = x]
    BY <1>2 DEF forceUnitOption
  <2>2. 1 \in DOMAIN v
    BY <1>2
  <2>3. 1 \in DOMAIN forceUnitOption(v, x) /\ forceUnitOption(v, x)[1] = x
    BY <2>1, <2>2
  <2> QED
    BY <2>3 DEF Pieces
<1> QED
  BY <1>1, <1>2

\* alone where the spec gave at most one value.
LEMMA ForcedShort ==
    ASSUME NEW S, NEW v \in Seq(S), Len(v) <= 1, NEW x, x # NoValue
    PROVE  forceUnitOption(v, x) = <<x>>
<1>1. CASE v = <<>>
  BY <1>1 DEF forceUnitOption
<1>2. CASE v # <<>>
  <2>1. Len(v) \in Nat /\ Len(v) # 0
    BY <1>2
  <2>2. Len(v) = 1
    <3>1. \A n \in Nat : n # 0 /\ n <= 1 => n = 1
      OBVIOUS
    <3> QED
      BY <2>1, <3>1, Zenon
  <2>3. v = <<v[1]>>
    BY <2>2
  <2>4. [v EXCEPT ![1] = x] = <<x>>
    BY <2>3
  <2> QED
    BY <1>2, <2>4 DEF forceUnitOption
<1> QED
  BY <1>1, <1>2

\* Every option of a unit is a list after merging.
LEMMA MergedIsList ==
    ASSUME NEW p, Lists(p), NEW e, NEW k \in Option
    PROVE  Merged(p, e)[k] \in Seq(Pieces(Merged(p, e)[k]))
<1> DEFINE g == Given(p, k)
           d == ensureUnitOption(g, Default(p, e, k))
           m == forceUnitOption(d, Override(p, k))
<1>1. Merged(p, e)[k] = m
  BY DEF Merged, Given
<1>2. g \in Seq(Pieces(g))
  BY GivenPieces
<1>3. d \in Seq(Pieces(g) \cup {Default(p, e, k)})
  BY <1>2, EnsuredIsList
<1>4. m \in Seq(Pieces(g) \cup {Default(p, e, k)} \cup {Override(p, k)})
  BY <1>3, ForcedIsList
<1> HIDE DEF m
<1> QED
  BY <1>1, <1>4, OwnPieces

\* Whatever syslet adds only where the spec has nothing is restart-neutral.
LEMMA DefaultsAreNeutral ==
    ASSUME NEW p, NEW e, NEW k \in Option \ RestartNeutral
    PROVE  Default(p, e, k) = NoValue
BY DEF Default, Backoff, RestartNeutral, NoValue

\* Options that restarts depend on have no defaults, so that they are what the spec and
\* the overrides say.
LEMMA MergedPlain ==
    ASSUME NEW p, NEW e, NEW k \in Option \ RestartNeutral
    PROVE  Merged(p, e)[k] = forceUnitOption(Given(p, k), Override(p, k))
BY DefaultsAreNeutral DEF Merged, Given, ensureUnitOption

\* An option that syslet has no say in is written with the values of the spec.
LEMMA RenderedAsGiven ==
    ASSUME NEW p, Lists(p), NEW e, NEW k \in Option \ RestartNeutral, Override(p, k) = NoValue,
           Len(Merged(p, e)[k]) > 1 => Listed(Merged(p, e)[k])
    PROVE  Pieces(RenderedUnit(p, e)[k]) = Pieces(Options(p)[k]) \cup Pieces(Extra(p, k))
<1>1. Merged(p, e)[k] = Given(p, k)
  BY MergedPlain DEF forceUnitOption
<1>2. Orderable(Merged(p, e)[k])
  BY MergedIsList DEF Orderable
<1> QED
  BY <1>1, <1>2, SortedKeepsValues, GivenPieces DEF RenderedUnit

(***************************************************************************)
(* The markers, written and read back.                                     *)
(***************************************************************************)
\* Without markers in a spec, the ones of its unit are what syslet sets.
LEMMA MarkersAsSet ==
    ASSUME NEW p, NEW e, NoXSysletSection(p), NEW k \in {RemovalAllowed, ReclaimPolicy},
           Override(p, k) # NoValue
    PROVE  RenderedUnit(p, e)[k] = <<Override(p, k)>>
<1>1. k \in Option /\ k \notin RestartNeutral /\ k # ContainerVolume /\ k[1] = "X-Syslet"
  BY DEF Option, RestartNeutral, RemovalAllowed, ReclaimPolicy, ContainerVolume, Description,
         StartLimitIntervalSec, StartLimitBurst, RestartSec, RestartSteps, RestartMaxDelaySec
<1>2. Options(p)[k] = <<>>
  BY <1>1 DEF Options, NoXSysletSection
<1>3. Given(p, k) = <<>>
  BY <1>1, <1>2 DEF Given, Extra
<1>4. Merged(p, e)[k] = <<Override(p, k)>>
  BY <1>1, <1>3, MergedPlain DEF forceUnitOption
<1> QED
  BY <1>1, <1>4, SortedShort DEF RenderedUnit

\* Whatever the options of a spec are, its unit reads as locked just if the spec says
\* removalAllowed false.
LEMMA LockIsReadBack ==
    ASSUME NEW p, NEW e, p.type # "build", NoXSysletSection(p)
    PROVE  IsUnitRemovalAllowed(RenderedUnit(p, e)) <=> p.removalAllowed # "false"
<1> DEFINE k == RemovalAllowed
<1>1. Override(p, k) = FormatBool(ParseRemovalAllowed(p))
  <2>1. k # NameOption(p.type) /\ k # ReclaimPolicy
    BY DEF NameOption, RemovalAllowed, ReclaimPolicy, ContainerName, VolumeName, NetworkName, BuildFile
  <2> QED
    BY <2>1 DEF Override, k
<1>2. Override(p, k) = IF p.removalAllowed # "false" THEN <<"true">> ELSE <<"false">>
  BY <1>1 DEF FormatBool, ParseRemovalAllowed
<1>3. RenderedUnit(p, e)[k] = <<Override(p, k)>>
  BY <1>2, MarkersAsSet DEF NoValue
<1>4. FindOptValue(RenderedUnit(p, e), k) = Override(p, k)
  BY <1>3 DEF FindOptValue
<1> QED
  BY <1>2, <1>4 DEF IsUnitRemovalAllowed, True

\* A reclaimPolicy of Retain in a spec is not read back as Delete.
LEMMA RetainIsReadBack ==
    ASSUME NEW p, NEW e, p.type = "volume", NoXSysletSection(p), p.reclaimPolicy = "Retain"
    PROVE  ~IsReclaimPolicyDelete(RenderedUnit(p, e))
<1> DEFINE k == ReclaimPolicy
<1>1. Override(p, k) = <<ParseReclaimPolicy(p)>>
  <2>1. k # NameOption(p.type) /\ k # RemovalAllowed
    BY DEF NameOption, RemovalAllowed, ReclaimPolicy, VolumeName
  <2> QED
    BY <2>1 DEF Override, k
<1>2. Override(p, k) = <<"Retain">>
  BY <1>1 DEF ParseReclaimPolicy
<1>3. RenderedUnit(p, e)[k] = <<Override(p, k)>>
  <2>1. Override(p, k) # NoValue
    BY <1>2 DEF NoValue
  <2> HIDE DEF k
  <2> QED
    BY <2>1, MarkersAsSet DEF k
<1>4. FindOptValue(RenderedUnit(p, e), k) = <<"Retain">>
  BY <1>2, <1>3 DEF FindOptValue
<1> QED
  BY <1>4 DEF IsReclaimPolicyDelete, Delete

(***************************************************************************)
(* The same spec in other words.                                           *)
(***************************************************************************)
\* Two specs of a container with the same values of every option, in whatever order,
\* the same mounts and the same state get units that differ in nothing a container
\* would be restarted for.
LEMMA SameWordsSameUnit ==
    ASSUME NEW p, NEW q, NEW e, NEW f, Ref(p) = Ref(q), p.type = "container",
           Lists(p), Lists(q), Plain(p), Plain(q),
           \A k \in Option : Len(Merged(p, e)[k]) > 1 => Listed(Merged(p, e)[k]),
           \A k \in Option : Len(Merged(q, f)[k]) > 1 => Listed(Merged(q, f)[k]),
           ParseDesiredState(p) = ParseDesiredState(q), Pieces(p.mounts) = Pieces(q.mounts),
           \A k \in Option \ RestartNeutral : Pieces(Options(p)[k]) = Pieces(Options(q)[k])
    PROVE  StripRestartNeutralOptions(RenderedUnit(p, e))
              = StripRestartNeutralOptions(RenderedUnit(q, f))
<1>1. p.type = q.type /\ p.name = q.name
  BY DEF Ref
<1> SUFFICES ASSUME NEW k \in Option \ RestartNeutral, k[1] # "X-Syslet"
             PROVE  RenderedUnit(p, e)[k] = RenderedUnit(q, f)[k]
  BY DEF StripRestartNeutralOptions
<1>2. Override(p, k) = Override(q, k)
  <2>1. k # RemovalAllowed
    BY DEF RemovalAllowed
  <2>2. StateOverride(p, k) = StateOverride(q, k)
    BY DEF StateOverride
  <2> QED
    BY <1>1, <2>1, <2>2 DEF Override
<1>3. Pieces(Extra(p, k)) = Pieces(Extra(q, k))
  <2>1. CASE k # ContainerVolume
    BY <2>1 DEF Extra
  <2>2. CASE k = ContainerVolume
    <3>1. /\ Extra(p, k) = [i \in DOMAIN p.mounts |-> <<p.name, p.mounts[i], "ro,Z">>]
          /\ Extra(q, k) = [i \in DOMAIN q.mounts |-> <<p.name, q.mounts[i], "ro,Z">>]
      BY <1>1, <2>2 DEF Extra
    <3>2. ASSUME NEW m, NEW h, h = [i \in DOMAIN m |-> <<p.name, m[i], "ro,Z">>]
          PROVE  \A x : x \in Pieces(h) <=> \E w \in Pieces(m) : x = <<p.name, w, "ro,Z">>
      <4>1. DOMAIN h = DOMAIN m
        BY <3>2
      <4>2. \A i \in DOMAIN m : h[i] = <<p.name, m[i], "ro,Z">>
        BY <3>2
      <4> QED
        BY <4>1, <4>2 DEF Pieces
    <3>3. /\ \A x : x \in Pieces(Extra(p, k)) <=> \E w \in Pieces(p.mounts) : x = <<p.name, w, "ro,Z">>
          /\ \A x : x \in Pieces(Extra(q, k)) <=> \E w \in Pieces(q.mounts) : x = <<p.name, w, "ro,Z">>
      BY <3>1, <3>2
    <3> QED
      BY <3>3
  <2> QED
    BY <2>1, <2>2
<1>4. /\ Merged(p, e)[k] = forceUnitOption(Given(p, k), Override(p, k))
      /\ Merged(q, f)[k] = forceUnitOption(Given(q, k), Override(p, k))
  BY <1>2, MergedPlain
<1>5. Pieces(Given(p, k)) = Pieces(Given(q, k))
  BY <1>3, GivenPieces
<1>6. CASE Override(p, k) = NoValue
  <2>1. Merged(p, e)[k] = Given(p, k) /\ Merged(q, f)[k] = Given(q, k)
    BY <1>4, <1>6 DEF forceUnitOption
  <2>2. Orderable(Given(p, k)) /\ Orderable(Given(q, k))
    BY <2>1, MergedIsList DEF Orderable
  <2>3. Unrepeated(Given(p, k)) /\ Unrepeated(Given(q, k))
    BY <1>2, <1>6 DEF Plain
  <2> QED
    BY <1>5, <2>1, <2>2, <2>3, SortedUnique DEF RenderedUnit
<1>7. CASE Override(p, k) # NoValue
  <2>2. Len(Given(p, k)) <= 1 /\ Len(Given(q, k)) <= 1
    BY <1>2, <1>7 DEF Plain
  <2>3. Merged(p, e)[k] = <<Override(p, k)>> /\ Merged(q, f)[k] = <<Override(p, k)>>
    BY <1>4, <1>7, <2>2, GivenPieces, ForcedShort
  <2> QED
    BY <2>3 DEF RenderedUnit
<1> QED
  BY <1>6, <1>7
=============================================================================
