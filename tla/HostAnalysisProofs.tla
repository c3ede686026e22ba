-------------------------- MODULE HostAnalysisProofs --------------------------
(***************************************************************************)
(* Proofs about the programs of the host that analyse results and write    *)
(* them.  The import of benchmark archives into a report and the building  *)
(* of the two sets of images may be refused, fail or be killed at any step, *)
(* and write into a directory that holds what an earlier call has left: a  *)
(* directory seen whole is of one call.  Of what the reports say: no sample *)
(* of an archive is lost, the statistics of a summary agree with each other, *)
(* every input of a varied session weighs the same, the energies and the   *)
(* medians of a report of the CPU are those of its sessions, and a campaign *)
(* uses none of its archives twice.                                        *)
(***************************************************************************)
EXTENDS PerformanceImport, InputSets, HostReports, TLAPS

FS == INSTANCE FiniteSetTheorems

-----------------------------------------------------------------------------
(* Finite sets.  The library's theorems are about the sets and functions of *)
(* an instance of their own, and hold of those of this module.              *)

LEMMA SameSets ==
    /\ \A S : (FS!IsFiniteSet(S) <=> IsFiniteSet(S)) /\ FS!Cardinality(S) = Cardinality(S)
    /\ \A S, T : FS!Bijection(S, T) = {f \in [S -> T] : /\ \A a, b \in S : f[a] = f[b] => a = b
                                                       /\ \A y \in T : \E x \in S : f[x] = y}
  <1>1. \A S : FS!IsFiniteSet(S) <=> IsFiniteSet(S)
    BY DEF IsFiniteSet, FS!IsFiniteSet
  <1>2. \A S : FS!Cardinality(S) = Cardinality(S)
    BY DEF Cardinality, FS!Cardinality
  <1>3. \A S, T : FS!Bijection(S, T) = {f \in [S -> T] : /\ \A a, b \in S : f[a] = f[b] => a = b
                                                        /\ \A y \in T : \E x \in S : f[x] = y}
    BY DEF FS!Bijection, FS!Injection, FS!Surjection, FS!IsInjective
  <1> QED
    BY <1>1, <1>2, <1>3

LEMMA FiniteCardinality == ASSUME NEW S, IsFiniteSet(S) PROVE Cardinality(S) \in Nat
  BY SameSets, FS!FS_CardinalityType

LEMMA FiniteEmptySet == IsFiniteSet({}) /\ Cardinality({}) = 0 /\ \A S : IsFiniteSet(S) /\ Cardinality(S) = 0 => S = {}
  BY SameSets, FS!FS_EmptySet

LEMMA FiniteSingleton == \A x : IsFiniteSet({x}) /\ Cardinality({x}) = 1
  BY SameSets, FS!FS_Singleton

LEMMA FiniteInterval ==
    ASSUME NEW a \in Int, NEW b \in Int
    PROVE  IsFiniteSet(a..b) /\ Cardinality(a..b) = IF a > b THEN 0 ELSE b - a + 1
  BY SameSets, FS!FS_Interval

LEMMA FiniteSubset ==
    ASSUME NEW S, IsFiniteSet(S), NEW T \in SUBSET S
    PROVE  IsFiniteSet(T) /\ Cardinality(T) <= Cardinality(S) /\ (Cardinality(S) = Cardinality(T) => S = T)
  BY SameSets, FS!FS_Subset

LEMMA FiniteAddition ==
    ASSUME NEW S, IsFiniteSet(S), NEW x
    PROVE  /\ IsFiniteSet(S \cup {x})
           /\ Cardinality(S \cup {x}) = Cardinality(S) + (IF x \in S THEN 0 ELSE 1)
  <1>1. Cardinality(S) \in Nat
    BY FiniteCardinality
  <1> QED
    BY <1>1, SameSets, FS!FS_AddElement

LEMMA FiniteRemoval ==
    ASSUME NEW S, IsFiniteSet(S), NEW x
    PROVE  /\ IsFiniteSet(S \ {x})
           /\ Cardinality(S \ {x}) = Cardinality(S) - (IF x \in S THEN 1 ELSE 0)
  <1>1. Cardinality(S) \in Nat
    BY FiniteCardinality
  <1> QED
    BY <1>1, SameSets, FS!FS_RemoveElement

LEMMA FiniteUnion ==
    ASSUME NEW S, NEW T, IsFiniteSet(S), IsFiniteSet(T)
    PROVE  IsFiniteSet(S \cup T) /\ Cardinality(S \cup T) = Cardinality(S) + Cardinality(T) - Cardinality(S \cap T)
  BY SameSets, FS!FS_Union

LEMMA FiniteIntersection ==
    ASSUME NEW S, NEW T, IsFiniteSet(S)
    PROVE  IsFiniteSet(S \cap T) /\ Cardinality(S \cap T) <= Cardinality(S)
  BY SameSets, FS!FS_Intersection

LEMMA FiniteDifference ==
    ASSUME NEW S, NEW T, IsFiniteSet(S)
    PROVE  IsFiniteSet(S \ T) /\ Cardinality(S \ T) = Cardinality(S) - Cardinality(S \cap T)
  BY SameSets, FS!FS_Difference

LEMMA FiniteProduct ==
    ASSUME NEW S, NEW T, IsFiniteSet(S), IsFiniteSet(T)
    PROVE  IsFiniteSet(S \X T) /\ Cardinality(S \X T) = Cardinality(S) * Cardinality(T)
  BY SameSets, FS!FS_Product

\* A function to a smaller set takes one of its values twice.
LEMMA PigeonHole ==
    ASSUME NEW S, NEW T, IsFiniteSet(S), IsFiniteSet(T), Cardinality(T) < Cardinality(S), NEW f \in [S -> T]
    PROVE  \E x, y \in S : x # y /\ f[x] = f[y]
  BY SameSets, FS!FS_PigeonHole

\* A finite set can be numbered.
LEMMA FiniteNumbering ==
    ASSUME NEW S, IsFiniteSet(S)
    PROVE  \E f \in [1..Cardinality(S) -> S] :
                /\ \A a, b \in 1..Cardinality(S) : f[a] = f[b] => a = b
                /\ \A y \in S : \E x \in 1..Cardinality(S) : f[x] = y
  <1> DEFINE I == 1..Cardinality(S)
  <1>1. FS!ExistsBijection(I, S)
    BY SameSets, FS!FS_CardinalityType
  <1>2. FS!Bijection(I, S) # {}
    BY <1>1 DEF FS!ExistsBijection
  <1> HIDE DEF I
  <1>3. \E f \in [I -> S] : (\A a, b \in I : f[a] = f[b] => a = b) /\ \A y \in S : \E x \in I : f[x] = y
    BY <1>2, SameSets
  <1> QED
    BY <1>3 DEF I

-----------------------------------------------------------------------------
(* Induction and recursion.  A property is a set of numbers, and a step of  *)
(* a recursion a function: what is stated of every set and function holds    *)
(* of every property and step.                                               *)

\* A set of natural numbers that is not empty has a least one: of its initial
\* parts, which are finite, one is the smallest.
LEMMA LeastNatural ==
    ASSUME NEW S \in SUBSET Nat, S # {}
    PROVE  Min(S) \in S /\ \A k \in S : Min(S) <= k
  <1> DEFINE Upto(k) == {j \in S : j <= k}
             Initials == {Upto(k) : k \in S}
  <1>1. Initials \subseteq FS!FiniteSubsetsOf(S) /\ Initials # {}
    <2>1. ASSUME NEW k \in S PROVE FS!IsFiniteSet(Upto(k))
      <3> HIDE DEF Upto
      <3>1. Upto(k) \in SUBSET Nat /\ \A j \in Upto(k) : j <= k
        BY DEF Upto
      <3> QED
        BY <3>1, FS!FS_BoundedSetOfNaturals
    <2> QED
      BY <2>1 DEF FS!FiniteSubsetsOf
  <1>2. PICK part \in Initials : \A other \in Initials : ~(<<other, part>> \in FS!StrictSubsetOrdering(S))
    <2> HIDE DEF Initials
    <2>1. FS!IsWellFoundedOn(FS!StrictSubsetOrdering(S), FS!FiniteSubsetsOf(S))
      BY FS!FS_StrictSubsetOrderingWellFounded
    <2> QED
      BY <1>1, <2>1, FS!WFMin
  <1>3. PICK m \in S : part = Upto(m)
    BY <1>2
  <1>4. ASSUME NEW k \in S, k < m PROVE FALSE
    <2>1. \A j \in S : j <= k => j <= m
      BY <1>4
    <2>2. m <= m /\ ~(m <= k)
      BY <1>4
    <2>3. Upto(k) \subseteq Upto(m) /\ Upto(m) \subseteq S
      BY <2>1
    <2>4. m \in Upto(m) /\ m \notin Upto(k)
      BY <2>2
    <2>5. Upto(k) \in Initials
      OBVIOUS
    <2>6. <<Upto(k), Upto(m)>> \in FS!StrictSubsetOrdering(S)
      <3> HIDE DEF Upto
      <3> QED
        BY <2>3, <2>4 DEF FS!StrictSubsetOrdering
    <2> HIDE DEF Upto, Initials
    <2> QED
      BY <2>5, <2>6, <1>2, <1>3
  <1>5. \A k \in S : m <= k
    BY <1>4
  <1> QED
    BY <1>5 DEF Min

\* Induction: a set that holds the first number of an interval and, with each
\* number, the next one, holds the interval.
LEMMA IntervalInduction ==
    ASSUME NEW m \in Nat, NEW n \in Nat, NEW S,
           m \in S, \A k \in m..(n - 1) : k \in S => k + 1 \in S
    PROVE  \A k \in m..n : k \in S
  <1> DEFINE missing == {k \in m..n : k \notin S}
  <1>1. ASSUME missing # {} PROVE FALSE
    <2>1. missing \in SUBSET Nat
      OBVIOUS
    <2>2. Min(missing) \in missing /\ \A k \in missing : Min(missing) <= k
      BY <1>1, <2>1, LeastNatural
    <2>3. PICK least \in missing : \A k \in missing : least <= k
      BY <2>2
    <2>4. least \in m..n /\ least # m /\ least \notin S
      BY <2>3
    <2>5. least - 1 \in m..(n - 1) /\ least - 1 \notin missing
      BY <2>3, <2>4
    <2>6. least - 1 \in S
      BY <2>4, <2>5
    <2> QED
      BY <2>4, <2>5, <2>6
  <1> QED
    BY <1>1

\* Recursion: there is one function on an interval that starts with a value and
\* goes on by a step.
Recursive(f, m, n, base, step) ==
    f[m] = base /\ \A k \in (m + 1)..n : f[k] = step[<<k, f[k - 1]>>]

LEMMA RecursionExists ==
    ASSUME NEW m \in Nat, NEW n \in Nat, m <= n, NEW V, NEW base \in V,
           NEW step \in [((m + 1)..n) \X V -> V]
    PROVE  \E f \in [m..n -> V] : Recursive(f, m, n, base, step)
  <1> DEFINE S == {k \in m..n : \E f \in [m..k -> V] : Recursive(f, m, k, base, step)}
  <1>1. m \in S
    <2>1. [j \in m..m |-> base] \in [m..m -> V] /\ Recursive([j \in m..m |-> base], m, m, base, step)
      BY DEF Recursive
    <2> QED
      BY <2>1
  <1>2. ASSUME NEW k \in m..(n - 1), k \in S PROVE k + 1 \in S
    <2>1. PICK f \in [m..k -> V] : Recursive(f, m, k, base, step)
      BY <1>2
    <2> DEFINE g == [j \in m..(k + 1) |-> IF j <= k THEN f[j] ELSE step[<<k + 1, f[k]>>]]
    <2>2. f[k] \in V /\ <<k + 1, f[k]>> \in ((m + 1)..n) \X V
      BY <1>2
    <2>3. step[<<k + 1, f[k]>>] \in V
      BY <2>2
    <2>4. g \in [m..(k + 1) -> V]
      BY <2>3
    <2>5. g[m] = base
      BY <2>1 DEF Recursive
    <2>6. \A j \in (m + 1)..(k + 1) : g[j] = step[<<j, g[j - 1]>>]
      <3> SUFFICES ASSUME NEW j \in (m + 1)..(k + 1) PROVE g[j] = step[<<j, g[j - 1]>>]
        OBVIOUS
      <3>1. g[j - 1] = f[j - 1]
        OBVIOUS
      <3>2. CASE j <= k
        <4>1. g[j] = f[j] /\ j \in (m + 1)..k
          BY <3>2
        <4> QED
          BY <3>1, <4>1, <2>1 DEF Recursive
      <3>3. CASE j = k + 1
        <4>1. j \in m..(k + 1) /\ ~(j <= k) /\ j - 1 = k
          BY <3>3
        <4>2. g[j] = step[<<k + 1, f[k]>>]
          BY <4>1
        <4> QED
          BY <3>1, <3>3, <4>1, <4>2
      <3> QED
        BY <3>2, <3>3
    <2> HIDE DEF g
    <2>7. k + 1 \in m..n /\ Recursive(g, m, k + 1, base, step)
      BY <2>5, <2>6 DEF Recursive
    <2> QED
      BY <2>4, <2>7
  <1> HIDE DEF S
  <1>3. \A k \in m..n : k \in S
    BY <1>1, <1>2, IntervalInduction
  <1>4. n \in S
    <2>1. n \in m..n
      OBVIOUS
    <2> QED
      BY <1>3, <2>1
  <1> QED
    BY <1>4 DEF S

-----------------------------------------------------------------------------
(* Sequences.                                                                *)

LEMMA FunctionIsSequence ==
    ASSUME NEW n \in Nat, NEW S, NEW x \in [1..n -> S]
    PROVE  x \in Seq(S) /\ Len(x) = n /\ DOMAIN x = 1..n
  OBVIOUS

LEMMA SequenceIsFunction ==
    ASSUME NEW S, NEW s \in Seq(S)
    PROVE  Len(s) \in Nat /\ DOMAIN s = 1..Len(s) /\ s \in [1..Len(s) -> S]
  OBVIOUS

LEMMA ElementOf == ASSUME NEW S, NEW s \in Seq(S), NEW k \in 1..Len(s) PROVE s[k] \in S
  OBVIOUS

LEMMA SequenceOf ==
    ASSUME NEW S, NEW T, NEW s \in Seq(T), \A k \in 1..Len(s) : s[k] \in S
    PROVE  s \in Seq(S)
  OBVIOUS

LEMMA Concatenated ==
    ASSUME NEW S, NEW s \in Seq(S), NEW t \in Seq(S)
    PROVE  /\ s \o t \in Seq(S) /\ Len(s \o t) = Len(s) + Len(t)
           /\ \A k \in 1..Len(s) : (s \o t)[k] = s[k]
           /\ \A k \in 1..Len(t) : (s \o t)[Len(s) + k] = t[k]
           /\ \A k \in 1..Len(s) : s[k] \in ToSet(s \o t)
           /\ \A k \in 1..Len(t) : t[k] \in ToSet(s \o t)
  <1>1. /\ s \o t \in Seq(S) /\ Len(s \o t) = Len(s) + Len(t)
        /\ \A k \in 1..Len(s) : (s \o t)[k] = s[k]
        /\ \A k \in 1..Len(t) : (s \o t)[Len(s) + k] = t[k]
    OBVIOUS
  <1>2. \A k \in 1..Len(s \o t) : (s \o t)[k] \in ToSet(s \o t)
    BY <1>1 DEF ToSet
  <1>3. /\ \A k \in 1..Len(s) : k \in 1..Len(s \o t)
        /\ \A k \in 1..Len(t) : Len(s) + k \in 1..Len(s \o t)
    BY <1>1
  <1> QED
    BY <1>1, <1>2, <1>3

LEMMA ToSetOfBoth ==
    ASSUME NEW S, NEW s \in Seq(S), NEW t \in Seq(S)
    PROVE  ToSet(s \o t) = ToSet(s) \cup ToSet(t)
  <1> DEFINE n == Len(s)
             m == Len(t)
             both == s \o t
  <1>1. /\ both \in Seq(S) /\ Len(both) = n + m
        /\ \A k \in 1..n : both[k] = s[k]
        /\ \A k \in 1..m : both[n + k] = t[k]
    BY Concatenated
  <1>2. /\ n \in Nat /\ m \in Nat
        /\ ToSet(s) = {s[k] : k \in 1..n} /\ ToSet(t) = {t[k] : k \in 1..m}
    BY SequenceIsFunction DEF ToSet
  <1> HIDE DEF n, m, both
  <1>3. ToSet(both) = {both[k] : k \in 1..(n + m)}
    BY <1>1, SequenceIsFunction DEF ToSet
  <1>4. ASSUME NEW k \in 1..(n + m) PROVE both[k] \in ToSet(s) \cup ToSet(t)
    <2>1. CASE k \in 1..n
      BY <2>1, <1>1, <1>2
    <2>2. CASE k \notin 1..n
      <3> DEFINE i == k - n
      <3>1. i \in 1..m /\ n + i = k
        BY <2>2, <1>2
      <3> HIDE DEF i
      <3>2. both[n + i] = t[i]
        BY <3>1, <1>1
      <3> QED
        BY <3>1, <3>2, <1>2
    <2> QED
      BY <2>1, <2>2
  <1>5. ASSUME NEW k \in 1..n PROVE s[k] \in ToSet(both)
    <2>1. k \in 1..(n + m) /\ both[k] = s[k]
      BY <1>1, <1>2
    <2> QED
      BY <2>1, <1>3
  <1>6. ASSUME NEW k \in 1..m PROVE t[k] \in ToSet(both)
    <2>1. n + k \in 1..(n + m) /\ both[n + k] = t[k]
      BY <1>1, <1>2
    <2> QED
      BY <2>1, <1>3
  <1> QED
    BY <1>2, <1>3, <1>4, <1>5, <1>6 DEF both

-----------------------------------------------------------------------------
(* Sums.                                                                     *)

\* The sums of the first values, each of them one value more than the last.
LEMMA SumsExist ==
    ASSUME NEW values \in Seq(Int)
    PROVE  /\ PrefixSums(values) \in [0..Len(values) -> Int]
           /\ PrefixSums(values)[0] = 0
           /\ \A k \in 1..Len(values) : PrefixSums(values)[k] = PrefixSums(values)[k - 1] + values[k]
  <1> DEFINE n == Len(values)
             step == [p \in (1..n) \X Int |-> p[2] + values[p[1]]]
             Equation(sum) == sum = [k \in 0..n |-> IF k = 0 THEN 0 ELSE sum[k - 1] + values[k]]
  <1>1. step \in [((0 + 1)..n) \X Int -> Int]
    OBVIOUS
  <1>2. n \in Nat /\ 0 \in Nat /\ 0 \in Int /\ 0 <= n
    OBVIOUS
  <1>3. PICK f \in [0..n -> Int] : Recursive(f, 0, n, 0, step)
    <2> HIDE DEF n, step
    <2> QED
      BY <1>1, <1>2, RecursionExists
  <1>4. f[0] = 0 /\ \A k \in 1..n : f[k] = f[k - 1] + values[k]
    <2>1. \A k \in 1..n : f[k] = step[<<k, f[k - 1]>>]
      <3> HIDE DEF step, n
      <3>1. (0 + 1)..n = 1..n
        OBVIOUS
      <3> QED
        BY <1>3, <3>1 DEF Recursive
    <2>2. \A k \in 1..n : f[k - 1] \in Int
      OBVIOUS
    <2>3. \A k \in 1..n : \A x \in Int : step[<<k, x>>] = x + values[k]
      OBVIOUS
    <2>4. f[0] = 0
      BY <1>3 DEF Recursive
    <2> HIDE DEF step, n
    <2> QED
      BY <2>1, <2>2, <2>3, <2>4
  <1>5. Equation(f)
    BY <1>4
  <1>6. PrefixSums(values) = CHOOSE sum : Equation(sum)
    BY DEF PrefixSums
  <1>7. Equation(PrefixSums(values))
    <2> HIDE DEF Equation
    <2> QED
      BY <1>5, <1>6
  <1> DEFINE S == {k \in 0..n : PrefixSums(values)[k] \in Int}
  <1>8. \A k \in 0..n : k \in S
    <2>1. 0 \in S
      BY <1>7
    <2>2. \A k \in 0..(n - 1) : k \in S => k + 1 \in S
      BY <1>7
    <2> HIDE DEF S, n, Equation
    <2> QED
      BY <1>2, <2>1, <2>2, IntervalInduction
  <1>9. \A k \in 0..n : PrefixSums(values)[k] \in Int
    BY <1>8
  <1>10. PrefixSums(values) = [k \in 0..n |-> PrefixSums(values)[k]]
    BY <1>7
  <1>11. PrefixSums(values)[0] = 0 /\ \A k \in 1..n : PrefixSums(values)[k] = PrefixSums(values)[k - 1] + values[k]
    <2> DEFINE sums == PrefixSums(values)
    <2>1. sums = [k \in 0..n |-> IF k = 0 THEN 0 ELSE sums[k - 1] + values[k]]
      BY <1>7
    <2> HIDE DEF sums
    <2>2. sums[0] = 0
      BY <2>1, <1>2
    <2>3. \A k \in 1..n : sums[k] = sums[k - 1] + values[k]
      BY <2>1, <1>2
    <2> QED
      BY <2>2, <2>3 DEF sums
  <1> HIDE DEF Equation
  <1> QED
    BY <1>9, <1>10, <1>11

\* The sum of no values, and of one more.
LEMMA TotalOfNone == ASSUME NEW x \in [1..0 -> Int] PROVE Total(x) = 0
  <1>1. x \in Seq(Int) /\ Len(x) = 0
    BY FunctionIsSequence
  <1> QED
    BY <1>1, SumsExist DEF Total

LEMMA TotalOfOneMore ==
    ASSUME NEW n \in Nat, NEW x \in [1..(n + 1) -> Int]
    PROVE  Total(x) = Total([k \in 1..n |-> x[k]]) + x[n + 1]
  <1> DEFINE y == [k \in 1..n |-> x[k]]
             xs == PrefixSums(x)
             ys == PrefixSums(y)
             S == {k \in 0..n : xs[k] = ys[k]}
  <1>1. x \in Seq(Int) /\ Len(x) = n + 1
    BY FunctionIsSequence
  <1>2. y \in Seq(Int) /\ Len(y) = n
    <2>1. y \in [1..n -> Int]
      OBVIOUS
    <2> HIDE DEF y
    <2> QED
      BY <2>1, FunctionIsSequence
  <1>3. \A k \in 1..n : y[k] = x[k]
    OBVIOUS
  <1> HIDE DEF y
  <1>4. xs[0] = 0 /\ \A k \in 1..(n + 1) : xs[k] = xs[k - 1] + x[k]
    BY <1>1, SumsExist
  <1>5. ys[0] = 0 /\ \A k \in 1..n : ys[k] = ys[k - 1] + y[k]
    BY <1>2, SumsExist
  <1> HIDE DEF xs, ys
  <1>6. \A k \in 0..n : k \in S
    <2>1. 0 \in S
      BY <1>4, <1>5
    <2>2. ASSUME NEW k \in 0..(n - 1), k \in S PROVE k + 1 \in S
      <3>1. k + 1 \in 1..n /\ k + 1 \in 1..(n + 1) /\ (k + 1) - 1 = k
        OBVIOUS
      <3>2. xs[k + 1] = xs[k] + x[k + 1] /\ ys[k + 1] = ys[k] + y[k + 1] /\ y[k + 1] = x[k + 1]
        BY <3>1, <1>3, <1>4, <1>5
      <3> QED
        BY <2>2, <3>1, <3>2
    <2> HIDE DEF S
    <2> QED
      BY <2>1, <2>2, IntervalInduction
  <1>7. xs[n] = ys[n]
    BY <1>6
  <1>8. xs[n + 1] = xs[n] + x[n + 1]
    BY <1>4
  <1> QED
    BY <1>1, <1>2, <1>7, <1>8 DEF Total, xs, ys, y

LEMMA TotalIsInteger == ASSUME NEW n \in Nat, NEW x \in [1..n -> Int] PROVE Total(x) \in Int
  <1>1. x \in Seq(Int) /\ Len(x) = n
    BY FunctionIsSequence
  <1> QED
    BY <1>1, SumsExist DEF Total

\* What grows by the values, from zero, is their sum.
LEMMA SumIs ==
    ASSUME NEW n \in Nat, NEW x \in [1..n -> Int], NEW f, f[0] = 0, \A k \in 1..n : f[k] = f[k - 1] + x[k]
    PROVE  f[n] = Total(x)
  <1> DEFINE xs == PrefixSums(x)
             S == {k \in 0..n : f[k] = xs[k]}
  <1>1. x \in Seq(Int) /\ Len(x) = n
    BY FunctionIsSequence
  <1>2. xs[0] = 0 /\ \A k \in 1..n : xs[k] = xs[k - 1] + x[k]
    BY <1>1, SumsExist
  <1> HIDE DEF xs
  <1>3. \A k \in 0..n : k \in S
    <2>1. 0 \in S
      BY <1>2
    <2>2. ASSUME NEW k \in 0..(n - 1), k \in S PROVE k + 1 \in S
      <3>1. k + 1 \in 1..n /\ (k + 1) - 1 = k
        OBVIOUS
      <3> QED
        BY <2>2, <3>1, <1>2
    <2> HIDE DEF S
    <2> QED
      BY <2>1, <2>2, IntervalInduction
  <1> QED
    BY <1>1, <1>3 DEF Total, xs

LEMMA TotalOfSum ==
    ASSUME NEW n \in Nat, NEW x \in [1..n -> Int], NEW y \in [1..n -> Int], NEW z \in [1..n -> Int],
           \A k \in 1..n : z[k] = x[k] + y[k]
    PROVE  Total(z) = Total(x) + Total(y)
  <1> DEFINE xs == PrefixSums(x)
             ys == PrefixSums(y)
             f == [k \in 0..n |-> xs[k] + ys[k]]
  <1>1. x \in Seq(Int) /\ Len(x) = n /\ y \in Seq(Int) /\ Len(y) = n
    BY FunctionIsSequence
  <1>2. /\ xs \in [0..n -> Int] /\ xs[0] = 0 /\ \A k \in 1..n : xs[k] = xs[k - 1] + x[k]
        /\ ys \in [0..n -> Int] /\ ys[0] = 0 /\ \A k \in 1..n : ys[k] = ys[k - 1] + y[k]
        /\ xs[n] = Total(x) /\ ys[n] = Total(y)
    BY <1>1, SumsExist DEF Total
  <1> HIDE DEF xs, ys
  <1>3. f[0] = 0 /\ \A k \in 1..n : f[k] = f[k - 1] + z[k]
    <2>1. f[0] = 0
      BY <1>2
    <2>2. ASSUME NEW k \in 1..n PROVE f[k] = f[k - 1] + z[k]
      <3>1. k \in 0..n /\ k - 1 \in 0..n
        OBVIOUS
      <3>2. xs[k - 1] \in Int /\ ys[k - 1] \in Int /\ x[k] \in Int /\ y[k] \in Int
        BY <3>1, <1>2
      <3> QED
        BY <3>1, <3>2, <1>2
    <2> QED
      BY <2>1, <2>2
  <1>4. f[n] = Total(x) + Total(y)
    BY <1>2
  <1> HIDE DEF f
  <1> QED
    BY <1>3, <1>4, SumIs

\* The same for sequences that add up place by place.
IsSumOf(z, x, y, n) ==
    /\ x \in [1..n -> Int] /\ y \in [1..n -> Int] /\ z \in [1..n -> Int]
    /\ \A k \in 1..n : z[k] = x[k] + y[k]

LEMMA SumsAdd ==
    ASSUME NEW n \in Nat, NEW x, NEW y, NEW z, IsSumOf(z, x, y, n)
    PROVE  Total(z) = Total(x) + Total(y)
  <1>1. /\ x \in [1..n -> Int] /\ y \in [1..n -> Int] /\ z \in [1..n -> Int]
        /\ \A k \in 1..n : z[k] = x[k] + y[k]
    BY DEF IsSumOf
  <1> QED
    BY <1>1, TotalOfSum

LEMMA Distributes == \A a, b, c \in Int : c * (a + b) = c * a + c * b /\ (a + b) * c = a * c + b * c
  OBVIOUS

LEMMA TotalOfMultiples ==
    ASSUME NEW n \in Nat, NEW x \in [1..n -> Int], NEW c \in Int, NEW z \in [1..n -> Int],
           \A k \in 1..n : z[k] = c * x[k]
    PROVE  Total(z) = c * Total(x)
  <1> DEFINE xs == PrefixSums(x)
             f == [k \in 0..n |-> c * xs[k]]
  <1>1. x \in Seq(Int) /\ Len(x) = n
    BY FunctionIsSequence
  <1>2. /\ xs \in [0..n -> Int] /\ xs[0] = 0 /\ \A k \in 1..n : xs[k] = xs[k - 1] + x[k]
        /\ xs[n] = Total(x)
    BY <1>1, SumsExist DEF Total
  <1> HIDE DEF xs
  <1>3. f[0] = 0 /\ \A k \in 1..n : f[k] = f[k - 1] + z[k]
    <2>1. f[0] = 0
      BY <1>2
    <2>2. ASSUME NEW k \in 1..n PROVE f[k] = f[k - 1] + z[k]
      <3>1. k \in 0..n /\ k - 1 \in 0..n
        OBVIOUS
      <3>2. xs[k - 1] \in Int /\ x[k] \in Int
        BY <3>1, <1>2
      <3>3. c * (xs[k - 1] + x[k]) = c * xs[k - 1] + c * x[k]
        BY <3>2, Distributes
      <3>4. f[k] = c * xs[k] /\ f[k - 1] = c * xs[k - 1] /\ z[k] = c * x[k] /\ xs[k] = xs[k - 1] + x[k]
        BY <3>1, <1>2
      <3> QED
        BY <3>3, <3>4
    <2> QED
      BY <2>1, <2>2
  <1>4. f[n] = c * Total(x)
    BY <1>2
  <1> HIDE DEF f
  <1> QED
    BY <1>3, <1>4, SumIs

LEMMA TotalOfConstant ==
    ASSUME NEW n \in Nat, NEW c \in Int, NEW z \in [1..n -> Int], \A k \in 1..n : z[k] = c
    PROVE  Total(z) = n * c
  <1> DEFINE f == [k \in 0..n |-> k * c]
  <1>1. f[0] = 0 /\ \A k \in 1..n : f[k] = f[k - 1] + z[k]
    <2>1. f[0] = 0
      OBVIOUS
    <2>2. ASSUME NEW k \in 1..n PROVE f[k] = f[k - 1] + z[k]
      <3>1. ((k - 1) + 1) * c = (k - 1) * c + 1 * c
        BY Distributes
      <3>2. (k - 1) + 1 = k /\ 1 * c = c
        OBVIOUS
      <3>3. f[k] = k * c /\ f[k - 1] = (k - 1) * c /\ z[k] = c
        OBVIOUS
      <3> QED
        BY <3>1, <3>2, <3>3
    <2> QED
      BY <2>1, <2>2
  <1>2. f[n] = n * c
    OBVIOUS
  <1> HIDE DEF f
  <1> QED
    BY <1>1, <1>2, SumIs

LEMMA TotalOfConcatenation ==
    ASSUME NEW s \in Seq(Int), NEW t \in Seq(Int)
    PROVE  Total(s \o t) = Total(s) + Total(t)
  <1> DEFINE n == Len(s)
             m == Len(t)
             ss == PrefixSums(s)
             ts == PrefixSums(t)
             z == s \o t
             f == [k \in 0..(n + m) |-> IF k <= n THEN ss[k] ELSE Total(s) + ts[k - n]]
  <1>1. n \in Nat /\ m \in Nat /\ n + m \in Nat
    OBVIOUS
  <1>2. /\ ss \in [0..n -> Int] /\ ss[0] = 0 /\ \A k \in 1..n : ss[k] = ss[k - 1] + s[k]
        /\ ts \in [0..m -> Int] /\ ts[0] = 0 /\ \A k \in 1..m : ts[k] = ts[k - 1] + t[k]
        /\ ss[n] = Total(s) /\ ts[m] = Total(t)
    BY SumsExist DEF Total
  <1>3. /\ z \in [1..(n + m) -> Int]
        /\ \A k \in 1..n : z[k] = s[k]
        /\ \A k \in 1..m : z[n + k] = t[k]
    <2>1. /\ s \o t \in Seq(Int) /\ Len(s \o t) = Len(s) + Len(t)
          /\ \A k \in 1..Len(s) : (s \o t)[k] = s[k]
          /\ \A k \in 1..Len(t) : (s \o t)[Len(s) + k] = t[k]
      BY Concatenated
    <2>2. s \o t \in [1..Len(s \o t) -> Int]
      BY <2>1, SequenceIsFunction
    <2> QED
      BY <2>1, <2>2
  <1> HIDE DEF n, m, ss, ts, z
  <1>4. f[0] = 0 /\ \A k \in 1..(n + m) : f[k] = f[k - 1] + z[k]
    <2>1. f[0] = 0
      BY <1>1, <1>2
    <2>2. ASSUME NEW k \in 1..(n + m) PROVE f[k] = f[k - 1] + z[k]
      <3>1. CASE k <= n
        <4>1. k \in 1..n /\ k - 1 <= n /\ k \in 0..(n + m) /\ k - 1 \in 0..(n + m)
          BY <3>1, <1>1
        <4> QED
          BY <3>1, <4>1, <1>2, <1>3
      <3>2. CASE k = n + 1
        <4>1. 1 \in 1..m /\ k - 1 = n /\ ~(k <= n) /\ k - n = 1 /\ n <= n /\ k \in 0..(n + m) /\ n \in 0..(n + m)
          BY <3>2, <1>1
        <4>2. f[k] = Total(s) + ts[1] /\ f[k - 1] = ss[n]
          BY <4>1
        <4>4. z[k] = t[1] /\ ts[1] = ts[0] + t[1] /\ ts[0] = 0 /\ z[k] \in Int
          <5>1. z[n + 1] = t[1] /\ ts[1] = ts[1 - 1] + t[1]
            BY <4>1, <1>2, <1>3
          <5> QED
            BY <5>1, <3>2, <1>2, <1>3
        <4>3. Total(s) \in Int
          BY <1>1, <1>2
        <4> QED
          BY <4>2, <4>3, <4>4, <1>2
      <3>3. CASE k > n + 1
        <4>1. /\ k - n \in 1..m /\ (k - n) - 1 = (k - 1) - n /\ n + (k - n) = k
              /\ ~(k <= n) /\ ~(k - 1 <= n) /\ k \in 0..(n + m) /\ k - 1 \in 0..(n + m) /\ (k - 1) - n \in 0..m /\ n \in 0..n
          BY <3>3, <1>1
        <4>2. f[k] = Total(s) + ts[k - n] /\ f[k - 1] = Total(s) + ts[(k - 1) - n]
          BY <4>1
        <4>3. z[k] = t[k - n] /\ ts[k - n] = ts[(k - 1) - n] + t[k - n]
          BY <4>1, <1>2, <1>3
        <4>4. Total(s) \in Int /\ z[k] \in Int /\ ts[(k - 1) - n] \in Int
          <5>1. Total(s) \in Int
            BY <1>1, <1>2
          <5>2. z[k] \in Int
            BY <1>3
          <5>3. ts[(k - 1) - n] \in Int
            BY <4>1, <1>2
          <5> QED
            BY <5>1, <5>2, <5>3
        <4> QED
          BY <4>2, <4>3, <4>4
      <3> QED
        BY <3>1, <3>2, <3>3, <1>1
    <2> QED
      BY <2>1, <2>2
  <1>5. f[n + m] = Total(s) + Total(t)
    <2>1. CASE m = 0
      BY <2>1, <1>1, <1>2
    <2>2. CASE m # 0
      BY <2>2, <1>1, <1>2
    <2> QED
      BY <2>1, <2>2
  <1> HIDE DEF f
  <1>6. f[n + m] = Total(z)
    BY <1>1, <1>3, <1>4, SumIs
  <1> QED
    BY <1>5, <1>6 DEF z

\* A sum is the sum over classes of the sums of each.
LEMMA TotalOfParts ==
    ASSUME NEW n \in Nat, NEW m \in Nat, NEW class \in [1..n -> 1..m], NEW x \in [1..n -> Int]
    PROVE  Total([c \in 1..m |-> Total([k \in 1..n |-> IF class[k] = c THEN x[k] ELSE 0])]) = Total(x)
  <1> DEFINE Part(c) == [k \in 1..n |-> IF class[k] = c THEN x[k] ELSE 0]
             First(c) == [k \in 1..n |-> IF class[k] <= c THEN x[k] ELSE 0]
             z == [c \in 1..m |-> Total(Part(c))]
             f == [c \in 0..m |-> Total(First(c))]
  <1>1. \A c : Part(c) \in [1..n -> Int]
    OBVIOUS
  <1>2. \A c \in Int : First(c) \in [1..n -> Int]
    OBVIOUS
  <1>3. z \in [1..m -> Int]
    <2> HIDE DEF Part
    <2> QED
      BY <1>1, TotalIsInteger
  <1>4. f[0] = 0
    <2>1. First(0) \in [1..n -> Int] /\ \A k \in 1..n : First(0)[k] = 0
      OBVIOUS
    <2> HIDE DEF First
    <2>2. Total(First(0)) = n * 0
      BY <2>1, TotalOfConstant
    <2>3. n * 0 = 0
      OBVIOUS
    <2> QED
      BY <2>2, <2>3
  <1>5. ASSUME NEW c \in 1..m PROVE f[c] = f[c - 1] + z[c]
    <2>1. \A k \in 1..n : First(c)[k] = First(c - 1)[k] + Part(c)[k]
      OBVIOUS
    <2>3. First(c) \in [1..n -> Int] /\ First(c - 1) \in [1..n -> Int] /\ Part(c) \in [1..n -> Int]
      BY <1>1, <1>2
    <2>4. c \in 0..m /\ c - 1 \in 0..m
      OBVIOUS
    <2> HIDE DEF First, Part
    <2>5. Total(First(c)) = Total(First(c - 1)) + Total(Part(c))
      BY <2>1, <2>3, TotalOfSum
    <2> QED
      BY <2>4, <2>5
  <1>6. f[m] = Total(x)
    <2>1. First(m) = x
      OBVIOUS
    <2> HIDE DEF First
    <2> QED
      BY <2>1
  <1> HIDE DEF f, z
  <1>7. f[m] = Total(z)
    BY <1>3, <1>4, <1>5, SumIs
  <1> QED
    BY <1>6, <1>7 DEF z

\* The sums of the values of each of m classes, where the others count as zero.
SumsByClass(sums, n, m, class, x) ==
    /\ n \in Nat /\ m \in Nat
    /\ class \in [1..n -> 1..m] /\ x \in [1..n -> Int] /\ sums \in [1..m -> Int]
    /\ \A c \in 1..m :
        \E part \in [1..n -> Int] : /\ \A k \in 1..n : part[k] = IF class[k] = c THEN x[k] ELSE 0
                                  /\ sums[c] = Total(part)

LEMMA TotalOfClasses ==
    ASSUME NEW sums, NEW n, NEW m, NEW class, NEW x, SumsByClass(sums, n, m, class, x)
    PROVE  Total(sums) = Total(x)
  <1> DEFINE Part(c) == [k \in 1..n |-> IF class[k] = c THEN x[k] ELSE 0]
  <1>1. n \in Nat /\ m \in Nat /\ class \in [1..n -> 1..m] /\ x \in [1..n -> Int] /\ sums \in [1..m -> Int]
    BY DEF SumsByClass
  <1>2. ASSUME NEW c \in 1..m PROVE sums[c] = Total(Part(c))
    <2>1. PICK part \in [1..n -> Int] : /\ \A k \in 1..n : part[k] = IF class[k] = c THEN x[k] ELSE 0
                                       /\ sums[c] = Total(part)
      BY DEF SumsByClass
    <2>2. part = Part(c)
      BY <2>1
    <2> QED
      BY <2>1, <2>2
  <1>3. sums = [c \in 1..m |-> Total(Part(c))]
    <2> HIDE DEF Part
    <2>1. sums = [c \in 1..m |-> sums[c]]
      BY <1>1
    <2> QED
      BY <1>2, <2>1
  <1>4. Total([c \in 1..m |-> Total(Part(c))]) = Total(x)
    BY <1>1, TotalOfParts
  <1> QED
    BY <1>3, <1>4

\* Elements are counted by a sum of ones.
LEMMA CountIsTotal ==
    ASSUME NEW n \in Nat, NEW I \in SUBSET (1..n)
    PROVE  Cardinality(I) = Total([k \in 1..n |-> IF k \in I THEN 1 ELSE 0])
  <1> DEFINE First(k) == I \cap 1..k
             z == [k \in 1..n |-> IF k \in I THEN 1 ELSE 0]
             f == [k \in 0..n |-> Cardinality(First(k))]
  <1>1. f[0] = 0
    <2>1. First(0) = {}
      OBVIOUS
    <2> QED
      BY <2>1, FiniteEmptySet
  <1>2. ASSUME NEW k \in 1..n PROVE f[k] = f[k - 1] + z[k]
    <2>1. IsFiniteSet(First(k - 1)) /\ Cardinality(First(k - 1)) \in Nat
      <3>1. IsFiniteSet(1..(k - 1)) /\ First(k - 1) \subseteq 1..(k - 1)
        BY FiniteInterval
      <3> HIDE DEF First
      <3> QED
        BY <3>1, FiniteSubset, FiniteCardinality
    <2>2. CASE k \in I
      <3>1. First(k) = First(k - 1) \cup {k} /\ k \notin First(k - 1)
        BY <2>2
      <3>3. z[k] = 1 /\ f[k] = Cardinality(First(k)) /\ f[k - 1] = Cardinality(First(k - 1))
        BY <2>2
      <3> HIDE DEF First
      <3>2. Cardinality(First(k - 1) \cup {k}) = Cardinality(First(k - 1)) + 1
        BY <2>1, <3>1, FiniteAddition
      <3> HIDE DEF z, f
      <3> QED
        BY <3>1, <3>2, <3>3
    <2>3. CASE k \notin I
      <3>1. First(k) = First(k - 1)
        BY <2>3
      <3> HIDE DEF First
      <3> QED
        BY <2>1, <2>3, <3>1
    <2> QED
      BY <2>2, <2>3
  <1>3. First(n) = I
    OBVIOUS
  <1>4. z \in [1..n -> Int]
    OBVIOUS
  <1>5. f[n] = Cardinality(I)
    BY <1>3
  <1> HIDE DEF f, z
  <1>6. f[n] = Total(z)
    BY <1>1, <1>2, <1>4, SumIs
  <1> QED
    BY <1>5, <1>6 DEF z

-----------------------------------------------------------------------------
(* Subsequences and joins, and what their elements weigh.                    *)

\* The elements of a sequence at some of its indices.
LEMMA SelectionExists ==
    ASSUME NEW V, NEW s \in Seq(V), NEW I
    PROVE  /\ SelectedPrefixes(s, I) \in [0..Len(s) -> Seq(V)]
           /\ SelectedPrefixes(s, I)[0] = <<>>
           /\ \A k \in 1..Len(s) :
                SelectedPrefixes(s, I)[k] = IF k \in I THEN Append(SelectedPrefixes(s, I)[k - 1], s[k])
                                            ELSE SelectedPrefixes(s, I)[k - 1]
  <1> DEFINE n == Len(s)
             step == [p \in (1..n) \X Seq(V) |-> IF p[1] \in I THEN Append(p[2], s[p[1]]) ELSE p[2]]
             Equation(selected) ==
                selected = [k \in 0..n |-> IF k = 0 THEN <<>>
                                           ELSE IF k \in I THEN Append(selected[k - 1], s[k]) ELSE selected[k - 1]]
             chosen == SelectedPrefixes(s, I)
  <1>1. n \in Nat /\ 0 \in Nat /\ 0 <= n /\ <<>> \in Seq(V) /\ (0 + 1)..n = 1..n
    OBVIOUS
  <1>2. \A k \in 1..n : \A t \in Seq(V) :
            step[<<k, t>>] = (IF k \in I THEN Append(t, s[k]) ELSE t) /\ step[<<k, t>>] \in Seq(V)
    <2>1. \A k \in 1..n : s[k] \in V
      OBVIOUS
    <2> HIDE DEF n
    <2> QED
      BY <2>1
  <1>3. step \in [(1..n) \X Seq(V) -> Seq(V)]
    <2>1. \A p \in (1..n) \X Seq(V) : p[1] \in 1..n /\ p[2] \in Seq(V)
      OBVIOUS
    <2>2. \A k \in 1..n : s[k] \in V
      OBVIOUS
    <2> HIDE DEF n
    <2> QED
      BY <2>1, <2>2
  <1> HIDE DEF step, n
  <1>4. PICK f \in [0..n -> Seq(V)] : Recursive(f, 0, n, <<>>, step)
    BY <1>1, <1>3, RecursionExists
  <1>5. /\ f[0] = <<>>
        /\ \A k \in 1..n : f[k - 1] \in Seq(V) /\ f[k] = IF k \in I THEN Append(f[k - 1], s[k]) ELSE f[k - 1]
    <2>1. \A k \in 1..n : f[k] = step[<<k, f[k - 1]>>]
      BY <1>1, <1>4 DEF Recursive
    <2>2. \A k \in 1..n : f[k - 1] \in Seq(V)
      BY <1>1
    <2>3. f[0] = <<>>
      BY <1>4 DEF Recursive
    <2> QED
      BY <2>1, <2>2, <2>3, <1>2
  <1>6. Equation(f)
    <2>1. f = [k \in 0..n |-> f[k]]
      OBVIOUS
    <2>2. \A k \in 0..n : f[k] = IF k = 0 THEN <<>> ELSE IF k \in I THEN Append(f[k - 1], s[k]) ELSE f[k - 1]
      <3>1. \A k \in 0..n : k = 0 \/ k \in 1..n
        BY <1>1
      <3> QED
        BY <3>1, <1>5
    <2> QED
      BY <2>1, <2>2
  <1>7. chosen = CHOOSE selected : Equation(selected)
    BY DEF SelectedPrefixes, n
  <1>8. Equation(chosen)
    <2> HIDE DEF Equation, chosen
    <2> QED
      BY <1>6, <1>7
  <1> HIDE DEF chosen
  <1>9. /\ chosen[0] = <<>>
        /\ \A k \in 1..n : chosen[k] = IF k \in I THEN Append(chosen[k - 1], s[k]) ELSE chosen[k - 1]
    <2>1. 0 \in 0..n /\ \A k \in 1..n : k \in 0..n /\ k # 0
      BY <1>1
    <2>2. \A k \in 0..n : chosen[k] = IF k = 0 THEN <<>>
                                     ELSE IF k \in I THEN Append(chosen[k - 1], s[k]) ELSE chosen[k - 1]
      BY <1>8
    <2> HIDE DEF Equation
    <2> QED
      BY <2>1, <2>2
  <1> DEFINE S == {k \in 0..n : chosen[k] \in Seq(V)}
  <1>10. \A k \in 0..n : k \in S
    <2> HIDE DEF Equation
    <2>1. 0 \in S
      <3>1. 0 \in 0..n /\ chosen[0] \in Seq(V)
        BY <1>1, <1>9
      <3> QED
        BY <3>1
    <2>2. ASSUME NEW k \in 0..(n - 1), k \in S PROVE k + 1 \in S
      <3>1. k + 1 \in 1..n /\ (k + 1) - 1 = k /\ k + 1 \in 0..n
        BY <1>1
      <3>2. s[k + 1] \in V
        BY <3>1 DEF n
      <3>3. chosen[k + 1] \in Seq(V)
        <4>1. chosen[k] \in Seq(V) /\ Append(chosen[k], s[k + 1]) \in Seq(V)
          BY <2>2, <3>2
        <4>2. chosen[k + 1] = IF k + 1 \in I THEN Append(chosen[k], s[k + 1]) ELSE chosen[k]
          BY <3>1, <1>9
        <4> HIDE DEF S
        <4> QED
          BY <4>1, <4>2
      <3> QED
        BY <3>1, <3>3
    <2> HIDE DEF S, Equation
    <2> QED
      BY <1>1, <2>1, <2>2, IntervalInduction
  <1>11. chosen = [k \in 0..n |-> chosen[k]]
    BY <1>8
  <1> HIDE DEF Equation
  <1> QED
    BY <1>9, <1>10, <1>11 DEF n, chosen

\* What the elements of a sequence weigh, one by one.
Weights(s, weight) == [k \in 1..Len(s) |-> weight[s[k]]]

LEMMA WeightsAre ==
    ASSUME NEW V, NEW weight \in [V -> Int], NEW s \in Seq(V)
    PROVE  /\ Len(s) \in Nat
           /\ Weights(s, weight) \in [1..Len(s) -> Int]
           /\ \A k \in 1..Len(s) : Weights(s, weight)[k] = weight[s[k]]
  <1>1. Len(s) \in Nat /\ \A k \in 1..Len(s) : s[k] \in V
    OBVIOUS
  <1> QED
    BY <1>1 DEF Weights

LEMMA WeightsOfOneMore ==
    ASSUME NEW V, NEW weight \in [V -> Int], NEW s \in Seq(V), NEW v \in V
    PROVE  Total(Weights(Append(s, v), weight)) = Total(Weights(s, weight)) + weight[v]
  <1> DEFINE n == Len(s)
             t == Append(s, v)
             x == Weights(t, weight)
  <1>1. /\ t \in Seq(V) /\ n \in Nat /\ Len(t) = n + 1 /\ t[n + 1] = v
        /\ \A k \in 1..n : t[k] = s[k]
    OBVIOUS
  <1> HIDE DEF t, n
  <1>2. x \in [1..(n + 1) -> Int] /\ \A k \in 1..(n + 1) : x[k] = weight[t[k]]
    <2>1. x \in [1..Len(t) -> Int] /\ \A k \in 1..Len(t) : x[k] = weight[t[k]]
      <3>1. t \in Seq(V)
        BY <1>1
      <3> QED
        BY <3>1, WeightsAre
    <2> QED
      BY <1>1, <2>1
  <1> HIDE DEF x
  <1>3. Total(x) = Total([k \in 1..n |-> x[k]]) + x[n + 1]
    BY <1>1, <1>2, TotalOfOneMore
  <1>4. [k \in 1..n |-> x[k]] = Weights(s, weight)
    <2>1. \A k \in 1..n : k \in 1..(n + 1)
      BY <1>1
    <2>2. \A k \in 1..n : x[k] = weight[s[k]]
      BY <2>1, <1>1, <1>2
    <2> QED
      BY <2>2 DEF Weights, n
  <1>5. x[n + 1] = weight[v]
    BY <1>1, <1>2
  <1> QED
    BY <1>3, <1>4, <1>5 DEF x, t

\* A subsequence weighs what the elements at its indices weigh, and has these
\* and no other.
LEMMA SubsequenceWeighs ==
    ASSUME NEW V, NEW weight \in [V -> Int], NEW s \in Seq(V), NEW I
    PROVE  /\ Subsequence(s, I) \in Seq(V)
           /\ Total(Weights(Subsequence(s, I), weight))
                = Total([k \in 1..Len(s) |-> IF k \in I THEN weight[s[k]] ELSE 0])
  <1> DEFINE n == Len(s)
             chosen == SelectedPrefixes(s, I)
             z == [k \in 1..n |-> IF k \in I THEN weight[s[k]] ELSE 0]
             f == [k \in 0..n |-> Total(Weights(chosen[k], weight))]
  <1>1. n \in Nat /\ \A k \in 1..n : s[k] \in V
    OBVIOUS
  <1>2. /\ chosen \in [0..n -> Seq(V)] /\ chosen[0] = <<>>
        /\ \A k \in 1..n : chosen[k] = IF k \in I THEN Append(chosen[k - 1], s[k]) ELSE chosen[k - 1]
    BY SelectionExists
  <1> HIDE DEF n, chosen
  <1>3. z \in [1..n -> Int] /\ \A k \in 1..n : z[k] = IF k \in I THEN weight[s[k]] ELSE 0
    BY <1>1
  <1> HIDE DEF z
  <1>4. f[0] = 0
    <2>1. 0 \in 0..n /\ Len(<<>>) = 0 /\ <<>> \in Seq(V)
      BY <1>1
    <2>2. Weights(<<>>, weight) \in [1..0 -> Int]
      BY <2>1, WeightsAre
    <2>3. Total(Weights(<<>>, weight)) = 0
      BY <2>2, TotalOfNone
    <2> QED
      BY <2>1, <2>3, <1>2
  <1>5. ASSUME NEW k \in 1..n PROVE f[k] = f[k - 1] + z[k]
    <2>1. k \in 0..n /\ k - 1 \in 0..n
      BY <1>1
    <2>2. f[k] = Total(Weights(chosen[k], weight)) /\ f[k - 1] = Total(Weights(chosen[k - 1], weight))
      BY <2>1
    <2>3. chosen[k - 1] \in Seq(V) /\ s[k] \in V
      BY <2>1, <1>1, <1>2
    <2> HIDE DEF f
    <2>4. CASE k \in I
      <3>1. chosen[k] = Append(chosen[k - 1], s[k]) /\ z[k] = weight[s[k]]
        BY <2>4, <1>2, <1>3
      <3>2. Total(Weights(Append(chosen[k - 1], s[k]), weight)) = Total(Weights(chosen[k - 1], weight)) + weight[s[k]]
        BY <2>3, WeightsOfOneMore
      <3> QED
        BY <2>2, <3>1, <3>2
    <2>5. CASE k \notin I
      <3>1. chosen[k] = chosen[k - 1] /\ z[k] = 0
        BY <2>5, <1>2, <1>3
      <3>2. Total(Weights(chosen[k - 1], weight)) \in Int
        BY <2>3, WeightsAre, TotalIsInteger
      <3> QED
        BY <2>2, <3>1, <3>2
    <2> QED
      BY <2>4, <2>5
  <1>6. n \in 0..n /\ f[n] = Total(Weights(chosen[n], weight))
    BY <1>1
  <1>7. Subsequence(s, I) = chosen[n]
    BY DEF Subsequence, chosen, n
  <1> HIDE DEF f
  <1>8. f[n] = Total(z)
    BY <1>1, <1>3, <1>4, <1>5, SumIs
  <1> QED
    BY <1>2, <1>6, <1>7, <1>8 DEF z, n

LEMMA SubsequenceElements ==
    ASSUME NEW V, NEW s \in Seq(V), NEW I
    PROVE  /\ Subsequence(s, I) \in Seq(V)
           /\ ToSet(Subsequence(s, I)) = {s[k] : k \in I \cap 1..Len(s)}
  <1> DEFINE n == Len(s)
             chosen == SelectedPrefixes(s, I)
             First(k) == {s[j] : j \in I \cap 1..k}
             S == {k \in 0..n : ToSet(chosen[k]) = First(k)}
  <1>1. n \in Nat /\ \A k \in 1..n : s[k] \in V
    OBVIOUS
  <1>2. /\ chosen \in [0..n -> Seq(V)] /\ chosen[0] = <<>>
        /\ \A k \in 1..n : chosen[k] = IF k \in I THEN Append(chosen[k - 1], s[k]) ELSE chosen[k - 1]
    BY SelectionExists
  <1> HIDE DEF n, chosen
  <1>3. 0 \in S
    <2>1. First(0) = {} /\ ToSet(<<>>) = {} /\ 0 \in 0..n
      BY <1>1 DEF ToSet
    <2> QED
      BY <2>1, <1>2
  <1>4. ASSUME NEW k \in 0..(n - 1), k \in S PROVE k + 1 \in S
    <2>1. k + 1 \in 1..n /\ (k + 1) - 1 = k /\ k \in 0..n /\ k + 1 \in 0..n
      BY <1>1
    <2>2. chosen[k] \in Seq(V) /\ s[k + 1] \in V
      BY <2>1, <1>1, <1>2
    <2>3. CASE k + 1 \in I
      <3>1. chosen[k + 1] = Append(chosen[k], s[k + 1])
        BY <2>1, <2>3, <1>2
      <3>2. ToSet(Append(chosen[k], s[k + 1])) = ToSet(chosen[k]) \cup {s[k + 1]}
        <4>1. ASSUME NEW t \in Seq(V), NEW v \in V PROVE ToSet(Append(t, v)) = ToSet(t) \cup {v}
          <5>1. /\ DOMAIN Append(t, v) = 1..(Len(t) + 1) /\ DOMAIN t = 1..Len(t) /\ Len(t) \in Nat
                /\ Append(t, v)[Len(t) + 1] = v /\ \A j \in 1..Len(t) : Append(t, v)[j] = t[j]
            OBVIOUS
          <5>2. 1..(Len(t) + 1) = 1..Len(t) \cup {Len(t) + 1}
            BY <5>1
          <5> QED
            BY <5>1, <5>2 DEF ToSet
        <4> QED
          BY <4>1, <2>2
      <3>3. I \cap 1..(k + 1) = (I \cap 1..k) \cup {k + 1}
        BY <2>1, <2>3
      <3>4. First(k + 1) = First(k) \cup {s[k + 1]}
        BY <3>3
      <3> HIDE DEF First
      <3> QED
        BY <2>1, <3>1, <3>2, <3>4, <1>4
    <2>4. CASE k + 1 \notin I
      <3>1. chosen[k + 1] = chosen[k]
        BY <2>1, <2>4, <1>2
      <3>2. I \cap 1..(k + 1) = I \cap 1..k
        BY <2>1, <2>4
      <3>3. First(k + 1) = First(k)
        BY <3>2
      <3> HIDE DEF First
      <3> QED
        BY <2>1, <3>1, <3>3, <1>4
    <2> QED
      BY <2>3, <2>4
  <1>5. n \in S
    <2> HIDE DEF S
    <2>1. n \in 0..n
      BY <1>1
    <2> QED
      BY <1>1, <1>3, <1>4, <2>1, IntervalInduction
  <1>6. Subsequence(s, I) = chosen[n] /\ chosen[n] \in Seq(V)
    BY <1>1, <1>2 DEF Subsequence, chosen, n
  <1> QED
    BY <1>5, <1>6 DEF n

\* It is as long as there are indices.
LEMMA SubsequenceLength ==
    ASSUME NEW V, NEW s \in Seq(V), NEW I \in SUBSET (1..Len(s))
    PROVE  Len(Subsequence(s, I)) = Cardinality(I)
  <1> DEFINE n == Len(s)
             sub == Subsequence(s, I)
             one == [v \in V |-> 1]
             x == Weights(sub, one)
             z == [k \in 1..n |-> IF k \in I THEN one[s[k]] ELSE 0]
             y == [k \in 1..n |-> IF k \in I THEN 1 ELSE 0]
  <1>1. n \in Nat /\ one \in [V -> Int] /\ (\A v \in V : one[v] = 1) /\ \A k \in 1..n : s[k] \in V
    OBVIOUS
  <1>2. z = y
    BY <1>1
  <1> HIDE DEF one
  <1>3. sub \in Seq(V) /\ Total(x) = Total(z)
    BY <1>1, SubsequenceWeighs
  <1> HIDE DEF sub, z
  <1>4. Len(sub) \in Nat /\ x \in [1..Len(sub) -> Int] /\ \A k \in 1..Len(sub) : x[k] = 1
    <2>1. \A k \in 1..Len(sub) : sub[k] \in V
      BY <1>3, ElementOf
    <2> QED
      BY <1>1, <1>3, <2>1, WeightsAre
  <1> HIDE DEF x
  <1>5. Total(x) = Len(sub) * 1
    BY <1>4, TotalOfConstant
  <1>6. Cardinality(I) = Total(y)
    BY <1>1, CountIsTotal
  <1>7. Len(sub) * 1 = Len(sub)
    BY <1>4
  <1> QED
    BY <1>2, <1>3, <1>5, <1>6, <1>7 DEF sub

LEMMA WeightsOfBoth ==
    ASSUME NEW V, NEW weight \in [V -> Int], NEW s \in Seq(V), NEW t \in Seq(V)
    PROVE  Total(Weights(s \o t, weight)) = Total(Weights(s, weight)) + Total(Weights(t, weight))
  <1> DEFINE n == Len(s)
             m == Len(t)
             both == s \o t
             xs == Weights(s, weight)
             xt == Weights(t, weight)
             x == Weights(both, weight)
  <1>1. /\ both \in Seq(V) /\ Len(both) = n + m /\ n \in Nat /\ m \in Nat
        /\ \A k \in 1..n : both[k] = s[k]
        /\ \A k \in 1..m : both[n + k] = t[k]
    <2>1. n \in Nat /\ m \in Nat
      OBVIOUS
    <2> QED
      BY <2>1, Concatenated
  <1>2. /\ xs \in [1..n -> Int] /\ \A k \in 1..n : xs[k] = weight[s[k]]
        /\ xt \in [1..m -> Int] /\ \A k \in 1..m : xt[k] = weight[t[k]]
    BY WeightsAre
  <1>3. x \in [1..Len(both) -> Int] /\ \A k \in 1..Len(both) : x[k] = weight[both[k]]
    <2>1. both \in Seq(V)
      BY <1>1
    <2>2. ASSUME NEW u \in Seq(V)
          PROVE  /\ Weights(u, weight) \in [1..Len(u) -> Int]
                 /\ \A k \in 1..Len(u) : Weights(u, weight)[k] = weight[u[k]]
      <3>1. \A k \in 1..Len(u) : u[k] \in V
        OBVIOUS
      <3> QED
        BY <3>1 DEF Weights
    <2> HIDE DEF both, xs, xt, n, m
    <2> QED
      BY <2>1, <2>2
  <1> HIDE DEF n, m, both, xs, xt, x
  <1>4. xs \in Seq(Int) /\ Len(xs) = n /\ xt \in Seq(Int) /\ Len(xt) = m
    BY <1>1, <1>2, FunctionIsSequence
  <1>5. /\ xs \o xt \in Seq(Int) /\ Len(xs \o xt) = n + m
        /\ \A k \in 1..n : (xs \o xt)[k] = xs[k]
        /\ \A k \in 1..m : (xs \o xt)[n + k] = xt[k]
    <2>1. /\ xs \o xt \in Seq(Int) /\ Len(xs \o xt) = Len(xs) + Len(xt)
          /\ \A k \in 1..Len(xs) : (xs \o xt)[k] = xs[k]
          /\ \A k \in 1..Len(xt) : (xs \o xt)[Len(xs) + k] = xt[k]
      <3>1. xs \in Seq(Int) /\ xt \in Seq(Int)
        BY <1>4
      <3> QED
        BY <3>1, Concatenated
    <2> QED
      BY <1>4, <2>1
  <1>6. xs \o xt = x
    <2> DEFINE y == xs \o xt
    <2>1. y \in [1..(n + m) -> Int]
      BY <1>5, SequenceIsFunction
    <2>2. x \in [1..(n + m) -> Int] /\ \A k \in 1..(n + m) : x[k] = weight[both[k]]
      BY <1>1, <1>3
    <2>3. ASSUME NEW k \in 1..(n + m) PROVE y[k] = x[k]
      <3>1. CASE k \in 1..n
        <4>1. y[k] = xs[k] /\ xs[k] = weight[s[k]] /\ both[k] = s[k]
          BY <3>1, <1>1, <1>2, <1>5
        <4> QED
          BY <4>1, <2>2
      <3>2. CASE k \notin 1..n
        <4>1. k - n \in 1..m /\ n + (k - n) = k
          BY <3>2, <1>1
        <4> DEFINE i == k - n
        <4> HIDE DEF i
        <4>2. i \in 1..m /\ n + i = k
          BY <4>1 DEF i
        <4>3. y[n + i] = xt[i] /\ both[n + i] = t[i]
          BY <4>2, <1>1, <1>5
        <4> QED
          BY <4>2, <4>3, <2>2, <1>2
      <3> QED
        BY <3>1, <3>2
    <2> HIDE DEF y
    <2>4. y = [k \in 1..(n + m) |-> y[k]] /\ x = [k \in 1..(n + m) |-> x[k]]
      BY <2>1, <2>2
    <2>5. y = x
      BY <2>3, <2>4
    <2> QED
      BY <2>5 DEF y
  <1>7. Total(xs \o xt) = Total(xs) + Total(xt)
    BY <1>4, TotalOfConcatenation
  <1> QED
    BY <1>6, <1>7 DEF both, xs, xt, x

\* The first sequences joined, each time with the next one.
LEMMA JoinsExist ==
    ASSUME NEW V, NEW seqs \in Seq(Seq(V))
    PROVE  \E joined \in [0..Len(seqs) -> Seq(V)] :
                /\ joined[0] = <<>>
                /\ \A k \in 1..Len(seqs) : joined[k] = joined[k - 1] \o seqs[k]
                /\ FlattenSeq(seqs) = joined[Len(seqs)]
  <1> DEFINE n == Len(seqs)
  <1>1. n \in Nat /\ <<>> \in Seq(V) /\ \A k \in 1..n : seqs[k] \in Seq(V)
    OBVIOUS
  <1>2. CASE n = 0
    <2> DEFINE joined == [k \in 0..n |-> <<>>]
    <2>1. FlattenSeq(seqs) = seqs /\ seqs = <<>>
      BY <1>2 DEF FlattenSeq
    <2>2. joined \in [0..n -> Seq(V)] /\ joined[0] = <<>> /\ joined[n] = <<>>
      BY <1>1, <1>2
    <2> HIDE DEF joined, n
    <2>3. \A k \in 1..n : joined[k] = joined[k - 1] \o seqs[k]
      BY <1>2
    <2> QED
      BY <2>1, <2>2, <2>3 DEF n
  <1>3. CASE n # 0
    <2> DEFINE step == [p \in (2..n) \X Seq(V) |-> p[2] \o seqs[p[1]]]
               Equation(flatten) ==
                    flatten = [i \in 1..n |-> IF i = 1 THEN seqs[i] ELSE flatten[i - 1] \o seqs[i]]
               flat == CHOOSE flatten : Equation(flatten)
    <2>1. 1 \in 1..n /\ 1 <= n /\ (1 + 1)..n = 2..n /\ seqs[1] \in Seq(V)
      BY <1>1, <1>3
    <2>2. \A k \in 2..n : \A t \in Seq(V) : step[<<k, t>>] = t \o seqs[k] /\ step[<<k, t>>] \in Seq(V)
      <3>1. \A k \in 2..n : seqs[k] \in Seq(V)
        BY <1>1
      <3> HIDE DEF n
      <3> QED
        BY <3>1, Concatenated
    <2>3. step \in [(2..n) \X Seq(V) -> Seq(V)]
      <3>1. \A p \in (2..n) \X Seq(V) : p[1] \in 2..n /\ p[2] \in Seq(V)
        OBVIOUS
      <3>2. \A k \in 2..n : seqs[k] \in Seq(V)
        BY <1>1
      <3> HIDE DEF n
      <3>3. \A p \in (2..n) \X Seq(V) : p[2] \o seqs[p[1]] \in Seq(V)
        BY <3>1, <3>2, Concatenated
      <3> QED
        BY <3>3
    <2> HIDE DEF step
    <2>4. FlattenSeq(seqs) = flat[n]
      BY <1>3 DEF FlattenSeq
    <2> HIDE DEF n
    <2>5. PICK f \in [1..n -> Seq(V)] : Recursive(f, 1, n, seqs[1], step)
      BY <1>1, <2>1, <2>3, RecursionExists
    <2>6. f[1] = seqs[1] /\ \A k \in 2..n : f[k - 1] \in Seq(V) /\ f[k] = f[k - 1] \o seqs[k]
      <3>1. \A k \in 2..n : f[k] = step[<<k, f[k - 1]>>]
        BY <2>1, <2>5 DEF Recursive
      <3>2. \A k \in 2..n : f[k - 1] \in Seq(V)
        BY <1>1
      <3>3. f[1] = seqs[1]
        BY <2>5 DEF Recursive
      <3> QED
        BY <3>1, <3>2, <3>3, <2>2
    <2>7. Equation(f)
      <3>1. \A k \in 1..n : k = 1 \/ k \in 2..n
        BY <1>1
      <3>2. \A k \in 1..n : f[k] = IF k = 1 THEN seqs[k] ELSE f[k - 1] \o seqs[k]
        BY <3>1, <2>6
      <3>3. f = [k \in 1..n |-> f[k]]
        OBVIOUS
      <3> QED
        BY <3>2, <3>3
    <2>8. Equation(flat)
      <3> HIDE DEF Equation
      <3> QED
        BY <2>7
    <2> HIDE DEF flat
    <2>9. /\ flat = [k \in 1..n |-> flat[k]] /\ flat[1] = seqs[1]
          /\ \A k \in 2..n : flat[k] = flat[k - 1] \o seqs[k]
      <3>1. \A k \in 1..n : flat[k] = IF k = 1 THEN seqs[k] ELSE flat[k - 1] \o seqs[k]
        BY <2>8
      <3>2. flat = [k \in 1..n |-> flat[k]]
        BY <2>8
      <3>3. \A k \in 2..n : k \in 1..n /\ k # 1
        BY <1>1
      <3> HIDE DEF Equation
      <3> QED
        BY <3>1, <3>2, <3>3, <2>1
    <2> DEFINE S == {k \in 1..n : flat[k] \in Seq(V)}
    <2>10. \A k \in 1..n : k \in S
      <3> HIDE DEF Equation
      <3>1. 1 \in S
        BY <2>1, <2>9
      <3>2. ASSUME NEW k \in 1..(n - 1), k \in S PROVE k + 1 \in S
        <4>1. k + 1 \in 2..n /\ k + 1 \in 1..n /\ (k + 1) - 1 = k
          BY <1>1
        <4>2. flat[k + 1] = flat[k] \o seqs[k + 1] /\ flat[k] \in Seq(V) /\ seqs[k + 1] \in Seq(V)
          <5>1. flat[k + 1] = flat[(k + 1) - 1] \o seqs[k + 1]
            BY <4>1, <2>9
          <5>2. flat[k] \in Seq(V) /\ seqs[k + 1] \in Seq(V)
            BY <4>1, <3>2, <1>1 DEF n
          <5> QED
            BY <4>1, <5>1, <5>2
        <4>3. flat[k + 1] \in Seq(V)
          BY <4>2, Concatenated
        <4> QED
          BY <4>1, <4>3
      <3> HIDE DEF S
      <3>3. 1 \in Nat
        OBVIOUS
      <3> QED
        BY <1>1, <3>1, <3>2, <3>3, IntervalInduction
    <2> DEFINE joined == [k \in 0..n |-> IF k = 0 THEN <<>> ELSE flat[k]]
    <2>11. joined \in [0..n -> Seq(V)]
      <3>1. \A k \in 0..n : k = 0 \/ k \in 1..n
        BY <1>1
      <3>2. \A k \in 1..n : flat[k] \in Seq(V)
        BY <2>10
      <3> HIDE DEF Equation, S
      <3> QED
        BY <3>1, <3>2, <1>1
    <2>12. joined[0] = <<>> /\ \A k \in 1..n : joined[k] = flat[k]
      BY <1>1
    <2>13. ASSUME NEW k \in 1..n PROVE joined[k] = joined[k - 1] \o seqs[k]
      <3>1. CASE k = 1
        <4>1. <<>> \o seqs[1] = seqs[1]
          BY <2>1
        <4> HIDE DEF joined, Equation, S
        <4>2. joined[1] = flat[1] /\ joined[0] = <<>> /\ flat[1] = seqs[1]
          BY <2>1, <2>9, <2>12
        <4>3. k - 1 = 0
          BY <3>1
        <4> QED
          BY <3>1, <4>1, <4>2, <4>3
      <3>2. CASE k # 1
        <4>1. k \in 2..n /\ k - 1 \in 1..n
          BY <3>2, <1>1
        <4> HIDE DEF joined, Equation, S
        <4> QED
          BY <4>1, <2>9, <2>12
      <3> QED
        BY <3>1, <3>2
    <2>14. FlattenSeq(seqs) = joined[n]
      <3>1. n \in 1..n
        BY <1>1, <1>3
      <3> HIDE DEF joined, Equation, S
      <3> QED
        BY <3>1, <2>4, <2>12
    <2> HIDE DEF joined
    <2> QED
      BY <2>11, <2>12, <2>13, <2>14 DEF n
  <1> QED
    BY <1>2, <1>3

\* A join weighs what its parts weigh, and has their elements.
LEMMA JoinWeighs ==
    ASSUME NEW V, NEW weight \in [V -> Int], NEW seqs \in Seq(Seq(V))
    PROVE  /\ FlattenSeq(seqs) \in Seq(V)
           /\ Total(Weights(FlattenSeq(seqs), weight)) = Total([k \in 1..Len(seqs) |-> Total(Weights(seqs[k], weight))])
  <1> DEFINE n == Len(seqs)
             z == [k \in 1..n |-> Total(Weights(seqs[k], weight))]
  <1>1. n \in Nat /\ \A k \in 1..n : seqs[k] \in Seq(V)
    OBVIOUS
  <1>2. PICK joined \in [0..n -> Seq(V)] :
            /\ joined[0] = <<>>
            /\ \A k \in 1..n : joined[k] = joined[k - 1] \o seqs[k]
            /\ FlattenSeq(seqs) = joined[n]
    BY JoinsExist
  <1> DEFINE f == [k \in 0..n |-> Total(Weights(joined[k], weight))]
  <1> HIDE DEF n
  <1>3. z \in [1..n -> Int]
    <2>1. ASSUME NEW k \in 1..n PROVE Total(Weights(seqs[k], weight)) \in Int
      <3>1. seqs[k] \in Seq(V)
        BY <1>1
      <3> QED
        BY <3>1, WeightsAre, TotalIsInteger
    <2> QED
      BY <2>1
  <1>4. f[0] = 0
    <2>1. 0 \in 0..n /\ Len(<<>>) = 0 /\ <<>> \in Seq(V)
      BY <1>1
    <2>2. Weights(<<>>, weight) \in [1..0 -> Int]
      BY <2>1, WeightsAre
    <2>3. Total(Weights(<<>>, weight)) = 0
      BY <2>2, TotalOfNone
    <2> QED
      BY <2>1, <2>3, <1>2
  <1>5. ASSUME NEW k \in 1..n PROVE f[k] = f[k - 1] + z[k]
    <2>1. k \in 0..n /\ k - 1 \in 0..n
      BY <1>1
    <2>2. joined[k - 1] \in Seq(V) /\ seqs[k] \in Seq(V) /\ joined[k] = joined[k - 1] \o seqs[k]
      BY <2>1, <1>1, <1>2
    <2>3. f[k] = Total(Weights(joined[k], weight)) /\ f[k - 1] = Total(Weights(joined[k - 1], weight))
      BY <2>1
    <2>4. z[k] = Total(Weights(seqs[k], weight))
      OBVIOUS
    <2> HIDE DEF f, z
    <2>5. Total(Weights(joined[k - 1] \o seqs[k], weight))
            = Total(Weights(joined[k - 1], weight)) + Total(Weights(seqs[k], weight))
      BY <2>2, WeightsOfBoth
    <2> QED
      BY <2>2, <2>3, <2>4, <2>5
  <1>6. n \in 0..n /\ f[n] = Total(Weights(joined[n], weight)) /\ joined[n] \in Seq(V)
    BY <1>1
  <1> HIDE DEF f, z
  <1>7. f[n] = Total(z)
    BY <1>1, <1>3, <1>4, <1>5, SumIs
  <1> QED
    BY <1>2, <1>6, <1>7 DEF z, n

LEMMA JoinElements ==
    ASSUME NEW V, NEW seqs \in Seq(Seq(V))
    PROVE  /\ FlattenSeq(seqs) \in Seq(V)
           /\ ToSet(FlattenSeq(seqs)) = UNION {ToSet(seqs[k]) : k \in 1..Len(seqs)}
  <1> DEFINE n == Len(seqs)
             First(k) == UNION {ToSet(seqs[j]) : j \in 1..k}
  <1>1. n \in Nat /\ \A k \in 1..n : seqs[k] \in Seq(V)
    OBVIOUS
  <1>2. PICK joined \in [0..n -> Seq(V)] :
            /\ joined[0] = <<>>
            /\ \A k \in 1..n : joined[k] = joined[k - 1] \o seqs[k]
            /\ FlattenSeq(seqs) = joined[n]
    BY JoinsExist
  <1> DEFINE S == {k \in 0..n : ToSet(joined[k]) = First(k)}
  <1> HIDE DEF n
  <1>3. 0 \in S
    <2>1. First(0) = {} /\ ToSet(<<>>) = {} /\ 0 \in 0..n
      BY <1>1 DEF ToSet
    <2> QED
      BY <2>1, <1>2
  <1>4. ASSUME NEW k \in 0..(n - 1), k \in S PROVE k + 1 \in S
    <2>1. k + 1 \in 1..n /\ (k + 1) - 1 = k /\ k \in 0..n /\ k + 1 \in 0..n
      BY <1>1
    <2>2. joined[k] \in Seq(V) /\ seqs[k + 1] \in Seq(V) /\ joined[k + 1] = joined[k] \o seqs[k + 1]
      <3>1. joined[k + 1] = joined[(k + 1) - 1] \o seqs[k + 1]
        BY <2>1, <1>2
      <3> QED
        BY <2>1, <3>1, <1>1, <1>2
    <2>3. ToSet(joined[k] \o seqs[k + 1]) = ToSet(joined[k]) \cup ToSet(seqs[k + 1])
      BY <2>2, ToSetOfBoth
    <2>4. First(k + 1) = First(k) \cup ToSet(seqs[k + 1])
      <3>1. 1..(k + 1) = 1..k \cup {k + 1}
        BY <2>1
      <3> QED
        BY <3>1
    <2> HIDE DEF First
    <2> QED
      BY <2>1, <2>2, <2>3, <2>4, <1>4
  <1>5. n \in S
    <2> HIDE DEF S
    <2>1. n \in 0..n
      BY <1>1
    <2> QED
      BY <1>1, <1>3, <1>4, <2>1, IntervalInduction
  <1>6. joined[n] \in Seq(V)
    BY <1>1
  <1> QED
    BY <1>2, <1>5, <1>6 DEF n

LEMMA JoinLength ==
    ASSUME NEW V, NEW seqs \in Seq(Seq(V))
    PROVE  Len(FlattenSeq(seqs)) = Total([k \in 1..Len(seqs) |-> Len(seqs[k])])
  <1> DEFINE n == Len(seqs)
             all == FlattenSeq(seqs)
             one == [v \in V |-> 1]
             z == [k \in 1..n |-> Total(Weights(seqs[k], one))]
             y == [k \in 1..n |-> Len(seqs[k])]
  <1>1. n \in Nat /\ one \in [V -> Int] /\ (\A v \in V : one[v] = 1) /\ \A k \in 1..n : seqs[k] \in Seq(V)
    OBVIOUS
  <1> HIDE DEF one
  <1>2. all \in Seq(V) /\ Total(Weights(all, one)) = Total(z)
    BY <1>1, JoinWeighs
  <1>3. ASSUME NEW s \in Seq(V) PROVE Total(Weights(s, one)) = Len(s)
    <2>1. Len(s) \in Nat /\ Weights(s, one) \in [1..Len(s) -> Int]
      BY <1>1, WeightsAre
    <2>2. \A k \in 1..Len(s) : Weights(s, one)[k] = 1
      <3>1. \A k \in 1..Len(s) : s[k] \in V
        OBVIOUS
      <3> QED
        BY <1>1, <3>1 DEF Weights
    <2>3. Total(Weights(s, one)) = Len(s) * 1
      BY <2>1, <2>2, TotalOfConstant
    <2> QED
      BY <2>1, <2>3
  <1> HIDE DEF all, n
  <1>4. z = y
    BY <1>1, <1>3
  <1> QED
    BY <1>2, <1>3, <1>4 DEF all, n

-----------------------------------------------------------------------------
(* The choice of images.                                                   *)

\* The records of a choice that matches have two images of each class.
LEMMA ChosenHasTwo ==
    ASSUME NEW choice,
           \A class \in 0..(Classes - 1) : \A k \in 1..2 : Labels[choice[class][k]] = class
    PROVE  TwoOfEachClass(Chosen(choice))
  <1> SUFFICES ASSUME NEW class \in 0..(Classes - 1)
               PROVE  LET labelled == {k \in DOMAIN Chosen(choice) : Chosen(choice)[k].label = class}
                      IN  /\ Cardinality(labelled) = 2
                          /\ \A k \in labelled : Labels[Chosen(choice)[k].source] = class
    BY DEF TwoOfEachClass
  <1> DEFINE labelled == {k \in DOMAIN Chosen(choice) : Chosen(choice)[k].label = class}
  <1>1. DOMAIN Chosen(choice) = 1..(2 * Classes)
    BY DEF Chosen
  <1>2. \A k \in 1..(2 * Classes) :
            /\ Chosen(choice)[k].label = (k - 1) \div 2
            /\ Chosen(choice)[k].source = choice[(k - 1) \div 2][1 + ((k - 1) % 2)]
    BY DEF Chosen
  <1>3. labelled = {2 * class + 1, 2 * class + 2}
    <2>1. \A k \in 1..(2 * Classes) : (k - 1) \div 2 = class <=> k = 2 * class + 1 \/ k = 2 * class + 2
      BY LabelsAssumption
    <2>2. 2 * class + 1 \in 1..(2 * Classes) /\ 2 * class + 2 \in 1..(2 * Classes)
      BY LabelsAssumption
    <2>3. QED
      BY <1>1, <1>2, <2>1, <2>2
  <1>4. Cardinality(labelled) = 2
    <2>1. IsFiniteSet({2 * class + 1}) /\ Cardinality({2 * class + 1}) = 1
      BY FiniteSingleton
    <2>2. 2 * class + 2 \notin {2 * class + 1}
      OBVIOUS
    <2>3. Cardinality({2 * class + 1} \cup {2 * class + 2}) = 2
      <3>1. ASSUME NEW j, NEW k, k \notin {j} PROVE Cardinality({j} \cup {k}) = 2
        <4>1. IsFiniteSet({j}) /\ Cardinality({j}) = 1
          BY FiniteSingleton
        <4>2. Cardinality({j} \cup {k}) = Cardinality({j}) + (IF k \in {j} THEN 0 ELSE 1)
          BY <4>1, FiniteAddition
        <4> QED
          BY <3>1, <4>1, <4>2
      <3> QED
        BY <2>2, <3>1
    <2>4. QED
      BY <1>3, <2>3
  <1>5. ASSUME NEW k \in labelled
        PROVE  Labels[Chosen(choice)[k].source] = class
    <2>1. k \in 1..(2 * Classes) /\ (k - 1) \div 2 = class
      BY <1>1, <1>2
    <2>2. 1 + ((k - 1) % 2) \in 1..2
      BY <2>1, LabelsAssumption
    <2>3. QED
      BY <1>2, <2>1, <2>2
  <1>6. QED
    BY <1>4, <1>5

-----------------------------------------------------------------------------
(* The building of the two sets.                                           *)

\* The staging directory holds what the steps so far have put there, each set
\* complete, and the result is touched by the last two steps alone.
Staged ==
    /\ setPc = "lenet" => stage = Empty
    /\ setPc = "resnet50" => DOMAIN stage = {"lenet"} /\ TwoOfEachClass(stage["lenet"])
    /\ setPc = "manifest" =>
        DOMAIN stage = {"lenet", "resnet50"} /\ \A model \in {"lenet", "resnet50"} : TwoOfEachClass(stage[model])
    /\ setPc \in {"remove", "rename"} => IsWhole(stage)
Ours ==
    /\ setPc \in {"resnet50", "manifest", "remove", "rename"} => stage["lenet"] = Digits
    /\ setPc \in {"manifest", "remove", "rename"} => stage["resnet50"] = Photos
Replaced == setPc = "rename" => out = Empty
SetsInv == pinned \in Pinned /\ Staged /\ Ours /\ Replaced /\ InputSetIsWhole

\* While a call goes on, its lock file stays and so do the images it chooses.
LEMMA ChoiceStays == ASSUME pinned' = pinned PROVE Digits' = Digits /\ Photos' = Photos
  BY DEF Digits, Photos, Indices, Candidates, Offsets

LEMMA SetsInitially == SetsInit => SetsInv
  BY DEF SetsInit, SetsInv, Staged, Ours, Replaced, InputSetIsWhole

\* What the lock file pins is a list, and so is what is found.
LEMMA ListsAreSequences ==
    ASSUME SetsInv, NEW class
    PROVE  /\ Len(Indices(class)) = 2 => DOMAIN Indices(class) = 1..2
           /\ Len(Offsets(class)) = 2 => DOMAIN Offsets(class) = 1..2
  <1>1. /\ class \in DOMAIN pinned.lenet => pinned.lenet[class] \in Seq(Nat)
        /\ class \in DOMAIN pinned.resnet50 => pinned.resnet50[class] \in Seq(Nat)
    <2>1. pinned \in Pinned
      BY DEF SetsInv
    <2>2. /\ \A c \in DOMAIN pinned["lenet"] : pinned["lenet"][c] \in Seq(Nat)
          /\ \A c \in DOMAIN pinned["resnet50"] : pinned["resnet50"][c] \in Seq(Nat)
      BY <2>1, PinnedAssumption
    <2> QED
      BY <2>2
  <1>2. ASSUME Len(Indices(class)) = 2 PROVE DOMAIN Indices(class) = 1..2
    <2>1. CASE class \in DOMAIN pinned.lenet
      BY <1>1, <1>2, <2>1 DEF Indices
    <2>2. CASE class \notin DOMAIN pinned.lenet
      BY <1>2, <2>2 DEF Indices, FirstTwo
    <2> QED
      BY <2>1, <2>2
  <1>3. Len(Offsets(class)) = 2 => DOMAIN Offsets(class) = 1..2
    BY <1>1 DEF Offsets
  <1> QED
    BY <1>2, <1>3

LEMMA RaiseStep ==
    ASSUME SetsInv, Raise, setPc \in {"lenet", "resnet50", "manifest", "remove", "rename"}
    PROVE  SetsInv'
  BY DEF Raise, Discard, SetsInv, Staged, Ours, Replaced, InputSetIsWhole

LEMMA BeginStep == ASSUME SetsInv, NEW pc \in {"fetch", "verify"}, Begin(pc) PROVE SetsInv'
  BY DEF Begin, SetsInv, Staged, Ours, Replaced, InputSetIsWhole

LEMMA FetchStep == ASSUME SetsInv, Fetch PROVE SetsInv'
  <1>1. setPc' \in {"fetch", "fetched", "raised", "killed"} /\ out = before
    BY DEF Fetch, SetsInv, InputSetIsWhole
  <1> QED
    BY <1>1 DEF Fetch, SetsInv, Staged, Ours, Replaced, InputSetIsWhole

LEMMA VerifyStep == ASSUME SetsInv, Verify PROVE SetsInv'
  <1>1. /\ setPc' \in {"lenet", "raised", "killed"} /\ out = before
        /\ setPc' = "lenet" => stage' = Empty /\ verified' = Sources
    BY DEF Verify, SetsInv, InputSetIsWhole
  <1> QED
    BY <1>1 DEF Verify, SetsInv, Staged, Ours, Replaced, InputSetIsWhole

\* _build_lenet has checked the labels of what it chose, pinned or found.
LEMMA BuildLenetStep == ASSUME SetsInv, BuildLenet PROVE SetsInv'
  <1> DEFINE choice == [class \in 0..(Classes - 1) |-> Indices(class)]
  <1>1. CASE Raise
    BY <1>1, RaiseStep DEF BuildLenet
  <1>2. CASE /\ \A class \in 0..(Classes - 1) : Len(Indices(class)) = 2 /\ Matches(class)
             /\ Stages("lenet", Digits, "resnet50")
    <2>1. ASSUME NEW class \in 0..(Classes - 1), NEW k \in 1..2
          PROVE  Labels[choice[class][k]] = class
      <3>1. Len(Indices(class)) = 2 /\ Matches(class)
        BY <1>2
      <3>2. k \in DOMAIN Indices(class)
        BY <3>1, ListsAreSequences
      <3> QED
        BY <3>1, <3>2 DEF Matches
    <2>2. TwoOfEachClass(Digits)
      BY <2>1, ChosenHasTwo DEF Digits
    <2>3. stage' = With(Empty, "lenet", Digits) /\ setPc' = "resnet50" /\ Digits' = Digits
      BY <1>2, ChoiceStays DEF BuildLenet, SetsInv, Staged, Stages
    <2>4. DOMAIN stage' = {"lenet"} /\ stage'["lenet"] = Digits
      BY <2>3 DEF With, Empty
    <2> QED
      BY <1>2, <2>2, <2>3, <2>4 DEF BuildLenet, Stages, SetsInv, Staged, Ours, Replaced, InputSetIsWhole
  <1> QED
    BY <1>1, <1>2 DEF BuildLenet

\* _build_resnet takes two of the candidates of each class.
LEMMA BuildResnetStep == ASSUME SetsInv, BuildResnet PROVE SetsInv'
  <1> DEFINE choice == [class \in 0..(Classes - 1) |-> Candidates(class)]
  <1>1. CASE Raise
    BY <1>1, RaiseStep DEF BuildResnet
  <1>2. CASE /\ \A class \in 0..(Classes - 1) :
                   Len(Offsets(class)) = 2 /\ \A n \in DOMAIN Offsets(class) : At(class, Offsets(class)[n]) # {}
             /\ Stages("resnet50", Photos, "manifest")
    <2>1. ASSUME NEW class \in 0..(Classes - 1), NEW k \in 1..2 PROVE Labels[choice[class][k]] = class
      <3>1. k \in DOMAIN Offsets(class) /\ At(class, Offsets(class)[k]) # {}
        BY <1>2, ListsAreSequences
      <3>2. choice[class][k] \in At(class, Offsets(class)[k])
        BY <3>1 DEF Candidates
      <3> QED
        BY <3>2 DEF At, Found
    <2>2. TwoOfEachClass(Photos)
      BY <2>1, ChosenHasTwo DEF Photos
    <2>3. /\ stage' = With(stage, "resnet50", Photos) /\ setPc' = "manifest" /\ Digits' = Digits /\ Photos' = Photos
          /\ DOMAIN stage = {"lenet"} /\ TwoOfEachClass(stage["lenet"]) /\ stage["lenet"] = Digits
      BY <1>2, ChoiceStays DEF BuildResnet, SetsInv, Staged, Ours, Stages
    <2>4. /\ DOMAIN stage' = {"lenet", "resnet50"}
          /\ stage'["lenet"] = stage["lenet"] /\ stage'["resnet50"] = Photos
      BY <2>3 DEF With
    <2> QED
      BY <1>2, <2>2, <2>3, <2>4 DEF BuildResnet, Stages, SetsInv, Staged, Ours, Replaced, InputSetIsWhole
  <1> QED
    BY <1>1, <1>2 DEF BuildResnet

\* The manifest is the last part: what is staged now is a whole set.
LEMMA WriteSetStep == ASSUME SetsInv, WriteSet PROVE SetsInv'
  <1>1. CASE Raise
    BY <1>1, RaiseStep DEF WriteSet
  <1>2. CASE Stages("manifest", <<>>, "remove")
    <2>1. /\ stage' = With(stage, "manifest", <<>>) /\ setPc' = "remove"
          /\ DOMAIN stage = {"lenet", "resnet50"}
          /\ TwoOfEachClass(stage["lenet"]) /\ TwoOfEachClass(stage["resnet50"])
          /\ stage["lenet"] = Digits /\ stage["resnet50"] = Photos /\ Digits' = Digits /\ Photos' = Photos
      BY <1>2, ChoiceStays DEF WriteSet, SetsInv, Staged, Ours, Stages
    <2>2. /\ DOMAIN stage' = Parts
          /\ stage'["lenet"] = stage["lenet"] /\ stage'["resnet50"] = stage["resnet50"]
      BY <2>1 DEF With, Parts
    <2>3. IsWhole(stage')
      BY <2>1, <2>2 DEF IsWhole, Parts
    <2> QED
      BY <1>2, <2>1, <2>2, <2>3 DEF WriteSet, Stages, SetsInv, Staged, Ours, Replaced, InputSetIsWhole
  <1> QED
    BY <1>1, <1>2 DEF WriteSet

LEMMA RemoveOldStep == ASSUME SetsInv, RemoveOld PROVE SetsInv'
  <1>1. Digits' = Digits /\ Photos' = Photos /\ pinned' = pinned
    BY ChoiceStays DEF RemoveOld
  <1> QED
    BY <1>1 DEF RemoveOld, Discard, SetsInv, Staged, Ours, Replaced, InputSetIsWhole

LEMMA RenameStep == ASSUME SetsInv, Rename PROVE SetsInv'
  <1>1. Digits' = Digits /\ Photos' = Photos /\ pinned' = pinned
    BY ChoiceStays DEF Rename
  <1>2. IsWhole(stage) /\ DOMAIN stage = Parts /\ stage["lenet"] = Digits /\ stage["resnet50"] = Photos
    BY DEF Rename, SetsInv, Staged, Ours, IsWhole
  <1> QED
    BY <1>1, <1>2 DEF Rename, SetsInv, Staged, Ours, Replaced, InputSetIsWhole

LEMMA BreakStep == ASSUME SetsInv, Break PROVE SetsInv'
  <1>1. CASE setPc \in {"lenet", "resnet50", "manifest", "rename"} /\ Raise
    BY <1>1, RaiseStep
  <1>2. CASE /\ setPc = "fetch" /\ setPc' \in {"raised", "killed"}
             /\ UNCHANGED <<call, cached, verified, pinned, stage, out, before, removing>>
    BY <1>2 DEF SetsInv, Staged, Ours, Replaced, InputSetIsWhole
  <1> QED
    BY <1>1, <1>2 DEF Break

LEMMA SetsStep == SetsInv /\ [SetsNext]_setVars => SetsInv'
  <1> SUFFICES ASSUME SetsInv, [SetsNext]_setVars PROVE SetsInv'
    OBVIOUS
  <1>1. CASE UNCHANGED setVars
    <2>1. Digits' = Digits /\ Photos' = Photos
      BY <1>1, ChoiceStays DEF setVars
    <2> QED
      BY <1>1, <2>1 DEF setVars, SetsInv, Staged, Ours, Replaced, InputSetIsWhole
  <1>2. CASE SetsNext
    BY <1>2, BeginStep, FetchStep, VerifyStep, BuildLenetStep, BuildResnetStep, WriteSetStep, RemoveOldStep,
       RenameStep, BreakStep DEF SetsNext
  <1> QED
    BY <1>1, <1>2

\* input_sets.py 255-306: whatever call of the two programs fails or is killed,
\* and at whichever step, a set of inputs is there as a whole or not at all,
\* unless a removal of the earlier one was cut short; a build that is done has
\* replaced it with the images that its own lock file chooses, for any number of
\* classes and images and whatever was pinned, also in earlier calls.
THEOREM SetsAreWhole == SetsSpec => []InputSetIsWhole
  <1>1. SetsInv => InputSetIsWhole
    BY DEF SetsInv
  <1> QED
    BY <1>1, SetsInitially, SetsStep, PTL DEF SetsSpec

-----------------------------------------------------------------------------
(* The import of a directory's archives.                                   *)

LEMMA RegimeNames == ToSet(Regimes) = {"cold", "warm", "steady"} /\ DOMAIN Regimes = 1..3
  <1>1. DOMAIN Regimes = 1..3 /\ Regimes[1] = "cold" /\ Regimes[2] = "warm" /\ Regimes[3] = "steady"
    BY DEF Regimes
  <1>2. 1..3 = {1, 2, 3}
    OBVIOUS
  <1> QED
    BY <1>1, <1>2 DEF ToSet

IsSumOfThree(x, c, w, s, n) ==
    /\ x \in [1..n -> Int] /\ c \in [1..n -> Int] /\ w \in [1..n -> Int] /\ s \in [1..n -> Int]
    /\ \A k \in 1..n : x[k] = (c[k] + w[k]) + s[k]

LEMMA TotalOfThreeSums ==
    ASSUME NEW n \in Nat, NEW x, NEW c, NEW w, NEW s, IsSumOfThree(x, c, w, s, n)
    PROVE  Total(x) = Total(c) + Total(w) + Total(s)
  <1> DEFINE both == [k \in 1..n |-> c[k] + w[k]]
  <1>1. IsSumOf(both, c, w, n)
    BY DEF IsSumOf, IsSumOfThree
  <1>2. IsSumOf(x, both, s, n)
    BY DEF IsSumOf, IsSumOfThree
  <1> HIDE DEF both
  <1>3. Total(both) = Total(c) + Total(w) /\ Total(x) = Total(both) + Total(s)
    BY <1>1, <1>2, SumsAdd
  <1>4. Total(c) \in Int /\ Total(w) \in Int /\ Total(s) \in Int
    BY TotalIsInteger DEF IsSumOfThree
  <1> QED
    BY <1>3, <1>4

\* Three regimes make up a sum.
LEMMA TotalOfRegimes ==
    ASSUME NEW n \in Nat, NEW x \in [1..n -> Int], NEW regime \in [1..n -> ToSet(Regimes)]
    PROVE  Total(x) = Total([k \in 1..n |-> IF regime[k] = "cold" THEN x[k] ELSE 0])
                        + Total([k \in 1..n |-> IF regime[k] = "warm" THEN x[k] ELSE 0])
                        + Total([k \in 1..n |-> IF regime[k] = "steady" THEN x[k] ELSE 0])
  <1> DEFINE c == [k \in 1..n |-> IF regime[k] = "cold" THEN x[k] ELSE 0]
             w == [k \in 1..n |-> IF regime[k] = "warm" THEN x[k] ELSE 0]
             s == [k \in 1..n |-> IF regime[k] = "steady" THEN x[k] ELSE 0]
  <1>1. \A k \in 1..n : regime[k] \in {"cold", "warm", "steady"}
    BY RegimeNames
  <1>2. c \in [1..n -> Int] /\ w \in [1..n -> Int] /\ s \in [1..n -> Int]
    OBVIOUS
  <1>3. \A k \in 1..n : x[k] = (c[k] + w[k]) + s[k]
    BY <1>1
  <1> HIDE DEF c, w, s
  <1>4. IsSumOfThree(x, c, w, s, n)
    BY <1>2, <1>3 DEF IsSumOfThree
  <1>5. Total(x) = Total(c) + Total(w) + Total(s)
    BY <1>4, TotalOfThreeSums
  <1> QED
    BY <1>5 DEF c, w, s

LEMMA TotalOfThree == ASSUME NEW x \in [1..3 -> Int] PROVE Total(x) = x[1] + x[2] + x[3]
  <1> DEFINE f == [k \in 0..3 |-> IF k = 0 THEN 0 ELSE IF k = 1 THEN x[1] ELSE IF k = 2 THEN x[1] + x[2]
                                  ELSE x[1] + x[2] + x[3]]
  <1>1. x[1] \in Int /\ x[2] \in Int /\ x[3] \in Int
    OBVIOUS
  <1>2. f[0] = 0 /\ \A k \in 1..3 : f[k] = f[k - 1] + x[k]
    <2>1. f[0] = 0 /\ f[1] = x[1] /\ f[2] = x[1] + x[2] /\ f[3] = x[1] + x[2] + x[3]
      OBVIOUS
    <2>2. \A k \in 1..3 : k = 1 \/ k = 2 \/ k = 3
      OBVIOUS
    <2> HIDE DEF f
    <2> QED
      BY <1>1, <2>1, <2>2
  <1>3. f[3] = x[1] + x[2] + x[3]
    OBVIOUS
  <1> HIDE DEF f
  <1>4. 3 \in Nat
    OBVIOUS
  <1> QED
    BY <1>2, <1>3, <1>4, SumIs

\* An archive whose runs are those that the importer looks for.
IsArchive(a) ==
    /\ IsSequence(a.runs)
    /\ \A j \in DOMAIN a.runs : a.runs[j].regime \in ToSet(Regimes) /\ IsSequence(a.runs[j].samples)
RowsIn(a) == UNION {ToSet(RowsOfRun(a, r)) : r \in ToSet(a.runs)}
MeasuredBy(a) == Total([j \in DOMAIN a.runs |-> Len(Measured(a.runs[j]))])

LEMMA MeasuredAre ==
    ASSUME NEW run, IsSequence(run.samples)
    PROVE  Measured(run) \in Seq(ToSet(run.samples)) /\ Len(Measured(run)) \in Nat
  <1>1. Measured(run) \in Seq(ToSet(run.samples))
    BY SubsequenceElements DEF Measured, IsSequence
  <1> QED
    BY <1>1

LEMMA RowsOfRunAre ==
    ASSUME NEW a, NEW run, IsSequence(run.samples)
    PROVE  /\ RowsOfRun(a, run) \in Seq(ToSet(RowsOfRun(a, run)))
           /\ Len(RowsOfRun(a, run)) = Len(Measured(run))
           /\ \A row \in ToSet(RowsOfRun(a, run)) : row.session = a.name /\ row.regime = run.regime
  <1> DEFINE rs == RowsOfRun(a, run)
             n == Len(Measured(run))
  <1>1. n \in Nat /\ DOMAIN Measured(run) = 1..n
    BY MeasuredAre
  <1>2. DOMAIN rs = 1..n /\ \A k \in 1..n : rs[k].session = a.name /\ rs[k].regime = run.regime
    BY <1>1 DEF RowsOfRun
  <1>3. rs = [k \in 1..n |-> rs[k]]
    BY <1>1 DEF RowsOfRun
  <1> HIDE DEF rs, n
  <1>4. rs \in [1..n -> ToSet(rs)]
    BY <1>2, <1>3 DEF ToSet
  <1>5. rs \in Seq(ToSet(rs)) /\ Len(rs) = n
    BY <1>1, <1>4, FunctionIsSequence
  <1>6. \A row \in ToSet(rs) : row.session = a.name /\ row.regime = run.regime
    BY <1>2 DEF ToSet
  <1> QED
    BY <1>5, <1>6 DEF rs, n

\* The runs of an archive, regime by regime, are all of its runs: they weigh the
\* same.
LEMMA RunsOfWeighs ==
    ASSUME NEW a, IsArchive(a), NEW weight \in [ToSet(a.runs) -> Int]
    PROVE  /\ RunsOf(a) \in Seq(ToSet(a.runs))
           /\ Total(Weights(RunsOf(a), weight)) = Total(Weights(a.runs, weight))
  <1> DEFINE V == ToSet(a.runs)
             n == Len(a.runs)
             regime == [k \in 1..n |-> a.runs[k].regime]
             x == Weights(a.runs, weight)
             Which(r) == {k \in DOMAIN a.runs : a.runs[k].regime = r}
             Part(r) == [k \in 1..n |-> IF regime[k] = r THEN x[k] ELSE 0]
  <1>1. a.runs \in Seq(V) /\ n \in Nat /\ DOMAIN a.runs = 1..n /\ weight \in [V -> Int]
    BY DEF IsArchive, IsSequence
  <1>2. x \in [1..n -> Int] /\ \A k \in 1..n : x[k] = weight[a.runs[k]]
    BY <1>1, WeightsAre
  <1>3. regime \in [1..n -> ToSet(Regimes)]
    BY <1>1 DEF IsArchive
  <1> HIDE DEF V, x
  <1>4. ASSUME NEW r
        PROVE  RunsIn(a, r) \in Seq(V) /\ Total(Weights(RunsIn(a, r), weight)) = Total(Part(r))
    <2>1. RunsIn(a, r) = Subsequence(a.runs, Which(r))
      BY DEF RunsIn
    <2>2. [k \in 1..n |-> IF k \in Which(r) THEN weight[a.runs[k]] ELSE 0] = Part(r)
      BY <1>1, <1>2
    <2> HIDE DEF Which, Part, regime
    <2>3. /\ Subsequence(a.runs, Which(r)) \in Seq(V)
          /\ Total(Weights(Subsequence(a.runs, Which(r)), weight))
               = Total([k \in 1..n |-> IF k \in Which(r) THEN weight[a.runs[k]] ELSE 0])
      BY <1>1, SubsequenceWeighs
    <2> QED
      BY <2>1, <2>2, <2>3
  <1>5. Total(x) = Total(Part("cold")) + Total(Part("warm")) + Total(Part("steady"))
    <2> HIDE DEF regime
    <2> QED
      BY <1>1, <1>2, <1>3, TotalOfRegimes
  <1> DEFINE two == RunsIn(a, "cold") \o RunsIn(a, "warm")
  <1> HIDE DEF Part, n
  <1>6. two \in Seq(V) /\ Total(Weights(two, weight)) = Total(Part("cold")) + Total(Part("warm"))
    <2>1. two \in Seq(V)
      BY <1>4, Concatenated
    <2> QED
      BY <2>1, <1>1, <1>4, WeightsOfBoth
  <1>7. RunsOf(a) = two \o RunsIn(a, "steady")
    BY DEF RunsOf
  <1> HIDE DEF two
  <1>8. two \o RunsIn(a, "steady") \in Seq(V)
    BY <1>4, <1>6, Concatenated
  <1>9. Total(Weights(two \o RunsIn(a, "steady"), weight))
            = Total(Part("cold")) + Total(Part("warm")) + Total(Part("steady"))
    BY <1>1, <1>4, <1>6, WeightsOfBoth
  <1> QED
    BY <1>5, <1>7, <1>8, <1>9 DEF V, x

LEMMA ProfileRowsAre ==
    ASSUME NEW a, IsArchive(a)
    PROVE  /\ ProfileRows(a) \in Seq(RowsIn(a))
           /\ Len(ProfileRows(a)) = MeasuredBy(a)
           /\ \A row \in RowsIn(a) : row.session = a.name /\ row.regime \in ToSet(Regimes)
  <1> DEFINE V == ToSet(a.runs)
             runs == RunsOf(a)
             weight == [r \in V |-> Len(Measured(r))]
             seqs == [k \in 1..Len(runs) |-> RowsOfRun(a, runs[k])]
             m == Len(runs)
  <1>1. /\ a.runs \in Seq(V) /\ Len(a.runs) \in Nat /\ DOMAIN a.runs = 1..Len(a.runs)
        /\ \A k \in 1..Len(a.runs) : a.runs[k] \in V
    BY DEF IsArchive, IsSequence, ToSet
  <1>2. ASSUME NEW r \in V
        PROVE  /\ IsSequence(r.samples) /\ r.regime \in ToSet(Regimes)
               /\ Len(Measured(r)) \in Int /\ ToSet(RowsOfRun(a, r)) \subseteq RowsIn(a)
               /\ RowsOfRun(a, r) \in Seq(RowsIn(a)) /\ Len(RowsOfRun(a, r)) = Len(Measured(r))
    <2>1. IsSequence(r.samples) /\ r.regime \in ToSet(Regimes)
      BY DEF ToSet, IsArchive
    <2>2. Len(Measured(r)) \in Int
      BY <2>1, MeasuredAre
    <2>3. ToSet(RowsOfRun(a, r)) \subseteq RowsIn(a)
      BY DEF RowsIn
    <2>4. RowsOfRun(a, r) \in Seq(ToSet(RowsOfRun(a, r))) /\ Len(RowsOfRun(a, r)) = Len(Measured(r))
      BY <2>1, RowsOfRunAre
    <2>5. RowsOfRun(a, r) \in Seq(RowsIn(a))
      BY <2>3, <2>4
    <2> QED
      BY <2>1, <2>2, <2>3, <2>4, <2>5
  <1>3. weight \in [V -> Int] /\ \A r \in V : weight[r] = Len(Measured(r))
    BY <1>2
  <1> HIDE DEF V, weight
  <1>4. runs \in Seq(V) /\ Total(Weights(runs, weight)) = Total(Weights(a.runs, weight))
    BY <1>3, RunsOfWeighs DEF V
  <1>5. m \in Nat /\ DOMAIN runs = 1..m /\ \A k \in 1..m : runs[k] \in V
    BY <1>4
  <1> HIDE DEF runs, m
  <1>6. seqs \in [1..m -> Seq(RowsIn(a))] /\ \A k \in 1..m : Len(seqs[k]) = weight[runs[k]]
    BY <1>2, <1>3, <1>5 DEF m
  <1>7. ProfileRows(a) = FlattenSeq(seqs)
    BY <1>5 DEF ProfileRows, runs, m
  <1> HIDE DEF seqs
  <1>8. seqs \in Seq(Seq(RowsIn(a))) /\ Len(seqs) = m
    BY <1>5, <1>6, FunctionIsSequence
  <1>9. /\ FlattenSeq(seqs) \in Seq(RowsIn(a))
        /\ Len(FlattenSeq(seqs)) = Total([k \in 1..m |-> Len(seqs[k])])
    <2>1. FlattenSeq(seqs) \in Seq(RowsIn(a))
      BY <1>8, JoinElements
    <2>2. Len(FlattenSeq(seqs)) = Total([k \in 1..Len(seqs) |-> Len(seqs[k])])
      BY <1>8, JoinLength
    <2> QED
      BY <2>1, <2>2, <1>8
  <1>10. [k \in 1..m |-> Len(seqs[k])] = Weights(runs, weight)
    BY <1>6 DEF Weights, m
  <1>11. Weights(a.runs, weight) = [j \in DOMAIN a.runs |-> Len(Measured(a.runs[j]))]
    BY <1>1, <1>3 DEF Weights
  <1>12. \A row \in RowsIn(a) : row.session = a.name /\ row.regime \in ToSet(Regimes)
    <2>1. ASSUME NEW row \in RowsIn(a) PROVE row.session = a.name /\ row.regime \in ToSet(Regimes)
      <3>1. PICK r \in V : row \in ToSet(RowsOfRun(a, r))
        BY DEF RowsIn, V
      <3>2. IsSequence(r.samples) /\ r.regime \in ToSet(Regimes)
        BY <1>2
      <3> QED
        BY <3>1, <3>2, RowsOfRunAre
    <2> QED
      BY <2>1
  <1> QED
    BY <1>4, <1>7, <1>9, <1>10, <1>11, <1>12 DEF MeasuredBy

\* Of the files an import writes the report is the last, and what the report
\* refers to comes before it.
ReportIsLast(rest, referred) ==
    /\ rest \in Seq(Files) /\ Len(rest) > 0
    /\ rest[Len(rest)] = Report /\ \A k \in 1..(Len(rest) - 1) : rest[k] # Report
    /\ \A f \in referred : files[f] = import \/ \E k \in 1..(Len(rest) - 1) : rest[k] = f

\* What the session of an archive is.
SessionOf(a) == [session |-> a.name, boot |-> a.boot, provenance |-> Provenance(a), power |-> SessionPower(a)]
Loaded == 1..(index - 1)

\* What has been loaded are the archives before index, each of a boot of its
\* own and all of the first one's provenance.
Comparable ==
    /\ archives \in Collections
    /\ index \in 1..(Len(archives) + 1)
    /\ sessions \in Seq({SessionOf(archives[k]) : k \in Loaded}) /\ Len(sessions) = index - 1
    /\ \A k \in Loaded : /\ sessions[k] = SessionOf(archives[k])
                         /\ Provenance(archives[k]) = baseline
                         /\ archives[k].status = 0 /\ archives[k].clock.status = "verified-xsa-rate"
    /\ index = 1 => baseline = None
    /\ bootIds = {archives[k].boot : k \in Loaded}
    /\ \A j, k \in Loaded : archives[j].boot = archives[k].boot => j = k

ImportInv ==
    /\ import \in Nat /\ files \in [Files -> 0..import] /\ report \subseteq Files
    /\ importPc \in {"idle", "load", "write", "done", "raised", "aborted"}
    /\ importPc \in {"load", "raised"} => \A f \in Files : files[f] < import
    /\ importPc = "write" => ReportIsLast(pending, Refers)
    /\ importPc \in {"load", "write", "done"} => Comparable
    /\ importPc \in {"write", "done"} => index = Len(archives) + 1
    /\ ReportIsWhole

\* The report is the last of the files, and those it refers to are among the
\* others.
LEMMA OutputFiles ==
    /\ Report \in Files /\ Refers \subseteq Files
    /\ Outputs \in Seq(Files) /\ Len(Outputs) > 0
    /\ Outputs[Len(Outputs)] = Report /\ \A k \in 1..(Len(Outputs) - 1) : Outputs[k] # Report
    /\ \A f \in Refers : \E k \in 1..(Len(Outputs) - 1) : Outputs[k] = f
  <1> DEFINE Names == {"latency-distribution.svg", "phase-breakdown.svg", "throughput-comparison.svg",
                       "session-variability.svg", "performance-raw.csv", "performance-summary.json",
                       "performance-summary.csv"}
             power == IF HasPower THEN <<PowerTable>> ELSE <<>>
             head == Tables \o power
             parts == head \o Figures
             Others == Files \ {Report}
  <1>1. /\ Figures \in Seq(Names) /\ Len(Figures) = 4 /\ DOMAIN Figures = 1..4
        /\ Tables \in Seq(Names) /\ Len(Tables) = 3 /\ Tables[2] = "performance-summary.json"
    BY DEF Figures, Tables
  <1> HIDE DEF Names
  <1>2. /\ \A k \in 1..3 : Tables[k] \in Names
        /\ \A k \in 1..4 : Figures[k] \in Names
    BY <1>1, ElementOf
  <1>3. PowerTable \in Others /\ Report \in Files /\ Report \notin Names
    BY DEF Files, PowerTable, Report, Names
  <1>4. /\ \A k \in 1..3 : Tables[k] \in Others
        /\ \A k \in 1..4 : Figures[k] \in Others
    <2>1. /\ \A k \in 1..3 : Tables[k] \in ToSet(Tables \o Figures)
          /\ \A k \in 1..4 : Figures[k] \in ToSet(Tables \o Figures)
      BY <1>1, Concatenated
    <2> QED
      BY <2>1, <1>2, <1>3 DEF Files
  <1>5. power \in Seq(Others) /\ Len(power) \in 0..1 /\ (HasPower => Len(power) = 1 /\ power[1] = PowerTable)
    <2> HIDE DEF Others
    <2>1. CASE HasPower
      BY <2>1, <1>3
    <2>2. CASE ~HasPower
      BY <2>2
    <2> QED
      BY <2>1, <2>2
  <1>6. Outputs = parts \o <<Report>>
    <2>1. Outputs = Tables \o power \o Figures \o <<Report>>
      BY DEF Outputs
    <2> HIDE DEF power
    <2> QED
      BY <2>1
  <1> HIDE DEF power, Others
  <1>7. Tables \in Seq(Others) /\ Figures \in Seq(Others)
    <2>1. /\ \A k \in 1..Len(Tables) : Tables[k] \in Others
          /\ \A k \in 1..Len(Figures) : Figures[k] \in Others
      BY <1>1, <1>4
    <2> QED
      BY <1>1, <2>1, SequenceOf
  <1>8. /\ head \in Seq(Others) /\ Len(head) = 3 + Len(power)
        /\ \A k \in 1..3 : head[k] = Tables[k]
        /\ \A k \in 1..Len(power) : head[3 + k] = power[k]
    <2>1. /\ Tables \o power \in Seq(Others) /\ Len(Tables \o power) = Len(Tables) + Len(power)
          /\ \A k \in 1..Len(Tables) : (Tables \o power)[k] = Tables[k]
          /\ \A k \in 1..Len(power) : (Tables \o power)[Len(Tables) + k] = power[k]
      BY <1>5, <1>7, Concatenated
    <2> QED
      BY <1>1, <2>1
  <1> HIDE DEF head
  <1>9. /\ parts \in Seq(Others) /\ Len(parts) = Len(head) + 4
        /\ \A k \in 1..Len(head) : parts[k] = head[k]
        /\ \A k \in 1..4 : parts[Len(head) + k] = Figures[k]
    <2>1. /\ head \o Figures \in Seq(Others) /\ Len(head \o Figures) = Len(head) + Len(Figures)
          /\ \A k \in 1..Len(head) : (head \o Figures)[k] = head[k]
          /\ \A k \in 1..Len(Figures) : (head \o Figures)[Len(head) + k] = Figures[k]
      <3>1. head \in Seq(Others) /\ Figures \in Seq(Others)
        BY <1>7, <1>8
      <3> QED
        BY <3>1, Concatenated
    <2> QED
      BY <1>1, <2>1
  <1> HIDE DEF parts
  <1>10. ASSUME NEW f \in Refers
         PROVE  f \in Others /\ \E k \in 1..Len(parts) : parts[k] = f
    <2>1. \/ \E k \in 1..4 : f = Figures[k]
          \/ HasPower /\ f = PowerTable
          \/ f = Tables[2]
      BY <1>1, <1>10 DEF Refers, ToSet
    <2>2. CASE \E k \in 1..4 : f = Figures[k]
      <3>1. PICK k \in 1..4 : f = Figures[k]
        BY <2>2
      <3>2. Len(head) + k \in 1..Len(parts)
        BY <1>5, <1>8, <1>9
      <3> QED
        BY <3>1, <3>2, <1>4, <1>9
    <2>3. CASE HasPower /\ f = PowerTable
      <3>1. Len(power) = 1 /\ power[1] = PowerTable
        BY <2>3, <1>5
      <3>2. head[3 + 1] = PowerTable /\ Len(head) = 4
        BY <3>1, <1>8
      <3>3. 4 \in 1..Len(parts) /\ parts[4] = head[3 + 1]
        BY <3>2, <1>9
      <3> QED
        BY <3>2, <3>3, <2>3, <1>3
    <2>4. CASE f = Tables[2]
      <3>1. 2 \in 1..Len(parts) /\ parts[2] = head[2] /\ head[2] = Tables[2]
        BY <1>5, <1>8, <1>9
      <3> QED
        BY <3>1, <2>4, <1>4
    <2> QED
      BY <2>1, <2>2, <2>3, <2>4
  <1>11. /\ Outputs \in Seq(Files) /\ Len(Outputs) = Len(parts) + 1 /\ Outputs[Len(Outputs)] = Report
         /\ \A k \in 1..Len(parts) : Outputs[k] = parts[k]
    <2>1. parts \in Seq(Files) /\ <<Report>> \in Seq(Files) /\ Len(<<Report>>) = 1 /\ <<Report>>[1] = Report
      BY <1>3, <1>9 DEF Others
    <2>2. Len(parts) + 1 = Len(Outputs)
      BY <1>6, <2>1, Concatenated
    <2> QED
      BY <1>6, <2>1, <2>2, Concatenated
  <1>12. \A k \in 1..Len(parts) : parts[k] \in Others
    BY <1>9
  <1>13. Len(parts) \in Nat
    BY <1>9
  <1> QED
    BY <1>3, <1>10, <1>11, <1>12, <1>13 DEF Others

LEMMA SessionFields == \A a : SessionOf(a).boot = a.boot /\ SessionOf(a).provenance = Provenance(a)
  BY DEF SessionOf

LEMMA ImportInitially == Init => ImportInv
  BY OutputFiles DEF Init, ImportInv, ReportIsWhole

\* Steps that load nothing keep what was loaded.
LEMMA ComparableStays ==
    ASSUME Comparable, UNCHANGED <<archives, loopVars>>
    PROVE  Comparable'
  <1>1. ASSUME NEW a PROVE SessionOf(a)' = SessionOf(a)
    BY DEF SessionOf
  <1> QED
    BY <1>1 DEF Comparable, Loaded, loopVars

LEMMA StartStep == ASSUME ImportInv, Start PROVE ImportInv'
  <1>1. /\ import' = import + 1 /\ import \in Nat /\ UNCHANGED <<files, report, pending>>
        /\ importPc' \in {"load", "raised"} /\ archives' \in Collections
        /\ index' = 1 /\ sessions' = <<>> /\ baseline' = None /\ bootIds' = {}
        /\ files \in [Files -> 0..import] /\ report \subseteq Files
    BY DEF Start, outputVars, ImportInv
  <1>2. Comparable'
    <2>1. Len(archives') \in Nat
      BY <1>1, CollectionsAssumption
    <2>2. Loaded' = {}
      BY <1>1 DEF Loaded
    <2> QED
      BY <1>1, <2>1, <2>2 DEF Comparable
  <1>3. /\ files' \in [Files -> 0..import'] /\ \A f \in Files : files'[f] < import'
    BY <1>1
  <1>4. \A f \in report' : files'[f] >= files'[Report]
    BY <1>1 DEF ImportInv, ReportIsWhole
  <1> QED
    BY <1>1, <1>2, <1>3, <1>4 DEF ImportInv, ReportIsWhole

\* An archive that is accepted is of a new boot and of the first one's build.
LEMMA LoadStep == ASSUME ImportInv, Load PROVE ImportInv'
  <1> DEFINE a == archives[index]
  <1>1. /\ UNCHANGED <<import, archives, files, report, pending>> /\ importPc = "load"
        /\ index <= Len(archives) /\ Comparable
    BY DEF Load, outputVars, ImportInv
  <1>2. CASE importPc' = "raised"
    BY <1>1, <1>2 DEF ImportInv, ReportIsWhole
  <1>3. CASE /\ Acceptable(a) /\ importPc' = "load" /\ index' = index + 1
             /\ bootIds' = bootIds \cup {a.boot} /\ baseline' = Baseline(a)
             /\ sessions' = Append(sessions, SessionOf(a))
    <2>1. Comparable'
      <3>1. /\ index \in Nat \ {0} /\ Len(archives) \in Nat /\ index' \in 1..(Len(archives') + 1)
            /\ archives \in Collections /\ index \in 1..Len(archives)
        BY <1>1, <1>3, CollectionsAssumption DEF Comparable
      <3>2. Loaded' = Loaded \cup {index} /\ index \notin Loaded
        BY <1>3, <3>1 DEF Loaded
      <3>3. Provenance(a) = baseline' /\ baseline' # None /\ (baseline # None => baseline' = baseline)
        <4>1. Provenance(a) = Baseline(a)
          BY <1>3 DEF Acceptable, SameBuild
        <4>2. Provenance(a) # None
          BY <3>1, CollectionsAssumption
        <4> QED
          BY <1>3, <4>1, <4>2 DEF Baseline
      <3>4. \A k \in Loaded : baseline # None
        <4>1. \A k \in Loaded : k \in 1..Len(archives)
          BY <3>1 DEF Loaded
        <4> QED
          BY <1>1, <4>1, <3>1, CollectionsAssumption DEF Comparable
      <3>5. a.status = 0 /\ a.clock.status = "verified-xsa-rate" /\ a.boot \notin bootIds
        BY <1>3 DEF Acceptable, ProvenanceHolds, ClockHolds, FreshBoot
      <3>6. ASSUME NEW b PROVE SessionOf(b)' = SessionOf(b)
        BY DEF SessionOf
      <3>7. /\ sessions' \in Seq({SessionOf(archives[k]) : k \in Loaded'}) /\ Len(sessions') = index' - 1
            /\ \A k \in Loaded' : sessions'[k] = SessionOf(archives[k])
        <4> DEFINE S == {SessionOf(archives[k]) : k \in Loaded}
                   T == {SessionOf(archives[k]) : k \in Loaded'}
        <4>1. S \subseteq T /\ SessionOf(a) \in T
          BY <3>2
        <4>2. sessions \in Seq(S) /\ Len(sessions) = index - 1 /\ \A k \in Loaded : sessions[k] = SessionOf(archives[k])
          BY <1>1 DEF Comparable
        <4> HIDE DEF S, T
        <4>3. \A k \in 1..Len(sessions) : sessions[k] \in T
          BY <4>1, <4>2, ElementOf
        <4>4. sessions \in Seq(T)
          BY <4>2, <4>3, SequenceOf
        <4>5. /\ sessions' \in Seq(T) /\ Len(sessions') = Len(sessions) + 1
              /\ \A k \in 1..Len(sessions) : sessions'[k] = sessions[k]
              /\ sessions'[Len(sessions) + 1] = SessionOf(a)
          BY <1>3, <4>1, <4>4
        <4>6. Len(sessions') = index' - 1 /\ \A k \in Loaded' : sessions'[k] = SessionOf(archives[k])
          BY <1>3, <3>1, <3>2, <4>2, <4>5 DEF Loaded
        <4> QED
          BY <4>5, <4>6 DEF T
      <3>8. \A k \in Loaded' : /\ Provenance(archives[k]) = baseline'
                               /\ archives[k].status = 0 /\ archives[k].clock.status = "verified-xsa-rate"
        BY <1>1, <3>2, <3>3, <3>4, <3>5 DEF Comparable
      <3>9. bootIds' = {archives[k].boot : k \in Loaded'}
        BY <1>1, <1>3, <3>2 DEF Comparable
      <3>10. \A j, k \in Loaded' : archives[j].boot = archives[k].boot => j = k
        BY <1>1, <3>2, <3>5 DEF Comparable
      <3>11. index' # 1
        BY <1>3, <3>1
      <3> QED
        BY <1>1, <3>1, <3>6, <3>7, <3>8, <3>9, <3>10, <3>11 DEF Comparable
    <2> QED
      BY <1>1, <1>3, <2>1 DEF ImportInv, ReportIsWhole
  <1> QED
    BY <1>2, <1>3 DEF Load, SessionOf

LEMMA SummarizeStep == ASSUME ImportInv, Summarize PROVE ImportInv'
  <1>1. /\ UNCHANGED <<import, archives, loopVars, files, report>> /\ importPc = "load"
        /\ index > Len(archives) /\ Comparable
        /\ importPc' \in {"raised", "write"} /\ (importPc' = "write" => pending' = Outputs)
    BY DEF Summarize, ImportInv
  <1>2. Comparable' /\ index = Len(archives) + 1
    <2>1. Len(archives) \in Nat /\ index \in 1..(Len(archives) + 1)
      BY <1>1, CollectionsAssumption DEF Comparable
    <2> QED
      BY <1>1, <2>1, ComparableStays
  <1>3. Refers' = Refers
    BY <1>1 DEF Refers, HasPower, loopVars
  <1>4. importPc' = "write" => ReportIsLast(pending, Refers)'
    BY <1>1, <1>3, OutputFiles DEF ReportIsLast
  <1> QED
    BY <1>1, <1>2, <1>4 DEF ImportInv, ReportIsWhole, loopVars

\* The report is written when every file it refers to is this import's.
LEMMA WriteStep == ASSUME ImportInv, Write PROVE ImportInv'
  <1> DEFINE f0 == Head(pending)
  <1>1. /\ UNCHANGED <<import, archives, loopVars>> /\ importPc = "write" /\ Comparable
        /\ files' = [files EXCEPT ![f0] = import] /\ pending' = Tail(pending)
        /\ report' = (IF f0 = Report THEN Refers ELSE report)
        /\ importPc' = (IF Tail(pending) = <<>> THEN "done" ELSE "write")
        /\ ReportIsLast(pending, Refers) /\ index = Len(archives) + 1
        /\ import \in Nat /\ files \in [Files -> 0..import] /\ report \subseteq Files
        /\ \A f \in report : files[f] >= files[Report]
    BY DEF Write, ImportInv, ReportIsWhole
  <1>2. Comparable' /\ Refers' = Refers
    BY <1>1, ComparableStays DEF Refers, HasPower, loopVars
  <1>3. /\ pending \in Seq(Files) /\ Len(pending) \in Nat \ {0} /\ f0 = pending[1] /\ f0 \in Files
        /\ Tail(pending) \in Seq(Files) /\ Len(Tail(pending)) = Len(pending) - 1
        /\ \A k \in 1..(Len(pending) - 1) : Tail(pending)[k] = pending[k + 1]
    BY <1>1 DEF ReportIsLast
  <1>4. files' \in [Files -> 0..import'] /\ \A f \in Files : files'[f] = IF f = f0 THEN import ELSE files[f]
    BY <1>1, <1>3
  <1>5. f0 = Report <=> Len(pending) = 1
    BY <1>1, <1>3 DEF ReportIsLast
  <1>6. Tail(pending) = <<>> <=> Len(pending) = 1
    BY <1>3
  <1>7. ASSUME Len(pending) = 1
        PROVE  /\ importPc' = "done" /\ report' = Refers
               /\ \A f \in report' : files'[f] = import
    <2>1. \A f \in Refers : files[f] = import
      BY <1>1, <1>7 DEF ReportIsLast
    <2> QED
      BY <1>1, <1>4, <1>5, <1>6, <1>7, <2>1, OutputFiles
  <1>8. ASSUME Len(pending) # 1
        PROVE  importPc' = "write" /\ report' = report /\ ReportIsLast(pending, Refers)' /\ f0 # Report
    <2>1. importPc' = "write" /\ report' = report /\ f0 # Report
      BY <1>1, <1>5, <1>6, <1>8
    <2>2. /\ Len(pending') > 0 /\ pending'[Len(pending')] = Report
          /\ \A k \in 1..(Len(pending') - 1) : pending'[k] # Report
      BY <1>1, <1>3, <1>8 DEF ReportIsLast
    <2>3. ASSUME NEW f \in Refers, files'[f] # import
          PROVE  \E k \in 1..(Len(pending') - 1) : pending'[k] = f
      <3>1. f \in Files /\ f # f0 /\ files[f] # import
        BY <1>4, <2>3, OutputFiles
      <3>2. PICK k \in 1..(Len(pending) - 1) : pending[k] = f
        BY <1>1, <3>1 DEF ReportIsLast
      <3>3. k # 1 /\ k - 1 \in 1..(Len(pending') - 1) /\ pending'[k - 1] = pending[k]
        BY <1>1, <1>3, <3>1, <3>2
      <3> QED
        BY <3>2, <3>3
    <2> QED
      BY <1>1, <1>2, <1>3, <2>1, <2>2, <2>3 DEF ReportIsLast
  <1>9. \A f \in report' : files'[f] >= files'[Report]
    <2>1. CASE Len(pending) = 1
      BY <2>1, <1>1, <1>4, <1>7, OutputFiles
    <2>2. CASE Len(pending) # 1
      BY <2>2, <1>1, <1>4, <1>8, OutputFiles
    <2> QED
      BY <2>1, <2>2
  <1>10. report' \subseteq Files
    BY <1>1, OutputFiles
  <1>11. index' = Len(archives') + 1 /\ import' = import
    BY <1>1 DEF loopVars
  <1>12. CASE Len(pending) = 1
    BY <1>12, <1>1, <1>2, <1>4, <1>7, <1>9, <1>10, <1>11 DEF ImportInv, ReportIsWhole
  <1>13. CASE Len(pending) # 1
    BY <1>13, <1>1, <1>2, <1>4, <1>8, <1>9, <1>10, <1>11 DEF ImportInv, ReportIsWhole
  <1> QED
    BY <1>12, <1>13

LEMMA ImportStep == ImportInv /\ [Next]_vars => ImportInv'
  <1> SUFFICES ASSUME ImportInv, [Next]_vars PROVE ImportInv'
    OBVIOUS
  <1>1. CASE UNCHANGED vars \/ Abort
    <2>1. /\ UNCHANGED <<import, archives, loopVars, files, report>>
          /\ \/ UNCHANGED <<importPc, pending>>
             \/ importPc' = "aborted"
      BY <1>1 DEF vars, outputVars, Abort
    <2>2. Refers' = Refers
      BY <2>1 DEF Refers, HasPower, loopVars
    <2>3. Comparable => Comparable'
      BY <2>1, ComparableStays
    <2>4. ReportIsLast(pending, Refers) /\ UNCHANGED pending => ReportIsLast(pending, Refers)'
      BY <2>1, <2>2 DEF ReportIsLast
    <2> QED
      BY <2>1, <2>3, <2>4 DEF ImportInv, ReportIsWhole, loopVars
  <1> QED
    BY <1>1, StartStep, LoadStep, SummarizeStep, WriteStep DEF Next

\* What an import is known to be at every step: of one build, on one boot each,
\* with the report written last.
THEOREM ImportInvariant == Spec => []ImportInv
  BY ImportInitially, ImportStep, PTL DEF Spec

\* performance.py 1769-1906: an import that is refused leaves the earlier report
\* and its files as they were, one that ends has written every file its report
\* refers to, and whenever it is killed no report refers to an older file.
THEOREM ReportsAreWhole == Spec => []ReportIsWhole
  <1>1. ImportInv => ReportIsWhole
    BY DEF ImportInv
  <1> QED
    BY <1>1, ImportInvariant, PTL

\* performance.py: every archive an import was given has become a session, no
\* two of one boot, all of one build, and of a benchmark that passed.
THEOREM OneBuildOneBootEach == Spec => []SessionsAreComparable
  <1>1. ASSUME ImportInv, importPc = "done" PROVE SessionsAreComparable
    <2>1. Comparable /\ index = Len(archives) + 1 /\ Len(archives) \in Nat
      BY <1>1, CollectionsAssumption DEF ImportInv, Comparable
    <2>2. Len(sessions) = Len(archives) /\ Loaded = 1..Len(archives) /\ DOMAIN sessions = Loaded
      BY <2>1 DEF Comparable, Loaded
    <2>3. \A k \in Loaded : sessions[k].boot = archives[k].boot /\ sessions[k].provenance = baseline
      <3>1. \A k \in Loaded : sessions[k] = SessionOf(archives[k]) /\ Provenance(archives[k]) = baseline
        BY <2>1 DEF Comparable
      <3> QED
        BY <3>1, SessionFields
    <2>4. \A k \in DOMAIN sessions : sessions[k].provenance = sessions[1].provenance
      <3>1. \A k \in Loaded : 1 \in Loaded
        BY <2>1 DEF Loaded
      <3> QED
        BY <2>2, <2>3, <3>1
    <2>5. \A j, k \in DOMAIN sessions : sessions[j].boot = sessions[k].boot => j = k
      BY <2>1, <2>2, <2>3 DEF Comparable
    <2> QED
      <3>1. \A k \in Loaded : archives[k].status = 0 /\ archives[k].clock.status = "verified-xsa-rate"
        BY <2>1 DEF Comparable
      <3> QED
        BY <2>2, <2>4, <2>5, <3>1 DEF SessionsAreComparable
  <1>2. ImportInv => SessionsAreComparable
    BY <1>1 DEF SessionsAreComparable
  <1> QED
    BY <1>2, ImportInvariant, PTL

\* The rows are those of the archives loaded so far, as many as these have
\* measured, and each archive has its own in them.
LoadedRows == UNION {RowsIn(archives[k]) : k \in Loaded}
RowsAreAll ==
    /\ rows \in Seq(LoadedRows)
    /\ Len(rows) = Total([k \in 1..(index - 1) |-> MeasuredBy(archives[k])])
    /\ {row.session : row \in ToSet(rows)} = {archives[k].name : k \in Loaded}

\* The summary counts the rows, regime by regime.
SummaryCounts ==
    /\ summary.accepted = Len(rows)
    /\ DOMAIN summary.regimes = MeasuredRegimes
    /\ \A regime \in MeasuredRegimes :
        /\ summary.regimes[regime].latency.count = Len(OfRegime(regime))
        /\ summary.regimes[regime].sessions = SessionsOf(OfRegime(regime))

SamplesInv ==
    /\ importPc \in {"load", "write", "done"} => RowsAreAll
    /\ importPc \in {"write", "done"} => SummaryCounts

LEMMA ArchivesAre ==
    ASSUME NEW c \in Collections
    PROVE  Len(c) \in Nat /\ DOMAIN c = 1..Len(c) /\ \A k \in 1..Len(c) : IsArchive(c[k])
  BY CollectionsAssumption DEF IsSequence, IsArchive, IsRun

LEMMA RowsAreAllStay ==
    ASSUME RowsAreAll, UNCHANGED <<archives, index, rows>>
    PROVE  RowsAreAll'
  <1>1. archives' = archives /\ index' = index /\ rows' = rows
    OBVIOUS
  <1>2. Loaded' = Loaded
    BY <1>1 DEF Loaded
  <1>3. LoadedRows' = LoadedRows
    BY <1>1, <1>2 DEF LoadedRows
  <1>4. [k \in 1..(index' - 1) |-> MeasuredBy(archives'[k])] = [k \in 1..(index - 1) |-> MeasuredBy(archives[k])]
    BY <1>1
  <1>5. {archives'[k].name : k \in Loaded'} = {archives[k].name : k \in Loaded}
    BY <1>1, <1>2
  <1> QED
    BY <1>1, <1>3, <1>4, <1>5 DEF RowsAreAll

LEMMA SamplesStay ==
    ASSUME SamplesInv, UNCHANGED <<archives, loopVars, summary>>,
           importPc' \in {"load", "write", "done"} => importPc \in {"load", "write", "done"},
           importPc' \in {"write", "done"} => importPc \in {"write", "done"}
    PROVE  SamplesInv'
  <1>1. UNCHANGED <<archives, index, rows, summary>>
    BY DEF loopVars
  <1>2. RowsAreAll => RowsAreAll'
    BY <1>1, RowsAreAllStay
  <1>3. SummaryCounts => SummaryCounts'
    BY <1>1 DEF SummaryCounts, MeasuredRegimes, OfRegime
  <1> QED
    BY <1>2, <1>3 DEF SamplesInv

LEMMA SamplesInitially == Init => SamplesInv
  BY DEF Init, SamplesInv

LEMMA SamplesStart == ASSUME Start PROVE SamplesInv'
  <1>1. index' = 1 /\ rows' = <<>> /\ importPc' \in {"load", "raised"}
    BY DEF Start
  <1>2. Loaded' = {} /\ rows' \in Seq(LoadedRows') /\ Len(rows') = 0 /\ ToSet(rows') = {}
    BY <1>1 DEF Loaded, ToSet
  <1>3. Total([k \in 1..(index' - 1) |-> MeasuredBy(archives'[k])]) = 0
    <2>1. 1..(index' - 1) = 1..0 /\ 1..0 = {}
      BY <1>1
    <2>2. [k \in 1..(index' - 1) |-> MeasuredBy(archives'[k])] \in [1..0 -> Int]
      BY <2>1
    <2> QED
      BY <2>2, TotalOfNone
  <1> QED
    BY <1>1, <1>2, <1>3 DEF SamplesInv, RowsAreAll

LEMMA SamplesLoad == ASSUME ImportInv, SamplesInv, Load PROVE SamplesInv'
  <1> DEFINE a == archives[index]
             more == ProfileRows(a)
             x == [k \in 1..index |-> MeasuredBy(archives[k])]
  <1>1. /\ UNCHANGED archives /\ importPc = "load" /\ RowsAreAll
        /\ archives \in Collections /\ index \in 1..Len(archives) /\ Len(archives) \in Nat
    <2>1. archives \in Collections /\ index \in 1..(Len(archives) + 1) /\ importPc = "load" /\ index <= Len(archives)
      BY DEF Load, ImportInv, Comparable
    <2>2. Len(archives) \in Nat
      BY <2>1, ArchivesAre
    <2> QED
      BY <2>1, <2>2 DEF Load, SamplesInv
  <1>2. CASE importPc' = "raised"
    BY <1>2 DEF SamplesInv
  <1>3. CASE importPc' = "load" /\ index' = index + 1 /\ rows' = rows \o more /\ more # <<>>
    <2>1. \A k \in 1..index : IsArchive(archives[k])
      BY <1>1, ArchivesAre
    <2>2. /\ more \in Seq(RowsIn(a)) /\ Len(more) = MeasuredBy(a)
          /\ \A row \in RowsIn(a) : row.session = a.name
      BY <1>1, <2>1, ProfileRowsAre
    <2>3. Loaded' = Loaded \cup {index} /\ Loaded = 1..(index - 1)
      BY <1>1, <1>3 DEF Loaded
    <2>4. LoadedRows' = LoadedRows \cup RowsIn(a)
      BY <1>1, <2>3 DEF LoadedRows
    <2>5. rows \in Seq(LoadedRows') /\ more \in Seq(LoadedRows')
      <3>1. rows \in Seq(LoadedRows)
        BY <1>1 DEF RowsAreAll
      <3> HIDE DEF more
      <3> QED
        BY <3>1, <2>2, <2>4
    <2>6. /\ rows \o more \in Seq(LoadedRows') /\ Len(rows \o more) = Len(rows) + Len(more)
          /\ ToSet(rows \o more) = ToSet(rows) \cup ToSet(more)
      <3> HIDE DEF more
      <3> QED
        BY <2>5, Concatenated, ToSetOfBoth
    <2>7. Total(x) = Total([k \in 1..(index - 1) |-> MeasuredBy(archives[k])]) + MeasuredBy(a)
      <3>1. ASSUME NEW k \in 1..index PROVE MeasuredBy(archives[k]) \in Int
        <4>1. Len(ProfileRows(archives[k])) = MeasuredBy(archives[k])
          BY <2>1, ProfileRowsAre
        <4> QED
          BY <4>1
      <3>2. x \in [1..((index - 1) + 1) -> Int] /\ index - 1 \in Nat /\ (index - 1) + 1 = index
        BY <1>1, <3>1
      <3>3. x[index] = MeasuredBy(a)
        BY <1>1
      <3>4. [k \in 1..(index - 1) |-> x[k]] = [k \in 1..(index - 1) |-> MeasuredBy(archives[k])]
        <4>1. \A k \in 1..(index - 1) : x[k] = MeasuredBy(archives[k])
          BY <1>1
        <4> QED
          BY <4>1
      <3> HIDE DEF x, a
      <3>5. Total(x) = Total([k \in 1..(index - 1) |-> x[k]]) + x[(index - 1) + 1]
        BY <3>2, TotalOfOneMore
      <3> QED
        BY <3>2, <3>3, <3>4, <3>5
    <2>8. index' - 1 = index /\ [k \in 1..(index' - 1) |-> MeasuredBy(archives'[k])] = x
      BY <1>1, <1>3
    <2>9. {row.session : row \in ToSet(more)} = {a.name}
      <3>1. \A row \in ToSet(more) : row \in RowsIn(a)
        BY <2>2 DEF ToSet
      <3>2. ToSet(more) # {}
        <4>1. Len(more) \in Nat /\ DOMAIN more = 1..Len(more) /\ (Len(more) = 0 => more = <<>>)
          BY <2>2
        <4>2. 1 \in DOMAIN more
          BY <1>3, <4>1
        <4> QED
          BY <4>2 DEF ToSet
      <3> HIDE DEF more, a
      <3> QED
        BY <3>1, <3>2, <2>2
    <2>10. {row.session : row \in ToSet(rows)} = {archives[k].name : k \in Loaded}
      BY <1>1 DEF RowsAreAll
    <2>11. {row.session : row \in ToSet(rows')} = {archives'[k].name : k \in Loaded'}
      <3> HIDE DEF more
      <3>1. {row.session : row \in ToSet(rows')}
              = {row.session : row \in ToSet(rows)} \cup {row.session : row \in ToSet(more)}
        BY <1>3, <2>6
      <3>2. {archives'[k].name : k \in Loaded'} = {archives[k].name : k \in Loaded} \cup {a.name}
        BY <1>1, <2>3
      <3> QED
        BY <3>1, <3>2, <2>9, <2>10
    <2>12. Len(rows') = Total([k \in 1..(index' - 1) |-> MeasuredBy(archives'[k])])
      <3>1. Len(rows) = Total([k \in 1..(index - 1) |-> MeasuredBy(archives[k])])
        BY <1>1 DEF RowsAreAll
      <3> HIDE DEF more, a, x
      <3> QED
        BY <1>3, <2>2, <2>6, <2>7, <2>8, <3>1
    <2>13. rows' \in Seq(LoadedRows')
      BY <1>3, <2>6
    <2> QED
      BY <1>3, <2>11, <2>12, <2>13 DEF SamplesInv, RowsAreAll
  <1> QED
    BY <1>2, <1>3, <1>1 DEF Load, Acceptable

\* Whatever the bootstrap draws, the summary counts what it was made of.
LEMMA SamplesSummarize == ASSUME SamplesInv, Summarize PROVE SamplesInv'
  <1>1. importPc = "load" /\ UNCHANGED <<archives, loopVars>> /\ RowsAreAll
    BY DEF Summarize, SamplesInv
  <1>2. UNCHANGED <<archives, index, rows>>
    BY <1>1 DEF loopVars
  <1>3. RowsAreAll'
    BY <1>1, <1>2, RowsAreAllStay
  <1>4. /\ MeasuredRegimes' = MeasuredRegimes
        /\ \A regime : OfRegime(regime)' = OfRegime(regime)
    BY <1>2 DEF MeasuredRegimes, OfRegime
  <1>5. CASE importPc' = "raised"
    BY <1>5 DEF SamplesInv
  <1>6. CASE ~PhasesRaise
    <2>1. PICK picks \in [1..Estimates -> [DOMAIN sessions -> DOMAIN sessions]] :
            LET regimes == [regime \in MeasuredRegimes |->
                    LET rs == OfRegime(regime)
                    IN  RegimeSummary(rs, regime, Draws(picks, SessionMedians(rs)))]
            IN  /\ importPc' = "write"
                /\ summary' = [accepted |-> Len(rows), sessionCount |-> Len(sessions), regimes |-> regimes,
                               overhead |-> Overhead, cache |-> CachePenalty, first |-> FirstPenalty,
                               bottleneck |-> Bottleneck(regimes), variability |-> Variability(regimes),
                               power |-> HasPower]
      BY <1>6 DEF Summarize
    <2> DEFINE regimes == [regime \in MeasuredRegimes |->
                    RegimeSummary(OfRegime(regime), regime, Draws(picks, SessionMedians(OfRegime(regime))))]
    <2>2. importPc' = "write" /\ summary'.accepted = Len(rows) /\ summary'.regimes = regimes
      BY <2>1
    <2>3. DOMAIN summary'.regimes = MeasuredRegimes
      BY <2>2
    <2>4. ASSUME NEW regime \in MeasuredRegimes
          PROVE  /\ summary'.regimes[regime].latency.count = Len(OfRegime(regime))
                 /\ summary'.regimes[regime].sessions = SessionsOf(OfRegime(regime))
      <3> DEFINE rs == OfRegime(regime)
      <3>1. summary'.regimes[regime] = RegimeSummary(rs, regime, Draws(picks, SessionMedians(rs)))
        BY <2>2
      <3> HIDE DEF regimes
      <3>2. /\ summary'.regimes[regime].latency = Summary(Latencies(rs))
            /\ summary'.regimes[regime].sessions = SessionsOf(rs)
        BY <3>1 DEF RegimeSummary
      <3>3. Summary(Latencies(rs)).count = Len(Latencies(rs))
        BY DEF Summary
      <3>4. Len(Latencies(rs)) = Len(rs)
        <4>1. rs \in Seq(LoadedRows)
          BY <1>1, SubsequenceElements DEF RowsAreAll, OfRegime
        <4> HIDE DEF rs
        <4> DEFINE ls == Latencies(rs)
        <4>2. Len(rs) \in Nat /\ DOMAIN rs = 1..Len(rs)
          BY <4>1
        <4>3. ls \in [1..Len(rs) -> {ls[k] : k \in 1..Len(rs)}]
          BY <4>2 DEF Latencies
        <4> HIDE DEF ls
        <4>4. Len(ls) = Len(rs)
          BY <4>2, <4>3, FunctionIsSequence
        <4> QED
          BY <4>4 DEF ls
      <3> QED
        BY <3>2, <3>3, <3>4
    <2> HIDE DEF regimes
    <2>5. SummaryCounts'
      BY <1>2, <1>4, <2>2, <2>3, <2>4 DEF SummaryCounts
    <2> QED
      BY <1>3, <2>5 DEF SamplesInv
  <1> QED
    BY <1>5, <1>6 DEF Summarize

LEMMA SamplesStep == ImportInv /\ SamplesInv /\ [Next]_vars => SamplesInv'
  <1> SUFFICES ASSUME ImportInv, SamplesInv, [Next]_vars PROVE SamplesInv'
    OBVIOUS
  <1>1. CASE Start
    BY <1>1, SamplesStart
  <1>2. CASE Load
    BY <1>2, SamplesLoad
  <1>3. CASE Summarize
    BY <1>3, SamplesSummarize
  <1>4. CASE Write
    BY <1>4, SamplesStay DEF Write
  <1>5. CASE Abort
    BY <1>5 DEF Abort, SamplesInv
  <1>6. CASE UNCHANGED vars
    BY <1>6, SamplesStay DEF vars
  <1> QED
    BY <1>1, <1>2, <1>3, <1>4, <1>5, <1>6 DEF Next

\* The rows of a regime, and of which sessions they are.
LEMMA RegimeRows ==
    ASSUME NEW V, rows \in Seq(V), NEW regime
    PROVE  /\ Len(OfRegime(regime)) \in Nat
           /\ Len(OfRegime(regime)) = Total([k \in 1..Len(rows) |-> IF rows[k].regime = regime THEN 1 ELSE 0])
           /\ SessionsOf(OfRegime(regime)) = {rows[k].session : k \in {j \in 1..Len(rows) : rows[j].regime = regime}}
           /\ OfRegime(regime) = <<>> => \A k \in 1..Len(rows) : rows[k].regime # regime
  <1> DEFINE n == Len(rows)
             I == {k \in 1..n : rows[k].regime = regime}
             sub == OfRegime(regime)
  <1>1. n \in Nat /\ DOMAIN rows = 1..n
    OBVIOUS
  <1>2. sub = Subsequence(rows, I) /\ I \in SUBSET (1..n) /\ I \cap 1..n = I
    BY <1>1 DEF OfRegime
  <1>3. sub \in Seq(V) /\ ToSet(sub) = {rows[k] : k \in I}
    <2> HIDE DEF I, sub
    <2>1. Subsequence(rows, I) \in Seq(V) /\ ToSet(Subsequence(rows, I)) = {rows[k] : k \in I \cap 1..n}
      BY SubsequenceElements
    <2> QED
      BY <1>2, <2>1
  <1>4. Len(sub) = Cardinality(I)
    <2> HIDE DEF I, sub
    <2> QED
      BY <1>2, SubsequenceLength
  <1>5. Cardinality(I) = Total([k \in 1..n |-> IF k \in I THEN 1 ELSE 0])
    <2> HIDE DEF I, sub
    <2> QED
      BY <1>1, <1>2, CountIsTotal
  <1>6. [k \in 1..n |-> IF k \in I THEN 1 ELSE 0] = [k \in 1..n |-> IF rows[k].regime = regime THEN 1 ELSE 0]
    OBVIOUS
  <1>7. SessionsOf(sub) = {row.session : row \in ToSet(sub)}
    <2> HIDE DEF sub
    <2> QED
      BY DEF SessionsOf, ToSet
  <1>8. SessionsOf(sub) = {rows[k].session : k \in I}
    <2> HIDE DEF I, sub
    <2> QED
      BY <1>3, <1>7
  <1>9. sub = <<>> => I = {}
    <2> HIDE DEF I, sub
    <2>1. ToSet(<<>>) = {}
      BY DEF ToSet
    <2> QED
      BY <1>3, <2>1
  <1>10. Len(sub) \in Nat
    BY <1>3
  <1> QED
    BY <1>4, <1>5, <1>6, <1>8, <1>9, <1>10

\* Counted regime by regime, the rows are all that was measured.
LEMMA NothingIsLost == ImportInv /\ SamplesInv => NoSampleLost
  <1> SUFFICES ASSUME ImportInv, SamplesInv, importPc = "done" PROVE NoSampleLost
    BY DEF NoSampleLost
  <1> DEFINE n == Len(rows)
             regime == [k \in 1..n |-> rows[k].regime]
             ones == [k \in 1..n |-> 1]
             Part(r) == [k \in 1..n |-> IF regime[k] = r THEN ones[k] ELSE 0]
             measured == Total([k \in DOMAIN archives |->
                            Total([j \in DOMAIN archives[k].runs |-> Len(Measured(archives[k].runs[j]))])])
  <1>1. /\ RowsAreAll /\ SummaryCounts /\ archives \in Collections /\ index = Len(archives) + 1
    BY DEF SamplesInv, ImportInv, Comparable
  <1>2. /\ Len(archives) \in Nat /\ DOMAIN archives = 1..Len(archives)
        /\ \A k \in 1..Len(archives) : IsArchive(archives[k])
    BY <1>1, ArchivesAre
  <1>3. Loaded = 1..Len(archives) /\ index - 1 = Len(archives)
    BY <1>1, <1>2 DEF Loaded
  <1>4. rows \in Seq(LoadedRows) /\ n \in Nat
    BY <1>1 DEF RowsAreAll
  <1>5. n = measured
    <2>1. n = Total([k \in 1..(index - 1) |-> MeasuredBy(archives[k])])
      BY <1>1 DEF RowsAreAll
    <2>2. [k \in 1..(index - 1) |-> MeasuredBy(archives[k])]
            = [k \in DOMAIN archives |->
                 Total([j \in DOMAIN archives[k].runs |-> Len(Measured(archives[k].runs[j]))])]
      BY <1>2, <1>3 DEF MeasuredBy
    <2> HIDE DEF n
    <2> QED
      BY <2>1, <2>2
  <1>6. \A k \in 1..n : rows[k].regime \in ToSet(Regimes)
    <2>1. ASSUME NEW row \in LoadedRows PROVE row.regime \in ToSet(Regimes)
      <3>1. PICK k \in Loaded : row \in RowsIn(archives[k])
        BY DEF LoadedRows
      <3>2. IsArchive(archives[k])
        BY <1>2, <1>3
      <3> QED
        BY <3>1, <3>2, ProfileRowsAre
    <2>2. \A k \in 1..n : rows[k] \in LoadedRows
      BY <1>4, ElementOf
    <2> QED
      BY <2>1, <2>2
  <1>7. ASSUME NEW r \in ToSet(Regimes) PROVE CountOfRegime(r) = Total(Part(r))
    <2>1. Len(OfRegime(r)) = Total([k \in 1..n |-> IF rows[k].regime = r THEN 1 ELSE 0])
      BY <1>4, RegimeRows
    <2>2. Part(r) = [k \in 1..n |-> IF rows[k].regime = r THEN 1 ELSE 0]
      OBVIOUS
    <2> HIDE DEF Part, n
    <2>3. CASE OfRegime(r) = <<>>
      <3>1. r \notin DOMAIN summary.regimes
        BY <1>1, <2>3 DEF SummaryCounts, MeasuredRegimes
      <3>2. Len(OfRegime(r)) = 0
        BY <2>3
      <3> QED
        BY <2>1, <2>2, <3>1, <3>2 DEF CountOfRegime
    <2>4. CASE OfRegime(r) # <<>>
      <3>1. r \in MeasuredRegimes
        BY <2>4 DEF MeasuredRegimes
      <3>2. r \in DOMAIN summary.regimes /\ summary.regimes[r].latency.count = Len(OfRegime(r))
        BY <1>1, <3>1 DEF SummaryCounts
      <3> QED
        BY <2>1, <2>2, <3>2 DEF CountOfRegime
    <2> QED
      BY <2>3, <2>4
  <1>8. Total(Part("cold")) + Total(Part("warm")) + Total(Part("steady")) = n
    <2>1. /\ regime \in [1..n -> ToSet(Regimes)] /\ ones \in [1..n -> Int]
          /\ \A k \in 1..n : ones[k] = 1
      BY <1>6
    <2> HIDE DEF regime, ones, n
    <2>2. Total(ones) = Total(Part("cold")) + Total(Part("warm")) + Total(Part("steady"))
      BY <1>4, <2>1, TotalOfRegimes
    <2>3. Total(ones) = n * 1 /\ n * 1 = n
      BY <1>4, <2>1, TotalOfConstant
    <2> QED
      BY <2>2, <2>3
  <1> HIDE DEF Part
  <1>9. Total([k \in DOMAIN Regimes |-> CountOfRegime(Regimes[k])]) = n
    <2> DEFINE c == [k \in DOMAIN Regimes |-> CountOfRegime(Regimes[k])]
    <2>1. DOMAIN Regimes = 1..3 /\ Regimes[1] = "cold" /\ Regimes[2] = "warm" /\ Regimes[3] = "steady"
      BY DEF Regimes
    <2>2. \A k \in 1..3 : Regimes[k] \in ToSet(Regimes) /\ c[k] = CountOfRegime(Regimes[k])
      BY <2>1 DEF ToSet
    <2>3. \A r : Total(Part(r)) \in Int
      <3>1. \A r : Part(r) \in [1..n -> Int]
        BY DEF Part
      <3> HIDE DEF n
      <3> QED
        BY <3>1, <1>4, TotalIsInteger
    <2>4. /\ \A k \in 1..3 : c[k] = Total(Part(Regimes[k])) /\ c[k] \in Int
      BY <1>7, <2>2, <2>3
    <2>5. c \in [1..3 -> Int]
      BY <2>1, <2>4
    <2> HIDE DEF c, n
    <2>6. Total(c) = c[1] + c[2] + c[3]
      BY <2>5, TotalOfThree
    <2>7. c[1] = Total(Part("cold")) /\ c[2] = Total(Part("warm")) /\ c[3] = Total(Part("steady"))
      BY <2>1, <2>4
    <2> QED
      BY <1>8, <2>6, <2>7 DEF c
  <1>10. UNION {summary.regimes[r].sessions : r \in DOMAIN summary.regimes} = {archives[k].name : k \in DOMAIN archives}
    <2>1. {archives[k].name : k \in DOMAIN archives} = {row.session : row \in ToSet(rows)}
      BY <1>1, <1>2, <1>3 DEF RowsAreAll
    <2>2. DOMAIN summary.regimes = MeasuredRegimes
      BY <1>1 DEF SummaryCounts
    <2>3. ASSUME NEW r \in MeasuredRegimes
          PROVE  summary.regimes[r].sessions = {rows[k].session : k \in {j \in 1..n : rows[j].regime = r}}
      <3>1. summary.regimes[r].sessions = SessionsOf(OfRegime(r))
        BY <1>1 DEF SummaryCounts
      <3> QED
        BY <3>1, <1>4, RegimeRows
    <2>4. \A k \in 1..n : rows[k].regime \in MeasuredRegimes
      <3>1. ASSUME NEW k \in 1..n PROVE OfRegime(rows[k].regime) # <<>>
        BY <1>4, RegimeRows
      <3> QED
        BY <3>1, <1>6 DEF MeasuredRegimes
    <2>5. DOMAIN rows = 1..n
      BY <1>4
    <2>6. {row.session : row \in ToSet(rows)} = {rows[k].session : k \in 1..n}
      BY <2>5 DEF ToSet
    <2> HIDE DEF n
    <2> QED
      BY <2>1, <2>2, <2>3, <2>4, <2>6
  <1>11. summary.accepted = n
    BY <1>1 DEF SummaryCounts
  <1> HIDE DEF n, measured
  <1> QED
    BY <1>5, <1>9, <1>10, <1>11 DEF NoSampleLost, measured

\* No sample is discarded: whatever archives an import is given, in however
\* many regimes, what it summarises are all the samples that were measured.
THEOREM SamplesAreKept == Spec => []NoSampleLost
  <1>1. Init => SamplesInv
    BY SamplesInitially
  <1>2. ImportInv /\ SamplesInv /\ [Next]_vars => SamplesInv'
    BY SamplesStep
  <1>3. Spec => []ImportInv
    BY ImportInvariant
  <1>4. ImportInv /\ SamplesInv => NoSampleLost
    BY NothingIsLost
  <1> QED
    BY <1>1, <1>2, <1>3, <1>4, PTL DEF Spec

-----------------------------------------------------------------------------
(* Order statistics.                                                         *)

\* Of the values at some indices one is the greatest.
LEMMA GreatestExists ==
    ASSUME NEW n \in Nat, NEW x \in [1..n -> Int], NEW I \in SUBSET (1..n), I # {}
    PROVE  \E j \in I : \A k \in I : x[k] <= x[j]
  <1> DEFINE First(m) == I \cap 1..m
             S == {m \in 0..n : First(m) # {} => \E j \in First(m) : \A k \in First(m) : x[k] <= x[j]}
  <1>1. 0 \in S
    OBVIOUS
  <1>2. ASSUME NEW m \in 0..(n - 1), m \in S PROVE m + 1 \in S
    <2>1. m + 1 \in 1..n /\ m + 1 \in 0..n
      OBVIOUS
    <2>2. CASE m + 1 \notin I
      <3>1. First(m + 1) = First(m)
        BY <2>2
      <3> HIDE DEF First
      <3> QED
        BY <1>2, <2>1, <3>1
    <2>3. CASE m + 1 \in I
      <3>1. First(m + 1) = First(m) \cup {m + 1}
        BY <2>1, <2>3
      <3>2. First(m) \subseteq 1..n /\ First(m + 1) \subseteq 1..n
        OBVIOUS
      <3> HIDE DEF First
      <3>3. CASE First(m) = {}
        <4>1. \A k \in First(m + 1) : x[k] <= x[m + 1]
          BY <2>1, <3>1, <3>3
        <4> QED
          BY <2>1, <3>1, <4>1
      <3>4. CASE First(m) # {}
        <4>1. PICK j \in First(m) : \A k \in First(m) : x[k] <= x[j]
          BY <1>2, <3>4
        <4>2. CASE x[j] <= x[m + 1]
          <5>1. \A k \in First(m + 1) : x[k] <= x[m + 1]
            BY <2>1, <3>1, <3>2, <4>1, <4>2
          <5> QED
            BY <2>1, <3>1, <5>1
        <4>3. CASE x[m + 1] <= x[j]
          <5>1. \A k \in First(m + 1) : x[k] <= x[j]
            BY <2>1, <3>1, <3>2, <4>1, <4>3
          <5> QED
            BY <2>1, <3>1, <4>1, <5>1
        <4>4. x[j] \in Int /\ x[m + 1] \in Int
          BY <2>1, <3>2
        <4>5. x[j] <= x[m + 1] \/ x[m + 1] <= x[j]
          BY <4>4
        <4> QED
          BY <4>2, <4>3, <4>5
      <3> QED
        BY <3>3, <3>4
    <2> QED
      BY <2>2, <2>3
  <1>3. n \in S
    <2>1. 0 \in Nat /\ n \in 0..n
      OBVIOUS
    <2> HIDE DEF S
    <2> QED
      BY <1>1, <1>2, <2>1, IntervalInduction
  <1>4. First(n) = I
    OBVIOUS
  <1> HIDE DEF First
  <1> QED
    BY <1>3, <1>4

LEMMA LeastExists ==
    ASSUME NEW n \in Nat, NEW x \in [1..n -> Int], NEW I \in SUBSET (1..n), I # {}
    PROVE  \E j \in I : \A k \in I : x[j] <= x[k]
  <1> DEFINE y == [k \in 1..n |-> -x[k]]
  <1>1. y \in [1..n -> Int]
    OBVIOUS
  <1>2. \E j \in I : \A k \in I : y[k] <= y[j]
    <2> HIDE DEF y
    <2> QED
      BY <1>1, GreatestExists
  <1>3. PICK j \in I : \A k \in I : y[k] <= y[j]
    BY <1>2
  <1>4. ASSUME NEW k \in I PROVE x[j] <= x[k]
    <2>1. j \in 1..n /\ k \in 1..n /\ y[k] <= y[j]
      BY <1>3
    <2> QED
      BY <2>1
  <1> QED
    BY <1>4

\* How many of the values are less than x, and how many no greater.
LEMMA Ranks ==
    ASSUME NEW n \in Nat, NEW values \in [1..n -> Int], NEW x \in Int, NEW y \in Int
    PROVE  /\ Below(values, x) \in 0..n /\ UpTo(values, x) \in 0..n
           /\ Below(values, x) <= UpTo(values, x)
           /\ x <= y => UpTo(values, x) <= UpTo(values, y)
           /\ x < y => UpTo(values, x) <= Below(values, y)
           /\ Below(values, x) = 0 <=> \A k \in 1..n : x <= values[k]
           /\ UpTo(values, x) = n <=> \A k \in 1..n : values[k] <= x
  <1> DEFINE L(z) == {j \in DOMAIN values : values[j] < z}
             U(z) == {j \in DOMAIN values : values[j] <= z}
  <1>1. IsFiniteSet(1..n) /\ Cardinality(1..n) = n
    BY FiniteInterval
  <1>2. \A z \in Int : L(z) \in SUBSET (1..n) /\ U(z) \in SUBSET (1..n) /\ L(z) \in SUBSET U(z)
    OBVIOUS
  <1>3. (x <= y => U(x) \in SUBSET U(y)) /\ (x < y => U(x) \in SUBSET L(y))
    OBVIOUS
  <1>4. (L(x) = {} <=> \A k \in 1..n : x <= values[k]) /\ (U(x) = 1..n <=> \A k \in 1..n : values[k] <= x)
    OBVIOUS
  <1>5. \A z \in Int : Below(values, z) = Cardinality(L(z)) /\ UpTo(values, z) = Cardinality(U(z))
    BY DEF Below, UpTo
  <1> HIDE DEF L, U
  <1>6. \A z \in Int : /\ IsFiniteSet(L(z)) /\ IsFiniteSet(U(z))
                       /\ Cardinality(L(z)) <= n /\ Cardinality(U(z)) <= n
                       /\ Cardinality(L(z)) \in Nat /\ Cardinality(U(z)) \in Nat
    BY <1>1, <1>2, FiniteSubset, FiniteCardinality
  <1>7. Cardinality(L(x)) <= Cardinality(U(x))
    BY <1>2, <1>6, FiniteSubset
  <1>8. x <= y => Cardinality(U(x)) <= Cardinality(U(y))
    BY <1>3, <1>6, FiniteSubset
  <1>9. x < y => Cardinality(U(x)) <= Cardinality(L(y))
    BY <1>3, <1>6, FiniteSubset
  <1>10. Cardinality(L(x)) = 0 <=> L(x) = {}
    BY <1>6, FiniteEmptySet
  <1>11. Cardinality(U(x)) = n <=> U(x) = 1..n
    BY <1>1, <1>2, FiniteSubset
  <1>12. Below(values, x) \in 0..n /\ UpTo(values, x) \in 0..n /\ Below(values, x) <= UpTo(values, x)
    BY <1>5, <1>6, <1>7
  <1>13. (x <= y => UpTo(values, x) <= UpTo(values, y)) /\ (x < y => UpTo(values, x) <= Below(values, y))
    BY <1>5, <1>8, <1>9
  <1>14. Below(values, x) = 0 <=> \A k \in 1..n : x <= values[k]
    BY <1>4, <1>5, <1>10
  <1>15. UpTo(values, x) = n <=> \A k \in 1..n : values[k] <= x
    BY <1>4, <1>5, <1>11
  <1> QED
    BY <1>12, <1>13, <1>14, <1>15

\* The k-th of the values is one of them, with fewer than k less than it and at
\* least k no greater.
LEMMA OrderedIs ==
    ASSUME NEW n \in Nat, NEW values \in [1..n -> Int], NEW k \in 1..n
    PROVE  /\ Ordered(values)[k] \in {values[j] : j \in 1..n} /\ Ordered(values)[k] \in Int
           /\ Below(values, Ordered(values)[k]) < k /\ k <= UpTo(values, Ordered(values)[k])
  <1> DEFINE I == {j \in 1..n : k <= UpTo(values, values[j])}
  <1>1. Len(values) = n /\ DOMAIN values = 1..n /\ \A j \in 1..n : values[j] \in Int
    BY FunctionIsSequence
  <1>2. I # {}
    <2>1. 1..n \in SUBSET (1..n) /\ 1..n # {}
      OBVIOUS
    <2>2. PICK j \in 1..n : \A i \in 1..n : values[i] <= values[j]
      BY <2>1, GreatestExists
    <2>3. UpTo(values, values[j]) = n
      BY <1>1, <2>2, Ranks
    <2> QED
      BY <2>3
  <1>3. PICK j \in I : \A i \in I : values[j] <= values[i]
    <2>1. I \in SUBSET (1..n)
      OBVIOUS
    <2> HIDE DEF I
    <2> QED
      BY <1>2, <2>1, LeastExists
  <1>4. j \in 1..n /\ k <= UpTo(values, values[j]) /\ values[j] \in Int
    BY <1>1
  <1>5. Below(values, values[j]) < k
    <2> SUFFICES ASSUME k <= Below(values, values[j]) PROVE FALSE
      BY <1>4, Ranks
    <2> DEFINE J == {i \in 1..n : values[i] < values[j]}
    <2>1. J # {}
      <3>1. Below(values, values[j]) # 0
        OBVIOUS
      <3>2. ~ \A i \in 1..n : values[j] <= values[i]
        BY <1>4, <3>1, Ranks
      <3> QED
        BY <1>1, <1>4, <3>2
    <2>2. PICK i \in J : \A h \in J : values[h] <= values[i]
      <3>1. J \in SUBSET (1..n)
        OBVIOUS
      <3> HIDE DEF J
      <3> QED
        BY <2>1, <3>1, GreatestExists
    <2>3. i \in 1..n /\ values[i] < values[j] /\ values[i] \in Int
      BY <1>1
    <2>4. {h \in DOMAIN values : values[h] < values[j]} = {h \in DOMAIN values : values[h] <= values[i]}
      <3>1. \A h \in 1..n : values[h] < values[j] <=> values[h] <= values[i]
        BY <1>1, <1>4, <2>2, <2>3
      <3> QED
        BY <1>1, <3>1
    <2>5. Below(values, values[j]) = UpTo(values, values[i])
      BY <2>4 DEF Below, UpTo
    <2>6. i \in I
      BY <2>3, <2>5
    <2>7. values[j] <= values[i]
      BY <1>3, <2>6
    <2> QED
      BY <1>4, <2>3, <2>7
  <1>6. Ordered(values)[k] = CHOOSE x \in ToSet(values) : Below(values, x) < k /\ k <= UpTo(values, x)
    BY <1>1 DEF Ordered
  <1>7. values[j] \in ToSet(values) /\ ToSet(values) = {values[i] : i \in 1..n}
    BY <1>1, <1>4 DEF ToSet
  <1>8. /\ Ordered(values)[k] \in ToSet(values)
        /\ Below(values, Ordered(values)[k]) < k /\ k <= UpTo(values, Ordered(values)[k])
    BY <1>4, <1>5, <1>6, <1>7
  <1> QED
    BY <1>1, <1>7, <1>8

\* They are in order.
LEMMA OrderedIsMonotone ==
    ASSUME NEW n \in Nat, NEW values \in [1..n -> Int], NEW j \in 1..n, NEW k \in 1..n, j <= k
    PROVE  Ordered(values)[j] <= Ordered(values)[k]
  <1> DEFINE x == Ordered(values)[j]
             y == Ordered(values)[k]
  <1>1. x \in Int /\ Below(values, x) < j /\ j <= UpTo(values, x)
    BY OrderedIs
  <1>2. y \in Int /\ Below(values, y) < k /\ k <= UpTo(values, y)
    BY OrderedIs
  <1> HIDE DEF x, y
  <1>3. y < x => UpTo(values, y) <= Below(values, x)
    BY <1>1, <1>2, Ranks
  <1>4. Below(values, x) \in Int /\ UpTo(values, y) \in Int
    BY <1>1, <1>2, Ranks
  <1>5. x <= y
    BY <1>1, <1>2, <1>3, <1>4
  <1> QED
    BY <1>5 DEF x, y

\* All of the values are between the first and the last of them.
LEMMA LeastAndGreatest ==
    ASSUME NEW n \in Nat \ {0}, NEW values \in [1..n -> Int]
    PROVE  /\ Least(values) \in {values[j] : j \in 1..n} /\ Greatest(values) \in {values[j] : j \in 1..n}
           /\ Least(values) \in Int /\ Greatest(values) \in Int
           /\ \A k \in 1..n : Least(values) <= values[k] /\ values[k] <= Greatest(values)
  <1> DEFINE x == Ordered(values)[1]
             y == Ordered(values)[n]
  <1>1. Len(values) = n /\ Least(values) = x /\ Greatest(values) = y /\ 1 \in 1..n /\ n \in 1..n
    BY FunctionIsSequence DEF Least, Greatest
  <1>2. x \in {values[j] : j \in 1..n} /\ x \in Int /\ Below(values, x) < 1
    BY <1>1, OrderedIs
  <1>3. y \in {values[j] : j \in 1..n} /\ y \in Int /\ n <= UpTo(values, y)
    BY <1>1, OrderedIs
  <1> HIDE DEF x, y
  <1>4. \A k \in 1..n : x <= values[k]
    <2>1. Below(values, x) = 0
      <3>1. Below(values, x) \in 0..n
        BY <1>2, Ranks
      <3> QED
        BY <1>2, <3>1
    <2> QED
      BY <1>2, <2>1, Ranks
  <1>5. \A k \in 1..n : values[k] <= y
    <2>1. UpTo(values, y) = n
      BY <1>3, Ranks
    <2> QED
      BY <1>3, <2>1, Ranks
  <1> QED
    BY <1>1, <1>2, <1>3, <1>4, <1>5

LEMMA MedianIsBetween ==
    ASSUME NEW n \in Nat \ {0}, NEW values \in [1..n -> Int]
    PROVE  /\ Median(values) \in Int
           /\ Scale * Least(values) <= Median(values) /\ Median(values) <= Scale * Greatest(values)
  <1> DEFINE x == Ordered(values)[(n + 1) \div 2]
             y == Ordered(values)[n \div 2 + 1]
             least == Least(values)
             greatest == Greatest(values)
  <1>1. (n + 1) \div 2 \in 1..n /\ n \div 2 + 1 \in 1..n
    OBVIOUS
  <1>2. x \in {values[j] : j \in 1..n} /\ x \in Int /\ y \in {values[j] : j \in 1..n} /\ y \in Int
    <2>1. ASSUME NEW k \in 1..n PROVE Ordered(values)[k] \in {values[j] : j \in 1..n} /\ Ordered(values)[k] \in Int
      BY OrderedIs
    <2> QED
      BY <1>1, <2>1
  <1>3. Median(values) = (x + y) * 500
    <2>1. Len(values) = n
      BY FunctionIsSequence
    <2>2. Median(values) = (x + y) * (Scale \div 2)
      BY <2>1 DEF Median
    <2>3. Scale \div 2 = 500
      BY DEF Scale
    <2> HIDE DEF x, y
    <2> QED
      BY <2>2, <2>3
  <1>4. least \in Int /\ greatest \in Int /\ \A k \in 1..n : least <= values[k] /\ values[k] <= greatest
    BY LeastAndGreatest
  <1> HIDE DEF x, y, least, greatest
  <1>5. least <= x /\ x <= greatest /\ least <= y /\ y <= greatest
    BY <1>2, <1>4
  <1>6. /\ (x + y) * 500 \in Int
        /\ Scale * least <= (x + y) * 500 /\ (x + y) * 500 <= Scale * greatest
    BY <1>2, <1>4, <1>5 DEF Scale
  <1> QED
    BY <1>3, <1>6 DEF least, greatest

-----------------------------------------------------------------------------
(* Quantiles.                                                                *)

\* What is between two values in thousandths of the way is between them.
Blend(x, y, f) == x * (Scale - f) + y * f

LEMMA BlendIs == \A x, y, f \in Int : Blend(x, y, f) = 1000 * x + (y - x) * f
  <1> TAKE x, y, f \in Int
  <1>1. x * (1000 - f) = x * 1000 - x * f
    OBVIOUS
  <1>2. (y - x) * f = y * f - x * f
    OBVIOUS
  <1> QED
    BY <1>1, <1>2 DEF Blend, Scale

LEMMA Blends ==
    \A x, y, f, g \in Int :
        x <= y /\ 0 <= f /\ f <= g /\ g <= 1000 =>
            /\ Blend(x, y, f) \in Int /\ Blend(x, y, g) \in Int
            /\ 1000 * x <= Blend(x, y, f) /\ Blend(x, y, f) <= Blend(x, y, g) /\ Blend(x, y, g) <= 1000 * y
  <1> SUFFICES ASSUME NEW x \in Int, NEW y \in Int, NEW f \in Int, NEW g \in Int, x <= y, 0 <= f, f <= g, g <= 1000
               PROVE  /\ Blend(x, y, f) \in Int /\ Blend(x, y, g) \in Int
                      /\ 1000 * x <= Blend(x, y, f) /\ Blend(x, y, f) <= Blend(x, y, g)
                      /\ Blend(x, y, g) <= 1000 * y
    OBVIOUS
  <1> DEFINE d == y - x
  <1>1. d \in Nat
    OBVIOUS
  <1> HIDE DEF d
  <1>2. 0 <= d * f /\ d * f <= d * g /\ d * g <= d * 1000 /\ d * f \in Int /\ d * g \in Int
    <2>1. ASSUME NEW a \in Nat, NEW b \in Nat, a <= b PROVE d * a <= d * b /\ d * a \in Int
      <3>1. b = a + (b - a) /\ b - a \in Nat
        BY <2>1
      <3>2. d * (a + (b - a)) = d * a + d * (b - a)
        BY <1>1, <3>1
      <3>3. d * (b - a) \in Nat /\ d * a \in Int
        BY <1>1, <3>1
      <3> QED
        BY <3>1, <3>2, <3>3
    <2>2. d * 0 = 0
      BY <1>1
    <2> QED
      BY <2>1, <2>2
  <1>3. Blend(x, y, f) = 1000 * x + d * f /\ Blend(x, y, g) = 1000 * x + d * g
    <2>1. Blend(x, y, f) = 1000 * x + (y - x) * f
      BY BlendIs
    <2>2. Blend(x, y, g) = 1000 * x + (y - x) * g
      BY BlendIs
    <2> QED
      BY <2>1, <2>2 DEF d
  <1>4. d * 1000 = 1000 * y - 1000 * x
    BY DEF d
  <1> QED
    BY <1>2, <1>3, <1>4

\* The values in order, and the value at a place between two of them.
IsOrder(o, n) ==
    /\ n \in Nat \ {0} /\ o \in [1..n -> Int]
    /\ \A j, k \in 1..n : j <= k => o[j] <= o[k]
Positions(n) == 0..((n - 1) * 1000)
LowerOf(place) == place \div Scale
FractionOf(place) == place % Scale
ValueAt(o, place) ==
    LET lower == LowerOf(place)
        fraction == FractionOf(place)
        upper == IF fraction = 0 THEN lower ELSE lower + 1
    IN  Blend(o[lower + 1], o[upper + 1], fraction)

LEMMA PlaceIs ==
    ASSUME NEW n \in Nat \ {0}, NEW place \in Positions(n)
    PROVE  /\ LowerOf(place) \in 0..(n - 1) /\ FractionOf(place) \in 0..999
           /\ place = 1000 * LowerOf(place) + FractionOf(place)
           /\ FractionOf(place) # 0 => LowerOf(place) + 1 \in 0..(n - 1)
  <1> DEFINE l == LowerOf(place)
             f == FractionOf(place)
  <1>1. place \in Nat /\ place <= (n - 1) * 1000
    BY DEF Positions
  <1>2. l = place \div 1000 /\ f = place % 1000
    BY DEF LowerOf, FractionOf, Scale
  <1>3. l \in Nat /\ f \in 0..999 /\ place = 1000 * l + f
    <2> HIDE DEF l, f
    <2> QED
      BY <1>1, <1>2
  <1> HIDE DEF l, f
  <1>4. l <= n - 1 /\ (f # 0 => l + 1 <= n - 1)
    BY <1>1, <1>3
  <1> QED
    BY <1>3, <1>4 DEF l, f

LEMMA AtIs ==
    ASSUME NEW n \in Nat \ {0}, NEW o, IsOrder(o, n), NEW place \in Positions(n)
    PROVE  LET l == LowerOf(place)
               f == FractionOf(place)
           IN  /\ f = 0 => ValueAt(o, place) = 1000 * o[l + 1]
               /\ f # 0 => ValueAt(o, place) = Blend(o[l + 1], o[l + 2], f)
  <1> DEFINE l == LowerOf(place)
             f == FractionOf(place)
  <1>1. l \in 0..(n - 1) /\ f \in 0..999
    BY PlaceIs
  <1>2. ValueAt(o, place) = Blend(o[l + 1], o[(IF f = 0 THEN l ELSE l + 1) + 1], f)
    BY DEF ValueAt
  <1> HIDE DEF l, f
  <1>3. CASE f = 0
    <2>1. ValueAt(o, place) = Blend(o[l + 1], o[l + 1], 0)
      BY <1>2, <1>3
    <2>2. o[l + 1] \in Int
      BY <1>1 DEF IsOrder
    <2>3. Blend(o[l + 1], o[l + 1], 0) = 1000 * o[l + 1]
      BY <2>2 DEF Blend, Scale
    <2> QED
      BY <1>3, <2>1, <2>3 DEF l, f
  <1>4. CASE f # 0
    <2>1. ValueAt(o, place) = Blend(o[l + 1], o[(l + 1) + 1], f)
      BY <1>2, <1>4
    <2>2. (l + 1) + 1 = l + 2
      BY <1>1
    <2> QED
      BY <1>4, <2>1, <2>2 DEF l, f
  <1> QED
    BY <1>3, <1>4 DEF l, f

LEMMA AtIsBetween ==
    ASSUME NEW n \in Nat \ {0}, NEW o, IsOrder(o, n), NEW place \in Positions(n)
    PROVE  LET l == LowerOf(place)
           IN  /\ ValueAt(o, place) \in Int /\ 1000 * o[l + 1] <= ValueAt(o, place) /\ o[l + 1] \in Int
               /\ l + 1 \in 1..n
               /\ l + 2 \in 1..n => ValueAt(o, place) <= 1000 * o[l + 2] /\ o[l + 2] \in Int
               /\ l + 2 \notin 1..n => ValueAt(o, place) = 1000 * o[l + 1]
  <1> DEFINE l == LowerOf(place)
             f == FractionOf(place)
  <1>1. o \in [1..n -> Int] /\ \A j, k \in 1..n : j <= k => o[j] <= o[k]
    BY DEF IsOrder
  <1>2. l \in 0..(n - 1) /\ f \in 0..999 /\ (f # 0 => l + 1 \in 0..(n - 1))
    BY PlaceIs
  <1>3. /\ f = 0 => ValueAt(o, place) = 1000 * o[l + 1]
        /\ f # 0 => ValueAt(o, place) = Blend(o[l + 1], o[l + 2], f)
    BY AtIs
  <1> HIDE DEF l, f
  <1>4. l + 1 \in 1..n /\ o[l + 1] \in Int
    BY <1>1, <1>2
  <1>5. l + 2 \in 1..n => o[l + 2] \in Int /\ o[l + 1] <= o[l + 2]
    BY <1>1, <1>2
  <1>6. f # 0 => l + 2 \in 1..n
    BY <1>1, <1>2
  <1>7. ASSUME l + 2 \in 1..n
        PROVE  /\ Blend(o[l + 1], o[l + 2], f) \in Int
               /\ 1000 * o[l + 1] <= Blend(o[l + 1], o[l + 2], f)
               /\ Blend(o[l + 1], o[l + 2], f) <= 1000 * o[l + 2]
    <2> DEFINE x == o[l + 1]
               y == o[l + 2]
    <2>1. x \in Int /\ y \in Int /\ x <= y /\ f \in Int /\ 0 <= f /\ f <= f /\ f <= 1000
      BY <1>2, <1>4, <1>5, <1>7
    <2> HIDE DEF x, y
    <2>2. Blend(x, y, f) \in Int /\ 1000 * x <= Blend(x, y, f) /\ Blend(x, y, f) <= 1000 * y
      BY <2>1, Blends
    <2> QED
      BY <2>2 DEF x, y
  <1>8. ValueAt(o, place) \in Int /\ 1000 * o[l + 1] <= ValueAt(o, place)
    BY <1>3, <1>4, <1>6, <1>7
  <1>9. l + 2 \in 1..n => ValueAt(o, place) <= 1000 * o[l + 2]
    BY <1>3, <1>4, <1>5, <1>7
  <1>10. l + 2 \notin 1..n => ValueAt(o, place) = 1000 * o[l + 1]
    BY <1>3, <1>6
  <1> QED
    BY <1>4, <1>5, <1>8, <1>9, <1>10 DEF l

LEMMA AtIsMonotone ==
    ASSUME NEW n \in Nat \ {0}, NEW o, IsOrder(o, n), NEW p \in Positions(n), NEW q \in Positions(n), p <= q
    PROVE  ValueAt(o, p) <= ValueAt(o, q)
  <1> DEFINE l == LowerOf(p)
             f == FractionOf(p)
             m == LowerOf(q)
             g == FractionOf(q)
  <1>1. o \in [1..n -> Int] /\ \A j, k \in 1..n : j <= k => o[j] <= o[k]
    BY DEF IsOrder
  <1>2. l \in 0..(n - 1) /\ f \in 0..999 /\ p = 1000 * l + f /\ (f # 0 => l + 1 \in 0..(n - 1))
    BY PlaceIs
  <1>3. m \in 0..(n - 1) /\ g \in 0..999 /\ q = 1000 * m + g /\ (g # 0 => m + 1 \in 0..(n - 1))
    BY PlaceIs
  <1>4. /\ ValueAt(o, p) \in Int /\ l + 1 \in 1..n /\ o[l + 1] \in Int
        /\ l + 2 \in 1..n => ValueAt(o, p) <= 1000 * o[l + 2] /\ o[l + 2] \in Int
        /\ l + 2 \notin 1..n => ValueAt(o, p) = 1000 * o[l + 1]
    BY AtIsBetween
  <1>5. /\ ValueAt(o, q) \in Int /\ m + 1 \in 1..n /\ o[m + 1] \in Int /\ 1000 * o[m + 1] <= ValueAt(o, q)
    BY AtIsBetween
  <1>6. /\ f = 0 => ValueAt(o, p) = 1000 * o[l + 1]
        /\ f # 0 => ValueAt(o, p) = Blend(o[l + 1], o[l + 2], f)
    BY AtIs
  <1>7. g # 0 => ValueAt(o, q) = Blend(o[m + 1], o[m + 2], g)
    BY AtIs
  <1> HIDE DEF l, f, m, g
  <1>8. l < m \/ (l = m /\ f <= g)
    BY <1>2, <1>3
  <1>9. CASE l < m
    <2>1. l + 2 \in 1..n /\ l + 2 <= m + 1
      BY <1>1, <1>2, <1>3, <1>9
    <2>2. o[l + 2] <= o[m + 1]
      BY <1>1, <1>5, <2>1
    <2> QED
      BY <1>4, <1>5, <2>1, <2>2
  <1>10. CASE l = m /\ f <= g
    <2>1. CASE f = 0
      BY <1>4, <1>5, <1>6, <1>10, <2>1
    <2>2. CASE f # 0
      <3> DEFINE x == o[l + 1]
                 y == o[l + 2]
      <3>1. l + 2 \in 1..n /\ l + 1 <= l + 2 /\ g # 0
        BY <1>1, <1>2, <1>3, <1>10, <2>2
      <3>2. x \in Int /\ y \in Int /\ x <= y /\ f \in Int /\ g \in Int /\ 0 <= f /\ f <= g /\ g <= 1000
        BY <1>1, <1>2, <1>3, <1>4, <1>10, <3>1
      <3>3. ValueAt(o, p) = Blend(x, y, f) /\ ValueAt(o, q) = Blend(x, y, g)
        BY <1>6, <1>7, <1>10, <2>2, <3>1
      <3> HIDE DEF x, y
      <3>4. Blend(x, y, f) <= Blend(x, y, g)
        BY <3>2, Blends
      <3> QED
        BY <3>3, <3>4
    <2> QED
      BY <2>1, <2>2
  <1> QED
    BY <1>8, <1>9, <1>10

LEMMA SortedValues ==
    ASSUME NEW n \in Nat \ {0}, NEW values \in [1..n -> Int]
    PROVE  IsOrder(Ordered(values), n)
  <1> DEFINE o == Ordered(values)
  <1>1. Len(values) = n
    BY FunctionIsSequence
  <1>2. DOMAIN o = 1..n /\ o = [k \in 1..n |-> o[k]]
    BY <1>1 DEF Ordered
  <1>3. \A k \in 1..n : o[k] \in Int
    BY OrderedIs
  <1>4. \A j, k \in 1..n : j <= k => o[j] <= o[k]
    BY OrderedIsMonotone
  <1> HIDE DEF o
  <1>5. o \in [1..n -> Int]
    BY <1>2, <1>3
  <1> QED
    BY <1>4, <1>5 DEF IsOrder, o

LEMMA ProductGrows == \A a, b, c \in Nat : b <= c => a * b \in Nat /\ a * b <= a * c
  <1> SUFFICES ASSUME NEW a \in Nat, NEW b \in Nat, NEW c \in Nat, b <= c PROVE a * b \in Nat /\ a * b <= a * c
    OBVIOUS
  <1>1. c = b + (c - b) /\ c - b \in Nat
    OBVIOUS
  <1>2. a * (b + (c - b)) = a * b + a * (c - b) /\ a * b \in Nat /\ a * (c - b) \in Nat
    BY <1>1
  <1> QED
    BY <1>1, <1>2

PlaceOf(n, q) == (n - 1) * q

LEMMA PercentileIs ==
    ASSUME NEW n \in Nat \ {0}, NEW values \in [1..n -> Int]
    PROVE  \A q \in 0..1000 : /\ PlaceOf(n, q) \in Positions(n)
                              /\ Percentile(values, q) = ValueAt(Ordered(values), PlaceOf(n, q))
  <1> TAKE q \in 0..1000
  <1>1. Len(values) = n
    BY FunctionIsSequence
  <1>2. (n - 1) * q \in Positions(n)
    <2>1. n - 1 \in Nat /\ q \in Nat /\ 1000 \in Nat /\ q <= 1000
      OBVIOUS
    <2>2. (n - 1) * q \in Nat /\ (n - 1) * q <= (n - 1) * 1000
      BY <2>1, ProductGrows
    <2> QED
      BY <2>2 DEF Positions
  <1>3. Percentile(values, q) = ValueAt(Ordered(values), (n - 1) * q)
    BY <1>1 DEF Percentile, ValueAt, Blend, LowerOf, FractionOf
  <1> QED
    BY <1>2, <1>3 DEF PlaceOf

\* A higher quantile is no less.
LEMMA PercentileIsMonotone ==
    ASSUME NEW n \in Nat \ {0}, NEW values \in [1..n -> Int]
    PROVE  \A q, r \in Int : 0 <= q /\ q <= r /\ r <= 1000 =>
               /\ Percentile(values, q) \in Int /\ Percentile(values, q) <= Percentile(values, r)
               /\ Scale * Least(values) <= Percentile(values, q) /\ Percentile(values, q) <= Scale * Greatest(values)
  <1>0. \A t \in 0..1000 : /\ PlaceOf(n, t) \in Positions(n)
                          /\ Percentile(values, t) = ValueAt(Ordered(values), PlaceOf(n, t))
    BY ZenonT(30), PercentileIs
  <1> SUFFICES ASSUME NEW q \in Int, NEW r \in Int, 0 <= q, q <= r, r <= 1000
               PROVE  /\ Percentile(values, q) \in Int /\ Percentile(values, q) <= Percentile(values, r)
                      /\ Scale * Least(values) <= Percentile(values, q)
                      /\ Percentile(values, q) <= Scale * Greatest(values)
    OBVIOUS
  <1> DEFINE o == Ordered(values)
             p == PlaceOf(n, q)
             s == PlaceOf(n, r)
  <1>1. IsOrder(o, n)
    BY SortedValues
  <1>2. p \in Positions(n) /\ s \in Positions(n) /\ Percentile(values, q) = ValueAt(o, p) /\ Percentile(values, r) = ValueAt(o, s)
    <2>1. q \in 0..1000 /\ r \in 0..1000
      OBVIOUS
    <2>2. /\ PlaceOf(n, q) \in Positions(n) /\ Percentile(values, q) = ValueAt(Ordered(values), PlaceOf(n, q))
          /\ PlaceOf(n, r) \in Positions(n) /\ Percentile(values, r) = ValueAt(Ordered(values), PlaceOf(n, r))
      BY ZenonT(30), <1>0, <2>1
    <2> QED
      BY <2>2
  <1>3. p <= s
    <2> DEFINE c == n - 1
    <2>1. c \in Nat /\ q \in Nat /\ r \in Nat
      OBVIOUS
    <2>2. p = c * q /\ s = c * r
      BY DEF PlaceOf
    <2> HIDE DEF c, p, s
    <2>3. c * q <= c * r
      BY <2>1, ProductGrows
    <2> QED
      BY <2>2, <2>3
  <1>4. Least(values) = o[1] /\ Greatest(values) = o[n]
    BY FunctionIsSequence DEF Least, Greatest
  <1> HIDE DEF o, p, s
  <1>5. ValueAt(o, p) <= ValueAt(o, s)
    BY <1>1, <1>2, <1>3, AtIsMonotone
  <1> DEFINE l == LowerOf(p)
  <1>6. /\ ValueAt(o, p) \in Int /\ 1000 * o[l + 1] <= ValueAt(o, p) /\ o[l + 1] \in Int
        /\ l + 1 \in 1..n
        /\ l + 2 \in 1..n => ValueAt(o, p) <= 1000 * o[l + 2] /\ o[l + 2] \in Int
        /\ l + 2 \notin 1..n => ValueAt(o, p) = 1000 * o[l + 1]
    BY <1>1, <1>2, AtIsBetween
  <1>7. \A k \in 1..n : o[k] \in Int /\ o[1] <= o[k] /\ o[k] <= o[n]
    BY <1>1 DEF IsOrder
  <1> HIDE DEF l
  <1>8. 1000 * o[1] <= ValueAt(o, p) /\ ValueAt(o, p) <= 1000 * o[n]
    <2>1. 1 \in 1..n /\ n \in 1..n
      OBVIOUS
    <2>2. o[1] <= o[l + 1] /\ o[1] \in Int /\ o[n] \in Int /\ o[l + 1] <= o[n]
      BY <1>6, <1>7, <2>1
    <2>3. l + 2 \in 1..n => o[l + 2] <= o[n]
      BY <1>7
    <2> DEFINE c == ValueAt(o, p)
               d == o[l + 1]
               e == o[l + 2]
    <2>4. \A u, v \in Int : u <= v => 1000 * u <= 1000 * v
      OBVIOUS
    <2>5. c \in Int /\ d \in Int /\ 1000 * d <= c
      BY <1>6
    <2>6. 1000 * o[1] <= 1000 * d /\ 1000 * d <= 1000 * o[n]
      BY <2>2, <2>4, <2>5
    <2>7. CASE l + 2 \in 1..n
      <3>1. c <= 1000 * e /\ e \in Int /\ e <= o[n]
        BY <1>6, <2>3, <2>7
      <3>2. 1000 * e <= 1000 * o[n]
        BY <2>2, <2>4, <3>1
      <3> HIDE DEF c, d, e
      <3> QED
        BY <2>2, <2>5, <2>6, <3>1, <3>2 DEF c
    <2>8. CASE l + 2 \notin 1..n
      <3>1. c = 1000 * d
        BY <1>6, <2>8
      <3> HIDE DEF c, d
      <3> QED
        BY <2>5, <2>6, <3>1 DEF c
    <2> QED
      BY <2>7, <2>8
  <1>9. Scale * Least(values) <= Percentile(values, q) /\ Percentile(values, q) <= Scale * Greatest(values)
    BY <1>2, <1>4, <1>8 DEF Scale
  <1> QED
    BY <1>2, <1>5, <1>6, <1>9

\* Where a quantile of n values is: m is their number by quarters.
LEMMA AtPlace ==
    ASSUME NEW n \in Nat \ {0}, NEW o, IsOrder(o, n), NEW l \in Nat, NEW f \in 0..999, NEW place \in Positions(n),
           place = 1000 * l + f
    PROVE  /\ f = 0 => ValueAt(o, place) = 1000 * o[l + 1]
           /\ f # 0 => ValueAt(o, place) = o[l + 1] * (1000 - f) + o[l + 2] * f
  <1>1. LowerOf(place) = l /\ FractionOf(place) = f
    BY DEF LowerOf, FractionOf, Scale
  <1>2. /\ f = 0 => ValueAt(o, place) = 1000 * o[l + 1]
        /\ f # 0 => ValueAt(o, place) = Blend(o[l + 1], o[l + 2], f)
    BY <1>1, AtIs
  <1> QED
    BY <1>2 DEF Blend, Scale

\* statistics.median is the quantile of one half.
LEMMA MedianIsPercentile ==
    ASSUME NEW n \in Nat \ {0}, NEW values \in [1..n -> Int]
    PROVE  LET o == Ordered(values)
               j == (n + 1) \div 2
               k == n \div 2 + 1
           IN  /\ Median(values) = Percentile(values, 500)
               /\ j \in 1..n /\ k \in 1..n /\ o[j] \in Int /\ o[k] \in Int
               /\ 1000 * o[j] <= Median(values) /\ Median(values) <= 1000 * o[k]
  <1> DEFINE o == Ordered(values)
             j == (n + 1) \div 2
             k == n \div 2 + 1
             place == PlaceOf(n, 500)
  <1>1. Median(values) = (o[j] + o[k]) * 500
    <2>1. Len(values) = n /\ Scale \div 2 = 500
      BY FunctionIsSequence DEF Scale
    <2> QED
      BY <2>1 DEF Median
  <1>2. IsOrder(o, n)
    BY SortedValues
  <1>3. place \in Positions(n) /\ Percentile(values, 500) = ValueAt(o, place)
    BY PercentileIs
  <1>4. j \in 1..n /\ k \in 1..n /\ j <= k
    OBVIOUS
  <1>5. (j = k /\ place = 1000 * (j - 1) + 0) \/ (k = j + 1 /\ place = 1000 * (j - 1) + 500)
    BY DEF PlaceOf
  <1> HIDE DEF o, j, k, place
  <1>6. o[j] \in Int /\ o[k] \in Int /\ o[j] <= o[k]
    BY <1>2, <1>4 DEF IsOrder
  <1>7. CASE j = k /\ place = 1000 * (j - 1) + 0
    <2>1. ValueAt(o, place) = 1000 * o[(j - 1) + 1] /\ (j - 1) + 1 = j
      <3>1. j - 1 \in Nat /\ 0 \in 0..999 /\ (j - 1) + 1 = j
        BY <1>4
      <3>2. ValueAt(o, place) = 1000 * o[(j - 1) + 1]
        BY <1>2, <1>3, <1>7, <3>1, AtPlace
      <3> QED
        BY <3>1, <3>2
    <2> QED
      BY <1>1, <1>3, <1>4, <1>6, <1>7, <2>1 DEF o, j, k
  <1>8. CASE k = j + 1 /\ place = 1000 * (j - 1) + 500
    <2>1. ValueAt(o, place) = o[(j - 1) + 1] * (1000 - 500) + o[(j - 1) + 2] * 500
      <3>1. j - 1 \in Nat /\ 500 \in 0..999 /\ 500 # 0
        BY <1>4
      <3> QED
        BY <1>2, <1>3, <1>8, <3>1, AtPlace
    <2>2. (j - 1) + 1 = j /\ (j - 1) + 2 = k
      BY <1>4, <1>8
    <2> QED
      BY <1>1, <1>3, <1>4, <1>6, <2>1, <2>2 DEF o, j, k
  <1> QED
    BY <1>5, <1>7, <1>8

\* The quartiles by what is left of the number of values, in four parts: no
\* outlier is among the middle ones.
LEMMA Fences ==
    ASSUME NEW n \in Nat \ {0}, NEW o, IsOrder(o, n)
    PROVE  LET m == n \div 4
               q1 == ValueAt(o, (n - 1) * 250)
               q3 == ValueAt(o, (n - 1) * 750)
           IN  /\ m + 1 \in 1..n /\ n - m \in 1..n
               /\ 2 * q1 - 3 * (q3 - q1) <= 2000 * o[m + 1]
               /\ 2000 * o[n - m] <= 2 * q3 + 3 * (q3 - q1)
  <1> DEFINE m == n \div 4
             p1 == (n - 1) * 250
             p3 == (n - 1) * 750
             q1 == ValueAt(o, p1)
             q3 == ValueAt(o, p3)
  <1>1. \A j \in 1..n : o[j] \in Int /\ \A k \in 1..n : j <= k => o[j] <= o[k]
    BY DEF IsOrder
  <1>2. p1 \in Positions(n) /\ p3 \in Positions(n) /\ p1 <= p3
    BY DEF Positions
  <1>3. q1 \in Int /\ q3 \in Int /\ q1 <= q3
    <2> HIDE DEF p1, p3
    <2>1. q1 <= q3
      BY <1>2, AtIsMonotone
    <2>2. q1 \in Int
      BY <1>2, AtIsBetween
    <2>3. q3 \in Int
      BY <1>2, AtIsBetween
    <2> QED
      BY <2>1, <2>2, <2>3
  <1>4. m \in Nat /\ m + 1 \in 1..n /\ n - m \in 1..n
    OBVIOUS
  <1>5. n = 4 * m \/ n = 4 * m + 1 \/ n = 4 * m + 2 \/ n = 4 * m + 3
    OBVIOUS
  <1> HIDE DEF m
  <1> DEFINE Holds == /\ 2 * q1 - 3 * (q3 - q1) <= 2000 * o[m + 1]
                      /\ 2000 * o[n - m] <= 2 * q3 + 3 * (q3 - q1)
  <1>6. ASSUME n = 4 * m PROVE Holds
    <2>1. p1 = 1000 * (m - 1) + 750 /\ p3 = 1000 * (3 * m - 1) + 250 /\ m - 1 \in Nat /\ 3 * m - 1 \in Nat
      BY <1>4, <1>6
    <2>2. q1 = o[(m - 1) + 1] * (1000 - 750) + o[(m - 1) + 2] * 750
      <3> HIDE DEF p1
      <3> QED
        BY <1>2, <2>1, AtPlace
    <2>3. q3 = o[(3 * m - 1) + 1] * (1000 - 250) + o[(3 * m - 1) + 2] * 250
      <3> HIDE DEF p3
      <3> QED
        BY <1>2, <2>1, AtPlace
    <2> HIDE DEF p1, p3, q1, q3
    <2>4. /\ (m - 1) + 1 = m /\ (m - 1) + 2 = m + 1 /\ (3 * m - 1) + 1 = n - m /\ (3 * m - 1) + 2 = (n - m) + 1
          /\ m \in 1..n /\ m <= m + 1 /\ (n - m) + 1 \in 1..n /\ n - m <= (n - m) + 1
      BY <1>4, <1>6, <2>1
    <2>5. /\ o[m] \in Int /\ o[m + 1] \in Int /\ o[m] <= o[m + 1]
          /\ o[n - m] \in Int /\ o[(n - m) + 1] \in Int /\ o[n - m] <= o[(n - m) + 1]
      BY <1>1, <1>4, <2>4
    <2>6. q1 = o[m] * 250 + o[m + 1] * 750 /\ q3 = o[n - m] * 750 + o[(n - m) + 1] * 250
      BY <2>2, <2>3, <2>4
    <2> QED
      BY <1>3, <2>5, <2>6
  <1>7. ASSUME n = 4 * m + 1 PROVE Holds
    <2>1. p1 = 1000 * m + 0 /\ p3 = 1000 * (3 * m) + 0 /\ 3 * m \in Nat
      BY <1>4, <1>7
    <2>2. q1 = 1000 * o[m + 1]
      <3> HIDE DEF p1
      <3> QED
        BY <1>2, <1>4, <2>1, AtPlace
    <2>3. q3 = 1000 * o[3 * m + 1]
      <3> HIDE DEF p3
      <3> QED
        BY <1>2, <2>1, AtPlace
    <2> HIDE DEF p1, p3, q1, q3
    <2>4. 3 * m + 1 = n - m
      BY <1>4, <1>7
    <2>5. o[m + 1] \in Int /\ o[n - m] \in Int
      BY <1>1, <1>4
    <2> QED
      BY <1>3, <2>2, <2>3, <2>4, <2>5
  <1>8. ASSUME n = 4 * m + 2 PROVE Holds
    <2>1. p1 = 1000 * m + 250 /\ p3 = 1000 * (3 * m) + 750 /\ 3 * m \in Nat
      BY <1>4, <1>8
    <2>2. q1 = o[m + 1] * (1000 - 250) + o[m + 2] * 250
      <3> HIDE DEF p1
      <3> QED
        BY <1>2, <1>4, <2>1, AtPlace
    <2>3. q3 = o[3 * m + 1] * (1000 - 750) + o[3 * m + 2] * 750
      <3> HIDE DEF p3
      <3> QED
        BY <1>2, <2>1, AtPlace
    <2> HIDE DEF p1, p3, q1, q3
    <2>4. /\ 3 * m + 2 = n - m /\ 3 * m + 1 \in 1..n /\ 3 * m + 1 <= n - m /\ m + 2 \in 1..n /\ m + 1 <= m + 2
          /\ (m = 0 => m + 1 = 3 * m + 1 /\ m + 2 = n - m)
          /\ (m # 0 => m + 2 <= 3 * m + 1)
      BY <1>4, <1>8
    <2>5. /\ o[m + 1] \in Int /\ o[m + 2] \in Int /\ o[m + 1] <= o[m + 2]
          /\ o[3 * m + 1] \in Int /\ o[n - m] \in Int /\ o[3 * m + 1] <= o[n - m]
          /\ (m = 0 => o[m + 1] = o[3 * m + 1] /\ o[m + 2] = o[n - m])
          /\ (m # 0 => o[m + 2] <= o[3 * m + 1])
      BY <1>1, <1>4, <2>4
    <2>6. q1 = o[m + 1] * 750 + o[m + 2] * 250 /\ q3 = o[3 * m + 1] * 250 + o[n - m] * 750
      BY <2>2, <2>3, <2>4
    <2> QED
      BY <1>3, <2>5, <2>6
  <1>9. ASSUME n = 4 * m + 3 PROVE Holds
    <2>1. p1 = 1000 * m + 500 /\ p3 = 1000 * (3 * m + 1) + 500 /\ 3 * m + 1 \in Nat
      BY <1>4, <1>9
    <2>2. q1 = o[m + 1] * (1000 - 500) + o[m + 2] * 500
      <3> HIDE DEF p1
      <3> QED
        BY <1>2, <1>4, <2>1, AtPlace
    <2>3. q3 = o[(3 * m + 1) + 1] * (1000 - 500) + o[(3 * m + 1) + 2] * 500
      <3> HIDE DEF p3
      <3> QED
        BY <1>2, <2>1, AtPlace
    <2> HIDE DEF p1, p3, q1, q3
    <2>4. /\ (3 * m + 1) + 2 = n - m /\ (3 * m + 1) + 1 = 3 * m + 2 /\ 3 * m + 2 \in 1..n /\ 3 * m + 2 <= n - m
          /\ m + 2 \in 1..n /\ m + 1 <= m + 2 /\ m + 2 <= 3 * m + 2
      BY <1>4, <1>9
    <2>5. /\ o[m + 1] \in Int /\ o[m + 2] \in Int /\ o[m + 1] <= o[m + 2]
          /\ o[3 * m + 2] \in Int /\ o[n - m] \in Int /\ o[3 * m + 2] <= o[n - m] /\ o[m + 2] <= o[3 * m + 2]
      BY <1>1, <1>4, <2>4
    <2>6. q1 = o[m + 1] * 500 + o[m + 2] * 500 /\ q3 = o[3 * m + 2] * 500 + o[n - m] * 500
      BY <2>2, <2>3, <2>4
    <2> QED
      BY <1>3, <2>5, <2>6
  <1>10. Holds
    <2> HIDE DEF Holds
    <2> QED
      BY <1>5, <1>6, <1>7, <1>8, <1>9
  <1> QED
    BY <1>4, <1>10 DEF m

\* How many indices of values there are in a set of them.
LEMMA IndexSets ==
    ASSUME NEW n \in Nat, NEW I \in SUBSET (1..n), NEW J \in SUBSET (1..n)
    PROVE  /\ Cardinality(I) \in 0..n
           /\ I \subseteq J => Cardinality(I) <= Cardinality(J)
           /\ Cardinality((1..n) \ I) = n - Cardinality(I)
           /\ Cardinality(I \cup J) <= Cardinality(I) + Cardinality(J)
  <1>1. IsFiniteSet(1..n) /\ Cardinality(1..n) = n
    BY FiniteInterval
  <1>2. IsFiniteSet(I) /\ IsFiniteSet(J) /\ Cardinality(I) <= n
    BY <1>1, FiniteSubset
  <1>3. Cardinality(I) \in Nat /\ Cardinality(J) \in Nat
    BY <1>2, FiniteCardinality
  <1>4. I \subseteq J => Cardinality(I) <= Cardinality(J)
    BY <1>2, FiniteSubset
  <1>5. Cardinality((1..n) \ I) = n - Cardinality(I)
    <2>1. Cardinality((1..n) \ I) = Cardinality(1..n) - Cardinality((1..n) \cap I)
      BY <1>1, FiniteDifference
    <2>2. (1..n) \cap I = I
      OBVIOUS
    <2> QED
      BY <1>1, <2>1, <2>2
  <1>6. Cardinality(I \cup J) <= Cardinality(I) + Cardinality(J)
    <2>1. Cardinality(I \cup J) = Cardinality(I) + Cardinality(J) - Cardinality(I \cap J)
      BY <1>2, FiniteUnion
    <2>2. Cardinality(I \cap J) \in Nat
      BY <1>2, FiniteIntersection, FiniteCardinality
    <2> QED
      BY <1>3, <2>1, <2>2
  <1> QED
    BY <1>2, <1>3, <1>4, <1>5, <1>6

\* At least half of the values are on either side of the median.
LEMMA MedianHalves ==
    ASSUME NEW n \in Nat \ {0}, NEW values \in [1..n -> Int]
    PROVE  /\ 2 * ShareBelow(values, Median(values)) >= n
           /\ 2 * ShareAbove(values, Median(values)) >= n
  <1> DEFINE o == Ordered(values)
             j == (n + 1) \div 2
             k == n \div 2 + 1
             median == Median(values)
             x == o[j]
             y == o[k]
             B == {i \in 1..n : 1000 * values[i] <= median}
             A == {i \in 1..n : 1000 * values[i] >= median}
             U == {i \in 1..n : values[i] <= x}
             L == {i \in 1..n : values[i] < y}
  <1>1. j \in 1..n /\ k \in 1..n /\ 2 * j >= n /\ 2 * (n - (k - 1)) >= n
    OBVIOUS
  <1>2. /\ x \in Int /\ y \in Int /\ 1000 * x <= median /\ median <= 1000 * y
    BY MedianIsPercentile
  <1>3. DOMAIN values = 1..n /\ \A i \in 1..n : values[i] \in Int
    OBVIOUS
  <1>4. median \in Int
    BY MedianIsBetween
  <1>5. /\ ShareBelow(values, median) = Cardinality(B) /\ ShareAbove(values, median) = Cardinality(A)
        /\ UpTo(values, x) = Cardinality(U) /\ Below(values, y) = Cardinality(L)
    BY <1>3 DEF ShareBelow, ShareAbove, UpTo, Below, Scale
  <1> HIDE DEF o, j, k, median
  <1>6. j <= UpTo(values, x)
    BY <1>1, OrderedIs DEF o
  <1>7. Below(values, y) < k
    BY <1>1, OrderedIs DEF o
  <1> HIDE DEF x, y
  <1>8. U \subseteq B /\ (1..n) \ L \subseteq A
    BY <1>2, <1>3, <1>4
  <1>9. U \in SUBSET (1..n) /\ B \in SUBSET (1..n) /\ L \in SUBSET (1..n) /\ A \in SUBSET (1..n)
        /\ (1..n) \ L \in SUBSET (1..n)
    OBVIOUS
  <1> HIDE DEF U, B, L, A
  <1>10. Cardinality(U) <= Cardinality(B) /\ Cardinality(U) \in 0..n /\ Cardinality(B) \in 0..n
    BY <1>8, <1>9, IndexSets
  <1>11. /\ Cardinality((1..n) \ L) <= Cardinality(A) /\ Cardinality(A) \in 0..n
    BY <1>8, <1>9, IndexSets
  <1>12. Cardinality((1..n) \ L) = n - Cardinality(L) /\ Cardinality(L) \in 0..n
    BY <1>9, IndexSets
  <1>13. 2 * Cardinality(B) >= n
    BY <1>1, <1>5, <1>6, <1>10
  <1>14. 2 * Cardinality(A) >= n
    BY <1>1, <1>5, <1>7, <1>11, <1>12
  <1> QED
    BY <1>5, <1>13, <1>14 DEF median

\* No more than a quarter of the values are beyond either fence.
LEMMA OutliersAreFew ==
    ASSUME NEW n \in Nat \ {0}, NEW values \in [1..n -> Int]
    PROVE  2 * Outliers(values, Percentile(values, 250), Percentile(values, 750)) <= n
  <1> DEFINE o == Ordered(values)
             m == n \div 4
             q1 == Percentile(values, 250)
             q3 == Percentile(values, 750)
             x == o[m + 1]
             y == o[n - m]
             Low == {j \in 1..n : 2000 * values[j] < 2 * q1 - 3 * (q3 - q1)}
             High == {j \in 1..n : 2000 * values[j] > 2 * q3 + 3 * (q3 - q1)}
             L == {j \in 1..n : values[j] < x}
             U == {j \in 1..n : values[j] <= y}
  <1>1. DOMAIN values = 1..n /\ \A j \in 1..n : values[j] \in Int
    OBVIOUS
  <1>2. Outliers(values, q1, q3) = Cardinality(Low \cup High)
    <2>1. 2 * Scale = 2000
      BY DEF Scale
    <2> DEFINE Beyond(v) == \/ 2 * Scale * v < 2 * q1 - 3 * (q3 - q1)
                            \/ 2 * Scale * v > 2 * q3 + 3 * (q3 - q1)
    <2>2. Low \cup High = {j \in DOMAIN values : Beyond(values[j])}
      <3> HIDE DEF q1, q3
      <3> QED
        BY <1>1, <2>1
    <2>3. Outliers(values, q1, q3) = Cardinality({j \in DOMAIN values : Beyond(values[j])})
      BY DEF Outliers
    <2> HIDE DEF Beyond, Low, High
    <2> QED
      BY <2>2, <2>3
  <1>3. IsOrder(o, n)
    BY SortedValues
  <1>4. q1 = ValueAt(o, (n - 1) * 250) /\ q3 = ValueAt(o, (n - 1) * 750)
    <2>1. 250 \in 0..1000 /\ 750 \in 0..1000
      OBVIOUS
    <2>2. q1 = ValueAt(o, (n - 1) * 250)
      BY <2>1, PercentileIs DEF PlaceOf
    <2>3. q3 = ValueAt(o, (n - 1) * 750)
      BY <2>1, PercentileIs DEF PlaceOf
    <2> QED
      BY <2>2, <2>3
  <1>5. m \in Nat /\ 4 * m <= n
    OBVIOUS
  <1>6. /\ m + 1 \in 1..n /\ n - m \in 1..n
        /\ 2 * q1 - 3 * (q3 - q1) <= 2000 * x
        /\ 2000 * y <= 2 * q3 + 3 * (q3 - q1)
    <2>1. LET a == ValueAt(o, (n - 1) * 250)
              b == ValueAt(o, (n - 1) * 750)
          IN  /\ m + 1 \in 1..n /\ n - m \in 1..n
              /\ 2 * a - 3 * (b - a) <= 2000 * x
              /\ 2000 * y <= 2 * b + 3 * (b - a)
      <3> HIDE DEF o
      <3> QED
        BY <1>3, Fences
    <2> HIDE DEF o, m, q1, q3, x, y
    <2> QED
      BY <1>4, <2>1
  <1>7. q1 \in Int /\ q3 \in Int
    <2> DEFINE P(q) == Percentile(values, q)
    <2>1. \A q, r \in Int : 0 <= q /\ q <= r /\ r <= 1000 => P(q) \in Int /\ P(q) <= P(r)
      BY PercentileIsMonotone
    <2> HIDE DEF P
    <2>2. P(250) \in Int /\ P(750) \in Int
      BY <2>1
    <2> QED
      BY <2>2 DEF P
  <1>8. x \in Int /\ Below(values, x) < m + 1
    <2>1. m + 1 \in 1..n
      BY <1>6
    <2> HIDE DEF m
    <2> QED
      BY <2>1, OrderedIs
  <1>9. y \in Int /\ n - m <= UpTo(values, y)
    <2>1. n - m \in 1..n
      BY <1>6
    <2> HIDE DEF m
    <2> QED
      BY <2>1, OrderedIs
  <1>10. Below(values, x) = Cardinality(L) /\ UpTo(values, y) = Cardinality(U)
    BY <1>1 DEF Below, UpTo
  <1> HIDE DEF o, m, q1, q3, x, y
  <1>11. Low \subseteq L /\ High \subseteq (1..n) \ U
    <2> DEFINE low == 2 * q1 - 3 * (q3 - q1)
               high == 2 * q3 + 3 * (q3 - q1)
    <2>1. low \in Int /\ high \in Int /\ low <= 2000 * x /\ 2000 * y <= high
      BY <1>6, <1>7
    <2> HIDE DEF low, high
    <2>2. \A v \in Int : (2000 * v < low => v < x) /\ (2000 * v > high => ~(v <= y))
      BY <1>8, <1>9, <2>1
    <2>3. \A j \in Low : j \in 1..n /\ 2000 * values[j] < low
      BY DEF low
    <2>4. \A j \in High : j \in 1..n /\ 2000 * values[j] > high
      BY DEF high
    <2> HIDE DEF Low, High
    <2> QED
      BY <1>1, <2>2, <2>3, <2>4
  <1>12. /\ Low \in SUBSET (1..n) /\ High \in SUBSET (1..n) /\ L \in SUBSET (1..n) /\ U \in SUBSET (1..n)
         /\ (1..n) \ U \in SUBSET (1..n)
    OBVIOUS
  <1> HIDE DEF Low, High, L, U
  <1>13. Cardinality(Low) <= Cardinality(L) /\ Cardinality(Low) \in 0..n /\ Cardinality(L) \in 0..n
    BY <1>11, <1>12, IndexSets
  <1>14. Cardinality(High) <= Cardinality((1..n) \ U) /\ Cardinality(High) \in 0..n
    BY <1>11, <1>12, IndexSets
  <1>15. Cardinality((1..n) \ U) = n - Cardinality(U) /\ Cardinality(U) \in 0..n
    BY <1>12, IndexSets
  <1>16. Cardinality(Low \cup High) <= Cardinality(Low) + Cardinality(High)
    BY <1>12, IndexSets
  <1>17. Low \cup High \in SUBSET (1..n)
    BY <1>12
  <1>18. Cardinality(Low \cup High) \in 0..n
    BY <1>17, IndexSets
  <1>19. 2 * Cardinality(Low \cup High) <= n
    BY <1>5, <1>8, <1>9, <1>10, <1>13, <1>14, <1>15, <1>16, <1>18
  <1> QED
    BY <1>2, <1>19 DEF q1, q3

\* performance.py 349-394: of whatever values, the quantiles are ordered, the
\* median halves them, and at most half of them are outliers.
LEMMA QuantilesOrdered ==
    ASSUME NEW n \in Nat \ {0}, NEW values \in [1..n -> Int]
    PROVE  QuantilesAreOrdered(values)
  <1> DEFINE s == Summary(values)
             P(q) == Percentile(values, q)
  <1>1. Len(values) = n
    BY FunctionIsSequence
  <1>2. /\ s.count = Len(values) /\ s.median = Median(values)
        /\ s.minimum = Least(values) /\ s.maximum = Greatest(values)
        /\ s.p5 = P(50) /\ s.q1 = P(250) /\ s.q3 = P(750) /\ s.p95 = P(950)
        /\ s.outliers = Outliers(values, P(250), P(750))
    BY DEF Summary
  <1>3. \A q, r \in Int : 0 <= q /\ q <= r /\ r <= 1000 =>
            /\ P(q) \in Int /\ P(q) <= P(r)
            /\ Scale * Least(values) <= P(q) /\ P(q) <= Scale * Greatest(values)
    BY PercentileIsMonotone
  <1>4. Median(values) = P(500)
    BY MedianIsPercentile
  <1> HIDE DEF P, s
  <1>5. /\ Scale * Least(values) <= P(50) /\ P(50) <= P(250) /\ P(250) <= P(500)
        /\ P(500) <= P(750) /\ P(750) <= P(950) /\ P(950) <= Scale * Greatest(values)
    <2>1. \A q \in Int : 0 <= q /\ q <= 1000 => Scale * Least(values) <= P(q) /\ P(q) <= Scale * Greatest(values)
      BY <1>3
    <2>2. P(50) <= P(250) /\ P(250) <= P(500)
      BY <1>3
    <2>3. P(500) <= P(750) /\ P(750) <= P(950)
      BY <1>3
    <2> HIDE DEF s
    <2> QED
      BY <2>1, <2>2, <2>3
  <1>6. 2 * ShareBelow(values, Median(values)) >= n /\ 2 * ShareAbove(values, Median(values)) >= n
    BY MedianHalves
  <1>7. 2 * Outliers(values, P(250), P(750)) <= n
    BY OutliersAreFew DEF P
  <1>8. s.median = Percentile(values, 500)
    BY <1>2, <1>4 DEF P
  <1>9. /\ Scale * s.minimum <= s.p5 /\ s.p5 <= s.q1 /\ s.q1 <= s.median
        /\ s.median <= s.q3 /\ s.q3 <= s.p95 /\ s.p95 <= Scale * s.maximum
    BY <1>2, <1>4, <1>5
  <1>10. /\ 2 * ShareBelow(values, s.median) >= s.count /\ 2 * ShareAbove(values, s.median) >= s.count
         /\ 2 * s.outliers <= s.count
    BY <1>1, <1>2, <1>6, <1>7
  <1> QED
    BY <1>8, <1>9, <1>10 DEF QuantilesAreOrdered, s

-----------------------------------------------------------------------------
(* What a summary says.                                                      *)

\* A row has whole numbers of nanoseconds.
IsRow(row) ==
    /\ row.latency \in Int /\ row.execution \in Int /\ row.extract \in Int
    /\ \A p \in ToSet(PHASES) : row.phases[p] \in Int

\* The summary of a regime is that of its rows, with what the bootstrap drew.
IsSummaryOfRows(picks) ==
    \A regime \in MeasuredRegimes :
        summary.regimes[regime]
            = RegimeSummary(OfRegime(regime), regime, Draws(picks, SessionMedians(OfRegime(regime))))

SummaryInv ==
    /\ importPc \in {"load", "write", "done"} =>
        /\ \A row \in ToSet(rows) : IsRow(row)
        /\ \A k \in Loaded : PowerHolds(archives[k])
    /\ importPc \in {"write", "done"} =>
        \E picks \in [1..Estimates -> [DOMAIN sessions -> DOMAIN sessions]] : IsSummaryOfRows(picks)

\* A row of an accepted run is a row of whole numbers: a launch that is not one
\* is refused.
LEMMA RowsAreWhole ==
    ASSUME NEW a, IsSequence(a.runs), \A j \in DOMAIN a.runs : IsRun(a.runs[j]),
           \A j \in DOMAIN a.runs : RunHolds(a.runs[j], a.keys["benchmark_cpu"])
    PROVE  \A row \in RowsIn(a) : IsRow(row)
  <1> SUFFICES ASSUME NEW run \in ToSet(a.runs), NEW row \in ToSet(RowsOfRun(a, run)) PROVE IsRow(row)
    BY DEF RowsIn
  <1>1. IsRun(run) /\ RunHolds(run, a.keys["benchmark_cpu"])
    BY DEF ToSet
  <1> DEFINE m == Measured(run)
  <1>2. m \in Seq(ToSet(run.samples)) /\ IsSequence(run.samples)
    BY <1>1, MeasuredAre DEF IsRun
  <1>3. PICK k \in DOMAIN m : row = RowsOfRun(a, run)[k]
    BY DEF ToSet, RowsOfRun
  <1>4. m[k] \in ToSet(run.samples)
    <2> HIDE DEF m
    <2> QED
      BY <1>2
  <1>5. m[k].execution \in Int /\ m[k].extract \in Int
    BY <1>1, <1>4 DEF IsRun
  <1>6. StartsProcess(run) => run.launch \in Int
    BY <1>1, <1>3 DEF IsRun, RunHolds
  <1>7. /\ row.latency = IF StartsProcess(run) THEN run.launch ELSE m[k].execution
        /\ row.execution = m[k].execution /\ row.extract = m[k].extract /\ row.phases = run.phases
    BY <1>3 DEF RowsOfRun
  <1>8. \A p \in ToSet(PHASES) : run.phases[p] \in Int
    BY <1>1 DEF IsRun
  <1> HIDE DEF m
  <1> QED
    BY <1>5, <1>6, <1>7, <1>8 DEF IsRow

LEMMA SummaryStays ==
    ASSUME SummaryInv, UNCHANGED <<archives, loopVars, summary>>,
           importPc' \in {"load", "write", "done"} => importPc \in {"load", "write", "done"},
           importPc' \in {"write", "done"} => importPc \in {"write", "done"}
    PROVE  SummaryInv'
  <1>1. UNCHANGED <<archives, index, rows, sessions, summary>>
    BY DEF loopVars
  <1>2. /\ Loaded' = Loaded /\ MeasuredRegimes' = MeasuredRegimes
        /\ \A regime : OfRegime(regime)' = OfRegime(regime)
    BY <1>1 DEF Loaded, MeasuredRegimes, OfRegime
  <1>3. \A picks : IsSummaryOfRows(picks)' <=> IsSummaryOfRows(picks)
    BY <1>1, <1>2 DEF IsSummaryOfRows
  <1> QED
    BY <1>1, <1>2, <1>3 DEF SummaryInv

LEMMA SummaryStart == ASSUME Start PROVE SummaryInv'
  <1>1. index' = 1 /\ rows' = <<>> /\ importPc' \in {"load", "raised"}
    BY DEF Start
  <1>2. Loaded' = {} /\ ToSet(rows') = {}
    BY <1>1 DEF Loaded, ToSet
  <1> QED
    BY <1>1, <1>2 DEF SummaryInv

LEMMA SummaryLoad == ASSUME ImportInv, SamplesInv, SummaryInv, Load PROVE SummaryInv'
  <1> DEFINE a == archives[index]
             more == ProfileRows(a)
  <1>1. /\ UNCHANGED archives /\ importPc = "load" /\ RowsAreAll
        /\ archives \in Collections /\ index \in 1..Len(archives) /\ Len(archives) \in Nat
        /\ \A row \in ToSet(rows) : IsRow(row)
        /\ \A k \in Loaded : PowerHolds(archives[k])
    <2>1. archives \in Collections /\ index \in 1..(Len(archives) + 1) /\ importPc = "load" /\ index <= Len(archives)
      BY DEF Load, ImportInv, Comparable
    <2>2. Len(archives) \in Nat
      BY <2>1, ArchivesAre
    <2> QED
      BY <2>1, <2>2 DEF Load, SamplesInv, SummaryInv
  <1>2. CASE importPc' = "raised"
    BY <1>2 DEF SummaryInv
  <1>3. CASE importPc' = "load" /\ index' = index + 1 /\ rows' = rows \o more /\ Acceptable(a)
    <2>1. IsArchive(a) /\ IsSequence(a.runs) /\ \A j \in DOMAIN a.runs : IsRun(a.runs[j])
      <3>1. IsArchive(a) /\ index \in DOMAIN archives
        BY <1>1, ArchivesAre
      <3> QED
        BY <1>1, <3>1, CollectionsAssumption
    <2>2. \A row \in RowsIn(a) : IsRow(row)
      <3>1. \A j \in DOMAIN a.runs : RunHolds(a.runs[j], a.keys["benchmark_cpu"])
        BY <1>3 DEF Acceptable
      <3> HIDE DEF a
      <3> QED
        BY <2>1, <3>1, RowsAreWhole
    <2>3. more \in Seq(RowsIn(a))
      BY <2>1, ProfileRowsAre
    <2>4. ToSet(rows \o more) = ToSet(rows) \cup ToSet(more) /\ ToSet(more) \subseteq RowsIn(a)
      <3> DEFINE V == LoadedRows \cup RowsIn(a)
      <3>1. rows \in Seq(V) /\ more \in Seq(V)
        <4>1. rows \in Seq(LoadedRows)
          BY <1>1 DEF RowsAreAll
        <4> HIDE DEF more
        <4> QED
          BY <4>1, <2>3
      <3> HIDE DEF more, V
      <3>2. ToSet(rows \o more) = ToSet(rows) \cup ToSet(more)
        BY <3>1, ToSetOfBoth
      <3>3. \A k \in DOMAIN more : more[k] \in RowsIn(a)
        BY <2>3
      <3> HIDE DEF a
      <3> QED
        BY <3>2, <3>3 DEF ToSet
    <2>5. \A row \in ToSet(rows') : IsRow(row)
      <3> HIDE DEF more
      <3> QED
        BY <1>1, <1>3, <2>2, <2>4
    <2>6. Loaded' = Loaded \cup {index}
      BY <1>1, <1>3 DEF Loaded
    <2>7. \A k \in Loaded' : PowerHolds(archives'[k])
      BY <1>1, <1>3, <2>6 DEF Acceptable
    <2> QED
      BY <1>3, <2>5, <2>7 DEF SummaryInv
  <1> QED
    BY <1>2, <1>3, <1>1 DEF Load

LEMMA SummarySummarize == ASSUME SummaryInv, Summarize PROVE SummaryInv'
  <1>1. importPc = "load" /\ UNCHANGED <<archives, loopVars>>
    BY DEF Summarize
  <1>2. UNCHANGED <<archives, index, rows, sessions>>
    BY <1>1 DEF loopVars
  <1>3. /\ Loaded' = Loaded /\ MeasuredRegimes' = MeasuredRegimes
        /\ \A regime : OfRegime(regime)' = OfRegime(regime)
    BY <1>2 DEF Loaded, MeasuredRegimes, OfRegime
  <1>4. CASE importPc' = "raised"
    BY <1>4 DEF SummaryInv
  <1>5. CASE ~PhasesRaise
    <2>1. PICK picks \in [1..Estimates -> [DOMAIN sessions -> DOMAIN sessions]] :
            LET regimes == [regime \in MeasuredRegimes |->
                    LET rs == OfRegime(regime)
                    IN  RegimeSummary(rs, regime, Draws(picks, SessionMedians(rs)))]
            IN  /\ importPc' = "write"
                /\ summary' = [accepted |-> Len(rows), sessionCount |-> Len(sessions), regimes |-> regimes,
                               overhead |-> Overhead, cache |-> CachePenalty, first |-> FirstPenalty,
                               bottleneck |-> Bottleneck(regimes), variability |-> Variability(regimes),
                               power |-> HasPower]
      BY <1>5 DEF Summarize
    <2> DEFINE regimes == [regime \in MeasuredRegimes |->
                    RegimeSummary(OfRegime(regime), regime, Draws(picks, SessionMedians(OfRegime(regime))))]
    <2>2. importPc' = "write" /\ summary'.regimes = regimes
      BY <2>1
    <2>3. \A regime \in MeasuredRegimes : summary'.regimes[regime]
            = RegimeSummary(OfRegime(regime), regime, Draws(picks, SessionMedians(OfRegime(regime))))
      BY <2>2
    <2>4. IsSummaryOfRows(picks)'
      BY <1>3, <2>3 DEF IsSummaryOfRows
    <2> HIDE DEF regimes
    <2> QED
      BY <1>1, <1>2, <1>3, <2>2, <2>4 DEF SummaryInv
  <1> QED
    BY <1>4, <1>5 DEF Summarize

LEMMA SummaryStep == ImportInv /\ SamplesInv /\ SummaryInv /\ [Next]_vars => SummaryInv'
  <1> SUFFICES ASSUME ImportInv, SamplesInv, SummaryInv, [Next]_vars PROVE SummaryInv'
    OBVIOUS
  <1>1. CASE Start
    BY <1>1, SummaryStart
  <1>2. CASE Load
    BY <1>2, SummaryLoad
  <1>3. CASE Summarize
    BY <1>3, SummarySummarize
  <1>4. CASE Write
    BY <1>4, SummaryStays DEF Write
  <1>5. CASE Abort
    BY <1>5 DEF Abort, SummaryInv
  <1>6. CASE UNCHANGED vars
    BY <1>6, SummaryStays DEF vars
  <1> QED
    BY <1>1, <1>2, <1>3, <1>4, <1>5, <1>6 DEF Next

\* An injective list of a set of as many elements has all of them.
LEMMA InjectiveListIsWhole ==
    ASSUME NEW S, IsFiniteSet(S), NEW s \in [1..Cardinality(S) -> S],
           \A j, k \in 1..Cardinality(S) : s[j] = s[k] => j = k
    PROVE  \A x \in S : \E k \in 1..Cardinality(S) : s[k] = x
  <1> DEFINE n == Cardinality(S)
  <1>1. n \in Nat /\ FS!IsFiniteSet(S) /\ FS!Cardinality(S) = n
    BY FiniteCardinality, SameSets
  <1>2. FS!Cardinality(1..n) = n
    <2> HIDE DEF n
    <2> QED
      BY <1>1, FiniteInterval, SameSets
  <1>3. s \in FS!Injection(1..n, S)
    BY DEF FS!Injection, FS!IsInjective
  <1>4. s \in FS!Surjection(1..n, S)
    <2> HIDE DEF n
    <2> QED
      BY <1>1, <1>2, <1>3, FS!FS_Injection
  <1> QED
    BY <1>4 DEF FS!Surjection

\* A set that a list of m elements covers has at most m.
LEMMA CoveredIsSmall ==
    ASSUME NEW S, NEW m \in Nat, NEW f \in [1..m -> S], \A x \in S : \E k \in 1..m : f[k] = x
    PROVE  IsFiniteSet(S) /\ Cardinality(S) <= m
  <1>1. f \in FS!Surjection(1..m, S)
    BY DEF FS!Surjection
  <1>2. FS!IsFiniteSet(1..m) /\ FS!Cardinality(1..m) = m
    BY FiniteInterval, SameSets
  <1>3. FS!IsFiniteSet(S) /\ FS!Cardinality(S) <= m
    BY <1>1, <1>2, FS!FS_Surjection
  <1> QED
    BY <1>3, SameSets

\* A finite set is listed by a bijection.
LEMMA SetIsListed ==
    ASSUME NEW S, IsFiniteSet(S)
    PROVE  LET s == SetToSeq(S)
               n == Cardinality(S)
           IN  /\ n \in Nat /\ s \in [1..n -> S]
               /\ \A j, k \in 1..n : s[j] = s[k] => j = k
               /\ \A x \in S : \E k \in 1..n : s[k] = x
  <1> DEFINE n == Cardinality(S)
             s == SetToSeq(S)
  <1>1. n \in Nat
    BY FiniteCardinality
  <1>2. PICK f \in [1..n -> S] : \A j, k \in 1..n : f[j] = f[k] => j = k
    BY FiniteNumbering
  <1>3. IsInjective(f)
    BY <1>2 DEF IsInjective
  <1>4. s \in [1..n -> S] /\ IsInjective(s)
    BY <1>3 DEF SetToSeq
  <1>5. \A j, k \in 1..n : s[j] = s[k] => j = k
    BY <1>4 DEF IsInjective
  <1>6. \A x \in S : \E k \in 1..n : s[k] = x
    <2> HIDE DEF s
    <2> QED
      BY <1>4, <1>5, InjectiveListIsWhole
  <1> QED
    BY <1>1, <1>4, <1>5, <1>6

LEMMA NotEmpty ==
    ASSUME NEW V, NEW s \in Seq(V), s # <<>>
    PROVE  Len(s) \in Nat \ {0} /\ DOMAIN s = 1..Len(s)
  <1>1. Len(s) \in Nat /\ DOMAIN s = 1..Len(s)
    OBVIOUS
  <1>2. ASSUME Len(s) = 0 PROVE FALSE
    <2>1. s = <<>>
      BY <1>1, <1>2
    <2> QED
      BY <2>1
  <1> QED
    BY <1>1, <1>2

\* The medians of a regime's sessions: no more of them than archives.
LEMMA MediansAre ==
    ASSUME NEW V, NEW rs \in Seq(V), rs # <<>>, \A row \in ToSet(rs) : IsRow(row),
           NEW m \in Nat, NEW name \in [1..m -> SessionsOf(rs)],
           \A x \in SessionsOf(rs) : \E k \in 1..m : name[k] = x
    PROVE  \E n \in 1..m : SessionMedians(rs) \in [1..n -> Int]
  <1> DEFINE S == SessionsOf(rs)
             n == Cardinality(S)
             list == SetToSeq(S)
             I(x) == {k \in DOMAIN rs : rs[k].session = x}
  <1>1. Len(rs) \in Nat /\ Len(rs) # 0 /\ DOMAIN rs = 1..Len(rs)
    BY NotEmpty
  <1>2. S # {}
    <2>1. 1 \in DOMAIN rs
      BY <1>1
    <2> QED
      BY <2>1 DEF SessionsOf
  <1>3. IsFiniteSet(S) /\ n <= m
    <2> HIDE DEF S
    <2>1. IsFiniteSet(S) /\ Cardinality(S) <= m
      BY CoveredIsSmall DEF S
    <2> QED
      BY <2>1
  <1>4. n \in Nat /\ list \in [1..n -> S]
    <2> HIDE DEF S
    <2> QED
      BY <1>3, SetIsListed
  <1>5. n # 0
    BY <1>2, <1>3, FiniteEmptySet
  <1>6. ASSUME NEW x \in S PROVE Median(Latencies(Of(rs, x))) \in Int
    <2> DEFINE of == Of(rs, x)
               ls == Latencies(of)
    <2>1. of \in Seq(V) /\ ToSet(of) = {rs[k] : k \in I(x) \cap 1..Len(rs)}
      <3> HIDE DEF I
      <3>1. /\ Subsequence(rs, I(x)) \in Seq(V)
            /\ ToSet(Subsequence(rs, I(x))) = {rs[k] : k \in I(x) \cap 1..Len(rs)}
        BY SubsequenceElements
      <3> QED
        BY <3>1 DEF Of, I
    <2>2. PICK k \in 1..Len(rs) : rs[k].session = x
      BY <1>1 DEF SessionsOf
    <2>3. rs[k] \in ToSet(of)
      BY <1>1, <2>1, <2>2
    <2>4. ToSet(of) \subseteq ToSet(rs)
      BY <1>1, <2>1 DEF ToSet
    <2> HIDE DEF of
    <2>5. Len(of) \in Nat \ {0} /\ DOMAIN of = 1..Len(of)
      <3>1. of # <<>>
        BY <2>3 DEF ToSet
      <3> QED
        BY <2>1, <3>1, NotEmpty
    <2>6. \A j \in 1..Len(of) : of[j].latency \in Int
      BY <2>4, <2>5 DEF ToSet, IsRow
    <2>7. ls \in [1..Len(of) -> Int]
      BY <2>5, <2>6 DEF Latencies
    <2> HIDE DEF ls
    <2>8. Median(ls) \in Int
      BY <2>5, <2>7, MedianIsBetween
    <2> QED
      BY <2>8 DEF ls, of
  <1>7. SessionMedians(rs) = [k \in DOMAIN list |-> Median(Latencies(Of(rs, list[k])))]
    BY DEF SessionMedians
  <1>8. SessionMedians(rs) \in [1..n -> Int]
    <2> HIDE DEF list, S
    <2> QED
      BY <1>4, <1>6, <1>7
  <1>9. n \in 1..m
    <2> HIDE DEF n
    <2> QED
      BY <1>3, <1>4, <1>5
  <1> QED
    BY <1>8, <1>9

LEMMA ThousandthIsBetween ==
    \A l, h, x \in Int : 1000 * l <= x /\ x <= 1000 * h => x \div 1000 \in Int /\ l <= x \div 1000 /\ x \div 1000 <= h
  OBVIOUS

LEMMA LesserIs == \A a, b \in Nat \ {0} : Min({a, b}) \in 1..a
  <1> TAKE a, b \in Nat \ {0}
  <1>1. Min({a, b}) \in {a, b} /\ \A k \in {a, b} : Min({a, b}) <= k
    BY LeastNatural
  <1> QED
    BY <1>1

\* A resampled median lies between the least and the greatest of the medians.
LEMMA DrawsAre ==
    ASSUME NEW m \in Nat, NEW picks \in [1..Estimates -> [1..m -> 1..m]], NEW j \in 1..m, NEW medians \in [1..j -> Int]
    PROVE  /\ Draws(picks, medians) \in [1..Estimates -> Int]
           /\ \A e \in 1..Estimates : /\ Least(medians) <= Draws(picks, medians)[e]
                                     /\ Draws(picks, medians)[e] <= Greatest(medians)
  <1> DEFINE resample(e) == [k \in 1..j |-> medians[Min({j, picks[e][k]})]]
             low == Least(medians)
             high == Greatest(medians)
  <1>1. j \in Nat \ {0}
    OBVIOUS
  <1>2. Len(medians) = j
    BY <1>1, FunctionIsSequence
  <1>3. Draws(picks, medians) = [e \in 1..Estimates |-> Median(resample(e)) \div 1000]
    BY <1>2 DEF Draws, Scale
  <1>4. /\ low \in Int /\ high \in Int
        /\ \A k \in 1..j : low <= medians[k] /\ medians[k] <= high
    BY <1>1, LeastAndGreatest
  <1> HIDE DEF low, high
  <1>5. ASSUME NEW e \in 1..Estimates
        PROVE  LET d == Median(resample(e)) \div 1000 IN d \in Int /\ low <= d /\ d <= high
    <2> DEFINE r == resample(e)
    <2>1. \A k \in 1..j : Min({j, picks[e][k]}) \in 1..j
      <3> TAKE k \in 1..j
      <3>1. picks[e] \in [1..m -> 1..m] /\ k \in 1..m
        BY <1>1
      <3>2. picks[e][k] \in 1..m
        BY <3>1
      <3>3. picks[e][k] \in Nat \ {0}
        BY <3>2
      <3> QED
        BY <1>1, <3>3, LesserIs
    <2>2. r \in [1..j -> Int] /\ \A k \in 1..j : low <= r[k] /\ r[k] <= high
      BY <1>4, <2>1
    <2> HIDE DEF r
    <2>3. /\ Least(r) \in {r[k] : k \in 1..j} /\ Greatest(r) \in {r[k] : k \in 1..j}
          /\ Least(r) \in Int /\ Greatest(r) \in Int
      BY <1>1, <2>2, LeastAndGreatest
    <2>4. low <= Least(r) /\ Greatest(r) <= high
      BY <2>2, <2>3
    <2>5. Median(r) \in Int /\ 1000 * Least(r) <= Median(r) /\ Median(r) <= 1000 * Greatest(r)
      BY <1>1, <2>2, MedianIsBetween DEF Scale
    <2>6. 1000 * low <= Median(r) /\ Median(r) <= 1000 * high
      BY <1>4, <2>3, <2>4, <2>5
    <2>7. Median(r) \div 1000 \in Int /\ low <= Median(r) \div 1000 /\ Median(r) \div 1000 <= high
      BY <1>4, <2>5, <2>6, ThousandthIsBetween
    <2> QED
      BY <2>7 DEF r
  <1> HIDE DEF resample
  <1> QED
    BY <1>3, <1>5 DEF low, high

\* The interval of the resampled medians lies within the medians.
LEMMA IntervalIsWithin ==
    ASSUME NEW m \in Nat, NEW picks \in [1..Estimates -> [1..m -> 1..m]], NEW j \in 1..m, NEW medians \in [1..j -> Int]
    PROVE  LET interval == Interval(medians, Draws(picks, medians))
           IN  /\ Scale * Least(medians) <= interval.lower
               /\ interval.lower <= interval.upper
               /\ interval.upper <= Scale * Greatest(medians)
  <1> DEFINE draws == Draws(picks, medians)
             lower == Percentile(draws, 25)
             upper == Percentile(draws, 975)
  <1>1. Interval(medians, draws).lower = lower /\ Interval(medians, draws).upper = upper
    BY DEF Interval
  <1>2. /\ draws \in [1..Estimates -> Int] /\ Estimates \in Nat \ {0}
        /\ \A e \in 1..Estimates : Least(medians) <= draws[e] /\ draws[e] <= Greatest(medians)
    BY DrawsAre, EstimatesAssumption
  <1>3. Least(medians) \in Int /\ Greatest(medians) \in Int
    <2>1. j \in Nat \ {0}
      OBVIOUS
    <2> QED
      BY <2>1, LeastAndGreatest
  <1> HIDE DEF draws
  <1>4. /\ lower \in Int /\ upper \in Int /\ lower <= upper
        /\ 1000 * Least(draws) <= lower /\ upper <= 1000 * Greatest(draws)
    <2>1. \A q, r \in Int : 0 <= q /\ q <= r /\ r <= 1000 =>
               /\ Percentile(draws, q) \in Int /\ Percentile(draws, q) <= Percentile(draws, r)
               /\ Scale * Least(draws) <= Percentile(draws, q) /\ Percentile(draws, q) <= Scale * Greatest(draws)
      BY <1>2, PercentileIsMonotone
    <2> QED
      BY <2>1 DEF Scale
  <1>5. /\ Least(draws) \in Int /\ Greatest(draws) \in Int
        /\ Least(medians) <= Least(draws) /\ Greatest(draws) <= Greatest(medians)
    <2>1. /\ Least(draws) \in {draws[e] : e \in 1..Estimates} /\ Greatest(draws) \in {draws[e] : e \in 1..Estimates}
          /\ Least(draws) \in Int /\ Greatest(draws) \in Int
      BY <1>2, LeastAndGreatest
    <2> QED
      BY <1>2, <2>1
  <1> HIDE DEF lower, upper
  <1>6. 1000 * Least(medians) <= lower /\ upper <= 1000 * Greatest(medians)
    BY <1>3, <1>4, <1>5
  <1> QED
    BY <1>1, <1>4, <1>6 DEF Scale, draws

\* The columns of a table add up to what its rows add up to.
IsTable(n, m, x, y, z) ==
    /\ n \in Nat /\ m \in Nat /\ z \in [1..m -> [1..n -> Int]] /\ x \in [1..m -> Int] /\ y \in [1..n -> Int]
    /\ \A j \in 1..m : x[j] = Total(z[j])
    /\ \A k \in 1..n : y[k] = Total([j \in 1..m |-> z[j][k]])

LEMMA TotalOfTable ==
    ASSUME NEW n, NEW m, NEW x, NEW y, NEW z, IsTable(n, m, x, y, z)
    PROVE  Total(x) = Total(y)
  <1> DEFINE row(k) == [j \in 1..m |-> z[j][k]]
             upto(c) == [k \in 1..n |-> PrefixSums(row(k))[c]]
             f == [c \in 0..m |-> Total(upto(c))]
  <1>1. /\ n \in Nat /\ m \in Nat /\ z \in [1..m -> [1..n -> Int]] /\ x \in [1..m -> Int] /\ y \in [1..n -> Int]
        /\ (\A j \in 1..m : x[j] = Total(z[j])) /\ \A k \in 1..n : y[k] = Total(row(k))
    BY DEF IsTable
  <1>2. ASSUME NEW k \in 1..n
        PROVE  /\ PrefixSums(row(k)) \in [0..m -> Int] /\ PrefixSums(row(k))[0] = 0
               /\ \A c \in 1..m : PrefixSums(row(k))[c] = PrefixSums(row(k))[c - 1] + z[c][k]
               /\ PrefixSums(row(k))[m] = Total(row(k))
    <2> DEFINE r == row(k)
    <2>1. r \in [1..m -> Int] /\ \A c \in 1..m : r[c] = z[c][k]
      BY <1>1
    <2> HIDE DEF r
    <2>2. r \in Seq(Int) /\ Len(r) = m
      BY <1>1, <2>1, FunctionIsSequence
    <2>3. /\ PrefixSums(r) \in [0..m -> Int] /\ PrefixSums(r)[0] = 0
          /\ \A c \in 1..m : PrefixSums(r)[c] = PrefixSums(r)[c - 1] + r[c]
          /\ PrefixSums(r)[m] = Total(r)
      BY <2>2, SumsExist DEF Total
    <2> QED
      BY <2>1, <2>3 DEF r
  <1> HIDE DEF row
  <1>3. ASSUME NEW c \in 0..m PROVE upto(c) \in [1..n -> Int]
    BY <1>2
  <1>4. f[0] = 0
    <2>1. 0 \in 0..m /\ 0 \in Int
      BY <1>1
    <2>4. \A k \in 1..n : upto(0)[k] = 0
      BY <1>2
    <2>2. upto(0) \in [1..n -> Int]
      BY <1>3, <2>1
    <2> HIDE DEF upto
    <2>3. Total(upto(0)) = n * 0
      BY <1>1, <2>1, <2>2, <2>4, TotalOfConstant
    <2> QED
      BY <1>1, <2>1, <2>3
  <1>5. ASSUME NEW c \in 1..m PROVE f[c] = f[c - 1] + x[c]
    <2>1. c \in 0..m /\ c - 1 \in 0..m
      BY <1>1
    <2>2. upto(c) \in [1..n -> Int] /\ upto(c - 1) \in [1..n -> Int] /\ z[c] \in [1..n -> Int]
      BY <1>1, <1>3, <2>1
    <2>3. \A k \in 1..n : upto(c)[k] = upto(c - 1)[k] + z[c][k]
      BY <1>2
    <2>4. f[c] = Total(upto(c)) /\ f[c - 1] = Total(upto(c - 1)) /\ x[c] = Total(z[c])
      BY <1>1, <2>1
    <2> HIDE DEF upto, f
    <2>5. Total(upto(c)) = Total(upto(c - 1)) + Total(z[c])
      BY <1>1, <2>2, <2>3, TotalOfSum
    <2> QED
      BY <2>4, <2>5
  <1>6. f[m] = Total(y)
    <2>1. f[m] = Total(upto(m))
      BY <1>1
    <2>2. upto(m) = [k \in 1..n |-> y[k]]
      BY <1>1, <1>2
    <2>3. y = [k \in 1..n |-> y[k]]
      BY <1>1
    <2> HIDE DEF upto, f
    <2> QED
      BY <2>1, <2>2, <2>3
  <1> HIDE DEF f
  <1>7. f[m] = Total(x)
    BY <1>1, <1>4, <1>5, SumIs
  <1> QED
    BY <1>6, <1>7

\* Sums of a few numbers.
LEMMA TotalOfTwo ==
    ASSUME NEW x \in [1..2 -> Int]
    PROVE  Total(x) = x[1] + x[2]
  <1> DEFINE p == PrefixSums(x)
  <1>1. x \in Seq(Int) /\ Len(x) = 2
    BY FunctionIsSequence
  <1>2. p \in [0..2 -> Int] /\ p[0] = 0 /\ (\A k \in 1..2 : p[k] = p[k - 1] + x[k]) /\ Total(x) = p[2]
    BY <1>1, SumsExist DEF Total
  <1> HIDE DEF p
  <1>3. p[1] = p[0] + x[1] /\ p[2] = p[1] + x[2]
    BY <1>2
  <1>4. \A k \in 1..2 : x[k] \in Int /\ p[k] \in Int
    BY <1>2
  <1> QED
    BY <1>2, <1>3, <1>4

LEMMA TotalOfSeven ==
    ASSUME NEW x \in [1..7 -> Int]
    PROVE  Total(x) = x[1] + x[2] + x[3] + x[4] + x[5] + x[6] + x[7]
  <1> DEFINE p == PrefixSums(x)
  <1>1. x \in Seq(Int) /\ Len(x) = 7
    BY FunctionIsSequence
  <1>2. p \in [0..7 -> Int] /\ p[0] = 0 /\ (\A k \in 1..7 : p[k] = p[k - 1] + x[k]) /\ Total(x) = p[7]
    BY <1>1, SumsExist DEF Total
  <1> HIDE DEF p
  <1>3. p[1] = p[0] + x[1] /\ p[2] = p[1] + x[2] /\ p[3] = p[2] + x[3] /\ p[4] = p[3] + x[4]
    BY <1>2
  <1>4. p[5] = p[4] + x[5] /\ p[6] = p[5] + x[6] /\ p[7] = p[6] + x[7]
    BY <1>2
  <1>5. \A k \in 1..7 : x[k] \in Int /\ p[k] \in Int
    BY <1>2
  <1> QED
    BY <1>2, <1>3, <1>4, <1>5

LEMMA TotalOfEleven ==
    ASSUME NEW x \in [1..11 -> Int]
    PROVE  Total(x) = x[1] + x[2] + x[3] + x[4] + x[5] + x[6] + x[7] + x[8] + x[9] + x[10] + x[11]
  <1> DEFINE p == PrefixSums(x)
  <1>1. x \in Seq(Int) /\ Len(x) = 11
    BY FunctionIsSequence
  <1>2. p \in [0..11 -> Int] /\ p[0] = 0 /\ (\A k \in 1..11 : p[k] = p[k - 1] + x[k]) /\ Total(x) = p[11]
    BY <1>1, SumsExist DEF Total
  <1> HIDE DEF p
  <1>3. p[1] = p[0] + x[1] /\ p[2] = p[1] + x[2] /\ p[3] = p[2] + x[3] /\ p[4] = p[3] + x[4]
    BY <1>2
  <1>4. p[5] = p[4] + x[5] /\ p[6] = p[5] + x[6] /\ p[7] = p[6] + x[7] /\ p[8] = p[7] + x[8]
    BY <1>2
  <1>5. p[9] = p[8] + x[9] /\ p[10] = p[9] + x[10] /\ p[11] = p[10] + x[11]
    BY <1>2
  <1>6. \A k \in 1..11 : x[k] \in Int /\ p[k] \in Int
    BY <1>2
  <1> QED
    BY <1>2, <1>3, <1>4, <1>5, <1>6

\* What a row accounts for: its phases, its execution and its extraction.
LEMMA AccountedIs ==
    ASSUME NEW row, IsRow(row)
    PROVE  LET p == row.phases
           IN  /\ Accounted(row) = p["runtime_create"] + p["loadable_read"] + p["runtime_load"] + p["emu_init"]
                                     + p["input_setup"] + p["output_setup"] + p["output_write"] + p["buffer_cleanup"]
                                     + p["emu_stop"] + p["runtime_unload"] + p["runtime_destroy"]
                                     + row.execution + row.extract
               /\ \A k \in 1..11 : p[PHASES[k]] \in Int
  <1> DEFINE p == row.phases
             x == [k \in DOMAIN PHASES |-> p[PHASES[k]]]
  <1>1. DOMAIN PHASES = 1..11
    BY DEF PHASES
  <1>2. \A k \in 1..11 : p[PHASES[k]] \in Int
    BY <1>1 DEF IsRow, ToSet
  <1>3. x \in [1..11 -> Int] /\ \A k \in 1..11 : x[k] = p[PHASES[k]]
    BY <1>1, <1>2
  <1>4. Accounted(row) = Total(x) + row.execution + row.extract
    BY DEF Accounted, TimeOf
  <1> HIDE DEF x
  <1>5. Total(x) = x[1] + x[2] + x[3] + x[4] + x[5] + x[6] + x[7] + x[8] + x[9] + x[10] + x[11]
    BY <1>3, TotalOfEleven
  <1>6. /\ PHASES[1] = "runtime_create" /\ PHASES[2] = "loadable_read" /\ PHASES[3] = "runtime_load"
        /\ PHASES[4] = "emu_init" /\ PHASES[5] = "input_setup" /\ PHASES[6] = "output_setup"
        /\ PHASES[7] = "output_write" /\ PHASES[8] = "buffer_cleanup" /\ PHASES[9] = "emu_stop"
        /\ PHASES[10] = "runtime_unload" /\ PHASES[11] = "runtime_destroy"
    BY DEF PHASES
  <1>7. /\ x[1] = p["runtime_create"] /\ x[2] = p["loadable_read"] /\ x[3] = p["runtime_load"]
        /\ x[4] = p["emu_init"] /\ x[5] = p["input_setup"] /\ x[6] = p["output_setup"]
        /\ x[7] = p["output_write"] /\ x[8] = p["buffer_cleanup"] /\ x[9] = p["emu_stop"]
        /\ x[10] = p["runtime_unload"] /\ x[11] = p["runtime_destroy"]
    BY <1>3, <1>6
  <1> QED
    BY <1>2, <1>4, <1>5, <1>7

\* The parts that a row is made of, and the whole that they make up.
PartsOfRow(row, regime) == IF regime = "steady" THEN SteadyAggregates(row) ELSE Aggregates(row)
WholeOf(row, regime) == IF regime = "steady" THEN row.execution + row.extract ELSE row.latency

LEMMA RowPartsAddUp ==
    ASSUME NEW row, IsRow(row), NEW regime
    PROVE  LET names == PartsOf(regime)
               x == [j \in DOMAIN names |-> PartsOfRow(row, regime)[names[j]]]
           IN  /\ Len(names) \in Nat /\ DOMAIN names = 1..Len(names)
               /\ x \in [1..Len(names) -> Int] /\ Total(x) = WholeOf(row, regime)
               /\ \A j \in DOMAIN names : names[j] \in DOMAIN PartsOfRow(row, regime)
  <1> DEFINE list == PartsOf(regime)
             parts == PartsOfRow(row, regime)
             x == [j \in DOMAIN list |-> parts[list[j]]]
             p == row.phases
  <1>1. CASE regime = "steady"
    <2>1. list = <<"runtime_execution", "result_handling">>
      BY <1>1 DEF PartsOf, SteadyParts
    <2>2. parts = [runtime_execution |-> row.execution, result_handling |-> row.extract]
      BY <1>1 DEF PartsOfRow, SteadyAggregates
    <2>3. Len(list) = 2 /\ DOMAIN list = 1..2 /\ \A j \in DOMAIN list : list[j] \in DOMAIN parts
      BY <2>1, <2>2
    <2>4. x \in [1..2 -> Int] /\ x[1] = row.execution /\ x[2] = row.extract
      BY <2>1, <2>2, <2>3 DEF IsRow
    <2> HIDE DEF x
    <2>5. Total(x) = x[1] + x[2]
      BY <2>4, TotalOfTwo
    <2> QED
      BY <1>1, <2>3, <2>4, <2>5 DEF WholeOf, x
  <1>2. CASE regime # "steady"
    <2>1. list = StartParts
      BY <1>2 DEF PartsOf
    <2>2. parts = Aggregates(row)
      BY <1>2 DEF PartsOfRow
    <2>3. Len(list) = 7 /\ DOMAIN list = 1..7
      BY <2>1 DEF StartParts
    <2>4. DOMAIN parts = {"runtime_initialization", "model_loading", "buffer_preparation", "runtime_execution",
                          "result_handling", "teardown", "unprofiled_process_and_launch"}
      BY <2>2 DEF Aggregates
    <2>5. /\ list[1] = "runtime_initialization" /\ list[2] = "model_loading" /\ list[3] = "buffer_preparation"
          /\ list[4] = "runtime_execution" /\ list[5] = "result_handling" /\ list[6] = "teardown"
          /\ list[7] = "unprofiled_process_and_launch"
      BY <2>1 DEF StartParts
    <2>6. \A j \in DOMAIN list : list[j] \in DOMAIN parts
      BY <2>3, <2>4, <2>5
    <2>7. /\ \A k \in 1..11 : p[PHASES[k]] \in Int
          /\ Accounted(row) = p["runtime_create"] + p["loadable_read"] + p["runtime_load"] + p["emu_init"]
                                + p["input_setup"] + p["output_setup"] + p["output_write"] + p["buffer_cleanup"]
                                + p["emu_stop"] + p["runtime_unload"] + p["runtime_destroy"]
                                + row.execution + row.extract
      BY AccountedIs
    <2>8. /\ PHASES[1] = "runtime_create" /\ PHASES[2] = "loadable_read" /\ PHASES[3] = "runtime_load"
          /\ PHASES[4] = "emu_init" /\ PHASES[5] = "input_setup" /\ PHASES[6] = "output_setup"
          /\ PHASES[7] = "output_write" /\ PHASES[8] = "buffer_cleanup" /\ PHASES[9] = "emu_stop"
          /\ PHASES[10] = "runtime_unload" /\ PHASES[11] = "runtime_destroy"
      BY DEF PHASES
    <2>9. /\ p["runtime_create"] \in Int /\ p["loadable_read"] \in Int /\ p["runtime_load"] \in Int
          /\ p["emu_init"] \in Int /\ p["input_setup"] \in Int /\ p["output_setup"] \in Int
          /\ p["output_write"] \in Int /\ p["buffer_cleanup"] \in Int /\ p["emu_stop"] \in Int
          /\ p["runtime_unload"] \in Int /\ p["runtime_destroy"] \in Int
          /\ row.execution \in Int /\ row.extract \in Int /\ row.latency \in Int
      <3>1. row.execution \in Int /\ row.extract \in Int /\ row.latency \in Int
        BY DEF IsRow
      <3>2. /\ p[PHASES[1]] \in Int /\ p[PHASES[2]] \in Int /\ p[PHASES[3]] \in Int /\ p[PHASES[4]] \in Int
            /\ p[PHASES[5]] \in Int /\ p[PHASES[6]] \in Int /\ p[PHASES[7]] \in Int /\ p[PHASES[8]] \in Int
            /\ p[PHASES[9]] \in Int /\ p[PHASES[10]] \in Int /\ p[PHASES[11]] \in Int
        BY <2>7
      <3> HIDE DEF p
      <3> QED
        BY <2>8, <3>1, <3>2
    <2>10. Accounted(row) \in Int
      <3> HIDE DEF p
      <3> QED
        BY <2>7, <2>9
    <2>11. /\ x[1] = p["runtime_create"] + p["emu_init"]
           /\ x[2] = p["loadable_read"] + p["runtime_load"]
           /\ x[3] = p["input_setup"] + p["output_setup"]
           /\ x[4] = row.execution
           /\ x[5] = row.extract + p["output_write"]
           /\ x[6] = p["buffer_cleanup"] + p["emu_stop"] + p["runtime_unload"] + p["runtime_destroy"]
           /\ x[7] = row.latency - Accounted(row)
      BY <2>2, <2>3, <2>5 DEF Aggregates
    <2>12. DOMAIN x = 1..7 /\ x = [j \in 1..7 |-> x[j]]
      BY <2>3
    <2> HIDE DEF x, p
    <2>13. /\ x[1] \in Int /\ x[2] \in Int /\ x[3] \in Int /\ x[4] \in Int /\ x[5] \in Int /\ x[6] \in Int
           /\ x[7] \in Int
      BY <2>9, <2>10, <2>11
    <2>14. x \in [1..7 -> Int]
      <3>1. \A j \in 1..7 : x[j] \in Int
        BY <2>13
      <3> QED
        BY <2>12, <3>1
    <2>15. Total(x) = x[1] + x[2] + x[3] + x[4] + x[5] + x[6] + x[7]
      BY <2>14, TotalOfSeven
    <2>16. Total(x) = row.latency
      BY <2>7, <2>9, <2>11, <2>15
    <2> QED
      BY <1>2, <2>3, <2>6, <2>14, <2>16 DEF WholeOf, x
  <1> QED
    BY <1>1, <1>2

\* The totals of the parts of a regime make up what its rows are as a whole.
LEMMA PartsAddUp ==
    ASSUME NEW rs, Len(rs) \in Nat \ {0}, DOMAIN rs = 1..Len(rs), \A k \in 1..Len(rs) : IsRow(rs[k]), NEW regime
    PROVE  LET totals == PhaseTotals(rs, regime)
           IN  Total([j \in DOMAIN PartsOf(regime) |-> totals[PartsOf(regime)[j]]])
                 = Total([k \in 1..Len(rs) |-> WholeOf(rs[k], regime)])
  <1> DEFINE n == Len(rs)
             list == PartsOf(regime)
             m == Len(list)
             parts == [k \in 1..n |-> PartsOfRow(rs[k], regime)]
             totals == PhaseTotals(rs, regime)
             x == [j \in 1..m |-> totals[list[j]]]
             y == [k \in 1..n |-> WholeOf(rs[k], regime)]
             z == [j \in 1..m |-> [k \in 1..n |-> parts[k][list[j]]]]
  <1>1. n \in Nat \ {0} /\ 1 \in 1..n /\ DOMAIN rs = 1..n
    OBVIOUS
  <1>2. ASSUME NEW k \in 1..n
        PROVE  /\ m \in Nat /\ DOMAIN list = 1..m
               /\ [j \in 1..m |-> parts[k][list[j]]] \in [1..m -> Int]
               /\ Total([j \in 1..m |-> parts[k][list[j]]]) = WholeOf(rs[k], regime)
               /\ \A j \in 1..m : list[j] \in DOMAIN parts[k]
    <2> DEFINE row == rs[k]
    <2>1. IsRow(row)
      OBVIOUS
    <2> HIDE DEF row
    <2>2. /\ m \in Nat /\ DOMAIN list = 1..m
          /\ [j \in DOMAIN list |-> PartsOfRow(row, regime)[list[j]]] \in [1..m -> Int]
          /\ Total([j \in DOMAIN list |-> PartsOfRow(row, regime)[list[j]]]) = WholeOf(row, regime)
          /\ \A j \in DOMAIN list : list[j] \in DOMAIN PartsOfRow(row, regime)
      BY <2>1, RowPartsAddUp
    <2>3. parts[k] = PartsOfRow(row, regime)
      BY DEF row
    <2> HIDE DEF parts, list
    <2> QED
      BY <2>2, <2>3 DEF row
  <1>3. m \in Nat /\ DOMAIN list = 1..m
    BY <1>1, <1>2
  <1>4. totals = [name \in DOMAIN parts[1] |-> Total([k \in 1..n |-> parts[k][name]])]
    BY <1>1 DEF PhaseTotals, PartsOfRow
  <1> HIDE DEF parts, totals, list
  <1>5. ASSUME NEW j \in 1..m PROVE x[j] = Total(z[j])
    <2>1. list[j] \in DOMAIN parts[1]
      BY <1>1, <1>2
    <2>2. totals[list[j]] = Total([k \in 1..n |-> parts[k][list[j]]])
      BY <1>4, <2>1
    <2> QED
      BY <2>2
  <1>6. ASSUME NEW j \in 1..m, NEW k \in 1..n PROVE parts[k][list[j]] \in Int
    BY <1>2
  <1>7. z \in [1..m -> [1..n -> Int]]
    BY <1>6
  <1>8. x \in [1..m -> Int]
    <2> HIDE DEF n
    <2>1. \A j \in 1..m : z[j] \in [1..n -> Int]
      BY <1>7
    <2> HIDE DEF z
    <2>2. \A j \in 1..m : Total(z[j]) \in Int
      BY <1>1, <2>1, TotalIsInteger
    <2>3. \A j \in 1..m : x[j] \in Int
      BY <1>5, <2>2
    <2> QED
      BY <2>3
  <1>9. ASSUME NEW k \in 1..n PROVE y[k] = Total([j \in 1..m |-> z[j][k]]) /\ y[k] \in Int
    <2>1. [j \in 1..m |-> z[j][k]] = [j \in 1..m |-> parts[k][list[j]]]
      OBVIOUS
    <2>2. WholeOf(rs[k], regime) \in Int
      BY DEF WholeOf, IsRow
    <2> QED
      BY <1>2, <2>1, <2>2
  <1>10. y \in [1..n -> Int]
    BY <1>9
  <1>11. IsTable(n, m, x, y, z)
    <2> HIDE DEF x, y, z, n, m
    <2> QED
      BY <1>1, <1>3, <1>5, <1>7, <1>8, <1>9, <1>10 DEF IsTable
  <1>12. Total(x) = Total(y)
    <2> HIDE DEF x, y, z, n, m
    <2> QED
      BY <1>11, TotalOfTable
  <1> QED
    BY <1>3, <1>12 DEF totals, list

\* The rows of a measured regime: there are some, they are of whole numbers, and
\* they come from no more sessions than there are archives.
LEMMA MeasuredRows ==
    ASSUME RowsAreAll, \A row \in ToSet(rows) : IsRow(row), index - 1 \in Nat, NEW regime \in MeasuredRegimes
    PROVE  LET rs == OfRegime(regime)
           IN  /\ rs \in Seq(LoadedRows) /\ rs # <<>> /\ Len(rs) \in Nat \ {0} /\ DOMAIN rs = 1..Len(rs)
               /\ \A k \in 1..Len(rs) : IsRow(rs[k])
               /\ \E n \in 1..(index - 1) : SessionMedians(rs) \in [1..n -> Int]
  <1> DEFINE rs == OfRegime(regime)
             I == {k \in DOMAIN rows : rows[k].regime = regime}
  <1>1. rows \in Seq(LoadedRows) /\ {row.session : row \in ToSet(rows)} = {archives[k].name : k \in Loaded}
    BY DEF RowsAreAll
  <1>2. rs \in Seq(LoadedRows) /\ ToSet(rs) = {rows[k] : k \in I \cap 1..Len(rows)}
    <2> HIDE DEF I
    <2>1. /\ Subsequence(rows, I) \in Seq(LoadedRows)
          /\ ToSet(Subsequence(rows, I)) = {rows[k] : k \in I \cap 1..Len(rows)}
      BY <1>1, SubsequenceElements
    <2> QED
      BY <2>1 DEF OfRegime, I
  <1>3. rs # <<>>
    BY DEF MeasuredRegimes
  <1> HIDE DEF rs, I
  <1>4. Len(rs) \in Nat \ {0} /\ DOMAIN rs = 1..Len(rs)
    BY <1>2, <1>3, NotEmpty
  <1>5. ToSet(rs) \subseteq ToSet(rows)
    <2>1. DOMAIN rows = 1..Len(rows)
      BY <1>1
    <2> QED
      BY <1>2, <2>1 DEF ToSet
  <1>6. \A k \in 1..Len(rs) : rs[k] \in ToSet(rs)
    BY <1>4 DEF ToSet
  <1>7. \A k \in 1..Len(rs) : IsRow(rs[k])
    BY <1>5, <1>6
  <1>8. \E n \in 1..(index - 1) : SessionMedians(rs) \in [1..n -> Int]
    <2> DEFINE of == SessionsOf(rs)
    <2>1. of \subseteq {archives[k].name : k \in Loaded}
      <3>1. of = {row.session : row \in ToSet(rs)}
        BY DEF SessionsOf, ToSet
      <3> QED
        BY <1>1, <1>5, <3>1
    <2>2. PICK first \in of : TRUE
      BY <1>4, <1>6 DEF SessionsOf
    <2> DEFINE f == [k \in 1..(index - 1) |-> IF archives[k].name \in of THEN archives[k].name ELSE first]
    <2>3. f \in [1..(index - 1) -> of] /\ \A x \in of : \E k \in 1..(index - 1) : f[k] = x
      BY <2>1, <2>2 DEF Loaded
    <2>4. \A row \in ToSet(rs) : IsRow(row)
      BY <1>5
    <2> HIDE DEF f
    <2> QED
      BY <1>2, <1>3, <2>3, <2>4, MediansAre
  <1> QED
    BY <1>2, <1>3, <1>4, <1>7, <1>8 DEF rs

\* What the report says of one regime.
RegimeIsConsistent(regime) ==
    LET s == summary.regimes[regime]
        rs == OfRegime(regime)
        medians == SessionMedians(rs)
    IN  /\ QuantilesAreOrdered(Latencies(rs))
        /\ Scale * Least(medians) <= s.interval.lower
        /\ s.interval.lower <= s.interval.upper
        /\ s.interval.upper <= Scale * Greatest(medians)
        /\ Total([k \in DOMAIN PartsOf(regime) |-> s.phases[PartsOf(regime)[k]]])
             = IF regime = "steady" THEN s.execution.total + Total([k \in DOMAIN rs |-> rs[k].extract])
               ELSE s.latency.total

LEMMA RegimesAreConsistent ==
    ASSUME ImportInv, SamplesInv, SummaryInv, importPc = "done", NEW regime \in DOMAIN summary.regimes
    PROVE  RegimeIsConsistent(regime)
  <1> DEFINE rs == OfRegime(regime)
             medians == SessionMedians(rs)
             n == Len(rs)
             m == index - 1
  <1>1. /\ RowsAreAll /\ \A row \in ToSet(rows) : IsRow(row)
        /\ regime \in MeasuredRegimes
    BY DEF SamplesInv, SummaryInv, SummaryCounts
  <1>2. m \in Nat /\ DOMAIN sessions = 1..m
    <2>1. archives \in Collections /\ index \in 1..(Len(archives) + 1)
          /\ sessions \in Seq({SessionOf(archives[k]) : k \in Loaded}) /\ Len(sessions) = index - 1
      BY DEF ImportInv, Comparable
    <2>2. Len(archives) \in Nat
      BY <2>1, ArchivesAre
    <2> QED
      BY <2>1, <2>2
  <1>3. PICK picks \in [1..Estimates -> [1..m -> 1..m]] :
            summary.regimes[regime] = RegimeSummary(rs, regime, Draws(picks, medians))
    BY <1>1, <1>2 DEF SummaryInv, IsSummaryOfRows
  <1> DEFINE s == summary.regimes[regime]
  <1>4. /\ s.interval = Interval(medians, Draws(picks, medians))
        /\ s.phases = PhaseTotals(rs, regime)
        /\ s.latency = Summary(Latencies(rs)) /\ s.execution = Summary(Executions(rs))
    BY <1>3 DEF RegimeSummary
  <1>5. /\ rs \in Seq(LoadedRows) /\ rs # <<>> /\ n \in Nat \ {0} /\ DOMAIN rs = 1..n
        /\ \A k \in 1..n : IsRow(rs[k])
        /\ \E j \in 1..m : medians \in [1..j -> Int]
    BY <1>1, <1>2, MeasuredRows
  <1> HIDE DEF s, rs, medians, m, n
  <1>6. /\ Scale * Least(medians) <= s.interval.lower /\ s.interval.lower <= s.interval.upper
        /\ s.interval.upper <= Scale * Greatest(medians)
    <2>1. PICK j \in 1..m : medians \in [1..j -> Int]
      BY <1>5
    <2> QED
      BY <1>2, <1>4, <2>1, IntervalIsWithin
  <1>7. QuantilesAreOrdered(Latencies(rs))
    <2> DEFINE ls == Latencies(rs)
    <2>1. ls \in [1..n -> Int]
      BY <1>5 DEF Latencies, IsRow
    <2> HIDE DEF ls
    <2>2. QuantilesAreOrdered(ls)
      BY <1>5, <2>1, QuantilesOrdered
    <2> QED
      BY <2>2 DEF ls
  <1>8. Total([k \in DOMAIN PartsOf(regime) |-> s.phases[PartsOf(regime)[k]]])
          = Total([k \in 1..n |-> WholeOf(rs[k], regime)])
    <2>1. LET totals == PhaseTotals(rs, regime)
          IN  Total([j \in DOMAIN PartsOf(regime) |-> totals[PartsOf(regime)[j]]])
                = Total([k \in 1..n |-> WholeOf(rs[k], regime)])
      BY <1>5, PartsAddUp DEF n
    <2> QED
      BY <1>4, <2>1
  <1>9. Total([k \in 1..n |-> WholeOf(rs[k], regime)])
          = IF regime = "steady" THEN s.execution.total + Total([k \in DOMAIN rs |-> rs[k].extract])
            ELSE s.latency.total
    <2> DEFINE w == [k \in 1..n |-> WholeOf(rs[k], regime)]
               ls == Latencies(rs)
               es == Executions(rs)
               xs == [k \in 1..n |-> rs[k].extract]
    <2>1. s.latency.total = Total(ls) /\ s.execution.total = Total(es)
      BY <1>4 DEF Summary
    <2>2. CASE regime = "steady"
      <3>1. es \in [1..n -> Int] /\ xs \in [1..n -> Int] /\ w \in [1..n -> Int]
            /\ \A k \in 1..n : w[k] = es[k] + xs[k]
        BY <1>5, <2>2 DEF WholeOf, Executions, IsRow
      <3> HIDE DEF es, xs, w
      <3>2. IsSumOf(w, es, xs, n)
        BY <3>1 DEF IsSumOf
      <3>3. Total(w) = Total(es) + Total(xs)
        BY <1>5, <3>2, SumsAdd
      <3> QED
        BY <1>5, <2>1, <2>2, <3>3 DEF w, xs
    <2>3. CASE regime # "steady"
      <3>1. w = ls
        BY <1>5, <2>3 DEF WholeOf, Latencies
      <3> HIDE DEF w, ls
      <3> QED
        BY <2>1, <2>3, <3>1 DEF w, ls
    <2> QED
      BY <2>2, <2>3
  <1> QED
    BY <1>6, <1>7, <1>8, <1>9 DEF RegimeIsConsistent, s, rs, medians

-----------------------------------------------------------------------------
(* Energies.                                                                 *)

\* Values that are at most, or at least, the steps of a function add up to at
\* most, or at least, the difference between its ends.
LEMMA TotalOfSteps ==
    ASSUME NEW n \in Nat, NEW x \in [1..n -> Int], NEW u \in [1..(n + 1) -> Int]
    PROVE  /\ (\A k \in 1..n : x[k] <= u[k + 1] - u[k]) => Total(x) <= u[n + 1] - u[1]
           /\ (\A k \in 1..n : u[k + 1] - u[k] <= x[k]) => u[n + 1] - u[1] <= Total(x)
  <1> DEFINE xs == PrefixSums(x)
             Up == {k \in 0..n : xs[k] <= u[k + 1] - u[1]}
             Down == {k \in 0..n : u[k + 1] - u[1] <= xs[k]}
  <1>1. x \in Seq(Int) /\ Len(x) = n
    BY FunctionIsSequence
  <1>2. xs \in [0..n -> Int] /\ xs[0] = 0 /\ (\A k \in 1..n : xs[k] = xs[k - 1] + x[k]) /\ xs[n] = Total(x)
    BY <1>1, SumsExist DEF Total
  <1> HIDE DEF xs
  <1>3. \A k \in 0..(n - 1) : /\ k \in 0..n /\ k + 1 \in 0..n /\ k + 1 \in 1..n
                              /\ k + 1 \in 1..(n + 1) /\ (k + 1) + 1 \in 1..(n + 1)
                              /\ xs[k] \in Int /\ x[k + 1] \in Int /\ xs[k + 1] = xs[k] + x[k + 1]
                              /\ u[k + 1] \in Int /\ u[(k + 1) + 1] \in Int /\ u[1] \in Int
    <2> TAKE k \in 0..(n - 1)
    <2>1. /\ k \in 0..n /\ k + 1 \in 0..n /\ k + 1 \in 1..n /\ (k + 1) - 1 = k
          /\ k + 1 \in 1..(n + 1) /\ (k + 1) + 1 \in 1..(n + 1) /\ 1 \in 1..(n + 1)
      OBVIOUS
    <2> QED
      BY <1>2, <2>1
  <1>4. 0 \in Up /\ 0 \in Down
    BY <1>2
  <1>5. ASSUME \A k \in 1..n : x[k] <= u[k + 1] - u[k] PROVE Total(x) <= u[n + 1] - u[1]
    <2>1. ASSUME NEW k \in 0..(n - 1), k \in Up PROVE k + 1 \in Up
      <3>1. x[k + 1] <= u[(k + 1) + 1] - u[k + 1]
        BY <1>3, <1>5
      <3> QED
        BY <1>3, <2>1, <3>1
    <2> HIDE DEF Up
    <2>2. \A k \in 0..n : k \in Up
      BY <1>4, <2>1, IntervalInduction
    <2>3. n \in Up
      BY <2>2
    <2> QED
      BY <1>2, <2>3 DEF Up
  <1>6. ASSUME \A k \in 1..n : u[k + 1] - u[k] <= x[k] PROVE u[n + 1] - u[1] <= Total(x)
    <2>1. ASSUME NEW k \in 0..(n - 1), k \in Down PROVE k + 1 \in Down
      <3>1. u[(k + 1) + 1] - u[k + 1] <= x[k + 1]
        BY <1>3, <1>6
      <3> QED
        BY <1>3, <2>1, <3>1
    <2> HIDE DEF Down
    <2>2. \A k \in 0..n : k \in Down
      BY <1>4, <2>1, IntervalInduction
    <2>3. n \in Down
      BY <2>2
    <2> QED
      BY <1>2, <2>3 DEF Down
  <1> QED
    BY <1>5, <1>6

\* On an interval of time a curve is a line, whose slope is a whole number.
IsLine(v, x, y) == \E slope \in Int : \A t \in x..y : v[t] = v[x] + (t - x) * slope

LEMMA NextTrapezoid ==
    \A w, m, k \in Int :
        (w + (w + (k + 1) * m)) * (k + 1) = (w + (w + k * m)) * k + ((w + k * m) + (w + (k + 1) * m))
  OBVIOUS

\* The trapezoid over a line is the sum of those of its units of time, which u
\* adds up.
IsUnitSums(u, v, a, b) ==
    /\ u \in [0..(b - a) -> Int] /\ u[0] = 0
    /\ \A k \in 1..(b - a) : u[k] = u[k - 1] + (v[a + k - 1] + v[a + k])
Trapezoid(v, x, y) == (v[x] + v[y]) * (y - x)

LEMMA TrapezoidIs ==
    ASSUME NEW a \in Int, NEW b \in Int, NEW v \in [a..b -> Int],
           NEW u \in [0..(b - a) -> Int], IsUnitSums(u, v, a, b),
           NEW x \in a..b, NEW y \in a..b, x < y, IsLine(v, x, y)
    PROVE  Trapezoid(v, x, y) = u[y - a] - u[x - a]
  <1>1. PICK m \in Int : \A t \in x..y : v[t] = v[x] + (t - x) * m
    BY DEF IsLine
  <1> DEFINE d == y - x
             w == v[x]
             S == {k \in 0..d : (w + (w + k * m)) * k = u[(x - a) + k] - u[x - a]}
  <1>2. d \in Nat /\ w \in Int /\ x - a \in 0..(b - a) /\ x + d = y
    OBVIOUS
  <1>3. \A k \in 0..d : /\ v[x + k] = w + k * m /\ (x - a) + k \in 0..(b - a)
                        /\ u[(x - a) + k] \in Int /\ k \in Int
    <2> TAKE k \in 0..d
    <2>1. x + k \in x..y /\ (x + k) - x = k /\ (x - a) + k \in 0..(b - a)
      OBVIOUS
    <2>2. v[x + k] = w + k * m
      BY <1>1, <2>1
    <2> QED
      BY <2>1, <2>2 DEF IsUnitSums
  <1>4. 0 \in S
    <2>1. (w + (w + 0 * m)) * 0 = 0 /\ (x - a) + 0 = x - a /\ u[x - a] \in Int
      BY <1>2, <1>3
    <2> QED
      BY <1>2, <2>1
  <1>5. ASSUME NEW k \in 0..(d - 1), k \in S PROVE k + 1 \in S
    <2>1. k \in 0..d /\ k + 1 \in 0..d
      BY <1>2
    <2> DEFINE j == (x - a) + (k + 1)
    <2>2. j \in 1..(b - a) /\ a + j - 1 = x + k /\ a + j = x + (k + 1) /\ j - 1 = (x - a) + k
      BY <1>2, <1>3, <2>1
    <2>3. u[j] = u[j - 1] + (v[a + j - 1] + v[a + j])
      BY <2>2 DEF IsUnitSums
    <2>4. u[j] = u[(x - a) + k] + ((w + k * m) + (w + (k + 1) * m))
      BY <1>3, <2>1, <2>2, <2>3
    <2>5. (w + (w + k * m)) * k = u[(x - a) + k] - u[x - a]
      BY <1>5
    <2>6. (w + (w + (k + 1) * m)) * (k + 1) = (w + (w + k * m)) * k + ((w + k * m) + (w + (k + 1) * m))
      <3> HIDE DEF w
      <3>1. w \in Int /\ m \in Int /\ k \in Int
        BY <1>2, <1>3, <2>1
      <3> QED
        BY <3>1, NextTrapezoid
    <2>7. u[(x - a) + k] \in Int /\ u[x - a] \in Int /\ w + k * m \in Int /\ w + (k + 1) * m \in Int
      <3>1. u[x - a] \in Int
        BY <1>2 DEF IsUnitSums
      <3> QED
        BY <1>2, <1>3, <2>1, <3>1
    <2> HIDE DEF w, d
    <2>8. (w + (w + (k + 1) * m)) * (k + 1) = u[j] - u[x - a]
      <3> DEFINE p == w + k * m
                 q == w + (k + 1) * m
                 f == (w + p) * k
                 g == (w + q) * (k + 1)
                 c == u[(x - a) + k]
                 e == u[x - a]
      <3>1. u[j] = c + (p + q) /\ f = c - e /\ g = f + (p + q) /\ c \in Int /\ e \in Int /\ p \in Int /\ q \in Int
        BY <2>4, <2>5, <2>6, <2>7
      <3> HIDE DEF p, q, f, g, c, e, j
      <3>2. g = u[j] - e
        BY <3>1
      <3> QED
        BY <3>2 DEF g, q, e
    <2> QED
      BY <2>1, <2>8
  <1>6. \A k \in 0..d : k \in S
    <2> HIDE DEF S, d
    <2> QED
      BY <1>2, <1>4, <1>5, IntervalInduction
  <1>7. d \in S /\ d \in 0..d
    BY <1>2, <1>6
  <1>8. (w + (w + d * m)) * d = u[(x - a) + d] - u[x - a]
    BY <1>7
  <1>9. v[x + d] = w + d * m
    <2> HIDE DEF d, w
    <2> QED
      BY <1>3, <1>7
  <1>10. x + d = y /\ (x - a) + d = y - a
    OBVIOUS
  <1> QED
    BY <1>8, <1>9, <1>10 DEF Trapezoid

\* Points in time from a to b, between which a curve is a line.
IsPolygon(t, q, v, a, b) ==
    /\ a \in Int /\ b \in Int /\ a < b /\ v \in [a..b -> Int] /\ q \in Nat \ {0}
    /\ t \in [1..(q + 1) -> a..b] /\ t[1] = a /\ t[q + 1] = b
    /\ \A j \in 1..q : t[j] < t[j + 1] /\ IsLine(v, t[j], t[j + 1])

\* What the units of time add up to.
UnitsOf(v, a, b) == Total([k \in 1..(b - a) |-> v[a + k - 1] + v[a + k]])
IsTrapezoids(x, t, q, v) == x \in [1..q -> Int] /\ \A j \in 1..q : x[j] = Trapezoid(v, t[j], t[j + 1])

LEMMA UnitsExist ==
    ASSUME NEW a \in Int, NEW b \in Int, a < b, NEW v \in [a..b -> Int]
    PROVE  LET z == [k \in 1..(b - a) |-> v[a + k - 1] + v[a + k]]
           IN  IsUnitSums(PrefixSums(z), v, a, b) /\ PrefixSums(z)[b - a] = Total(z)
  <1> DEFINE z == [k \in 1..(b - a) |-> v[a + k - 1] + v[a + k]]
  <1>1. b - a \in Nat /\ z \in [1..(b - a) -> Int]
    <2>1. \A k \in 1..(b - a) : a + k - 1 \in a..b /\ a + k \in a..b
      OBVIOUS
    <2> QED
      BY <2>1
  <1>2. z \in Seq(Int) /\ Len(z) = b - a
    <2> HIDE DEF z
    <2> QED
      BY <1>1, FunctionIsSequence
  <1>3. /\ PrefixSums(z) \in [0..(b - a) -> Int] /\ PrefixSums(z)[0] = 0
        /\ \A k \in 1..(b - a) : PrefixSums(z)[k] = PrefixSums(z)[k - 1] + z[k]
    <2> HIDE DEF z
    <2>1. /\ PrefixSums(z) \in [0..Len(z) -> Int] /\ PrefixSums(z)[0] = 0
          /\ \A k \in 1..Len(z) : PrefixSums(z)[k] = PrefixSums(z)[k - 1] + z[k]
      BY <1>2, SumsExist
    <2> QED
      BY <1>2, <2>1
  <1>4. \A k \in 1..(b - a) : z[k] = v[a + k - 1] + v[a + k]
    OBVIOUS
  <1> HIDE DEF z
  <1>5. IsUnitSums(PrefixSums(z), v, a, b)
    BY <1>3, <1>4 DEF IsUnitSums
  <1>6. PrefixSums(z)[b - a] = Total(z)
    BY <1>2 DEF Total
  <1> QED
    BY <1>5, <1>6 DEF z

\* The trapezoids of a polygon are the sum of the units of time; they lie between
\* the least and the greatest of its corners for the whole time.
LEMMA PolygonIsUnits ==
    ASSUME NEW t, NEW q, NEW v, NEW a, NEW b, IsPolygon(t, q, v, a, b), NEW x, IsTrapezoids(x, t, q, v)
    PROVE  Total(x) = UnitsOf(v, a, b)
  <1> DEFINE z == [k \in 1..(b - a) |-> v[a + k - 1] + v[a + k]]
             sums == PrefixSums(z)
             u == [j \in 1..(q + 1) |-> sums[t[j] - a]]
  <1>1. /\ a \in Int /\ b \in Int /\ a < b /\ v \in [a..b -> Int] /\ q \in Nat \ {0}
        /\ t \in [1..(q + 1) -> a..b] /\ t[1] = a /\ t[q + 1] = b
        /\ \A j \in 1..q : t[j] < t[j + 1] /\ IsLine(v, t[j], t[j + 1])
    BY DEF IsPolygon
  <1>2. IsUnitSums(sums, v, a, b) /\ sums[b - a] = Total(z)
    BY <1>1, UnitsExist
  <1>12. x \in [1..q -> Int] /\ \A j \in 1..q : x[j] = Trapezoid(v, t[j], t[j + 1])
    BY DEF IsTrapezoids
  <1> HIDE DEF sums
  <1>11. ASSUME NEW c \in a..b, NEW d \in a..b, c < d, IsLine(v, c, d)
         PROVE  Trapezoid(v, c, d) = sums[d - a] - sums[c - a]
    <2> HIDE DEF u, z
    <2>1. a \in Int
      BY <1>1
    <2>2. b \in Int
      BY <1>1
    <2>3. v \in [a..b -> Int]
      BY <1>1
    <2>4. IsUnitSums(sums, v, a, b)
      BY <1>2
    <2>5. sums \in [0..(b - a) -> Int]
      BY <2>4 DEF IsUnitSums
    <2> QED
      BY <1>11, <2>1, <2>2, <2>3, <2>4, <2>5, TrapezoidIs
  <1>3. sums \in [0..(b - a) -> Int] /\ sums[0] = 0
    BY <1>2 DEF IsUnitSums
  <1>4. u \in [1..(q + 1) -> Int]
    <2>1. \A j \in 1..(q + 1) : t[j] - a \in 0..(b - a)
      BY <1>1
    <2> QED
      BY <1>3, <2>1
  <1>5. ASSUME NEW j \in 1..q PROVE x[j] = u[j + 1] - u[j]
    <2>1. j \in 1..(q + 1) /\ j + 1 \in 1..(q + 1)
      BY <1>1
    <2>2. t[j] \in a..b /\ t[j + 1] \in a..b /\ t[j] < t[j + 1] /\ IsLine(v, t[j], t[j + 1])
      BY <1>1, <2>1
    <2>3. Trapezoid(v, t[j], t[j + 1]) = sums[t[j + 1] - a] - sums[t[j] - a]
      <3> DEFINE c == t[j]
                 d == t[j + 1]
      <3>1. c \in a..b /\ d \in a..b /\ c < d /\ IsLine(v, c, d)
        BY <2>2
      <3> HIDE DEF c, d
      <3>2. Trapezoid(v, c, d) = sums[d - a] - sums[c - a]
        BY <3>1, <1>11
      <3> QED
        BY <3>2 DEF c, d
    <2>4. u[j + 1] = sums[t[j + 1] - a] /\ u[j] = sums[t[j] - a]
      BY <2>1
    <2>5. x[j] = Trapezoid(v, t[j], t[j + 1])
      BY <1>12
    <2> QED
      BY <2>3, <2>4, <2>5
  <1>6. u[1] = 0 /\ u[q + 1] = Total(z)
    <2>1. 1 \in 1..(q + 1) /\ q + 1 \in 1..(q + 1)
      BY <1>1
    <2>2. t[1] - a = 0 /\ t[q + 1] - a = b - a
      BY <1>1
    <2>3. u[1] = sums[t[1] - a] /\ u[q + 1] = sums[t[q + 1] - a]
      BY <2>1
    <2> QED
      BY <1>2, <1>3, <2>2, <2>3
  <1> HIDE DEF u, z
  <1>7. \A j \in 1..q : x[j] <= u[j + 1] - u[j] /\ u[j + 1] - u[j] <= x[j]
    <2> TAKE j \in 1..q
    <2>1. x[j] \in Int /\ x[j] = u[j + 1] - u[j]
      BY <1>5, <1>12
    <2> QED
      BY <2>1
  <1>8. q \in Nat
    BY <1>1
  <1>9. Total(x) <= u[q + 1] - u[1] /\ u[q + 1] - u[1] <= Total(x)
    BY <1>4, <1>7, <1>8, <1>12, TotalOfSteps
  <1>10. Total(x) \in Int /\ u[q + 1] \in Int /\ u[1] \in Int
    <2>1. Total(x) \in Int
      BY <1>8, <1>12, TotalIsInteger
    <2> QED
      BY <1>1, <1>4, <2>1
  <1> QED
    BY <1>6, <1>9, <1>10 DEF z, UnitsOf

LEMMA Between ==
    \A l, h, f, g, x, y \in Int :
        l <= f /\ l <= g /\ f <= h /\ g <= h /\ x < y =>
            /\ (2 * l) * y - (2 * l) * x <= (f + g) * (y - x)
            /\ (f + g) * (y - x) <= (2 * h) * y - (2 * h) * x
  <1> TAKE l, h, f, g, x, y \in Int
  <1> HAVE l <= f /\ l <= g /\ f <= h /\ g <= h /\ x < y
  <1> DEFINE d == y - x
             e == f + g - 2 * l
             c == 2 * h - (f + g)
  <1>1. d \in Nat /\ e \in Nat /\ c \in Nat
    OBVIOUS
  <1>2. e * d >= 0 /\ c * d >= 0
    <2> HIDE DEF d, e, c
    <2>1. \A i, j \in Nat : i * j >= 0
      OBVIOUS
    <2> QED
      BY <1>1, <2>1
  <1>3. e * d = (f + g) * (y - x) - ((2 * l) * y - (2 * l) * x)
    OBVIOUS
  <1>4. c * d = ((2 * h) * y - (2 * h) * x) - (f + g) * (y - x)
    OBVIOUS
  <1>5. (f + g) * (y - x) \in Int /\ (2 * l) * y - (2 * l) * x \in Int /\ (2 * h) * y - (2 * h) * x \in Int
    OBVIOUS
  <1> QED
    BY <1>2, <1>3, <1>4, <1>5

LEMMA PolygonIsBounded ==
    ASSUME NEW t, NEW q, NEW v, NEW a, NEW b, IsPolygon(t, q, v, a, b), NEW x, IsTrapezoids(x, t, q, v),
           NEW low \in Int, NEW high \in Int, \A j \in 1..(q + 1) : low <= v[t[j]] /\ v[t[j]] <= high
    PROVE  2 * low * (b - a) <= Total(x) /\ Total(x) <= 2 * high * (b - a)
  <1> DEFINE lows == [j \in 1..(q + 1) |-> (2 * low) * t[j]]
             highs == [j \in 1..(q + 1) |-> (2 * high) * t[j]]
  <1>1. /\ a \in Int /\ b \in Int /\ a < b /\ v \in [a..b -> Int] /\ q \in Nat \ {0} /\ q \in Nat
        /\ t \in [1..(q + 1) -> a..b] /\ t[1] = a /\ t[q + 1] = b
        /\ \A j \in 1..q : t[j] < t[j + 1]
    BY DEF IsPolygon
  <1>12. x \in [1..q -> Int] /\ \A j \in 1..q : x[j] = Trapezoid(v, t[j], t[j + 1])
    BY DEF IsTrapezoids
  <1>2. lows \in [1..(q + 1) -> Int] /\ highs \in [1..(q + 1) -> Int]
    <2>1. \A j \in 1..(q + 1) : t[j] \in Int
      BY <1>1
    <2> QED
      BY <2>1
  <1>3. \A j \in 1..q : lows[j + 1] - lows[j] <= x[j] /\ x[j] <= highs[j + 1] - highs[j]
    <2> TAKE j \in 1..q
    <2>1. j \in 1..(q + 1) /\ j + 1 \in 1..(q + 1)
      BY <1>1
    <2> DEFINE f == v[t[j]]
               g == v[t[j + 1]]
    <2>2. /\ t[j] \in Int /\ t[j + 1] \in Int /\ t[j] < t[j + 1]
          /\ f \in Int /\ g \in Int /\ low <= f /\ low <= g /\ f <= high /\ g <= high
      BY <1>1, <2>1
    <2>3. x[j] = (f + g) * (t[j + 1] - t[j])
      BY <1>12 DEF Trapezoid
    <2>4. /\ lows[j] = (2 * low) * t[j] /\ lows[j + 1] = (2 * low) * t[j + 1]
          /\ highs[j] = (2 * high) * t[j] /\ highs[j + 1] = (2 * high) * t[j + 1]
      BY <2>1
    <2> HIDE DEF f, g, lows, highs
    <2>5. /\ (2 * low) * t[j + 1] - (2 * low) * t[j] <= (f + g) * (t[j + 1] - t[j])
          /\ (f + g) * (t[j + 1] - t[j]) <= (2 * high) * t[j + 1] - (2 * high) * t[j]
      BY <2>2, Between
    <2> QED
      BY <2>3, <2>4, <2>5
  <1>4. /\ lows[1] = (2 * low) * a /\ lows[q + 1] = (2 * low) * b
        /\ highs[1] = (2 * high) * a /\ highs[q + 1] = (2 * high) * b
    BY <1>1
  <1> HIDE DEF lows, highs
  <1>5. lows[q + 1] - lows[1] <= Total(x)
    BY <1>1, <1>2, <1>3, <1>12, TotalOfSteps
  <1>6. Total(x) <= highs[q + 1] - highs[1]
    BY <1>1, <1>2, <1>3, <1>12, TotalOfSteps
  <1>7. \A c \in Int : (2 * c) * b - (2 * c) * a = 2 * c * (b - a)
    BY <1>1
  <1> QED
    BY <1>4, <1>5, <1>6, <1>7

\* A series of samples, in the order of their times t, with powers p that change
\* by a whole slope between neighbours.
IsSlope(t, p, k, slope) == p[k + 1] - p[k] = slope * (t[k + 1] - t[k])
IsSeries(series, n, t, p) ==
    /\ n \in Nat /\ 2 <= n /\ t \in [1..n -> Int] /\ p \in [1..n -> Int]
    /\ series = [k \in 1..n |-> [time |-> t[k], power |-> p[k]]]
    /\ \A k \in 1..(n - 1) : t[k] < t[k + 1] /\ \E slope \in Int : IsSlope(t, p, k, slope)

LEMMA SeriesAre ==
    ASSUME NEW series, NEW n, NEW t, NEW p, IsSeries(series, n, t, p)
    PROVE  /\ Len(series) = n /\ DOMAIN series = 1..n
           /\ \A k \in 1..n : series[k].time = t[k] /\ series[k].power = p[k]
  <1>1. n \in Nat /\ series = [k \in 1..n |-> [time |-> t[k], power |-> p[k]]]
    BY DEF IsSeries
  <1>2. series \in [1..n -> {series[k] : k \in 1..n}]
    BY <1>1
  <1>3. Len(series) = n /\ DOMAIN series = 1..n
    BY <1>1, <1>2, FunctionIsSequence
  <1> QED
    BY <1>1, <1>3

LEMMA TimesIncrease ==
    ASSUME NEW series, NEW n, NEW t, NEW p, IsSeries(series, n, t, p), NEW j \in 1..n, NEW k \in 1..n, j < k
    PROVE  t[j] < t[k]
  <1> DEFINE S == {i \in 1..n : t[j] < t[i]}
  <1>1. n \in Nat /\ t \in [1..n -> Int] /\ \A i \in 1..(n - 1) : t[i] < t[i + 1]
    BY DEF IsSeries
  <1>2. j + 1 \in S
    <2>1. j \in 1..(n - 1) /\ j + 1 \in 1..n
      BY <1>1
    <2> QED
      BY <1>1, <2>1
  <1>3. ASSUME NEW i \in (j + 1)..(n - 1), i \in S PROVE i + 1 \in S
    <2>1. i \in 1..(n - 1) /\ i + 1 \in 1..n
      BY <1>1
    <2>2. t[i] < t[i + 1] /\ t[i] \in Int /\ t[i + 1] \in Int /\ t[j] \in Int
      BY <1>1, <2>1
    <2> QED
      BY <1>3, <2>1, <2>2
  <1>4. j + 1 \in Nat /\ n \in Nat /\ k \in (j + 1)..n
    BY <1>1
  <1>5. k \in S
    <2> HIDE DEF S
    <2>1. \A i \in (j + 1)..n : i \in S
      BY <1>2, <1>3, <1>4, IntervalInduction
    <2> QED
      BY <1>4, <2>1
  <1> QED
    BY <1>5

LEMMA Divides == \A x, m \in Int : \A g \in Nat \ {0} : (x * (m * g)) \div g = x * m
  <1> TAKE x, m \in Int
  <1> TAKE g \in Nat \ {0}
  <1> DEFINE y == x * m
  <1>1. y \in Int /\ x * (m * g) = y * g
    OBVIOUS
  <1> HIDE DEF y
  <1>2. (y * g) \div g = y
    BY <1>1
  <1> QED
    BY <1>1, <1>2 DEF y

\* Between two samples the power is on the line through them.
LEMMA InterpolateIs ==
    ASSUME NEW series, NEW n, NEW t, NEW p, IsSeries(series, n, t, p),
           NEW k \in 1..(n - 1), NEW time \in t[k]..t[k + 1], NEW slope \in Int, IsSlope(t, p, k, slope)
    PROVE  Interpolate(series, time) = p[k] + (time - t[k]) * slope
  <1>1. /\ n \in Nat /\ 2 <= n /\ t \in [1..n -> Int] /\ p \in [1..n -> Int]
        /\ \A i \in 1..(n - 1) : t[i] < t[i + 1]
    BY DEF IsSeries
  <1>2. /\ Len(series) = n /\ DOMAIN series = 1..n
        /\ \A i \in 1..n : series[i].time = t[i] /\ series[i].power = p[i]
    BY SeriesAre
  <1>3. k \in 1..n /\ k + 1 \in 1..n /\ n \in 1..n
    BY <1>1
  <1>4. /\ t[k] \in Int /\ t[k + 1] \in Int /\ p[k] \in Int /\ p[k + 1] \in Int /\ time \in Int /\ t[n] \in Int
        /\ t[k] <= time /\ time <= t[k + 1] /\ t[k] < t[k + 1]
        /\ p[k + 1] = p[k] + slope * (t[k + 1] - t[k])
    BY <1>1, <1>3 DEF IsSlope
  <1>5. \A i \in 1..(n - 1) : i \in Surrounding(series, time) <=> (t[i] <= time /\ time < t[i + 1])
    <2> TAKE i \in 1..(n - 1)
    <2>1. i \in 1..n /\ i + 1 \in 1..n
      BY <1>1
    <2>2. t[i] \in Int /\ t[i + 1] \in Int /\ t[i] < t[i + 1]
      BY <1>1, <2>1
    <2>3. series[i].time = t[i] /\ series[i + 1].time = t[i + 1]
      BY <1>2, <2>1
    <2>4. i \in Surrounding(series, time) <=> Surround(series, i, time)
      BY <1>2 DEF Surrounding
    <2>5. Surround(series, i, time) <=> t[i] = time \/ (t[i] < time /\ time < t[i + 1])
      BY <2>3 DEF Surround
    <2> QED
      BY <1>4, <2>2, <2>4, <2>5
  <1>6. ASSUME NEW i \in 1..(n - 1), i \in Surrounding(series, time) PROVE Min(Surrounding(series, time)) = i
    <2>1. ASSUME NEW j \in 1..(n - 1), j \in Surrounding(series, time) PROVE j = i
      <3>1. /\ t[i] <= time /\ time < t[i + 1] /\ t[j] <= time /\ time < t[j + 1]
        BY <1>5, <1>6, <2>1
      <3>2. i \in 1..n /\ i + 1 \in 1..n /\ j \in 1..n /\ j + 1 \in 1..n
        BY <1>1
      <3>3. t[i] \in Int /\ t[i + 1] \in Int /\ t[j] \in Int /\ t[j + 1] \in Int
        BY <1>1, <3>2
      <3>4. i < j => t[i + 1] <= t[j]
        <4>1. CASE i + 1 < j
          <5>1. t[i + 1] < t[j]
            BY <3>2, <4>1, TimesIncrease
          <5> QED
            BY <3>3, <5>1
        <4>2. CASE i + 1 = j
          BY <3>3, <4>2
        <4> QED
          BY <4>1, <4>2
      <3>5. j < i => t[j + 1] <= t[i]
        <4>1. CASE j + 1 < i
          <5>1. t[j + 1] < t[i]
            BY <3>2, <4>1, TimesIncrease
          <5> QED
            BY <3>3, <5>1
        <4>2. CASE j + 1 = i
          BY <3>3, <4>2
        <4> QED
          BY <4>1, <4>2
      <3> QED
        BY <1>4, <3>1, <3>3, <3>4, <3>5
    <2>2. \A j \in Surrounding(series, time) : j \in 1..(n - 1)
      BY <1>2 DEF Surrounding
    <2>3. Surrounding(series, time) = {i}
      BY <1>6, <2>1, <2>2
    <2> QED
      BY <2>3 DEF Min
  <1>7. CASE time = t[n]
    <2>1. k = n - 1
      <3>1. ASSUME k + 1 < n PROVE FALSE
        <4>1. t[k + 1] < t[n]
          BY <1>3, <3>1, TimesIncrease
        <4> QED
          BY <1>4, <1>7, <4>1
      <3> QED
        BY <1>1, <3>1
    <2>2. Interpolate(series, time) = p[n]
      BY <1>2, <1>3, <1>7 DEF Interpolate
    <2>3. p[n] = p[k] + slope * (t[n] - t[k])
      BY <1>1, <1>4, <2>1
    <2> QED
      BY <1>4, <1>7, <2>2, <2>3
  <1>8. CASE time # t[n] /\ time < t[k + 1]
    <2>1. Min(Surrounding(series, time)) = k
      BY <1>4, <1>5, <1>6, <1>8
    <2> DEFINE x == time - t[k]
               gap == t[k + 1] - t[k]
    <2>2. CASE time = t[k]
      <3>1. Interpolate(series, time) = p[k]
        BY <1>2, <1>3, <1>8, <2>1, <2>2 DEF Interpolate
      <3>2. x * slope = 0
        BY <1>4, <2>2
      <3> QED
        BY <1>4, <3>1, <3>2
    <2>3. CASE time # t[k]
      <3>1. Interpolate(series, time) = p[k] + (x * (p[k + 1] - p[k])) \div gap
        BY <1>2, <1>3, <1>8, <2>1, <2>3 DEF Interpolate
      <3>2. gap \in Nat \ {0} /\ x \in Int /\ p[k + 1] - p[k] = slope * gap
        BY <1>4
      <3> HIDE DEF gap, x
      <3>3. (x * (slope * gap)) \div gap = x * slope
        BY <3>2, Divides
      <3> QED
        BY <3>1, <3>2, <3>3 DEF x
    <2> QED
      BY <2>2, <2>3
  <1>9. CASE time # t[n] /\ time = t[k + 1]
    <2> DEFINE i == k + 1
    <2>1. i \in 1..(n - 1) /\ i \in 1..n /\ i + 1 \in 1..n
      <3>1. k + 1 # n
        BY <1>9
      <3> QED
        BY <1>1, <3>1
    <2> HIDE DEF i
    <2>2. t[i] \in Int /\ t[i + 1] \in Int /\ t[i] < t[i + 1] /\ time = t[i] /\ p[i] \in Int /\ p[i + 1] \in Int
      <3>1. time = t[i]
        BY <1>9 DEF i
      <3> QED
        BY <1>1, <2>1, <3>1
    <2>3. Min(Surrounding(series, time)) = i
      BY <1>5, <1>6, <2>1, <2>2
    <2>4. Interpolate(series, time) = p[i]
      BY <1>2, <1>3, <1>9, <2>1, <2>2, <2>3 DEF Interpolate
    <2>5. p[i] = p[k] + slope * (t[k + 1] - t[k])
      BY <1>4 DEF i
    <2> QED
      BY <1>4, <1>9, <2>4, <2>5
  <1>10. \/ time = t[n]
         \/ time # t[n] /\ time < t[k + 1]
         \/ time # t[n] /\ time = t[k + 1]
    <2>1. time \in Int /\ t[k + 1] \in Int /\ time <= t[k + 1]
      BY <1>4
    <2>2. time < t[k + 1] \/ time = t[k + 1]
      BY <2>1
    <2> QED
      BY <2>2
  <1> QED
    BY <1>7, <1>8, <1>9, <1>10

\* What is selected at the indices of an interval are its elements, one after the
\* other.
IsIntervalOf(I, n, first, last) ==
    /\ first \in Nat \ {0} /\ last \in 0..n /\ first <= last + 1
    /\ \A k \in 1..n : k \in I <=> first <= k /\ k <= last
IsSlice(slice, s, first, last) ==
    Len(slice) = last - first + 1 /\ \A j \in 1..(last - first + 1) : slice[j] = s[first + j - 1]

LEMMA SubsequenceOfInterval ==
    ASSUME NEW V, NEW s \in Seq(V), NEW first \in Nat, NEW last \in Nat, NEW I, IsIntervalOf(I, Len(s), first, last)
    PROVE  Subsequence(s, I) \in Seq(V) /\ IsSlice(Subsequence(s, I), s, first, last)
  <1> DEFINE n == Len(s)
             chosen == SelectedPrefixes(s, I)
             Size(k) == IF k < first THEN 0 ELSE IF k <= last THEN k - first + 1 ELSE last - first + 1
             S == {k \in 0..n : Len(chosen[k]) = Size(k) /\ \A j \in 1..Size(k) : chosen[k][j] = s[first + j - 1]}
  <1>1. n \in Nat /\ \A k \in 1..n : s[k] \in V
    OBVIOUS
  <1>2. /\ chosen \in [0..n -> Seq(V)] /\ chosen[0] = <<>>
        /\ \A k \in 1..n : chosen[k] = IF k \in I THEN Append(chosen[k - 1], s[k]) ELSE chosen[k - 1]
    BY SelectionExists
  <1> HIDE DEF chosen
  <1>9. /\ first \in Nat \ {0} /\ last \in 0..n /\ first <= last + 1
        /\ \A k \in 1..n : k \in I <=> first <= k /\ k <= last
    BY DEF IsIntervalOf
  <1>3. 0 \in S
    <2>1. Size(0) = 0 /\ Len(chosen[0]) = 0
      BY <1>2, <1>9
    <2> QED
      BY <1>1, <2>1
  <1>4. ASSUME NEW k \in 0..(n - 1), k \in S PROVE k + 1 \in S
    <2>1. k \in 0..n /\ k + 1 \in 0..n /\ k + 1 \in 1..n /\ (k + 1) - 1 = k
      BY <1>1
    <2>2. chosen[k] \in Seq(V) /\ s[k + 1] \in V
      BY <1>1, <1>2, <2>1
    <2>3. Len(chosen[k]) = Size(k) /\ \A j \in 1..Size(k) : chosen[k][j] = s[first + j - 1]
      BY <1>4
    <2>4. Size(k) \in Nat
      BY <1>9, <2>1
    <2>5. CASE k + 1 \in I
      <3>1. first <= k + 1 /\ k + 1 <= last
        BY <1>9, <2>1, <2>5
      <3>2. Size(k + 1) = Size(k) + 1 /\ first + (Size(k) + 1) - 1 = k + 1
        BY <1>9, <2>1, <3>1
      <3>3. chosen[k + 1] = Append(chosen[k], s[k + 1])
        BY <1>2, <2>1, <2>5
      <3> DEFINE z == Size(k)
      <3>4. Size(k + 1) = z + 1 /\ first + (z + 1) - 1 = k + 1 /\ z \in Nat
            /\ Len(chosen[k]) = z /\ \A j \in 1..z : chosen[k][j] = s[first + j - 1]
        BY <2>3, <2>4, <3>2
      <3> HIDE DEF z, Size
      <3>5. /\ Len(chosen[k + 1]) = z + 1 /\ chosen[k + 1][z + 1] = s[k + 1]
            /\ \A j \in 1..z : chosen[k + 1][j] = chosen[k][j]
        <4> DEFINE c == chosen[k]
                   e == s[k + 1]
        <4>1. c \in Seq(V) /\ e \in V /\ Len(c) = z /\ z \in Nat
          BY <2>2, <3>4
        <4> HIDE DEF c, e
        <4>2. /\ Len(Append(c, e)) = z + 1 /\ Append(c, e)[z + 1] = e
              /\ \A j \in 1..z : Append(c, e)[j] = c[j]
          BY <4>1
        <4> QED
          BY <3>3, <4>2 DEF c, e
      <3>6. ASSUME NEW j \in 1..(z + 1) PROVE chosen[k + 1][j] = s[first + j - 1]
        <4>1. CASE j = z + 1
          BY <3>4, <3>5, <4>1
        <4>2. CASE j \in 1..z
          BY <3>4, <3>5, <4>2
        <4> QED
          BY <3>4, <4>1, <4>2
      <3> QED
        BY <2>1, <3>4, <3>5, <3>6
    <2>6. CASE k + 1 \notin I
      <3>1. ~(first <= k + 1 /\ k + 1 <= last)
        BY <1>9, <2>1, <2>6
      <3>2. Size(k + 1) = Size(k)
        BY <1>9, <2>1, <3>1
      <3>3. chosen[k + 1] = chosen[k]
        BY <1>2, <2>1, <2>6
      <3> HIDE DEF Size
      <3> QED
        BY <2>1, <2>3, <3>2, <3>3
    <2> QED
      BY <2>5, <2>6
  <1>5. \A k \in 0..n : k \in S
    <2> HIDE DEF S
    <2> QED
      BY <1>1, <1>3, <1>4, IntervalInduction
  <1>6. Len(chosen[n]) = Size(n) /\ \A j \in 1..Size(n) : chosen[n][j] = s[first + j - 1]
    <2>1. n \in S
      BY <1>1, <1>5
    <2> HIDE DEF Size
    <2> QED
      BY <2>1
  <1>10. Size(n) = last - first + 1
    BY <1>1, <1>9
  <1>7. Subsequence(s, I) = chosen[n]
    BY DEF Subsequence, chosen
  <1>8. chosen[n] \in Seq(V)
    BY <1>1, <1>2
  <1> HIDE DEF Size
  <1> QED
    BY <1>6, <1>7, <1>8, <1>10 DEF IsSlice

\* Every time from the first to the last sample is between two neighbours.
LEMMA SegmentExists ==
    ASSUME NEW series, NEW n, NEW t, NEW p, IsSeries(series, n, t, p), NEW time \in t[1]..t[n]
    PROVE  \E k \in 1..(n - 1) : time \in t[k]..t[k + 1]
  <1> DEFINE I == {k \in 1..(n - 1) : t[k] <= time}
             x == [k \in 1..(n - 1) |-> t[k]]
  <1>1. n \in Nat /\ 2 <= n /\ t \in [1..n -> Int] /\ n - 1 \in Nat /\ 1 \in 1..(n - 1) /\ 1 \in 1..n /\ n \in 1..n
    BY DEF IsSeries
  <1>2. x \in [1..(n - 1) -> Int] /\ I \in SUBSET (1..(n - 1)) /\ \A k \in 1..(n - 1) : x[k] = t[k]
    BY <1>1
  <1>3. t[1] \in Int /\ t[n] \in Int /\ time \in Int /\ t[1] <= time /\ time <= t[n]
    BY <1>1
  <1>4. I # {}
    BY <1>1, <1>3
  <1>5. PICK j \in I : \A k \in I : x[k] <= x[j]
    <2> HIDE DEF I, x
    <2> QED
      BY <1>1, <1>2, <1>4, GreatestExists
  <1>6. j \in 1..(n - 1) /\ t[j] <= time /\ j + 1 \in 1..n /\ j \in 1..n /\ t[j] \in Int /\ t[j + 1] \in Int
    BY <1>1, <1>5
  <1>7. CASE j + 1 = n
    BY <1>3, <1>6, <1>7
  <1>8. CASE j + 1 # n
    <2>1. j + 1 \in 1..(n - 1)
      BY <1>1, <1>6, <1>8
    <2>2. t[j] < t[j + 1]
      BY <1>6 DEF IsSeries
    <2>3. j + 1 \notin I
      <3> SUFFICES ASSUME j + 1 \in I PROVE FALSE
        OBVIOUS
      <3>1. x[j + 1] = t[j + 1] /\ x[j] = t[j]
        BY <1>2, <1>6, <2>1
      <3> HIDE DEF I, x
      <3>2. x[j + 1] <= x[j]
        BY <1>5
      <3> QED
        BY <1>6, <2>2, <3>1, <3>2
    <2>4. ~(t[j + 1] <= time)
      BY <2>1, <2>3
    <2> QED
      BY <1>3, <1>6, <2>4
  <1> QED
    BY <1>7, <1>8

\* The power at each time from a to b.
Curve(series, a, b) == [x \in a..b |-> Interpolate(series, x)]

LEMMA CurveIsWhole ==
    ASSUME NEW series, NEW n, NEW t, NEW p, IsSeries(series, n, t, p), NEW time \in t[1]..t[n]
    PROVE  Interpolate(series, time) \in Int
  <1>1. PICK k \in 1..(n - 1) : time \in t[k]..t[k + 1]
    BY SegmentExists
  <1>2. PICK slope \in Int : IsSlope(t, p, k, slope)
    BY DEF IsSeries
  <1>3. Interpolate(series, time) = p[k] + (time - t[k]) * slope
    BY <1>1, <1>2, InterpolateIs
  <1>4. p[k] \in Int /\ t[k] \in Int /\ time \in Int
    <2>1. n \in Nat /\ t \in [1..n -> Int] /\ p \in [1..n -> Int] /\ k \in 1..n /\ k + 1 \in 1..n
      BY DEF IsSeries
    <2> QED
      BY <1>1, <2>1
  <1> QED
    BY <1>3, <1>4

LEMMA CurveIsLine ==
    ASSUME NEW series, NEW n, NEW t, NEW p, IsSeries(series, n, t, p),
           NEW a \in Int, NEW b \in Int, NEW k \in 1..(n - 1), NEW x \in a..b, NEW y \in a..b,
           t[k] <= x, x < y, y <= t[k + 1]
    PROVE  IsLine(Curve(series, a, b), x, y)
  <1> DEFINE v == Curve(series, a, b)
  <1>1. PICK m \in Int : IsSlope(t, p, k, m)
    BY DEF IsSeries
  <1>2. p[k] \in Int /\ t[k] \in Int /\ t[k + 1] \in Int
    <2>1. n \in Nat /\ t \in [1..n -> Int] /\ p \in [1..n -> Int] /\ k \in 1..n /\ k + 1 \in 1..n
      BY DEF IsSeries
    <2> QED
      BY <2>1
  <1>3. ASSUME NEW z \in x..y PROVE v[z] = p[k] + (z - t[k]) * m /\ z \in Int
    <2>1. z \in a..b /\ z \in t[k]..t[k + 1]
      BY <1>2
    <2>2. Interpolate(series, z) = p[k] + (z - t[k]) * m
      BY <1>1, <2>1, InterpolateIs
    <2> QED
      BY <2>1, <2>2 DEF Curve
  <1> HIDE DEF v
  <1>4. \A c, d, e, f, g \in Int : c + (d - e) * f = (c + (g - e) * f) + (d - g) * f
    OBVIOUS
  <1>5. x \in x..y /\ x \in Int
    OBVIOUS
  <1>6. ASSUME NEW z \in x..y PROVE v[z] = v[x] + (z - x) * m
    <2>1. v[z] = p[k] + (z - t[k]) * m /\ z \in Int
      BY <1>3
    <2>2. v[x] = p[k] + (x - t[k]) * m
      BY <1>3, <1>5
    <2>3. p[k] + (z - t[k]) * m = (p[k] + (x - t[k]) * m) + (z - x) * m
      BY <1>2, <1>4, <1>5, <2>1
    <2> QED
      BY <2>1, <2>2, <2>3
  <1> QED
    BY <1>6 DEF IsLine, v

\* The last sample no later than one time and the first no earlier than another.
IsWithin(t, n, a, b, j, h) ==
    /\ j \in 1..(n - 1) /\ h \in 2..n /\ j < h
    /\ t[j] <= a /\ a < t[j + 1] /\ t[h - 1] < b /\ b <= t[h]

LEMMA WithinExists ==
    ASSUME NEW series, NEW n, NEW t, NEW p, IsSeries(series, n, t, p),
           NEW a \in Int, NEW b \in Int, a < b, t[1] <= a, b <= t[n]
    PROVE  \E j, h : IsWithin(t, n, a, b, j, h)
  <1> DEFINE J == {k \in 1..n : t[k] <= a}
             H == {k \in 1..n : b <= t[k]}
  <1>1. n \in Nat /\ 2 <= n /\ t \in [1..n -> Int] /\ 1 \in 1..n /\ n \in 1..n
        /\ \A i \in 1..(n - 1) : t[i] < t[i + 1]
    BY DEF IsSeries
  <1>2. J \in SUBSET (1..n) /\ J # {} /\ H \in SUBSET (1..n) /\ H # {}
    BY <1>1
  <1>3. (\E j \in J : \A k \in J : t[k] <= t[j]) /\ \E h \in H : \A k \in H : t[h] <= t[k]
    <2> HIDE DEF J, H
    <2>1. \E j \in J : \A k \in J : t[k] <= t[j]
      BY <1>1, <1>2, GreatestExists
    <2>2. \E h \in H : \A k \in H : t[h] <= t[k]
      BY <1>1, <1>2, LeastExists
    <2> QED
      BY <2>1, <2>2
  <1>4. PICK j \in J : \A k \in J : t[k] <= t[j]
    BY <1>3
  <1>5. PICK h \in H : \A k \in H : t[h] <= t[k]
    BY <1>3
  <1>6. /\ j \in 1..n /\ t[j] <= a /\ h \in 1..n /\ b <= t[h]
        /\ t[j] \in Int /\ t[h] \in Int /\ t[1] \in Int /\ t[n] \in Int
    BY <1>1, <1>4, <1>5
  <1>7. j # n /\ h # 1
    BY <1>6
  <1>8. j \in 1..(n - 1) /\ h \in 2..n /\ j + 1 \in 1..n /\ h - 1 \in 1..n /\ h - 1 \in 1..(n - 1) /\ (h - 1) + 1 = h
    BY <1>1, <1>6, <1>7
  <1>9. t[j + 1] \in Int /\ t[h - 1] \in Int /\ t[j] < t[j + 1] /\ t[h - 1] < t[h]
    <2>1. t[j] < t[j + 1]
      BY <1>1, <1>8
    <2>2. t[h - 1] < t[(h - 1) + 1]
      BY <1>1, <1>8
    <2> QED
      BY <1>1, <1>8, <2>1, <2>2
  <1>10. a < t[j + 1]
    <2> SUFFICES ASSUME t[j + 1] <= a PROVE FALSE
      BY <1>9
    <2>1. j + 1 \in J
      BY <1>8
    <2>2. t[j + 1] <= t[j]
      BY <1>4, <2>1
    <2> QED
      BY <1>6, <1>9, <2>2
  <1>11. t[h - 1] < b
    <2> SUFFICES ASSUME b <= t[h - 1] PROVE FALSE
      BY <1>9
    <2>1. h - 1 \in H
      BY <1>8
    <2>2. t[h] <= t[h - 1]
      BY <1>5, <2>1
    <2> QED
      BY <1>6, <1>9, <2>2
  <1>12. j < h
    <2> SUFFICES ASSUME h <= j PROVE FALSE
      BY <1>8
    <2>1. t[h] <= t[j]
      <3>1. CASE h = j
        BY <1>6, <3>1
      <3>2. CASE h < j
        <4>1. t[h] < t[j]
          BY <1>6, <3>2, TimesIncrease
        <4> QED
          BY <1>6, <4>1
      <3> QED
        BY <1>8, <3>1, <3>2
    <2> QED
      BY <1>6, <2>1
  <1> HIDE DEF J, H
  <1>13. IsWithin(t, n, a, b, j, h)
    BY <1>6, <1>8, <1>10, <1>11, <1>12 DEF IsWithin
  <1> QED
    BY <1>13

\* The times of a clipped series: the two ends, and the samples between them.
Corners(t, a, b, j, h) ==
    [i \in 1..(h - j + 1) |-> IF i = 1 THEN a ELSE IF i = h - j + 1 THEN b ELSE t[j + i - 1]]

LEMMA CornersAre ==
    ASSUME NEW series, NEW n, NEW t, NEW p, IsSeries(series, n, t, p),
           NEW a \in Int, NEW b \in Int, a < b, t[1] <= a, b <= t[n],
           NEW j, NEW h, IsWithin(t, n, a, b, j, h)
    PROVE  IsPolygon(Corners(t, a, b, j, h), h - j, Curve(series, a, b), a, b)
  <1> DEFINE q == h - j
             c == Corners(t, a, b, j, h)
             v == Curve(series, a, b)
  <1>1. /\ n \in Nat /\ 2 <= n /\ t \in [1..n -> Int] /\ 1 \in 1..n /\ n \in 1..n
        /\ \A i \in 1..(n - 1) : t[i] < t[i + 1]
    BY DEF IsSeries
  <1>2. /\ j \in 1..(n - 1) /\ h \in 2..n /\ j < h
        /\ t[j] <= a /\ a < t[j + 1] /\ t[h - 1] < b /\ b <= t[h]
    BY DEF IsWithin
  <1>3. /\ q \in Nat \ {0} /\ DOMAIN c = 1..(q + 1)
        /\ c[1] = a /\ c[q + 1] = b /\ \A i \in 2..q : c[i] = t[j + i - 1]
    BY <1>1, <1>2 DEF Corners
  <1>4. ASSUME NEW i \in 2..q PROVE c[i] = t[j + i - 1] /\ c[i] \in Int /\ a < c[i] /\ c[i] < b
    <2> DEFINE k == j + i - 1
    <2>1. k \in (j + 1)..(h - 1) /\ k \in 1..n /\ j + 1 \in 1..n /\ h - 1 \in 1..n
      BY <1>1, <1>2
    <2>2. c[i] = t[k] /\ t[k] \in Int /\ t[j + 1] \in Int /\ t[h - 1] \in Int
      BY <1>1, <1>3, <2>1
    <2> HIDE DEF k, c
    <2>3. t[j + 1] <= t[k]
      <3>1. CASE k = j + 1
        BY <2>2, <3>1
      <3>2. CASE j + 1 < k
        <4>1. t[j + 1] < t[k]
          BY <2>1, <3>2, TimesIncrease
        <4> QED
          BY <2>2, <4>1
      <3> QED
        BY <1>2, <2>1, <3>1, <3>2
    <2>4. t[k] <= t[h - 1]
      <3>1. CASE k = h - 1
        BY <2>2, <3>1
      <3>2. CASE k < h - 1
        <4>1. t[k] < t[h - 1]
          BY <2>1, <3>2, TimesIncrease
        <4> QED
          BY <2>2, <4>1
      <3> QED
        BY <1>2, <2>1, <3>1, <3>2
    <2> QED
      BY <1>2, <2>2, <2>3, <2>4 DEF k
  <1> HIDE DEF c
  <1>5. c \in [1..(q + 1) -> a..b]
    <2>1. c = [i \in 1..(q + 1) |-> c[i]]
      BY <1>3 DEF c, Corners
    <2>2. ASSUME NEW i \in 1..(q + 1) PROVE c[i] \in a..b
      <3>1. i = 1 \/ i = q + 1 \/ i \in 2..q
        BY <1>3
      <3> QED
        BY <1>3, <1>4, <3>1
    <2> QED
      BY <2>1, <2>2
  <1>6. ASSUME NEW i \in 1..q PROVE c[i] < c[i + 1] /\ IsLine(v, c[i], c[i + 1])
    <2> DEFINE k == j + i - 1
    <2>1. /\ k \in 1..(n - 1) /\ k \in 1..n /\ k + 1 \in 1..n /\ i \in 1..(q + 1) /\ i + 1 \in 1..(q + 1)
          /\ t[k] \in Int /\ t[k + 1] \in Int /\ t[k] < t[k + 1] /\ k + 1 = j + (i + 1) - 1
      <3>1. k \in 1..(n - 1) /\ k \in 1..n /\ k + 1 \in 1..n
        BY <1>1, <1>2
      <3>2. i \in 1..(q + 1) /\ i + 1 \in 1..(q + 1) /\ k + 1 = j + (i + 1) - 1
        BY <1>1, <1>2
      <3> HIDE DEF k
      <3> QED
        BY <1>1, <3>1, <3>2
    <2>2. t[k] <= c[i]
      <3>1. CASE i = 1
        <4>1. k = j
          BY <1>2, <3>1
        <4> QED
          BY <1>2, <1>3, <3>1, <4>1
      <3>2. CASE i # 1
        <4>1. i \in 2..q
          BY <3>2
        <4>2. c[i] = t[k]
          BY <1>4, <4>1
        <4> QED
          BY <2>1, <4>2
      <3> QED
        BY <3>1, <3>2
    <2>3. c[i + 1] <= t[k + 1]
      <3>1. CASE i = q
        <4>1. k + 1 = h
          BY <1>2, <3>1
        <4> QED
          BY <1>2, <1>3, <3>1, <4>1
      <3>2. CASE i # q
        <4>1. i + 1 \in 2..q
          BY <3>2, <1>3
        <4>2. c[i + 1] = t[j + (i + 1) - 1]
          BY <1>4, <4>1
        <4> QED
          BY <2>1, <4>2
      <3> QED
        BY <3>1, <3>2
    <2>4. c[i] < c[i + 1]
      <3>1. CASE i = 1 /\ i = q
        BY <1>3, <3>1
      <3>2. CASE i = 1 /\ i # q
        <4>1. i + 1 \in 2..q
          BY <1>3, <3>2
        <4>2. a < c[i + 1]
          BY <1>4, <4>1
        <4> QED
          BY <1>3, <3>2, <4>2
      <3>3. CASE i # 1 /\ i = q
        <4>1. i \in 2..q
          BY <3>3
        <4>2. c[i] < b
          BY <1>4, <4>1
        <4> QED
          BY <1>3, <3>3, <4>2
      <3>4. CASE i # 1 /\ i # q
        <4>1. i \in 2..q /\ i + 1 \in 2..q
          BY <1>3, <3>4
        <4>2. c[i] = t[k] /\ c[i + 1] = t[j + (i + 1) - 1]
          BY <1>4, <4>1
        <4> QED
          BY <2>1, <4>2
      <3> QED
        BY <3>1, <3>2, <3>3, <3>4
    <2> DEFINE x == c[i]
               y == c[i + 1]
    <2>5. x \in a..b /\ y \in a..b /\ t[k] <= x /\ x < y /\ y <= t[k + 1]
      BY <1>5, <2>1, <2>2, <2>3, <2>4
    <2> HIDE DEF x, y, k
    <2>6. IsLine(v, x, y)
      BY <2>1, <2>5, CurveIsLine
    <2> QED
      BY <2>4, <2>6 DEF x, y
  <1>7. v \in [a..b -> Int]
    <2>1. ASSUME NEW x \in a..b PROVE Interpolate(series, x) \in Int
      <3>1. x \in t[1]..t[n]
        BY <1>1
      <3> QED
        BY <3>1, CurveIsWhole
    <2> QED
      BY <2>1 DEF Curve
  <1> HIDE DEF v, q
  <1>8. IsPolygon(c, q, v, a, b)
    BY <1>3, <1>5, <1>6, <1>7 DEF IsPolygon
  <1> QED
    BY <1>8 DEF c, q, v

LEMMA SampleIsOnCurve ==
    ASSUME NEW series, NEW n, NEW t, NEW p, IsSeries(series, n, t, p), NEW k \in 1..(n - 1)
    PROVE  Interpolate(series, t[k]) = p[k]
  <1>1. PICK slope \in Int : IsSlope(t, p, k, slope)
    BY DEF IsSeries
  <1>2. /\ n \in Nat /\ t \in [1..n -> Int] /\ p \in [1..n -> Int] /\ k \in 1..n /\ k + 1 \in 1..n /\ t[k] < t[k + 1]
    BY DEF IsSeries
  <1>3. t[k] \in t[k]..t[k + 1] /\ p[k] \in Int /\ t[k] \in Int
    BY <1>2
  <1>4. Interpolate(series, t[k]) = p[k] + (t[k] - t[k]) * slope
    BY <1>1, <1>3, InterpolateIs
  <1>5. \A c, d, e \in Int : c + (d - d) * e = c
    OBVIOUS
  <1> QED
    BY <1>3, <1>4, <1>5

LEMMA ClipIs ==
    ASSUME NEW series, NEW n, NEW t, NEW p, IsSeries(series, n, t, p),
           NEW a \in Int, NEW b \in Int, a < b, t[1] <= a, b <= t[n],
           NEW j, NEW h, IsWithin(t, n, a, b, j, h)
    PROVE  LET c == Corners(t, a, b, j, h)
               v == Curve(series, a, b)
           IN  Clip(series, a, b) = [i \in 1..(h - j + 1) |-> [time |-> c[i], power |-> v[c[i]]]]
  <1> DEFINE q == h - j
             c == Corners(t, a, b, j, h)
             v == Curve(series, a, b)
             I == {k \in DOMAIN series : a < series[k].time /\ series[k].time < b}
             A == [time |-> a, power |-> Interpolate(series, a)]
             B == [time |-> b, power |-> Interpolate(series, b)]
             V == {series[k] : k \in 1..n} \cup {A, B}
             sub == Subsequence(series, I)
  <1>1. /\ n \in Nat /\ 2 <= n /\ t \in [1..n -> Int] /\ 1 \in 1..n /\ n \in 1..n
        /\ series = [k \in 1..n |-> [time |-> t[k], power |-> p[k]]]
    BY DEF IsSeries
  <1>2. /\ j \in 1..(n - 1) /\ h \in 2..n /\ j < h
        /\ t[j] <= a /\ a < t[j + 1] /\ t[h - 1] < b /\ b <= t[h]
    BY DEF IsWithin
  <1>3. /\ Len(series) = n /\ DOMAIN series = 1..n
        /\ \A k \in 1..n : series[k].time = t[k] /\ series[k].power = p[k]
    BY SeriesAre
  <1>4. ASSUME NEW k \in 1..n PROVE k \in I <=> j + 1 <= k /\ k <= h - 1
    <2>1. t[k] \in Int /\ series[k].time = t[k]
      BY <1>1, <1>3
    <2>2. /\ j \in 1..n /\ h \in 1..n /\ j + 1 \in 1..n /\ h - 1 \in 1..n
      BY <1>1, <1>2
    <2>3. t[j] \in Int /\ t[h] \in Int /\ t[j + 1] \in Int /\ t[h - 1] \in Int
      BY <1>1, <2>2
    <2>4. k \in I <=> a < t[k] /\ t[k] < b
      BY <1>3, <2>1
    <2>5. k <= j => t[k] <= a
      <3>1. CASE k = j
        BY <1>2, <3>1
      <3>2. CASE k < j
        <4>1. t[k] < t[j]
          BY <2>2, <3>2, TimesIncrease
        <4> QED
          BY <1>2, <2>1, <2>3, <4>1
      <3> QED
        BY <1>2, <3>1, <3>2
    <2>6. h <= k => b <= t[k]
      <3>1. CASE k = h
        BY <1>2, <3>1
      <3>2. CASE h < k
        <4>1. t[h] < t[k]
          BY <2>2, <3>2, TimesIncrease
        <4> QED
          BY <1>2, <2>1, <2>3, <4>1
      <3> QED
        BY <1>2, <3>1, <3>2
    <2>7. j + 1 <= k => a < t[k]
      <3>1. CASE k = j + 1
        BY <1>2, <3>1
      <3>2. CASE j + 1 < k
        <4>1. t[j + 1] < t[k]
          BY <2>2, <3>2, TimesIncrease
        <4> QED
          BY <1>2, <2>1, <2>3, <4>1
      <3> QED
        BY <1>2, <3>1, <3>2
    <2>8. k <= h - 1 => t[k] < b
      <3>1. CASE k = h - 1
        BY <1>2, <3>1
      <3>2. CASE k < h - 1
        <4>1. t[k] < t[h - 1]
          BY <2>2, <3>2, TimesIncrease
        <4> QED
          BY <1>2, <2>1, <2>3, <4>1
      <3> QED
        BY <1>2, <3>1, <3>2
    <2> HIDE DEF I
    <2> QED
      BY <1>2, <2>1, <2>4, <2>5, <2>6, <2>7, <2>8
  <1> DEFINE first == j + 1
             last == h - 1
  <1>5. /\ series \in Seq(V) /\ A \in V /\ B \in V
    <2>1. A \in V /\ B \in V /\ \A k \in 1..n : series[k] \in V
      OBVIOUS
    <2> HIDE DEF V, A, B
    <2>2. series \in [1..n -> V]
      <3>1. series = [k \in 1..n |-> series[k]]
        BY <1>1
      <3> QED
        BY <2>1, <3>1
    <2>3. series \in Seq(V)
      BY <1>1, <2>2, FunctionIsSequence
    <2> QED
      BY <2>1, <2>3
  <1>6. first \in Nat /\ last \in Nat /\ first \in Nat \ {0} /\ last \in 0..n /\ first <= last + 1
        /\ last - first + 1 = q - 1 /\ q \in Nat \ {0}
    BY <1>1, <1>2
  <1>7. IsIntervalOf(I, Len(series), first, last)
    <2> HIDE DEF I
    <2> QED
      BY <1>3, <1>4, <1>6 DEF IsIntervalOf
  <1>8. sub \in Seq(V) /\ IsSlice(sub, series, first, last)
    <2> HIDE DEF I, V, first, last
    <2> QED
      BY <1>5, <1>6, <1>7, SubsequenceOfInterval
  <1>9. Len(sub) = q - 1 /\ \A i \in 1..(q - 1) : sub[i] = series[j + i]
    <2>1. Len(sub) = last - first + 1 /\ \A i \in 1..(last - first + 1) : sub[i] = series[first + i - 1]
      BY <1>8 DEF IsSlice
    <2>2. \A i \in 1..(q - 1) : first + i - 1 = j + i
      BY <1>2
    <2> HIDE DEF sub, q, first
    <2> QED
      BY <1>6, <2>1, <2>2
  <1> DEFINE clip == <<A>> \o sub \o <<B>>
  <1>10. Clip(series, a, b) = clip
    BY DEF Clip
  <1> HIDE DEF sub, A, B, V, I, q
  <1>11. /\ Len(clip) = q + 1 /\ DOMAIN clip = 1..(q + 1) /\ clip \in Seq(V) /\ clip[1] = A /\ clip[q + 1] = B
         /\ \A i \in 2..q : clip[i] = sub[i - 1]
    <2>1. <<A>> \in Seq(V) /\ <<B>> \in Seq(V) /\ Len(<<A>>) = 1 /\ Len(<<B>>) = 1 /\ <<A>>[1] = A /\ <<B>>[1] = B
      BY <1>5
    <2> DEFINE d == <<A>> \o sub
    <2>2. /\ d \in Seq(V) /\ Len(d) = q /\ d[1] = A /\ \A i \in 1..(q - 1) : d[1 + i] = sub[i]
      <3>1. /\ d \in Seq(V) /\ Len(d) = 1 + Len(sub)
            /\ \A k \in 1..Len(<<A>>) : d[k] = <<A>>[k]
            /\ \A k \in 1..Len(sub) : d[Len(<<A>>) + k] = sub[k]
        BY <1>8, <2>1, Concatenated
      <3>2. d[1] = A
        BY <2>1, <3>1
      <3>3. \A k \in 1..(q - 1) : d[1 + k] = sub[k]
        BY <1>9, <2>1, <3>1
      <3>4. Len(d) = q
        BY <1>6, <1>9, <3>1
      <3> QED
        BY <3>1, <3>2, <3>3, <3>4
    <2> HIDE DEF d
    <2>3. /\ d \o <<B>> \in Seq(V) /\ Len(d \o <<B>>) = q + 1
          /\ (\A k \in 1..q : (d \o <<B>>)[k] = d[k]) /\ (d \o <<B>>)[q + 1] = B
      <3> DEFINE e == <<B>>
      <3>1. /\ d \o e \in Seq(V) /\ Len(d \o e) = Len(d) + Len(e)
            /\ \A k \in 1..Len(d) : (d \o e)[k] = d[k]
            /\ \A k \in 1..Len(e) : (d \o e)[Len(d) + k] = e[k]
        BY <2>1, <2>2, Concatenated
      <3>2. Len(e) = 1 /\ e[1] = B
        BY <2>1
      <3> HIDE DEF e
      <3> QED
        BY <2>2, <3>1, <3>2 DEF e
    <2>4. clip = d \o <<B>>
      BY DEF d
    <2> HIDE DEF clip
    <2>5. \A i \in 2..q : i - 1 \in 1..(q - 1) /\ 1 + (i - 1) = i /\ i \in 1..q
      BY <1>6
    <2>6. \A i \in 2..q : clip[i] = sub[i - 1]
      <3> TAKE i \in 2..q
      <3>1. i - 1 \in 1..(q - 1) /\ 1 + (i - 1) = i /\ i \in 1..q
        BY <2>5
      <3>2. d[1 + (i - 1)] = sub[i - 1]
        BY <2>2, <3>1
      <3> QED
        BY <2>3, <2>4, <3>1, <3>2
    <2>7. 1 \in 1..q
      BY <1>6
    <2>8. DOMAIN clip = 1..(q + 1)
      BY <1>6, <2>3, <2>4
    <2> QED
      BY <2>2, <2>3, <2>4, <2>6, <2>7, <2>8
  <1> HIDE DEF clip
  <1>12. c[1] = a /\ c[q + 1] = b /\ \A i \in 2..q : c[i] = t[j + i - 1]
    BY <1>1, <1>2, <1>6 DEF Corners, q
  <1>13. v[a] = Interpolate(series, a) /\ v[b] = Interpolate(series, b)
    BY DEF Curve
  <1>14. ASSUME NEW i \in 2..q PROVE clip[i] = [time |-> c[i], power |-> v[c[i]]]
    <2> DEFINE k == j + i - 1
    <2>1. k \in 1..n /\ k \in 1..(n - 1) /\ first <= k /\ k <= last /\ i - 1 \in 1..(q - 1) /\ j + (i - 1) = k
      BY <1>1, <1>2 DEF q
    <2>2. clip[i] = series[k]
      <3>1. clip[i] = sub[i - 1]
        BY <1>11
      <3>2. sub[i - 1] = series[j + (i - 1)]
        BY <1>9, <2>1
      <3> QED
        BY <2>1, <3>1, <3>2
    <2>3. series[k] = [time |-> t[k], power |-> p[k]]
      BY <1>1, <2>1
    <2>4. c[i] = t[k]
      BY <1>12
    <2>5. t[k] \in a..b
      <3>1. k \in I
        BY <1>4, <2>1
      <3>2. a < t[k] /\ t[k] < b
        BY <1>3, <2>1, <3>1 DEF I
      <3> QED
        BY <1>1, <2>1, <3>2
    <2>6. v[t[k]] = p[k]
      <3>1. Interpolate(series, t[k]) = p[k]
        <4> HIDE DEF k
        <4> QED
          BY <2>1, SampleIsOnCurve
      <3> QED
        BY <2>5, <3>1 DEF Curve
    <2> QED
      BY <2>2, <2>3, <2>4, <2>6
  <1> HIDE DEF c, v
  <1>15. ASSUME NEW i \in 1..(q + 1) PROVE clip[i] = [time |-> c[i], power |-> v[c[i]]]
    <2>1. CASE i = 1
      BY <1>11, <1>12, <1>13, <2>1 DEF A
    <2>2. CASE i = q + 1
      BY <1>11, <1>12, <1>13, <2>2 DEF B
    <2>3. CASE i \in 2..q
      BY <1>14, <2>3
    <2> QED
      BY <1>6, <2>1, <2>2, <2>3
  <1>16. clip = [i \in 1..(q + 1) |-> clip[i]]
    BY <1>11
  <1>17. clip = [i \in 1..(q + 1) |-> [time |-> c[i], power |-> v[c[i]]]]
    BY <1>15, <1>16
  <1> QED
    BY <1>10, <1>17 DEF c, v, q

\* The energy of a clipped series is that of its units of time, and no more than
\* its greatest power, and no less than its least one, for the whole time.
Powers(series) == [k \in DOMAIN series |-> series[k].power]

LEMMA EnergyIs ==
    ASSUME NEW series, NEW n, NEW t, NEW p, IsSeries(series, n, t, p),
           NEW a \in Int, NEW b \in Int, a < b, t[1] <= a, b <= t[n]
    PROVE  LET clip == Clip(series, a, b)
           IN  /\ Integrate(clip) = UnitSum(series, a, b)
               /\ Integrate(clip) <= 2 * Greatest(Powers(clip)) * (b - a)
               /\ Integrate(clip) >= 2 * Least(Powers(clip)) * (b - a)
  <1>1. PICK j, h : IsWithin(t, n, a, b, j, h)
    BY WithinExists
  <1> DEFINE q == h - j
             c == Corners(t, a, b, j, h)
             v == Curve(series, a, b)
             clip == Clip(series, a, b)
             x == [i \in 1..q |-> Trapezoid(v, c[i], c[i + 1])]
             powers == [i \in 1..(q + 1) |-> v[c[i]]]
  <1>2. IsPolygon(c, q, v, a, b)
    BY <1>1, CornersAre
  <1>3. clip = [i \in 1..(q + 1) |-> [time |-> c[i], power |-> v[c[i]]]]
    BY <1>1, ClipIs
  <1>4. UnitSum(series, a, b) = UnitsOf(v, a, b)
    <2>1. \A k \in 1..(b - a) : a + k - 1 \in a..b /\ a + k \in a..b
      OBVIOUS
    <2>2. \A k \in 1..(b - a) : /\ v[a + k - 1] = Interpolate(series, a + k - 1)
                               /\ v[a + k] = Interpolate(series, a + k)
      BY <2>1 DEF Curve
    <2> HIDE DEF v
    <2> QED
      BY <2>2 DEF UnitSum, UnitsOf
  <1> HIDE DEF c, v, q, clip
  <1>5. /\ v \in [a..b -> Int] /\ q \in Nat \ {0} /\ c \in [1..(q + 1) -> a..b] /\ q + 1 \in Nat \ {0}
    BY <1>2 DEF IsPolygon
  <1>6. /\ Len(clip) = q + 1 /\ DOMAIN clip = 1..(q + 1)
        /\ \A i \in 1..(q + 1) : clip[i].time = c[i] /\ clip[i].power = v[c[i]]
    <2>1. clip \in [1..(q + 1) -> {clip[i] : i \in 1..(q + 1)}]
      BY <1>3
    <2>2. Len(clip) = q + 1 /\ DOMAIN clip = 1..(q + 1)
      BY <1>5, <2>1, FunctionIsSequence
    <2> QED
      BY <1>3, <2>2
  <1>7. IsTrapezoids(x, c, q, v)
    <2>1. ASSUME NEW i \in 1..q PROVE Trapezoid(v, c[i], c[i + 1]) \in Int
      <3>1. i \in 1..(q + 1) /\ i + 1 \in 1..(q + 1)
        BY <1>5
      <3>2. c[i] \in a..b /\ c[i + 1] \in a..b
        BY <1>5, <3>1
      <3>3. v[c[i]] \in Int /\ v[c[i + 1]] \in Int /\ c[i] \in Int /\ c[i + 1] \in Int
        BY <1>5, <3>2
      <3> QED
        BY <3>3 DEF Trapezoid
    <2> QED
      BY <2>1 DEF IsTrapezoids
  <1>8. Integrate(clip) = Total(x)
    <2>1. ASSUME NEW i \in 1..q
          PROVE  (clip[i].power + clip[i + 1].power) * (clip[i + 1].time - clip[i].time) = x[i]
      <3>1. i \in 1..(q + 1) /\ i + 1 \in 1..(q + 1)
        BY <1>5
      <3> QED
        BY <1>6, <3>1 DEF Trapezoid
    <2>2. [i \in 1..q |-> (clip[i].power + clip[i + 1].power) * (clip[i + 1].time - clip[i].time)] = x
      BY <2>1
    <2>3. Len(clip) - 1 = q
      BY <1>5, <1>6
    <2> HIDE DEF x
    <2> QED
      BY <2>2, <2>3 DEF Integrate
  <1> HIDE DEF x
  <1>9. Total(x) = UnitsOf(v, a, b)
    BY <1>2, <1>7, PolygonIsUnits
  <1>10. Powers(clip) = powers /\ powers \in [1..(q + 1) -> Int]
    BY <1>5, <1>6 DEF Powers
  <1> DEFINE low == Least(powers)
             high == Greatest(powers)
  <1>11. /\ low \in Int /\ high \in Int
         /\ \A i \in 1..(q + 1) : low <= v[c[i]] /\ v[c[i]] <= high
    <2>1. \A i \in 1..(q + 1) : powers[i] = v[c[i]]
      OBVIOUS
    <2> HIDE DEF powers
    <2>2. /\ Least(powers) \in Int /\ Greatest(powers) \in Int
          /\ \A k \in 1..(q + 1) : Least(powers) <= powers[k] /\ powers[k] <= Greatest(powers)
      BY <1>5, <1>10, LeastAndGreatest
    <2> QED
      BY <2>1, <2>2
  <1> HIDE DEF low, high, powers
  <1>12. 2 * low * (b - a) <= Total(x) /\ Total(x) <= 2 * high * (b - a)
    BY <1>2, <1>7, <1>11, PolygonIsBounded
  <1>13. Total(x) \in Int /\ 2 * low * (b - a) \in Int
    <2>1. x \in [1..q -> Int] /\ q \in Nat
      BY <1>5, <1>7 DEF IsTrapezoids
    <2> QED
      BY <1>11, <2>1, TotalIsInteger
  <1>14. Total(x) >= 2 * low * (b - a)
    <2> DEFINE y == 2 * low * (b - a)
    <2>1. y \in Int /\ y <= Total(x)
      BY <1>12, <1>13
    <2> HIDE DEF y
    <2>2. Total(x) >= y
      BY <1>13, <2>1
    <2> QED
      BY <2>2 DEF y
  <1> QED
    BY <1>4, <1>8, <1>9, <1>10, <1>12, <1>14 DEF low, high, clip

\* The sweeps of a trace in their order, when they were, and what the rails of a
\* scope drew in each.
Sampled(trace) == Ordered(SetToSeq(SamplesOf(trace)))
TimeOfSample(trace, s) == trace[Min(RowsOf(trace, s))].time
InScope(trace, scope, s) == {i \in DOMAIN trace : trace[i].sample = s /\ RailsOf(trace[i]) \in scope}
PowerOfSample(trace, scope, s) ==
    Total([i \in DOMAIN trace |-> IF i \in InScope(trace, scope, s) THEN trace[i].power ELSE 0])

LEMMA SweepsAre ==
    ASSUME NEW trace, IsSweeps(trace)
    PROVE  /\ Len(trace) \in Nat /\ DOMAIN trace = 1..Len(trace)
           /\ \A i \in 1..Len(trace) : /\ trace[i].sample \in Int /\ trace[i].time \in Int /\ trace[i].power \in Int
                                      /\ trace[i].domain \in {"PS", "PL"}
  <1>1. trace \in Seq({trace[i] : i \in DOMAIN trace})
    BY DEF IsSweeps
  <1>2. Len(trace) \in Nat /\ DOMAIN trace = 1..Len(trace)
    BY <1>1, SequenceIsFunction
  <1> QED
    BY <1>2 DEF IsSweeps

LEMMA SamplesAreOrdered ==
    ASSUME NEW trace, IsSweeps(trace)
    PROVE  \E m \in Nat : DOMAIN Sampled(trace) = 1..m /\ \A k \in 1..m : Sampled(trace)[k] \in SamplesOf(trace)
  <1> DEFINE S == SamplesOf(trace)
             n == Len(trace)
             f == [i \in 1..n |-> trace[i].sample]
             list == SetToSeq(S)
             m == Cardinality(S)
  <1>1. n \in Nat /\ DOMAIN trace = 1..n /\ \A i \in 1..n : trace[i].sample \in Int
    BY SweepsAre
  <1>2. S = {trace[i].sample : i \in 1..n}
    BY <1>1 DEF SamplesOf
  <1>3. f \in [1..n -> S] /\ (\A x \in S : \E i \in 1..n : f[i] = x) /\ \A x \in S : x \in Int
    BY <1>1, <1>2
  <1> HIDE DEF S, f, n
  <1>4. IsFiniteSet(S)
    BY <1>1, <1>3, CoveredIsSmall
  <1>5. m \in Nat /\ list \in [1..m -> S]
    BY <1>4, SetIsListed
  <1>6. list \in [1..m -> Int]
    BY <1>3, <1>5
  <1>7. Len(list) = m
    BY <1>5, FunctionIsSequence
  <1> HIDE DEF list, m
  <1>8. DOMAIN Ordered(list) = 1..m
    BY <1>7 DEF Ordered
  <1>9. ASSUME NEW k \in 1..m PROVE Ordered(list)[k] \in S
    <2>1. Ordered(list)[k] \in {list[j] : j \in 1..m}
      BY <1>5, <1>6, OrderedIs
    <2> QED
      BY <1>5, <2>1
  <1>10. Sampled(trace) = Ordered(list)
    BY DEF Sampled, list, S
  <1> QED
    BY <1>5, <1>8, <1>9, <1>10 DEF S

LEMMA TimesAre ==
    ASSUME NEW trace, IsSweeps(trace), NEW s \in SamplesOf(trace)
    PROVE  TimeOfSample(trace, s) \in Int
  <1>1. DOMAIN trace = 1..Len(trace) /\ Len(trace) \in Nat /\ \A i \in 1..Len(trace) : trace[i].time \in Int
    BY SweepsAre
  <1> DEFINE R == RowsOf(trace, s)
  <1>2. R \in SUBSET Nat /\ R # {} /\ \A i \in R : i \in 1..Len(trace)
    BY <1>1 DEF RowsOf, SamplesOf
  <1> HIDE DEF R
  <1>3. Min(R) \in R
    BY <1>2, LeastNatural
  <1>4. trace[Min(R)].time \in Int
    BY <1>1, <1>2, <1>3
  <1> QED
    BY <1>4 DEF TimeOfSample, R

LEMMA PowersAre ==
    ASSUME NEW trace, IsSweeps(trace), NEW scope, NEW s
    PROVE  PowerOfSample(trace, scope, s) \in Int
  <1> DEFINE n == Len(trace)
             x == [i \in DOMAIN trace |-> IF i \in InScope(trace, scope, s) THEN trace[i].power ELSE 0]
  <1>1. n \in Nat /\ DOMAIN trace = 1..n /\ \A i \in 1..n : trace[i].power \in Int
    BY SweepsAre
  <1>2. x \in [1..n -> Int]
    BY <1>1
  <1> HIDE DEF x, n
  <1>3. Total(x) \in Int
    BY <1>1, <1>2, TotalIsInteger
  <1> QED
    BY <1>3 DEF PowerOfSample, x

\* A series has the times of the trace's samples, whatever its scope.
IsTraceOf(series, m, t, s, trace, scope) ==
    series = [k \in 1..m |-> [time |-> t[k], power |-> Grid * PowerOfSample(trace, scope, s[k])]]

LEMMA SeriesIs ==
    ASSUME NEW trace, NEW scope
    PROVE  Series(trace, scope)
             = [k \in DOMAIN Sampled(trace) |-> [time |-> TimeOfSample(trace, Sampled(trace)[k]),
                                                power |-> Grid * PowerOfSample(trace, scope, Sampled(trace)[k])]]
  <1> DEFINE Power(s) == Total([i \in DOMAIN trace |->
                            IF trace[i].sample = s /\ RailsOf(trace[i]) \in scope THEN trace[i].power ELSE 0])
  <1>1. ASSUME NEW s PROVE Power(s) = PowerOfSample(trace, scope, s)
    <2>1. ASSUME NEW i \in DOMAIN trace
          PROVE  i \in InScope(trace, scope, s) <=> trace[i].sample = s /\ RailsOf(trace[i]) \in scope
      BY DEF InScope
    <2>2. [i \in DOMAIN trace |-> IF trace[i].sample = s /\ RailsOf(trace[i]) \in scope THEN trace[i].power ELSE 0]
            = [i \in DOMAIN trace |-> IF i \in InScope(trace, scope, s) THEN trace[i].power ELSE 0]
      BY <2>1
    <2> QED
      BY <2>2 DEF PowerOfSample
  <1>2. Series(trace, scope)
          = [k \in DOMAIN Sampled(trace) |-> [time |-> TimeOfSample(trace, Sampled(trace)[k]),
                                             power |-> Grid * Power(Sampled(trace)[k])]]
    BY DEF Series, Sampled, TimeOfSample
  <1> HIDE DEF Power
  <1> QED
    BY <1>1, <1>2

LEMMA SeriesExists ==
    ASSUME NEW trace, IsSweeps(trace)
    PROVE  \E m \in Nat : \E t \in [1..m -> Int], s \in [1..m -> SamplesOf(trace)] :
                \A scope : IsTraceOf(Series(trace, scope), m, t, s, trace, scope)
  <1>1. PICK m \in Nat : DOMAIN Sampled(trace) = 1..m /\ \A k \in 1..m : Sampled(trace)[k] \in SamplesOf(trace)
    BY SamplesAreOrdered
  <1> DEFINE s == [k \in 1..m |-> Sampled(trace)[k]]
             t == [k \in 1..m |-> TimeOfSample(trace, s[k])]
  <1>2. s \in [1..m -> SamplesOf(trace)]
    BY <1>1
  <1>3. t \in [1..m -> Int]
    <2> HIDE DEF s
    <2>1. \A k \in 1..m : TimeOfSample(trace, s[k]) \in Int
      BY <1>2, TimesAre
    <2> QED
      BY <2>1
  <1>4. ASSUME NEW scope PROVE IsTraceOf(Series(trace, scope), m, t, s, trace, scope)
    <2>1. Series(trace, scope)
            = [k \in 1..m |-> [time |-> TimeOfSample(trace, Sampled(trace)[k]),
                              power |-> Grid * PowerOfSample(trace, scope, Sampled(trace)[k])]]
      BY <1>1, SeriesIs
    <2> QED
      BY <2>1 DEF IsTraceOf
  <1> HIDE DEF s, t
  <1> QED
    BY <1>2, <1>3, <1>4

\* A sweep's rails are those of the two domains.
LEMMA PowersAdd ==
    ASSUME NEW trace, IsSweeps(trace), NEW s
    PROVE  PowerOfSample(trace, AllRails(trace), s)
             = PowerOfSample(trace, DomainRails(trace, "PS"), s) + PowerOfSample(trace, DomainRails(trace, "PL"), s)
  <1> DEFINE n == Len(trace)
             PS == DomainRails(trace, "PS")
             PL == DomainRails(trace, "PL")
             all == AllRails(trace)
             Part(scope) == [i \in DOMAIN trace |-> IF i \in InScope(trace, scope, s) THEN trace[i].power ELSE 0]
  <1>1. /\ n \in Nat /\ DOMAIN trace = 1..n
        /\ \A i \in 1..n : trace[i].power \in Int /\ trace[i].domain \in {"PS", "PL"}
    BY SweepsAre
  <1>2. ASSUME NEW scope PROVE Part(scope) \in [1..n -> Int] /\ PowerOfSample(trace, scope, s) = Total(Part(scope))
    BY <1>1 DEF PowerOfSample
  <1>3. ASSUME NEW i \in 1..n
        PROVE  /\ i \in InScope(trace, all, s) <=> trace[i].sample = s
               /\ i \in InScope(trace, PS, s) <=> trace[i].sample = s /\ trace[i].domain = "PS"
               /\ i \in InScope(trace, PL, s) <=> trace[i].sample = s /\ trace[i].domain = "PL"
    <2>1. RailsOf(trace[i]) \in all /\ RailsOf(trace[i])[1] = trace[i].domain
      BY <1>1 DEF AllRails, RailsOf
    <2>2. \A domain : RailsOf(trace[i]) \in DomainRails(trace, domain) <=> trace[i].domain = domain
      BY <2>1 DEF DomainRails
    <2> QED
      BY <1>1, <2>1, <2>2 DEF InScope
  <1> HIDE DEF PS, PL, all
  <1>4. \A i \in 1..n : Part(all)[i] = Part(PS)[i] + Part(PL)[i]
    <2> TAKE i \in 1..n
    <2>1. CASE trace[i].sample = s /\ trace[i].domain = "PS"
      BY <1>1, <1>3, <2>1
    <2>2. CASE trace[i].sample = s /\ trace[i].domain = "PL"
      BY <1>1, <1>3, <2>2
    <2>3. CASE trace[i].sample # s
      BY <1>1, <1>3, <2>3
    <2> QED
      BY <1>1, <2>1, <2>2, <2>3
  <1> HIDE DEF Part, n
  <1>5. Total(Part(all)) = Total(Part(PS)) + Total(Part(PL))
    BY <1>1, <1>2, <1>4, TotalOfSum
  <1> QED
    BY <1>2, <1>5 DEF PS, PL, all

\* The series of a scope of a trace that is monotonic is a series whose slopes are
\* whole numbers, because the gaps divide Grid.
PowersOf(trace, scope, s, m) == [k \in 1..m |-> Grid * PowerOfSample(trace, scope, s[k])]

\* A sample of a series, and a series whose times need not be in order: where
\* they increase the slopes are whole numbers.
Points == [time : Int, power : Int]
IsSampling(series, n, t, p) ==
    /\ n \in Nat /\ 2 <= n /\ t \in [1..n -> Int] /\ p \in [1..n -> Int]
    /\ series = [k \in 1..n |-> [time |-> t[k], power |-> p[k]]]
    /\ \A k \in 1..(n - 1) : t[k] < t[k + 1] => \E slope \in Int : IsSlope(t, p, k, slope)
Around(t, n, time) == {k \in 1..(n - 1) : t[k] = time \/ (t[k] < time /\ time < t[k + 1])}

LEMMA SamplingIs ==
    ASSUME NEW series, NEW n, NEW t, NEW p, IsSampling(series, n, t, p)
    PROVE  /\ series \in Seq(Points) /\ Len(series) = n /\ DOMAIN series = 1..n /\ 1 \in 1..n /\ n \in 1..n
           /\ \A i \in 1..n : series[i].time = t[i] /\ series[i].power = p[i] /\ t[i] \in Int /\ p[i] \in Int
           /\ \A time : Surrounding(series, time) = Around(t, n, time)
  <1>1. /\ n \in Nat /\ 2 <= n /\ t \in [1..n -> Int] /\ p \in [1..n -> Int]
        /\ series = [k \in 1..n |-> [time |-> t[k], power |-> p[k]]]
    BY DEF IsSampling
  <1>2. series \in [1..n -> Points]
    BY <1>1 DEF Points
  <1>3. series \in Seq(Points) /\ Len(series) = n /\ DOMAIN series = 1..n
    BY <1>1, <1>2, FunctionIsSequence
  <1>4. \A i \in 1..n : series[i].time = t[i] /\ series[i].power = p[i] /\ t[i] \in Int /\ p[i] \in Int
    BY <1>1
  <1>5. \A k \in 1..(n - 1) : k \in 1..n /\ k + 1 \in 1..n
    BY <1>1
  <1>6. \A time : Surrounding(series, time) = Around(t, n, time)
    BY <1>3, <1>4, <1>5 DEF Surrounding, Surround, Around
  <1> QED
    BY <1>1, <1>3, <1>4, <1>6

LEMMA TraceIsSampling ==
    ASSUME NEW trace, IsSweeps(trace), NEW m \in Nat, NEW t \in [1..m -> Int], NEW s,
           \A scope : IsTraceOf(Series(trace, scope), m, t, s, trace, scope),
           IsOnGrid(Series(trace, AllRails(trace))),
           NEW scope, Len(Series(trace, scope)) >= 2
    PROVE  IsSampling(Series(trace, scope), m, t, PowersOf(trace, scope, s, m))
  <1> DEFINE p == PowersOf(trace, scope, s, m)
             P(k) == PowerOfSample(trace, scope, s[k])
  <1>1. ASSUME NEW sc
        PROVE  /\ Len(Series(trace, sc)) = m
               /\ Series(trace, sc) = [k \in 1..m |-> [time |-> t[k], power |-> Grid * PowerOfSample(trace, sc, s[k])]]
    <2> DEFINE series == Series(trace, sc)
    <2>1. series = [k \in 1..m |-> [time |-> t[k], power |-> Grid * PowerOfSample(trace, sc, s[k])]]
      BY DEF IsTraceOf
    <2> HIDE DEF series
    <2>2. series \in [1..m -> {series[k] : k \in 1..m}]
      BY <2>1
    <2>3. Len(series) = m
      BY <2>2, FunctionIsSequence
    <2> QED
      BY <2>1, <2>3 DEF series
  <1>2. m \in Nat /\ 2 <= m /\ Grid \in Nat \ {0}
    BY <1>1, GridAssumption
  <1>3. ASSUME NEW k \in 1..m PROVE p[k] = Grid * P(k) /\ P(k) \in Int /\ t[k] \in Int
    BY PowersAre DEF PowersOf
  <1>4. p \in [1..m -> Int]
    <2>1. \A k \in 1..m : Grid * PowerOfSample(trace, scope, s[k]) \in Int
      BY <1>2, <1>3
    <2> QED
      BY <2>1 DEF PowersOf
  <1>5. Series(trace, scope) = [k \in 1..m |-> [time |-> t[k], power |-> p[k]]]
    BY <1>1 DEF PowersOf
  <1> HIDE DEF p, P
  <1>6. ASSUME NEW k \in 1..(m - 1), t[k] < t[k + 1] PROVE \E slope \in Int : IsSlope(t, p, k, slope)
    <2>1. k \in 1..m /\ k + 1 \in 1..m
      BY <1>2
    <2> DEFINE gap == t[k + 1] - t[k]
               g == Grid \div gap
               d == P(k + 1) - P(k)
    <2>2. Grid % gap = 0
      <3> DEFINE all == Series(trace, AllRails(trace))
      <3>1. all[k].time = t[k] /\ all[k + 1].time = t[k + 1] /\ Len(all) = m
        BY <1>1, <2>1
      <3> HIDE DEF all
      <3>2. IsOnGrid(all)
        BY DEF all
      <3> QED
        BY <1>6, <3>1, <3>2 DEF IsOnGrid
    <2>3. gap \in Nat \ {0} /\ d \in Int
      <3>1. t[k] \in Int /\ t[k + 1] \in Int /\ P(k) \in Int /\ P(k + 1) \in Int
        BY <1>3, <2>1
      <3> QED
        BY <1>6, <3>1
    <2>4. g \in Int /\ Grid = g * gap
      <3> HIDE DEF gap
      <3>1. Grid = gap * (Grid \div gap) + (Grid % gap) /\ Grid \div gap \in Int
        BY <1>2, <2>3
      <3> QED
        BY <2>2, <2>3, <3>1
    <2>5. p[k + 1] - p[k] = Grid * P(k + 1) - Grid * P(k) /\ P(k) \in Int /\ P(k + 1) \in Int
      BY <1>3, <2>1
    <2>6. \A c, e, f \in Int : c * e - c * f = c * (e - f)
      OBVIOUS
    <2>7. p[k + 1] - p[k] = Grid * d
      BY <1>2, <2>5, <2>6
    <2>8. \A c, e, f \in Int : (c * e) * f = (c * f) * e
      OBVIOUS
    <2>9. Grid * d = (g * d) * gap /\ g * d \in Int
      <3> HIDE DEF g, gap, d
      <3> QED
        BY <2>3, <2>4, <2>8
    <2>10. IsSlope(t, p, k, g * d)
      BY <2>7, <2>9 DEF IsSlope
    <2> HIDE DEF g, d
    <2> QED
      BY <2>9, <2>10
  <1>7. IsSampling(Series(trace, scope), m, t, p)
    BY <1>2, <1>4, <1>5, <1>6 DEF IsSampling
  <1> QED
    BY <1>7 DEF p

LEMMA TraceIsSeries ==
    ASSUME NEW trace, IsSweeps(trace), NEW m \in Nat, NEW t \in [1..m -> Int], NEW s,
           \A scope : IsTraceOf(Series(trace, scope), m, t, s, trace, scope),
           IsOnGrid(Series(trace, AllRails(trace))),
           NEW scope, Len(Series(trace, scope)) >= 2, Monotonic(Series(trace, scope))
    PROVE  IsSeries(Series(trace, scope), m, t, PowersOf(trace, scope, s, m))
  <1> DEFINE p == PowersOf(trace, scope, s, m)
             series == Series(trace, scope)
  <1>1. IsSampling(series, m, t, p)
    BY TraceIsSampling
  <1>2. Len(series) = m /\ \A k \in 1..m : series[k].time = t[k]
    BY <1>1, SamplingIs
  <1>3. \A k \in 1..(m - 1) : k \in 1..m /\ k + 1 \in 1..m
    OBVIOUS
  <1>4. Monotonic(series)
    OBVIOUS
  <1> HIDE DEF p, series
  <1>5. \A k \in 1..(m - 1) : t[k] < t[k + 1]
    BY <1>2, <1>3, <1>4 DEF Monotonic
  <1>6. IsSeries(series, m, t, p)
    BY <1>1, <1>5 DEF IsSampling, IsSeries
  <1> QED
    BY <1>6 DEF p, series

\* Powers that add up at every sample add up at every time, and so do energies.
LEMMA InterpolationsAdd ==
    ASSUME NEW n, NEW t, NEW x, NEW px, NEW y, NEW py, NEW z, NEW pz,
           IsSeries(x, n, t, px), IsSeries(y, n, t, py), IsSeries(z, n, t, pz), IsSumOf(pz, px, py, n),
           NEW time \in t[1]..t[n]
    PROVE  Interpolate(z, time) = Interpolate(x, time) + Interpolate(y, time)
  <1>1. PICK k \in 1..(n - 1) : time \in t[k]..t[k + 1]
    BY SegmentExists
  <1>2. PICK a \in Int : IsSlope(t, px, k, a)
    BY DEF IsSeries
  <1>3. PICK b \in Int : IsSlope(t, py, k, b)
    BY DEF IsSeries
  <1>4. n \in Nat /\ t \in [1..n -> Int] /\ k \in 1..n /\ k + 1 \in 1..n
    BY DEF IsSeries
  <1>5. /\ t[k] \in Int /\ t[k + 1] \in Int /\ time \in Int
        /\ px[k] \in Int /\ px[k + 1] \in Int /\ py[k] \in Int /\ py[k + 1] \in Int
        /\ pz[k] = px[k] + py[k] /\ pz[k + 1] = px[k + 1] + py[k + 1]
    BY <1>1, <1>4 DEF IsSumOf
  <1>6. \A c, d, e \in Int : (c + d) * e = c * e + d * e /\ e * (c + d) = e * c + e * d
    OBVIOUS
  <1>7. IsSlope(t, pz, k, a + b)
    <2> DEFINE gap == t[k + 1] - t[k]
    <2>1. px[k + 1] - px[k] = a * gap /\ py[k + 1] - py[k] = b * gap /\ gap \in Int
      BY <1>2, <1>3, <1>5 DEF IsSlope
    <2>2. (a + b) * gap = a * gap + b * gap
      BY <1>6, <2>1
    <2>3. pz[k + 1] - pz[k] = (px[k + 1] - px[k]) + (py[k + 1] - py[k])
      BY <1>5
    <2> QED
      BY <2>1, <2>2, <2>3 DEF IsSlope
  <1>8. /\ Interpolate(x, time) = px[k] + (time - t[k]) * a
        /\ Interpolate(y, time) = py[k] + (time - t[k]) * b
        /\ Interpolate(z, time) = pz[k] + (time - t[k]) * (a + b)
    <2>1. Interpolate(x, time) = px[k] + (time - t[k]) * a
      BY <1>1, <1>2, InterpolateIs
    <2>2. Interpolate(y, time) = py[k] + (time - t[k]) * b
      BY <1>1, <1>3, InterpolateIs
    <2>3. a + b \in Int
      OBVIOUS
    <2>4. Interpolate(z, time) = pz[k] + (time - t[k]) * (a + b)
      <3> DEFINE c == a + b
      <3>1. IsSlope(t, pz, k, c) /\ c \in Int
        BY <1>7, <2>3
      <3> HIDE DEF c
      <3>2. Interpolate(z, time) = pz[k] + (time - t[k]) * c
        BY <1>1, <3>1, InterpolateIs
      <3> QED
        BY <3>2 DEF c
    <2> QED
      BY <2>1, <2>2, <2>4
  <1>9. (time - t[k]) * (a + b) = (time - t[k]) * a + (time - t[k]) * b
    <2> DEFINE d == time - t[k]
    <2>1. d \in Int
      BY <1>5
    <2> HIDE DEF d
    <2>2. d * (a + b) = d * a + d * b
      BY <1>6, <2>1
    <2> QED
      BY <2>2 DEF d
  <1> QED
    BY <1>5, <1>8, <1>9

LEMMA UnitSumsAdd ==
    ASSUME NEW n, NEW t, NEW x, NEW px, NEW y, NEW py, NEW z, NEW pz,
           IsSeries(x, n, t, px), IsSeries(y, n, t, py), IsSeries(z, n, t, pz), IsSumOf(pz, px, py, n),
           NEW a \in Int, NEW b \in Int, a < b, t[1] <= a, b <= t[n]
    PROVE  /\ UnitSum(x, a, b) \in Int /\ UnitSum(y, a, b) \in Int
           /\ UnitSum(z, a, b) = UnitSum(x, a, b) + UnitSum(y, a, b)
  <1> DEFINE m == b - a
             u(series) == [k \in 1..m |-> Interpolate(series, a + k - 1) + Interpolate(series, a + k)]
  <1>1. t[1] \in Int /\ t[n] \in Int
    <2>1. n \in Nat /\ 2 <= n /\ t \in [1..n -> Int]
      BY DEF IsSeries
    <2>2. 1 \in 1..n /\ n \in 1..n
      BY <2>1
    <2> QED
      BY <2>1, <2>2
  <1>2. m \in Nat /\ \A k \in 1..m : a + k - 1 \in t[1]..t[n] /\ a + k \in t[1]..t[n]
    BY <1>1
  <1>3. ASSUME NEW k \in 1..m
        PROVE  /\ u(x)[k] \in Int /\ u(y)[k] \in Int /\ u(z)[k] = u(x)[k] + u(y)[k]
    <2> DEFINE c == a + k - 1
               d == a + k
    <2>1. c \in t[1]..t[n] /\ d \in t[1]..t[n]
      BY <1>2
    <2> HIDE DEF c, d
    <2>2. /\ Interpolate(x, c) \in Int /\ Interpolate(x, d) \in Int
          /\ Interpolate(y, c) \in Int /\ Interpolate(y, d) \in Int
      BY <2>1, CurveIsWhole
    <2>3. Interpolate(z, c) = Interpolate(x, c) + Interpolate(y, c)
      BY <2>1, InterpolationsAdd
    <2>4. Interpolate(z, d) = Interpolate(x, d) + Interpolate(y, d)
      BY <2>1, InterpolationsAdd
    <2>5. /\ u(x)[k] = Interpolate(x, c) + Interpolate(x, d)
          /\ u(y)[k] = Interpolate(y, c) + Interpolate(y, d)
          /\ u(z)[k] = Interpolate(z, c) + Interpolate(z, d)
      BY DEF c, d
    <2> QED
      BY <2>2, <2>3, <2>4, <2>5
  <1>4. u(x) \in [1..m -> Int] /\ u(y) \in [1..m -> Int] /\ u(z) \in [1..m -> Int]
    <2>1. \A k \in 1..m : u(x)[k] \in Int /\ u(y)[k] \in Int /\ u(z)[k] \in Int
      BY <1>3
    <2> QED
      BY <2>1
  <1>5. UnitSum(x, a, b) = Total(u(x)) /\ UnitSum(y, a, b) = Total(u(y)) /\ UnitSum(z, a, b) = Total(u(z))
    BY DEF UnitSum
  <1> DEFINE ux == u(x)
             uy == u(y)
             uz == u(z)
  <1>6. /\ ux \in [1..m -> Int] /\ uy \in [1..m -> Int] /\ uz \in [1..m -> Int]
        /\ \A k \in 1..m : uz[k] = ux[k] + uy[k]
    BY <1>3, <1>4
  <1> HIDE DEF ux, uy, uz, m
  <1>7. Total(uz) = Total(ux) + Total(uy) /\ Total(ux) \in Int /\ Total(uy) \in Int
    <2>1. Total(uz) = Total(ux) + Total(uy)
      BY <1>2, <1>6, TotalOfSum
    <2>2. Total(ux) \in Int /\ Total(uy) \in Int
      BY <1>2, <1>6, TotalIsInteger
    <2> QED
      BY <2>1, <2>2
  <1> QED
    BY <1>5, <1>7 DEF ux, uy, uz

\* The integrals of series of the same times.
HasPoints(series, n, t, p) == series = [k \in 1..n |-> [time |-> t[k], power |-> p[k]]]

LEMMA IntegralIs ==
    ASSUME NEW n \in Nat \ {0}, NEW t \in [1..n -> Int], NEW p \in [1..n -> Int],
           NEW series, HasPoints(series, n, t, p)
    PROVE  LET x == [k \in 1..(n - 1) |-> (p[k] + p[k + 1]) * (t[k + 1] - t[k])]
           IN  x \in [1..(n - 1) -> Int] /\ Integrate(series) = Total(x)
  <1> DEFINE x == [k \in 1..(n - 1) |-> (p[k] + p[k + 1]) * (t[k + 1] - t[k])]
  <1>1. \A k \in 1..(n - 1) : k \in 1..n /\ k + 1 \in 1..n
    OBVIOUS
  <1>2. series = [k \in 1..n |-> [time |-> t[k], power |-> p[k]]]
    BY DEF HasPoints
  <1>3. Len(series) = n
    <2>1. series \in [1..n -> {series[k] : k \in 1..n}]
      BY <1>2
    <2> QED
      BY <2>1, FunctionIsSequence
  <1>4. x \in [1..(n - 1) -> Int]
    <2>1. \A k \in 1..(n - 1) : (p[k] + p[k + 1]) * (t[k + 1] - t[k]) \in Int
      <3> TAKE k \in 1..(n - 1)
      <3>1. p[k] \in Int /\ p[k + 1] \in Int /\ t[k] \in Int /\ t[k + 1] \in Int
        BY <1>1
      <3> QED
        BY <3>1
    <2> QED
      BY <2>1
  <1>5. \A k \in 1..(n - 1) :
            (series[k].power + series[k + 1].power) * (series[k + 1].time - series[k].time)
              = (p[k] + p[k + 1]) * (t[k + 1] - t[k])
    <2> TAKE k \in 1..(n - 1)
    <2>1. /\ series[k].power = p[k] /\ series[k + 1].power = p[k + 1]
          /\ series[k].time = t[k] /\ series[k + 1].time = t[k + 1]
      BY <1>1, <1>2
    <2> QED
      BY <2>1
  <1>6. Integrate(series) = Total(x)
    BY <1>3, <1>5 DEF Integrate
  <1> QED
    BY <1>4, <1>6

LEMMA IntegralsAdd ==
    ASSUME NEW n \in Nat \ {0}, NEW t \in [1..n -> Int], NEW px, NEW py, NEW pz, IsSumOf(pz, px, py, n),
           NEW x, NEW y, NEW z, HasPoints(x, n, t, px), HasPoints(y, n, t, py), HasPoints(z, n, t, pz)
    PROVE  /\ Integrate(x) \in Int /\ Integrate(y) \in Int
           /\ Integrate(z) = Integrate(x) + Integrate(y)
  <1> DEFINE m == n - 1
             u(p) == [k \in 1..(n - 1) |-> (p[k] + p[k + 1]) * (t[k + 1] - t[k])]
  <1>1. /\ px \in [1..n -> Int] /\ py \in [1..n -> Int] /\ pz \in [1..n -> Int]
        /\ \A k \in 1..n : pz[k] = px[k] + py[k]
    BY DEF IsSumOf
  <1>2. /\ u(px) \in [1..m -> Int] /\ Integrate(x) = Total(u(px))
    BY <1>1, IntegralIs
  <1>3. /\ u(py) \in [1..m -> Int] /\ Integrate(y) = Total(u(py))
    BY <1>1, IntegralIs
  <1>4. /\ u(pz) \in [1..m -> Int] /\ Integrate(z) = Total(u(pz))
    BY <1>1, IntegralIs
  <1>5. \A c, d, e, f, g \in Int : ((c + d) + (e + f)) * g = (c + e) * g + (d + f) * g
    OBVIOUS
  <1>6. \A k \in 1..m : u(pz)[k] = u(px)[k] + u(py)[k]
    <2> TAKE k \in 1..m
    <2>1. k \in 1..n /\ k + 1 \in 1..n
      OBVIOUS
    <2> DEFINE g == t[k + 1] - t[k]
    <2>2. /\ px[k] \in Int /\ px[k + 1] \in Int /\ py[k] \in Int /\ py[k + 1] \in Int /\ g \in Int
          /\ pz[k] = px[k] + py[k] /\ pz[k + 1] = px[k + 1] + py[k + 1]
      <3>1. g \in Int
        BY <2>1
      <3> HIDE DEF g, u
      <3>2. /\ px[k] \in Int /\ px[k + 1] \in Int /\ py[k] \in Int /\ py[k + 1] \in Int
        BY <1>1, <2>1
      <3>3. pz[k] = px[k] + py[k] /\ pz[k + 1] = px[k + 1] + py[k + 1]
        BY <1>1, <2>1
      <3> QED
        BY <3>1, <3>2, <3>3
    <2>3. /\ u(pz)[k] = (pz[k] + pz[k + 1]) * g /\ u(px)[k] = (px[k] + px[k + 1]) * g
          /\ u(py)[k] = (py[k] + py[k + 1]) * g
      OBVIOUS
    <2> HIDE DEF g, u
    <2>4. ((px[k] + py[k]) + (px[k + 1] + py[k + 1])) * g = (px[k] + px[k + 1]) * g + (py[k] + py[k + 1]) * g
      BY <1>5, <2>2
    <2> QED
      BY <2>2, <2>3, <2>4
  <1> DEFINE ux == u(px)
             uy == u(py)
             uz == u(pz)
  <1>7. /\ ux \in [1..m -> Int] /\ uy \in [1..m -> Int] /\ uz \in [1..m -> Int] /\ m \in Nat
        /\ \A k \in 1..m : uz[k] = ux[k] + uy[k]
    BY <1>2, <1>3, <1>4, <1>6
  <1> HIDE DEF ux, uy, uz, m
  <1>8. Total(uz) = Total(ux) + Total(uy) /\ Total(ux) \in Int /\ Total(uy) \in Int
    <2>1. IsSumOf(uz, ux, uy, m)
      BY <1>7 DEF IsSumOf
    <2>3. Total(uz) = Total(ux) + Total(uy)
      BY <1>7, <2>1, SumsAdd
    <2>2. Total(ux) \in Int /\ Total(uy) \in Int
      BY <1>7, TotalIsInteger
    <2> QED
      BY <2>2, <2>3
  <1> QED
    BY <1>2, <1>3, <1>4, <1>8 DEF ux, uy, uz

\* A trace that the importer accepts is a series around the interval in every
\* scope.
LEMMA AcceptedIsSeries ==
    ASSUME NEW idle, NEW active, NEW i, ~PowerRaises(idle, active, i), IsSweeps(active),
           IsOnGrid(Series(active, AllRails(active))), i.start \in Int, i.end \in Int,
           NEW m \in Nat, NEW t \in [1..m -> Int], NEW s,
           \A scope : IsTraceOf(Series(active, scope), m, t, s, active, scope),
           NEW scope \in Scopes(active)
    PROVE  /\ IsSeries(Series(active, scope), m, t, PowersOf(active, scope, s, m))
           /\ i.start < i.end /\ t[1] <= i.start /\ i.end <= t[m]
           /\ Len(Series(idle, scope)) >= 2
  <1> DEFINE series == Series(active, scope)
  <1>1. ScopeHolds(Series(idle, scope), series, i.start, i.end)
    BY DEF PowerRaises
  <1>2. /\ Len(series) >= 2 /\ Monotonic(series) /\ Len(Series(idle, scope)) >= 2
        /\ series[1].time <= i.start /\ i.end <= series[Len(series)].time
    BY <1>1 DEF ScopeHolds, Brackets
  <1>3. IsSeries(series, m, t, PowersOf(active, scope, s, m))
    BY <1>2, TraceIsSeries
  <1>4. Len(series) = m /\ \A k \in 1..m : series[k].time = t[k]
    BY <1>3, SeriesAre
  <1>5. 1 \in 1..m /\ m \in 1..m
    BY <1>3 DEF IsSeries
  <1> HIDE DEF series
  <1>6. t[1] <= i.start /\ i.end <= t[m]
    BY <1>2, <1>4, <1>5
  <1>7. i.start < i.end
    BY DEF PowerRaises
  <1> QED
    BY <1>2, <1>3, <1>6, <1>7 DEF series

LEMMA PowersOfSum ==
    ASSUME NEW trace, IsSweeps(trace), NEW m \in Nat, NEW s
    PROVE  IsSumOf(PowersOf(trace, AllRails(trace), s, m), PowersOf(trace, DomainRails(trace, "PS"), s, m),
                   PowersOf(trace, DomainRails(trace, "PL"), s, m), m)
  <1> DEFINE PS == DomainRails(trace, "PS")
             PL == DomainRails(trace, "PL")
             all == AllRails(trace)
             P(scope, k) == PowerOfSample(trace, scope, s[k])
  <1>1. Grid \in Int
    BY GridAssumption
  <1>2. ASSUME NEW k \in 1..m
        PROVE  P(all, k) = P(PS, k) + P(PL, k) /\ P(PS, k) \in Int /\ P(PL, k) \in Int /\ P(all, k) \in Int
    <2>1. P(all, k) = P(PS, k) + P(PL, k)
      BY PowersAdd
    <2>2. P(PS, k) \in Int /\ P(PL, k) \in Int /\ P(all, k) \in Int
      BY PowersAre
    <2> QED
      BY <2>1, <2>2
  <1> HIDE DEF PS, PL, all, P
  <1>3. \A c, d, e \in Int : c * (d + e) = c * d + c * e
    OBVIOUS
  <1>4. ASSUME NEW k \in 1..m
        PROVE  /\ Grid * P(PS, k) \in Int /\ Grid * P(PL, k) \in Int /\ Grid * P(all, k) \in Int
               /\ Grid * P(all, k) = Grid * P(PS, k) + Grid * P(PL, k)
    <2>1. P(all, k) = P(PS, k) + P(PL, k) /\ P(PS, k) \in Int /\ P(PL, k) \in Int /\ P(all, k) \in Int
      BY <1>2
    <2>2. Grid * (P(PS, k) + P(PL, k)) = Grid * P(PS, k) + Grid * P(PL, k)
      BY <1>1, <1>3, <2>1
    <2> QED
      BY <1>1, <2>1, <2>2
  <1>5. \A scope : PowersOf(trace, scope, s, m) = [k \in 1..m |-> Grid * P(scope, k)]
    BY DEF PowersOf, P
  <1>6. IsSumOf(PowersOf(trace, all, s, m), PowersOf(trace, PS, s, m), PowersOf(trace, PL, s, m), m)
    BY <1>4, <1>5 DEF IsSumOf
  <1> QED
    BY <1>6 DEF PS, PL, all

\* The idle energies of the two domains make up the total, over the same time.
LEMMA IdleAdds ==
    ASSUME NEW idle, IsSweeps(idle), NEW all, all = AllRails(idle), Len(Series(idle, all)) >= 2
    PROVE  LET PS == Series(idle, DomainRails(idle, "PS"))
               PL == Series(idle, DomainRails(idle, "PL"))
               MONITORED == Series(idle, all)
           IN  /\ Integrate(PS) \in Int /\ Integrate(PL) \in Int
               /\ Integrate(MONITORED) = Integrate(PS) + Integrate(PL)
               /\ \E time \in Int : /\ PS[Len(PS)].time - PS[1].time = time
                                   /\ PL[Len(PL)].time - PL[1].time = time
                                   /\ MONITORED[Len(MONITORED)].time - MONITORED[1].time = time
  <1>8. PICK m \in Nat : \E t \in [1..m -> Int], s \in [1..m -> SamplesOf(idle)] :
            \A scope : IsTraceOf(Series(idle, scope), m, t, s, idle, scope)
    BY SeriesExists
  <1>1. PICK t \in [1..m -> Int], s \in [1..m -> SamplesOf(idle)] :
            \A scope : IsTraceOf(Series(idle, scope), m, t, s, idle, scope)
    BY <1>8
  <1>2. ASSUME NEW scope
        PROVE  /\ HasPoints(Series(idle, scope), m, t, PowersOf(idle, scope, s, m))
               /\ Len(Series(idle, scope)) = m
               /\ \A k \in 1..m : Series(idle, scope)[k].time = t[k]
    <2> DEFINE series == Series(idle, scope)
    <2>1. series = [k \in 1..m |-> [time |-> t[k], power |-> Grid * PowerOfSample(idle, scope, s[k])]]
      BY <1>1 DEF IsTraceOf
    <2> HIDE DEF series
    <2>2. series \in [1..m -> {series[k] : k \in 1..m}]
      BY <2>1
    <2>3. Len(series) = m
      BY <2>2, FunctionIsSequence
    <2>4. HasPoints(series, m, t, PowersOf(idle, scope, s, m))
      BY <2>1 DEF HasPoints, PowersOf
    <2> QED
      BY <2>1, <2>3, <2>4 DEF series
  <1>3. m \in Nat \ {0} /\ 1 \in 1..m /\ m \in 1..m
    <2>1. m >= 2
      BY <1>2
    <2> QED
      BY <2>1
  <1> DEFINE PS == DomainRails(idle, "PS")
             PL == DomainRails(idle, "PL")
             p(scope) == PowersOf(idle, scope, s, m)
  <1>4. IsSumOf(p(all), p(PS), p(PL), m)
    BY PowersOfSum
  <1>5. /\ Integrate(Series(idle, PS)) \in Int /\ Integrate(Series(idle, PL)) \in Int
        /\ Integrate(Series(idle, all)) = Integrate(Series(idle, PS)) + Integrate(Series(idle, PL))
    <2>1. /\ HasPoints(Series(idle, PS), m, t, p(PS)) /\ HasPoints(Series(idle, PL), m, t, p(PL))
          /\ HasPoints(Series(idle, all), m, t, p(all))
      BY <1>2
    <2> HIDE DEF p, PS, PL
    <2> QED
      BY <1>3, <1>4, <2>1, IntegralsAdd
  <1>6. \A scope : Series(idle, scope)[Len(Series(idle, scope))].time - Series(idle, scope)[1].time = t[m] - t[1]
    BY <1>2, <1>3
  <1>7. t[m] - t[1] \in Int
    BY <1>3
  <1> QED
    BY <1>5, <1>6, <1>7

LEMMA Increments ==
    \A e, f, c, d, g, h \in Int : (e + f) * g - (c + d) * h = (e * g - c * h) + (f * g - d * h)
  OBVIOUS

\* The energies of a power summary are exact.
LEMMA EnergiesAreExact ==
    ASSUME NEW idle, NEW active, NEW i, ~PowerRaises(idle, active, i), IsSweeps(idle), IsSweeps(active),
           IsOnGrid(Series(active, AllRails(active))), i.start \in Int, i.end \in Int, NEW executed
    PROVE  EnergyIsExact(idle, active, i, PowerSummary(idle, active, i, executed))
  <1> DEFINE result == PowerSummary(idle, active, i, executed)
             PS == DomainRails(active, "PS")
             PL == DomainRails(active, "PL")
             all == AllRails(active)
             energy(scope) == Integrate(Clip(Series(active, scope), i.start, i.end))
             time(scope) == Series(idle, scope)[Len(Series(idle, scope))].time - Series(idle, scope)[1].time
             ofIdle(scope) == Integrate(Series(idle, scope))
             duration == i.end - i.start
  <1>1. DOMAIN result = Scopes(active)
    BY DEF PowerSummary
  <1>2. ASSUME NEW scope \in Scopes(active)
        PROVE  /\ result[scope].energy = energy(scope)
               /\ result[scope].incremental = energy(scope) * time(scope) - ofIdle(scope) * duration
    BY DEF PowerSummary, Scope
  <1>3. all \in Scopes(active) /\ PS \in Scopes(active) /\ PL \in Scopes(active)
    <2>1. "PS" \in Domains(active) /\ "PL" \in Domains(active)
      BY DEF PowerRaises
    <2> QED
      BY <2>1 DEF Scopes
  <1>4. all = AllRails(idle)
    <2>1. Scopes(idle) = Scopes(active)
      BY DEF PowerRaises
    <2>2. UNION Scopes(idle) = AllRails(idle) /\ UNION Scopes(active) = AllRails(active)
      BY DEF Scopes, DomainRails
    <2> QED
      BY <2>1, <2>2
  <1>5. PS = DomainRails(idle, "PS") /\ PL = DomainRails(idle, "PL")
    BY <1>4 DEF DomainRails
  <1>6. PICK m \in Nat : \E t \in [1..m -> Int], s \in [1..m -> SamplesOf(active)] :
            \A scope : IsTraceOf(Series(active, scope), m, t, s, active, scope)
    BY SeriesExists
  <1>7. PICK t \in [1..m -> Int], s \in [1..m -> SamplesOf(active)] :
            \A scope : IsTraceOf(Series(active, scope), m, t, s, active, scope)
    BY <1>6
  <1> HIDE DEF result, PS, PL, all
  <1>8. ASSUME NEW scope \in Scopes(active)
        PROVE  /\ IsSeries(Series(active, scope), m, t, PowersOf(active, scope, s, m))
               /\ i.start < i.end /\ t[1] <= i.start /\ i.end <= t[m]
               /\ Len(Series(idle, scope)) >= 2
    BY <1>7, AcceptedIsSeries
  <1>9. ASSUME NEW scope \in Scopes(active)
        PROVE  LET clip == Clip(Series(active, scope), i.start, i.end)
               IN  /\ energy(scope) = UnitSum(Series(active, scope), i.start, i.end)
                   /\ energy(scope) <= 2 * Greatest(Powers(clip)) * (i.end - i.start)
                   /\ energy(scope) >= 2 * Least(Powers(clip)) * (i.end - i.start)
    <2> DEFINE series == Series(active, scope)
               a == i.start
               b == i.end
               p == PowersOf(active, scope, s, m)
    <2>1. IsSeries(series, m, t, p) /\ a \in Int /\ b \in Int /\ a < b /\ t[1] <= a /\ b <= t[m]
      BY <1>8
    <2> HIDE DEF series, a, b, p
    <2>2. LET clip == Clip(series, a, b)
          IN  /\ Integrate(clip) = UnitSum(series, a, b)
              /\ Integrate(clip) <= 2 * Greatest(Powers(clip)) * (b - a)
              /\ Integrate(clip) >= 2 * Least(Powers(clip)) * (b - a)
      BY <2>1, EnergyIs
    <2> QED
      BY <2>2 DEF series, a, b
  <1>10. /\ energy(PS) \in Int /\ energy(PL) \in Int
         /\ energy(all) = energy(PS) + energy(PL)
    <2> DEFINE x == Series(active, PS)
               y == Series(active, PL)
               z == Series(active, all)
               px == PowersOf(active, PS, s, m)
               py == PowersOf(active, PL, s, m)
               pz == PowersOf(active, all, s, m)
               a == i.start
               b == i.end
    <2>1. IsSeries(x, m, t, px) /\ IsSeries(y, m, t, py) /\ IsSeries(z, m, t, pz)
      BY <1>3, <1>8
    <2>2. IsSumOf(pz, px, py, m)
      BY PowersOfSum DEF PS, PL, all
    <2>3. a \in Int /\ b \in Int /\ a < b /\ t[1] <= a /\ b <= t[m]
      BY <1>3, <1>8
    <2>4. energy(PS) = UnitSum(x, a, b) /\ energy(PL) = UnitSum(y, a, b) /\ energy(all) = UnitSum(z, a, b)
      BY <1>3, <1>9
    <2> HIDE DEF x, y, z, px, py, pz, a, b
    <2>5. /\ UnitSum(x, a, b) \in Int /\ UnitSum(y, a, b) \in Int
          /\ UnitSum(z, a, b) = UnitSum(x, a, b) + UnitSum(y, a, b)
      BY <2>1, <2>2, <2>3, UnitSumsAdd
    <2> HIDE DEF energy
    <2> QED
      BY <2>4, <2>5
  <1>11. /\ ofIdle(PS) \in Int /\ ofIdle(PL) \in Int /\ ofIdle(all) = ofIdle(PS) + ofIdle(PL)
         /\ time(PS) \in Int /\ time(PL) = time(PS) /\ time(all) = time(PS)
    <2>1. Len(Series(idle, all)) >= 2
      BY <1>3, <1>8
    <2>2. /\ Integrate(Series(idle, DomainRails(idle, "PS"))) \in Int
          /\ Integrate(Series(idle, DomainRails(idle, "PL"))) \in Int
          /\ Integrate(Series(idle, all))
               = Integrate(Series(idle, DomainRails(idle, "PS"))) + Integrate(Series(idle, DomainRails(idle, "PL")))
          /\ \E d \in Int : /\ time(DomainRails(idle, "PS")) = d /\ time(DomainRails(idle, "PL")) = d
                           /\ time(all) = d
      BY <1>4, <2>1, IdleAdds
    <2> HIDE DEF time
    <2> QED
      BY <1>5, <2>2
  <1>12. duration \in Int
    OBVIOUS
  <1>13. /\ result[PS].energy = energy(PS) /\ result[PL].energy = energy(PL) /\ result[all].energy = energy(all)
         /\ result[PS].incremental = energy(PS) * time(PS) - ofIdle(PS) * duration
         /\ result[PL].incremental = energy(PL) * time(PL) - ofIdle(PL) * duration
         /\ result[all].incremental = energy(all) * time(all) - ofIdle(all) * duration
    BY <1>2, <1>3
  <1> HIDE DEF energy, time, ofIdle, duration
  <1>14. /\ result[PS].energy + result[PL].energy = result[all].energy
         /\ result[PS].incremental + result[PL].incremental = result[all].incremental
    <2>1. (energy(PS) + energy(PL)) * time(PS) - (ofIdle(PS) + ofIdle(PL)) * duration
            = (energy(PS) * time(PS) - ofIdle(PS) * duration) + (energy(PL) * time(PS) - ofIdle(PL) * duration)
      BY <1>10, <1>11, <1>12, Increments
    <2>2. result[PS].energy + result[PL].energy = result[all].energy
      BY <1>10, <1>13
    <2>3. result[all].incremental = (energy(PS) + energy(PL)) * time(PS) - (ofIdle(PS) + ofIdle(PL)) * duration
      BY <1>10, <1>11, <1>13
    <2>4. result[PL].incremental = energy(PL) * time(PS) - ofIdle(PL) * duration
      BY <1>11, <1>13
    <2> QED
      BY <1>13, <2>1, <2>2, <2>3, <2>4
  <1>15. ASSUME NEW scope \in DOMAIN result
         PROVE  LET series == Clip(Series(active, scope), i.start, i.end)
                    powers == [k \in DOMAIN series |-> series[k].power]
                IN  /\ result[scope].energy = UnitSum(Series(active, scope), i.start, i.end)
                    /\ result[scope].energy <= 2 * Greatest(powers) * (i.end - i.start)
                    /\ result[scope].energy >= 2 * Least(powers) * (i.end - i.start)
    <2>1. scope \in Scopes(active)
      BY <1>1, <1>15
    <2>2. result[scope].energy = energy(scope)
      BY <1>2, <2>1
    <2> QED
      BY <1>9, <2>1, <2>2 DEF Powers
  <1> QED
    BY <1>14, <1>15 DEF EnergyIsExact, result, PS, PL, all

LEMMA SessionsPowerIsExact ==
    ASSUME ImportInv, SummaryInv, importPc = "done", NEW k \in DOMAIN sessions, sessions[k].power # None
    PROVE  EnergyIsExact(archives[k].power.idle, archives[k].power.active, archives[k].power.interval, sessions[k].power)
  <1> DEFINE a == archives[k]
             executed == Len(SteadyRun(a).samples)
             idle == a.power.idle
             active == a.power.active
             i == a.power.interval
  <1>1. /\ archives \in Collections /\ index \in 1..(Len(archives) + 1)
        /\ sessions \in Seq({SessionOf(archives[j]) : j \in Loaded}) /\ Len(sessions) = index - 1
        /\ \A j \in Loaded : sessions[j] = SessionOf(archives[j])
    BY DEF ImportInv, Comparable
  <1>2. Len(archives) \in Nat /\ DOMAIN archives = 1..Len(archives)
    BY <1>1, ArchivesAre
  <1>3. k \in Loaded /\ k \in DOMAIN archives
    BY <1>1, <1>2 DEF Loaded
  <1>4. PowerHolds(a)
    BY <1>3 DEF SummaryInv
  <1>5. sessions[k].power = SessionPower(a)
    <2>1. sessions[k] = SessionOf(a)
      BY <1>1, <1>3
    <2>2. SessionOf(a).power = SessionPower(a)
      BY DEF SessionOf
    <2> QED
      BY <2>1, <2>2
  <1>6. PowerAvailable(a) /\ a.power # None
    BY <1>5 DEF SessionPower, PowerAvailable
  <1>7. ~PowerRaises(idle, active, i)
    BY <1>4, <1>6 DEF PowerHolds
  <1>8. sessions[k].power = PowerSummary(idle, active, i, executed)
    BY <1>5, <1>6 DEF SessionPower
  <1>9. IsPower(a.power)
    BY <1>1, <1>3, <1>6, CollectionsAssumption
  <1>10. IsSweeps(idle) /\ IsSweeps(active) /\ IsOnGrid(Series(active, AllRails(active))) /\ i.start \in Int /\ i.end \in Int
    BY <1>9 DEF IsPower
  <1> HIDE DEF idle, active, i, executed, a
  <1>11. EnergyIsExact(idle, active, i, PowerSummary(idle, active, i, executed))
    BY <1>7, <1>10, EnergiesAreExact
  <1> QED
    BY <1>8, <1>11 DEF idle, active, i, a

\* Whatever archives an import is given, and whatever the bootstrap draws: the
\* quantiles are quantiles and the interval lies within the sessions' medians,
\* the parts of a process start add up to its latency, and the energies are the
\* exact integrals of the traces.
THEOREM SummariesAreConsistent == Spec => []SummaryIsConsistent
  <1>1. Init => SamplesInv /\ SummaryInv
    <2>1. Init => SummaryInv
      BY DEF Init, SummaryInv
    <2> QED
      BY <2>1, SamplesInitially
  <1>2. ImportInv /\ SamplesInv /\ [Next]_vars => SamplesInv'
    BY SamplesStep
  <1>3. ImportInv /\ SamplesInv /\ SummaryInv /\ [Next]_vars => SummaryInv'
    BY SummaryStep
  <1>4. Spec => []ImportInv
    BY ImportInvariant
  <1>5. ImportInv /\ SamplesInv /\ SummaryInv => SummaryIsConsistent
    <2> SUFFICES ASSUME ImportInv, SamplesInv, SummaryInv, importPc = "done" PROVE SummaryIsConsistent
      BY DEF SummaryIsConsistent
    <2>1. \A regime \in DOMAIN summary.regimes : RegimeIsConsistent(regime)
      BY RegimesAreConsistent
    <2>2. \A k \in DOMAIN sessions : sessions[k].power # None =>
            EnergyIsExact(archives[k].power.idle, archives[k].power.active, archives[k].power.interval, sessions[k].power)
      BY SessionsPowerIsExact
    <2> QED
      BY <2>1, <2>2 DEF SummaryIsConsistent, RegimeIsConsistent
  <1> QED
    BY <1>1, <1>2, <1>3, <1>4, <1>5, PTL DEF Spec

-----------------------------------------------------------------------------
(* Inputs of the same weight.                                                *)

RowSet(as) == UNION {ToSet(RowsOfSession(as, k)) : k \in DOMAIN as}

\* What the importer has read, and has not refused session by session.
IsCampaignOf(as) ==
    /\ as \in Seq({as[k] : k \in DOMAIN as})
    /\ \A k \in DOMAIN as :
        /\ as[k].samples \in Seq({as[k].samples[j] : j \in DOMAIN as[k].samples})
        /\ \A j \in DOMAIN as[k].samples : as[k].samples[j].execution \in Int
        /\ \A i \in DOMAIN as[k].results : as[k].results[i] \in Int
        /\ VariationHolds(as[k])

LEMMA SessionsAre ==
    ASSUME NEW as, IsCampaignOf(as)
    PROVE  Len(as) \in Nat /\ DOMAIN as = 1..Len(as)
  BY SequenceIsFunction DEF IsCampaignOf

LEMMA MeasuredFramesAre ==
    ASSUME NEW as, IsCampaignOf(as), NEW k \in DOMAIN as
    PROVE  LET m == MeasuredSamples(as[k])
           IN  /\ Len(m) \in Nat /\ DOMAIN m = 1..Len(m)
               /\ \A j \in 1..Len(m) : m[j].execution \in Int /\ m[j].input \in InputIndices
               /\ \A i \in InputIndices : as[k].results[i] \in Int
  <1> DEFINE a == as[k]
             S == {a.samples[j] : j \in DOMAIN a.samples}
             m == MeasuredSamples(a)
  <1>1. /\ a.samples \in Seq(S) /\ VariationHolds(a)
        /\ \A s \in S : s.execution \in Int
        /\ \A i \in DOMAIN a.results : a.results[i] \in Int
    BY DEF IsCampaignOf
  <1> HIDE DEF S
  <1>2. m \in Seq(S)
    BY <1>1, SubsequenceElements DEF MeasuredSamples
  <1>3. (\A j \in DOMAIN m : m[j].input \in InputIndices) /\ DOMAIN a.results = InputIndices
    BY <1>1 DEF VariationHolds
  <1> HIDE DEF m, a
  <1>4. Len(m) \in Nat /\ DOMAIN m = 1..Len(m) /\ \A j \in 1..Len(m) : m[j] \in S
    BY <1>2
  <1>5. /\ \A j \in 1..Len(m) : m[j].execution \in Int /\ m[j].input \in InputIndices
        /\ \A i \in InputIndices : a.results[i] \in Int
    BY <1>1, <1>3, <1>4
  <1> QED
    BY <1>4, <1>5 DEF m, a

LEMMA SessionRowsAre ==
    ASSUME NEW as, IsCampaignOf(as), NEW k \in DOMAIN as
    PROVE  /\ RowsOfSession(as, k) \in Seq(RowSet(as))
           /\ Len(RowsOfSession(as, k)) = Len(MeasuredSamples(as[k]))
           /\ \A j \in 1..Len(MeasuredSamples(as[k])) :
                RowsOfSession(as, k)[j].input = MeasuredSamples(as[k])[j].input
           /\ \A v \in ToSet(RowsOfSession(as, k)) :
                v.input \in InputIndices /\ v.match \in Int /\ v.execution \in Int
  <1> DEFINE m == MeasuredSamples(as[k])
             n == Len(m)
             rs == RowsOfSession(as, k)
  <1>1. /\ n \in Nat /\ DOMAIN m = 1..n
        /\ \A j \in 1..n : m[j].execution \in Int /\ m[j].input \in InputIndices
        /\ \A i \in InputIndices : as[k].results[i] \in Int
    BY MeasuredFramesAre
  <1>2. DOMAIN rs = 1..n /\ rs = [j \in 1..n |-> rs[j]]
    BY <1>1 DEF RowsOfSession
  <1>3. ASSUME NEW j \in 1..n
        PROVE  /\ rs[j].input = m[j].input /\ rs[j].match = as[k].results[m[j].input]
               /\ rs[j].execution = m[j].execution
    BY <1>1 DEF RowsOfSession
  <1>4. \A j \in 1..n : rs[j].input \in InputIndices /\ rs[j].match \in Int /\ rs[j].execution \in Int
    <2> HIDE DEF rs, n, m
    <2> QED
      BY <1>1, <1>3
  <1>5. rs \in [1..n -> RowSet(as)]
    <2>1. \A j \in 1..n : rs[j] \in ToSet(rs)
      BY <1>2 DEF ToSet
    <2>2. ToSet(rs) \subseteq RowSet(as)
      BY DEF RowSet
    <2> HIDE DEF rs, n
    <2> QED
      BY <1>2, <2>1, <2>2
  <1> HIDE DEF rs, n
  <1>6. rs \in Seq(RowSet(as)) /\ Len(rs) = n
    BY <1>1, <1>5, FunctionIsSequence
  <1>7. \A v \in ToSet(rs) : v.input \in InputIndices /\ v.match \in Int /\ v.execution \in Int
    BY <1>2, <1>4 DEF ToSet
  <1> QED
    BY <1>3, <1>6, <1>7 DEF rs, n, m

LEMMA VariationRowsAre ==
    ASSUME NEW as, IsCampaignOf(as)
    PROVE  /\ VariationRows(as) \in Seq(RowSet(as))
           /\ ToSet(VariationRows(as)) = RowSet(as)
           /\ \A v \in RowSet(as) : v.input \in InputIndices /\ v.match \in Int /\ v.execution \in Int
           /\ \A weight \in [RowSet(as) -> Int] :
                Total(Weights(VariationRows(as), weight))
                  = Total([k \in 1..Len(as) |-> Total(Weights(RowsOfSession(as, k), weight))])
  <1> DEFINE V == RowSet(as)
             n == Len(as)
             seqs == [k \in 1..n |-> RowsOfSession(as, k)]
  <1>1. n \in Nat /\ DOMAIN as = 1..n
    BY SessionsAre
  <1>2. seqs \in [1..n -> Seq(V)]
    <2>1. \A k \in 1..n : RowsOfSession(as, k) \in Seq(V)
      BY <1>1, SessionRowsAre
    <2> HIDE DEF V, n
    <2> QED
      BY <2>1
  <1>3. VariationRows(as) = FlattenSeq(seqs)
    BY <1>1 DEF VariationRows
  <1>4. seqs \in Seq(Seq(V)) /\ Len(seqs) = n
    <2> HIDE DEF V, n, seqs
    <2> QED
      BY <1>1, <1>2, FunctionIsSequence
  <1>5. UNION {ToSet(seqs[k]) : k \in 1..n} = V
    BY <1>1 DEF RowSet
  <1>6. FlattenSeq(seqs) \in Seq(V) /\ ToSet(FlattenSeq(seqs)) = V
    <2> HIDE DEF V, n, seqs
    <2>1. FlattenSeq(seqs) \in Seq(V) /\ ToSet(FlattenSeq(seqs)) = UNION {ToSet(seqs[k]) : k \in 1..Len(seqs)}
      BY <1>4, JoinElements
    <2> QED
      BY <1>4, <1>5, <2>1
  <1>7. ASSUME NEW weight \in [V -> Int]
        PROVE  Total(Weights(FlattenSeq(seqs), weight))
                 = Total([k \in 1..n |-> Total(Weights(RowsOfSession(as, k), weight))])
    <2>1. [k \in 1..n |-> Total(Weights(seqs[k], weight))]
            = [k \in 1..n |-> Total(Weights(RowsOfSession(as, k), weight))]
      OBVIOUS
    <2> HIDE DEF V, n, seqs
    <2>2. Total(Weights(FlattenSeq(seqs), weight)) = Total([k \in 1..Len(seqs) |-> Total(Weights(seqs[k], weight))])
      BY <1>4, JoinWeighs
    <2> QED
      BY <1>4, <2>1, <2>2
  <1>8. \A v \in V : v.input \in InputIndices /\ v.match \in Int /\ v.execution \in Int
    <2>1. ASSUME NEW v \in V PROVE v.input \in InputIndices /\ v.match \in Int /\ v.execution \in Int
      <3>1. PICK k \in DOMAIN as : v \in ToSet(RowsOfSession(as, k))
        BY DEF RowSet
      <3> QED
        BY <3>1, SessionRowsAre
    <2> HIDE DEF V
    <2> QED
      BY <2>1
  <1> HIDE DEF seqs
  <1> QED
    BY <1>3, <1>6, <1>7, <1>8

\* The rows of an input weigh what all rows weigh, the others counted as zero.
IsSelection(part, seq, I, weight) == part = [k \in 1..Len(seq) |-> IF k \in I THEN weight[seq[k]] ELSE 0]

LEMMA SelectionWeighs ==
    ASSUME NEW V, NEW weight \in [V -> Int], NEW seq \in Seq(V), NEW I, NEW part, IsSelection(part, seq, I, weight)
    PROVE  Total(Weights(Subsequence(seq, I), weight)) = Total(part)
  <1>1. Total(Weights(Subsequence(seq, I), weight))
            = Total([k \in 1..Len(seq) |-> IF k \in I THEN weight[seq[k]] ELSE 0])
    BY SubsequenceWeighs
  <1> QED
    BY <1>1 DEF IsSelection

IsInputPart(part, rs, i, weight) ==
    part = [k \in 1..Len(rs) |-> IF rs[k].input = i THEN weight[rs[k]] ELSE 0]

LEMMA InputWeighs ==
    ASSUME NEW as, IsCampaignOf(as), NEW i, NEW weight \in [RowSet(as) -> Int],
           NEW part, IsInputPart(part, VariationRows(as), i, weight)
    PROVE  Total(Weights(OfInput(VariationRows(as), i), weight)) = Total(part)
  <1> DEFINE V == RowSet(as)
             rs == VariationRows(as)
             n == Len(rs)
             I == {k \in 1..n : rs[k].input = i}
             sub == OfInput(rs, i)
  <1>1. rs \in Seq(V) /\ weight \in [V -> Int]
    BY VariationRowsAre
  <1>2. IsSelection(part, rs, I, weight)
    BY DEF IsInputPart, IsSelection
  <1> HIDE DEF V, rs
  <1>3. sub = Subsequence(rs, I)
    <2>1. DOMAIN rs = 1..n
      BY <1>1, SequenceIsFunction
    <2> QED
      BY <2>1 DEF OfInput
  <1> HIDE DEF I, sub
  <1>4. Total(Weights(Subsequence(rs, I), weight)) = Total(part)
    BY <1>1, <1>2, SelectionWeighs
  <1> QED
    BY <1>3, <1>4 DEF sub, rs

\* The rows of an input are as many as its measured samples in all the sessions.
LEMMA InputRows ==
    ASSUME NEW as, IsCampaignOf(as), NEW i \in InputIndices
    PROVE  LET rs == VariationRows(as)
           IN  /\ OfInput(rs, i) \in Seq(RowSet(as))
               /\ \A v \in ToSet(OfInput(rs, i)) : v \in ToSet(rs)
               /\ Len(OfInput(rs, i)) = Total([k \in 1..Len(as) |-> CountOf(as[k], i)])
  <1> DEFINE V == RowSet(as)
             rs == VariationRows(as)
             n == Len(rs)
             I == {k \in 1..n : rs[k].input = i}
             sub == OfInput(rs, i)
             is == [v \in V |-> IF v.input = i THEN 1 ELSE 0]
  <1>1. rs \in Seq(V)
    BY VariationRowsAre
  <1>2. is \in [V -> Int] /\ \A v \in V : is[v] = IF v.input = i THEN 1 ELSE 0
    OBVIOUS
  <1> HIDE DEF V, rs, is
  <1>3. n \in Nat /\ DOMAIN rs = 1..n /\ \A k \in 1..n : rs[k] \in V
    BY <1>1
  <1>4. sub = Subsequence(rs, I) /\ I \in SUBSET (1..n)
    BY <1>3 DEF OfInput
  <1> HIDE DEF sub
  <1>5. sub \in Seq(V) /\ Len(sub) = Cardinality(I)
    <2> HIDE DEF I
    <2> QED
      BY <1>1, <1>4, SubsequenceElements, SubsequenceLength
  <1>6. \A v \in ToSet(sub) : v \in ToSet(rs)
    <2> HIDE DEF I
    <2>1. ToSet(Subsequence(rs, I)) = {rs[k] : k \in I \cap 1..n}
      BY <1>1, SubsequenceElements
    <2> QED
      BY <1>3, <1>4, <2>1 DEF ToSet
  <1>7. Cardinality(I) = Total(Weights(rs, is))
    <2>1. Weights(rs, is) = [k \in 1..n |-> IF k \in I THEN 1 ELSE 0]
      BY <1>2, <1>3 DEF Weights
    <2> HIDE DEF I
    <2>2. Cardinality(I) = Total([k \in 1..n |-> IF k \in I THEN 1 ELSE 0])
      BY <1>3, <1>4, CountIsTotal
    <2> QED
      BY <2>1, <2>2
  <1>8. Total(Weights(rs, is)) = Total([k \in 1..Len(as) |-> Total(Weights(RowsOfSession(as, k), is))])
    BY <1>2, VariationRowsAre DEF rs, V
  <1>9. ASSUME NEW k \in 1..Len(as)
        PROVE  Total(Weights(RowsOfSession(as, k), is)) = CountOf(as[k], i)
    <2> DEFINE m == MeasuredSamples(as[k])
               c == Len(m)
               J == {j \in 1..c : m[j].input = i}
               of == RowsOfSession(as, k)
    <2>1. k \in DOMAIN as
      BY SessionsAre
    <2>2. c \in Nat /\ DOMAIN m = 1..c
      BY <2>1, MeasuredFramesAre
    <2>3. of \in Seq(V) /\ Len(of) = c /\ \A j \in 1..c : of[j].input = m[j].input
      BY <2>1, SessionRowsAre DEF V
    <2>4. CountOf(as[k], i) = Cardinality(J)
      BY <2>2 DEF CountOf
    <2> HIDE DEF of, c, m
    <2>5. Weights(of, is) = [j \in 1..c |-> IF j \in J THEN 1 ELSE 0]
      <3>1. \A j \in 1..c : of[j] \in V
        BY <2>3
      <3>2. \A j \in 1..c : is[of[j]] = IF j \in J THEN 1 ELSE 0
        BY <1>2, <2>3, <3>1
      <3> HIDE DEF J
      <3> QED
        BY <2>3, <3>2 DEF Weights
    <2>6. J \in SUBSET (1..c)
      OBVIOUS
    <2> HIDE DEF J
    <2>7. Cardinality(J) = Total([j \in 1..c |-> IF j \in J THEN 1 ELSE 0])
      BY <2>2, <2>6, CountIsTotal
    <2> QED
      BY <2>4, <2>5, <2>7 DEF of
  <1>10. [k \in 1..Len(as) |-> Total(Weights(RowsOfSession(as, k), is))] = [k \in 1..Len(as) |-> CountOf(as[k], i)]
    BY <1>9
  <1>11. Len(sub) = Total([k \in 1..Len(as) |-> CountOf(as[k], i)])
    BY <1>5, <1>7, <1>8, <1>10
  <1> HIDE DEF n
  <1> QED
    BY <1>5, <1>11, <1>6 DEF V, rs, sub, n

LEMMA TotalIsPositive ==
    ASSUME NEW n \in Nat \ {0}, NEW x \in [1..n -> Int], \A k \in 1..n : x[k] > 0
    PROVE  Total(x) > 0
  <1> DEFINE xs == PrefixSums(x)
             S == {k \in 1..n : xs[k] > 0}
  <1>1. x \in Seq(Int) /\ Len(x) = n
    BY FunctionIsSequence
  <1>2. xs \in [0..n -> Int] /\ xs[0] = 0 /\ (\A k \in 1..n : xs[k] = xs[k - 1] + x[k]) /\ xs[n] = Total(x)
    BY <1>1, SumsExist DEF Total
  <1> HIDE DEF xs
  <1>3. 1 \in S
    <2>1. 1 \in 1..n /\ xs[1] = xs[1 - 1] + x[1] /\ x[1] > 0
      BY <1>2
    <2> QED
      BY <2>1, <1>2
  <1>4. ASSUME NEW k \in 1..(n - 1), k \in S PROVE k + 1 \in S
    <2>1. k + 1 \in 1..n /\ xs[k + 1] = xs[(k + 1) - 1] + x[k + 1] /\ (k + 1) - 1 = k
      BY <1>2
    <2> QED
      <3>1. k \in 0..n /\ xs[k] \in Int /\ xs[k] > 0 /\ x[k + 1] \in Int /\ x[k + 1] > 0
        BY <1>2, <1>4, <2>1
      <3>2. xs[k + 1] > 0
        BY <2>1, <3>1
      <3> QED
        BY <2>1, <3>2
  <1>5. n \in S
    <2>1. 1 \in Nat /\ n \in Nat /\ n \in 1..n
      OBVIOUS
    <2> HIDE DEF S
    <2> QED
      BY <1>3, <1>4, <2>1, IntervalInduction
  <1> QED
    BY <1>2, <1>5

\* What the rows of each input weigh: every row is of one input.
InputWeights(as, weight) == [c \in 1..Inputs |-> Total(Weights(OfInput(VariationRows(as), c - 1), weight))]

LEMMA RowsWeighByInput ==
    ASSUME NEW as, IsCampaignOf(as), Inputs \in Nat \ {0}, NEW weight \in [RowSet(as) -> Int]
    PROVE  /\ InputWeights(as, weight) \in [1..Inputs -> Int]
           /\ Total(InputWeights(as, weight)) = Total(Weights(VariationRows(as), weight))
  <1> DEFINE V == RowSet(as)
             rs == VariationRows(as)
             n == Len(rs)
             class == [k \in 1..n |-> rs[k].input + 1]
             x == Weights(rs, weight)
             sums == InputWeights(as, weight)
  <1>1. rs \in Seq(V) /\ (\A v \in V : v.input \in InputIndices) /\ weight \in [V -> Int]
    BY VariationRowsAre
  <1> HIDE DEF V, rs
  <1>2. n \in Nat /\ \A k \in 1..n : rs[k] \in V /\ rs[k].input \in 0..(Inputs - 1)
    BY <1>1 DEF InputIndices
  <1>3. class \in [1..n -> 1..Inputs]
    BY <1>2
  <1>4. x \in [1..n -> Int] /\ \A k \in 1..n : x[k] = weight[rs[k]]
    BY <1>1, WeightsAre
  <1> HIDE DEF x, n
  <1>5. ASSUME NEW c \in 1..Inputs
        PROVE  \E part \in [1..n -> Int] : /\ \A k \in 1..n : part[k] = IF class[k] = c THEN x[k] ELSE 0
                                          /\ sums[c] = Total(part)
    <2> DEFINE part == [k \in 1..n |-> IF class[k] = c THEN x[k] ELSE 0]
    <2>1. PICK i \in InputIndices : i = c - 1
      BY DEF InputIndices
    <2>2. \A k \in 1..n : class[k] = c <=> rs[k].input = i
      BY <1>2, <2>1
    <2> HIDE DEF class
    <2>3. part \in [1..n -> Int] /\ \A k \in 1..n : part[k] = IF class[k] = c THEN x[k] ELSE 0
      BY <1>4
    <2>4. IsInputPart(part, rs, i, weight)
      BY <1>4, <2>2 DEF IsInputPart, n
    <2> HIDE DEF part
    <2>5. Total(Weights(OfInput(rs, i), weight)) = Total(part)
      BY <2>4, InputWeighs DEF rs
    <2>6. sums[c] = Total(Weights(OfInput(rs, i), weight))
      BY <2>1 DEF rs, InputWeights
    <2> QED
      BY <2>3, <2>5, <2>6
  <1>6. ASSUME NEW c \in 1..Inputs PROVE sums[c] \in Int
    <2>1. PICK part \in [1..n -> Int] : sums[c] = Total(part)
      BY <1>5
    <2> QED
      BY <2>1, <1>2, TotalIsInteger
  <1>7. sums \in [1..Inputs -> Int]
    BY <1>6 DEF InputWeights
  <1>8. SumsByClass(sums, n, Inputs, class, x)
    <2> HIDE DEF class, sums
    <2> QED
      BY <1>2, <1>3, <1>4, <1>5, <1>7 DEF SumsByClass
  <1> HIDE DEF class, sums
  <1>9. Total(sums) = Total(x)
    BY <1>8, TotalOfClasses
  <1> QED
    BY <1>7, <1>9 DEF rs, x, sums

\* Every input has as many rows as any other.
LEMMA InputsAreCounted ==
    ASSUME NEW as, IsCampaignOf(as), as # <<>>, Inputs \in Nat \ {0}
    PROVE  \E count \in Nat \ {0} :
             /\ \A i \in InputIndices : Len(OfInput(VariationRows(as), i)) = count
             /\ Len(VariationRows(as)) = Inputs * count
  <1> DEFINE V == RowSet(as)
             rs == VariationRows(as)
             m == Len(as)
             Count(k) == CountOf(as[k], 0)
             counts == [k \in 1..m |-> Count(k)]
             count == Total(counts)
             one == [v \in V |-> 1]
             z == InputWeights(as, one)
  <1>1. m \in Nat \ {0} /\ DOMAIN as = 1..m
    <2>1. m \in Nat /\ DOMAIN as = 1..m
      BY SessionsAre
    <2> DEFINE S == {as[k] : k \in DOMAIN as}
    <2>2. as \in Seq(S)
      BY DEF IsCampaignOf
    <2> HIDE DEF S
    <2>3. m # 0
      <3>1. Len(as) = 0 => as = <<>>
        BY <2>2
      <3> QED
        BY <3>1
    <2> QED
      BY <2>1, <2>3
  <1>2. 0 \in InputIndices
    BY DEF InputIndices
  <1>3. ASSUME NEW k \in 1..m
        PROVE  Count(k) \in Nat \ {0} /\ \A i \in InputIndices : CountOf(as[k], i) = Count(k)
    <2>1. Balanced(as[k]) /\ Len(as[k].samples) \in Nat
      BY <1>1, SequenceIsFunction DEF IsCampaignOf, VariationHolds
    <2>2. PICK n \in 1..Len(as[k].samples) : \A i \in InputIndices : CountOf(as[k], i) = n
      BY <2>1 DEF Balanced
    <2>3. Count(k) = n
      BY <2>2, <1>2
    <2> HIDE DEF Count
    <2>4. n \in Nat \ {0}
      BY <2>1
    <2> QED
      BY <2>2, <2>3, <2>4
  <1>4. counts \in [1..m -> Int] /\ \A k \in 1..m : counts[k] > 0
    <2>1. \A k \in 1..m : Count(k) \in Nat \ {0}
      BY <1>3
    <2> HIDE DEF m, Count
    <2> QED
      BY <2>1
  <1>5. count \in Nat \ {0}
    <2> HIDE DEF counts, m
    <2>1. count \in Int /\ count > 0
      BY <1>1, <1>4, TotalIsInteger, TotalIsPositive
    <2> QED
      BY <2>1
  <1>6. ASSUME NEW i \in InputIndices
        PROVE  OfInput(rs, i) \in Seq(V) /\ Len(OfInput(rs, i)) = count
    <2>1. OfInput(rs, i) \in Seq(V) /\ Len(OfInput(rs, i)) = Total([k \in 1..m |-> CountOf(as[k], i)])
      BY InputRows
    <2>2. [k \in 1..m |-> CountOf(as[k], i)] = counts
      BY <1>3
    <2> QED
      BY <2>1, <2>2
  <1>7. rs \in Seq(V)
    BY VariationRowsAre
  <1>8. one \in [V -> Int] /\ \A v \in V : one[v] = 1
    OBVIOUS
  <1> HIDE DEF V, rs, count, one
  <1>9. ASSUME NEW s \in Seq(V) PROVE Total(Weights(s, one)) = Len(s)
    <2> DEFINE x == Weights(s, one)
    <2>1. Len(s) \in Nat /\ \A k \in 1..Len(s) : s[k] \in V
      OBVIOUS
    <2>2. x \in [1..Len(s) -> Int] /\ \A k \in 1..Len(s) : x[k] = 1
      BY <2>1, <1>8 DEF Weights
    <2> HIDE DEF x
    <2>3. Total(x) = Len(s) * 1
      BY <2>1, <2>2, TotalOfConstant
    <2>4. Len(s) * 1 = Len(s)
      BY <2>1
    <2> QED
      BY <2>3, <2>4 DEF x
  <1>10. z \in [1..Inputs -> Int] /\ Total(z) = Total(Weights(rs, one))
    <2>1. one \in [RowSet(as) -> Int]
      BY <1>8 DEF V
    <2> QED
      BY <2>1, RowsWeighByInput DEF rs
  <1>11. ASSUME NEW c \in 1..Inputs PROVE z[c] = count
    <2>1. PICK i \in InputIndices : i = c - 1
      BY DEF InputIndices
    <2>2. z[c] = Total(Weights(OfInput(rs, i), one))
      BY <2>1 DEF InputWeights, rs
    <2> HIDE DEF z
    <2> QED
      BY <2>2, <1>6, <1>9
  <1> HIDE DEF z
  <1>12. Total(z) = Inputs * count
    BY <1>5, <1>10, <1>11, TotalOfConstant
  <1>13. Len(rs) = Inputs * count
    BY <1>7, <1>10, <1>9, <1>12
  <1> QED
    BY <1>5, <1>6, <1>13 DEF rs

Execution(as) == [v \in RowSet(as) |-> v.execution]
Match(as) == [v \in RowSet(as) |-> v.match]

LEMMA RowWeights ==
    ASSUME NEW as, IsCampaignOf(as)
    PROVE  /\ Execution(as) \in [RowSet(as) -> Int] /\ Match(as) \in [RowSet(as) -> Int]
           /\ \A v \in RowSet(as) : Execution(as)[v] = v.execution /\ Match(as)[v] = v.match
  BY VariationRowsAre DEF Execution, Match

LEMMA ExecutionsAre ==
    ASSUME NEW as, IsCampaignOf(as), NEW s \in Seq(RowSet(as))
    PROVE  /\ ExecutionsOf(s) = Weights(s, Execution(as)) /\ ExecutionsOf(s) \in [1..Len(s) -> Int]
           /\ Len(s) \in Nat /\ Len(ExecutionsOf(s)) = Len(s)
           /\ \A k \in 1..Len(s) : ExecutionsOf(s)[k] = Execution(as)[s[k]]
  <1> DEFINE V == RowSet(as)
             weight == Execution(as)
  <1>1. s \in Seq(V) /\ weight \in [V -> Int] /\ \A v \in V : weight[v] = v.execution
    BY RowWeights
  <1> HIDE DEF V, weight
  <1>2. Len(s) \in Nat /\ DOMAIN s = 1..Len(s) /\ \A k \in 1..Len(s) : s[k] \in V
    BY <1>1
  <1>3. ExecutionsOf(s) = Weights(s, weight)
    BY <1>1, <1>2 DEF ExecutionsOf, Weights
  <1>4. Weights(s, weight) \in [1..Len(s) -> Int] /\ \A k \in 1..Len(s) : Weights(s, weight)[k] = weight[s[k]]
    BY <1>1, WeightsAre
  <1>5. Len(ExecutionsOf(s)) = Len(s)
    BY <1>2, <1>3, <1>4, FunctionIsSequence
  <1> QED
    BY <1>2, <1>3, <1>4, <1>5 DEF weight

\* The executions of an input are between the least and the greatest of all.
LEMMA InputSpread ==
    ASSUME NEW as, IsCampaignOf(as), as # <<>>, Inputs \in Nat \ {0}, NEW i \in InputIndices
    PROVE  LET all == ExecutionsOf(VariationRows(as))
               of == ExecutionsOf(OfInput(VariationRows(as), i))
           IN  /\ Least(all) \in Int /\ Greatest(all) \in Int /\ Median(of) \in Int
               /\ Least(all) <= Least(of) /\ Greatest(of) <= Greatest(all)
               /\ Scale * Least(all) <= Median(of) /\ Median(of) <= Scale * Greatest(all)
  <1> DEFINE V == RowSet(as)
             weight == Execution(as)
             rs == VariationRows(as)
             sub == OfInput(rs, i)
             all == ExecutionsOf(rs)
             of == ExecutionsOf(sub)
             n == Len(rs)
             m == Len(sub)
  <1>1. rs \in Seq(V) /\ sub \in Seq(V) /\ \A v \in ToSet(sub) : v \in ToSet(rs)
    BY VariationRowsAre, InputRows
  <1>2. m \in Nat \ {0} /\ n \in Nat \ {0}
    <2>1. PICK count \in Nat \ {0} : (\A j \in InputIndices : Len(OfInput(rs, j)) = count) /\ n = Inputs * count
      BY InputsAreCounted
    <2>2. Inputs * count \in Nat \ {0}
      OBVIOUS
    <2> QED
      BY <2>1, <2>2
  <1>3. all \in [1..n -> Int] /\ \A k \in 1..n : all[k] = weight[rs[k]]
    BY <1>1, ExecutionsAre
  <1>4. of \in [1..m -> Int] /\ \A k \in 1..m : of[k] = weight[sub[k]]
    BY <1>1, ExecutionsAre
  <1> HIDE DEF V, weight, rs, sub, all, of
  <1>5. ASSUME NEW k \in 1..m PROVE \E j \in 1..n : of[k] = all[j]
    <2>1. DOMAIN sub = 1..m /\ DOMAIN rs = 1..n
      BY <1>1, SequenceIsFunction
    <2>2. sub[k] \in ToSet(rs)
      BY <1>1, <2>1 DEF ToSet
    <2>3. PICK j \in 1..n : sub[k] = rs[j]
      BY <2>1, <2>2 DEF ToSet
    <2> QED
      BY <2>3, <1>3, <1>4
  <1> HIDE DEF n, m
  <1>6. /\ Least(all) \in Int /\ Greatest(all) \in Int
        /\ \A j \in 1..n : Least(all) <= all[j] /\ all[j] <= Greatest(all)
    BY <1>2, <1>3, LeastAndGreatest
  <1>7. /\ Least(of) \in Int /\ Greatest(of) \in Int
        /\ Least(of) \in {of[j] : j \in 1..m} /\ Greatest(of) \in {of[j] : j \in 1..m}
    BY <1>2, <1>4, LeastAndGreatest
  <1>8. Least(all) <= Least(of) /\ Greatest(of) <= Greatest(all)
    BY <1>5, <1>6, <1>7
  <1>9. /\ Median(of) \in Int
        /\ Scale * Least(of) <= Median(of) /\ Median(of) <= Scale * Greatest(of)
    BY <1>2, <1>4, MedianIsBetween
  <1>10. Scale * Least(all) <= Median(of) /\ Median(of) <= Scale * Greatest(all)
    BY <1>6, <1>7, <1>8, <1>9 DEF Scale
  <1> QED
    BY <1>6, <1>8, <1>9, <1>10 DEF rs, sub, all, of

\* The matches of the distinct inputs, and those of all observations.
LEMMA MatchesWeighTheSame ==
    ASSUME NEW as, IsCampaignOf(as), as # <<>>, Inputs \in Nat \ {0}, Stable(VariationRows(as)),
           NEW count \in Nat \ {0}, \A i \in InputIndices : Len(OfInput(VariationRows(as), i)) = count
    PROVE  LET distinct == Total([k \in 1..Inputs |-> OfInput(VariationRows(as), k - 1)[1].match])
           IN  /\ distinct \in Int
               /\ Total([k \in DOMAIN VariationRows(as) |-> VariationRows(as)[k].match]) = count * distinct
  <1> DEFINE V == RowSet(as)
             rs == VariationRows(as)
             weight == Match(as)
             sums == InputWeights(as, weight)
             firsts == [k \in 1..Inputs |-> OfInput(rs, k - 1)[1].match]
  <1>1. rs \in Seq(V) /\ weight \in [V -> Int] /\ \A v \in V : weight[v] = v.match
    BY VariationRowsAre, RowWeights
  <1>2. sums \in [1..Inputs -> Int] /\ Total(sums) = Total(Weights(rs, weight))
    BY RowWeights, RowsWeighByInput
  <1>3. ASSUME NEW c \in 1..Inputs PROVE firsts[c] \in Int /\ sums[c] = count * firsts[c]
    <2>1. PICK i \in InputIndices : i = c - 1
      BY DEF InputIndices
    <2> DEFINE sub == OfInput(rs, i)
    <2>2. sub \in Seq(V) /\ Len(sub) = count
      BY InputRows
    <2>3. \A j, k \in DOMAIN sub : sub[j].match = sub[k].match
      BY DEF Stable
    <2>4. sums[c] = Total(Weights(sub, weight)) /\ firsts[c] = sub[1].match
      BY <2>1 DEF InputWeights
    <2> HIDE DEF V, rs, weight, sums, firsts, sub
    <2>5. DOMAIN sub = 1..count /\ 1 \in 1..count /\ \A k \in 1..count : sub[k] \in V
      BY <2>2
    <2>6. sub[1].match \in Int
      BY <1>1, <2>5
    <2>7. weight \in [V -> Int] /\ sub \in Seq(V)
      BY <1>1, <2>2
    <2> DEFINE x == Weights(sub, weight)
    <2>8. x \in [1..Len(sub) -> Int] /\ \A k \in 1..Len(sub) : x[k] = weight[sub[k]]
      BY <2>7, WeightsAre
    <2> HIDE DEF x
    <2>9. x \in [1..count -> Int] /\ \A k \in 1..count : x[k] = weight[sub[k]]
      BY <2>2, <2>8
    <2>10. ASSUME NEW k \in 1..count PROVE x[k] = sub[1].match
      <3>1. sub[k] \in V /\ sub[k].match = sub[1].match
        BY <2>3, <2>5
      <3> QED
        BY <1>1, <2>9, <3>1
    <2> HIDE DEF x
    <2>11. Total(x) = count * sub[1].match
      BY <2>6, <2>9, <2>10, TotalOfConstant
    <2> QED
      BY <2>4, <2>6, <2>11 DEF x
  <1>4. firsts \in [1..Inputs -> Int]
    <2>1. \A c \in 1..Inputs : firsts[c] \in Int
      BY <1>3
    <2> QED
      BY <2>1
  <1>5. [k \in DOMAIN rs |-> rs[k].match] = Weights(rs, weight)
    <2> HIDE DEF V, rs, weight
    <2>1. DOMAIN rs = 1..Len(rs) /\ \A k \in 1..Len(rs) : rs[k] \in V
      BY <1>1
    <2> QED
      BY <1>1, <2>1 DEF Weights
  <1> HIDE DEF sums, firsts
  <1>6. Total(sums) = count * Total(firsts)
    <2>1. Inputs \in Nat /\ count \in Int
      OBVIOUS
    <2>2. \A c \in 1..Inputs : sums[c] = count * firsts[c]
      BY <1>3
    <2> QED
      BY <2>1, <2>2, <1>2, <1>4, TotalOfMultiples
  <1>7. Total(firsts) \in Int
    <2>1. Inputs \in Nat
      OBVIOUS
    <2> QED
      BY <2>1, <1>4, TotalIsInteger
  <1> QED
    BY <1>2, <1>5, <1>6, <1>7 DEF firsts, rs

LEMMA Accuracy == \A a, b, c \in Int : (a * b) * c = b * (c * a)
  <1>1. \A a, b, c \in Int : (a * b) * c = b * (a * c)
    OBVIOUS
  <1>2. \A a, c \in Int : a * c = c * a
    OBVIOUS
  <1> QED
    BY <1>1, <1>2

\* A session that is streamed has a pipeline that took time.
LEMMA PipelinesTakeTime ==
    ASSUME NEW as, IsCampaignOf(as)
    PROVE  \A k \in DOMAIN Pipelines(as) : Pipelines(as)[k][2] > 0
  <1> DEFINE S == {as[k] : k \in DOMAIN as}
             I == {k \in DOMAIN as : as[k].inputSet = "stream20"}
             streamed == Subsequence(as, I)
  <1>1. as \in Seq(S)
    BY DEF IsCampaignOf
  <1>2. \A k \in I : as[k].pipeline > 0
    BY DEF IsCampaignOf, VariationHolds
  <1>3. DOMAIN as = 1..Len(as)
    BY SessionsAre
  <1>4. ToSet(streamed) = {as[k] : k \in I \cap 1..Len(as)}
    <2> HIDE DEF S, I
    <2> QED
      BY <1>1, SubsequenceElements
  <1> HIDE DEF S
  <1>5. Pipelines(as) = [k \in DOMAIN streamed |-> <<Len(MeasuredSamples(streamed[k])), streamed[k].pipeline>>]
    BY DEF Pipelines
  <1> HIDE DEF I, streamed
  <1>6. ASSUME NEW k \in DOMAIN streamed PROVE streamed[k].pipeline > 0
    <2>1. streamed[k] \in ToSet(streamed)
      BY DEF ToSet
    <2>2. PICK j \in I : streamed[k] = as[j]
      BY <2>1, <1>4
    <2> QED
      BY <2>2, <1>2
  <1> QED
    BY <1>5, <1>6

LEMMA WeightsAreEqual ==
    ASSUME NEW as, IsCampaignOf(as), VariationAccepts(as), Inputs \in Nat \ {0}
    PROVE  EqualWeights(as, VariationReport(as))
  <1> DEFINE rs == VariationRows(as)
             result == VariationReport(as)
             all == ExecutionsOf(rs)
             Own(i) == ExecutionsOf(OfInput(rs, i))
             medians == [k \in 1..Inputs |-> result.perInput[k - 1].median]
             totals == [k \in 1..Inputs |-> result.perInput[k - 1].total]
             distinct == Total([k \in 1..Inputs |-> OfInput(rs, k - 1)[1].match])
             repeated == Total([k \in DOMAIN rs |-> rs[k].match])
  <1>1. as # <<>> /\ Stable(rs) /\ rs \in Seq(RowSet(as))
    BY VariationRowsAre DEF VariationAccepts
  <1>2. PICK count \in Nat \ {0} : (\A i \in InputIndices : Len(OfInput(rs, i)) = count) /\ Len(rs) = Inputs * count
    BY <1>1, InputsAreCounted
  <1>3. \A i \in InputIndices : OfInput(rs, i) \in Seq(RowSet(as))
    BY InputRows
  <1>4. /\ result.overall = Spread(all) /\ result.pipelines = Pipelines(as)
        /\ result.distinctMatches = distinct /\ result.repeatedMatches = repeated
        /\ \A i \in InputIndices : result.perInput[i] = Spread(Own(i))
        /\ result.range = Greatest(medians) - Least(medians)
    BY DEF VariationReport
  <1>5. Len(all) = Len(rs) /\ all = Weights(rs, Execution(as))
    BY <1>1, ExecutionsAre
  <1>6. ASSUME NEW i \in InputIndices PROVE Len(Own(i)) = count /\ Own(i) = Weights(OfInput(rs, i), Execution(as))
    <2>1. OfInput(rs, i) \in Seq(RowSet(as))
      BY <1>3
    <2> QED
      BY <1>2, <2>1, ExecutionsAre
  <1>7. /\ result.overall.count = Len(all) /\ result.overall.total = Total(all)
        /\ result.overall.minimum = Least(all) /\ result.overall.maximum = Greatest(all)
    <2> HIDE DEF all, result, rs
    <2> QED
      BY <1>4 DEF Spread
  <1>8. ASSUME NEW i \in InputIndices
        PROVE  LET p == result.perInput[i]
               IN  /\ p.count = Len(Own(i)) /\ p.total = Total(Own(i)) /\ p.median = Median(Own(i))
                   /\ p.minimum = Least(Own(i)) /\ p.maximum = Greatest(Own(i))
    <2> DEFINE of == Own(i)
    <2>1. result.perInput[i] = Spread(of)
      BY <1>4
    <2> HIDE DEF of, result, rs
    <2>2. LET p == result.perInput[i]
          IN  /\ p.count = Len(of) /\ p.total = Total(of) /\ p.median = Median(of)
              /\ p.minimum = Least(of) /\ p.maximum = Greatest(of)
      BY <2>1 DEF Spread
    <2> QED
      BY <2>2 DEF of
  <1>9. distinct \in Int /\ repeated = count * distinct
    BY <1>1, <1>2, MatchesWeighTheSame
  <1>10. result.overall.total = Total(totals)
    <2>1. ASSUME NEW c \in 1..Inputs PROVE totals[c] = InputWeights(as, Execution(as))[c]
      <3>1. PICK i \in InputIndices : i = c - 1
        BY DEF InputIndices
      <3>2. totals[c] = Total(Own(i))
        BY <1>8, <3>1
      <3>3. InputWeights(as, Execution(as))[c] = Total(Weights(OfInput(rs, i), Execution(as)))
        BY <3>1 DEF InputWeights
      <3> QED
        BY <1>6, <3>2, <3>3
    <2> HIDE DEF result, rs
    <2>2. totals = InputWeights(as, Execution(as))
      BY <2>1 DEF InputWeights
    <2>3. Total(InputWeights(as, Execution(as))) = Total(Weights(VariationRows(as), Execution(as)))
      BY RowWeights, RowsWeighByInput
    <2> QED
      BY <1>5, <1>7, <2>2, <2>3 DEF rs
  <1>11. ASSUME NEW i \in InputIndices
         PROVE  /\ Least(all) \in Int /\ Greatest(all) \in Int /\ Median(Own(i)) \in Int
                /\ Least(all) <= Least(Own(i)) /\ Greatest(Own(i)) <= Greatest(all)
                /\ Scale * Least(all) <= Median(Own(i)) /\ Median(Own(i)) <= Scale * Greatest(all)
    BY <1>1, InputSpread
  <1>12. 0 \in InputIndices
    BY DEF InputIndices
  <1>13. ASSUME NEW c \in 1..Inputs
         PROVE  /\ medians[c] \in Int
                /\ Scale * Least(all) <= medians[c] /\ medians[c] <= Scale * Greatest(all)
    <2>1. PICK i \in InputIndices : i = c - 1
      BY DEF InputIndices
    <2>2. medians[c] = Median(Own(i))
      BY <1>8, <2>1
    <2> HIDE DEF medians
    <2> QED
      BY <1>11, <2>2
  <1>14. result.range <= Scale * (Greatest(all) - Least(all))
    <2> HIDE DEF result, rs, all
    <2>1. medians \in [1..Inputs -> Int]
      BY <1>13
    <2> HIDE DEF medians
    <2>2. /\ Least(medians) \in {medians[c] : c \in 1..Inputs} /\ Least(medians) \in Int
          /\ Greatest(medians) \in {medians[c] : c \in 1..Inputs} /\ Greatest(medians) \in Int
      BY <2>1, LeastAndGreatest
    <2>3. Scale * Least(all) <= Least(medians) /\ Greatest(medians) <= Scale * Greatest(all)
      BY <1>13, <2>2
    <2>4. Least(all) \in Int /\ Greatest(all) \in Int
      BY <1>11, <1>12
    <2> HIDE DEF Own
    <2>5. Greatest(medians) - Least(medians) <= Scale * (Greatest(all) - Least(all))
      BY <2>2, <2>3, <2>4 DEF Scale
    <2> QED
      BY <1>4, <2>5
  <1>15. result.repeatedMatches * Inputs = result.distinctMatches * result.overall.count
    <2>1. result.repeatedMatches = count * distinct /\ result.distinctMatches = distinct /\ result.overall.count = Inputs * count
      BY <1>2, <1>4, <1>5, <1>7, <1>9
    <2> HIDE DEF result, distinct
    <2>2. (count * distinct) * Inputs = distinct * (Inputs * count)
      BY <1>9, Accuracy
    <2> QED
      BY <2>1, <2>2
  <1>16. Inputs * result.perInput[0].count = result.overall.count
    <2>1. result.perInput[0].count = count
      BY <1>6, <1>8, <1>12
    <2> HIDE DEF result
    <2> QED
      BY <1>2, <1>5, <1>7, <2>1
  <1>17. \A i \in InputIndices : /\ result.overall.minimum <= result.perInput[i].minimum
                                 /\ result.perInput[i].maximum <= result.overall.maximum
    BY <1>7, <1>8, <1>11
  <1>18. \A k \in DOMAIN result.pipelines : result.pipelines[k][2] > 0
    BY <1>4, PipelinesTakeTime
  <1>19. result.range <= Scale * (result.overall.maximum - result.overall.minimum)
    BY <1>7, <1>14
  <1>20. EqualWeights(as, result)
    <2> HIDE DEF result
    <2> QED
      BY <1>10, <1>15, <1>16, <1>17, <1>18, <1>19 DEF EqualWeights
  <1> QED
    BY <1>20

\* What is reported of the input sets is the report of sessions that have been
\* accepted.
VariationInv ==
    tool = "variation" =>
        /\ evidence \in VariationEvidence
        /\ \/ outcome = NoOutcome
           \/ VariationAccepts(evidence) /\ outcome = <<VariationReport(evidence)>>

\* input_variation.py 138-196: when sessions of an input set have been accepted,
\* every input is in them as often as any other, so that the accuracy over the
\* observations is that over the inputs, and the overall sums and extremes are
\* those of the inputs.
THEOREM InputsHaveEqualWeight == ReportsSpec => []InputsWeighTheSame
  <1>1. ReportsInit => VariationInv
    BY DEF ReportsInit, VariationInv
  <1>2. VariationInv /\ [ReportsNext]_reportVars => VariationInv'
    <2> SUFFICES ASSUME VariationInv, [ReportsNext]_reportVars, tool' = "variation" PROVE VariationInv'
      BY DEF VariationInv
    <2>1. UNCHANGED <<tool, evidence>>
      BY DEF ReportsNext, Evaluate, WriteNext, reportVars
    <2>2. \/ outcome' = outcome
          \/ Accepts /\ outcome' = <<ReportOf>>
      BY DEF ReportsNext, Evaluate, WriteNext, reportVars
    <2>3. Accepts = VariationAccepts(evidence) /\ ReportOf = VariationReport(evidence)
      BY <2>1 DEF Accepts, ReportOf
    <2> QED
      BY <2>1, <2>2, <2>3 DEF VariationInv
  <1>3. VariationInv => InputsWeighTheSame
    <2> SUFFICES ASSUME VariationInv, Reported("variation") PROVE EqualWeights(evidence, outcome[1])
      BY DEF InputsWeighTheSame
    <2>1. /\ evidence \in VariationEvidence /\ VariationAccepts(evidence)
          /\ outcome = <<VariationReport(evidence)>>
      BY DEF VariationInv, Reported
    <2>2. outcome[1] = VariationReport(evidence)
      BY <2>1
    <2>3. IsCampaignOf(evidence) /\ Inputs \in Nat \ {0}
      BY <2>1, VariationAssumption DEF VariationAccepts, IsCampaignOf
    <2> QED
      BY <2>1, <2>2, <2>3, WeightsAreEqual
  <1> QED
    BY <1>1, <1>2, <1>3, PTL DEF ReportsSpec

-----------------------------------------------------------------------------
(* The reports of sessions of the CPU, whose traces need not be in the order *)
(* of time.                                                                 *)

\* Three lists of samples at the same times, the third with the sums of the
\* powers of the other two.
IsSumPoint(z, x, y) == x.time = z.time /\ y.time = z.time /\ z.power = x.power + y.power
AreSums(z, x, y) ==
    /\ x \in Seq(Points) /\ y \in Seq(Points) /\ z \in Seq(Points)
    /\ Len(x) = Len(z) /\ Len(y) = Len(z)
    /\ \A k \in 1..Len(z) : IsSumPoint(z[k], x[k], y[k])

LEMMA SumsOfOne ==
    ASSUME NEW x \in Points, NEW y \in Points, NEW z \in Points, IsSumPoint(z, x, y)
    PROVE  AreSums(<<z>>, <<x>>, <<y>>)
  <1>1. \A p \in Points : <<p>> \in Seq(Points) /\ Len(<<p>>) = 1 /\ <<p>>[1] = p
    OBVIOUS
  <1>2. IsSumPoint(<<z>>[1], <<x>>[1], <<y>>[1])
    BY <1>1
  <1>3. 1..1 = {1}
    OBVIOUS
  <1> QED
    BY <1>1, <1>2, <1>3 DEF AreSums

LEMMA SumsOfBoth ==
    ASSUME NEW x, NEW y, NEW z, NEW u, NEW v, NEW w, AreSums(z, x, y), AreSums(w, u, v)
    PROVE  AreSums(z \o w, x \o u, y \o v)
  <1> DEFINE n == Len(z)
             m == Len(w)
  <1>1. /\ x \in Seq(Points) /\ y \in Seq(Points) /\ z \in Seq(Points)
        /\ Len(x) = n /\ Len(y) = n /\ Len(z) = n /\ \A k \in 1..n : IsSumPoint(z[k], x[k], y[k])
    BY DEF AreSums
  <1>2. /\ u \in Seq(Points) /\ v \in Seq(Points) /\ w \in Seq(Points)
        /\ Len(u) = m /\ Len(v) = m /\ Len(w) = m /\ \A k \in 1..m : IsSumPoint(w[k], u[k], v[k])
    BY DEF AreSums
  <1>3. n \in Nat /\ m \in Nat
    BY <1>1, <1>2
  <1> HIDE DEF n, m
  <1>4. ASSUME NEW s \in Seq(Points), NEW r \in Seq(Points), Len(s) = n, Len(r) = m
        PROVE  /\ s \o r \in Seq(Points) /\ Len(s \o r) = n + m
               /\ \A k \in 1..n : (s \o r)[k] = s[k]
               /\ \A k \in 1..m : (s \o r)[n + k] = r[k]
    <2>1. /\ s \o r \in Seq(Points) /\ Len(s \o r) = Len(s) + Len(r)
          /\ \A k \in 1..Len(s) : (s \o r)[k] = s[k]
          /\ \A k \in 1..Len(r) : (s \o r)[Len(s) + k] = r[k]
      BY Concatenated
    <2> QED
      BY <1>4, <2>1
  <1>5. /\ z \o w \in Seq(Points) /\ Len(z \o w) = n + m
        /\ x \o u \in Seq(Points) /\ Len(x \o u) = n + m
        /\ y \o v \in Seq(Points) /\ Len(y \o v) = n + m
    BY <1>1, <1>2, <1>4
  <1>6. /\ \A k \in 1..n : (z \o w)[k] = z[k] /\ (x \o u)[k] = x[k] /\ (y \o v)[k] = y[k]
        /\ \A k \in 1..m : (z \o w)[n + k] = w[k] /\ (x \o u)[n + k] = u[k] /\ (y \o v)[n + k] = v[k]
    <2>1. (\A k \in 1..n : (z \o w)[k] = z[k]) /\ (\A k \in 1..m : (z \o w)[n + k] = w[k])
      BY <1>1, <1>2, <1>4
    <2>2. (\A k \in 1..n : (x \o u)[k] = x[k]) /\ (\A k \in 1..m : (x \o u)[n + k] = u[k])
      BY <1>1, <1>2, <1>4
    <2>3. (\A k \in 1..n : (y \o v)[k] = y[k]) /\ (\A k \in 1..m : (y \o v)[n + k] = v[k])
      BY <1>1, <1>2, <1>4
    <2> QED
      BY <2>1, <2>2, <2>3
  <1>7. ASSUME NEW k \in 1..(n + m) PROVE IsSumPoint((z \o w)[k], (x \o u)[k], (y \o v)[k])
    <2>1. CASE k \in 1..n
      BY <1>1, <1>6, <2>1
    <2>2. CASE k \notin 1..n
      <3> DEFINE j == k - n
      <3>1. j \in 1..m /\ k = n + j
        BY <1>3, <2>2
      <3> HIDE DEF j
      <3> QED
        BY <1>2, <1>6, <3>1
    <2> QED
      BY <2>1, <2>2
  <1> QED
    BY <1>5, <1>7 DEF AreSums

\* What is selected of them at the same indices are such lists.
LEMMA SumsOfSelected ==
    ASSUME NEW x, NEW y, NEW z, AreSums(z, x, y), NEW I
    PROVE  AreSums(Subsequence(z, I), Subsequence(x, I), Subsequence(y, I))
  <1> DEFINE n == Len(z)
             a == SelectedPrefixes(x, I)
             b == SelectedPrefixes(y, I)
             c == SelectedPrefixes(z, I)
             S == {k \in 0..n : AreSums(c[k], a[k], b[k])}
  <1>1. /\ x \in Seq(Points) /\ y \in Seq(Points) /\ z \in Seq(Points)
        /\ Len(x) = n /\ Len(y) = n /\ Len(z) = n /\ n \in Nat
        /\ \A k \in 1..n : IsSumPoint(z[k], x[k], y[k]) /\ x[k] \in Points /\ y[k] \in Points /\ z[k] \in Points
    BY ElementOf DEF AreSums
  <1>2. Subsequence(x, I) = a[n] /\ Subsequence(y, I) = b[n] /\ Subsequence(z, I) = c[n]
    <2>1. /\ Subsequence(x, I) = SelectedPrefixes(x, I)[Len(x)]
          /\ Subsequence(y, I) = SelectedPrefixes(y, I)[Len(y)]
          /\ Subsequence(z, I) = SelectedPrefixes(z, I)[Len(z)]
      BY Zenon DEF Subsequence
    <2>2. Len(x) = n /\ Len(y) = n /\ Len(z) = n
      BY <1>1
    <2> HIDE DEF n
    <2> QED
      BY Zenon, <2>1, <2>2
  <1> HIDE DEF n
  <1>9. \A k \in 1..n : k - 1 \in 0..n
    BY <1>1
  <1>3. /\ a[0] = <<>>
        /\ \A k \in 1..n : a[k - 1] \in Seq(Points) /\ a[k] = IF k \in I THEN Append(a[k - 1], x[k]) ELSE a[k - 1]
    <2>1. /\ a \in [0..n -> Seq(Points)] /\ a[0] = <<>>
          /\ \A k \in 1..n : a[k] = IF k \in I THEN Append(a[k - 1], x[k]) ELSE a[k - 1]
      BY <1>1, SelectionExists
    <2> HIDE DEF a
    <2> QED
      BY <1>9, <2>1
  <1>4. /\ b[0] = <<>>
        /\ \A k \in 1..n : b[k - 1] \in Seq(Points) /\ b[k] = IF k \in I THEN Append(b[k - 1], y[k]) ELSE b[k - 1]
    <2>1. /\ b \in [0..n -> Seq(Points)] /\ b[0] = <<>>
          /\ \A k \in 1..n : b[k] = IF k \in I THEN Append(b[k - 1], y[k]) ELSE b[k - 1]
      BY <1>1, SelectionExists
    <2> HIDE DEF b
    <2> QED
      BY <1>9, <2>1
  <1>5. /\ c[0] = <<>>
        /\ \A k \in 1..n : c[k - 1] \in Seq(Points) /\ c[k] = IF k \in I THEN Append(c[k - 1], z[k]) ELSE c[k - 1]
    <2>1. /\ c \in [0..n -> Seq(Points)] /\ c[0] = <<>>
          /\ \A k \in 1..n : c[k] = IF k \in I THEN Append(c[k - 1], z[k]) ELSE c[k - 1]
      BY <1>1, SelectionExists
    <2> HIDE DEF c
    <2> QED
      BY <1>9, <2>1
  <1> HIDE DEF a, b, c
  <1>6. 0 \in S
    <2>1. AreSums(<<>>, <<>>, <<>>)
      BY DEF AreSums
    <2> QED
      BY <1>1, <1>3, <1>4, <1>5, <2>1
  <1>7. \A k \in 0..(n - 1) : k \in S => k + 1 \in S
    <2> SUFFICES ASSUME NEW k \in 0..(n - 1), k \in S PROVE k + 1 \in S
      OBVIOUS
    <2> DEFINE j == k + 1
    <2>1. j \in 1..n /\ j \in 0..n /\ j - 1 = k /\ AreSums(c[k], a[k], b[k])
      BY <1>1
    <2> HIDE DEF j, S
    <2>2. CASE j \in I
      <3>1. \A s \in Seq(Points), e \in Points : Append(s, e) = s \o <<e>>
        OBVIOUS
      <3>2. a[j] = a[k] \o <<x[j]>> /\ b[j] = b[k] \o <<y[j]>> /\ c[j] = c[k] \o <<z[j]>>
        BY <1>1, <1>3, <1>4, <1>5, <2>1, <2>2, <3>1
      <3>3. AreSums(<<z[j]>>, <<x[j]>>, <<y[j]>>)
        BY <1>1, <2>1, SumsOfOne
      <3>4. AreSums(c[j], a[j], b[j])
        BY <2>1, <3>2, <3>3, SumsOfBoth
      <3> QED
        BY <2>1, <3>4 DEF j, S
    <2>3. CASE j \notin I
      <3>1. a[j] = a[k] /\ b[j] = b[k] /\ c[j] = c[k]
        BY <1>3, <1>4, <1>5, <2>1, <2>3
      <3>2. AreSums(c[j], a[j], b[j])
        BY <2>1, <3>1
      <3> QED
        BY <2>1, <3>2 DEF j, S
    <2> QED
      BY <2>2, <2>3
  <1>8. n \in S
    <2> HIDE DEF S
    <2>1. \A k \in 0..n : k \in S
      BY <1>1, <1>6, <1>7, IntervalInduction
    <2> QED
      BY <1>1, <2>1
  <1> QED
    BY <1>2, <1>8

\* Their integrals are a sum too.
LEMMA SumsIntegrate ==
    ASSUME NEW x, NEW y, NEW z, AreSums(z, x, y), Len(z) > 0
    PROVE  /\ Integrate(x) \in Int /\ Integrate(y) \in Int
           /\ Integrate(z) = Integrate(x) + Integrate(y)
  <1> DEFINE n == Len(z)
             t == [k \in 1..n |-> z[k].time]
             p(s) == [k \in 1..n |-> s[k].power]
  <1>1. /\ x \in Seq(Points) /\ y \in Seq(Points) /\ z \in Seq(Points)
        /\ Len(x) = n /\ Len(y) = n /\ n \in Nat \ {0}
        /\ \A k \in 1..n : IsSumPoint(z[k], x[k], y[k]) /\ x[k] \in Points /\ y[k] \in Points /\ z[k] \in Points
    BY ElementOf DEF AreSums
  <1> HIDE DEF n
  <1>2. t \in [1..n -> Int]
    BY <1>1 DEF Points
  <1>3. ASSUME NEW s \in Seq(Points), Len(s) = n, \A k \in 1..n : s[k].time = z[k].time
        PROVE  HasPoints(s, n, t, p(s)) /\ p(s) \in [1..n -> Int]
    <2>1. \A k \in 1..n : s[k] \in Points
      BY <1>3, ElementOf
    <2>2. \A k \in 1..n : s[k] = [time |-> t[k], power |-> p(s)[k]]
      BY <1>3, <2>1 DEF Points
    <2>3. s \in [1..n -> Points]
      BY <1>3, SequenceIsFunction
    <2>4. s = [k \in 1..n |-> [time |-> t[k], power |-> p(s)[k]]]
      BY <2>2, <2>3
    <2>5. p(s) \in [1..n -> Int]
      BY <2>1 DEF Points
    <2> QED
      BY <2>4, <2>5 DEF HasPoints
  <1>4. (\A k \in 1..n : x[k].time = z[k].time) /\ (\A k \in 1..n : y[k].time = z[k].time)
    BY <1>1 DEF IsSumPoint
  <1>5. /\ HasPoints(x, n, t, p(x)) /\ p(x) \in [1..n -> Int]
        /\ HasPoints(y, n, t, p(y)) /\ p(y) \in [1..n -> Int]
        /\ HasPoints(z, n, t, p(z)) /\ p(z) \in [1..n -> Int]
    <2> HIDE DEF t, p
    <2>1. HasPoints(x, n, t, p(x)) /\ p(x) \in [1..n -> Int]
      BY <1>1, <1>3, <1>4
    <2>2. HasPoints(y, n, t, p(y)) /\ p(y) \in [1..n -> Int]
      BY <1>1, <1>3, <1>4
    <2>3. HasPoints(z, n, t, p(z)) /\ p(z) \in [1..n -> Int]
      <3>1. Len(z) = n
        BY DEF n
      <3> QED
        BY <1>1, <1>3, <3>1
    <2> QED
      BY <2>1, <2>2, <2>3
  <1>6. \A k \in 1..n : p(z)[k] = p(x)[k] + p(y)[k]
    BY <1>1 DEF IsSumPoint
  <1> DEFINE px == p(x)
             py == p(y)
             pz == p(z)
  <1>7. IsSumOf(pz, px, py, n)
    BY <1>5, <1>6 DEF IsSumOf
  <1>8. HasPoints(x, n, t, px) /\ HasPoints(y, n, t, py) /\ HasPoints(z, n, t, pz)
    BY <1>5
  <1> HIDE DEF t, px, py, pz
  <1> QED
    BY <1>1, <1>2, <1>7, <1>8, IntegralsAdd

LEMMA SampledPowerIs ==
    ASSUME NEW series, NEW n, NEW t, NEW p, IsSampling(series, n, t, p), NEW time \in Int
    PROVE  /\ time = t[n] => Interpolate(series, time) = p[n]
           /\ \A k \in 1..(n - 1) :
                time # t[n] /\ k = Min(Around(t, n, time)) =>
                    /\ time = t[k] => Interpolate(series, time) = p[k]
                    /\ \A slope \in Int : t[k] < time /\ time < t[k + 1] /\ IsSlope(t, p, k, slope) =>
                            Interpolate(series, time) = p[k] + (time - t[k]) * slope
  <1>1. /\ Len(series) = n /\ n \in 1..n
        /\ \A i \in 1..n : series[i].time = t[i] /\ series[i].power = p[i] /\ t[i] \in Int /\ p[i] \in Int
        /\ Surrounding(series, time) = Around(t, n, time)
    BY SamplingIs
  <1>2. n \in Nat /\ 2 <= n
    BY DEF IsSampling
  <1>3. time = t[n] => Interpolate(series, time) = p[n]
    BY <1>1 DEF Interpolate
  <1>4. ASSUME NEW k \in 1..(n - 1), time # t[n], k = Min(Around(t, n, time))
        PROVE  /\ time = t[k] => Interpolate(series, time) = p[k]
               /\ \A slope \in Int : t[k] < time /\ time < t[k + 1] /\ IsSlope(t, p, k, slope) =>
                       Interpolate(series, time) = p[k] + (time - t[k]) * slope
    <2>1. k \in 1..n /\ k + 1 \in 1..n
      BY <1>2
    <2>2. Min(Surrounding(series, time)) = k
      BY <1>1, <1>4
    <2>3. ASSUME time = t[k] PROVE Interpolate(series, time) = p[k]
      BY <1>1, <1>4, <2>1, <2>2, <2>3 DEF Interpolate
    <2>4. ASSUME NEW slope \in Int, t[k] < time, time < t[k + 1], IsSlope(t, p, k, slope)
          PROVE  Interpolate(series, time) = p[k] + (time - t[k]) * slope
      <3> DEFINE x == time - t[k]
                 gap == t[k + 1] - t[k]
      <3>1. Interpolate(series, time) = p[k] + (x * (p[k + 1] - p[k])) \div gap
        <4>1. time # t[k]
          BY <1>1, <2>1, <2>4
        <4> QED
          BY <1>1, <1>4, <2>1, <2>2, <4>1 DEF Interpolate
      <3>2. gap \in Nat \ {0} /\ x \in Int /\ p[k + 1] - p[k] = slope * gap
        BY <1>1, <2>1, <2>4 DEF IsSlope
      <3> HIDE DEF gap, x
      <3>3. (x * (slope * gap)) \div gap = x * slope
        BY <3>2, Divides
      <3> QED
        BY <3>1, <3>2, <3>3 DEF x
    <2> QED
      BY <2>3, <2>4
  <1> QED
    BY <1>3, <1>4

LEMMA SampledPowersAdd ==
    ASSUME NEW n, NEW t, NEW x, NEW px, NEW y, NEW py, NEW z, NEW pz,
           IsSampling(x, n, t, px), IsSampling(y, n, t, py), IsSampling(z, n, t, pz), IsSumOf(pz, px, py, n),
           NEW time \in Int, Interpolates(z, time)
    PROVE  /\ Interpolate(x, time) \in Int /\ Interpolate(y, time) \in Int
           /\ Interpolate(z, time) = Interpolate(x, time) + Interpolate(y, time)
  <1>1. /\ n \in Nat /\ 2 <= n /\ n \in 1..n /\ t \in [1..n -> Int]
        /\ \A k \in 1..n : px[k] \in Int /\ py[k] \in Int /\ pz[k] = px[k] + py[k]
    BY DEF IsSampling, IsSumOf
  <1>2. CASE time = t[n]
    <2>1. Interpolate(x, time) = px[n] /\ Interpolate(y, time) = py[n] /\ Interpolate(z, time) = pz[n]
      BY <1>2, SampledPowerIs
    <2> QED
      BY <1>1, <2>1
  <1>3. CASE time # t[n]
    <2> DEFINE k == Min(Around(t, n, time))
    <2>1. Around(t, n, time) # {}
      BY <1>1, <1>3, SamplingIs DEF Interpolates
    <2>2. Around(t, n, time) \in SUBSET Nat
      BY <1>1 DEF Around
    <2>3. k \in Around(t, n, time)
      <3> HIDE DEF k
      <3>1. Min(Around(t, n, time)) \in Around(t, n, time)
        BY <2>1, <2>2, LeastNatural
      <3> QED
        BY <3>1 DEF k
    <2>4. k \in 1..(n - 1) /\ (t[k] = time \/ (t[k] < time /\ time < t[k + 1]))
      BY <2>3 DEF Around
    <2>5. k = Min(Around(t, n, time))
      OBVIOUS
    <2> HIDE DEF k
    <2>6. k \in 1..n /\ k + 1 \in 1..n
      BY <1>1, <2>4
    <2>7. CASE time = t[k]
      <3>1. Interpolate(x, time) = px[k] /\ Interpolate(y, time) = py[k] /\ Interpolate(z, time) = pz[k]
        BY <1>3, <2>4, <2>5, <2>7, SampledPowerIs
      <3> QED
        BY <1>1, <2>6, <3>1
    <2>8. CASE t[k] < time /\ time < t[k + 1]
      <3>1. t[k] \in Int /\ t[k + 1] \in Int /\ t[k] < t[k + 1]
        BY <1>1, <2>6, <2>8
      <3>2. PICK a \in Int : IsSlope(t, px, k, a)
        BY <2>4, <3>1 DEF IsSampling
      <3>3. PICK b \in Int : IsSlope(t, py, k, b)
        BY <2>4, <3>1 DEF IsSampling
      <3> DEFINE c == a + b
                 gap == t[k + 1] - t[k]
                 d == time - t[k]
      <3>4. c \in Int /\ gap \in Int /\ d \in Int
        BY <3>1
      <3>5. \A e, f, g \in Int : (e + f) * g = e * g + f * g /\ g * (e + f) = g * e + g * f
        OBVIOUS
      <3>6. IsSlope(t, pz, k, c)
        <4>1. px[k + 1] - px[k] = a * gap /\ py[k + 1] - py[k] = b * gap
          BY <3>2, <3>3 DEF IsSlope
        <4>2. c * gap = a * gap + b * gap
          BY <3>4, <3>5
        <4>3. /\ px[k] \in Int /\ px[k + 1] \in Int /\ py[k] \in Int /\ py[k + 1] \in Int
              /\ pz[k] = px[k] + py[k] /\ pz[k + 1] = px[k + 1] + py[k + 1]
          BY <1>1, <2>6
        <4>4. pz[k + 1] - pz[k] = (px[k + 1] - px[k]) + (py[k + 1] - py[k])
          BY <4>3
        <4> HIDE DEF c
        <4> QED
          BY <4>1, <4>2, <4>4 DEF IsSlope
      <3> HIDE DEF c
      <3>7. Interpolate(x, time) = px[k] + d * a
        BY <1>3, <2>4, <2>5, <2>8, <3>2, SampledPowerIs
      <3>8. Interpolate(y, time) = py[k] + d * b
        BY <1>3, <2>4, <2>5, <2>8, <3>3, SampledPowerIs
      <3>9. Interpolate(z, time) = pz[k] + d * c
        BY <1>3, <2>4, <2>5, <2>8, <3>4, <3>6, SampledPowerIs
      <3> HIDE DEF d
      <3>10. d * c = d * a + d * b /\ d * a \in Int /\ d * b \in Int
        BY <3>4, <3>5 DEF c
      <3>11. px[k] \in Int /\ py[k] \in Int /\ pz[k] = px[k] + py[k]
        BY <1>1, <2>6
      <3> QED
        BY <3>7, <3>8, <3>9, <3>10, <3>11
    <2> QED
      BY <2>4, <2>7, <2>8
  <1> QED
    BY <1>2, <1>3

LEMMA SamplingsAreSums ==
    ASSUME NEW n, NEW t, NEW x, NEW px, NEW y, NEW py, NEW z, NEW pz,
           IsSampling(x, n, t, px), IsSampling(y, n, t, py), IsSampling(z, n, t, pz), IsSumOf(pz, px, py, n)
    PROVE  AreSums(z, x, y)
  <1>1. /\ x \in Seq(Points) /\ Len(x) = n
        /\ \A i \in 1..n : x[i].time = t[i] /\ x[i].power = px[i]
    BY SamplingIs
  <1>2. /\ y \in Seq(Points) /\ Len(y) = n
        /\ \A i \in 1..n : y[i].time = t[i] /\ y[i].power = py[i]
    BY SamplingIs
  <1>3. /\ z \in Seq(Points) /\ Len(z) = n
        /\ \A i \in 1..n : z[i].time = t[i] /\ z[i].power = pz[i]
    BY SamplingIs
  <1>4. \A i \in 1..n : pz[i] = px[i] + py[i]
    BY DEF IsSumOf
  <1>5. \A i \in 1..n : IsSumPoint(z[i], x[i], y[i])
    BY <1>1, <1>2, <1>3, <1>4 DEF IsSumPoint
  <1> QED
    BY <1>1, <1>2, <1>3, <1>5 DEF AreSums

\* Clipped to the same interval they are sums as well.
Within(t, n, a, b) == {k \in 1..n : a < t[k] /\ t[k] < b}
Endpoint(series, a) == [time |-> a, power |-> Interpolate(series, a)]

LEMMA ClipOfSampling ==
    ASSUME NEW series, NEW n, NEW t, NEW p, IsSampling(series, n, t, p), NEW a, NEW b
    PROVE  Clip(series, a, b)
             = (<<Endpoint(series, a)>> \o Subsequence(series, Within(t, n, a, b))) \o <<Endpoint(series, b)>>
  <1>1. DOMAIN series = 1..n /\ \A i \in 1..n : series[i].time = t[i]
    BY SamplingIs
  <1>2. {k \in DOMAIN series : a < series[k].time /\ series[k].time < b} = Within(t, n, a, b)
    BY <1>1 DEF Within
  <1> QED
    BY <1>2 DEF Clip, Endpoint

LEMMA ClipsAreSums ==
    ASSUME NEW n, NEW t, NEW x, NEW px, NEW y, NEW py, NEW z, NEW pz,
           IsSampling(x, n, t, px), IsSampling(y, n, t, py), IsSampling(z, n, t, pz), IsSumOf(pz, px, py, n),
           NEW a \in Int, NEW b \in Int, Interpolates(z, a), Interpolates(z, b)
    PROVE  AreSums(Clip(z, a, b), Clip(x, a, b), Clip(y, a, b)) /\ Len(Clip(z, a, b)) > 0
  <1> DEFINE I == Within(t, n, a, b)
             first(series) == <<Endpoint(series, a)>>
             inner(series) == Subsequence(series, I)
             last(series) == <<Endpoint(series, b)>>
  <1>1. ASSUME NEW time \in Int, Interpolates(z, time)
        PROVE  AreSums(<<Endpoint(z, time)>>, <<Endpoint(x, time)>>, <<Endpoint(y, time)>>)
    <2>1. /\ Interpolate(x, time) \in Int /\ Interpolate(y, time) \in Int
          /\ Interpolate(z, time) = Interpolate(x, time) + Interpolate(y, time)
      BY <1>1, SampledPowersAdd
    <2>2. Endpoint(x, time) \in Points /\ Endpoint(y, time) \in Points /\ Endpoint(z, time) \in Points
      BY <2>1 DEF Endpoint, Points
    <2>3. IsSumPoint(Endpoint(z, time), Endpoint(x, time), Endpoint(y, time))
      BY <2>1 DEF Endpoint, IsSumPoint
    <2> QED
      BY <2>2, <2>3, SumsOfOne
  <1>2. AreSums(first(z), first(x), first(y)) /\ AreSums(last(z), last(x), last(y))
    BY <1>1
  <1>3. AreSums(inner(z), inner(x), inner(y))
    BY SamplingsAreSums, SumsOfSelected
  <1>4. /\ Clip(x, a, b) = (first(x) \o inner(x)) \o last(x)
        /\ Clip(y, a, b) = (first(y) \o inner(y)) \o last(y)
        /\ Clip(z, a, b) = (first(z) \o inner(z)) \o last(z)
    <2>1. Clip(x, a, b) = (first(x) \o inner(x)) \o last(x)
      BY ClipOfSampling
    <2>2. Clip(y, a, b) = (first(y) \o inner(y)) \o last(y)
      BY ClipOfSampling
    <2>3. Clip(z, a, b) = (first(z) \o inner(z)) \o last(z)
      BY ClipOfSampling
    <2> QED
      BY <2>1, <2>2, <2>3
  <1>5. Len(last(z)) = 1
    OBVIOUS
  <1> HIDE DEF first, inner, last, I
  <1>6. AreSums(first(z) \o inner(z), first(x) \o inner(x), first(y) \o inner(y))
    BY <1>2, <1>3, SumsOfBoth
  <1>7. AreSums((first(z) \o inner(z)) \o last(z), (first(x) \o inner(x)) \o last(x),
                (first(y) \o inner(y)) \o last(y))
    BY <1>2, <1>6, SumsOfBoth
  <1>8. Len((first(z) \o inner(z)) \o last(z)) > 0
    <2> DEFINE s == first(z) \o inner(z)
    <2>1. s \in Seq(Points) /\ last(z) \in Seq(Points)
      BY <1>2, <1>6 DEF AreSums
    <2> HIDE DEF s
    <2>2. Len(s \o last(z)) = Len(s) + Len(last(z)) /\ Len(s) \in Nat
      BY <2>1, Concatenated
    <2> QED
      BY <1>5, <2>2 DEF s
  <1> QED
    BY <1>4, <1>7, <1>8

LEMMA WholeSelection ==
    ASSUME NEW V, NEW s \in Seq(V), NEW I, \A k \in 1..Len(s) : k \in I
    PROVE  Subsequence(s, I) = s
  <1> DEFINE n == Len(s)
             r == Subsequence(s, I)
  <1>1. n \in Nat /\ s \in [1..n -> V]
    BY SequenceIsFunction
  <1>2. IsIntervalOf(I, n, 1, n)
    BY <1>1 DEF IsIntervalOf
  <1>3. 1 \in Nat
    OBVIOUS
  <1>4. r \in Seq(V) /\ IsSlice(r, s, 1, n)
    BY <1>1, <1>2, <1>3, SubsequenceOfInterval
  <1> HIDE DEF r, n
  <1>5. Len(r) = n /\ \A j \in 1..n : r[j] = s[j]
    BY <1>1, <1>4 DEF IsSlice
  <1>6. r \in [1..n -> V]
    BY <1>4, <1>5, SequenceIsFunction
  <1>7. r = s
    BY <1>1, <1>5, <1>6
  <1> QED
    BY <1>7 DEF r

\* When every sweep has a rail of a scope, all of them are samples of it.
LEMMA CpuSeriesIs ==
    ASSUME NEW trace, IsSweeps(trace), NEW name,
           \A x \in SamplesOf(trace) : \E i \in RowsOf(trace, x) : RailsOf(trace[i]) \in CpuScope(trace, name)
    PROVE  CpuSeries(trace, name) = Series(trace, CpuScope(trace, name))
  <1> DEFINE scope == CpuScope(trace, name)
             series == Series(trace, scope)
             I == {k \in DOMAIN series : \E i \in RowsOf(trace, Sampled(trace)[k]) : RailsOf(trace[i]) \in scope}
  <1>1. PICK m \in Nat : DOMAIN Sampled(trace) = 1..m /\ \A k \in 1..m : Sampled(trace)[k] \in SamplesOf(trace)
    BY SamplesAreOrdered
  <1>2. DOMAIN series = 1..m /\ series = [k \in 1..m |-> series[k]]
    BY <1>1, SeriesIs
  <1>3. CpuSeries(trace, name) = Subsequence(series, I)
    BY DEF CpuSeries, Sampled
  <1>4. \A k \in 1..m : k \in I
    BY <1>1, <1>2
  <1> HIDE DEF series, I
  <1>5. series \in [1..m -> {series[k] : k \in 1..m}]
    BY <1>2
  <1>6. series \in Seq({series[k] : k \in 1..m}) /\ Len(series) = m
    BY <1>5, FunctionIsSequence
  <1>7. Subsequence(series, I) = series
    BY <1>4, <1>6, WholeSelection
  <1> QED
    BY <1>3, <1>7 DEF series

LEMMA WholeSweeps ==
    ASSUME NEW trace, IsSweeps(trace), SweepsAreWhole(trace), {"PS", "PL"} \subseteq Domains(trace),
           NEW name \in {"PS", "PL", "MONITORED"}
    PROVE  CpuSeries(trace, name) = Series(trace, CpuScope(trace, name))
  <1>1. ASSUME NEW x \in SamplesOf(trace)
        PROVE  \E i \in RowsOf(trace, x) : RailsOf(trace[i]) \in CpuScope(trace, name)
    <2>1. \A i \in RowsOf(trace, x) : i \in DOMAIN trace /\ RailsOf(trace[i]) \in AllRails(trace)
      BY DEF RowsOf, AllRails
    <2>2. CASE name = "MONITORED"
      <3>1. PICK i \in DOMAIN trace : trace[i].sample = x
        BY DEF SamplesOf
      <3>2. i \in RowsOf(trace, x)
        BY <3>1 DEF RowsOf
      <3> QED
        BY <2>1, <2>2, <3>2 DEF CpuScope
    <2>3. CASE name # "MONITORED"
      <3>1. name \in {trace[i].domain : i \in RowsOf(trace, x)}
        BY <2>3 DEF SweepsAreWhole
      <3>2. PICK i \in RowsOf(trace, x) : trace[i].domain = name
        BY <3>1
      <3>3. RailsOf(trace[i])[1] = name
        BY <3>2 DEF RailsOf
      <3> QED
        BY <2>1, <2>3, <3>3 DEF CpuScope, DomainRails
    <2> QED
      BY <2>2, <2>3
  <1> QED
    BY <1>1, CpuSeriesIs

LEMMA ParsedIsWhole == ASSUME NEW trace, Parses(trace) PROVE SweepsAreWhole(trace)
  <1> SUFFICES ASSUME NEW s \in SamplesOf(trace), NEW domain \in Domains(trace)
               PROVE  \E j \in RowsOf(trace, s) : trace[j].domain = domain
    <2>1. \A s \in SamplesOf(trace) : {trace[i].domain : i \in RowsOf(trace, s)} \subseteq Domains(trace)
      BY DEF RowsOf, Domains
    <2> QED
      BY <2>1 DEF SweepsAreWhole
  <1>1. PICK i \in DOMAIN trace : trace[i].domain = domain
    BY DEF Domains
  <1>2. trace[i].sample \in SamplesOf(trace) /\ i \in RowsOf(trace, trace[i].sample)
    BY DEF SamplesOf, RowsOf
  <1>3. RailsOf(trace[i]) \in RailSet(trace, s)
    <2>1. RailSet(trace, trace[i].sample) = RailSet(trace, s)
      BY <1>2 DEF Parses
    <2> QED
      BY <1>2, <2>1 DEF RailSet
  <1>4. PICK j \in RowsOf(trace, s) : RailsOf(trace[j]) = RailsOf(trace[i])
    BY <1>3 DEF RailSet
  <1>5. trace[j].domain = trace[i].domain
    BY <1>4 DEF RailsOf
  <1> QED
    BY <1>1, <1>5

\* The CPU importer makes the same of a trace that the stricter importer takes.
LEMMA StrictEnergies ==
    ASSUME NEW p, IsPower(p), ~PowerRaises(p.idle, p.active, p.interval), NEW steady
    PROVE  LET strict == PowerSummary(p.idle, p.active, p.interval, steady + 1)
               cpu == CpuPowerSummary(p.idle, p.active, p.interval, steady)
           IN  /\ EnergyIsExact(p.idle, p.active, p.interval, strict)
               /\ cpu["PS"] = strict[DomainRails(p.active, "PS")]
               /\ cpu["MONITORED"] = strict[AllRails(p.active)]
  <1> DEFINE idle == p.idle
             active == p.active
             i == p.interval
             all == AllRails(active)
             PS == DomainRails(active, "PS")
             executed == steady + 1
  <1>1. /\ IsSweeps(idle) /\ IsSweeps(active) /\ IsOnGrid(Series(active, all))
        /\ i.start \in Int /\ i.end \in Int
    BY DEF IsPower
  <1>2. /\ Parses(idle) /\ Parses(active) /\ Scopes(idle) = Scopes(active)
        /\ {"PS", "PL"} \subseteq Domains(active)
    BY DEF PowerRaises
  <1> HIDE DEF idle, active, i, executed
  <1>3. EnergyIsExact(idle, active, i, PowerSummary(idle, active, i, executed))
    <2>1. ~PowerRaises(idle, active, i)
      BY DEF idle, active, i
    <2> QED
      BY <1>1, <2>1, EnergiesAreExact
  <1>4. AllRails(idle) = all
    <2>1. UNION Scopes(idle) = AllRails(idle) /\ UNION Scopes(active) = all
      BY DEF Scopes, DomainRails
    <2> QED
      BY <1>2, <2>1
  <1>5. ASSUME NEW trace PROVE Domains(trace) = {r[1] : r \in AllRails(trace)}
    <2>1. \A k \in DOMAIN trace : RailsOf(trace[k])[1] = trace[k].domain
      BY DEF RailsOf
    <2>2. {r[1] : r \in AllRails(trace)} = {RailsOf(trace[k])[1] : k \in DOMAIN trace}
      BY DEF AllRails
    <2> QED
      BY <2>1, <2>2 DEF Domains
  <1>6. {"PS", "PL"} \subseteq Domains(idle)
    BY <1>2, <1>4, <1>5
  <1>7. SweepsAreWhole(idle) /\ SweepsAreWhole(active)
    BY <1>2, ParsedIsWhole
  <1>8. ASSUME NEW name \in {"PS", "PL", "MONITORED"}
        PROVE  /\ CpuSeries(idle, name) = Series(idle, CpuScope(idle, name))
               /\ CpuSeries(active, name) = Series(active, CpuScope(active, name))
    <2>1. CpuSeries(idle, name) = Series(idle, CpuScope(idle, name))
      BY <1>1, <1>6, <1>7, WholeSweeps
    <2>2. CpuSeries(active, name) = Series(active, CpuScope(active, name))
      BY <1>1, <1>2, <1>7, WholeSweeps
    <2> QED
      BY <2>1, <2>2
  <1>9. /\ CpuScope(idle, "PS") = PS /\ CpuScope(active, "PS") = PS
        /\ CpuScope(idle, "MONITORED") = all /\ CpuScope(active, "MONITORED") = all
    BY <1>4 DEF CpuScope, DomainRails
  <1>10. PS \in Scopes(active) /\ all \in Scopes(active)
    BY <1>2 DEF Scopes
  <1> HIDE DEF PS, all
  <1>11. /\ CpuSeries(idle, "PS") = Series(idle, PS) /\ CpuSeries(active, "PS") = Series(active, PS)
         /\ CpuSeries(idle, "MONITORED") = Series(idle, all) /\ CpuSeries(active, "MONITORED") = Series(active, all)
    BY <1>8, <1>9
  <1>12. /\ CpuPowerSummary(idle, active, i, steady)["PS"]
              = Scope(Series(idle, PS), Series(active, PS), i.start, i.end, executed)
         /\ CpuPowerSummary(idle, active, i, steady)["MONITORED"]
              = Scope(Series(idle, all), Series(active, all), i.start, i.end, executed)
    BY <1>11 DEF CpuPowerSummary, executed
  <1>13. /\ PowerSummary(idle, active, i, executed)[PS]
              = Scope(Series(idle, PS), Series(active, PS), i.start, i.end, executed)
         /\ PowerSummary(idle, active, i, executed)[all]
              = Scope(Series(idle, all), Series(active, all), i.start, i.end, executed)
    BY <1>10 DEF PowerSummary
  <1> QED
    BY <1>3, <1>12, <1>13 DEF idle, active, i, executed, PS, all

\* Two scopes of one interval and of idle traces of one duration add up to a
\* third if their energies do.
EnergiesAddUp(ix, iy, iz, x, y, z, a, b) ==
    /\ Integrate(ix) \in Int /\ Integrate(iy) \in Int /\ Integrate(iz) = Integrate(ix) + Integrate(iy)
    /\ \E time \in Int : /\ ix[Len(ix)].time - ix[1].time = time /\ iy[Len(iy)].time - iy[1].time = time
                         /\ iz[Len(iz)].time - iz[1].time = time
    /\ Integrate(Clip(x, a, b)) \in Int /\ Integrate(Clip(y, a, b)) \in Int
    /\ Integrate(Clip(z, a, b)) = Integrate(Clip(x, a, b)) + Integrate(Clip(y, a, b))
LEMMA ScopesAddUp ==
    ASSUME NEW ix, NEW iy, NEW iz, NEW x, NEW y, NEW z, NEW a \in Int, NEW b \in Int, NEW executed \in Int,
           EnergiesAddUp(ix, iy, iz, x, y, z, a, b),
           NEW figure \in {"idle", "active", "incremental", "perInference"}
    PROVE  AddUp(PowerFigures(Scope(ix, x, a, b, executed))[figure], PowerFigures(Scope(iy, y, a, b, executed))[figure],
                 PowerFigures(Scope(iz, z, a, b, executed))[figure])
  <1>1. PICK time \in Int : /\ ix[Len(ix)].time - ix[1].time = time /\ iy[Len(iy)].time - iy[1].time = time
                           /\ iz[Len(iz)].time - iz[1].time = time
    BY DEF EnergiesAddUp
  <1> DEFINE e == Integrate(Clip(x, a, b))
             f == Integrate(Clip(y, a, b))
             c == Integrate(ix)
             d == Integrate(iy)
             h == b - a
             q == h * time
             r == executed * time
             Figure4(energy, ofIdle, more) == [idle |-> <<ofIdle, time>>, active |-> <<energy, h>>,
                                               incremental |-> <<more, q>>, perInference |-> <<more, r>>]
             more(energy, ofIdle) == energy * time - ofIdle * h
  <1>2. /\ PowerFigures(Scope(ix, x, a, b, executed)) = Figure4(e, c, more(e, c))
        /\ PowerFigures(Scope(iy, y, a, b, executed)) = Figure4(f, d, more(f, d))
        /\ PowerFigures(Scope(iz, z, a, b, executed)) = Figure4(e + f, c + d, more(e + f, c + d))
    BY <1>1 DEF PowerFigures, Scope, EnergiesAddUp
  <1>3. e \in Int /\ f \in Int /\ c \in Int /\ d \in Int /\ h \in Int
    BY DEF EnergiesAddUp
  <1> HIDE DEF e, f, c, d, h
  <1>4. more(e + f, c + d) = more(e, c) + more(f, d)
    BY <1>3, Increments
  <1> HIDE DEF q, r, more
  <1>5. ASSUME NEW k, NEW l
        PROVE  AddUp(Figure4(e, c, k)[figure], Figure4(f, d, l)[figure], Figure4(e + f, c + d, k + l)[figure])
    <2>1. CASE figure = "idle"
      BY <2>1 DEF AddUp
    <2>2. CASE figure = "active"
      BY <2>2 DEF AddUp
    <2>3. CASE figure = "incremental"
      BY <2>3 DEF AddUp
    <2>4. CASE figure = "perInference"
      BY <2>4 DEF AddUp
    <2> QED
      BY <2>1, <2>2, <2>3, <2>4
  <1>6. AddUp(Figure4(e, c, more(e, c))[figure], Figure4(f, d, more(f, d))[figure],
              Figure4(e + f, c + d, more(e, c) + more(f, d))[figure])
    BY <1>5
  <1> QED
    BY <1>2, <1>4, <1>6

\* Whatever the clock of a trace does, the figures of the domains make up those
\* of the total if every sweep has rails of both.
LEMMA DomainsMakeUpTotal ==
    ASSUME NEW p, IsPower(p), ~CpuPowerRaises(p.idle, p.active, p.interval), SweepsAreWhole(p.idle),
           SweepsAreWhole(p.active), NEW steady \in Int
    PROVE  LET cpu == CpuPowerSummary(p.idle, p.active, p.interval, steady)
           IN  \A figure \in {"idle", "active", "incremental", "perInference"} :
                    AddUp(PowerFigures(cpu["PS"])[figure], PowerFigures(cpu["PL"])[figure],
                          PowerFigures(cpu["MONITORED"])[figure])
  <1> DEFINE active == p.active
             idle == p.idle
             a == p.interval.start
             b == p.interval.end
             all == AllRails(active)
             PS == DomainRails(active, "PS")
             PL == DomainRails(active, "PL")
             x == Series(active, PS)
             y == Series(active, PL)
             z == Series(active, all)
             ix == Series(idle, DomainRails(idle, "PS"))
             iy == Series(idle, DomainRails(idle, "PL"))
             iz == Series(idle, AllRails(idle))
             cpu == CpuPowerSummary(p.idle, active, p.interval, steady)
  <1>1. IsSweeps(active) /\ IsSweeps(idle) /\ IsOnGrid(z) /\ a \in Int /\ b \in Int
    BY DEF IsPower
  <1>2. {"PS", "PL"} \subseteq Domains(active) /\ {"PS", "PL"} \subseteq Domains(idle)
    BY DEF CpuPowerRaises
  <1>3. /\ CpuSeries(active, "PS") = x /\ CpuSeries(active, "PL") = y /\ CpuSeries(active, "MONITORED") = z
        /\ CpuSeries(idle, "PS") = ix /\ CpuSeries(idle, "PL") = iy /\ CpuSeries(idle, "MONITORED") = iz
    <2>1. \A name \in {"PS", "PL", "MONITORED"} :
            /\ CpuSeries(active, name) = Series(active, CpuScope(active, name))
            /\ CpuSeries(idle, name) = Series(idle, CpuScope(idle, name))
      BY <1>1, <1>2, WholeSweeps
    <2>2. \A trace : /\ CpuScope(trace, "PS") = DomainRails(trace, "PS")
                    /\ CpuScope(trace, "PL") = DomainRails(trace, "PL")
                    /\ CpuScope(trace, "MONITORED") = AllRails(trace)
      BY DEF CpuScope
    <2> QED
      BY <2>1, <2>2
  <1>4. /\ Len(x) >= 2 /\ Len(y) >= 2 /\ Len(z) >= 2 /\ Len(iz) >= 2
        /\ Interpolates(z, a) /\ Interpolates(z, b)
    <2> HIDE DEF x, y, z, ix, iy, iz
    <2> QED
      BY <1>3 DEF CpuPowerRaises
  <1>5. /\ cpu["PS"] = Scope(ix, x, a, b, steady + 1)
        /\ cpu["PL"] = Scope(iy, y, a, b, steady + 1)
        /\ cpu["MONITORED"] = Scope(iz, z, a, b, steady + 1)
    <2> HIDE DEF x, y, z, ix, iy, iz
    <2> QED
      BY <1>3 DEF CpuPowerSummary
  <1>6. PICK m \in Nat : \E t \in [1..m -> Int], s \in [1..m -> SamplesOf(active)] :
            \A scope : IsTraceOf(Series(active, scope), m, t, s, active, scope)
    BY <1>1, SeriesExists
  <1>7. PICK t \in [1..m -> Int], s \in [1..m -> SamplesOf(active)] :
            \A scope : IsTraceOf(Series(active, scope), m, t, s, active, scope)
    BY <1>6
  <1>8. /\ Integrate(ix) \in Int /\ Integrate(iy) \in Int /\ Integrate(iz) = Integrate(ix) + Integrate(iy)
        /\ \E time \in Int : /\ ix[Len(ix)].time - ix[1].time = time /\ iy[Len(iy)].time - iy[1].time = time
                            /\ iz[Len(iz)].time - iz[1].time = time
    BY <1>1, <1>4, IdleAdds
  <1> HIDE DEF active, idle, a, b
  <1>9. /\ IsSampling(x, m, t, PowersOf(active, PS, s, m))
        /\ IsSampling(y, m, t, PowersOf(active, PL, s, m))
        /\ IsSampling(z, m, t, PowersOf(active, all, s, m))
    <2>1. ASSUME NEW scope, Len(Series(active, scope)) >= 2
          PROVE  IsSampling(Series(active, scope), m, t, PowersOf(active, scope, s, m))
      BY <1>1, <1>7, <2>1, TraceIsSampling
    <2> QED
      BY <1>4, <2>1
  <1>10. IsSumOf(PowersOf(active, all, s, m), PowersOf(active, PS, s, m), PowersOf(active, PL, s, m), m)
    BY <1>1, PowersOfSum
  <1> HIDE DEF x, y, z, ix, iy, iz, PS, PL, all, cpu
  <1>11. AreSums(Clip(z, a, b), Clip(x, a, b), Clip(y, a, b)) /\ Len(Clip(z, a, b)) > 0
    BY <1>1, <1>4, <1>9, <1>10, ClipsAreSums
  <1>12. /\ Integrate(Clip(x, a, b)) \in Int /\ Integrate(Clip(y, a, b)) \in Int
         /\ Integrate(Clip(z, a, b)) = Integrate(Clip(x, a, b)) + Integrate(Clip(y, a, b))
    BY <1>11, SumsIntegrate
  <1>13. \A figure \in {"idle", "active", "incremental", "perInference"} :
            AddUp(PowerFigures(cpu["PS"])[figure], PowerFigures(cpu["PL"])[figure],
                  PowerFigures(cpu["MONITORED"])[figure])
    <2>1. EnergiesAddUp(ix, iy, iz, x, y, z, a, b)
      BY <1>8, <1>12 DEF EnergiesAddUp
    <2>2. steady + 1 \in Int
      OBVIOUS
    <2> QED
      BY <1>1, <1>5, <2>1, <2>2, ScopesAddUp
  <1> QED
    BY <1>13 DEF cpu, active

\* A list of sessions is any list of those of the evidence.
SessionSet(as) == {as[k] : k \in DOMAIN as}
AreSessions(as) ==
    /\ as \in Seq(SessionSet(as))
    /\ \A a \in SessionSet(as) :
        /\ a.runs \in Seq({a.runs[j] : j \in DOMAIN a.runs})
        /\ \A j \in DOMAIN a.runs : a.runs[j].samples \in Seq(Int) /\ a.runs[j].launch \in Int
        /\ a.power # NoEvidence => IsPower(a.power) /\ a.steadySamples \in Int

LEMMA RunLatencies ==
    ASSUME NEW run, run.samples \in Seq(Int), run.launch \in Int
    PROVE  CpuRunLatencies(run) \in Seq(Int)
  <1> DEFINE n == Len(run.samples)
             x == [k \in DOMAIN run.samples |-> run.launch]
  <1>1. n \in Nat /\ DOMAIN run.samples = 1..n
    BY SequenceIsFunction
  <1>2. x \in [1..n -> Int]
    BY <1>1
  <1> HIDE DEF x, n
  <1>3. x \in Seq(Int)
    BY <1>1, <1>2, FunctionIsSequence
  <1> QED
    BY <1>3 DEF CpuRunLatencies, x

LEMMA SessionLatencies ==
    ASSUME NEW as, AreSessions(as), NEW a \in SessionSet(as), NEW regime
    PROVE  LatenciesOf(a, regime) \in Seq(Int)
  <1> DEFINE n == Len(a.runs)
             x == [k \in DOMAIN a.runs |-> IF a.runs[k].regime = regime THEN CpuRunLatencies(a.runs[k]) ELSE <<>>]
  <1>1. n \in Nat /\ DOMAIN a.runs = 1..n
    BY SequenceIsFunction DEF AreSessions
  <1>2. \A k \in 1..n : CpuRunLatencies(a.runs[k]) \in Seq(Int)
    BY <1>1, RunLatencies DEF AreSessions
  <1>3. <<>> \in Seq(Int)
    OBVIOUS
  <1>4. x \in [1..n -> Seq(Int)]
    BY <1>1, <1>2, <1>3
  <1> HIDE DEF x, n
  <1>5. x \in Seq(Seq(Int))
    BY <1>1, <1>4, FunctionIsSequence
  <1>6. FlattenSeq(x) \in Seq(Int)
    BY <1>5, JoinElements
  <1> QED
    BY <1>6 DEF LatenciesOf, x

\* The latencies of a list of sessions: as many as they have together.
Counts(list, regime) == [k \in DOMAIN list |-> Len(LatenciesOf(list[k], regime))]

LEMMA ListedLatencies ==
    ASSUME NEW as, AreSessions(as), NEW list \in Seq(SessionSet(as)), NEW regime
    PROVE  /\ AllLatencies(list, regime) \in Seq(Int)
           /\ Len(list) \in Nat /\ DOMAIN list = 1..Len(list)
           /\ Counts(list, regime) \in [1..Len(list) -> Nat]
           /\ Len(AllLatencies(list, regime)) = Total(Counts(list, regime))
           /\ AllLatencies(list, regime) # <<>> <=> \E k \in DOMAIN list : Counts(list, regime)[k] > 0
  <1> DEFINE n == Len(list)
             x == [k \in DOMAIN list |-> LatenciesOf(list[k], regime)]
             all == FlattenSeq(x)
  <1>1. n \in Nat /\ DOMAIN list = 1..n /\ \A k \in 1..n : list[k] \in SessionSet(as)
    BY SequenceIsFunction, ElementOf
  <1>2. \A k \in 1..n : LatenciesOf(list[k], regime) \in Seq(Int)
    BY <1>1, SessionLatencies
  <1>3. x \in [1..n -> Seq(Int)] /\ \A k \in 1..n : x[k] = LatenciesOf(list[k], regime)
    BY <1>1, <1>2
  <1>4. AllLatencies(list, regime) = all
    BY DEF AllLatencies
  <1>5. /\ DOMAIN Counts(list, regime) = 1..n
        /\ \A k \in 1..n : Counts(list, regime)[k] = Len(x[k])
    BY <1>1 DEF Counts
  <1> HIDE DEF x, n
  <1>6. x \in Seq(Seq(Int)) /\ Len(x) = n /\ DOMAIN x = 1..n
    BY <1>1, <1>3, FunctionIsSequence
  <1>7. /\ all \in Seq(Int)
        /\ ToSet(all) = UNION {ToSet(x[k]) : k \in 1..n}
        /\ Len(all) = Total([k \in 1..n |-> Len(x[k])])
    BY <1>6, JoinElements, JoinLength
  <1>8. Counts(list, regime) = [k \in 1..n |-> Len(x[k])]
    BY <1>5 DEF Counts
  <1>9. \A k \in 1..n : Len(x[k]) \in Nat
    BY <1>3
  <1>10. \A s \in Seq(Int) : (s # <<>> <=> Len(s) > 0) /\ (s # <<>> <=> ToSet(s) # {})
    <2> TAKE s \in Seq(Int)
    <2>1. Len(s) \in Nat /\ DOMAIN s = 1..Len(s)
      BY SequenceIsFunction
    <2>2. s # <<>> <=> Len(s) > 0
      OBVIOUS
    <2>3. ToSet(s) # {} <=> DOMAIN s # {}
      BY DEF ToSet
    <2> QED
      BY <2>1, <2>2, <2>3
  <1> HIDE DEF all
  <1>11. all # <<>> <=> \E k \in 1..n : Len(x[k]) > 0
    <2>1. all # <<>> <=> \E k \in 1..n : ToSet(x[k]) # {}
      <3>1. all # <<>> <=> ToSet(all) # {}
        BY <1>7, <1>10
      <3>2. ASSUME ToSet(all) # {} PROVE \E k \in 1..n : ToSet(x[k]) # {}
        <4>1. PICK v : v \in UNION {ToSet(x[k]) : k \in 1..n}
          BY <1>7, <3>2
        <4> QED
          BY <4>1
      <3>3. ASSUME NEW k \in 1..n, ToSet(x[k]) # {} PROVE ToSet(all) # {}
        <4>1. PICK v : v \in ToSet(x[k])
          BY <3>3
        <4>2. v \in UNION {ToSet(x[j]) : j \in 1..n}
          BY <4>1
        <4> QED
          BY <1>7, <4>2
      <3> QED
        BY <3>1, <3>2, <3>3
    <2>2. \A k \in 1..n : ToSet(x[k]) # {} <=> Len(x[k]) > 0
      BY <1>3, <1>10
    <2> QED
      BY <2>1, <2>2
  <1> QED
    BY <1>1, <1>4, <1>5, <1>7, <1>8, <1>9, <1>11 DEF n

LEMMA SummaryCount == \A values : Summary(values).count = Len(values)
  BY DEF Summary

\* A regime that was measured has its statistics, of all of the samples.
LEMMA LatenciesAreKept ==
    ASSUME NEW as, AreSessions(as), NEW r \in CpuRegimes, Total(Counts(as, r)) > 0
    PROVE  /\ r \in DOMAIN CpuReport(as).latency /\ CpuReport(as).latency[r].count = Total(Counts(as, r))
           /\ QuantilesAreOrdered(AllLatencies(as, r))
           /\ CpuReport(as).medians[r] = CpuMedians(as, r)
  <1> DEFINE all == AllLatencies(as, r)
             n == Len(all)
  <1>1. as \in Seq(SessionSet(as))
    BY DEF AreSessions
  <1>2. all \in Seq(Int) /\ n = Total(Counts(as, r))
    BY <1>1, ListedLatencies
  <1> HIDE DEF all
  <1>3. all # <<>> /\ n \in Nat \ {0} /\ all \in [1..n -> Int]
    <2>1. n \in Nat /\ all \in [1..n -> Int]
      BY <1>2, SequenceIsFunction
    <2>2. n > 0
      BY <1>2
    <2> QED
      BY <2>1, <2>2
  <1>4. QuantilesAreOrdered(all)
    BY <1>3, QuantilesOrdered
  <1>5. r \in {q \in CpuRegimes : AllLatencies(as, q) # <<>>}
    BY <1>3 DEF all
  <1>6. /\ r \in DOMAIN CpuReport(as).latency
        /\ CpuReport(as).latency[r] = Summary(all) /\ CpuReport(as).medians[r] = CpuMedians(as, r)
    BY <1>5 DEF CpuReport, all
  <1> QED
    BY <1>2, <1>4, <1>6, SummaryCount DEF all

\* A session that measured a regime has a median of it, and it is not the only
\* one with a median only if it shares its name.
LEMMA MediansOfSessions ==
    ASSUME NEW as, AreSessions(as), NEW r
    PROVE  LET own == Cardinality({k \in DOMAIN as : Counts(as, r)[k] > 0})
               count == Len(CpuMedians(as, r))
           IN  /\ own <= count
               /\ (\A j, k \in DOMAIN as : as[j].stem = as[k].stem => j = k) => count = own
  <1> DEFINE n == Len(as)
             S == SessionSet(as)
             named(k) == NamedAs(as, as[k].stem)
             W == {k \in DOMAIN as : AllLatencies(named(k), r) # <<>>}
             O == {k \in DOMAIN as : Counts(as, r)[k] > 0}
             measured == WithSamples(as, r)
  <1>1. as \in Seq(S) /\ n \in Nat /\ DOMAIN as = 1..n
    BY SequenceIsFunction DEF AreSessions
  <1>2. ASSUME NEW k \in 1..n
        PROVE  k \in W <=> \E j \in 1..n : as[j].stem = as[k].stem /\ j \in O
    <2> DEFINE I == {j \in DOMAIN as : as[j].stem = as[k].stem}
               list == Subsequence(as, I)
    <2>1. named(k) = list
      BY DEF NamedAs
    <2>2. list \in Seq(S) /\ ToSet(list) = {as[j] : j \in I \cap 1..n}
      BY <1>1, SubsequenceElements
    <2>3. I = I \cap 1..n
      BY <1>1
    <2> HIDE DEF list, I
    <2>4. AllLatencies(list, r) # <<>> <=> \E j \in DOMAIN list : Counts(list, r)[j] > 0
      BY <2>2, ListedLatencies
    <2>5. (\E j \in DOMAIN list : Counts(list, r)[j] > 0) <=> \E a \in ToSet(list) : Len(LatenciesOf(a, r)) > 0
      BY DEF Counts, ToSet
    <2>6. (\E a \in ToSet(list) : Len(LatenciesOf(a, r)) > 0) <=> \E j \in I : Len(LatenciesOf(as[j], r)) > 0
      BY <2>2, <2>3
    <2>7. \A j \in 1..n : j \in O <=> Len(LatenciesOf(as[j], r)) > 0
      BY <1>1 DEF Counts
    <2>8. \A j : j \in I <=> j \in 1..n /\ as[j].stem = as[k].stem
      BY <1>1 DEF I
    <2>9. k \in W <=> AllLatencies(list, r) # <<>>
      BY <1>1, <2>1
    <2> HIDE DEF W, O
    <2> QED
      BY <2>4, <2>5, <2>6, <2>7, <2>8, <2>9
  <1>3. W \in SUBSET (1..n) /\ O \in SUBSET (1..n)
    BY <1>1
  <1>4. measured \in Seq(S) /\ Len(measured) = Cardinality(W)
    <2>1. measured = Subsequence(as, W)
      BY DEF WithSamples
    <2> HIDE DEF measured, W
    <2> QED
      BY <1>1, <1>3, <2>1, SubsequenceElements, SubsequenceLength
  <1>5. Len(CpuMedians(as, r)) = Len(measured)
    <2> DEFINE m == Len(measured)
               medians == CpuMedians(as, r)
    <2>1. m \in Nat /\ DOMAIN measured = 1..m
      BY <1>4, SequenceIsFunction
    <2>2. medians = [k \in 1..m |-> Median(AllLatencies(NamedAs(as, measured[k].stem), r))]
      BY <2>1 DEF CpuMedians
    <2> HIDE DEF medians, m
    <2>3. medians \in [1..m -> {medians[k] : k \in 1..m}]
      BY <2>2
    <2>4. Len(medians) = m
      BY <2>1, <2>3, FunctionIsSequence
    <2> QED
      BY <2>4 DEF medians, m
  <1> HIDE DEF W, O, measured
  <1>6. O \in SUBSET W
    BY <1>2, <1>3
  <1>7. IsFiniteSet(W) /\ Cardinality(O) <= Cardinality(W)
    <2>1. IsFiniteSet(1..n)
      <3>1. 1 \in Int /\ n \in Int
        BY <1>1
      <3> HIDE DEF n
      <3> QED
        BY <3>1, FiniteInterval
    <2>2. IsFiniteSet(W)
      BY <1>3, <2>1, FiniteSubset
    <2> QED
      BY <1>6, <2>2, FiniteSubset
  <1>8. ASSUME \A j, k \in DOMAIN as : as[j].stem = as[k].stem => j = k PROVE W = O
    <2>1. \A k \in 1..n : k \in W <=> k \in O
      BY <1>1, <1>2, <1>8
    <2> QED
      BY <1>3, <2>1
  <1> QED
    BY <1>4, <1>5, <1>7, <1>8 DEF O

\* The figures of every session that was metered.
LEMMA MeansMakeUpTotal ==
    ASSUME NEW as, AreSessions(as), \A k \in DOMAIN as : CpuPowerHolds(as[k]),
           \A k \in DOMAIN as : Metered(as[k]) => WholeTraces(as[k])
    PROVE  \A k \in DOMAIN PowerMeans(as)["MONITORED"] :
                \A figure \in {"idle", "active", "incremental", "perInference"} :
                    AddUp(PowerMeans(as)["PS"][k][figure], PowerMeans(as)["PL"][k][figure],
                          PowerMeans(as)["MONITORED"][k][figure])
  <1> DEFINE S == SessionSet(as)
             I == {k \in DOMAIN as : Metered(as[k])}
             sampled == Subsequence(as, I)
             figures(scope, k) == PowerFigures(CpuPower(sampled[k])[scope])
  <1>1. as \in Seq(S)
    BY DEF AreSessions
  <1>2. sampled \in Seq(S) /\ ToSet(sampled) = {as[k] : k \in I \cap 1..Len(as)}
    BY <1>1, SubsequenceElements
  <1>3. ASSUME NEW a \in ToSet(sampled), NEW figure \in {"idle", "active", "incremental", "perInference"}
        PROVE  AddUp(PowerFigures(CpuPower(a)["PS"])[figure], PowerFigures(CpuPower(a)["PL"])[figure],
                     PowerFigures(CpuPower(a)["MONITORED"])[figure])
    <2>1. PICK k \in I : a = as[k]
      BY <1>2
    <2>2. Metered(a) /\ CpuPowerHolds(a) /\ WholeTraces(a) /\ a \in S
      BY <2>1 DEF SessionSet
    <2>3. /\ IsPower(a.power) /\ ~CpuPowerRaises(a.power.idle, a.power.active, a.power.interval)
          /\ a.steadySamples \in Int
      BY <2>2 DEF AreSessions, Metered, CpuPowerHolds
    <2> QED
      BY <2>2, <2>3, DomainsMakeUpTotal DEF CpuPower, WholeTraces
  <1>4. PowerMeans(as) = [scope \in {"PS", "PL", "MONITORED"} |-> [k \in DOMAIN sampled |-> figures(scope, k)]]
    BY DEF PowerMeans
  <1> HIDE DEF sampled
  <1>5. \A k \in DOMAIN sampled : sampled[k] \in ToSet(sampled)
    BY DEF ToSet
  <1> QED
    BY <1>3, <1>4, <1>5

LEMMA AcceptedSessionsAreSound ==
    ASSUME NEW as, AreSessions(as), CpuAccepts(as) PROVE SoundCpuReport(as, CpuReport(as))
  <1>1. \A k \in DOMAIN as : CpuPowerHolds(as[k])
    BY DEF CpuAccepts, CpuSessionHolds
  <1>2. ASSUME NEW r \in CpuRegimes
        PROVE  LET measured == [k \in DOMAIN as |-> Len(LatenciesOf(as[k], r))]
               IN  Total(measured) > 0 =>
                        /\ r \in DOMAIN CpuReport(as).latency /\ CpuReport(as).latency[r].count = Total(measured)
                        /\ QuantilesAreOrdered(AllLatencies(as, r))
                        /\ LET own == Cardinality({k \in DOMAIN as : measured[k] > 0})
                               count == Len(CpuReport(as).medians[r])
                           IN  /\ own <= count
                               /\ (\A j, k \in DOMAIN as : as[j].stem = as[k].stem => j = k) => count = own
    <2> DEFINE measured == Counts(as, r)
               own == Cardinality({k \in DOMAIN as : measured[k] > 0})
               count == Len(CpuReport(as).medians[r])
               distinct == \A j, k \in DOMAIN as : as[j].stem = as[k].stem => j = k
    <2>1. [k \in DOMAIN as |-> Len(LatenciesOf(as[k], r))] = measured
      BY DEF Counts
    <2>2. ASSUME Total(measured) > 0
          PROVE  /\ r \in DOMAIN CpuReport(as).latency /\ CpuReport(as).latency[r].count = Total(measured)
                 /\ QuantilesAreOrdered(AllLatencies(as, r))
                 /\ own <= count
                 /\ distinct => count = own
      <3>1. /\ r \in DOMAIN CpuReport(as).latency /\ CpuReport(as).latency[r].count = Total(measured)
            /\ QuantilesAreOrdered(AllLatencies(as, r))
            /\ CpuReport(as).medians[r] = CpuMedians(as, r)
        BY <2>2, LatenciesAreKept
      <3>2. own <= Len(CpuMedians(as, r)) /\ (distinct => Len(CpuMedians(as, r)) = own)
        BY MediansOfSessions
      <3> QED
        BY <3>1, <3>2
    <2> HIDE DEF measured
    <2> QED
      BY <2>1, <2>2
  <1>3. ASSUME NEW k \in DOMAIN as, Metered(as[k]),
               ~PowerRaises(as[k].power.idle, as[k].power.active, as[k].power.interval)
        PROVE  LET p == as[k].power
                   strict == PowerSummary(p.idle, p.active, p.interval, as[k].steadySamples + 1)
               IN  /\ EnergyIsExact(p.idle, p.active, p.interval, strict)
                   /\ CpuPower(as[k])["PS"] = strict[DomainRails(p.active, "PS")]
                   /\ CpuPower(as[k])["MONITORED"] = strict[AllRails(p.active)]
    <2>1. IsPower(as[k].power)
      BY <1>3 DEF AreSessions, SessionSet, Metered
    <2> QED
      BY <1>3, <2>1, StrictEnergies DEF CpuPower
  <1>4. CpuReport(as).power = PowerMeans(as)
    BY DEF CpuReport
  <1>5. ASSUME \A k \in DOMAIN as : Metered(as[k]) => WholeTraces(as[k])
        PROVE  \A k \in DOMAIN PowerMeans(as)["MONITORED"] :
                    \A figure \in {"idle", "active", "incremental", "perInference"} :
                        AddUp(PowerMeans(as)["PS"][k][figure], PowerMeans(as)["PL"][k][figure],
                              PowerMeans(as)["MONITORED"][k][figure])
    BY <1>1, <1>5, MeansMakeUpTotal
  <1>6. (\A k \in DOMAIN as : Metered(as[k]) => WholeTraces(as[k])) =>
            \A k \in DOMAIN CpuReport(as).power["MONITORED"] :
                \A figure \in {"idle", "active", "incremental", "perInference"} :
                    AddUp(CpuReport(as).power["PS"][k][figure], CpuReport(as).power["PL"][k][figure],
                          CpuReport(as).power["MONITORED"][k][figure])
    BY <1>4, <1>5
  <1> QED
    BY <1>2, <1>3, <1>6 DEF SoundCpuReport

\* A report is one of sessions that were all accepted.
CpuInv ==
    tool = "cpu" =>
        /\ evidence \in CpuEvidence
        /\ \/ outcome = NoOutcome
           \/ CpuAccepts(evidence) /\ outcome = <<CpuReport(evidence)>>

\* cpu_performance.py 340-521: when sessions of the CPU have been accepted, the
\* statistics of a regime are of all of its samples and ordered as quantiles are,
\* each session that measured it has its median, a trace that the stricter
\* importer takes has the same, exact energies, and of each figure the domains
\* make up the total where every sweep has rails of both.
THEOREM CpuReportsAreSound == ReportsSpec => []CpuReportIsSound
  <1>1. ReportsInit => CpuInv
    BY DEF ReportsInit, CpuInv
  <1>2. CpuInv /\ [ReportsNext]_reportVars => CpuInv'
    <2> SUFFICES ASSUME CpuInv, [ReportsNext]_reportVars, tool' = "cpu" PROVE CpuInv'
      BY DEF CpuInv
    <2>1. UNCHANGED <<tool, evidence>>
      BY DEF ReportsNext, Evaluate, WriteNext, reportVars
    <2>2. \/ outcome' = outcome
          \/ Accepts /\ outcome' = <<ReportOf>>
      BY DEF ReportsNext, Evaluate, WriteNext, reportVars
    <2>3. Accepts = CpuAccepts(evidence) /\ ReportOf = CpuReport(evidence)
      BY <2>1 DEF Accepts, ReportOf
    <2> QED
      BY <2>1, <2>2, <2>3 DEF CpuInv
  <1>3. CpuInv => CpuReportIsSound
    <2> SUFFICES ASSUME CpuInv, Reported("cpu") PROVE SoundCpuReport(evidence, outcome[1])
      BY DEF CpuReportIsSound
    <2>1. /\ evidence \in CpuEvidence /\ CpuAccepts(evidence)
          /\ outcome = <<CpuReport(evidence)>>
      BY DEF CpuInv, Reported
    <2>2. outcome[1] = CpuReport(evidence)
      BY <2>1
    <2>3. AreSessions(evidence)
      BY <2>1, SessionsAssumption DEF AreSessions, SessionSet
    <2> QED
      BY <2>1, <2>2, <2>3, AcceptedSessionsAreSound
  <1> QED
    BY <1>1, <1>2, <1>3, PTL DEF ReportsSpec

-----------------------------------------------------------------------------
(* The report of a campaign.                                               *)

LEMMA KeysAreFinite == IsFiniteSet(Keys)
  <1> DEFINE Both(i, m) == {<<i, m, "latency">>, <<i, m, "power">>}
             All(i) == Both(i, "lenet") \cup Both(i, "resnet50")
  <1>1. \A i, m : IsFiniteSet(Both(i, m))
    <2> SUFFICES ASSUME NEW i, NEW m PROVE IsFiniteSet(Both(i, m))
      OBVIOUS
    <2>1. IsFiniteSet({<<i, m, "latency">>} \cup {<<i, m, "power">>})
      BY FiniteSingleton, FiniteAddition
    <2>2. Both(i, m) = {<<i, m, "latency">>} \cup {<<i, m, "power">>}
      OBVIOUS
    <2> QED
      BY <2>1, <2>2
  <1>2. \A i : IsFiniteSet(All(i))
    <2> HIDE DEF Both
    <2> QED
      BY <1>1, FiniteUnion
  <1>3. Keys = All("nvdla") \cup All("cpu")
    BY DEF Keys, Implementations, Models, Kinds
  <1> HIDE DEF All
  <1> QED
    BY <1>2, <1>3, FiniteUnion

\* As many archives as there are places in the cohorts: none has two places.
LEMMA ArchivesAreDistinct ==
    ASSUME NEW e \in CampaignEvidence, CampaignAccepts(e.cohorts, e.available)
    PROVE  \A j, k \in Keys : ArchivesOf(e.cohorts[j]) \cap ArchivesOf(e.cohorts[k]) # {} => j = k
  <1> DEFINE cohorts == e.cohorts
             Places == Keys \X (1..CohortSize)
             archive == [p \in Places |-> cohorts[p[1]].sessions[p[2]].archive]
  <1>1. \A key \in Keys : DOMAIN cohorts[key].sessions = 1..CohortSize
    BY CampaignAssumption DEF CampaignAccepts, CohortHolds
  <1>2. \A key \in Keys : ArchivesOf(cohorts[key]) = {cohorts[key].sessions[i].archive : i \in 1..CohortSize}
    BY <1>1 DEF ArchivesOf
  <1>3. IsFiniteSet(Places) /\ Cardinality(Places) = Cardinality(Keys) * CohortSize
    <2>1. CohortSize \in Nat
      BY CampaignAssumption
    <2>2. IsFiniteSet(1..CohortSize) /\ Cardinality(1..CohortSize) = CohortSize
      BY <2>1, FiniteInterval
    <2> QED
      BY <2>2, KeysAreFinite, FiniteProduct
  <1>4. /\ archive \in [Places -> Selected(cohorts)]
        /\ \A a \in Selected(cohorts) : \E p \in Places : archive[p] = a
    <2>1. ASSUME NEW p \in Places PROVE archive[p] \in Selected(cohorts)
      <3>1. p[1] \in Keys /\ p[2] \in 1..CohortSize
        OBVIOUS
      <3>2. cohorts[p[1]].sessions[p[2]].archive \in ArchivesOf(cohorts[p[1]])
        BY <3>1, <1>2
      <3> QED
        BY <3>1, <3>2 DEF Selected
    <2>2. ASSUME NEW a \in Selected(cohorts) PROVE \E p \in Places : archive[p] = a
      <3>1. PICK key \in Keys : a \in ArchivesOf(cohorts[key])
        BY DEF Selected
      <3>2. PICK i \in 1..CohortSize : a = cohorts[key].sessions[i].archive
        BY <3>1, <1>2
      <3>3. <<key, i>> \in Places /\ archive[<<key, i>>] = a
        BY <3>2
      <3> QED
        BY <3>3
    <2> HIDE DEF Places, cohorts
    <2> QED
      BY <2>1, <2>2
  <1>5. Cardinality(Places) = Cardinality(Selected(cohorts))
    BY <1>3 DEF CampaignAccepts, RightNumber, ExpectedArchives
  \* Were there two places for one archive, the other places would still have
  \* room for every archive, and there is one place less.
  <1>6. ASSUME NEW p \in Places, NEW q \in Places, p # q, archive[p] = archive[q] PROVE FALSE
    <2> DEFINE S == Selected(cohorts)
               Rest == Places \ {q}
               place == [a \in S |-> CHOOSE r \in Rest : archive[r] = a]
    <2> HIDE DEF Places, cohorts, archive, S
    <2>1. \A a \in S : \E r \in Rest : archive[r] = a
      BY <1>4, <1>6 DEF S
    <2>2. \A a \in S : place[a] \in Rest /\ archive[place[a]] = a
      BY <2>1
    <2>3. IsFiniteSet(Rest) /\ Cardinality(Rest) = Cardinality(Places) - 1
      BY <1>3, <1>6, FiniteRemoval
    <2>4. IsFiniteSet(S) /\ Cardinality(Rest) < Cardinality(S)
      <3>1. IsFiniteSet(S)
        BY CampaignAssumption, FiniteSubset DEF S, cohorts, CampaignAccepts
      <3>2. Cardinality(S) = Cardinality(Places) /\ Cardinality(S) \in Nat
        BY <3>1, <1>5, FiniteCardinality DEF S
      <3> QED
        BY <3>1, <3>2, <2>3
    <2>5. place \in [S -> Rest]
      BY <2>2
    <2> HIDE DEF Rest, place
    <2>6. PICK x \in S, y \in S : x # y /\ place[x] = place[y]
      BY <2>3, <2>4, <2>5, PigeonHole
    <2> QED
      BY <2>2, <2>6
  <1>7. ASSUME NEW j \in Keys, NEW k \in Keys, NEW a, a \in ArchivesOf(cohorts[j]), a \in ArchivesOf(cohorts[k])
        PROVE  j = k
    <2>1. PICK i1 \in 1..CohortSize : a = cohorts[j].sessions[i1].archive
      BY <1>7, <1>2
    <2>2. PICK i2 \in 1..CohortSize : a = cohorts[k].sessions[i2].archive
      BY <1>7, <1>2
    <2>3. /\ <<j, i1>> \in Places /\ <<k, i2>> \in Places
          /\ archive[<<j, i1>>] = a /\ archive[<<k, i2>>] = a
      BY <2>1, <2>2
    <2> HIDE DEF Places, archive
    <2>4. <<j, i1>> = <<k, i2>>
      BY <2>3, <1>6
    <2> QED
      BY <2>4
  <1> QED
    BY <1>7

\* Of two quotients of naturals that are no less above and no more below, the
\* first is at most the second.
LEMMA Quotients ==
    ASSUME NEW a \in Nat, NEW b \in Nat, NEW c \in Nat, NEW d \in Nat, a <= c, d <= b
    PROVE  a * d <= c * b
  <1>1. a * d <= c * d
    BY SMT
  <1>2. c * d <= c * b
    BY SMT
  <1> QED
    BY <1>1, <1>2

LEMMA AcceptedIsBalanced ==
    ASSUME NEW e \in CampaignEvidence, CampaignAccepts(e.cohorts, e.available)
    PROVE  BalancedCampaign(e.cohorts, e.available, CampaignSummary(e.cohorts, e.available))
  <1> DEFINE result == CampaignSummary(e.cohorts, e.available)
  <1>1. Cardinality(result.included) + Cardinality(result.excluded) = Cardinality(e.available)
    <2>1. result.included = Selected(e.cohorts) /\ result.excluded = e.available \ Selected(e.cohorts)
      BY DEF CampaignSummary
    <2>2. IsFiniteSet(e.available) /\ Selected(e.cohorts) \subseteq e.available
      BY CampaignAssumption DEF CampaignAccepts
    <2> DEFINE S == Selected(e.cohorts)
               T == e.available
    <2>3. T \cap S = S
      BY <2>2
    <2> HIDE DEF S, T
    <2>4. IsFiniteSet(T) /\ IsFiniteSet(S)
      BY <2>2, FiniteSubset DEF S, T
    <2>5. Cardinality(T \ S) = Cardinality(T) - Cardinality(S)
      BY <2>3, <2>4, FiniteDifference
    <2>6. Cardinality(S) \in Nat /\ Cardinality(T) \in Nat
      BY <2>4, FiniteCardinality
    <2>7. Cardinality(S) + Cardinality(T \ S) = Cardinality(T)
      BY <2>5, <2>6
    <2> QED
      BY <2>1, <2>7 DEF S, T
  <1>2. ASSUME NEW m \in Models, NEW r \in CampaignRegimes,
               \A i \in Implementations : WithinBounds(e.cohorts[<<i, m, "latency">>].latency[r])
        PROVE  LET c == result.comparison[m][r]
               IN  AtMost(c.lower, c.ratio) /\ AtMost(c.ratio, c.upper)
    <2> DEFINE nvdla == e.cohorts[<<"nvdla", m, "latency">>].latency[r]
               cpu == e.cohorts[<<"cpu", m, "latency">>].latency[r]
    <2>1. <<"nvdla", m, "latency">> \in Keys /\ <<"cpu", m, "latency">> \in Keys
      BY DEF Keys, Implementations, Kinds
    <2>2. /\ nvdla.lower \in Nat /\ nvdla.median \in Nat /\ nvdla.upper \in Nat
          /\ cpu.lower \in Nat /\ cpu.median \in Nat /\ cpu.upper \in Nat
      <3>1. ASSUME NEW key \in Keys, NEW latency, latency = e.cohorts[key].latency[r]
            PROVE  latency.lower \in Nat /\ latency.median \in Nat /\ latency.upper \in Nat
        BY <3>1, CampaignAssumption
      <3> HIDE DEF nvdla, cpu
      <3> QED
        BY <2>1, <3>1 DEF nvdla, cpu
    <2>3. /\ nvdla.lower <= nvdla.median /\ nvdla.median <= nvdla.upper
          /\ cpu.lower <= cpu.median /\ cpu.median <= cpu.upper
      BY <1>2 DEF WithinBounds, Implementations
    <2>4. result.comparison[m][r] = Compare(e.cohorts, m, r)
      BY DEF CampaignSummary
    <2>5. Compare(e.cohorts, m, r) =
            [ratio |-> <<cpu.median, nvdla.median>>, lower |-> <<cpu.lower, nvdla.upper>>,
             upper |-> <<cpu.upper, nvdla.lower>>]
      BY DEF Compare
    <2> HIDE DEF nvdla, cpu, result
    <2>6. /\ cpu.lower * nvdla.median <= cpu.median * nvdla.upper
          /\ cpu.median * nvdla.lower <= cpu.upper * nvdla.median
      BY <2>2, <2>3, Quotients
    <2> QED
      BY <2>4, <2>5, <2>6 DEF AtMost
  <1>3. \A j, k \in Keys : ArchivesOf(e.cohorts[j]) \cap ArchivesOf(e.cohorts[k]) # {} => j = k
    BY ArchivesAreDistinct
  <1>4. ASSUME NEW m \in Models, NEW i \in Implementations,
               NEW k \in DOMAIN e.cohorts[<<i, m, "power">>].sessions
        PROVE  LET power == e.cohorts[<<i, m, "power">>].sessions
               IN  result.energy[m][i][2] = power[k].executed * Len(power)
    <2> DEFINE power == e.cohorts[<<i, m, "power">>].sessions
    <2>1. <<i, m, "power">> \in Keys /\ <<i, m, "power">>[3] = "power"
      BY DEF Keys, Kinds
    <2>2. power[k].executed = power[1].executed
      BY <2>1 DEF CampaignAccepts, ExecutedEqually
    <2>3. result.energy[m][i] = Energy(e.cohorts, i, m)
      BY DEF CampaignSummary
    <2>4. Energy(e.cohorts, i, m)[2] = power[1].executed * Len(power)
      BY DEF Energy
    <2> QED
      BY <2>2, <2>3, <2>4
  <1> HIDE DEF result
  <1>5. BalancedCampaign(e.cohorts, e.available, result)
    BY <1>1, <1>2, <1>3, <1>4 DEF BalancedCampaign
  <1> QED
    BY <1>5 DEF result

\* A report of a campaign is of evidence that was accepted.
ReportsInv ==
    tool = "campaign" =>
        /\ evidence \in CampaignEvidence
        /\ \/ outcome = NoOutcome
           \/ /\ CampaignAccepts(evidence.cohorts, evidence.available)
              /\ outcome = <<CampaignSummary(evidence.cohorts, evidence.available)>>

\* campaign.py 380-473: a campaign that is reported counts no archive in two
\* cohorts, includes or excludes each of its archives, bounds its ratios, and
\* divides an energy by as many inferences for each of its sessions.
THEOREM CampaignsAreBalanced == ReportsSpec => []CampaignIsBalanced
  <1>1. ReportsInit => ReportsInv
    BY DEF ReportsInit, ReportsInv
  <1>2. ReportsInv /\ [ReportsNext]_reportVars => ReportsInv'
    <2> SUFFICES ASSUME ReportsInv, [ReportsNext]_reportVars, tool' = "campaign" PROVE ReportsInv'
      BY DEF ReportsInv
    <2>1. UNCHANGED <<tool, evidence>>
      BY DEF ReportsNext, Evaluate, WriteNext, reportVars
    <2>2. \/ outcome' = outcome
          \/ Accepts /\ outcome' = <<ReportOf>>
      BY DEF ReportsNext, Evaluate, WriteNext, reportVars
    <2>3. /\ Accepts = CampaignAccepts(evidence.cohorts, evidence.available)
          /\ ReportOf = CampaignSummary(evidence.cohorts, evidence.available)
      BY <2>1 DEF Accepts, ReportOf
    <2> QED
      BY <2>1, <2>2, <2>3 DEF ReportsInv
  <1>3. ReportsInv => CampaignIsBalanced
    <2> SUFFICES ASSUME ReportsInv, Reported("campaign")
                 PROVE  BalancedCampaign(evidence.cohorts, evidence.available, outcome[1])
      BY DEF CampaignIsBalanced
    <2>1. /\ evidence \in CampaignEvidence /\ CampaignAccepts(evidence.cohorts, evidence.available)
          /\ outcome = <<CampaignSummary(evidence.cohorts, evidence.available)>>
      BY DEF ReportsInv, Reported
    <2>2. outcome[1] = CampaignSummary(evidence.cohorts, evidence.available)
      BY <2>1
    <2> QED
      BY <2>1, <2>2, AcceptedIsBalanced
  <1> QED
    BY <1>1, <1>2, <1>3, PTL DEF ReportsSpec

=============================================================================
