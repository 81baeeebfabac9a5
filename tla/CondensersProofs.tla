-------------------------- MODULE CondensersProofs --------------------------
(***************************************************************************)
(* The rolling condensers, for any max_size and any keep_first that the    *)
(* constructors accept and histories of any length: the proofs of HeadKept *)
(* and ShrinksToTarget.  An event's id is its position, so a view is the   *)
(* ascending sequence of the ids that are kept, with the summary put in    *)
(* after keep_first of them; and an ascending sequence is the only one of  *)
(* its elements, which is how a view after a condensation is found from    *)
(* the view before.  What is said of Selection is used for the lines of    *)
(* BashSession, too (ReadingProofs).                                       *)
(***************************************************************************)
EXTENDS Condensers, FiniteSetTheorems, SequenceTheorems, TLAPS

-----------------------------------------------------------------------------
(***************************************************************************)
(* Selection: the elements of a finite set of numbers in ascending order,  *)
(* and the items of a sequence at such positions.                          *)
(***************************************************************************)
\* The rank of an element is a position, greater for a greater element.
LEMMA RankOrder ==
    ASSUME NEW S \in SUBSET Nat, IsFiniteSet(S)
    PROVE  /\ Cardinality(S) \in Nat
           /\ \A i \in S : Rank(S, i) \in 1 .. Cardinality(S)
           /\ \A i \in S, j \in S : i < j => Rank(S, i) < Rank(S, j)
           /\ \A i \in S, j \in S : Rank(S, i) = Rank(S, j) => i = j
<1> DEFINE UpTo(i) == {m \in S : m <= i}
<1>1. Cardinality(S) \in Nat
  BY FS_CardinalityType
<1>2. \A i \in S : IsFiniteSet(UpTo(i)) /\ Cardinality(UpTo(i)) <= Cardinality(S)
  BY FS_Subset
<1>3. \A i \in S : Cardinality(UpTo(i)) \in Nat
  BY <1>2, FS_CardinalityType
<1>4. ASSUME NEW i \in S PROVE Cardinality(UpTo(i)) # 0
  <2>1. i \in UpTo(i)
    OBVIOUS
  <2> QED BY <1>2, <2>1, FS_EmptySet
<1>5. ASSUME NEW i \in S, NEW j \in S, i < j PROVE Cardinality(UpTo(i)) < Cardinality(UpTo(j))
  <2>1. UpTo(i) \subseteq UpTo(j) /\ j \in UpTo(j) /\ j \notin UpTo(i)
    <3>1. \A m \in S : m \in Nat
      OBVIOUS
    <3>2. i \in Nat /\ j \in Nat /\ j <= j /\ ~ (j <= i)
      BY <1>5, <3>1
    <3>3. ASSUME NEW m \in S, m <= i PROVE m <= j
      BY <1>5, <3>1, <3>3
    <3> QED BY <3>2, <3>3
  <2> HIDE DEF UpTo
  <2>2. Cardinality(UpTo(i)) <= Cardinality(UpTo(j))
    BY <1>2, <2>1, FS_Subset
  <2>3. Cardinality(UpTo(i)) # Cardinality(UpTo(j))
    BY <1>2, <2>1, FS_Subset
  <2> QED BY <1>3, <2>2, <2>3
<1>6. \A i \in S : Rank(S, i) = Cardinality(UpTo(i))
  BY DEF Rank
<1> HIDE DEF UpTo
<1>7. ASSUME NEW i \in S, NEW j \in S, Rank(S, i) = Rank(S, j) PROVE i = j
  <2>1. ~ Rank(S, i) < Rank(S, j) /\ ~ Rank(S, j) < Rank(S, i)
    BY <1>3, <1>6, <1>7
  <2> QED BY <1>5, <1>6, <2>1
<1> QED BY <1>1, <1>2, <1>3, <1>4, <1>5, <1>6, <1>7

\* Every position is the rank of an element.
LEMMA RankOnto ==
    ASSUME NEW S \in SUBSET Nat, IsFiniteSet(S), NEW n \in 1 .. Cardinality(S)
    PROVE  \E i \in S : Rank(S, i) = n
<1> DEFINE c == Cardinality(S)
           r == [i \in S |-> Rank(S, i)]
<1>1. c \in Nat /\ r \in [S -> 1 .. c]
  BY RankOrder
<1>2. \A i \in S, j \in S : r[i] = r[j] => i = j
  BY RankOrder
<1>3. r \in Injection(S, 1 .. c)
  <2> HIDE DEF r, c
  <2> QED BY <1>1, <1>2 DEF Injection, IsInjective
<1>4. IsFiniteSet(1 .. c) /\ Cardinality(1 .. c) = c
  BY <1>1, FS_Interval
<1>5. r \in Surjection(S, 1 .. c)
  <2> HIDE DEF r
  <2> QED BY <1>3, <1>4, FS_Injection
<1>6. \E i \in S : r[i] = n
  BY <1>5 DEF Surjection
<1> QED BY <1>6

\* Ascending(S) is what its name says.
LEMMA AscendingIs ==
    ASSUME NEW S \in SUBSET Nat, IsFiniteSet(S)
    PROVE  /\ Cardinality(S) \in Nat
           /\ Ascending(S) \in [1 .. Cardinality(S) -> S]
           /\ \A n \in 1 .. Cardinality(S) : Rank(S, Ascending(S)[n]) = n
           /\ \A i \in S : Ascending(S)[Rank(S, i)] = i
           /\ \A m, n \in 1 .. Cardinality(S) : m < n => Ascending(S)[m] < Ascending(S)[n]
<1> DEFINE c == Cardinality(S)
           a == Ascending(S)
<1>1. c \in Nat
  BY RankOrder
<1>2. DOMAIN a = 1 .. c /\ \A n \in 1 .. c : a[n] = CHOOSE i \in S : Rank(S, i) = n
  BY DEF Ascending
<1>3. ASSUME NEW n \in 1 .. c PROVE a[n] \in S /\ Rank(S, a[n]) = n
  BY <1>2, RankOnto
<1>4. a \in [1 .. c -> S]
  BY <1>3 DEF Ascending
<1> HIDE DEF c, a
<1>7. /\ \A i \in S, j \in S : i < j => Rank(S, i) < Rank(S, j)
      /\ \A i \in S, j \in S : Rank(S, i) = Rank(S, j) => i = j
  BY RankOrder
<1>5. ASSUME NEW i \in S PROVE a[Rank(S, i)] = i
  <2>1. Rank(S, i) \in 1 .. c
    BY RankOrder DEF c
  <2>2. a[Rank(S, i)] \in S /\ Rank(S, a[Rank(S, i)]) = Rank(S, i)
    BY <1>3, <2>1
  <2> QED BY <2>2, <1>7
<1>6. ASSUME NEW m \in 1 .. c, NEW n \in 1 .. c, m < n PROVE a[m] < a[n]
  <2>1. a[m] \in S /\ a[n] \in S /\ Rank(S, a[m]) = m /\ Rank(S, a[n]) = n
    BY <1>3
  <2>2. a[m] # a[n]
    BY <1>6, <2>1
  <2>3. ~ (a[n] < a[m])
    <3>1. ~ (n < m)
      BY <1>6
    <3> QED BY <2>1, <3>1, <1>7
  <2>4. a[m] \in Nat /\ a[n] \in Nat
    BY <2>1
  <2> QED BY <2>2, <2>3, <2>4
<1> QED BY <1>1, <1>3, <1>4, <1>5, <1>6 DEF c, a

\* The only ascending sequence of the elements of S is Ascending(S).
LEMMA AscendingOnly ==
    ASSUME NEW S \in SUBSET Nat, NEW n \in Nat, NEW s \in [1 .. n -> S],
           \A i \in 1 .. n, j \in 1 .. n : i < j => s[i] < s[j],
           \A x \in S : \E i \in 1 .. n : s[i] = x
    PROVE  IsFiniteSet(S) /\ Cardinality(S) = n /\ s = Ascending(S)
<1>0. \A i \in 1 .. n : s[i] \in S /\ s[i] \in Nat
  <2>1. \A x \in S : x \in Nat
    OBVIOUS
  <2> QED BY <2>1
<1>1. \A i \in 1 .. n, j \in 1 .. n : s[i] <= s[j] => i <= j
  <2>1. ASSUME NEW i \in 1 .. n, NEW j \in 1 .. n, s[i] <= s[j], ~ (i <= j) PROVE FALSE
    <3>1. j < i
      BY <2>1
    <3>2. s[j] < s[i] /\ s[i] \in Nat /\ s[j] \in Nat
      BY <1>0, <3>1
    <3> QED BY <2>1, <3>2
  <2> QED BY <2>1
<1>2. \A i \in 1 .. n, j \in 1 .. n : s[i] = s[j] => i = j
  <2>1. ASSUME NEW i \in 1 .. n, NEW j \in 1 .. n, s[i] = s[j] PROVE i = j
    <3>1. s[i] <= s[j] /\ s[j] <= s[i]
      <4>1. s[i] \in Nat
        BY <1>0
      <4> QED BY <2>1, <4>1
    <3> QED BY <1>1, <3>1
  <2> QED BY <2>1
<1>3. ASSUME NEW k \in 0 .. n, NEW T, T = {s[i] : i \in 1 .. k}
      PROVE  IsFiniteSet(T) /\ Cardinality(T) = k
  <2> DEFINE f == [i \in 1 .. k |-> s[i]]
  <2>1. f \in [1 .. k -> T] /\ \A i \in 1 .. k, j \in 1 .. k : f[i] = f[j] => i = j
    BY <1>2, <1>3
  <2>2. \A t \in T : \E i \in 1 .. k : f[i] = t
    BY <1>3
  <2>3. f \in Bijection(1 .. k, T)
    <3> HIDE DEF f
    <3> QED BY <2>1, <2>2 DEF Bijection, Injection, IsInjective, Surjection
  <2>4. ExistsBijection(1 .. k, T)
    BY <2>3 DEF ExistsBijection
  <2>5. IsFiniteSet(1 .. k) /\ Cardinality(1 .. k) = k
    BY FS_Interval
  <2> QED BY <2>4, <2>5, FS_Bijection
<1>4. IsFiniteSet(S) /\ Cardinality(S) = n
  <2>1. S = {s[i] : i \in 1 .. n}
    BY <1>0
  <2>2. n \in 0 .. n
    OBVIOUS
  <2> QED BY <1>3, <2>1, <2>2
<1>5. ASSUME NEW k \in 1 .. n PROVE Rank(S, s[k]) = k
  <2>1. {j \in S : j <= s[k]} = {s[i] : i \in 1 .. k}
    <3>1. ASSUME NEW i \in 1 .. k PROVE s[i] \in S /\ s[i] <= s[k]
      <4>1. i \in 1 .. n /\ s[i] \in Nat /\ s[k] \in Nat /\ (i = k \/ i < k)
        BY <1>0
      <4>2. i = k \/ s[i] < s[k]
        BY <4>1
      <4> QED BY <4>1, <4>2
    <3>2. ASSUME NEW j \in S, j <= s[k] PROVE \E i \in 1 .. k : s[i] = j
      <4>1. PICK i \in 1 .. n : s[i] = j
        OBVIOUS
      <4>2. i <= k
        BY <1>1, <3>2, <4>1
      <4> QED BY <4>1, <4>2
    <3> QED BY <3>1, <3>2
  <2>2. k \in 0 .. n
    OBVIOUS
  <2> QED BY <1>3, <2>1, <2>2 DEF Rank
<1>6. ASSUME NEW k \in 1 .. n PROVE Ascending(S)[k] = s[k]
  <2>1. s[k] \in S /\ Rank(S, s[k]) = k
    BY <1>5
  <2> QED BY <1>4, <2>1, AscendingIs
<1>7. Ascending(S) \in [1 .. n -> S]
  BY <1>4, AscendingIs
<1> QED BY <1>4, <1>6, <1>7

\* The beginning of an ascending sequence does not depend on what comes later.
LEMMA SameBeginning ==
    ASSUME NEW S \in SUBSET Nat, IsFiniteSet(S), NEW T \in SUBSET S, NEW n \in Nat,
           \A j \in S : Rank(S, j) <= n => j \in T
    PROVE  /\ IsFiniteSet(T) /\ Cardinality(T) \in Nat /\ Cardinality(S) \in Nat
           /\ Cardinality(T) <= Cardinality(S)
           /\ \A j \in S : Rank(S, j) <= n => Rank(T, j) = Rank(S, j)
           /\ Cardinality(S) <= n => T = S
           /\ Cardinality(S) > n => Cardinality(T) >= n
           /\ \A k \in 1 .. Cardinality(S) : k <= n =>
                k \in 1 .. Cardinality(T) /\ Ascending(T)[k] = Ascending(S)[k]
<1>1. /\ IsFiniteSet(T) /\ Cardinality(T) \in Nat /\ Cardinality(S) \in Nat
      /\ Cardinality(T) <= Cardinality(S)
  BY FS_Subset, FS_CardinalityType
<1>2. ASSUME NEW j \in S, Rank(S, j) <= n PROVE Rank(T, j) = Rank(S, j)
  <2>1. ASSUME NEW m \in S, m <= j PROVE m \in T
    <3>1. m \in Nat /\ j \in Nat /\ (m = j \/ m < j)
      BY <2>1
    <3>2. m = j \/ Rank(S, m) < Rank(S, j)
      BY <3>1, RankOrder
    <3>3. Rank(S, m) \in Nat /\ Rank(S, j) \in Nat
      BY RankOrder
    <3>4. Rank(S, m) <= n
      BY <1>2, <3>2, <3>3
    <3> QED BY <3>4
  <2>2. {m \in T : m <= j} = {m \in S : m <= j}
    BY <2>1
  <2> QED BY <2>2 DEF Rank
<1>3. ASSUME NEW k \in 1 .. Cardinality(S), k <= n
      PROVE  k \in 1 .. Cardinality(T) /\ Ascending(T)[k] = Ascending(S)[k]
  <2> DEFINE x == Ascending(S)[k]
  <2>1. x \in S /\ Rank(S, x) = k
    BY AscendingIs
  <2> HIDE DEF x
  <2>2. x \in T /\ Rank(T, x) = k
    BY <1>2, <1>3, <2>1
  <2>3. k \in 1 .. Cardinality(T)
    BY <1>1, <2>2, RankOrder
  <2>4. Ascending(T)[Rank(T, x)] = x
    BY <1>1, <2>2, AscendingIs
  <2> QED BY <2>2, <2>3, <2>4 DEF x
<1>4. ASSUME Cardinality(S) <= n PROVE T = S
  <2>1. ASSUME NEW j \in S PROVE j \in T
    <3>1. Rank(S, j) \in 1 .. Cardinality(S)
      BY RankOrder
    <3>2. Rank(S, j) <= n
      BY <1>1, <1>4, <3>1
    <3> QED BY <3>2
  <2> QED BY <2>1
<1>5. ASSUME Cardinality(S) > n PROVE Cardinality(T) >= n
  <2>1. CASE n = 0
    BY <1>1, <2>1
  <2>2. CASE n # 0
    <3>1. n \in 1 .. Cardinality(S)
      BY <1>1, <1>5, <2>2
    <3>2. n \in 1 .. Cardinality(T)
      BY <1>3, <3>1
    <3> QED BY <1>1, <3>2
  <2> QED BY <2>1, <2>2
<1> QED BY <1>1, <1>2, <1>3, <1>4, <1>5

\* The positions of I in ascending order.
Goes(at, n, I) ==
    /\ at \in [1 .. n -> I]
    /\ \A i, j \in 1 .. n : i < j => at[i] < at[j]
    /\ \A x \in I : \E i \in 1 .. n : at[i] = x

\* Every finite set of positions has an ascending order.
LEMMA GoesThrough ==
    ASSUME NEW n \in Nat, NEW I \in SUBSET (1 .. n)
    PROVE  \E m \in Nat : \E at : Goes(at, m, I)
<1>1. IsFiniteSet(I) /\ I \in SUBSET Nat
  <2>1. IsFiniteSet(1 .. n)
    BY FS_Interval
  <2>2. I \subseteq 1 .. n /\ \A i \in I : i \in Nat
    OBVIOUS
  <2>3. IsFiniteSet(I)
    BY <2>1, <2>2, FS_Subset
  <2> QED BY <2>2, <2>3
<1> DEFINE a == Ascending(I)
           m == Cardinality(I)
<1>2. /\ m \in Nat /\ a \in [1 .. m -> I]
      /\ \A i, j \in 1 .. m : i < j => a[i] < a[j]
      /\ \A i \in I : a[Rank(I, i)] = i
  BY <1>1, AscendingIs
<1>3. \A i \in I : Rank(I, i) \in 1 .. m
  BY <1>1, RankOrder
<1> HIDE DEF a, m
<1>4. Goes(a, m, I)
  BY <1>2, <1>3 DEF Goes
<1> QED BY <1>2, <1>4

\* What is selected goes by any ascending order of the positions.
LEMMA SelectedBy ==
    ASSUME NEW V, NEW s \in Seq(V), NEW I \in SUBSET (1 .. Len(s)),
           NEW n \in Nat, NEW at, Goes(at, n, I)
    PROVE  /\ Selected(s, I) \in Seq(V) /\ Len(Selected(s, I)) = n
           /\ \A i \in 1 .. n : Selected(s, I)[i] = s[at[i]]
<1>1. /\ at \in [1 .. n -> I]
      /\ \A i, j \in 1 .. n : i < j => at[i] < at[j]
      /\ \A x \in I : \E i \in 1 .. n : at[i] = x
  BY DEF Goes
<1>b. I \in SUBSET Nat
  <2>1. \A i \in I : i \in Nat
    OBVIOUS
  <2> QED BY <2>1
<1>2. Cardinality(I) = n /\ at = Ascending(I)
  BY <1>1, <1>b, AscendingOnly
<1>4. Selected(s, I) = [i \in 1 .. n |-> s[at[i]]]
  BY <1>2 DEF Selected
<1>5. \A i \in 1 .. n : s[at[i]] \in V
  <2>1. \A i \in 1 .. n : at[i] \in 1 .. Len(s)
    BY <1>1
  <2>2. \A i \in 1 .. Len(s) : s[i] \in V
    OBVIOUS
  <2> QED BY <2>1, <2>2
<1> DEFINE r == [i \in 1 .. n |-> s[at[i]]]
<1>6. r \in Seq(V) /\ Len(r) = n /\ \A i \in 1 .. n : r[i] = s[at[i]]
  BY <1>5
<1>7. Selected(s, I) = r
  BY <1>4
<1> HIDE DEF r
<1> QED BY <1>6, <1>7

\* One sequence behind another.
LEMMA ConcatItems ==
    ASSUME NEW V, NEW s \in Seq(V), NEW t \in Seq(V)
    PROVE  /\ s \o t \in Seq(V) /\ Len(s \o t) = Len(s) + Len(t)
           /\ Len(s) \in Nat /\ Len(t) \in Nat
           /\ \A i \in 1 .. Len(s) : (s \o t)[i] = s[i]
           /\ \A i \in 1 .. Len(t) : (s \o t)[Len(s) + i] = t[i]
  OBVIOUS

\* S and T are positions of s and t; U are the same ones of s followed by t.
Joins(V, s, t, S, T, U) ==
    /\ s \in Seq(V) /\ t \in Seq(V)
    /\ S \in SUBSET (1 .. Len(s)) /\ T \in SUBSET (1 .. Len(t))
    /\ U \in SUBSET (1 .. Len(s) + Len(t))
    /\ \A i \in 1 .. Len(s) : i \in U <=> i \in S
    /\ \A i \in 1 .. Len(t) : Len(s) + i \in U <=> i \in T

\* Selecting from two sequences one behind the other.
LEMMA SelectedConcat ==
    ASSUME NEW V, NEW s, NEW t, NEW S, NEW T, NEW U, Joins(V, s, t, S, T, U)
    PROVE  /\ Selected(s, S) \in Seq(V) /\ Selected(t, T) \in Seq(V)
           /\ Selected(s \o t, U) = Selected(s, S) \o Selected(t, T)
<1> SUFFICES ASSUME s \in Seq(V), t \in Seq(V), S \in SUBSET (1 .. Len(s)),
                    T \in SUBSET (1 .. Len(t)), U \in SUBSET (1 .. Len(s) + Len(t))
             PROVE  /\ Selected(s, S) \in Seq(V) /\ Selected(t, T) \in Seq(V)
                    /\ Selected(s \o t, U) = Selected(s, S) \o Selected(t, T)
  BY DEF Joins
<1> DEFINE l == Len(s)
           k == Len(t)
<1>1. l \in Nat /\ k \in Nat
  OBVIOUS
<1>j. /\ \A i \in 1 .. l : i \in U <=> i \in S
      /\ \A i \in 1 .. k : l + i \in U <=> i \in T
  BY DEF Joins
<1>0. /\ \A i \in S : i \in Nat
      /\ \A i \in T : i \in Nat
      /\ \A i \in U : i \in Nat
  BY <1>1
<1>a. S \in SUBSET Nat /\ T \in SUBSET Nat /\ U \in SUBSET Nat
  BY <1>0
<1>m. PICK m \in Nat : \E at : Goes(at, m, S)
  BY <1>1, GoesThrough
<1>2. PICK a : Goes(a, m, S)
  BY <1>m
<1>n. PICK n \in Nat : \E at : Goes(at, n, T)
  BY <1>1, GoesThrough
<1>3. PICK b : Goes(b, n, T)
  BY <1>n
<1>4. /\ \A i \in 1 .. m : a[i] \in S /\ a[i] \in 1 .. l
      /\ \A i \in 1 .. n : b[i] \in T /\ b[i] \in 1 .. k
  BY <1>2, <1>3 DEF Goes
<1> DEFINE c == [i \in 1 .. m + n |-> IF i <= m THEN a[i] ELSE l + b[i - m]]
<1>5. /\ \A i \in 1 .. m : c[i] = a[i]
      /\ \A i \in 1 .. n : c[m + i] = l + b[i]
      /\ DOMAIN c = 1 .. m + n
  OBVIOUS
<1>6. \A i \in 1 .. m + n : i \in 1 .. m \/ (i - m \in 1 .. n /\ i = m + (i - m))
  OBVIOUS
<1> HIDE DEF c
<1>7. c \in [1 .. m + n -> U]
  <2>1. ASSUME NEW i \in 1 .. m + n PROVE c[i] \in U
    <3>1. CASE i \in 1 .. m
      BY <1>4, <1>5, <1>j, <3>1
    <3>2. CASE i - m \in 1 .. n /\ i = m + (i - m)
      <4>1. b[i - m] \in T /\ b[i - m] \in 1 .. k
        BY <1>4, <3>2
      <4>2. c[i] = l + b[i - m]
        BY <1>5, <3>2
      <4> QED BY <1>j, <4>1, <4>2
    <3> QED BY <1>6, <3>1, <3>2
  <2>2. c = [i \in 1 .. m + n |-> c[i]]
    BY DEF c
  <2> QED BY <2>1, <2>2
<1>8. ASSUME NEW i \in 1 .. m + n, NEW j \in 1 .. m + n, i < j PROVE c[i] < c[j]
  <2>1. CASE i \in 1 .. m /\ j \in 1 .. m
    BY <1>2, <1>5, <1>8, <2>1 DEF Goes
  <2>2. CASE i \in 1 .. m /\ j - m \in 1 .. n /\ j = m + (j - m)
    <3>1. c[i] \in 1 .. l
      BY <1>4, <1>5, <2>2
    <3>2. c[j] = l + b[j - m] /\ b[j - m] \in 1 .. k
      BY <1>4, <1>5, <2>2
    <3> QED BY <1>1, <3>1, <3>2
  <2>3. CASE /\ i - m \in 1 .. n /\ i = m + (i - m)
             /\ j - m \in 1 .. n /\ j = m + (j - m)
    <3>1. c[i] = l + b[i - m] /\ b[i - m] \in 1 .. k
      BY <1>4, <1>5, <2>3
    <3>2. c[j] = l + b[j - m] /\ b[j - m] \in 1 .. k
      BY <1>4, <1>5, <2>3
    <3>3. b[i - m] < b[j - m]
      <4>1. i - m < j - m
        BY <1>8
      <4> QED BY <1>3, <2>3, <4>1 DEF Goes
    <3> QED BY <1>1, <3>1, <3>2, <3>3
  <2> QED BY <1>6, <1>8, <2>1, <2>2, <2>3
<1>9. ASSUME NEW x \in U PROVE \E i \in 1 .. m + n : c[i] = x
  <2>1. x \in 1 .. l \/ (x - l \in 1 .. k /\ x = l + (x - l))
    BY <1>1
  <2>2. CASE x \in 1 .. l
    <3>1. PICK i \in 1 .. m : a[i] = x
      BY <1>2, <1>j, <2>2 DEF Goes
    <3>2. i \in 1 .. m + n
      OBVIOUS
    <3> QED BY <1>5, <3>1, <3>2
  <2>3. CASE x - l \in 1 .. k /\ x = l + (x - l)
    <3>1. x - l \in T
      BY <1>j, <2>3
    <3>2. PICK i \in 1 .. n : b[i] = x - l
      BY <1>3, <3>1 DEF Goes
    <3>3. m + i \in 1 .. m + n /\ c[m + i] = x
      BY <1>5, <2>3, <3>2
    <3> QED BY <3>3
  <2> QED BY <2>1, <2>2, <2>3
<1>10. Goes(c, m + n, U)
  BY <1>7, <1>8, <1>9 DEF Goes
<1> DEFINE ss == Selected(s, S)
           tt == Selected(t, T)
           uu == Selected(s \o t, U)
<1>11. ss \in Seq(V) /\ Len(ss) = m /\ \A i \in 1 .. m : ss[i] = s[a[i]]
  BY <1>2, SelectedBy
<1>12. tt \in Seq(V) /\ Len(tt) = n /\ \A i \in 1 .. n : tt[i] = t[b[i]]
  BY <1>3, SelectedBy
<1>13. uu \in Seq(V) /\ Len(uu) = m + n /\ \A i \in 1 .. m + n : uu[i] = (s \o t)[c[i]]
  <2> DEFINE all == s \o t
             o == m + n
  <2>1. all \in Seq(V) /\ U \in SUBSET (1 .. Len(all))
    BY ConcatItems
  <2>2. o \in Nat /\ Goes(c, o, U)
    BY <1>10
  <2>3. uu = Selected(all, U)
    OBVIOUS
  <2> HIDE DEF all, o
  <2>4. Selected(all, U) \in Seq(V) /\ Len(Selected(all, U)) = o
    BY <2>1, <2>2, SelectedBy
  <2>5. \A i \in 1 .. o : Selected(all, U)[i] = all[c[i]]
    BY <2>1, <2>2, SelectedBy
  <2> HIDE DEF uu
  <2> QED BY <2>3, <2>4, <2>5 DEF all, o
<1> HIDE DEF ss, tt, uu
<1>15. ASSUME NEW i \in 1 .. m PROVE uu[i] = ss[i]
  <2>1. i \in 1 .. m + n /\ c[i] = a[i] /\ a[i] \in 1 .. l
    BY <1>4, <1>5
  <2>2. \A j \in 1 .. l : (s \o t)[j] = s[j]
    BY ConcatItems
  <2>3. (s \o t)[a[i]] = s[a[i]]
    BY <2>1, <2>2
  <2> QED BY <1>11, <1>13, <2>1, <2>3
<1>16. ASSUME NEW i \in 1 .. n PROVE uu[m + i] = tt[i]
  <2>1. m + i \in 1 .. m + n /\ c[m + i] = l + b[i] /\ b[i] \in 1 .. k
    BY <1>4, <1>5
  <2>2. \A j \in 1 .. k : (s \o t)[l + j] = t[j]
    BY ConcatItems
  <2>3. (s \o t)[l + b[i]] = t[b[i]]
    BY <2>1, <2>2
  <2> QED BY <1>12, <1>13, <2>1, <2>3
<1> DEFINE st == ss \o tt
<1>17. /\ st \in Seq(V) /\ Len(st) = m + n
       /\ \A i \in 1 .. m : st[i] = ss[i]
       /\ \A i \in 1 .. n : st[m + i] = tt[i]
  <2>1. ss \o tt \in Seq(V) /\ Len(ss \o tt) = Len(ss) + Len(tt)
    BY <1>11, <1>12, ConcatItems
  <2>2. \A i \in 1 .. Len(ss) : (ss \o tt)[i] = ss[i]
    BY <1>11, <1>12, ConcatItems
  <2>3. \A i \in 1 .. Len(tt) : (ss \o tt)[Len(ss) + i] = tt[i]
    BY <1>11, <1>12, ConcatItems
  <2> QED BY <1>11, <1>12, <2>1, <2>2, <2>3
<1> HIDE DEF st
<1>18. uu = st
  <2>1. ASSUME NEW i \in 1 .. m + n PROVE uu[i] = st[i]
    <3>1. CASE i \in 1 .. m
      BY <1>15, <1>17, <3>1
    <3>2. CASE i - m \in 1 .. n /\ i = m + (i - m)
      BY <1>16, <1>17, <3>2
    <3> QED BY <1>6, <3>1, <3>2
  <2> QED BY <1>13, <1>17, <2>1, SeqEqual
<1> QED BY <1>11, <1>12, <1>18 DEF ss, tt, uu, st

\* The items of s whose kind is in K.
KindOf(s, K) == {i \in 1 .. Len(s) : s[i].k \in K}
ItemsOf(s, K) == Selected(s, KindOf(s, K))

\* Two sequences with elements of V.
AreSeqs(V, s, t) == s \in Seq(V) /\ t \in Seq(V)

\* The items of some kinds, in two sequences one behind the other.
LEMMA ItemsConcat ==
    ASSUME NEW V, NEW s, NEW t, AreSeqs(V, s, t), NEW K
    PROVE  /\ ItemsOf(s, K) \in Seq(V) /\ ItemsOf(t, K) \in Seq(V)
           /\ ItemsOf(s \o t, K) = ItemsOf(s, K) \o ItemsOf(t, K)
<1>s. s \in Seq(V) /\ t \in Seq(V)
  BY DEF AreSeqs
<1> DEFINE S == KindOf(s, K)
           T == KindOf(t, K)
           U == KindOf(s \o t, K)
<1>1. /\ Len(s \o t) = Len(s) + Len(t) /\ Len(s) \in Nat /\ Len(t) \in Nat
      /\ \A i \in 1 .. Len(s) : (s \o t)[i] = s[i]
      /\ \A i \in 1 .. Len(t) : (s \o t)[Len(s) + i] = t[i]
  BY <1>s, ConcatItems
<1>2. S \in SUBSET (1 .. Len(s)) /\ T \in SUBSET (1 .. Len(t))
  BY DEF KindOf
<1>3. U \in SUBSET (1 .. Len(s) + Len(t))
  BY <1>1 DEF KindOf
<1>4. \A i \in 1 .. Len(s) : i \in U <=> i \in S
  <2>1. \A i \in 1 .. Len(s) : i \in 1 .. Len(s \o t)
    BY <1>1
  <2> QED BY <1>1, <2>1 DEF KindOf
<1>5. \A i \in 1 .. Len(t) : Len(s) + i \in U <=> i \in T
  <2>1. \A i \in 1 .. Len(t) : Len(s) + i \in 1 .. Len(s \o t)
    BY <1>1
  <2> QED BY <1>1, <2>1 DEF KindOf
<1> HIDE DEF S, T, U
<1>j. Joins(V, s, t, S, T, U)
  BY <1>s, <1>2, <1>3, <1>4, <1>5 DEF Joins
<1>6. Selected(s, S) \in Seq(V) /\ Selected(t, T) \in Seq(V)
  BY <1>j, SelectedConcat, Zenon
<1>7. Selected(s \o t, U) = Selected(s, S) \o Selected(t, T)
  BY <1>j, SelectedConcat
<1> QED BY <1>6, <1>7 DEF ItemsOf, S, T, U

\* The items of some kinds of a sequence with none or one.
LEMMA ItemsOfOne ==
    ASSUME NEW V, NEW K
    PROVE  /\ ItemsOf(<<>>, K) = <<>>
           /\ \A x \in V : ItemsOf(<<x>>, K) = IF x.k \in K THEN <<x>> ELSE <<>>
<1>1. ASSUME NEW s \in Seq(V), KindOf(s, K) = {} PROVE ItemsOf(s, K) = <<>>
  <2>1. Goes(<<>>, 0, {})
    BY DEF Goes
  <2>2. {} \in SUBSET (1 .. Len(s)) /\ 0 \in Nat
    OBVIOUS
  <2>3. Selected(s, {}) \in Seq(V) /\ Len(Selected(s, {})) = 0
    BY <2>1, <2>2, SelectedBy
  <2>4. Selected(s, {}) = <<>>
    BY <2>3, EmptySeq
  <2> QED BY <1>1, <2>4 DEF ItemsOf
<1>2. ItemsOf(<<>>, K) = <<>>
  <2>1. <<>> \in Seq(V) /\ KindOf(<<>>, K) = {}
    BY DEF KindOf
  <2> QED BY <1>1, <2>1
<1>3. ASSUME NEW x \in V, x.k \notin K PROVE ItemsOf(<<x>>, K) = <<>>
  <2>1. <<x>> \in Seq(V) /\ KindOf(<<x>>, K) = {}
    BY <1>3 DEF KindOf
  <2> QED BY <1>1, <2>1
<1>4. ASSUME NEW x \in V, x.k \in K PROVE ItemsOf(<<x>>, K) = <<x>>
  <2> DEFINE s == <<x>>
             at == [i \in 1 .. 1 |-> 1]
             r == Selected(s, {1})
  <2>1. s \in Seq(V) /\ Len(s) = 1 /\ s[1] = x
    OBVIOUS
  <2>2. KindOf(s, K) = {1}
    BY <1>4, <2>1 DEF KindOf
  <2>3. Goes(at, 1, {1}) /\ at[1] = 1
    BY DEF Goes
  <2> HIDE DEF s, at
  <2>4. {1} \in SUBSET (1 .. Len(s)) /\ 1 \in Nat
    BY <2>1
  <2>5. r \in Seq(V) /\ Len(r) = 1
    BY <2>1, <2>3, <2>4, SelectedBy
  <2>6. \A i \in 1 .. 1 : r[i] = s[at[i]]
    BY <2>1, <2>3, <2>4, SelectedBy
  <2> HIDE DEF r
  <2>7. r[1] = x
    BY <2>1, <2>3, <2>6
  <2>8. r = s
    <3>1. \A i \in 1 .. Len(r) : r[i] = s[i]
      BY <2>1, <2>5, <2>7
    <3> QED BY <2>1, <2>5, <3>1, SeqEqual
  <2> QED BY <2>2, <2>8 DEF ItemsOf, r, s
<1> QED BY <1>2, <1>3, <1>4

\* The items of a part of a sequence.
LEMMA PartItems ==
    ASSUME NEW s, NEW l \in Int, NEW r \in Int, NEW i \in 1 .. r - l + 1
    PROVE  SubSeq(s, l, r)[i] = s[l + i - 1]
  OBVIOUS

-----------------------------------------------------------------------------
(***************************************************************************)
(* The definitions of the model for any history: the events before it has  *)
(* n more, those that are no condensation and no request for one, those of *)
(* them that no condensation has forgotten, and whether there is a summary.*)
(***************************************************************************)
CondEvents(n) ==
    [k : {"user", "act", "obs", "request", "condensation"}, forgotten : SUBSET (1 .. n),
     summary : BOOLEAN]

Plains(h) == {i \in 1 .. Len(h) : h[i].k \notin {"condensation", "request"}}
KeptOf(h) == {i \in Plains(h) : \A e \in 1 .. Len(h) : i \notin h[e].forgotten}
Summarized(h) == \E i \in 1 .. Len(h) : h[i].summary

\* How many first events are kept.
KeptFirst == IF kind = "window" THEN 1 ELSE KeepFirst

\* The first events are in no condensation, and there are more than those when
\* a summary takes the place of others.
CondInvOf(h, kd, n) ==
    /\ h \in Seq(CondEvents(Len(h)))
    /\ Len(h) # 0 /\ h[1].k = "user"
    /\ \A i \in 1 .. Len(h) : h[i].forgotten \subseteq 1 .. i - 1
    /\ \A e \in 1 .. Len(h), j \in Plains(h) : Rank(Plains(h), j) <= n => j \notin h[e].forgotten
    /\ Summarized(h) => kd = "summarizing" /\ Cardinality(Plains(h)) > n

\* The inductive invariant.
CondInv ==
    /\ Constructed
    /\ kind \in {"amortized", "summarizing", "window"}
    /\ CondInvOf(history, kind, KeptFirst)

\* What the argument needs to know about the constants.
LEMMA CondConstants ==
    ASSUME CondInv
    PROVE  /\ KeepFirst \in Nat /\ MaxSize \in Nat /\ Target \in Nat
           /\ KeepFirst < Target /\ KeptFirst \in Nat
  BY DEF CondInv, Constructed, Target, KeptFirst

\* The positions of a history.
LEMMA PlainsFinite ==
    ASSUME NEW h, Len(h) \in Nat
    PROVE  /\ Plains(h) \in SUBSET Nat /\ IsFiniteSet(Plains(h)) /\ Cardinality(Plains(h)) \in Nat
           /\ KeptOf(h) \in SUBSET Plains(h) /\ IsFiniteSet(KeptOf(h))
           /\ Cardinality(KeptOf(h)) \in Nat
<1>1. IsFiniteSet(1 .. Len(h))
  BY FS_Interval
<1>2. Plains(h) \subseteq 1 .. Len(h) /\ KeptOf(h) \subseteq Plains(h)
  BY DEF Plains, KeptOf
<1>3. IsFiniteSet(Plains(h)) /\ IsFiniteSet(KeptOf(h))
  BY <1>1, <1>2, FS_Subset
<1> QED BY <1>2, <1>3, FS_CardinalityType

\* The view of any history.
ViewOf(h) ==
    IF Summarized(h) THEN Insert(Ascending(KeptOf(h)), KeepFirst, -1) ELSE Ascending(KeptOf(h))

\* View.from_events.
LEMMA ViewIs ==
    ASSUME DOMAIN history = 1 .. Len(history)
    PROVE  View = ViewOf(history)
<1>1. DOMAIN history \ Forgotten = KeptOf(history)
  BY DEF Forgotten, KeptOf, Plains
<1>2. (\E i \in DOMAIN history : history[i].summary) <=> Summarized(history)
  BY DEF Summarized
<1> QED BY <1>1, <1>2 DEF View, ViewOf, Summary

\* View.from_events after a step.
LEMMA ViewIsNext ==
    ASSUME DOMAIN history' = 1 .. Len(history')
    PROVE  View' = ViewOf(history')
<1>1. (DOMAIN history \ Forgotten)' = KeptOf(history')
  BY DEF Forgotten, KeptOf, Plains
<1>2. (\E i \in DOMAIN history' : history'[i].summary) <=> Summarized(history')
  BY DEF Summarized
<1> QED BY <1>1, <1>2 DEF View, ViewOf, Summary

\* The numbers of a finite set in ascending order, as a sequence.
LEMMA AscendingSeq ==
    ASSUME NEW S \in SUBSET Nat, IsFiniteSet(S)
    PROVE  /\ Ascending(S) \in Seq(Nat) /\ Ascending(S) \in Seq(Int)
           /\ Len(Ascending(S)) = Cardinality(S)
<1>1. Cardinality(S) \in Nat /\ Ascending(S) \in [1 .. Cardinality(S) -> S]
  BY AscendingIs
<1> DEFINE a == Ascending(S)
<1> HIDE DEF a
<1>2. a \in Seq(S) /\ Len(a) = Cardinality(S)
  BY <1>1 DEF a
<1>3. a \in Seq(Nat) /\ a \in Seq(Int)
  <2>1. S \subseteq Nat /\ S \subseteq Int
    OBVIOUS
  <2> QED BY <1>2, <2>1, SeqMonotonic
<1> QED BY <1>2, <1>3 DEF a

\* list.insert inside the list.
LEMMA InsertIs ==
    ASSUME NEW s \in Seq(Int), NEW n \in Nat, n <= Len(s), NEW x \in Int
    PROVE  /\ Insert(s, n, x) \in Seq(Int)
           /\ Len(Insert(s, n, x)) = Len(s) + 1
           /\ \A i \in 1 .. n : Insert(s, n, x)[i] = s[i]
           /\ Insert(s, n, x)[n + 1] = x
           /\ \A i \in n + 2 .. Len(s) + 1 : Insert(s, n, x)[i] = s[i - 1]
<1> DEFINE a == SubSeq(s, 1, n)
           b == SubSeq(s, n + 1, Len(s))
<1>1. Insert(s, n, x) = a \o <<x>> \o b
  <2>1. (IF n < Len(s) THEN n ELSE Len(s)) = n
    OBVIOUS
  <2> QED BY <2>1 DEF Insert
<1>2. Len(s) \in Nat /\ a \in Seq(Int) /\ Len(a) = n /\ \A i \in 1 .. n : a[i] = s[i]
  OBVIOUS
<1>3. /\ b \in Seq(Int) /\ Len(b) = Len(s) - n
      /\ \A i \in 1 .. Len(s) - n : b[i] = s[n + i]
  BY <1>2
<1> HIDE DEF a, b
<1>4. /\ a \o <<x>> \in Seq(Int) /\ Len(a \o <<x>>) = n + 1
      /\ \A i \in 1 .. n : (a \o <<x>>)[i] = s[i]
      /\ (a \o <<x>>)[n + 1] = x
  <2> DEFINE d == <<x>>
  <2>1. d \in Seq(Int) /\ Len(d) = 1 /\ d[1] = x
    OBVIOUS
  <2> HIDE DEF d
  <2>2. /\ a \o d \in Seq(Int) /\ Len(a \o d) = Len(a) + Len(d)
        /\ \A i \in 1 .. Len(a) + Len(d) :
             (a \o d)[i] = IF i <= Len(a) THEN a[i] ELSE d[i - Len(a)]
    BY <1>2, <2>1, ConcatProperties
  <2>3. /\ Len(a) + Len(d) = n + 1 /\ n + 1 \in 1 .. n + 1 /\ (n + 1) - Len(a) = 1
        /\ ~ (n + 1 <= Len(a)) /\ \A i \in 1 .. n : i \in 1 .. n + 1 /\ i <= Len(a)
    BY <1>2, <2>1
  <2>4. (\A i \in 1 .. n : (a \o d)[i] = a[i]) /\ (a \o d)[n + 1] = d[1]
    BY <2>2, <2>3
  <2> QED BY <1>2, <2>1, <2>2, <2>3, <2>4 DEF d
<1> DEFINE c == a \o <<x>>
<1> HIDE DEF c
<1>5. /\ c \o b \in Seq(Int) /\ Len(c \o b) = Len(s) + 1
      /\ \A i \in 1 .. n + 1 : (c \o b)[i] = c[i]
      /\ \A i \in n + 2 .. Len(s) + 1 : (c \o b)[i] = b[i - (n + 1)]
  <2>1. c \in Seq(Int) /\ Len(c) = n + 1
    BY <1>4 DEF c
  <2>2. /\ c \o b \in Seq(Int) /\ Len(c \o b) = Len(c) + Len(b)
        /\ \A i \in 1 .. Len(c) + Len(b) :
             (c \o b)[i] = IF i <= Len(c) THEN c[i] ELSE b[i - Len(c)]
    BY <1>3, <2>1, ConcatProperties
  <2>3. Len(c) + Len(b) = Len(s) + 1
    BY <1>2, <1>3, <2>1
  <2>4. /\ \A i \in 1 .. n + 1 : i \in 1 .. Len(s) + 1 /\ i <= n + 1
        /\ \A i \in n + 2 .. Len(s) + 1 : i \in 1 .. Len(s) + 1 /\ ~ (i <= n + 1)
    BY <1>2
  <2> QED BY <2>1, <2>2, <2>3, <2>4
<1>6. \A i \in n + 2 .. Len(s) + 1 : i - (n + 1) \in 1 .. Len(s) - n /\ n + (i - (n + 1)) = i - 1
  BY <1>2
<1>7. \A i \in n + 2 .. Len(s) + 1 : (c \o b)[i] = s[i - 1]
  BY <1>3, <1>5, <1>6
<1>8. /\ \A i \in 1 .. n : (c \o b)[i] = s[i]
      /\ (c \o b)[n + 1] = x
  <2>1. (\A i \in 1 .. n : c[i] = s[i]) /\ c[n + 1] = x
    BY <1>4 DEF c
  <2>2. n + 1 \in 1 .. n + 1 /\ \A i \in 1 .. n : i \in 1 .. n + 1
    OBVIOUS
  <2> QED BY <1>5, <2>1, <2>2
<1>10. Insert(s, n, x) = c \o b
  BY <1>1 DEF c
<1> QED BY <1>5, <1>7, <1>8, <1>10

\* s[:n].
LEMMA FirstNIs ==
    ASSUME NEW s \in Seq(Int), NEW n \in Nat
    PROVE  /\ FirstN(s, n) \in Seq(Int)
           /\ Len(FirstN(s, n)) = IF n < Len(s) THEN n ELSE Len(s)
           /\ \A i \in 1 .. Len(s) : i <= n => FirstN(s, n)[i] = s[i]
<1> DEFINE m == IF n < Len(s) THEN n ELSE Len(s)
<1>1. m \in 0 .. Len(s) /\ Len(s) \in Nat
  OBVIOUS
<1>2. \A i \in 1 .. Len(s) : i <= n => i \in 1 .. m
  BY <1>1
<1>3. FirstN(s, n) = SubSeq(s, 1, m)
  BY DEF FirstN
<1> HIDE DEF m
<1>4. SubSeq(s, 1, m) \in Seq(Int) /\ Len(SubSeq(s, 1, m)) = m
      /\ \A i \in 1 .. m : SubSeq(s, 1, m)[i] = s[i]
  BY <1>1
<1> QED BY <1>2, <1>3, <1>4 DEF m

\* s[-n:].
LEMMA LastNIs ==
    ASSUME NEW s \in Seq(Int), NEW n \in Nat
    PROVE  /\ n = 0 \/ n > Len(s) => LastN(s, n) = s
           /\ n # 0 /\ n <= Len(s) =>
                /\ LastN(s, n) \in Seq(Int)
                /\ Len(LastN(s, n)) = n
                /\ \A i \in 1 .. n : LastN(s, n)[i] = s[Len(s) - n + i]
<1>1. Len(s) \in Nat
  OBVIOUS
<1>2. SubSeq(s, 1, Len(s)) = s
  OBVIOUS
<1>3. n = 0 \/ n > Len(s) => LastN(s, n) = s
  BY <1>2 DEF LastN
<1>4. ASSUME n # 0, n <= Len(s)
      PROVE  /\ LastN(s, n) \in Seq(Int)
             /\ Len(LastN(s, n)) = n
             /\ \A i \in 1 .. n : LastN(s, n)[i] = s[Len(s) - n + i]
  <2> DEFINE k == Len(s) - n + 1
  <2>1. LastN(s, n) = SubSeq(s, k, Len(s))
    <3>1. (IF n = 0 \/ n > Len(s) THEN 1 ELSE Len(s) - n + 1) = k
      BY <1>1, <1>4
    <3> QED BY <3>1 DEF LastN
  <2>2. k \in 1 .. Len(s) /\ Len(s) - k + 1 = n /\ \A i \in 1 .. n : k + i - 1 = Len(s) - n + i
    BY <1>1, <1>4
  <2> HIDE DEF k
  <2>3. /\ SubSeq(s, k, Len(s)) \in Seq(Int) /\ Len(SubSeq(s, k, Len(s))) = Len(s) - k + 1
        /\ \A i \in 1 .. Len(s) - k + 1 : SubSeq(s, k, Len(s))[i] = s[k + i - 1]
    <3>1. \A i \in k .. Len(s) : s[i] \in Int
      BY <2>2
    <3> QED BY <1>1, <2>2, <3>1, SubSeqProperties
  <2> QED BY <2>1, <2>2, <2>3
<1> QED BY <1>3, <1>4

\* s[m:-n], as a set.
LEMMA BetweenIs ==
    ASSUME NEW s \in Seq(Int), NEW m \in Nat, NEW n \in Nat \ {0}
    PROVE  ToSet(Between(s, m, n)) = {s[i] : i \in m + 1 .. Len(s) - n}
<1> DEFINE k == Len(s) - n
           b == SubSeq(s, m + 1, k)
<1>1. Len(s) \in Nat /\ k \in Int /\ k < Len(s)
  OBVIOUS
<1>2. Between(s, m, n) = b
  BY DEF Between
<1> HIDE DEF k
<1>3. CASE m + 1 <= k
  <2>1. m + 1 \in 1 .. Len(s) /\ k \in 1 .. Len(s)
    BY <1>1, <1>3
  <2>2. DOMAIN b = 1 .. k - m /\ \A i \in 1 .. k - m : b[i] = s[m + i]
    BY <1>1, <1>3, <2>1
  <2>3. \A i \in m + 1 .. k : i - m \in 1 .. k - m /\ m + (i - m) = i
    BY <1>1
  <2>4. \A i \in 1 .. k - m : m + i \in m + 1 .. k
    BY <1>1
  <2> HIDE DEF b
  <2>5. {b[i] : i \in 1 .. k - m} = {s[i] : i \in m + 1 .. k}
    BY <2>2, <2>3, <2>4
  <2> QED BY <1>2, <2>2, <2>5 DEF ToSet, k
<1>4. CASE ~ (m + 1 <= k)
  <2>1. DOMAIN b = {} /\ m + 1 .. k = {}
    BY <1>1, <1>4
  <2> QED BY <1>2, <2>1 DEF ToSet, k
<1> QED BY <1>3, <1>4

\* What the invariant says of the history, the events that are kept and the first ones.
LEMMA CondBeginning ==
    ASSUME NEW h, NEW kd, NEW n \in Nat, CondInvOf(h, kd, n)
    PROVE  /\ Len(h) \in Nat /\ DOMAIN h = 1 .. Len(h)
           /\ \A i \in 1 .. Len(h) : h[i] \in CondEvents(Len(h))
           /\ Cardinality(Plains(h)) \in Nat /\ Cardinality(KeptOf(h)) \in Nat
           /\ \A j \in Plains(h) :
                Rank(Plains(h), j) <= n =>
                  j \in KeptOf(h) /\ Rank(KeptOf(h), j) = Rank(Plains(h), j)
           /\ Cardinality(Plains(h)) <= n => KeptOf(h) = Plains(h)
           /\ Cardinality(Plains(h)) > n => Cardinality(KeptOf(h)) >= n
           /\ Cardinality(KeptOf(h)) <= Cardinality(Plains(h))
           /\ \A k \in 1 .. Cardinality(Plains(h)) : k <= n =>
                /\ k \in 1 .. Cardinality(KeptOf(h))
                /\ Ascending(KeptOf(h))[k] = Ascending(Plains(h))[k]
<1>1. /\ Len(h) \in Nat /\ DOMAIN h = 1 .. Len(h)
      /\ \A i \in 1 .. Len(h) : h[i] \in CondEvents(Len(h))
  BY LenProperties, ElementOfSeq DEF CondInvOf
<1>2. \A j \in Plains(h) : Rank(Plains(h), j) <= n => j \in KeptOf(h)
  BY DEF CondInvOf, KeptOf
<1> QED BY <1>1, <1>2, PlainsFinite, SameBeginning

\* HeadKept, from the invariant.
LEMMA HeadIsKept == ASSUME CondInv PROVE HeadKept
<1> DEFINE n == KeptFirst
           P == Plains(history)
           K == KeptOf(history)
           p == Ascending(P)
           a == Ascending(K)
<1>1. CondInvOf(history, kind, n) /\ n \in Nat /\ KeepFirst \in Nat
  BY CondConstants DEF CondInv
<1>2. /\ Len(history) \in Nat /\ DOMAIN history = 1 .. Len(history)
      /\ Cardinality(P) \in Nat /\ Cardinality(K) \in Nat
      /\ Cardinality(P) <= n => K = P
      /\ Cardinality(P) > n => Cardinality(K) >= n
      /\ \A k \in 1 .. Cardinality(P) : k <= n => k \in 1 .. Cardinality(K) /\ a[k] = p[k]
  BY <1>1, CondBeginning
<1>3. /\ p \in Seq(Int) /\ Len(p) = Cardinality(P) /\ a \in Seq(Int) /\ Len(a) = Cardinality(K)
  BY <1>2, PlainsFinite, AscendingSeq
<1>4. {i \in DOMAIN history : history[i].k \notin {"condensation", "request"}} = P
  BY <1>2 DEF Plains
<1>5. (IF kind = "window" THEN 1 ELSE KeepFirst) = n
  BY DEF KeptFirst
<1>6. HeadKept <=> FirstN(ViewOf(history), n) = FirstN(p, n)
  BY <1>2, <1>4, <1>5, ViewIs DEF HeadKept
<1>7. CASE Cardinality(P) <= n /\ ~ Summarized(history)
  BY <1>2, <1>6, <1>7 DEF ViewOf
<1>8. CASE Cardinality(P) > n
  <2> DEFINE v == ViewOf(history)
  <2>1. v \in Seq(Int) /\ n <= Len(v) /\ \A i \in 1 .. n : v[i] = a[i]
    <3>1. CASE ~ Summarized(history)
      BY <1>2, <1>3, <1>8, <3>1 DEF ViewOf
    <3>2. CASE Summarized(history)
      <4>1. n = KeepFirst /\ n <= Len(a)
        BY <1>1, <1>2, <1>3, <1>8, <3>2 DEF CondInvOf, KeptFirst
      <4>2. v = Insert(a, n, -1)
        BY <3>2, <4>1 DEF ViewOf
      <4>3. Len(a) \in Nat /\ -1 \in Int
        BY <1>2, <1>3
      <4> HIDE DEF v, a
      <4>4. /\ Insert(a, n, -1) \in Seq(Int) /\ Len(Insert(a, n, -1)) = Len(a) + 1
            /\ \A i \in 1 .. n : Insert(a, n, -1)[i] = a[i]
        <5> HIDE DEF n
        <5> QED BY <1>1, <1>3, <4>1, <4>3, InsertIs
      <4> QED BY <1>1, <4>1, <4>2, <4>3, <4>4
    <3> QED BY <3>1, <3>2
  <2> HIDE DEF v, a, p, n
  <2>2. /\ Len(v) \in Nat /\ n <= Len(p)
        /\ \A i \in 1 .. n : i \in 1 .. Len(v) /\ i \in 1 .. Len(p) /\ i <= n /\ v[i] = p[i]
    <3>1. Len(v) \in Nat
      BY <2>1
    <3>2. n <= Len(p) /\ \A i \in 1 .. n : i \in 1 .. Len(v) /\ i \in 1 .. Len(p) /\ i <= n
      BY <1>1, <1>2, <1>3, <1>8, <2>1, <3>1
    <3> QED BY <1>2, <1>3, <2>1, <3>1, <3>2
  <2>3. /\ FirstN(v, n) \in Seq(Int) /\ Len(FirstN(v, n)) = n
        /\ \A i \in 1 .. n : FirstN(v, n)[i] = v[i]
    BY <1>1, <2>1, <2>2, FirstNIs
  <2>4. /\ FirstN(p, n) \in Seq(Int) /\ Len(FirstN(p, n)) = n
        /\ \A i \in 1 .. n : FirstN(p, n)[i] = p[i]
    <3>1. /\ FirstN(p, n) \in Seq(Int)
          /\ Len(FirstN(p, n)) = IF n < Len(p) THEN n ELSE Len(p)
          /\ \A i \in 1 .. Len(p) : i <= n => FirstN(p, n)[i] = p[i]
      BY <1>1, <1>3, FirstNIs
    <3>2. Len(p) \in Nat
      BY <1>2, <1>3
    <3> QED BY <1>1, <2>2, <3>1, <3>2
  <2>5. FirstN(v, n) = FirstN(p, n)
    BY <2>2, <2>3, <2>4, SeqEqual
  <2> QED BY <1>6, <2>5 DEF v
<1> QED BY <1>1, <1>2, <1>7, <1>8 DEF CondInvOf

-----------------------------------------------------------------------------
\* The least and the greatest number of a set.
LEMMA MinMaxAre ==
    ASSUME NEW S \in SUBSET Int, NEW x \in S
    PROVE  /\ (\A y \in S : x <= y) => Min(S) = x
           /\ (\A y \in S : y <= x) => Max(S) = x
<1>1. ASSUME \A y \in S : x <= y, NEW z \in S, \A y \in S : z <= y PROVE z = x
  <2>1. x <= z /\ z <= x /\ x \in Int /\ z \in Int
    BY <1>1
  <2> QED BY <2>1
<1>2. ASSUME \A y \in S : y <= x, NEW z \in S, \A y \in S : z >= y PROVE z = x
  <2>1. x <= z /\ z <= x /\ x \in Int /\ z \in Int
    BY <1>2
  <2> QED BY <2>1
<1>3. ASSUME \A y \in S : y <= x PROVE \A y \in S : x >= y
  <2>1. x \in Int /\ \A y \in S : y \in Int
    OBVIOUS
  <2> QED BY <1>3, <2>1
<1>4. ASSUME \A y \in S : x <= y PROVE Min(S) = x
  <2>1. \E z \in S : \A y \in S : z <= y
    BY <1>4
  <2> QED BY <1>1, <1>4, <2>1 DEF Min
<1>5. ASSUME \A y \in S : y <= x PROVE Max(S) = x
  <2>1. \E z \in S : \A y \in S : z >= y
    BY <1>3, <1>5
  <2> QED BY <1>2, <1>5, <2>1 DEF Max
<1> QED BY <1>4, <1>5

\* The elements of s[:n].
LEMMA ToSetFirst ==
    ASSUME NEW s \in Seq(Int), NEW n \in Nat
    PROVE  ToSet(FirstN(s, n)) = {s[i] : i \in {k \in 1 .. Len(s) : k <= n}}
<1> DEFINE f == FirstN(s, n)
<1>1. /\ f \in Seq(Int) /\ Len(f) = IF n < Len(s) THEN n ELSE Len(s)
      /\ \A i \in 1 .. Len(s) : i <= n => f[i] = s[i]
  BY FirstNIs
<1>2. Len(s) \in Nat /\ DOMAIN f = 1 .. Len(f)
  BY <1>1
<1> HIDE DEF f
<1>3. DOMAIN f = {k \in 1 .. Len(s) : k <= n}
  BY <1>1, <1>2
<1> QED BY <1>1, <1>3 DEF ToSet, f

\* The elements of s[-n:].
LEMMA ToSetLast ==
    ASSUME NEW s \in Seq(Int), NEW n \in Nat \ {0}
    PROVE  /\ LastN(s, n) \in Seq(Int)
           /\ ToSet(LastN(s, n)) = {s[i] : i \in {k \in 1 .. Len(s) : k > Len(s) - n}}
<1>1. Len(s) \in Nat /\ DOMAIN s = 1 .. Len(s)
  OBVIOUS
<1>2. CASE n > Len(s)
  <2>1. LastN(s, n) = s
    BY <1>2, LastNIs
  <2>2. {k \in 1 .. Len(s) : k > Len(s) - n} = 1 .. Len(s)
    BY <1>1, <1>2
  <2> QED BY <1>1, <2>1, <2>2 DEF ToSet
<1>3. CASE n <= Len(s)
  <2> DEFINE f == LastN(s, n)
  <2>1. f \in Seq(Int) /\ Len(f) = n /\ \A i \in 1 .. n : f[i] = s[Len(s) - n + i]
    BY <1>3, LastNIs
  <2>2. DOMAIN f = 1 .. n
    BY <2>1
  <2>3. /\ \A i \in 1 .. n : Len(s) - n + i \in {k \in 1 .. Len(s) : k > Len(s) - n}
        /\ \A i \in {k \in 1 .. Len(s) : k > Len(s) - n} :
             i - (Len(s) - n) \in 1 .. n /\ Len(s) - n + (i - (Len(s) - n)) = i
    BY <1>1, <1>3
  <2> HIDE DEF f
  <2>4. {f[i] : i \in 1 .. n} = {s[i] : i \in {k \in 1 .. Len(s) : k > Len(s) - n}}
    <3> DEFINE J == {k \in 1 .. Len(s) : k > Len(s) - n}
    <3>1. ASSUME NEW i \in 1 .. n PROVE \E k \in J : f[i] = s[k]
      <4>1. Len(s) - n + i \in J /\ f[i] = s[Len(s) - n + i]
        BY <2>1, <2>3
      <4> HIDE DEF J
      <4> QED BY <4>1
    <3>2. ASSUME NEW k \in J PROVE \E i \in 1 .. n : f[i] = s[k]
      <4>1. k - (Len(s) - n) \in 1 .. n /\ Len(s) - n + (k - (Len(s) - n)) = k
        BY <2>3
      <4> HIDE DEF J
      <4> QED BY <2>1, <4>1
    <3> HIDE DEF J
    <3>3. {f[i] : i \in 1 .. n} = {s[i] : i \in J}
      BY <3>1, <3>2
    <3> QED BY <3>3 DEF J
  <2> QED BY <2>1, <2>2, <2>4 DEF ToSet, f
<1> QED BY <1>1, <1>2, <1>3

\* The elements of one list and then the other.
LEMMA ToSetConcat ==
    ASSUME NEW s \in Seq(Int), NEW u \in Seq(Int)
    PROVE  ToSet(s \o u) = ToSet(s) \cup ToSet(u)
<1> DEFINE r == s \o u
<1>1. /\ r \in Seq(Int) /\ Len(r) = Len(s) + Len(u)
      /\ \A i \in 1 .. Len(s) + Len(u) : r[i] = IF i <= Len(s) THEN s[i] ELSE u[i - Len(s)]
  BY ConcatProperties
<1>2. /\ Len(s) \in Nat /\ Len(u) \in Nat /\ DOMAIN r = 1 .. Len(s) + Len(u)
      /\ DOMAIN s = 1 .. Len(s) /\ DOMAIN u = 1 .. Len(u)
  BY <1>1, LenProperties
<1> HIDE DEF r
<1>3. \A i \in 1 .. Len(s) : i \in 1 .. Len(s) + Len(u) /\ r[i] = s[i]
  BY <1>1, <1>2
<1>4. \A i \in 1 .. Len(u) : Len(s) + i \in 1 .. Len(s) + Len(u) /\ r[Len(s) + i] = u[i]
  <2>1. \A i \in 1 .. Len(u) :
          /\ Len(s) + i \in 1 .. Len(s) + Len(u) /\ ~ (Len(s) + i <= Len(s))
          /\ (Len(s) + i) - Len(s) = i
    BY <1>2
  <2> QED BY <1>1, <2>1
<1>5. \A i \in 1 .. Len(s) + Len(u) : i \in 1 .. Len(s) \/ i - Len(s) \in 1 .. Len(u)
  BY <1>2
<1>6. ASSUME NEW i \in 1 .. Len(s) + Len(u)
      PROVE  (\E k \in 1 .. Len(s) : r[i] = s[k]) \/ (\E k \in 1 .. Len(u) : r[i] = u[k])
  <2>1. CASE i <= Len(s)
    BY <1>1, <1>2, <2>1
  <2>2. CASE ~ (i <= Len(s))
    <3>1. i - Len(s) \in 1 .. Len(u)
      BY <1>2, <2>2
    <3> QED BY <1>1, <2>2, <3>1
  <2> QED BY <2>1, <2>2
<1> DEFINE R == {r[i] : i \in 1 .. Len(s) + Len(u)}
           A == {s[i] : i \in 1 .. Len(s)}
           B == {u[i] : i \in 1 .. Len(u)}
<1>7. A \subseteq R /\ B \subseteq R
  BY <1>3, <1>4
<1>8. R \subseteq A \cup B
  BY <1>6
<1>9. ToSet(r) = R /\ ToSet(s) = A /\ ToSet(u) = B
  BY <1>2 DEF ToSet
<1> HIDE DEF R, A, B
<1> QED BY <1>7, <1>8, <1>9 DEF r

\* An ascending sequence.
Climbs(s) == \A i, j \in 1 .. Len(s) : i < j => s[i] < s[j]

\* It orders its elements as their positions are.
LEMMA ClimbsOnce ==
    ASSUME NEW s \in Seq(Int), Climbs(s)
    PROVE  /\ \A i, j \in 1 .. Len(s) : i <= j => s[i] <= s[j]
           /\ \A i, j \in 1 .. Len(s) : s[i] <= s[j] => i <= j
<1>1. ASSUME NEW i \in 1 .. Len(s), NEW j \in 1 .. Len(s), i <= j PROVE s[i] <= s[j]
  <2>1. (i = j \/ i < j) /\ s[i] \in Int /\ s[j] \in Int
    BY <1>1, ElementOfSeq
  <2>2. i = j \/ s[i] < s[j]
    BY <2>1 DEF Climbs
  <2> QED BY <2>1, <2>2
<1>2. ASSUME NEW i \in 1 .. Len(s), NEW j \in 1 .. Len(s), s[i] <= s[j] PROVE i <= j
  <2>1. i \in Int /\ j \in Int /\ s[i] \in Int /\ s[j] \in Int
    BY ElementOfSeq
  <2>2. j < i => s[j] < s[i]
    BY DEF Climbs
  <2> QED BY <1>2, <2>1, <2>2
<1> QED BY <1>1, <1>2

\* The elements between two positions of an ascending sequence are an interval of it.
LEMMA MiddleRange ==
    ASSUME NEW s \in Seq(Int), Climbs(s), NEW m \in 1 .. Len(s), NEW k \in m .. Len(s),
           NEW S, \A i \in m .. k : s[i] \in S, \A x \in S : \E i \in m .. k : x = s[i]
    PROVE  S # {} /\ Min(S) = s[m] /\ Max(S) = s[k]
<1>1. Len(s) \in Nat /\ \A i \in m .. k : i \in 1 .. Len(s) /\ s[i] \in Int
  BY ElementOfSeq
<1>2. m \in m .. k /\ k \in m .. k
  OBVIOUS
<1>3. S \subseteq Int /\ s[m] \in S /\ s[k] \in S
  BY <1>1, <1>2
<1>4. ASSUME NEW y \in S PROVE s[m] <= y /\ y <= s[k]
  <2>1. PICK i \in m .. k : y = s[i]
    OBVIOUS
  <2>2. m <= i /\ i <= k
    OBVIOUS
  <2> QED BY <1>1, <1>2, <2>1, <2>2, ClimbsOnce
<1> QED BY <1>3, <1>4, MinMaxAre

\* The positions that are neither among the first n nor among the last ones.
LEMMA OutsidePositions ==
    ASSUME NEW c \in Nat, NEW n \in Nat, NEW target \in Nat, n < target,
           NEW l, l = IF n < c THEN n ELSE c
    PROVE  /\ n + 1 .. c - (target - n) \subseteq 1 .. c
           /\ \A i \in 1 .. c : i \in n + 1 .. c - (target - n)
                                <=> ~ (i <= n) /\ ~ (i > c - (target - l))
<1>1. CASE n < c
  BY <1>1
<1>2. CASE ~ (n < c)
  BY <1>2
<1> QED BY <1>1, <1>2

\* What AmortizedForgettingCondenser and LLMSummarizingCondenser may forget: what is
\* neither among the first n nor among the last ones, k of them.
LEMMA OutsideHeadAndTail ==
    ASSUME NEW s \in Seq(Int), Climbs(s), NEW n \in Nat, NEW target \in Nat, n < target,
           NEW f, f = FirstN(s, n), NEW u, u = LastN(s, target - Len(f))
    PROVE  ToSet(s) \ ToSet(f \o u) = {s[i] : i \in n + 1 .. Len(s) - (target - n)}
<1>1. /\ f \in Seq(Int) /\ Len(f) = IF n < Len(s) THEN n ELSE Len(s)
      /\ ToSet(f) = {s[i] : i \in {k \in 1 .. Len(s) : k <= n}}
  BY FirstNIs, ToSetFirst
<1>2. Len(s) \in Nat /\ DOMAIN s = 1 .. Len(s) /\ target - Len(f) \in Nat \ {0}
  BY <1>1
<1> DEFINE t == target - Len(f)
           J == {k \in 1 .. Len(s) : k > Len(s) - t}
           H == {k \in 1 .. Len(s) : k <= n}
           M == n + 1 .. Len(s) - (target - n)
<1>3. u \in Seq(Int) /\ ToSet(u) = {s[i] : i \in J}
  BY <1>2, ToSetLast
<1>4. ToSet(f \o u) = {s[i] : i \in H} \cup {s[i] : i \in J}
  <2>1. ToSet(f \o u) = ToSet(f) \cup ToSet(u)
    BY <1>1, <1>3, ToSetConcat
  <2> QED BY <1>1, <1>3, <2>1
<1>5. ToSet(s) = {s[i] : i \in 1 .. Len(s)}
  BY <1>2 DEF ToSet
<1>6. /\ M \subseteq 1 .. Len(s)
      /\ \A i \in 1 .. Len(s) : i \in M <=> i \notin H /\ i \notin J
  <2>1. /\ M \subseteq 1 .. Len(s)
        /\ \A i \in 1 .. Len(s) : i \in M <=> ~ (i <= n) /\ ~ (i > Len(s) - t)
    BY <1>1, <1>2, OutsidePositions
  <2> HIDE DEF M, t
  <2> QED BY <2>1
<1>7. \A i \in 1 .. Len(s), j \in 1 .. Len(s) : s[i] = s[j] => i = j
  <2>1. ASSUME NEW i \in 1 .. Len(s), NEW j \in 1 .. Len(s), s[i] = s[j] PROVE i = j
    <3>1. s[i] \in Int /\ s[i] <= s[j] /\ s[j] <= s[i]
      BY <2>1, ElementOfSeq
    <3> QED BY <3>1, ClimbsOnce
  <2> QED BY <2>1
<1>8. H \subseteq 1 .. Len(s) /\ J \subseteq 1 .. Len(s)
  OBVIOUS
<1> HIDE DEF t, J, H, M
<1>9. ASSUME NEW i \in M PROVE s[i] \notin {s[k] : k \in H} /\ s[i] \notin {s[k] : k \in J}
  BY <1>6, <1>7, <1>8
<1>10. ASSUME NEW i \in 1 .. Len(s), i \notin M
       PROVE  s[i] \in {s[k] : k \in H} \cup {s[k] : k \in J}
  BY <1>6, <1>10
<1>11. {s[i] : i \in 1 .. Len(s)} \ ({s[i] : i \in H} \cup {s[i] : i \in J}) = {s[i] : i \in M}
  BY <1>6, <1>9, <1>10
<1> QED BY <1>4, <1>5, <1>11 DEF M

\* The events at the end of a view that a condensation by size keeps.
TailLength == Target - KeepFirst - (IF kind = "summarizing" THEN 1 ELSE 0)

\* The ids in a view, and how many they are.
KeptIds == Ascending(KeptOf(history))
KeptCount == Cardinality(KeptOf(history))

\* The view without the summary.
LEMMA KeptIdsAre ==
    ASSUME CondInv
    PROVE  /\ KeptIds \in Seq(Int) /\ Len(KeptIds) = KeptCount /\ Climbs(KeptIds)
           /\ KeptCount \in Nat /\ -1 \notin ToSet(KeptIds)
           /\ ToSet(KeptIds) = KeptOf(history)
           /\ View = ViewOf(history)
           /\ ~ Summarized(history) => ViewOf(history) = KeptIds
           /\ Summarized(history) =>
                /\ ViewOf(history) = Insert(KeptIds, KeepFirst, -1)
                /\ kind = "summarizing" /\ KeepFirst <= KeptCount
<1> DEFINE K == KeptOf(history)
<1>1. CondInvOf(history, kind, KeptFirst) /\ KeptFirst \in Nat /\ KeepFirst \in Nat
  BY CondConstants DEF CondInv
<1>2. /\ Len(history) \in Nat /\ DOMAIN history = 1 .. Len(history)
      /\ Cardinality(Plains(history)) > KeptFirst => Cardinality(K) >= KeptFirst
  BY <1>1, CondBeginning
<1>3. K \in SUBSET Nat /\ IsFiniteSet(K) /\ Cardinality(K) \in Nat
  BY <1>2, PlainsFinite
<1>4. /\ Ascending(K) \in Seq(Int) /\ Len(Ascending(K)) = Cardinality(K)
      /\ Ascending(K) \in [1 .. Cardinality(K) -> K]
      /\ \A i \in K : Ascending(K)[Rank(K, i)] = i /\ Rank(K, i) \in 1 .. Cardinality(K)
      /\ \A i, j \in 1 .. Cardinality(K) : i < j => Ascending(K)[i] < Ascending(K)[j]
  BY <1>3, AscendingSeq, AscendingIs, RankOrder
<1>5. ToSet(Ascending(K)) = K
  <2> DEFINE a == Ascending(K)
  <2>1. DOMAIN a = 1 .. Cardinality(K) /\ \A i \in 1 .. Cardinality(K) : a[i] \in K
    BY <1>4
  <2>2. \A i \in K : \E k \in 1 .. Cardinality(K) : a[k] = i
    BY <1>4
  <2> HIDE DEF a
  <2> QED BY <2>1, <2>2 DEF ToSet, a
<1>6. View = ViewOf(history)
  BY <1>2, ViewIs
<1>7. Summarized(history) =>
        kind = "summarizing" /\ Cardinality(Plains(history)) > KeptFirst /\ KeptFirst = KeepFirst
  BY <1>1 DEF CondInvOf, KeptFirst
<1>8. -1 \notin K
  BY <1>3
<1>9. Climbs(Ascending(K))
  BY <1>4 DEF Climbs
<1>10. Summarized(history) => KeepFirst <= Cardinality(K)
  BY <1>1, <1>2, <1>3, <1>7
<1> QED
  BY <1>3, <1>4, <1>5, <1>6, <1>7, <1>8, <1>9, <1>10 DEF KeptIds, KeptCount, ViewOf

\* What a condensation by size forgets: the events between the first ones and the last.
LEMMA CutBySize ==
    ASSUME CondInv, kind # "window", GetCondensation # Raises
    PROVE  /\ TailLength \in Nat \ {0} /\ KeepFirst + TailLength < KeptCount
           /\ GetCondensation = Condensation(
                KeptIds[KeepFirst + 1] .. KeptIds[KeptCount - TailLength], kind = "summarizing")
<1> DEFINE n == KeepFirst
           c == KeptCount
           t == TailLength
           a == KeptIds
           Middle == {a[i] : i \in n + 1 .. c - t}
<1>1. /\ n \in Nat /\ Target \in Nat /\ n < Target
      /\ kind \in {"amortized", "summarizing"}
  BY CondConstants DEF CondInv
<1>2. /\ a \in Seq(Int) /\ Len(a) = c /\ Climbs(a) /\ c \in Nat /\ -1 \notin ToSet(a)
      /\ View = ViewOf(history)
      /\ ~ Summarized(history) => View = a
      /\ Summarized(history) => View = Insert(a, n, -1) /\ kind = "summarizing" /\ n <= c
  BY KeptIdsAre
<1>3. t \in Nat /\ (kind = "amortized" => t = Target - n /\ t # 0)
  BY <1>1 DEF TailLength
<1> DEFINE Goal == t # 0 /\ GetCondensation = ForgetRange(Middle, kind = "summarizing")
<1>4. ASSUME kind = "amortized" PROVE Goal
  <2> DEFINE f == FirstN(a, n)
             u == LastN(a, Target - Len(f))
  <2>1. View = a
    BY <1>2, <1>4
  <2>2. GetCondensation = ForgetRange(ToSet(a) \ ToSet(f \o u), FALSE)
    BY <1>4, <2>1 DEF GetCondensation, Amortized
  <2>3. ToSet(a) \ ToSet(f \o u) = {a[i] : i \in n + 1 .. Len(a) - (Target - n)}
    <3>1. f = FirstN(a, n) /\ u = LastN(a, Target - Len(f))
      OBVIOUS
    <3> HIDE DEF a, n, f, u
    <3> QED BY <1>1, <1>2, <3>1, OutsideHeadAndTail
  <2>4. ToSet(a) \ ToSet(f \o u) = Middle
    BY <1>2, <1>3, <1>4, <2>3
  <2> HIDE DEF a, n, f, u, t, c, Middle
  <2>5. (kind = "summarizing") = FALSE
    BY <1>4
  <2> QED BY <1>3, <1>4, <2>2, <2>4, <2>5
<1>5. ASSUME kind = "summarizing" PROVE Goal
  <2> DEFINE v == View
             f == FirstN(v, n)
             b == Between(v, n, Target - Len(f) - 1)
  <2>1. GetCondensation =
          IF Len(v) <= n THEN Raises
                         ELSE ForgetRange(ToSet(b) \ {-1}, TRUE)
    BY <1>5 DEF GetCondensation, Summarizing, Summary
  <2>2. /\ v \in Seq(Int) /\ Len(v) \in Nat
        /\ ~ Summarized(history) => v = a
        /\ Summarized(history) =>
             /\ Len(v) = c + 1 /\ v[n + 1] = -1
             /\ \A i \in n + 2 .. c + 1 : v[i] = a[i - 1]
    <3>1. CASE ~ Summarized(history)
      BY <1>2, <3>1
    <3>2. CASE Summarized(history)
      <4>1. v = Insert(a, n, -1) /\ n <= Len(a) /\ -1 \in Int
        BY <1>2, <3>2
      <4> HIDE DEF v, a, n, c
      <4>2. /\ Insert(a, n, -1) \in Seq(Int)
            /\ Len(Insert(a, n, -1)) = Len(a) + 1
            /\ Insert(a, n, -1)[n + 1] = -1
            /\ \A i \in n + 2 .. Len(a) + 1 : Insert(a, n, -1)[i] = a[i - 1]
        BY <1>1, <1>2, <4>1, InsertIs
      <4> QED BY <1>2, <3>2, <4>1, <4>2
    <3> QED BY <3>1, <3>2
  <2> HIDE DEF v
  <2>3. ~ (Len(v) <= n) /\ GetCondensation = ForgetRange(ToSet(b) \ {-1}, TRUE)
    BY <2>1
  <2>4. Len(f) = n
    <3>1. Len(f) = IF n < Len(v) THEN n ELSE Len(v)
      <4> HIDE DEF n
      <4> QED BY <1>1, <2>2, FirstNIs
    <3> QED BY <1>1, <2>2, <2>3, <3>1
  <2>5. Target - Len(f) - 1 = t
    BY <1>1, <1>5, <2>4 DEF TailLength
  <2>6. t # 0
    <3> SUFFICES ASSUME t = 0 PROVE FALSE
      OBVIOUS
    <3>1. b = <<>>
      BY <2>5 DEF Between
    <3>2. ToSet(b) \ {-1} = {}
      BY <3>1 DEF ToSet
    <3>3. GetCondensation = Raises
      BY <2>3, <3>2 DEF ForgetRange
    <3> QED BY <3>3
  <2>7. ToSet(b) = {v[i] : i \in n + 1 .. Len(v) - t}
    <3>1. b = Between(v, n, t)
      BY <2>5
    <3> HIDE DEF b, n, t
    <3> QED BY <1>1, <1>3, <2>2, <2>6, <3>1, BetweenIs
  <2> HIDE DEF a, n, f, t, c, b
  <2>8. \A i \in n + 1 .. c - t : i \in 1 .. c /\ i \in 1 .. Len(a) /\ a[i] # -1
    <3>1. \A i \in n + 1 .. c - t : i \in 1 .. c
      BY <1>1, <1>2, <1>3
    <3>2. \A i \in 1 .. Len(a) : a[i] \in ToSet(a)
      BY <1>2, LenProperties DEF ToSet
    <3> QED BY <1>2, <3>1, <3>2
  <2>9. ToSet(b) \ {-1} = Middle
    <3>1. CASE ~ Summarized(history)
      <4>1. v = a /\ Len(v) = c
        BY <1>2, <2>2, <3>1
      <4> QED BY <2>7, <2>8, <4>1
    <3>2. CASE Summarized(history)
      <4>1. ASSUME NEW i \in n + 1 .. Len(v) - t, v[i] # -1 PROVE v[i] \in Middle
        <5>1. i \in n + 2 .. c + 1 /\ i - 1 \in n + 1 .. c - t
          BY <1>1, <1>2, <1>3, <2>2, <3>2, <4>1
        <5> QED BY <2>2, <3>2, <5>1
      <4>2. ASSUME NEW i \in n + 1 .. c - t
            PROVE  a[i] # -1 /\ \E k \in n + 1 .. Len(v) - t : v[k] = a[i]
        <5>1. /\ i + 1 \in n + 1 .. Len(v) - t /\ i + 1 \in n + 2 .. c + 1
              /\ (i + 1) - 1 = i
          BY <1>1, <1>2, <1>3, <2>2, <3>2
        <5>2. v[i + 1] = a[i]
          BY <2>2, <3>2, <5>1
        <5> QED BY <2>8, <5>1, <5>2
      <4> QED BY <2>7, <4>1, <4>2
    <3> QED BY <3>1, <3>2
  <2>10. (kind = "summarizing") = TRUE
    BY <1>5
  <2> HIDE DEF Middle
  <2> QED BY <2>3, <2>6, <2>9, <2>10
<1>6. Goal
  BY <1>1, <1>4, <1>5
<1>7. Middle # {} /\ t # 0 /\ GetCondensation =
        Condensation(Min(Middle) .. Max(Middle), kind = "summarizing")
  <2> HIDE DEF Middle
  <2> QED BY <1>6 DEF ForgetRange
<1> HIDE DEF a, n, t, c
<1>8. n + 1 \in 1 .. Len(a) /\ c - t \in n + 1 .. Len(a) /\ n + t < c
  <2>1. PICK i \in n + 1 .. c - t : TRUE
    BY <1>7
  <2> QED BY <1>1, <1>2, <1>3, <1>7, <2>1
<1>9. Min(Middle) = a[n + 1] /\ Max(Middle) = a[c - t]
  <2> HIDE DEF Middle
  <2>1. /\ \A i \in n + 1 .. c - t : a[i] \in Middle
        /\ \A x \in Middle : \E i \in n + 1 .. c - t : x = a[i]
    BY DEF Middle
  <2> DEFINE m == n + 1
             k == c - t
  <2>2. /\ m \in 1 .. Len(a) /\ k \in m .. Len(a)
        /\ \A i \in m .. k : a[i] \in Middle
        /\ \A x \in Middle : \E i \in m .. k : x = a[i]
    BY <1>8, <2>1
  <2> HIDE DEF m, k
  <2>3. a \in Seq(Int) /\ Climbs(a)
    BY <1>2
  <2>4. Min(Middle) = a[m]
    BY <2>2, <2>3, MiddleRange
  <2>5. Max(Middle) = a[k]
    BY <2>2, <2>3, MiddleRange
  <2> QED BY <2>4, <2>5 DEF m, k
<1> QED
  BY <1>3, <1>7, <1>8, <1>9 DEF a, n, t, c

\* What the window forgets: not the first user message, which is the first event.
LEMMA CutByWindow ==
    ASSUME CondInv, kind = "window"
    PROVE  \E F \in SUBSET KeptOf(history) :
              1 \notin F /\ GetCondensation = Condensation(F, FALSE)
<1> DEFINE v == View
           I == {i \in 1 .. Len(v) : history[v[i]].k = "user"}
           n == Len(v)
           first == IF I = {} THEN 0 ELSE Min(I)
           recent == LET half == (n - 1) \div 2 IN IF half > 1 THEN half ELSE 1
           slice == SubSeq(v, n - recent + 1, n)
           S == {i \in 1 .. Len(slice) : history[slice[i]].k # "obs"}
           start == IF S = {} THEN 0 ELSE Min(S)
           kept == IF start = 0 THEN <<>> ELSE SubSeq(slice, start, Len(slice))
<1>1. GetCondensation =
        IF n = 0 \/ first = 0
          THEN Condensation({}, FALSE)
          ELSE Condensation(ToSet(v) \ (ToSet(kept) \cup {v[first]}), FALSE)
  BY DEF GetCondensation, Window, SelectInSeq
<1>2. /\ v = KeptIds /\ KeptIds \in Seq(Int) /\ Len(KeptIds) = KeptCount /\ KeptCount \in Nat
      /\ ToSet(v) = KeptOf(history)
  BY KeptIdsAre
<1> DEFINE u == ToSet(kept)
<1> HIDE DEF kept
<1>3. history[1].k = "user" /\ Len(history) \in Nat \ {0} /\ 1 \in KeptOf(history)
  <2>1. CondInvOf(history, kind, 1) /\ 1 \in Nat
    BY DEF CondInv, KeptFirst
  <2>2. /\ Len(history) \in Nat /\ Len(history) # 0 /\ history[1].k = "user"
        /\ \A j \in Plains(history) : Rank(Plains(history), j) <= 1 => j \in KeptOf(history)
    BY <2>1, CondBeginning DEF CondInvOf
  <2>3. 1 \in Plains(history)
    BY <2>2 DEF Plains
  <2>4. {j \in Plains(history) : j <= 1} = {1}
    BY <2>2, <2>3 DEF Plains
  <2>5. Rank(Plains(history), 1) <= 1
    BY <2>4, FS_Singleton DEF Rank
  <2> QED BY <2>2, <2>3, <2>5
<1>4. KeptCount \in Nat \ {0} /\ KeptIds[1] = 1
  <2> DEFINE K == KeptOf(history)
  <2>1. K \in SUBSET Nat /\ IsFiniteSet(K) /\ \A i \in K : i >= 1
    <3>1. \A i \in K : i \in 1 .. Len(history)
      BY DEF KeptOf, Plains
    <3>2. K \in SUBSET Plains(history) /\ Plains(history) \in SUBSET Nat /\ IsFiniteSet(K)
      BY <1>3, PlainsFinite
    <3> QED BY <1>3, <3>1, <3>2
  <2>2. {j \in K : j <= 1} = {1}
    <3>1. \A j \in K : j <= 1 => j = 1
      BY <2>1
    <3> QED BY <1>3, <3>1
  <2>3. Rank(K, 1) = 1
    BY <2>2, FS_Singleton DEF Rank
  <2> HIDE DEF K
  <2>4. 1 \in K
    BY <1>3 DEF K
  <2>5. Ascending(K)[1] = 1 /\ 1 \in 1 .. Cardinality(K)
    BY <2>1, <2>3, <2>4, AscendingIs, RankOrder
  <2> QED BY <1>2, <2>5 DEF K, KeptIds, KeptCount
<1>5. n \in Nat \ {0} /\ v[1] = 1
  BY <1>2, <1>4
<1>6. first = 1 /\ v[first] = 1
  <2> HIDE DEF v
  <2>1. I \in SUBSET Int /\ 1 \in I /\ \A y \in I : 1 <= y
    BY <1>3, <1>5
  <2> HIDE DEF I
  <2>2. Min(I) = 1
    BY <2>1, MinMaxAre
  <2> QED BY <1>5, <2>1, <2>2
<1> HIDE DEF first, v, n, u
<1>7. GetCondensation = Condensation(KeptOf(history) \ (u \cup {1}), FALSE)
  <2>1. ~ (n = 0 \/ first = 0)
    BY <1>5, <1>6
  <2>2. ToSet(v) \ (ToSet(kept) \cup {v[first]}) = KeptOf(history) \ (u \cup {1})
    BY <1>2, <1>6 DEF u
  <2> QED BY <1>1, <2>1, <2>2
<1> DEFINE F == KeptOf(history) \ (u \cup {1})
<1>8. F \in SUBSET KeptOf(history) /\ 1 \notin F
  OBVIOUS
<1> HIDE DEF F
<1> QED BY <1>7, <1>8 DEF F

\* A further event of the history.
LEMMA CondAppend ==
    ASSUME NEW h, NEW kd, NEW n \in Nat, CondInvOf(h, kd, n), NEW e \in CondEvents(Len(h)),
           \A j \in Plains(h) : Rank(Plains(h), j) <= n => j \notin e.forgotten,
           e.summary => kd = "summarizing" /\ Cardinality(Plains(h)) > n
    PROVE  CondInvOf(Append(h, e), kd, n)
<1> DEFINE g == Append(h, e)
           c == Len(h)
<1>1. /\ c \in Nat \ {0} /\ h \in Seq(CondEvents(c)) /\ h[1].k = "user"
      /\ \A i \in 1 .. c : h[i] \in CondEvents(c) /\ h[i].forgotten \subseteq 1 .. i - 1
      /\ \A i \in 1 .. c, j \in Plains(h) : Rank(Plains(h), j) <= n => j \notin h[i].forgotten
      /\ Summarized(h) => kd = "summarizing" /\ Cardinality(Plains(h)) > n
  BY CondBeginning DEF CondInvOf
<1>2. /\ Len(g) = c + 1 /\ g[c + 1] = e /\ \A i \in 1 .. c : g[i] = h[i]
      /\ g \in Seq(CondEvents(c))
  <2> HIDE DEF c
  <2>1. e \in CondEvents(c)
    BY DEF c
  <2> DEFINE E == CondEvents(c)
  <2> HIDE DEF E
  <2>2. h \in Seq(E) /\ e \in E /\ Len(h) = c
    BY <1>1, <2>1 DEF E, c
  <2>3. Append(h, e) \in Seq(E)
    BY <2>2, AppendProperties
  <2>4. /\ Len(Append(h, e)) = c + 1 /\ Append(h, e)[c + 1] = e
        /\ \A i \in 1 .. c : Append(h, e)[i] = h[i]
    BY <2>2, AppendProperties
  <2> QED BY <2>3, <2>4 DEF E
<1>3. \A i \in 1 .. c + 1 : i \in 1 .. c \/ i = c + 1
  BY <1>1
<1> HIDE DEF g, c
<1>4. e \in CondEvents(c) /\ e.forgotten \subseteq 1 .. c
  BY DEF c, CondEvents
<1>5. CondEvents(c) \subseteq CondEvents(c + 1)
  <2>1. 1 .. c \subseteq 1 .. c + 1
    BY <1>1
  <2> QED BY <2>1 DEF CondEvents
<1>6. g \in Seq(CondEvents(Len(g)))
  <2> DEFINE E == CondEvents(c)
             G == CondEvents(c + 1)
  <2>1. g \in Seq(E) /\ E \subseteq G
    BY <1>2, <1>5
  <2> HIDE DEF E, G
  <2>2. g \in Seq(G)
    BY <2>1, SeqMonotonic
  <2> QED BY <1>2, <2>2 DEF G
<1>7. g[1].k = "user" /\ Len(g) # 0
  <2>1. 1 \in 1 .. c
    BY <1>1
  <2> QED BY <1>1, <1>2, <2>1
<1>8. \A i \in 1 .. Len(g) : g[i].forgotten \subseteq 1 .. i - 1
  <2>1. (c + 1) - 1 = c
    BY <1>1
  <2> QED BY <1>1, <1>2, <1>3, <1>4, <2>1
<1>9. Plains(h) \subseteq Plains(g) /\ Plains(g) \subseteq Plains(h) \cup {c + 1}
  <2>1. \A i \in 1 .. c : i \in 1 .. c + 1
    BY <1>1
  <2> QED BY <1>2, <1>3, <2>1 DEF Plains, c
<1>10. ASSUME NEW j \in Plains(h) PROVE Rank(Plains(g), j) = Rank(Plains(h), j)
  <2>1. j \in 1 .. c /\ ~ (c + 1 <= j)
    BY <1>1 DEF Plains, c
  <2>2. {m \in Plains(g) : m <= j} = {m \in Plains(h) : m <= j}
    BY <1>9, <2>1
  <2> QED BY <2>2 DEF Rank
<1>11. ASSUME NEW i \in 1 .. Len(g), NEW j \in Plains(g), Rank(Plains(g), j) <= n
       PROVE  j \notin g[i].forgotten
  <2>1. CASE j \in Plains(h)
    <3>1. Rank(Plains(h), j) <= n
      BY <1>10, <1>11, <2>1
    <3> QED BY <1>1, <1>2, <1>3, <2>1, <3>1
  <2>2. CASE j = c + 1
    <3>1. i \in 1 .. c + 1 /\ g[i].forgotten \subseteq 1 .. i - 1
      BY <1>2, <1>8
    <3>2. j \notin 1 .. i - 1
      BY <1>1, <2>2, <3>1
    <3> QED BY <3>1, <3>2
  <2> QED BY <1>9, <2>1, <2>2
<1>12. Cardinality(Plains(h)) <= Cardinality(Plains(g))
  <2>1. Len(g) \in Nat
    BY <1>1, <1>2
  <2>2. IsFiniteSet(Plains(g))
    BY <2>1, PlainsFinite
  <2> QED BY <1>9, <2>2, FS_Subset
<1>13. Summarized(g) => kd = "summarizing" /\ Cardinality(Plains(g)) > n
  <2>1. Summarized(g) => Summarized(h) \/ e.summary
    BY <1>2, <1>3 DEF Summarized, c
  <2>2. Cardinality(Plains(h)) \in Nat /\ Cardinality(Plains(g)) \in Nat
    BY <1>1, <1>2, PlainsFinite DEF c
  <2>3. Cardinality(Plains(h)) > n => Cardinality(Plains(g)) > n
    BY <1>12, <2>2
  <2> QED BY <1>1, <2>1, <2>3
<1> QED BY <1>6, <1>7, <1>8, <1>11, <1>13 DEF CondInvOf, g

\* What a condensation forgets is none of the first events.
LEMMA CondForgets ==
    ASSUME CondInv, GetCondensation # Raises, NEW e, e = GetCondensation
    PROVE  /\ e \in CondEvents(Len(history))
           /\ \A j \in Plains(history) :
                Rank(Plains(history), j) <= KeptFirst => j \notin e.forgotten
           /\ e.summary => kind = "summarizing" /\ Cardinality(Plains(history)) > KeptFirst
<1> DEFINE h == history
           P == Plains(history)
           K == KeptOf(history)
<1>1. CondInvOf(h, kind, KeptFirst) /\ KeptFirst \in Nat
  BY CondConstants DEF CondInv
<1>2. /\ Cardinality(P) \in Nat /\ Len(h) \in Nat
      /\ Cardinality(K) <= Cardinality(P)
      /\ \A j \in P : Rank(P, j) <= KeptFirst => j \in K /\ Rank(K, j) = Rank(P, j)
  BY <1>1, CondBeginning
<1>3. /\ K \in SUBSET P /\ P \in SUBSET (1 .. Len(h)) /\ K \in SUBSET Nat
      /\ IsFiniteSet(K) /\ IsFiniteSet(P) /\ P \in SUBSET Nat
  <2>1. P \in SUBSET (1 .. Len(h))
    BY DEF Plains
  <2>2. K \in SUBSET P /\ P \in SUBSET Nat /\ IsFiniteSet(K) /\ IsFiniteSet(P)
    BY <1>2, PlainsFinite
  <2> QED BY <2>1, <2>2
<1> HIDE DEF P, K
<1>4. CASE kind = "window"
  <2>1. PICK F \in SUBSET K : 1 \notin F /\ e = Condensation(F, FALSE)
    BY <1>4, CutByWindow DEF K
  <2>2. e.k = "condensation" /\ e.forgotten = F /\ e.summary = FALSE
        /\ e = [k |-> "condensation", forgotten |-> F, summary |-> FALSE]
    BY <2>1 DEF Condensation
  <2>3. e \in CondEvents(Len(h))
    BY <1>3, <2>2 DEF CondEvents
  <2>4. 1 \in P
    BY <1>1, <1>2 DEF CondInvOf, Plains, P
  <2>5. ASSUME NEW j \in P, Rank(P, j) <= 1 PROVE j = 1
    <3>1. 1 <= j /\ j \in Nat
      BY <1>2, <1>3
    <3>2. Rank(P, 1) \in Nat /\ Rank(P, 1) >= 1 /\ Rank(P, j) \in Nat
      BY <1>2, <1>3, <2>4, RankOrder
    <3>3. 1 < j => Rank(P, 1) < Rank(P, j)
      BY <1>3, <2>4, RankOrder
    <3> QED BY <2>5, <3>1, <3>2, <3>3
  <2>6. KeptFirst = 1
    BY <1>4 DEF KeptFirst
  <2> QED BY <2>1, <2>2, <2>3, <2>5, <2>6 DEF P
<1>5. CASE kind # "window"
  <2> DEFINE n == KeepFirst
             m == KeptIds[n + 1]
             k == KeptIds[KeptCount - TailLength]
  <2>1. /\ TailLength \in Nat /\ n + TailLength < KeptCount
        /\ e = Condensation(m .. k, kind = "summarizing")
    BY <1>5, CutBySize
  <2>2. n \in Nat /\ KeptFirst = n /\ KeptCount \in Nat /\ KeptCount = Cardinality(K)
    BY <1>3, <1>5, FS_CardinalityType, CondConstants DEF KeptFirst, KeptCount, K
  <2>3. n + 1 \in 1 .. Cardinality(K) /\ KeptCount - TailLength \in 1 .. Cardinality(K)
    BY <2>1, <2>2
  <2>4. /\ m \in K /\ k \in K /\ Rank(K, m) = n + 1
        /\ \A i \in K : i < m \/ ~ (Rank(K, i) < n + 1)
    <3>1. /\ KeptIds \in [1 .. Cardinality(K) -> K]
          /\ \A i \in 1 .. Cardinality(K) : Rank(K, KeptIds[i]) = i
      BY <1>3, AscendingIs DEF KeptIds, K
    <3>2. m \in K /\ k \in K /\ Rank(K, m) = n + 1
      BY <2>3, <3>1
    <3> HIDE DEF m
    <3>3. ASSUME NEW i \in K, Rank(K, i) < n + 1 PROVE i < m
      <4>1. i \in Nat /\ m \in Nat /\ Rank(K, i) \in Nat
        BY <1>3, <3>2, RankOrder
      <4>2. m < i => Rank(K, m) < Rank(K, i)
        BY <1>3, <3>2, RankOrder
      <4>3. m # i
        BY <2>2, <3>2, <3>3, <4>1
      <4> QED BY <2>2, <3>2, <3>3, <4>1, <4>2, <4>3
    <3> QED BY <3>2, <3>3
  <2> HIDE DEF m, k, n
  <2>5. /\ e.k = "condensation" /\ e.forgotten = m .. k
        /\ e.summary = (kind = "summarizing")
        /\ e = [k |-> "condensation", forgotten |-> m .. k, summary |-> (kind = "summarizing")]
    BY <2>1 DEF Condensation
  <2>6. m .. k \subseteq 1 .. Len(h)
    <3>1. m \in 1 .. Len(h) /\ k \in 1 .. Len(h)
      BY <1>3, <2>4
    <3> QED BY <1>2, <3>1
  <2>7. e \in CondEvents(Len(h))
    <3>1. (kind = "summarizing") \in BOOLEAN
      OBVIOUS
    <3> QED BY <2>5, <2>6, <3>1 DEF CondEvents
  <2>8. ASSUME NEW j \in P, Rank(P, j) <= KeptFirst PROVE j \notin m .. k
    <3>1. j \in K /\ Rank(K, j) = Rank(P, j) /\ j \in Nat /\ m \in Nat
      BY <1>2, <1>3, <2>4, <2>8
    <3>2. Rank(K, j) \in Nat
      BY <1>3, <3>1, RankOrder
    <3>3. j < m
      BY <2>2, <2>4, <2>8, <3>1, <3>2
    <3> QED BY <3>1, <3>3
  <2>9. Cardinality(P) > KeptFirst
    BY <1>2, <2>1, <2>2
  <2> QED BY <2>5, <2>7, <2>8, <2>9 DEF P
<1> QED BY <1>4, <1>5

\* The rolling condensers begin with the invariant.
LEMMA CondInvInit == Constructed /\ Init => CondInv
<1> SUFFICES ASSUME Constructed, Init PROVE CondInv
  OBVIOUS
<1> DEFINE p == [k |-> "user", forgotten |-> {}, summary |-> FALSE]
           h == <<p>>
<1>1. history = h /\ kind \in {"amortized", "summarizing", "window"}
  BY DEF Init, Plain, Kinds
<1>2. p.k = "user" /\ p.forgotten = {} /\ p.summary = FALSE
  OBVIOUS
<1>3. p \in CondEvents(1)
  BY DEF CondEvents
<1> HIDE DEF p
<1>4. Len(h) = 1 /\ h[1] = p
  OBVIOUS
<1>5. h \in Seq(CondEvents(1))
  <2> DEFINE E == CondEvents(1)
  <2>1. p \in E
    BY <1>3
  <2> HIDE DEF E
  <2>2. h \in Seq(E)
    BY <2>1
  <2> QED BY <2>2 DEF E
<1> HIDE DEF h
<1>6. \A i \in 1 .. Len(h) : i = 1
  BY <1>4
<1>7. \A i \in 1 .. Len(h) : h[i].forgotten = {} /\ h[i].summary = FALSE
  BY <1>2, <1>4, <1>6
<1>8. CondInvOf(h, kind, KeptFirst)
  BY <1>2, <1>4, <1>5, <1>7 DEF CondInvOf, Summarized
<1> QED BY <1>1, <1>8 DEF CondInv

\* The history with one or two further events.
LEMMA CondAdd ==
    ASSUME NEW h, NEW E, h \in Seq(E), NEW a, NEW b
    PROVE  h \o <<a>> = Append(h, a) /\ h \o <<a, b>> = Append(Append(h, a), b)
  OBVIOUS

\* Every step preserves the invariant.
LEMMA CondInvNext == CondInv /\ [Next]_vars => CondInv'
<1> SUFFICES ASSUME CondInv, [Next]_vars PROVE CondInv'
  OBVIOUS
<1> DEFINE h == history
           n == KeptFirst
           E == CondEvents(Len(h))
           G == CondEvents(Len(h) + 1)
<1>1. /\ kind \in {"amortized", "summarizing", "window"}
      /\ CondInvOf(h, kind, n) /\ n \in Nat /\ Len(h) \in Nat /\ h \in Seq(E)
  BY CondConstants, CondBeginning DEF CondInv, CondInvOf
<1>2. kind' = kind
  BY DEF Next, Condense, Act, UserMessage, vars
<1>3. KeptFirst' = n
  BY <1>2 DEF KeptFirst
<1>4. ASSUME NEW e \in E, history' = h \o <<e>>,
             \A j \in Plains(h) : Rank(Plains(h), j) <= n => j \notin e.forgotten,
             e.summary => kind = "summarizing" /\ Cardinality(Plains(h)) > n
      PROVE  CondInvOf(history', kind, n)
  <2>1. CondInvOf(Append(h, e), kind, n)
    <3> HIDE DEF h, n
    <3> QED BY <1>1, <1>4, CondAppend
  <2> QED BY <1>1, <1>4, <2>1, CondAdd
<1>5. \A k \in {"user", "act", "obs", "request"} :
        /\ Plain(k) \in E /\ Plain(k) \in G
        /\ Plain(k).forgotten = {} /\ Plain(k).summary = FALSE
  BY DEF Plain, CondEvents
<1>6. ASSUME NEW k \in {"user", "act", "obs", "request"}
      PROVE  CondInvOf(Append(h, Plain(k)), kind, n)
  <2> DEFINE e == Plain(k)
  <2>1. e \in E /\ e.forgotten = {} /\ e.summary = FALSE
    BY <1>5
  <2> HIDE DEF e, h, n
  <2> QED BY <1>1, <2>1, CondAppend DEF e
<1>7. CondInvOf(Append(Append(h, Plain("act")), Plain("obs")), kind, n)
  <2> DEFINE e == Plain("obs")
             g == Append(h, Plain("act"))
  <2>1. CondInvOf(g, kind, n) /\ Len(g) = Len(h) + 1
    BY <1>1, <1>6
  <2>2. e \in CondEvents(Len(g)) /\ e.forgotten = {} /\ e.summary = FALSE
    BY <1>5, <2>1
  <2> HIDE DEF e, g, n
  <2> QED BY <1>1, <2>1, <2>2, CondAppend DEF e, g
<1>8. CondInvOf(history', kind, n)
  <2>1. CASE Condense
    <3>1. CASE history' = history
      BY <1>1, <3>1
    <3>2. CASE history' # history
      <4>1. GetCondensation # Raises /\ history' = h \o <<GetCondensation>>
        BY <2>1, <3>2 DEF Condense, Add
      <4> DEFINE e == GetCondensation
      <4>2. e = GetCondensation
        OBVIOUS
      <4> HIDE DEF e
      <4>3. /\ e \in E
            /\ \A j \in Plains(h) : Rank(Plains(h), j) <= n => j \notin e.forgotten
            /\ e.summary => kind = "summarizing" /\ Cardinality(Plains(h)) > n
        BY <4>1, <4>2, CondForgets
      <4> QED BY <1>4, <4>1, <4>2, <4>3
    <3> QED BY <3>1, <3>2
  <2>2. CASE Act
    <3>1. \/ history' = h \o <<Plain("act"), Plain("obs")>>
          \/ history' = h \o <<Plain("request")>>
      BY <2>2 DEF Act, Add
    <3>2. \/ history' = Append(Append(h, Plain("act")), Plain("obs"))
          \/ history' = Append(h, Plain("request"))
      BY <1>1, <3>1, CondAdd
    <3> QED BY <1>6, <1>7, <3>2
  <2>3. CASE UserMessage
    <3>1. history' = h \o <<Plain("user")>>
      BY <2>3 DEF UserMessage, Add
    <3>2. history' = Append(h, Plain("user"))
      BY <1>1, <3>1, CondAdd
    <3> QED BY <1>6, <3>2
  <2>4. CASE UNCHANGED vars
    BY <1>1, <2>4 DEF vars
  <2> QED BY <2>1, <2>2, <2>3, <2>4 DEF Next
<1> QED BY <1>1, <1>2, <1>3, <1>8 DEF CondInv

\* However often the history was condensed, and for whatever reason, every view
\* begins with the first events.
THEOREM ViewsBeginWithHead == Constructed /\ Spec => []HeadKept
<1>1. Constructed /\ Init => CondInv
  BY CondInvInit
<1>2. CondInv /\ [Next]_vars => CondInv'
  BY CondInvNext
<1>3. CondInv => HeadKept
  BY HeadIsKept
<1> QED BY <1>1, <1>2, <1>3, PTL DEF Spec

\* The end of a list is the same with something put in before it.
LEMMA TailOfInsert ==
    ASSUME NEW s \in Seq(Int), NEW n \in Nat, NEW t \in Nat \ {0}, n + t <= Len(s)
    PROVE  /\ LastN(Insert(s, n, -1), t) = LastN(s, t)
           /\ Len(Insert(s, n, -1)) = Len(s) + 1
<1> DEFINE v == Insert(s, n, -1)
           x == -1
<1>1. Len(s) \in Nat /\ n <= Len(s) /\ t <= Len(s) /\ t # 0 /\ x \in Int
  OBVIOUS
<1>2. /\ v \in Seq(Int) /\ Len(v) = Len(s) + 1
      /\ \A i \in n + 2 .. Len(s) + 1 : v[i] = s[i - 1]
  <2>1. v = Insert(s, n, x)
    OBVIOUS
  <2> HIDE DEF v, x
  <2> QED BY <1>1, <2>1, InsertIs
<1> HIDE DEF v
<1> DEFINE p == LastN(v, t)
           u == LastN(s, t)
<1>3. p \in Seq(Int) /\ Len(p) = t /\ \A i \in 1 .. t : p[i] = v[Len(v) - t + i]
  <2>1. t <= Len(v)
    BY <1>1, <1>2
  <2> QED BY <1>1, <1>2, <2>1, LastNIs
<1>4. u \in Seq(Int) /\ Len(u) = t /\ \A i \in 1 .. t : u[i] = s[Len(s) - t + i]
  BY <1>1, LastNIs
<1>5. \A i \in 1 .. t :
        Len(v) - t + i \in n + 2 .. Len(s) + 1 /\ (Len(v) - t + i) - 1 = Len(s) - t + i
  BY <1>1, <1>2
<1> HIDE DEF p, u
<1>6. ASSUME NEW i \in 1 .. t PROVE p[i] = u[i]
  <2> DEFINE j == Len(v) - t + i
  <2>1. j \in n + 2 .. Len(s) + 1 /\ j - 1 = Len(s) - t + i
    BY <1>5
  <2>2. p[i] = v[j] /\ u[i] = s[Len(s) - t + i]
    BY <1>3, <1>4
  <2> HIDE DEF j
  <2>3. v[j] = s[j - 1]
    BY <1>2, <2>1
  <2> QED BY <2>1, <2>2, <2>3
<1>7. p = u
  BY <1>3, <1>4, <1>6, SeqEqual
<1> QED BY <1>2, <1>7 DEF p, u, v

\* What is left of an ascending sequence without an interval of it.
LEMMA WithoutMiddle ==
    ASSUME NEW S \in SUBSET Nat, IsFiniteSet(S), NEW n \in Nat, NEW t \in Nat \ {0},
           NEW c, c = Cardinality(S), n + t < c,
           NEW a, a = Ascending(S),
           NEW T, \A x \in T : x \in S /\ x \notin a[n + 1] .. a[c - t],
           \A x \in S : x \in T \/ x \in a[n + 1] .. a[c - t]
    PROVE  /\ Len(Ascending(T)) = n + t /\ Ascending(T) \in Seq(Int)
           /\ LastN(Ascending(T), t) = LastN(a, t)
<1>1. /\ c \in Nat /\ a \in [1 .. c -> S] /\ a \in Seq(Int) /\ Len(a) = c /\ Climbs(a)
      /\ \A x \in S : a[Rank(S, x)] = x /\ Rank(S, x) \in 1 .. c
  BY AscendingIs, AscendingSeq, RankOrder DEF Climbs
<1> DEFINE m == n + 1
           k == c - t
           From(i) == IF i <= n THEN i ELSE k + (i - n)
           s == [i \in 1 .. n + t |-> a[From(i)]]
<1>2. /\ m \in 1 .. c /\ k \in 1 .. c /\ m <= k /\ n + t \in Nat
      /\ \A i \in 1 .. n + t : From(i) \in 1 .. c /\ (From(i) < m \/ k < From(i))
      /\ \A i, j \in 1 .. n + t : i < j => From(i) < From(j)
  <2>1. /\ m \in 1 .. c /\ k \in 1 .. c /\ m <= k /\ n + t \in Nat
        /\ k \in Nat /\ k + t = c /\ n < k
    BY <1>1
  <2>2. \A i \in 1 .. n + t : i <= n => From(i) = i
    OBVIOUS
  <2>3. \A i \in 1 .. n + t : ~ (i <= n) => From(i) = k + (i - n)
    OBVIOUS
  <2> HIDE DEF From, k
  <2>4. ASSUME NEW i \in 1 .. n + t PROVE From(i) \in 1 .. c /\ (From(i) < m \/ k < From(i))
    BY <2>1, <2>2, <2>3
  <2>5. ASSUME NEW i \in 1 .. n + t, NEW j \in 1 .. n + t, i < j PROVE From(i) < From(j)
    BY <2>1, <2>2, <2>3, <2>5
  <2> QED BY <2>1, <2>4, <2>5
<1>3. \A i \in 1 .. c : i < m \/ k < i => \E j \in 1 .. n + t : From(j) = i
  <2>1. ASSUME NEW i \in 1 .. c, i < m PROVE i \in 1 .. n + t /\ From(i) = i
    BY <1>1, <2>1
  <2>2. ASSUME NEW i \in 1 .. c, k < i PROVE i - k + n \in 1 .. n + t /\ From(i - k + n) = i
    <3>1. k \in Nat /\ k + t = c /\ n < k /\ i \in Nat
      BY <1>1
    <3> DEFINE j == i - k + n
    <3> HIDE DEF k
    <3>2. j \in 1 .. n + t /\ ~ (j <= n) /\ k + (j - n) = i
      BY <2>2, <3>1
    <3> HIDE DEF j
    <3>3. From(j) = i
      BY <3>2
    <3> QED BY <3>2, <3>3 DEF j
  <2> HIDE DEF From
  <2> QED BY <2>1, <2>2
<1>4. /\ s \in Seq(S) /\ Len(s) = n + t /\ \A i \in 1 .. n + t : s[i] = a[From(i)]
      /\ \A i \in 1 .. n + t : i \in DOMAIN s
  <2> HIDE DEF From
  <2> QED BY <1>1, <1>2
<1>5. \A i \in 1 .. t : n + i \in 1 .. n + t /\ From(n + i) = c - t + i
  BY <1>1
<1>6. \A i \in 1 .. c : a[i] \in S /\ a[i] \in Nat
  <2>1. \A x \in S : x \in Nat
    OBVIOUS
  <2> QED BY <1>1, <2>1
<1> HIDE DEF From, m, k
<1>7. \A i \in 1 .. c : a[i] \in a[m] .. a[k] <=> m <= i /\ i <= k
  <2>1. /\ \A i \in 1 .. c, j \in 1 .. c : i <= j => a[i] <= a[j]
        /\ \A i \in 1 .. c, j \in 1 .. c : a[i] <= a[j] => i <= j
    BY <1>1, ClimbsOnce
  <2> QED BY <1>2, <1>6, <2>1
<1>8. \A x \in T : x \in S /\ x \notin a[m] .. a[k]
  BY DEF m, k
<1>9. \A x \in S : x \in T \/ x \in a[m] .. a[k]
  BY DEF m, k
<1>10. ASSUME NEW i \in 1 .. n + t PROVE s[i] \in T
  <2>1. s[i] = a[From(i)] /\ From(i) \in 1 .. c /\ (From(i) < m \/ k < From(i))
    BY <1>2, <1>4
  <2>2. ~ (m <= From(i) /\ From(i) <= k)
    BY <1>2, <2>1
  <2> QED BY <1>6, <1>7, <1>9, <2>1, <2>2
<1>11. ASSUME NEW x \in T PROVE \E i \in 1 .. n + t : s[i] = x
  <2>1. x \in S /\ x \notin a[m] .. a[k] /\ Rank(S, x) \in 1 .. c /\ a[Rank(S, x)] = x
    BY <1>1, <1>8
  <2>2. ~ (m <= Rank(S, x) /\ Rank(S, x) <= k)
    BY <1>7, <2>1
  <2>3. Rank(S, x) < m \/ k < Rank(S, x)
    BY <1>2, <2>1, <2>2
  <2>4. PICK j \in 1 .. n + t : From(j) = Rank(S, x)
    BY <1>3, <2>1, <2>3
  <2> QED BY <1>4, <2>1, <2>4
<1>12. \A i, j \in 1 .. n + t : i < j => s[i] < s[j]
  <2>1. \A i, j \in 1 .. c : i < j => a[i] < a[j]
    BY <1>1 DEF Climbs
  <2> QED BY <1>2, <1>4, <2>1
<1>13. s \in [1 .. n + t -> T]
  <2>1. s \in [1 .. n + t -> S]
    BY <1>4
  <2> HIDE DEF s
  <2> QED BY <1>10, <2>1
<1>14. T \in SUBSET Nat
  BY <1>8
<1> HIDE DEF s
<1>15. s = Ascending(T)
  BY <1>2, <1>11, <1>12, <1>13, <1>14, AscendingOnly
<1>16. s \in Seq(Int)
  <2>1. S \subseteq Int
    OBVIOUS
  <2> QED BY <1>4, <2>1, SeqMonotonic
<1> DEFINE p == LastN(s, t)
           u == LastN(a, t)
<1>17. p \in Seq(Int) /\ Len(p) = t /\ \A i \in 1 .. t : p[i] = s[n + i]
  <2>1. t # 0 /\ t <= Len(s) /\ \A i \in 1 .. t : Len(s) - t + i = n + i
    <3>1. Len(s) = n + t
      BY <1>4
    <3> QED BY <3>1
  <2>2. p \in Seq(Int) /\ Len(p) = t /\ \A i \in 1 .. t : p[i] = s[Len(s) - t + i]
    BY <1>16, <2>1, LastNIs
  <2> HIDE DEF p
  <2> QED BY <2>1, <2>2
<1>18. u \in Seq(Int) /\ Len(u) = t /\ \A i \in 1 .. t : u[i] = a[c - t + i]
  <2>1. t # 0 /\ t <= Len(a) /\ Len(a) = c /\ a \in Seq(Int)
    BY <1>1
  <2>2. u = LastN(a, t)
    OBVIOUS
  <2> HIDE DEF u
  <2>3. /\ LastN(a, t) \in Seq(Int) /\ Len(LastN(a, t)) = t
        /\ \A i \in 1 .. t : LastN(a, t)[i] = a[Len(a) - t + i]
    BY <2>1, LastNIs
  <2> QED BY <2>1, <2>2, <2>3
<1> HIDE DEF p, u
<1>19. p = u
  <2>1. ASSUME NEW i \in 1 .. t PROVE p[i] = u[i]
    <3>1. n + i \in 1 .. n + t /\ From(n + i) = c - t + i
      BY <1>5
    <3>2. s[n + i] = a[From(n + i)]
      BY <1>4, <3>1
    <3> QED BY <1>17, <1>18, <3>1, <3>2
  <2> QED BY <1>17, <1>18, <2>1, SeqEqual
<1> QED BY <1>4, <1>15, <1>16, <1>19 DEF p, u

\* What a further condensation leaves of the history.
LEMMA KeptAfter ==
    ASSUME NEW h, NEW E, h \in Seq(E), NEW e, e.k = "condensation",
           \A i \in Plains(h) : i \in Nat
    PROVE  /\ Len(h) \in Nat /\ Len(Append(h, e)) = Len(h) + 1
           /\ DOMAIN Append(h, e) = 1 .. Len(h) + 1
           /\ \A x \in KeptOf(Append(h, e)) : x \in KeptOf(h) /\ x \notin e.forgotten
           /\ \A x \in KeptOf(h) : x \in KeptOf(Append(h, e)) \/ x \in e.forgotten
           /\ Summarized(Append(h, e)) <=> Summarized(h) \/ e.summary
<1> DEFINE g == Append(h, e)
           c == Len(h)
<1>1. /\ c \in Nat /\ Len(g) = c + 1 /\ g[c + 1] = e /\ \A i \in 1 .. c : g[i] = h[i]
      /\ DOMAIN g = 1 .. c + 1
  OBVIOUS
<1>2. \A i \in 1 .. c + 1 : i \in 1 .. c \/ i = c + 1
  BY <1>1
<1>3. \A i \in 1 .. c : i \in 1 .. c + 1
  BY <1>1
<1>4. c + 1 \in 1 .. c + 1
  BY <1>1
<1>5. \A i : i \in Plains(h) <=> i \in 1 .. c /\ h[i].k \notin {"condensation", "request"}
  BY DEF Plains
<1> HIDE DEF g, c
<1>6. \A i : i \in Plains(g) <=> i \in 1 .. c + 1 /\ g[i].k \notin {"condensation", "request"}
  BY <1>1 DEF Plains
<1>7. \A i : i \in Plains(g) <=> i \in Plains(h)
  BY <1>1, <1>2, <1>3, <1>5, <1>6
<1>8. \A x : x \in KeptOf(h) <=> x \in Plains(h) /\ \A i \in 1 .. c : x \notin h[i].forgotten
  BY DEF KeptOf, c
<1>9. \A x : x \in KeptOf(g) <=> x \in Plains(g) /\ \A i \in 1 .. c + 1 : x \notin g[i].forgotten
  BY <1>1 DEF KeptOf
<1>10. \A x \in KeptOf(g) : x \in KeptOf(h) /\ x \notin e.forgotten
  BY <1>1, <1>3, <1>4, <1>7, <1>8, <1>9
<1>11. \A x \in KeptOf(h) : x \in KeptOf(g) \/ x \in e.forgotten
  BY <1>1, <1>2, <1>7, <1>8, <1>9
<1>12. Summarized(g) <=> Summarized(h) \/ e.summary
  BY <1>1, <1>2, <1>3, <1>4 DEF Summarized, c
<1> QED BY <1>1, <1>10, <1>11, <1>12 DEF g, c

\* Only a condensation adds one event that is a condensation.
LEMMA OnlyCondense ==
    ASSUME CondInv, [Next]_vars, Len(history') = Len(history) + 1,
           history'[Len(history')].k = "condensation"
    PROVE  /\ GetCondensation # Raises /\ kind' = kind
           /\ history' = Append(history, GetCondensation)
<1> DEFINE h == history
           E == CondEvents(Len(h))
<1>1. Len(h) \in Nat /\ h \in Seq(E)
  BY CondConstants, CondBeginning DEF CondInv, CondInvOf
<1>2. kind' = kind
  BY DEF Next, Condense, Act, UserMessage, vars
<1>3. ASSUME NEW k \in {"user", "act", "obs", "request"}
      PROVE  history' # Append(h, Plain(k))
  <2>1. Plain(k).k # "condensation"
    BY DEF Plain
  <2> DEFINE e == Plain(k)
  <2> HIDE DEF e
  <2>2. Append(h, e)[Len(Append(h, e))] = e
    BY <1>1
  <2> QED BY <2>1, <2>2 DEF e
<1>4. CASE Condense
  <2>1. history' # history
    BY <1>1
  <2>2. GetCondensation # Raises /\ history' = h \o <<GetCondensation>>
    BY <1>4, <2>1 DEF Condense, Add
  <2> QED BY <1>1, <1>2, <2>2, CondAdd
<1>5. CASE Act
  <2>1. \/ history' = Append(Append(h, Plain("act")), Plain("obs"))
        \/ history' = Append(h, Plain("request"))
    BY <1>1, <1>5, CondAdd DEF Act, Add
  <2>2. Len(Append(Append(h, Plain("act")), Plain("obs"))) = Len(h) + 2
    BY <1>1
  <2> QED BY <1>1, <1>3, <2>1, <2>2
<1>6. CASE UserMessage
  <2>1. history' = Append(h, Plain("user"))
    BY <1>1, <1>6, CondAdd DEF UserMessage, Add
  <2> QED BY <1>3, <2>1
<1>7. CASE UNCHANGED vars
  BY <1>1, <1>7 DEF vars
<1> QED BY <1>4, <1>5, <1>6, <1>7 DEF Next

\* The end of a view: the summary is not in it.
LEMMA ViewEnd ==
    ASSUME NEW h, NEW K, K = KeptOf(h), Len(h) \in Nat, NEW t \in Nat \ {0},
           KeepFirst \in Nat, KeepFirst + t <= Len(Ascending(K)), Ascending(K) \in Seq(Int)
    PROVE  /\ LastN(ViewOf(h), t) = LastN(Ascending(K), t)
           /\ Len(ViewOf(h)) = Len(Ascending(K)) + (IF Summarized(h) THEN 1 ELSE 0)
<1> DEFINE a == Ascending(K)
<1>1. KeepFirst \in Nat /\ Len(a) \in Nat
  OBVIOUS
<1>2. CASE ~ Summarized(h)
  BY <1>1, <1>2 DEF ViewOf
<1>3. CASE Summarized(h)
  <2>1. ViewOf(h) = Insert(a, KeepFirst, -1)
    BY <1>3 DEF ViewOf
  <2> HIDE DEF a
  <2>2. a \in Seq(Int) /\ KeepFirst + t <= Len(a)
    BY DEF a
  <2>3. /\ LastN(Insert(a, KeepFirst, -1), t) = LastN(a, t)
        /\ Len(Insert(a, KeepFirst, -1)) = Len(a) + 1
    BY <1>1, <2>2, TailOfInsert
  <2> QED BY <1>3, <2>1, <2>3 DEF a
<1> QED BY <1>2, <1>3

\* A condensation by size leaves half of max_size, the last events among it.
LEMMA CondShrinks ==
    ASSUME CondInv, [Next]_vars, kind # "window",
           Len(history') = Len(history) + 1, history'[Len(history')].k = "condensation"
    PROVE  /\ Len(View') = Target
           /\ LastN(View', TailLength) = LastN(View, TailLength)
<1> DEFINE h == history
           e == GetCondensation
           n == KeepFirst
           t == TailLength
           a == KeptIds
           c == KeptCount
           T == KeptOf(history')
<1>1. e # Raises /\ history' = Append(h, e)
  BY OnlyCondense
<1>2. /\ CondInvOf(h, kind, KeptFirst) /\ KeptFirst \in Nat /\ n \in Nat /\ Target \in Nat
      /\ kind \in {"amortized", "summarizing"} /\ n < Target
  BY CondConstants DEF CondInv
<1>3. Len(h) \in Nat /\ h \in Seq(CondEvents(Len(h)))
  BY <1>2, CondBeginning DEF CondInvOf
<1>4. /\ t \in Nat \ {0} /\ n + t < c
      /\ e = Condensation(a[n + 1] .. a[c - t], kind = "summarizing")
  BY <1>1, CutBySize
<1>5. /\ e.k = "condensation" /\ e.forgotten = a[n + 1] .. a[c - t]
      /\ e.summary = (kind = "summarizing")
  BY <1>4 DEF Condensation
<1>6. /\ KeptOf(h) \in SUBSET Nat /\ IsFiniteSet(KeptOf(h))
      /\ a = Ascending(KeptOf(h)) /\ c = Cardinality(KeptOf(h)) /\ c \in Nat
      /\ \A i \in Plains(h) : i \in Nat
  BY <1>3, PlainsFinite DEF KeptIds, KeptCount
<1> HIDE DEF e, h, n, t, a, c, T
<1>7. /\ DOMAIN history' = 1 .. Len(history') /\ Len(history') \in Nat
      /\ \A x \in T : x \in KeptOf(h) /\ x \notin e.forgotten
      /\ \A x \in KeptOf(h) : x \in T \/ x \in e.forgotten
      /\ Summarized(history') <=> Summarized(h) \/ kind = "summarizing"
  <2>1. /\ Len(h) \in Nat /\ Len(Append(h, e)) = Len(h) + 1
        /\ DOMAIN Append(h, e) = 1 .. Len(h) + 1
        /\ \A x \in KeptOf(Append(h, e)) : x \in KeptOf(h) /\ x \notin e.forgotten
        /\ \A x \in KeptOf(h) : x \in KeptOf(Append(h, e)) \/ x \in e.forgotten
        /\ Summarized(Append(h, e)) <=> Summarized(h) \/ e.summary
    BY <1>3, <1>5, <1>6, KeptAfter
  <2> DEFINE g == history'
  <2>2. g = Append(h, e)
    BY <1>1
  <2> HIDE DEF g
  <2>3. Len(g) \in Nat /\ DOMAIN g = 1 .. Len(g)
    BY <2>1, <2>2
  <2>4. /\ \A x \in KeptOf(g) : x \in KeptOf(h) /\ x \notin e.forgotten
        /\ \A x \in KeptOf(h) : x \in KeptOf(g) \/ x \in e.forgotten
    BY <2>1, <2>2
  <2>5. Summarized(g) <=> Summarized(h) \/ kind = "summarizing"
    BY <1>5, <2>1, <2>2
  <2> QED BY <2>3, <2>4, <2>5 DEF T, g
<1>8. /\ Len(Ascending(T)) = n + t /\ Ascending(T) \in Seq(Int)
      /\ LastN(Ascending(T), t) = LastN(a, t)
  <2>1. /\ \A x \in T : x \in KeptOf(h) /\ x \notin a[n + 1] .. a[c - t]
        /\ \A x \in KeptOf(h) : x \in T \/ x \in a[n + 1] .. a[c - t]
    BY <1>5, <1>7
  <2>2. n \in Nat /\ t \in Nat \ {0} /\ n + t < c
    BY <1>2, <1>4
  <2> QED BY <1>6, <2>1, <2>2, WithoutMiddle
<1>9. /\ LastN(ViewOf(history'), t) = LastN(a, t)
      /\ Len(ViewOf(history')) = n + t + (IF Summarized(history') THEN 1 ELSE 0)
  <2>1. KeepFirst + t <= Len(Ascending(T)) /\ T = KeptOf(history')
    BY <1>2, <1>4, <1>8 DEF n, T
  <2> QED BY <1>2, <1>4, <1>7, <1>8, <2>1, ViewEnd DEF n
<1>10. LastN(ViewOf(h), t) = LastN(a, t)
  <2>1. a \in Seq(Int) /\ Len(a) = c
    BY KeptIdsAre DEF a, c
  <2>2. KeepFirst + t <= Len(Ascending(KeptOf(h))) /\ Ascending(KeptOf(h)) \in Seq(Int)
    BY <1>2, <1>4, <1>6, <2>1 DEF n
  <2> QED BY <1>2, <1>3, <1>4, <1>6, <2>2, ViewEnd DEF n
<1>11. View = ViewOf(h) /\ View' = ViewOf(history')
  BY <1>7, ViewIsNext, KeptIdsAre DEF h
<1>12. n + t + (IF Summarized(history') THEN 1 ELSE 0) = Target
  <2>1. Summarized(h) => kind = "summarizing"
    BY <1>2 DEF CondInvOf
  <2>2. t = Target - n - (IF kind = "summarizing" THEN 1 ELSE 0)
    BY DEF t, n, TailLength
  <2> QED BY <1>2, <1>7, <2>1, <2>2
<1> QED BY <1>9, <1>10, <1>11, <1>12 DEF t

\* A condensation by size is worth its while: it leaves half of max_size, with the
\* summary in its place and all of the last events.
THEOREM CondensationsShrink == Constructed /\ Spec => ShrinksToTarget
<1> DEFINE Shrinks ==
        kind # "window" /\ Len(history') = Len(history) + 1
          /\ (Condensed(Len(history)))' =>
            /\ Len(View') = Target
            /\ LET n == Target - KeepFirst - (IF kind = "summarizing" THEN 1 ELSE 0)
               IN  LastN(View', n) = LastN(View, n)
<1>1. Constructed /\ Init => CondInv
  BY CondInvInit
<1>2. CondInv /\ [Next]_vars => CondInv'
  BY CondInvNext
<1>3. CondInv /\ [Next]_vars => Shrinks
  BY CondShrinks DEF Condensed, TailLength
<1>4. CondInv /\ [Next]_vars => [Shrinks]_vars
  BY <1>3
<1> HIDE DEF Shrinks
<1>5. Constructed /\ Spec => [][Shrinks]_vars
  BY <1>1, <1>2, <1>4, PTL DEF Spec
<1> QED BY <1>5 DEF ShrinksToTarget, Shrinks

=============================================================================
