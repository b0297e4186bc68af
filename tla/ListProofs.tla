------------------------------ MODULE ListProofs ------------------------------
(***************************************************************************)
(* What the proofs need to know of numbers and lists: least elements, which *)
(* stand for induction, lists by position, scanners, and functions defined  *)
(* by recursion on the number of steps.                                    *)
(***************************************************************************)
EXTENDS LineScanner, FiniteSetTheorems, FunctionTheorems, WellFoundedInduction, TLAPS

(***************************************************************************)
(* Least and greatest elements                                             *)
(***************************************************************************)
LEMMA LeastOf ==
    ASSUME NEW T, T \subseteq Nat, T # {} PROVE \E x \in T : \A y \in T : x <= y
<1> DEFINE R == OpToRel(<, Nat)
<1>1. IsWellFoundedOn(R, Nat)
  BY NatLessThanWellFounded
<1> HIDE DEF R
<1>2. \E x \in T : \A y \in T : ~(<<y, x>> \in R)
  BY <1>1, WFMin, Zenon
<1>3. \A x, y \in Nat : y < x => <<y, x>> \in R
  BY DEF R, OpToRel
<1>4. PICK x \in T : \A y \in T : ~(<<y, x>> \in R)
  BY <1>2
<1>5. ASSUME NEW y \in T PROVE x <= y
  <2>1. x \in Nat /\ y \in Nat
    BY <1>4
  <2>2. ~(y < x)
    BY <1>3, <1>4, <2>1
  <2> QED BY <2>1, <2>2
<1> QED BY <1>5

LEMMA GreatestOf ==
    ASSUME NEW n \in Nat, NEW T, T \subseteq 1 .. n, T # {} PROVE \E x \in T : \A y \in T : y <= x
<1> DEFINE D == {n - x : x \in T}
<1>1. D \subseteq Nat /\ D # {}
  <2>1. \A x \in T : n - x \in Nat
    OBVIOUS
  <2> QED BY <2>1
<1>2. PICK d \in D : \A y \in D : d <= y
  BY <1>1, LeastOf
<1>3. PICK x \in T : d = n - x
  BY <1>2
<1>4. ASSUME NEW y \in T PROVE y <= x
  <2>1. d <= n - y
    BY <1>2, <1>4
  <2> QED BY <1>3, <2>1
<1> QED BY <1>4

(* Induction: a set that has 0, and n whenever it has n - 1. *)
LEMMA Climbs ==
    ASSUME NEW N \in Nat, NEW G, 0 \in G, \A n \in 1 .. N : n - 1 \in G => n \in G
    PROVE  \A n \in 0 .. N : n \in G
<1> DEFINE Bad == {n \in 0 .. N : n \notin G}
<1> SUFFICES ASSUME Bad # {} PROVE FALSE
  OBVIOUS
<1>1. PICK n \in Bad : \A m \in Bad : n <= m
  <2>1. Bad \subseteq Nat
    OBVIOUS
  <2> HIDE DEF Bad
  <2> QED BY <2>1, LeastOf
<1>2. n \in 1 .. N
  BY <1>1
<1>3. n - 1 \in 0 .. N /\ n - 1 \notin Bad
  BY <1>1, <1>2
<1> QED BY <1>1, <1>2, <1>3

(***************************************************************************)
(* Ascending(S) lists S, each number once and in order                     *)
(***************************************************************************)
LEMMA AscendingLists ==
    ASSUME NEW L \in Nat, NEW S, S \subseteq 1 .. L
    PROVE  /\ Cardinality(S) \in Nat
           /\ Ascending(S) \in [1 .. Cardinality(S) -> S]
           /\ \A x \in S : \E j \in 1 .. Cardinality(S) : Ascending(S)[j] = x
           /\ \A j, k \in 1 .. Cardinality(S) : j < k => Ascending(S)[j] < Ascending(S)[k]
           /\ \A j \in 1 .. Cardinality(S) : Cardinality({m \in S : m <= Ascending(S)[j]}) = j
<1> DEFINE UpTo(n) == {m \in S : m <= n}
           N == Cardinality(S)
           rank == [n \in S |-> Cardinality(UpTo(n))]
<1>1. IsFiniteSet(S) /\ N \in Nat
  <2>1. IsFiniteSet(1 .. L)
    BY FS_Interval
  <2> QED BY <2>1, FS_Subset, FS_CardinalityType
<1>2. \A n \in S : UpTo(n) \subseteq S /\ n \in UpTo(n)
  OBVIOUS
<1>3. ASSUME NEW n \in S
      PROVE  IsFiniteSet(UpTo(n)) /\ Cardinality(UpTo(n)) \in 1 .. N
  <2>1. IsFiniteSet(UpTo(n)) /\ Cardinality(UpTo(n)) <= N
    BY <1>1, <1>2, FS_Subset
  <2>2. Cardinality(UpTo(n)) \in Nat /\ Cardinality(UpTo(n)) # 0
    <3>1. Cardinality(UpTo(n)) \in Nat
      BY <2>1, FS_CardinalityType
    <3>2. UpTo(n) # {}
      BY <1>2
    <3> HIDE DEF UpTo
    <3> QED BY <2>1, <3>1, <3>2, FS_EmptySet
  <2> QED BY <1>1, <2>1, <2>2
<1>4. ASSUME NEW n \in S, NEW m \in S, m < n
      PROVE  Cardinality(UpTo(m)) < Cardinality(UpTo(n))
  <2>0. m \in Nat /\ n \in Nat /\ \A x \in S : x \in Nat
    OBVIOUS
  <2>1. UpTo(m) \subseteq UpTo(n) /\ n \in UpTo(n) /\ n \notin UpTo(m)
    <3>1. \A x \in S : x <= m => x <= n
      BY <1>4, <2>0
    <3>2. n <= n /\ ~(n <= m)
      BY <1>4, <2>0
    <3> QED BY <3>1, <3>2
  <2>2. UpTo(m) # UpTo(n)
    BY <2>1
  <2>3. Cardinality(UpTo(m)) <= Cardinality(UpTo(n)) /\ Cardinality(UpTo(m)) # Cardinality(UpTo(n))
    BY <1>3, <2>1, <2>2, FS_Subset
  <2>4. Cardinality(UpTo(m)) \in 1 .. N /\ Cardinality(UpTo(n)) \in 1 .. N
    BY <1>3
  <2> QED BY <1>1, <2>3, <2>4
<1> HIDE DEF UpTo
<1>5. rank \in [S -> 1 .. N] /\ \A n \in S : rank[n] = Cardinality(UpTo(n))
  BY <1>3
<1> HIDE DEF rank
<1>6. \A m, n \in S : m < n => rank[m] < rank[n]
  BY <1>4, <1>5
<1>7. \A m, n \in S : rank[m] = rank[n] => m = n
  <2>1. ASSUME NEW m \in S, NEW n \in S, rank[m] = rank[n] PROVE m = n
    <3>1. m \in Nat /\ n \in Nat /\ rank[m] \in Nat /\ rank[n] \in Nat
      BY <1>1, <1>5
    <3>2. ~(m < n) /\ ~(n < m)
      BY <1>6, <2>1, <3>1
    <3> QED BY <3>1, <3>2
  <2> QED BY <2>1
<1>8. rank \in Injection(S, 1 .. N)
  BY <1>5, <1>7 DEF Injection, IsInjective
<1>9. IsFiniteSet(1 .. N) /\ Cardinality(1 .. N) = N
  BY <1>1, FS_Interval
<1>10. rank \in Surjection(S, 1 .. N)
  BY <1>8, <1>9, FS_Injection
<1>11. \A j \in 1 .. N : \E n \in S : rank[n] = j
  BY <1>10 DEF Surjection
<1>12. Ascending(S) = [j \in 1 .. N |-> CHOOSE n \in S : Cardinality(UpTo(n)) = j]
  BY DEF Ascending, UpTo
<1>13. \A j \in 1 .. N : Ascending(S)[j] \in S /\ rank[Ascending(S)[j]] = j
  <2>1. ASSUME NEW j \in 1 .. N PROVE Ascending(S)[j] \in S /\ Cardinality(UpTo(Ascending(S)[j])) = j
    <3>1. \E n \in S : Cardinality(UpTo(n)) = j
      BY <1>5, <1>11
    <3>2. Ascending(S)[j] = CHOOSE n \in S : Cardinality(UpTo(n)) = j
      BY <1>12
    <3> QED BY <3>1, <3>2
  <2> QED BY <1>5, <2>1
<1>14. Ascending(S) \in [1 .. N -> S]
  BY <1>12, <1>13
<1>15. \A x \in S : \E j \in 1 .. N : Ascending(S)[j] = x
  BY <1>5, <1>7, <1>13
<1>16. ASSUME NEW j \in 1 .. N, NEW k \in 1 .. N, j < k PROVE Ascending(S)[j] < Ascending(S)[k]
  <2>1. PICK x, y : x = Ascending(S)[j] /\ y = Ascending(S)[k]
    OBVIOUS
  <2>2. x \in S /\ y \in S /\ rank[x] = j /\ rank[y] = k
    BY <1>13, <2>1
  <2>3. ~(y < x) /\ x # y
    BY <1>1, <1>6, <1>16, <2>2
  <2> QED BY <2>1, <2>2, <2>3
<1>17. \A j \in 1 .. N : Cardinality({m \in S : m <= Ascending(S)[j]}) = j
  <2>1. \A n \in S : Cardinality({m \in S : m <= n}) = rank[n]
    BY <1>5 DEF UpTo
  <2> QED BY <1>13, <2>1
<1> QED BY <1>1, <1>14, <1>15, <1>16, <1>17

(***************************************************************************)
(* Sublist(s, S) has the elements of s at S and no others                  *)
(***************************************************************************)
LEMMA SublistHas ==
    ASSUME NEW T, NEW s \in Seq(T), NEW S, S \subseteq DOMAIN s
    PROVE  /\ Cardinality(S) \in Nat /\ Sublist(s, S) \in Seq(T) /\ Len(Sublist(s, S)) = Cardinality(S)
           /\ \A j \in 1 .. Cardinality(S) : Ascending(S)[j] \in S /\ Sublist(s, S)[j] = s[Ascending(S)[j]]
           /\ \A i \in S : \E j \in 1 .. Cardinality(S) : Ascending(S)[j] = i /\ Sublist(s, S)[j] = s[i]
<1>1. Len(s) \in Nat /\ DOMAIN s = 1 .. Len(s) /\ \A i \in 1 .. Len(s) : s[i] \in T
  OBVIOUS
<1>2. /\ Cardinality(S) \in Nat
      /\ Ascending(S) \in [1 .. Cardinality(S) -> S]
      /\ \A x \in S : \E j \in 1 .. Cardinality(S) : Ascending(S)[j] = x
  BY <1>1, AscendingLists
<1>3. \A j \in 1 .. Cardinality(S) : Ascending(S)[j] \in S
  BY <1>2
<1>4. \A j \in 1 .. Cardinality(S) : Sublist(s, S)[j] = s[Ascending(S)[j]] /\ s[Ascending(S)[j]] \in T
  BY <1>1, <1>3 DEF Sublist
<1>5. Sublist(s, S) \in [1 .. Cardinality(S) -> T]
  BY <1>4 DEF Sublist
<1>6. Sublist(s, S) \in Seq(T) /\ Len(Sublist(s, S)) = Cardinality(S)
  BY <1>2, <1>5
<1> QED BY <1>2, <1>3, <1>4, <1>6

(***************************************************************************)
(* A scanner returns the lines before the first that is too long.          *)
(***************************************************************************)
LEMMA ScannedUpTo ==
    ASSUME NEW T, NEW lines \in Seq(T), NEW long, long \subseteq DOMAIN lines
    PROVE  \E end \in 0 .. Len(lines) :
               /\ Scanned(lines, long) = SubSeq(lines, 1, end)
               /\ \A i \in 1 .. end : i \notin long
               /\ end = Len(lines) \/ end + 1 \in long
<1> DEFINE ScannedTo(n) == (\A i \in 1 .. n : i \notin long) /\ (n = Len(lines) \/ n + 1 \in long)
           end == CHOOSE n \in 0 .. Len(lines) : ScannedTo(n)
<1>1. Len(lines) \in Nat /\ DOMAIN lines = 1 .. Len(lines)
  OBVIOUS
<1>2. \E n \in 0 .. Len(lines) : ScannedTo(n)
  <2>1. CASE long = {}
    <3>1. Len(lines) \in 0 .. Len(lines) /\ ScannedTo(Len(lines))
      BY <1>1, <2>1
    <3> QED BY <3>1
  <2>2. CASE long # {}
    <3>1. PICK x \in long : \A y \in long : x <= y
      <4>1. long \subseteq Nat
        BY <1>1
      <4> QED BY <2>2, <4>1, LeastOf
    <3>2. x \in 1 .. Len(lines) /\ x - 1 \in 0 .. Len(lines) /\ x - 1 + 1 = x
      BY <1>1
    <3>3. \A i \in 1 .. x - 1 : i \notin long
      BY <3>1, <3>2
    <3>4. ScannedTo(x - 1)
      BY <3>2, <3>3
    <3> QED BY <3>2, <3>4
  <2> QED BY <2>1, <2>2
<1>3. end \in 0 .. Len(lines) /\ ScannedTo(end)
  BY <1>2
<1>4. Scanned(lines, long) = SubSeq(lines, 1, end)
  BY DEF Scanned
<1> HIDE DEF end
<1> QED BY <1>3, <1>4

(***************************************************************************)
(* A function defined by recursion on 0 .. N exists: step is what the      *)
(* definition makes of n and of the value at n - 1.                        *)
(***************************************************************************)
Iterates(g, n, b, step) == g[0] = b /\ \A i \in 1 .. n : g[i] = step[<<i, g[i - 1]>>]

LEMMA IterationExists ==
    ASSUME NEW N \in Nat, NEW T, NEW b \in T, NEW step \in [(1 .. N) \X T -> T]
    PROVE  \E g \in [0 .. N -> T] : Iterates(g, N, b, step)
<1> DEFINE Done(n) == \E g \in [0 .. n -> T] : Iterates(g, n, b, step)
           G == {n \in 0 .. N : Done(n)}
<1>1. 0 \in G
  <2>1. [i \in 0 .. 0 |-> b] \in [0 .. 0 -> T] /\ Iterates([i \in 0 .. 0 |-> b], 0, b, step)
    BY DEF Iterates
  <2> QED BY <2>1
<1>2. ASSUME NEW n \in 1 .. N, n - 1 \in G PROVE n \in G
  <2>1. PICK g \in [0 .. n - 1 -> T] : Iterates(g, n - 1, b, step)
    BY <1>2
  <2> DEFINE h == [i \in 0 .. n |-> IF i = n THEN step[<<n, g[n - 1]>>] ELSE g[i]]
  <2>2. \A i \in 0 .. n : i = n \/ i \in 0 .. n - 1
    OBVIOUS
  <2>3. h \in [0 .. n -> T]
    <3>1. <<n, g[n - 1]>> \in (1 .. N) \X T
      BY <2>1
    <3>2. \A i \in 0 .. n : i # n => g[i] \in T
      BY <2>1, <2>2
    <3> QED BY <3>1, <3>2
  <2>4. Iterates(h, n, b, step)
    <3>1. h[0] = b
      BY <2>1 DEF Iterates
    <3>2. ASSUME NEW i \in 1 .. n PROVE h[i] = step[<<i, h[i - 1]>>]
      <4>1. i - 1 \in 0 .. n /\ i - 1 # n /\ i \in 0 .. n /\ h[i - 1] = g[i - 1]
        OBVIOUS
      <4>2. CASE i = n
        BY <4>1, <4>2
      <4>3. CASE i # n
        <5>1. i \in 1 .. n - 1 /\ h[i] = g[i]
          BY <4>1, <4>3
        <5> QED BY <2>1, <4>1, <5>1 DEF Iterates
      <4> QED BY <4>2, <4>3
    <3> QED BY <3>1, <3>2 DEF Iterates
  <2> HIDE DEF h
  <2> QED BY <2>3, <2>4
<1> HIDE DEF G
<1>3. \A n \in 0 .. N : n \in G
  BY <1>1, <1>2, Climbs
<1> QED BY <1>3 DEF G
=============================================================================
