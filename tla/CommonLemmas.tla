---------------------------- MODULE CommonLemmas ----------------------------
(***************************************************************************)
(* Facts about numbers, powers of two, lists and sums that the proofs of   *)
(* several components use.                                                 *)
(***************************************************************************)
EXTENDS MerkleTree, SequencesExt, SequenceTheorems, FiniteSetTheorems,
        FunctionTheorems, WellFoundedInduction, TLAPS

\* A non-empty set of numbers has a least member.
LEMMA MinExists ==
  ASSUME NEW T \in SUBSET Nat, T # {}
  PROVE  \E x \in T : \A y \in T : x <= y
<1> DEFINE R == {p \in Nat \X Nat : p[1] < p[2]}
<1>1. IsWellFoundedOn(R, Nat)
  BY NatLessThanWellFounded DEF OpToRel
<1>2. PICK x \in T : \A y \in T : ~(<<y, x>> \in R)
  <2> HIDE DEF R
  <2> QED BY <1>1, WFMin
<1>3. ASSUME NEW y \in T PROVE x <= y
  <2>1. x \in Nat /\ y \in Nat
    OBVIOUS
  <2>2. ~(<<y, x>> \in R)
    BY <1>2
  <2> QED BY <2>1, <2>2
<1> QED BY <1>3

\* Min finds it.
LEMMA MinLemma ==
  ASSUME NEW T \in SUBSET Nat, T # {}
  PROVE  Min(T) \in T /\ \A y \in T : Min(T) <= y
BY MinExists DEF Min

\* A non-empty set of positions has a greatest member: what makes the CHOOSE of
\* the last node of a hash, in NodeIndex, well defined.
LEMMA MaxExists ==
  ASSUME NEW n \in Nat, NEW S \in SUBSET (1 .. n), S # {}
  PROVE  \E i \in S : \A j \in S : j <= i
<1> DEFINE T == {n - i : i \in S}
<1>1. T \subseteq Nat
  OBVIOUS
<1>2. T # {}
  <2>1. PICK i \in S : TRUE
    OBVIOUS
  <2>2. n - i \in T
    OBVIOUS
  <2> QED BY <2>2
<1>3. PICK x \in T : \A y \in T : x <= y
  <2> HIDE DEF T
  <2> QED BY <1>1, <1>2, MinExists
<1>4. PICK i \in S : x = n - i
  OBVIOUS
<1>5. ASSUME NEW j \in S PROVE j <= i
  <2>1. n - j \in T
    OBVIOUS
  <2>2. x <= n - j
    BY <2>1, <1>3
  <2> QED BY <2>2, <1>4
<1> QED BY <1>5

-----------------------------------------------------------------------------
(* Powers of two, and the rounding routines of power_of_two.go.  The       *)
(* provers know nothing of exponents; what they are told here they derive  *)
(* from the number of subsets of a set.                                    *)

\* A power of two counts subsets, so it is a positive number.
LEMMA PowerType ==
  ASSUME NEW n \in Nat
  PROVE  /\ 2^n \in Nat
         /\ 2^n >= 1
         /\ IsFiniteSet(SUBSET (1 .. n))
         /\ Cardinality(SUBSET (1 .. n)) = 2^n
<1>1. IsFiniteSet(1 .. n) /\ Cardinality(1 .. n) = n
  <2>1. /\ IsFiniteSet(1 .. n)
        /\ Cardinality(1 .. n) = IF 1 > n THEN 0 ELSE n - 1 + 1
    BY FS_Interval
  <2> QED BY <2>1
<1>2. IsFiniteSet(SUBSET (1 .. n)) /\ Cardinality(SUBSET (1 .. n)) = 2^n
  BY <1>1, FS_SUBSET
<1>3. Cardinality(SUBSET (1 .. n)) \in Nat
  BY <1>2, FS_CardinalityType
<1>4. Cardinality(SUBSET (1 .. n)) # 0
  <2>1. {} \in SUBSET (1 .. n)
    OBVIOUS
  <2>2. SUBSET (1 .. n) # {}
    BY <2>1
  <2> QED BY <2>2, <1>2, FS_EmptySet, Zenon
<1>5. 2^n \in Nat /\ 2^n # 0
  BY <1>2, <1>3, <1>4
<1> QED BY <1>2, <1>5

\* One more number doubles the subsets: those without it, and those with it.
LEMMA PowerDoubles ==
  ASSUME NEW n \in Nat
  PROVE  2^(n + 1) = 2 * 2^n
<1> DEFINE A == SUBSET (1 .. n)
           B == {X \cup {n + 1} : X \in A}
           f == [X \in A |-> X \cup {n + 1}]
<1>1. IsFiniteSet(A) /\ Cardinality(A) = 2^n /\ 2^n \in Nat
  BY PowerType
<1>2. n + 1 \in Nat
  OBVIOUS
<1>3. Cardinality(SUBSET (1 .. n + 1)) = 2^(n + 1)
  BY <1>2, PowerType
<1>4. \A X \in A : n + 1 \notin X
  OBVIOUS
<1>5. f \in Bijection(A, B)
  <2>1. f \in [A -> B]
    OBVIOUS
  <2>2. \A X, Y \in A : f[X] = f[Y] => X = Y
    <3> SUFFICES ASSUME NEW X \in A, NEW Y \in A, X \cup {n + 1} = Y \cup {n + 1}
                 PROVE  X = Y
      OBVIOUS
    <3>1. n + 1 \notin X /\ n + 1 \notin Y
      BY <1>4
    <3> HIDE DEF A
    <3> QED BY <3>1
  <2>3. \A b \in B : \E X \in A : f[X] = b
    OBVIOUS
  <2> HIDE DEF A, B, f
  <2> QED BY <2>1, <2>2, <2>3 DEF Bijection, Injection, Surjection, IsInjective
<1>6. IsFiniteSet(B) /\ Cardinality(B) = 2^n
  <2>1. ExistsBijection(A, B)
    BY <1>5 DEF ExistsBijection
  <2> HIDE DEF A, B
  <2> QED BY <1>1, <2>1, FS_Bijection
<1>7. A \cap B = {}
  <2> SUFFICES ASSUME NEW X, X \in A, X \in B PROVE FALSE
    OBVIOUS
  <2>1. n + 1 \in X
    OBVIOUS
  <2> QED BY <2>1, <1>4
<1>8. A \cup B = SUBSET (1 .. n + 1)
  <2>1. ASSUME NEW X \in A \cup B PROVE X \in SUBSET (1 .. n + 1)
    OBVIOUS
  <2>2. ASSUME NEW X \in SUBSET (1 .. n + 1), n + 1 \notin X PROVE X \in A
    <3>1. ASSUME NEW x \in X PROVE x \in 1 .. n
      <4>1. x \in 1 .. n + 1 /\ x # n + 1
        BY <2>2
      <4> QED BY <4>1
    <3> QED BY <3>1
  <2>3. ASSUME NEW X \in SUBSET (1 .. n + 1), n + 1 \in X PROVE X \in B
    <3> DEFINE Y == X \ {n + 1}
    <3>1. ASSUME NEW x \in Y PROVE x \in 1 .. n
      <4>1. x \in 1 .. n + 1 /\ x # n + 1
        OBVIOUS
      <4> QED BY <4>1
    <3>2. Y \in A
      BY <3>1
    <3>3. X = Y \cup {n + 1}
      BY <2>3
    <3> QED BY <3>2, <3>3
  <2> HIDE DEF A, B
  <2> QED BY <2>1, <2>2, <2>3
<1>9. Cardinality(A \cup B) = 2^n + 2^n - Cardinality(A \cap B)
  <2> HIDE DEF A, B
  <2> QED BY <1>1, <1>6, FS_Union
<1>10. Cardinality(A \cap B) = 0
  BY <1>7, FS_EmptySet
<1> HIDE DEF A, B
<1> QED BY <1>1, <1>3, <1>8, <1>9, <1>10

\* Powers of two grow.
LEMMA PowerGrows ==
  ASSUME NEW m \in Nat, NEW n \in Nat, m < n
  PROVE  2^m < 2^n
<1> DEFINE T == {k \in Nat : m < k /\ ~(2^m < 2^k)}
<1> SUFFICES ASSUME T # {} PROVE FALSE
  OBVIOUS
<1>1. PICK x \in T : \A y \in T : x <= y
  BY MinExists
<1>2. x - 1 \in Nat /\ m <= x - 1
  OBVIOUS
<1>3. 2^(x - 1) \in Nat /\ 2^(x - 1) >= 1 /\ 2^m \in Nat
  BY <1>2, PowerType
<1>4. 2^x = 2 * 2^(x - 1)
  <2>1. 2^(x - 1 + 1) = 2 * 2^(x - 1)
    BY <1>2, PowerDoubles
  <2>2. x - 1 + 1 = x
    OBVIOUS
  <2> QED BY <2>1, <2>2
<1>5. 2^m <= 2^(x - 1)
  <2>1. CASE m = x - 1
    BY <2>1, <1>3
  <2>2. CASE m < x - 1
    <3>1. x - 1 \notin T
      BY <1>1, <1>2
    <3> QED BY <3>1, <2>2, <1>2, <1>3
  <2> QED BY <2>1, <2>2, <1>2
<1>6. 2^m < 2^x
  BY <1>3, <1>4, <1>5
<1> QED BY <1>6

\* A number is below its power of two.
LEMMA PowerAbove ==
  ASSUME NEW n \in Nat
  PROVE  n < 2^n
<1> DEFINE T == {k \in Nat : ~(k < 2^k)}
<1> SUFFICES ASSUME T # {} PROVE FALSE
  OBVIOUS
<1>1. PICK x \in T : \A y \in T : x <= y
  BY MinExists
<1>2. x # 0
  <2> SUFFICES ASSUME x = 0 PROVE 0 < 2^0
    OBVIOUS
  <2> QED OBVIOUS
<1>3. x - 1 \in Nat
  BY <1>2
<1>4. 2^(x - 1) \in Nat
  BY <1>3, PowerType
<1>5. 2^x = 2 * 2^(x - 1)
  <2>1. 2^(x - 1 + 1) = 2 * 2^(x - 1)
    BY <1>3, PowerDoubles
  <2>2. x - 1 + 1 = x
    OBVIOUS
  <2> QED BY <2>1, <2>2
<1>6. x - 1 < 2^(x - 1)
  BY <1>1, <1>3
<1>7. x < 2^x
  BY <1>3, <1>4, <1>5, <1>6
<1> QED BY <1>7

\* Log2Ceil: the least exponent whose power is not below n.
LEMMA Log2CeilLemma ==
  ASSUME NEW n \in Nat, n >= 1
  PROVE  /\ Log2Ceil(n) \in Nat
         /\ n <= 2^Log2Ceil(n)
         /\ \A j \in Nat : j < Log2Ceil(n) => 2^j < n
<1> DEFINE T == {k \in Nat : n <= 2^k}
<1>1. \A k \in Nat : 2^k \in Nat
  BY PowerType
<1>2. n \in T
  <2>1. n < 2^n
    BY PowerAbove
  <2> QED BY <2>1, <1>1
<1>3. PICK k \in T : \A j \in T : k <= j
  BY <1>2, MinExists
<1>4. \A j \in Nat : 2^j < n <=> j < k
  <2> SUFFICES ASSUME NEW j \in Nat PROVE 2^j < n <=> j < k
    OBVIOUS
  <2>1. ASSUME j < k PROVE 2^j < n
    BY <2>1, <1>1, <1>3
  <2>2. ASSUME k <= j PROVE ~(2^j < n)
    <3>1. k = j \/ 2^k < 2^j
      BY <2>2, PowerGrows
    <3> QED BY <3>1, <1>1, <1>3
  <2> QED BY <2>1, <2>2, <1>3
<1>5. k <= n
  BY <1>2, <1>3
<1>6. {j \in 0 .. n : 2^j < n} = 0 .. k - 1
  <2> HIDE DEF T
  <2>1. k \in Nat
    BY <1>3 DEF T
  <2> QED BY <2>1, <1>4, <1>5
<1>7. Cardinality(0 .. k - 1) = k
  <2>1. Cardinality(0 .. k - 1) = IF 0 > k - 1 THEN 0 ELSE k - 1 - 0 + 1
    BY FS_Interval
  <2> QED BY <2>1
<1>8. Log2Ceil(n) = k
  BY <1>6, <1>7 DEF Log2Ceil
<1> QED BY <1>3, <1>4, <1>8

\* Log2Floor: the greatest exponent whose power is not above n.
LEMMA Log2FloorLemma ==
  ASSUME NEW n \in Nat, n >= 1
  PROVE  /\ Log2Floor(n) \in Nat
         /\ 2^Log2Floor(n) <= n
         /\ n < 2^(Log2Floor(n) + 1)
<1> DEFINE T == {k \in Nat : n < 2^k}
<1>1. \A k \in Nat : 2^k \in Nat
  BY PowerType
<1>2. n \in T
  BY PowerAbove
<1>3. PICK g \in T : \A j \in T : g <= j
  BY <1>2, MinExists
<1>4. \A j \in Nat : 2^j <= n <=> j < g
  <2> SUFFICES ASSUME NEW j \in Nat PROVE 2^j <= n <=> j < g
    OBVIOUS
  <2>1. ASSUME j < g PROVE 2^j <= n
    BY <2>1, <1>1, <1>3
  <2>2. ASSUME g <= j PROVE ~(2^j <= n)
    <3>1. g = j \/ 2^g < 2^j
      BY <2>2, PowerGrows
    <3> QED BY <3>1, <1>1, <1>3
  <2> QED BY <2>1, <2>2, <1>3
<1>5. g <= n
  BY <1>2, <1>3
<1>6. g >= 1
  <2>1. ASSUME g = 0 PROVE FALSE
    <3>1. n < 2^0
      BY <1>3, <2>1
    <3>2. 2^0 = 1
      OBVIOUS
    <3> HIDE DEF T
    <3> QED BY <3>1, <3>2
  <2> QED BY <2>1, <1>3
<1>7. {k \in 1 .. n : 2^k <= n} = 1 .. g - 1
  <2> HIDE DEF T
  <2>1. g \in Nat
    BY <1>3 DEF T
  <2> QED BY <2>1, <1>4, <1>5
<1>8. Cardinality(1 .. g - 1) = g - 1
  <2>1. Cardinality(1 .. g - 1) = IF 1 > g - 1 THEN 0 ELSE g - 1 - 1 + 1
    BY FS_Interval
  <2> QED BY <2>1, <1>6
<1>9. Log2Floor(n) = g - 1
  BY <1>7, <1>8 DEF Log2Floor
<1>10. g - 1 \in Nat /\ g - 1 + 1 = g
  BY <1>6
<1>11. 2^(g - 1) <= n
  BY <1>4, <1>10
<1>12. n < 2^g
  BY <1>3
<1> QED BY <1>9, <1>10, <1>11, <1>12

\* NextPowerOfTwo rounds up, as Log2Ceil does: the store's size and the number
\* of levels, computed by two routines, belong together.
LEMMA NextPowerLemma ==
  ASSUME NEW n \in Nat, n >= 1
  PROVE  NextPowerOfTwo(n) = 2^Log2Ceil(n)
<1> DEFINE f == Log2Floor(n)
           c == Log2Ceil(n)
<1>1. f \in Nat /\ 2^f <= n /\ n < 2^(f + 1)
  BY Log2FloorLemma
<1>2. c \in Nat /\ n <= 2^c /\ \A j \in Nat : j < c => 2^j < n
  BY Log2CeilLemma
<1>3. \A k \in Nat : 2^k \in Nat
  BY PowerType
<1>4. f + 1 \in Nat
  BY <1>1
<1>5. c <= f + 1
  <2> HIDE DEF f, c
  <2>1. ASSUME f + 1 < c PROVE FALSE
    <3>1. 2^(f + 1) < n
      BY <2>1, <1>2, <1>4
    <3> QED BY <3>1, <1>1, <1>3, <1>4
  <2> QED BY <2>1, <1>1, <1>2
<1>6. f <= c
  <2> HIDE DEF f, c
  <2>1. ASSUME c < f PROVE FALSE
    <3>1. 2^c < 2^f
      BY <2>1, <1>1, <1>2, PowerGrows
    <3> QED BY <3>1, <1>1, <1>2, <1>3
  <2> QED BY <2>1, <1>1, <1>2
<1>7. CASE n = 2^f
  <2>1. c = f
    <3> HIDE DEF f, c
    <3>1. ASSUME c = f + 1 PROVE FALSE
      <4>1. 2^f < n
        BY <3>1, <1>1, <1>2
      <4> QED BY <4>1, <1>7
    <3> QED BY <3>1, <1>1, <1>2, <1>5, <1>6
  <2>2. IsPowerOfTwo(n)
    BY <1>7 DEF IsPowerOfTwo
  <2> QED BY <2>1, <2>2, <1>7 DEF NextPowerOfTwo
<1>8. CASE n # 2^f
  <2>1. c = f + 1
    <3> HIDE DEF f, c
    <3>1. c # f
      BY <1>1, <1>2, <1>3, <1>8
    <3> QED BY <3>1, <1>1, <1>2, <1>5, <1>6
  <2>2. ~IsPowerOfTwo(n)
    BY <1>8 DEF IsPowerOfTwo
  <2>3. n # 0
    OBVIOUS
  <2> QED BY <2>1, <2>2, <2>3, Zenon DEF NextPowerOfTwo
<1> QED BY <1>7, <1>8

-----------------------------------------------------------------------------
(* Lists of nodes.                                                         *)

\* append(nodes[:k], nodes[k+1:]...) in RemoveNodeAtIndex: the list is one
\* shorter, and the nodes after position k have moved down by one.
LEMMA RemoveLemma ==
  ASSUME NEW S, NEW s \in Seq(S), NEW k \in 0 .. Len(s) - 1,
         NEW t, t = SubSeq(s, 1, k) \o SubSeq(s, k + 2, Len(s))
  PROVE  /\ t \in Seq(S)
         /\ Len(t) = Len(s) - 1
         /\ \A i \in 1 .. Len(t) : t[i] = IF i <= k THEN s[i] ELSE s[i + 1]
<1> DEFINE l == SubSeq(s, 1, k)
           r == SubSeq(s, k + 2, Len(s))
<1>1. k \in Nat /\ Len(s) \in Nat /\ k < Len(s)
  OBVIOUS
<1>2. l \in Seq(S) /\ Len(l) = k /\ \A i \in 1 .. k : l[i] = s[i]
  OBVIOUS
<1>3. /\ r \in Seq(S) /\ Len(r) = Len(s) - k - 1
      /\ \A i \in 1 .. Len(s) - k - 1 : r[i] = s[k + 1 + i]
  OBVIOUS
<1> HIDE DEF l, r
<1>4. t = l \o r
  BY DEF l, r
<1>5. /\ t \in Seq(S) /\ Len(t) = Len(s) - 1
      /\ \A i \in 1 .. Len(s) - 1 : t[i] = IF i <= k THEN l[i] ELSE r[i - k]
  <2>1. /\ l \o r \in Seq(S)
        /\ Len(l \o r) = Len(l) + Len(r)
        /\ \A i \in 1 .. Len(l) + Len(r) :
             (l \o r)[i] = IF i <= Len(l) THEN l[i] ELSE r[i - Len(l)]
    BY <1>2, <1>3, ConcatProperties, Zenon
  <2>2. Len(l) + Len(r) = Len(s) - 1
    BY <1>1, <1>2, <1>3
  <2> QED BY <2>1, <2>2, <1>2, <1>4, Zenon
<1>6. ASSUME NEW i \in 1 .. Len(s) - 1
      PROVE  t[i] = IF i <= k THEN s[i] ELSE s[i + 1]
  <2>1. CASE i <= k
    <3>1. i \in 1 .. k
      BY <1>1, <2>1
    <3> QED BY <1>2, <1>5, <2>1, <3>1, Zenon
  <2>2. CASE ~(i <= k)
    <3>1. i - k \in 1 .. Len(s) - k - 1 /\ k + 1 + (i - k) = i + 1 /\ ~(i <= k)
      BY <1>1, <2>2
    <3>2. t[i] = r[i - k]
      BY <1>5, <3>1, Zenon
    <3>3. r[i - k] = s[i + 1]
      BY <3>1, <1>3, Zenon
    <3> QED BY <3>1, <3>2, <3>3, Zenon
  <2> QED BY <2>1, <2>2, Zenon
<1> QED BY <1>5, <1>6, Zenon

\* The first m elements of a list, when they are in S.
LEMMA PrefixType ==
  ASSUME NEW S, NEW T, NEW s \in Seq(T), NEW m \in Nat, m <= Len(s),
         \A k \in 1 .. m : s[k] \in S
  PROVE  /\ SubSeq(s, 1, m) \in Seq(S)
         /\ Len(SubSeq(s, 1, m)) = m
         /\ \A k \in 1 .. m : SubSeq(s, 1, m)[k] = s[k]
<1> DEFINE l == SubSeq(s, 1, m)
<1>1. l \in Seq(T) /\ Len(l) = m /\ \A k \in 1 .. m : l[k] = s[k]
  OBVIOUS
<1> HIDE DEF l
<1>2. DOMAIN l = 1 .. m /\ l = [k \in DOMAIN l |-> l[k]]
  BY <1>1
<1>3. l \in [1 .. m -> S]
  BY <1>1, <1>2
<1>4. l \in Seq(S)
  BY <1>3
<1> QED BY <1>1, <1>4 DEF l

\* Lists that agree up to position m have the same first m elements.
LEMMA PrefixSame ==
  ASSUME NEW S, NEW s \in Seq(S), NEW t \in Seq(S), NEW m \in Nat,
         m <= Len(s), m <= Len(t), \A k \in 1 .. m : t[k] = s[k]
  PROVE  SubSeq(t, 1, m) = SubSeq(s, 1, m)
<1> DEFINE l == SubSeq(s, 1, m)
           r == SubSeq(t, 1, m)
<1>1. l \in Seq(S) /\ Len(l) = m /\ \A k \in 1 .. m : l[k] = s[k]
  OBVIOUS
<1>2. r \in Seq(S) /\ Len(r) = m /\ \A k \in 1 .. m : r[k] = t[k]
  OBVIOUS
<1> HIDE DEF l, r
<1>3. l = r
  BY <1>1, <1>2, SeqEqual
<1> QED BY <1>3 DEF l, r

\* Storing h after the first m elements of an array and counting one more is
\* append.
LEMMA PrefixAppend ==
  ASSUME NEW S, NEW s \in Seq(S), NEW t \in Seq(S), NEW m \in Nat,
         m <= Len(s), m + 1 <= Len(t), \A k \in 1 .. m : t[k] = s[k]
  PROVE  SubSeq(t, 1, m + 1) = Append(SubSeq(s, 1, m), t[m + 1])
<1> DEFINE l == SubSeq(s, 1, m)
           r == SubSeq(t, 1, m + 1)
<1>1. l \in Seq(S) /\ Len(l) = m /\ \A k \in 1 .. m : l[k] = s[k]
  OBVIOUS
<1>2. r \in Seq(S) /\ Len(r) = m + 1 /\ \A k \in 1 .. m + 1 : r[k] = t[k]
  OBVIOUS
<1>3. t[m + 1] \in S
  OBVIOUS
<1> HIDE DEF l, r
<1>4. /\ Append(l, t[m + 1]) \in Seq(S)
      /\ Len(Append(l, t[m + 1])) = m + 1
      /\ \A k \in 1 .. m + 1 : Append(l, t[m + 1])[k] = t[k]
  BY <1>1, <1>3
<1>5. r = Append(l, t[m + 1])
  BY <1>2, <1>4, SeqEqual
<1> QED BY <1>5 DEF l, r

\* FlattenSeq concatenates the lists one after the other.
LEMMA FlattenSteps ==
  ASSUME NEW seqs, NEW n \in Nat, n = Len(seqs), n # 0
  PROVE  \E c : /\ FlattenSeq(seqs) = c[n]
                /\ \A i \in 1 .. n : c[i] = IF i = 1 THEN seqs[i] ELSE c[i - 1] \o seqs[i]
<1> DEFINE E(f, i) == IF i = 1 THEN seqs[i] ELSE f[i - 1] \o seqs[i]
           P(f) == f = [i \in 1 .. n |-> E(f, i)]
           U(f, m) == f = [i \in 1 .. m |-> f[i]] /\ \A i \in 1 .. m : f[i] = E(f, i)
           c == CHOOSE f : P(f)
<1>0. n \in Nat
  OBVIOUS
<1>1. FlattenSeq(seqs) = c[n]
  BY Zenon DEF FlattenSeq
<1>2. \E f : U(f, n)
  <2> DEFINE T == {m \in Nat : m <= n /\ ~\E f : U(f, m)}
  <2> SUFFICES ASSUME ~\E f : U(f, n) PROVE FALSE
    OBVIOUS
  <2>0. T # {}
    <3> HIDE DEF U
    <3>1. n \in T
      BY <1>0
    <3> QED BY <3>1
  <2>1. PICK x \in T : \A y \in T : x <= y
    <3>1. T \in SUBSET Nat
      OBVIOUS
    <3> HIDE DEF T
    <3> QED BY <2>0, <3>1, MinExists
  <2>2. x \in Nat /\ x <= n /\ ~\E f : U(f, x)
    OBVIOUS
  <2>3. x # 0
    <3> SUFFICES ASSUME x = 0 PROVE FALSE
      OBVIOUS
    <3> DEFINE g == [i \in 1 .. 0 |-> << >>]
    <3>1. g = [i \in 1 .. 0 |-> g[i]] /\ 1 .. 0 = {}
      OBVIOUS
    <3> HIDE DEF g, E
    <3>2. U(g, 0)
      BY <3>1
    <3> QED BY <2>2, <3>2
  <2> DEFINE m == x - 1
  <2>4. m \in Nat /\ m <= n /\ ~(x <= m) /\ \A i \in 1 .. x : i = x \/ i \in 1 .. m
    BY <1>0, <2>2, <2>3
  <2>5. PICK f : U(f, m)
    <3> HIDE DEF U, m
    <3> QED BY <2>1, <2>4
  <2> DEFINE v == E(f, x)
             g == [i \in 1 .. x |-> IF i = x THEN v ELSE f[i]]
  <2> HIDE DEF T, v
  <2>6. g = [i \in 1 .. x |-> g[i]] /\ g[x] = v /\ \A i \in 1 .. m : g[i] = f[i]
    BY <2>2, <2>3
  <2> HIDE DEF g
  <2>7. ASSUME NEW i \in 1 .. x PROVE g[i] = E(g, i)
    <3>1. i = 1 \/ g[i - 1] = f[i - 1]
      <4>1. i = 1 \/ i - 1 \in 1 .. m
        BY <2>2, <2>3
      <4> QED BY <4>1, <2>6
    <3>2. E(g, i) = E(f, i)
      BY <3>1
    <3>3. g[i] = E(f, i)
      <4>1. CASE i = x
        BY <4>1, <2>6 DEF v
      <4>2. CASE i # x
        <5>1. i \in 1 .. m
          BY <4>2, <2>4
        <5> HIDE DEF E
        <5> QED BY <5>1, <2>5, <2>6
      <4> QED BY <4>1, <4>2
    <3> QED BY <3>2, <3>3
  <2>8. U(g, x)
    <3> HIDE DEF E
    <3> QED BY <2>6, <2>7
  <2> QED BY <2>2, <2>8
<1>3. P(c)
  <2>1. PICK f : U(f, n)
    BY <1>2
  <2>2. P(f)
    <3> HIDE DEF E
    <3> QED BY <2>1
  <2> HIDE DEF P
  <2> QED BY <2>2
<1>4. \A i \in 1 .. n : c[i] = E(c, i)
  <2> HIDE DEF c, E
  <2> QED BY <1>3
<1> QED BY <1>1, <1>4

\* What comes out is a list of the same things.
LEMMA FlattenType ==
  ASSUME NEW S, NEW seqs \in Seq(Seq(S))
  PROVE  FlattenSeq(seqs) \in Seq(S)
<1> DEFINE n == Len(seqs)
<1>1. n \in Nat /\ \A i \in 1 .. n : seqs[i] \in Seq(S)
  OBVIOUS
<1>2. CASE n = 0
  <2>1. FlattenSeq(seqs) = seqs
    BY <1>2, Zenon DEF FlattenSeq
  <2>2. seqs = << >>
    BY <1>2
  <2> QED BY <2>1, <2>2
<1>3. CASE n # 0
  <2>1. PICK c : /\ FlattenSeq(seqs) = c[n]
                 /\ \A i \in 1 .. n : c[i] = IF i = 1 THEN seqs[i] ELSE c[i - 1] \o seqs[i]
    BY <1>1, <1>3, FlattenSteps
  <2> DEFINE T == {i \in 1 .. n : c[i] \notin Seq(S)}
  <2> HIDE DEF n
  <2>2. T = {}
    <3> SUFFICES ASSUME T # {} PROVE FALSE
      OBVIOUS
    <3>1. PICK x \in T : \A y \in T : x <= y
      <4>1. T \in SUBSET Nat
        OBVIOUS
      <4> HIDE DEF T
      <4> QED BY <4>1, MinExists
    <3>2. x \in 1 .. n /\ c[x] \notin Seq(S)
      OBVIOUS
    <3>3. seqs[x] \in Seq(S) /\ c[x] = IF x = 1 THEN seqs[x] ELSE c[x - 1] \o seqs[x]
      BY <1>1, <2>1, <3>2
    <3>4. x # 1
      BY <3>2, <3>3
    <3>5. x - 1 \in 1 .. n /\ ~(x <= x - 1)
      BY <1>1, <3>2, <3>4
    <3>6. c[x - 1] \in Seq(S)
      BY <3>1, <3>5
    <3>7. c[x] = c[x - 1] \o seqs[x]
      BY <3>3, <3>4
    <3>8. c[x] \in Seq(S)
      BY <3>3, <3>6, <3>7, ConcatProperties, Zenon
    <3> QED BY <3>2, <3>8
  <2>3. n \in 1 .. n
    BY <1>1, <1>3
  <2> QED BY <2>1, <2>2, <2>3
<1> QED BY <1>2, <1>3

-----------------------------------------------------------------------------
(* Sums.                                                                   *)

\* A number is a multiple of W and a remainder.
LEMMA ModParts ==
  ASSUME NEW W \in Nat \ {0}, NEW a \in Int
  PROVE  /\ a \div W \in Int /\ a % W \in 0 .. W - 1
         /\ a = W * (a \div W) + (a % W)
OBVIOUS

\* And in one way only.
LEMMA ModOfParts ==
  ASSUME NEW W \in Nat \ {0}, NEW q \in Int, NEW r \in 0 .. W - 1
  PROVE  (W * q + r) % W = r
OBVIOUS

\* What is added to a number that has wrapped around may as well be added before.
LEMMA ModAdd ==
  ASSUME NEW W \in Nat \ {0}, NEW a \in Int, NEW b \in Int
  PROVE  ((a % W) + b) % W = (a + b) % W
<1> DEFINE c == a + b
           q == a \div W
           r == a % W
           p == c \div W
           s == c % W
<1>0. c \in Int /\ c = a + b
  OBVIOUS
<1>1. q \in Int /\ r \in 0 .. W - 1 /\ a = W * q + r
  BY ModParts
<1> HIDE DEF c
<1>2. p \in Int /\ s \in 0 .. W - 1 /\ c = W * p + s
  BY <1>0, ModParts
<1> HIDE DEF q, r, p, s
<1>3. W * (p - q) = W * p - W * q
  BY <1>1, <1>2
<1>4. r + b = W * (p - q) + s
  <2> DEFINE x == W * p
             y == W * q
             z == W * (p - q)
  <2>1. x \in Int /\ y \in Int /\ z \in Int /\ z = x - y /\ a = y + r /\ c = x + s
    BY <1>1, <1>2, <1>3
  <2> HIDE DEF x, y, z
  <2>2. r + b = z + s
    BY <1>0, <1>1, <1>2, <2>1
  <2> QED BY <2>2 DEF z
<1>5. (W * (p - q) + s) % W = s
  BY <1>1, <1>2, ModOfParts
<1> QED BY <1>4, <1>5 DEF r, s, c

\* a[k] is the sum of the first k of the numbers f[1], ..., f[n].
IsSum(f, n, a) ==
  /\ a \in [0 .. n -> Int]
  /\ a[0] = 0
  /\ \A k \in 1 .. n : a[k] = a[k - 1] + f[k]

\* Such a list of sums exists.
LEMMA SumExists ==
  ASSUME NEW n \in Nat, NEW f, \A k \in 1 .. n : f[k] \in Int
  PROVE  \E a : IsSum(f, n, a)
<1> DEFINE T == {m \in Nat : m <= n /\ ~\E a : IsSum(f, m, a)}
<1> SUFFICES ASSUME ~\E a : IsSum(f, n, a) PROVE FALSE
  OBVIOUS
<1>1. n \in T
  OBVIOUS
<1>2. PICK x \in T : \A y \in T : x <= y
  <2>1. T \in SUBSET Nat
    OBVIOUS
  <2> HIDE DEF T
  <2> QED BY <1>1, <2>1, MinExists
<1>3. x \in Nat /\ x <= n /\ ~\E a : IsSum(f, x, a)
  OBVIOUS
<1>4. x # 0
  <2> SUFFICES ASSUME x = 0 PROVE FALSE
    OBVIOUS
  <2> DEFINE a == [k \in 0 .. 0 |-> 0]
  <2>1. IsSum(f, 0, a)
    BY DEF IsSum
  <2> QED BY <1>3, <2>1
<1> DEFINE m == x - 1
<1>5. m \in Nat /\ m <= n /\ ~(x <= m) /\ x = m + 1 /\ x \in 1 .. n
  BY <1>3, <1>4
<1>6. PICK a : IsSum(f, m, a)
  <2> HIDE DEF m
  <2> QED BY <1>2, <1>5
<1> HIDE DEF T, m
<1>7. /\ \A k \in 0 .. m : a[k] \in Int
      /\ a[0] = 0 /\ \A k \in 1 .. m : a[k] = a[k - 1] + f[k]
  BY <1>6 DEF IsSum
<1> DEFINE v == a[m] + f[x]
           b == [k \in 0 .. x |-> IF k = x THEN v ELSE a[k]]
<1>8. v \in Int
  BY <1>5, <1>7
<1>9. b \in [0 .. x -> Int]
  <2> SUFFICES ASSUME NEW k \in 0 .. x PROVE (IF k = x THEN v ELSE a[k]) \in Int
    OBVIOUS
  <2> HIDE DEF v
  <2>1. k = x \/ k \in 0 .. m
    BY <1>5
  <2> QED BY <2>1, <1>7, <1>8
<1>10. b[x] = v /\ \A k \in 0 .. m : b[k] = a[k]
  <2> HIDE DEF v
  <2>1. \A k \in 0 .. m : k \in 0 .. x /\ k # x
    BY <1>5
  <2> QED BY <2>1, <1>5
<1> HIDE DEF b
<1>11. ASSUME NEW k \in 1 .. x PROVE b[k] = b[k - 1] + f[k]
  <2>1. k - 1 \in 0 .. m /\ (k = x => k - 1 = m) /\ (k # x => k \in 1 .. m /\ k \in 0 .. m)
    BY <1>5
  <2>2. CASE k = x
    BY <2>1, <2>2, <1>10
  <2>3. CASE k # x
    BY <2>1, <2>3, <1>7, <1>10
  <2> QED BY <2>2, <2>3
<1>12. b[0] = 0
  BY <1>5, <1>7, <1>10
<1>13. IsSum(f, x, b)
  BY <1>9, <1>11, <1>12 DEF IsSum
<1> QED BY <1>3, <1>13

\* f is g, but for d more at x.
DiffersAt(f, g, n, x, d) ==
  \A k \in 1 .. n : g[k] \in Int /\ f[k] = IF k = x THEN g[k] + d ELSE g[k]

\* Then from x on every sum is larger by d.
LEMMA SumShift ==
  ASSUME NEW n \in Nat, NEW f, NEW g, NEW a, NEW b, IsSum(f, n, a), IsSum(g, n, b),
         NEW x \in Nat, NEW d \in Int, DiffersAt(f, g, n, x, d), x # 0
  PROVE  \A k \in 0 .. n : a[k] = IF x <= k THEN b[k] + d ELSE b[k]
<1> DEFINE T == {k \in 0 .. n : a[k] # IF x <= k THEN b[k] + d ELSE b[k]}
<1> SUFFICES ASSUME T # {} PROVE FALSE
  OBVIOUS
<1>1. PICK k \in T : \A l \in T : k <= l
  <2>1. T \in SUBSET Nat
    OBVIOUS
  <2> HIDE DEF T
  <2> QED BY <2>1, MinExists
<1>2. k \in 0 .. n /\ a[k] # IF x <= k THEN b[k] + d ELSE b[k]
  OBVIOUS
<1>3. /\ \A l \in 0 .. n : a[l] \in Int /\ b[l] \in Int
      /\ a[0] = 0 /\ b[0] = 0
      /\ \A l \in 1 .. n : a[l] = a[l - 1] + f[l] /\ b[l] = b[l - 1] + g[l]
  BY DEF IsSum
<1>4. k # 0
  BY <1>2, <1>3
<1>5. k \in 1 .. n /\ k - 1 \in 0 .. n /\ ~(k <= k - 1)
  BY <1>2, <1>4
<1>6. a[k - 1] = IF x <= k - 1 THEN b[k - 1] + d ELSE b[k - 1]
  BY <1>1, <1>5
<1> HIDE DEF T
<1>7. g[k] \in Int /\ f[k] = IF k = x THEN g[k] + d ELSE g[k]
  BY <1>5 DEF DiffersAt
<1>8. /\ a[k] = a[k - 1] + f[k] /\ b[k] = b[k - 1] + g[k]
      /\ a[k] \in Int /\ b[k] \in Int /\ a[k - 1] \in Int /\ b[k - 1] \in Int
  BY <1>3, <1>5, <1>2
<1> QED BY <1>2, <1>5, <1>6, <1>7, <1>8

\* The sum of f[1], ..., f[n].
total(f, n) == (CHOOSE a : IsSum(f, n, a))[n]

\* It is what any list of sums ends with.
LEMMA TotalIs ==
  ASSUME NEW n \in Nat, NEW f, \A k \in 1 .. n : f[k] \in Int, NEW a, IsSum(f, n, a)
  PROVE  total(f, n) = a[n] /\ a[n] \in Int
<1> DEFINE b == CHOOSE c : IsSum(f, n, c)
<1>1. IsSum(f, n, b)
  OBVIOUS
<1> HIDE DEF b
<1>2. DiffersAt(f, f, n, 1, 0)
  BY DEF DiffersAt
<1>3. n \in 0 .. n /\ 1 # 0 /\ 1 \in Nat /\ 0 \in Int
  OBVIOUS
<1>4. b[n] = IF 1 <= n THEN a[n] + 0 ELSE a[n]
  <2>1. \A k \in 0 .. n : b[k] = IF 1 <= k THEN a[k] + 0 ELSE a[k]
    BY <1>1, <1>2, <1>3, SumShift
  <2> QED BY <2>1, <1>3
<1>5. a[n] \in Int
  BY <1>3 DEF IsSum
<1>6. b[n] = a[n]
  BY <1>4, <1>5
<1> QED BY <1>5, <1>6 DEF total, b

\* One number more, behind the others.
LEMMA TotalOneMore ==
  ASSUME NEW n \in Nat, NEW f, NEW g, \A k \in 1 .. n : f[k] \in Int,
         \A k \in 1 .. n + 1 : g[k] \in Int, \A k \in 1 .. n : g[k] = f[k]
  PROVE  total(g, n + 1) = total(f, n) + g[n + 1]
<1>1. PICK a : IsSum(g, n + 1, a)
  BY SumExists
<1>2. /\ \A k \in 0 .. n + 1 : a[k] \in Int
      /\ a[0] = 0 /\ \A k \in 1 .. n + 1 : a[k] = a[k - 1] + g[k]
  BY <1>1 DEF IsSum
<1> DEFINE b == [k \in 0 .. n |-> a[k]]
<1>3. b \in [0 .. n -> Int] /\ b[0] = 0 /\ b[n] = a[n]
  BY <1>2
<1>4. ASSUME NEW k \in 1 .. n PROVE b[k] = b[k - 1] + f[k]
  <2>1. k \in 0 .. n /\ k - 1 \in 0 .. n /\ k \in 1 .. n + 1
    OBVIOUS
  <2>2. b[k] = a[k] /\ b[k - 1] = a[k - 1]
    BY <2>1
  <2> QED BY <2>1, <2>2, <1>2
<1> HIDE DEF b
<1>5. IsSum(f, n, b)
  BY <1>3, <1>4 DEF IsSum
<1>6. total(f, n) = a[n]
  BY <1>3, <1>5, TotalIs
<1>7. total(g, n + 1) = a[n + 1]
  BY <1>1, TotalIs
<1>8. a[n + 1] = a[n] + g[n + 1]
  <2>1. n + 1 \in 1 .. n + 1 /\ n + 1 - 1 = n
    OBVIOUS
  <2>2. a[n + 1] = a[n + 1 - 1] + g[n + 1]
    BY <2>1, <1>2
  <2> QED BY <2>1, <2>2
<1> QED BY <1>6, <1>7, <1>8

\* One number less: those behind it move down.
LEMMA TotalOneLess ==
  ASSUME NEW n \in Nat, NEW f, NEW g, NEW x \in 1 .. n, \A k \in 1 .. n : f[k] \in Int,
         \A k \in 1 .. n - 1 : g[k] = IF k < x THEN f[k] ELSE f[k + 1]
  PROVE  total(g, n - 1) = total(f, n) - f[x]
<1>1. PICK a : IsSum(f, n, a)
  BY SumExists
<1>2. /\ \A k \in 0 .. n : a[k] \in Int
      /\ a[0] = 0 /\ \A k \in 1 .. n : a[k] = a[k - 1] + f[k]
  BY <1>1 DEF IsSum
<1>3. n - 1 \in Nat /\ x \in Nat /\ x >= 1 /\ x <= n /\ f[x] \in Int
  OBVIOUS
<1> DEFINE e(k) == IF k < x THEN a[k] ELSE a[k + 1] - f[x]
           b == [k \in 0 .. n - 1 |-> e(k)]
<1>4. \A k \in 0 .. n - 1 : e(k) \in Int /\ b[k] = e(k)
  BY <1>2, <1>3
<1>5. b \in [0 .. n - 1 -> Int]
  <2> HIDE DEF e
  <2> QED BY <1>4
<1>6. e(0) = 0
  BY <1>2, <1>3
<1>7. \A k \in 1 .. n - 1 : g[k] \in Int
  BY <1>3
<1>8. ASSUME NEW k \in 1 .. n - 1 PROVE e(k) = e(k - 1) + g[k]
  <2>1. /\ k \in 0 .. n /\ k - 1 \in 0 .. n /\ k + 1 \in 0 .. n /\ k \in 1 .. n
        /\ k + 1 \in 1 .. n /\ k + 1 - 1 = k /\ k - 1 + 1 = k
    BY <1>3
  <2>2. /\ a[k] \in Int /\ a[k - 1] \in Int /\ a[k + 1] \in Int
        /\ f[k] \in Int /\ f[k + 1] \in Int
    BY <2>1, <1>2
  <2>3. a[k] = a[k - 1] + f[k] /\ a[k + 1] = a[k] + f[k + 1]
    <3>1. a[k + 1] = a[k + 1 - 1] + f[k + 1]
      BY <2>1, <1>2
    <3> QED BY <3>1, <2>1, <1>2
  <2>4. CASE k < x
    <3>1. e(k) = a[k] /\ e(k - 1) = a[k - 1] /\ g[k] = f[k]
      BY <2>4, <1>3
    <3> QED BY <3>1, <2>3
  <2>5. CASE ~(k < x)
    <3>1. e(k) = a[k + 1] - f[x] /\ g[k] = f[k + 1]
      BY <2>5
    <3>2. CASE k - 1 < x
      <4>1. k = x
        BY <2>5, <3>2, <1>3
      <4>2. e(k - 1) = a[k - 1]
        BY <3>2
      <4> QED BY <3>1, <4>1, <4>2, <2>2, <2>3
    <3>3. CASE ~(k - 1 < x)
      <4>1. e(k - 1) = a[k] - f[x]
        BY <3>3, <2>1
      <4> QED BY <3>1, <4>1, <2>2, <2>3, <1>3
    <3> QED BY <3>2, <3>3
  <2> QED BY <2>4, <2>5
<1>9. IsSum(g, n - 1, b)
  <2> HIDE DEF e, b
  <2>1. b[0] = 0
    BY <1>3, <1>4, <1>6
  <2>2. ASSUME NEW k \in 1 .. n - 1 PROVE b[k] = b[k - 1] + g[k]
    <3>1. k \in 0 .. n - 1 /\ k - 1 \in 0 .. n - 1
      BY <1>3
    <3> QED BY <3>1, <1>4, <1>8
  <2> QED BY <2>1, <2>2, <1>5 DEF IsSum
<1>10. e(n - 1) = a[n] - f[x]
  <2>1. CASE n - 1 < x
    <3>1. n = x /\ n \in 1 .. n
      BY <2>1, <1>3
    <3>2. a[n] = a[n - 1] + f[x] /\ a[n - 1] \in Int
      BY <3>1, <1>2, <1>3
    <3> QED BY <2>1, <3>2, <1>3
  <2>2. CASE ~(n - 1 < x)
    <3>1. n - 1 + 1 = n
      OBVIOUS
    <3> QED BY <2>2, <3>1
  <2> QED BY <2>1, <2>2
<1> HIDE DEF e, b
<1>11. total(g, n - 1) = b[n - 1]
  BY <1>3, <1>7, <1>9, TotalIs
<1>12. total(f, n) = a[n]
  BY <1>1, TotalIs
<1> QED BY <1>3, <1>4, <1>10, <1>11, <1>12

\* Those of the numbers f[1], ..., f[n] whose place is in s, and 0 for the others.
masked(f, n, s) == [k \in 1 .. n |-> IF k \in s THEN f[k] ELSE 0]

\* No place, every place, and one place less.
LEMMA MaskedTotals ==
  ASSUME NEW n \in Nat, NEW f, \A k \in 1 .. n : f[k] \in Int
  PROVE  /\ total(masked(f, n, {}), n) = 0
         /\ total(masked(f, n, 1 .. n), n) = total(f, n)
         /\ \A s \in SUBSET (1 .. n) : \A x \in s :
              total(masked(f, n, s), n) = f[x] + total(masked(f, n, s \ {x}), n)
<1>1. ASSUME NEW s
      PROVE  \A k \in 1 .. n : /\ masked(f, n, s)[k] = IF k \in s THEN f[k] ELSE 0
                               /\ masked(f, n, s)[k] \in Int
  BY DEF masked
<1>2. total(masked(f, n, {}), n) = 0
  <2> DEFINE z == [k \in 0 .. n |-> 0]
             m == masked(f, n, {})
  <2>1. \A k \in 1 .. n : m[k] = 0 /\ m[k] \in Int
    BY <1>1
  <2>2. z \in [0 .. n -> Int] /\ z[0] = 0 /\ z[n] = 0
        /\ \A k \in 1 .. n : z[k] = 0 /\ z[k - 1] = 0
    OBVIOUS
  <2> HIDE DEF z, m
  <2>3. IsSum(m, n, z)
    BY <2>1, <2>2 DEF IsSum
  <2>4. total(m, n) = z[n]
    BY <2>1, <2>3, TotalIs
  <2> QED BY <2>2, <2>4 DEF m
<1>3. total(masked(f, n, 1 .. n), n) = total(f, n)
  <2> DEFINE m == masked(f, n, 1 .. n)
  <2>1. \A k \in 1 .. n : m[k] = f[k] /\ m[k] \in Int
    BY <1>1
  <2> HIDE DEF m
  <2>2. PICK a : IsSum(f, n, a)
    BY SumExists
  <2>3. IsSum(m, n, a)
    BY <2>1, <2>2 DEF IsSum
  <2>4. total(m, n) = a[n] /\ total(f, n) = a[n]
    <3>1. total(m, n) = a[n]
      BY <2>1, <2>3, TotalIs
    <3>2. total(f, n) = a[n]
      BY <2>2, TotalIs
    <3> QED BY <3>1, <3>2
  <2> QED BY <2>4 DEF m
<1>4. ASSUME NEW s \in SUBSET (1 .. n), NEW x \in s
      PROVE  total(masked(f, n, s), n) = f[x] + total(masked(f, n, s \ {x}), n)
  <2> DEFINE m == masked(f, n, s)
             l == masked(f, n, s \ {x})
             d == f[x]
  <2>0. x \in 1 .. n /\ x \in Nat /\ x # 0 /\ d \in Int /\ x <= n /\ n \in 0 .. n
    OBVIOUS
  <2>1. \A k \in 1 .. n : m[k] \in Int /\ m[k] = IF k \in s THEN f[k] ELSE 0
    BY <1>1
  <2>2. \A k \in 1 .. n : l[k] \in Int /\ l[k] = IF k \in s \ {x} THEN f[k] ELSE 0
    BY <1>1
  <2> HIDE DEF m, l
  <2>3. DiffersAt(m, l, n, x, d)
    <3> SUFFICES ASSUME NEW k \in 1 .. n
                 PROVE  l[k] \in Int /\ m[k] = IF k = x THEN l[k] + d ELSE l[k]
      BY DEF DiffersAt
    <3> QED BY <2>1, <2>2
  <2>4. PICK a : IsSum(m, n, a)
    BY <2>1, SumExists
  <2>5. PICK b : IsSum(l, n, b)
    BY <2>2, SumExists
  <2> HIDE DEF d
  <2>6. a[n] = IF x <= n THEN b[n] + d ELSE b[n]
    <3>1. \A k \in 0 .. n : a[k] = IF x <= k THEN b[k] + d ELSE b[k]
      BY <2>0, <2>3, <2>4, <2>5, SumShift
    <3> QED BY <3>1, <2>0
  <2>7. total(m, n) = a[n]
    BY <2>1, <2>4, TotalIs
  <2>8. total(l, n) = b[n] /\ b[n] \in Int
    BY <2>2, <2>5, TotalIs
  <2>9. total(m, n) = d + total(l, n)
    BY <2>0, <2>6, <2>7, <2>8
  <2> QED BY <2>9 DEF m, l, d
<1> QED BY <1>2, <1>3, <1>4

\* h adds up f over any set of places, one place after another in whatever order.
IsFold(h, f, n) ==
  h = [s \in SUBSET (1 .. n) |->
         IF s = {} THEN 0
         ELSE f[CHOOSE x \in s : TRUE] + h[s \ {CHOOSE x \in s : TRUE}]]

\* The order does not matter: over all places it gives the sum.
LEMMA FoldIsTotal ==
  ASSUME NEW n \in Nat, NEW f, \A k \in 1 .. n : f[k] \in Int
  PROVE  /\ \E h : IsFold(h, f, n)
         /\ \A h : IsFold(h, f, n) => h[1 .. n] = total(f, n)
<1> DEFINE S == SUBSET (1 .. n)
           c(s) == CHOOSE x \in s : TRUE
           G(s) == total(masked(f, n, s), n)
<1>1. \A s \in S : s # {} => c(s) \in s /\ s \ {c(s)} \in S
  OBVIOUS
<1>2. G({}) = 0 /\ \A s \in S : s # {} => G(s) = f[c(s)] + G(s \ {c(s)})
  <2>1. G({}) = 0
    BY MaskedTotals
  <2>2. \A s \in S : \A x \in s : G(s) = f[x] + G(s \ {x})
    BY MaskedTotals
  <2> HIDE DEF G, c
  <2> QED BY <2>1, <2>2, <1>1
<1>3. G(1 .. n) = total(f, n)
  BY MaskedTotals
<1>4. 1 .. n \in S
  OBVIOUS
<1>5. \A s \in S : /\ IsFiniteSet(s) /\ Cardinality(s) \in Nat
                   /\ \A x \in s : Cardinality(s \ {x}) = Cardinality(s) - 1
  <2> SUFFICES ASSUME NEW s \in S
               PROVE  /\ IsFiniteSet(s) /\ Cardinality(s) \in Nat
                      /\ \A x \in s : Cardinality(s \ {x}) = Cardinality(s) - 1
    OBVIOUS
  <2>1. IsFiniteSet(1 .. n)
    BY FS_Interval
  <2>2. IsFiniteSet(s)
    BY <2>1, FS_Subset
  <2> QED BY <2>2, FS_CardinalityType, FS_RemoveElement
<1> HIDE DEF G
<1>6. \E h : IsFold(h, f, n)
  <2> DEFINE h == [s \in S |-> G(s)]
  <2>1. \A s \in S : h[s] = IF s = {} THEN 0 ELSE f[c(s)] + h[s \ {c(s)}]
    <3> SUFFICES ASSUME NEW s \in S
                 PROVE  h[s] = IF s = {} THEN 0 ELSE f[c(s)] + h[s \ {c(s)}]
      OBVIOUS
    <3>1. CASE s = {}
      BY <3>1, <1>2
    <3>2. CASE s # {}
      <4> HIDE DEF c, S
      <4>1. c(s) \in s /\ s \ {c(s)} \in S
        BY <3>2, <1>1
      <4>2. h[s] = G(s) /\ h[s \ {c(s)}] = G(s \ {c(s)})
        BY <4>1
      <4> QED BY <3>2, <4>2, <1>2
    <3> QED BY <3>1, <3>2
  <2>2. h = [s \in S |-> h[s]]
    OBVIOUS
  <2> HIDE DEF h
  <2>3. h = [s \in S |-> IF s = {} THEN 0 ELSE f[c(s)] + h[s \ {c(s)}]]
    <3> HIDE DEF c, S
    <3> QED BY <2>1, <2>2
  <2>4. IsFold(h, f, n)
    BY <2>3 DEF IsFold
  <2> QED BY <2>4
<1>7. ASSUME NEW h, IsFold(h, f, n) PROVE h[1 .. n] = total(f, n)
  <2>1. \A s \in S : h[s] = IF s = {} THEN 0 ELSE f[c(s)] + h[s \ {c(s)}]
    <3>1. h = [s \in S |-> IF s = {} THEN 0 ELSE f[c(s)] + h[s \ {c(s)}]]
      BY <1>7 DEF IsFold
    <3> HIDE DEF c, S
    <3> QED BY <3>1
  <2> HIDE DEF c, S
  <2> DEFINE T == {m \in Nat : \E s \in S : Cardinality(s) = m /\ h[s] # G(s)}
  <2>2. T = {}
    <3> SUFFICES ASSUME T # {} PROVE FALSE
      OBVIOUS
    <3>1. PICK m \in T : \A l \in T : m <= l
      <4>1. T \in SUBSET Nat
        OBVIOUS
      <4> HIDE DEF T
      <4> QED BY <4>1, MinExists
    <3>2. m \in Nat
      OBVIOUS
    <3>3. PICK s \in S : Cardinality(s) = m /\ h[s] # G(s)
      OBVIOUS
    <3>4. s # {}
      BY <3>3, <2>1, <1>2
    <3>5. c(s) \in s /\ s \ {c(s)} \in S
      BY <3>4, <1>1
    <3>6. Cardinality(s \ {c(s)}) = m - 1 /\ m - 1 \in Nat /\ ~(m <= m - 1)
      <4>1. Cardinality(s \ {c(s)}) = m - 1
        BY <3>3, <3>5, <1>5
      <4>2. Cardinality(s \ {c(s)}) \in Nat
        BY <3>5, <1>5
      <4> QED BY <4>1, <4>2, <3>2
    <3>7. h[s \ {c(s)}] = G(s \ {c(s)})
      <4>1. m - 1 \notin T
        <5> HIDE DEF T
        <5> QED BY <3>1, <3>6
      <4> QED BY <4>1, <3>5, <3>6
    <3> QED BY <3>3, <3>4, <3>7, <2>1, <1>2
  <2>3. h[1 .. n] = G(1 .. n)
    <3>1. Cardinality(1 .. n) \in Nat
      BY <1>4, <1>5
    <3> QED BY <3>1, <2>2, <1>4
  <2> QED BY <2>3, <1>3
<1> QED BY <1>6, <1>7
=============================================================================
