------------------------- MODULE BlockMerkleProofs --------------------------
(***************************************************************************)
(* What the merkle algorithms compute, proved for every number of leaves   *)
(* and of subtrees.                                                        *)
(*                                                                         *)
(* The store of a tree of height h is one array.  Its entries from         *)
(* 2^h - 2^(h - k + 1) on are level k of the tree, padded with zero hashes *)
(* to 2^(h - k) of them (At); the children of entry i of a level are       *)
(* entries 2 i and 2 i + 1 of the level below (LevelStep).  Level by level *)
(* the store agrees with the reference (LevelsAgree), so its last entry is *)
(* the reference's root (RootLemma).  A proof climbs the same levels, one  *)
(* sibling a level (ClimbStep, ProofLemma).  The levels of a block are,    *)
(* subtree by subtree, those of the subtrees (PartStep, RootsAreLevel), so *)
(* the padded roots compose (ComposeLemma), and the coinbase proof is two  *)
(* climbs, one after the other (ClimbConcat).                              *)
(***************************************************************************)
EXTENDS BlockMerkle, CommonLemmas

-----------------------------------------------------------------------------
(* The store.                                                              *)

\* Entry o of the store f over the leaves ls, from its pair of children.
Entry(ls, f, o, N) ==
  calcMerkle(getMerklePair(ls, f, 2 * o, N)[1], getMerklePair(ls, f, 2 * o, N)[2])

\* The first m entries of a store.
IsStore(ls, f, N, m) ==
  /\ f = [o \in 0 .. m - 1 |-> f[o]]
  /\ \A o \in 0 .. m - 1 : f[o] = Entry(ls, f, o, N)

\* An entry depends only on entries at lower offsets.
LEMMA EntrySame ==
  ASSUME NEW ls, NEW N \in Nat, NEW f, NEW g, NEW o \in 0 .. N - 2,
         \A p \in 0 .. o - 1 : f[p] = g[p]
  PROVE  Entry(ls, f, o, N) = Entry(ls, g, o, N)
<1>1. CASE 2 * o < N
  BY <1>1 DEF Entry, getMerklePair
<1>2. CASE ~(2 * o < N)
  <2>1. 2 * o - N \in 0 .. o - 1 /\ 2 * o - N + 1 \in 0 .. o - 1
    BY <1>2
  <2>2. f[2 * o - N] = g[2 * o - N] /\ f[2 * o - N + 1] = g[2 * o - N + 1]
    BY <2>1
  <2>3. getMerklePair(ls, f, 2 * o, N) = getMerklePair(ls, g, 2 * o, N)
    BY <1>2, <2>2, Zenon DEF getMerklePair
  <2> QED BY <2>3, Zenon DEF Entry
<1> QED BY <1>1, <1>2

\* The loop that fills the store runs to its end.
LEMMA StoreExists ==
  ASSUME NEW ls, NEW N \in Nat, NEW n \in Nat, n <= N - 1
  PROVE  \E f : IsStore(ls, f, N, n)
<1> DEFINE T == {m \in Nat : m <= N - 1 /\ ~\E f : IsStore(ls, f, N, m)}
<1> SUFFICES ASSUME T # {} PROVE FALSE
  OBVIOUS
<1>1. PICK x \in T : \A y \in T : x <= y
  BY MinExists
<1>2. CASE x = 0
  <2> DEFINE f == [o \in 0 .. 0 - 1 |-> ZeroHash]
  <2>1. f = [o \in 0 .. 0 - 1 |-> f[o]] /\ 0 .. 0 - 1 = {}
    OBVIOUS
  <2>2. IsStore(ls, f, N, 0)
    <3> HIDE DEF f
    <3> QED BY <2>1 DEF IsStore
  <2>3. x \notin T
    BY <2>2, <1>2
  <2> QED BY <2>3
<1>3. CASE x # 0
  <2> DEFINE m == x - 1
  <2>1. m \in Nat /\ m < x /\ x \in Nat /\ m \in 0 .. N - 2 /\ m <= N - 1
    BY <1>3
  <2>2. PICK f : IsStore(ls, f, N, m)
    BY <2>1, <1>1
  <2> DEFINE v == Entry(ls, f, m, N)
             g == [o \in 0 .. x - 1 |-> IF o = m THEN v ELSE f[o]]
  <2> HIDE DEF v
  <2>3. g = [o \in 0 .. x - 1 |-> g[o]]
    OBVIOUS
  <2>4. \A o \in 0 .. m - 1 : g[o] = f[o]
    BY <2>1
  <2>5. g[m] = v
    BY <2>1
  <2> HIDE DEF g, T
  <2>6. ASSUME NEW o \in 0 .. x - 1 PROVE g[o] = Entry(ls, g, o, N)
    <3>1. o \in 0 .. N - 2 /\ \A p \in 0 .. o - 1 : p \in 0 .. m - 1
      BY <2>1
    <3>2. \A p \in 0 .. o - 1 : f[p] = g[p]
      BY <3>1, <2>4
    <3>3. Entry(ls, f, o, N) = Entry(ls, g, o, N)
      BY <3>1, <3>2, EntrySame
    <3>4. CASE o = m
      BY <3>3, <3>4, <2>5 DEF v
    <3>5. CASE o # m
      <4>1. o \in 0 .. m - 1
        BY <3>5, <2>1
      <4>2. g[o] = f[o] /\ f[o] = Entry(ls, f, o, N)
        BY <4>1, <2>2, <2>4 DEF IsStore
      <4> QED BY <4>2, <3>3
    <3> QED BY <3>4, <3>5
  <2>7. IsStore(ls, g, N, x)
    BY <2>3, <2>6 DEF IsStore
  <2> QED BY <2>7 DEF T
<1> QED BY <1>2, <1>3

\* What BuildMerkleTreeStoreFromBytes returns for two leaves or more.
LEMMA StoreFacts ==
  ASSUME NEW ls, Len(ls) \in Nat, Len(ls) >= 2, NEW N \in Nat,
         N = NextPowerOfTwo(Len(ls)), N >= 1
  PROVE  IsStore(ls, BuildMerkleTreeStoreFromBytes(ls), N, N - 1)
<1> DEFINE P(f) == f = [o \in 0 .. N - 2 |->
                          calcMerkle(getMerklePair(ls, f, 2 * o, N)[1],
                                     getMerklePair(ls, f, 2 * o, N)[2])]
           store == BuildMerkleTreeStoreFromBytes(ls)
<1>1. Len(ls) # 0 /\ Len(ls) # 1
  <2> DEFINE n == Len(ls)
  <2>1. n \in Nat /\ n >= 2
    OBVIOUS
  <2> HIDE DEF n
  <2>2. n # 0 /\ n # 1
    BY <2>1
  <2> QED BY <2>2 DEF n
<1>2. store = CHOOSE f : P(f)
  BY <1>1, Zenon DEF BuildMerkleTreeStoreFromBytes
<1>3. N - 1 \in Nat /\ N - 1 <= N - 1 /\ (N - 1) - 1 = N - 2
  OBVIOUS
<1>4. PICK f : IsStore(ls, f, N, N - 1)
  BY <1>3, StoreExists
<1>5. /\ f = [o \in 0 .. N - 2 |-> f[o]]
      /\ \A o \in 0 .. N - 2 : f[o] = Entry(ls, f, o, N)
  <2>1. /\ f = [o \in 0 .. (N - 1) - 1 |-> f[o]]
        /\ \A o \in 0 .. (N - 1) - 1 : f[o] = Entry(ls, f, o, N)
    BY <1>4, Zenon DEF IsStore
  <2> QED BY <2>1, <1>3, Zenon
<1>6. P(f)
  BY <1>5, Zenon DEF Entry
<1>7. P(store)
  <2> HIDE DEF P, store
  <2> QED BY <1>2, <1>6, Zenon
<1> HIDE DEF store
<1>8. \A o \in 0 .. N - 2 : store[o] = Entry(ls, store, o, N)
  BY <1>7, Zenon DEF Entry
<1>9. store = [o \in 0 .. N - 2 |-> store[o]]
  BY <1>7, <1>8, Zenon DEF Entry
<1>10. IsStore(ls, store, N, N - 1)
  BY <1>3, <1>8, <1>9, Zenon DEF IsStore
<1> QED BY <1>10 DEF store

-----------------------------------------------------------------------------
(* Its levels.                                                             *)

\* Entry i of level k of a tree of height h, level 0 being the leaves.
At(ls, st, h, k, i) ==
  IF k = 0 THEN getNodeHashAt(ls, i) ELSE st[2^h - 2^(h - k + 1) + i]

\* The widths of a level and its neighbours.
LEMMA Widths ==
  ASSUME NEW h \in Nat, NEW k \in 0 .. h - 1
  PROVE  /\ 2^h \in Nat /\ 2^(h - k - 1) \in Nat /\ 2^(h - k - 1) >= 1
         /\ 2^(h - k) = 2 * 2^(h - k - 1)
         /\ 2^(h - k + 1) = 4 * 2^(h - k - 1)
         /\ k = 0 => 2^h = 2 * 2^(h - k - 1)
         /\ k # 0 => 2^h >= 4 * 2^(h - k - 1)
<1> DEFINE a == h - k - 1
<1>1. a \in Nat /\ a + 1 = h - k /\ (a + 1) + 1 = h - k + 1 /\ a + 1 \in Nat
  OBVIOUS
<1>2. 2^a \in Nat /\ 2^a >= 1 /\ 2^h \in Nat
  BY <1>1, PowerType
<1>3. 2^(h - k) = 2 * 2^a
  BY <1>1, PowerDoubles
<1>4. 2^(h - k + 1) = 2 * 2^(h - k)
  BY <1>1, PowerDoubles
<1>5. k = 0 => h - k = h
  OBVIOUS
<1>6. k # 0 => 2^h >= 2^(h - k + 1)
  <2> SUFFICES ASSUME k # 0 PROVE 2^h >= 2^(h - k + 1)
    OBVIOUS
  <2> DEFINE b == h - k + 1
  <2>1. b \in Nat /\ (b = h \/ b < h)
    OBVIOUS
  <2> HIDE DEF b
  <2>2. 2^b \in Nat /\ (b = h \/ 2^b < 2^h)
    BY <2>1, PowerType, PowerGrows
  <2>3. 2^h >= 2^b
    BY <2>2, <1>2
  <2> QED BY <2>3 DEF b
<1> DEFINE A == 2^a
           B == 2^(h - k)
           C == 2^(h - k + 1)
           N == 2^h
<1>7. A \in Nat /\ A >= 1 /\ N \in Nat /\ B = 2 * A /\ C = 2 * B
      /\ (k = 0 => N = B) /\ (k # 0 => N >= C)
  BY <1>2, <1>3, <1>4, <1>5, <1>6
<1> HIDE DEF A, B, C, N
<1>8. A \in Nat /\ A >= 1 /\ N \in Nat /\ B = 2 * A /\ C = 4 * A
      /\ (k = 0 => N = 2 * A) /\ (k # 0 => N >= 4 * A)
  BY <1>7
<1> QED BY <1>8 DEF A, B, C, N

\* An entry of a level is the parent of two neighbours of the level below.
LEMMA LevelStep ==
  ASSUME NEW ls, NEW st, NEW h \in Nat, IsStore(ls, st, 2^h, 2^h - 1),
         NEW k \in 0 .. h - 1, NEW i \in 0 .. 2^(h - k - 1) - 1
  PROVE  At(ls, st, h, k + 1, i)
           = calcMerkle(At(ls, st, h, k, 2 * i), At(ls, st, h, k, 2 * i + 1))
<1> DEFINE N == 2^h
           A == 2^(h - k - 1)
           o == N - 2 * A + i
<1>1. /\ N \in Nat /\ A \in Nat /\ A >= 1
      /\ 2^(h - k) = 2 * A /\ 2^(h - k + 1) = 4 * A
      /\ (k = 0 => N = 2 * A) /\ (k # 0 => N >= 4 * A)
  BY Widths
<1>2. k + 1 # 0 /\ h - (k + 1) + 1 = h - k
  OBVIOUS
<1>3. At(ls, st, h, k + 1, i) = st[o]
  <2>1. At(ls, st, h, k + 1, i) = st[2^h - 2^(h - (k + 1) + 1) + i]
    BY <1>2, Zenon DEF At
  <2> QED BY <2>1, <1>1, <1>2
<1>4. \A p \in 0 .. (N - 1) - 1 : st[p] = Entry(ls, st, p, N)
  BY DEF IsStore
<1>5. k # 0 => /\ At(ls, st, h, k, 2 * i) = st[N - 4 * A + 2 * i]
               /\ At(ls, st, h, k, 2 * i + 1) = st[N - 4 * A + (2 * i + 1)]
  BY <1>1, Zenon DEF At
<1>6. k = 0 => /\ At(ls, st, h, k, 2 * i) = getNodeHashAt(ls, 2 * i)
               /\ At(ls, st, h, k, 2 * i + 1) = getNodeHashAt(ls, 2 * i + 1)
  BY Zenon DEF At
<1>7. i \in 0 .. A - 1
  OBVIOUS
<1> HIDE DEF N, A
<1>8. o \in 0 .. (N - 1) - 1
  <2>1. N >= 2 * A
    BY <1>1
  <2> QED BY <2>1, <1>1, <1>7
<1>9. st[o] = calcMerkle(getMerklePair(ls, st, 2 * o, N)[1], getMerklePair(ls, st, 2 * o, N)[2])
  BY <1>4, <1>8, Zenon DEF Entry
<1>10. CASE k = 0
  <2>1. 2 * o = 2 * i /\ 2 * i < N
    BY <1>1, <1>7, <1>10
  <2>2. getMerklePair(ls, st, 2 * i, N) = <<getNodeHashAt(ls, 2 * i), getNodeHashAt(ls, 2 * i + 1)>>
    BY <2>1, Zenon DEF getMerklePair
  <2> QED BY <1>3, <1>6, <1>9, <1>10, <2>1, <2>2
<1>11. CASE k # 0
  <2>1. ~(2 * o < N) /\ 2 * o - N = N - 4 * A + 2 * i
        /\ 2 * o - N + 1 = N - 4 * A + (2 * i + 1)
    BY <1>1, <1>7, <1>11
  <2>2. getMerklePair(ls, st, 2 * o, N) = <<st[2 * o - N], st[2 * o - N + 1]>>
    BY <2>1, Zenon DEF getMerklePair
  <2> HIDE DEF o
  <2>3. getMerklePair(ls, st, 2 * o, N)
          = <<st[N - 4 * A + 2 * i], st[N - 4 * A + (2 * i + 1)]>>
    BY <2>1, <2>2
  <2> QED BY <1>3, <1>5, <1>9, <1>11, <2>3
<1> QED BY <1>10, <1>11

-----------------------------------------------------------------------------
(* The reference.                                                          *)

\* L holds the levels of the reference over s, up to level n.
IsLevels(s, L, n) ==
  /\ L = [k \in 0 .. n |-> L[k]]
  /\ L[0] = s
  /\ \A k \in 1 .. n : L[k] = ParentLevel(L[k - 1])

\* There are such levels.
LEMMA LevelsExist ==
  ASSUME NEW s, NEW n \in Nat
  PROVE  \E L : IsLevels(s, L, n)
<1> DEFINE T == {m \in Nat : ~\E L : IsLevels(s, L, m)}
<1> SUFFICES ASSUME T # {} PROVE FALSE
  OBVIOUS
<1>1. PICK x \in T : \A y \in T : x <= y
  BY MinExists
<1>2. CASE x = 0
  <2> DEFINE L == [k \in 0 .. 0 |-> s]
  <2>1. L = [k \in 0 .. 0 |-> L[k]] /\ L[0] = s /\ 1 .. 0 = {}
    OBVIOUS
  <2>2. IsLevels(s, L, 0)
    <3> HIDE DEF L
    <3> QED BY <2>1 DEF IsLevels
  <2>3. x \notin T
    BY <2>2, <1>2
  <2> QED BY <2>3
<1>3. CASE x # 0
  <2>1. x - 1 \in Nat /\ x - 1 < x /\ x \in Nat
    BY <1>3
  <2>2. PICK L : IsLevels(s, L, x - 1)
    BY <2>1, <1>1
  <2> DEFINE v == ParentLevel(L[x - 1])
             M == [k \in 0 .. x |-> IF k = x THEN v ELSE L[k]]
  <2> HIDE DEF v
  <2>3. M = [k \in 0 .. x |-> M[k]]
    OBVIOUS
  <2>4. \A k \in 0 .. x - 1 : M[k] = L[k]
    BY <2>1
  <2>5. M[x] = v
    BY <2>1
  <2> HIDE DEF M, T
  <2>6. M[0] = L[0]
    BY <2>4, <2>1
  <2>7. ASSUME NEW k \in 1 .. x PROVE M[k] = ParentLevel(M[k - 1])
    <3>1. k - 1 \in 0 .. x - 1
      BY <2>1
    <3>2. M[k - 1] = L[k - 1]
      BY <3>1, <2>4
    <3>3. CASE k = x
      BY <3>2, <3>3, <2>5, Zenon DEF v
    <3>4. CASE k # x
      <4>1. k \in 1 .. x - 1 /\ k \in 0 .. x - 1
        BY <3>4, <2>1
      <4>2. L[k] = ParentLevel(L[k - 1])
        BY <4>1, <2>2 DEF IsLevels
      <4>3. M[k] = L[k]
        BY <4>1, <2>4
      <4> QED BY <4>2, <4>3, <3>2
    <3> QED BY <3>3, <3>4
  <2>8. IsLevels(s, M, x)
    BY <2>2, <2>3, <2>6, <2>7, Zenon DEF IsLevels
  <2> QED BY <2>8 DEF T
<1> QED BY <1>2, <1>3

\* The reference root is on the last of them.
LEMMA FlatRootLevels ==
  ASSUME NEW s, Len(s) \in Nat
  PROVE  \E L : IsLevels(s, L, Len(s)) /\ FlatRoot(s) = L[Len(s)][1]
<1> DEFINE n == Len(s)
           P(L) == L = [k \in 0 .. n |-> IF k = 0 THEN s ELSE ParentLevel(L[k - 1])]
           c == CHOOSE L : P(L)
<1>1. FlatRoot(s) = c[n][1]
  BY Zenon DEF FlatRoot
<1> HIDE DEF n
<1>2. n \in Nat
  BY DEF n
<1>3. PICK L : IsLevels(s, L, n)
  BY <1>2, LevelsExist
<1>4. P(L)
  <2>1. ASSUME NEW k \in 0 .. n PROVE L[k] = IF k = 0 THEN s ELSE ParentLevel(L[k - 1])
    <3>1. k = 0 \/ k \in 1 .. n
      BY <1>2
    <3>2. L[0] = s /\ \A i \in 1 .. n : L[i] = ParentLevel(L[i - 1])
      BY <1>3 DEF IsLevels
    <3> QED BY <3>1, <3>2
  <2>2. L = [k \in 0 .. n |-> L[k]]
    BY <1>3 DEF IsLevels
  <2> QED BY <2>1, <2>2, Zenon
<1>5. P(c)
  BY <1>4, Zenon
<1>6. IsLevels(s, c, n)
  <2> HIDE DEF c
  <2>1. ASSUME NEW k \in 0 .. n PROVE c[k] = IF k = 0 THEN s ELSE ParentLevel(c[k - 1])
    BY <1>5
  <2>2. 0 \in 0 .. n
    BY <1>2
  <2>3. c[0] = s
    BY <2>1, <2>2
  <2>4. ASSUME NEW k \in 1 .. n PROVE c[k] = ParentLevel(c[k - 1])
    <3>1. k \in 0 .. n /\ k # 0
      BY <1>2
    <3> QED BY <3>1, <2>1
  <2>5. c = [k \in 0 .. n |-> c[k]]
    BY <1>5, <2>1, Zenon
  <2> QED BY <2>3, <2>4, <2>5 DEF IsLevels
<1> QED BY <1>1, <1>6 DEF n

\* Hashes of nodes that are there.
Real == Hash \ {ZeroHash}

\* The parent of two hashes is a hash, and not the zero hash.
LEMMA ParentReal ==
  ASSUME NEW l \in Real, NEW r \in Real
  PROVE  H(l, r) \in Real
<1>1. l \in Seq(Nat) /\ r \in Seq(Nat)
  BY DEF Real, Hash
<1>2. <<0>> \in Seq(Nat) /\ Len(<<0>>) = 1
  OBVIOUS
<1> DEFINE a == <<0>>
           b == a \o l
           c == b \o r
<1> HIDE DEF a
<1>3. b \in Seq(Nat) /\ Len(b) = 1 + Len(l)
  BY <1>1, <1>2 DEF a
<1>4. c \in Seq(Nat) /\ Len(c) = 1 + Len(l) + Len(r) /\ Len(l) \in Nat /\ Len(r) \in Nat
  <2> HIDE DEF b
  <2>1. b \o r \in Seq(Nat) /\ Len(b \o r) = Len(b) + Len(r)
    BY <1>1, <1>3, ConcatProperties, Zenon
  <2> QED BY <1>1, <1>3, <2>1
<1>5. H(l, r) = c
  BY DEF H, a
<1> HIDE DEF c
<1>6. c # << >>
  BY <1>4
<1> QED BY <1>4, <1>5, <1>6 DEF Real, Hash, ZeroHash

\* The parents of a level of two nodes or more.
LEMMA ParentLevelFacts ==
  ASSUME NEW s \in Seq(Real), Len(s) >= 2
  PROVE  /\ ParentLevel(s) \in Seq(Real)
         /\ Len(ParentLevel(s)) = (Len(s) + 1) \div 2
         /\ \A i \in 1 .. (Len(s) + 1) \div 2 :
              ParentLevel(s)[i]
                = H(s[2 * i - 1], IF 2 * i <= Len(s) THEN s[2 * i] ELSE s[2 * i - 1])
<1> DEFINE n == Len(s)
           m == (n + 1) \div 2
           e(i) == H(s[2 * i - 1], IF 2 * i <= n THEN s[2 * i] ELSE s[2 * i - 1])
           p == [i \in 1 .. m |-> e(i)]
<1>1. n \in Nat /\ n # 1 /\ m \in Nat /\ n >= 2
  <2>1. n \in Nat /\ n >= 2
    OBVIOUS
  <2> HIDE DEF n
  <2>2. n # 1 /\ m \in Nat
    BY <2>1
  <2> QED BY <2>1, <2>2
<1>2. ParentLevel(s) = p
  BY <1>1, Zenon DEF ParentLevel
<1>3. ASSUME NEW i \in 1 .. m PROVE e(i) \in Real
  <2> DEFINE r == IF 2 * i <= n THEN s[2 * i] ELSE s[2 * i - 1]
  <2>1. 2 * i - 1 \in 1 .. n /\ (2 * i <= n => 2 * i \in 1 .. n)
    BY <1>1
  <2>2. s[2 * i - 1] \in Real /\ r \in Real
    BY <2>1
  <2> HIDE DEF r
  <2>3. H(s[2 * i - 1], r) \in Real
    BY <2>2, ParentReal
  <2> QED BY <2>3 DEF r
<1> HIDE DEF e, m
<1>4. p \in Seq(Real) /\ Len(p) = m /\ \A i \in 1 .. m : p[i] = e(i)
  <2>1. p \in [1 .. m -> Real]
    BY <1>3
  <2>2. \A i \in 1 .. m : p[i] = e(i)
    OBVIOUS
  <2> QED BY <1>1, <2>1, <2>2
<1> HIDE DEF p
<1> QED BY <1>2, <1>4 DEF e, m

-----------------------------------------------------------------------------
(* Level by level.                                                         *)

\* Level k of the store is level k of the reference, padded.
Agrees(ls, st, h, l, k) ==
  /\ l \in Seq(Real)
  /\ Len(l) >= 1 /\ Len(l) <= 2^(h - k)
  /\ k < h => 2^(h - k - 1) < Len(l)
  /\ \A i \in 0 .. 2^(h - k) - 1 :
       At(ls, st, h, k, i) = IF i < Len(l) THEN l[i + 1] ELSE ZeroHash

\* calcMerkle of two neighbours of such a level is the reference's parent.
LEMMA ParentAgrees ==
  ASSUME NEW ls, NEW st, NEW h \in Nat, IsStore(ls, st, 2^h, 2^h - 1),
         NEW k \in 0 .. h - 1, NEW l, Agrees(ls, st, h, l, k)
  PROVE  Agrees(ls, st, h, ParentLevel(l), k + 1)
<1> DEFINE A == 2^(h - k - 1)
           n == Len(l)
           q == ParentLevel(l)
           m == Len(q)
           at(i) == At(ls, st, h, k, i)
           up(i) == At(ls, st, h, k + 1, i)
<1>1. A \in Nat /\ A >= 1 /\ 2^(h - k) = 2 * A
  BY Widths
<1>2. /\ l \in Seq(Real) /\ n \in Nat /\ n >= 1 /\ n <= 2 * A /\ A < n
      /\ \A i \in 0 .. 2 * A - 1 : at(i) = IF i < n THEN l[i + 1] ELSE ZeroHash
  <2>1. k < h
    OBVIOUS
  <2> QED BY <1>1, <2>1 DEF Agrees
<1>3. n >= 2
  BY <1>1, <1>2
<1>4. /\ q \in Seq(Real) /\ m = (n + 1) \div 2
      /\ \A i \in 1 .. m : q[i] = H(l[2 * i - 1], IF 2 * i <= n THEN l[2 * i] ELSE l[2 * i - 1])
  BY <1>2, <1>3, ParentLevelFacts
<1>5. \A i \in 0 .. A - 1 : up(i) = calcMerkle(at(2 * i), at(2 * i + 1))
  BY LevelStep
<1>6. k + 1 < h => /\ 2^(h - (k + 1) - 1) \in Nat
                   /\ A = 2 * 2^(h - (k + 1) - 1)
  <2> SUFFICES ASSUME k + 1 < h
               PROVE  2^(h - (k + 1) - 1) \in Nat /\ A = 2 * 2^(h - (k + 1) - 1)
    OBVIOUS
  <2> DEFINE j == k + 1
  <2>1. j \in 0 .. h - 1 /\ h - j = h - k - 1
    OBVIOUS
  <2>2. 2^(h - j - 1) \in Nat /\ 2^(h - j) = 2 * 2^(h - j - 1)
    <3> HIDE DEF j
    <3> QED BY <2>1, Widths
  <2> QED BY <2>1, <2>2
<1>7. h - (k + 1) = h - k - 1
  OBVIOUS
<1>8. \A i \in 0 .. 2 * A - 1 : i < n => l[i + 1] \in Real
  BY <1>2
<1> HIDE DEF A, n, q, m, at, up
<1>9. m \in Nat /\ m >= 1 /\ m <= A
  BY <1>1, <1>2, <1>3, <1>4
<1>10. k + 1 < h => 2^(h - (k + 1) - 1) < m
  <2> DEFINE B == 2^(h - (k + 1) - 1)
  <2>1. k + 1 < h => B \in Nat /\ A = 2 * B
    BY <1>6
  <2> HIDE DEF B
  <2>2. k + 1 < h => B < m
    BY <2>1, <1>1, <1>2, <1>4
  <2> QED BY <2>2 DEF B
<1>11. ASSUME NEW i \in 0 .. A - 1
       PROVE  up(i) = IF i < m THEN q[i + 1] ELSE ZeroHash
  <2>1. 2 * i \in 0 .. 2 * A - 1 /\ 2 * i + 1 \in 0 .. 2 * A - 1
    BY <1>1
  <2>2. up(i) = calcMerkle(at(2 * i), at(2 * i + 1))
    BY <1>5
  <2>3. /\ at(2 * i) = IF 2 * i < n THEN l[2 * i + 1] ELSE ZeroHash
        /\ at(2 * i + 1) = IF 2 * i + 1 < n THEN l[(2 * i + 1) + 1] ELSE ZeroHash
    BY <2>1, <1>2
  <2>4. CASE ~(i < m)
    <3>1. ~(2 * i < n)
      BY <2>4, <1>2, <1>4, <1>9
    <3>2. at(2 * i) = ZeroHash
      BY <2>3, <3>1
    <3>3. calcMerkle(at(2 * i), at(2 * i + 1)) = ZeroHash
      BY <3>2, Zenon DEF calcMerkle
    <3> QED BY <2>2, <2>4, <3>3
  <2>5. CASE i < m
    <3>1. 2 * i < n /\ i + 1 \in 1 .. m /\ 2 * (i + 1) - 1 = 2 * i + 1
          /\ 2 * (i + 1) = (2 * i + 1) + 1 /\ (2 * i + 1 < n <=> 2 * (i + 1) <= n)
      BY <2>5, <1>2, <1>4, <1>9
    <3>2. q[i + 1] = H(l[2 * (i + 1) - 1],
                       IF 2 * (i + 1) <= n THEN l[2 * (i + 1)] ELSE l[2 * (i + 1) - 1])
      BY <3>1, <1>4
    <3>3. at(2 * i) = l[2 * i + 1] /\ at(2 * i) # ZeroHash
      BY <2>1, <2>3, <3>1, <1>8 DEF Real
    <3>4. CASE 2 * i + 1 < n
      <4>1. at(2 * i + 1) = l[(2 * i + 1) + 1] /\ at(2 * i + 1) # ZeroHash
        BY <2>1, <2>3, <3>4, <1>8 DEF Real
      <4>2. calcMerkle(at(2 * i), at(2 * i + 1)) = H(at(2 * i), at(2 * i + 1))
        BY <3>3, <4>1, Zenon DEF calcMerkle
      <4>3. q[i + 1] = H(l[2 * i + 1], l[(2 * i + 1) + 1])
        BY <3>1, <3>2, <3>4
      <4> QED BY <2>2, <2>5, <3>3, <4>1, <4>2, <4>3
    <3>5. CASE ~(2 * i + 1 < n)
      <4>1. at(2 * i + 1) = ZeroHash
        BY <2>3, <3>5
      <4>2. calcMerkle(at(2 * i), at(2 * i + 1)) = H(at(2 * i), at(2 * i))
        BY <3>3, <4>1, Zenon DEF calcMerkle
      <4>3. q[i + 1] = H(l[2 * i + 1], l[2 * i + 1])
        BY <3>1, <3>2, <3>5
      <4> QED BY <2>2, <2>5, <3>3, <4>2, <4>3
    <3> QED BY <3>4, <3>5
  <2> QED BY <2>4, <2>5
<1>12. /\ q \in Seq(Real) /\ Len(q) >= 1 /\ Len(q) <= 2^(h - (k + 1))
       /\ (k + 1 < h => 2^(h - (k + 1) - 1) < Len(q))
       /\ \A i \in 0 .. 2^(h - (k + 1)) - 1 :
            At(ls, st, h, k + 1, i) = IF i < Len(q) THEN q[i + 1] ELSE ZeroHash
  BY <1>4, <1>7, <1>9, <1>10, <1>11 DEF A, m, up
<1>13. Agrees(ls, st, h, q, k + 1)
  BY <1>12 DEF Agrees
<1> QED BY <1>13 DEF q

\* Every level of the store is the reference's.
LEMMA LevelsAgree ==
  ASSUME NEW ls, NEW st, NEW h \in Nat, IsStore(ls, st, 2^h, 2^h - 1),
         NEW L, L[0] = ls, \A k \in 1 .. h : L[k] = ParentLevel(L[k - 1]),
         Agrees(ls, st, h, ls, 0)
  PROVE  \A k \in 0 .. h : Agrees(ls, st, h, L[k], k)
<1> DEFINE T == {k \in 0 .. h : ~Agrees(ls, st, h, L[k], k)}
<1> SUFFICES ASSUME T # {} PROVE FALSE
  OBVIOUS
<1>1. PICK x \in T : \A y \in T : x <= y
  <2>1. T \in SUBSET Nat
    OBVIOUS
  <2> HIDE DEF T
  <2> QED BY <2>1, MinExists
<1>2. x \in 0 .. h /\ ~Agrees(ls, st, h, L[x], x)
  OBVIOUS
<1>3. x # 0
  BY <1>2
<1> DEFINE k == x - 1
<1>4. k \in 0 .. h - 1 /\ x \in 1 .. h /\ k + 1 = x /\ k \in 0 .. h /\ ~(x <= k)
  BY <1>2, <1>3
<1>5. Agrees(ls, st, h, L[k], k)
  BY <1>1, <1>4
<1>6. L[x] = ParentLevel(L[k])
  BY <1>4
<1> HIDE DEF k
<1>7. Agrees(ls, st, h, ParentLevel(L[k]), k + 1)
  BY <1>4, <1>5, ParentAgrees
<1> QED BY <1>2, <1>4, <1>6, <1>7

\* The leaves are level 0 of a store of their height.
LEMMA LeavesAgree ==
  ASSUME NEW ls \in Seq(Real), Len(ls) >= 1, NEW st, NEW h, h = Log2Ceil(Len(ls))
  PROVE  h \in Nat /\ Agrees(ls, st, h, ls, 0)
<1> DEFINE n == Len(ls)
<1>1. n \in Nat /\ n >= 1
  OBVIOUS
<1>2. h \in Nat /\ n <= 2^h /\ \A j \in Nat : j < h => 2^j < n
  <2> HIDE DEF n
  <2>1. h = Log2Ceil(n)
    BY DEF n
  <2> QED BY <1>1, <2>1, Log2CeilLemma
<1>3. h - 0 = h /\ h - 0 - 1 = h - 1
  BY <1>2
<1>4. 0 < h => 2^(h - 1) < n
  <2>1. 0 < h => h - 1 \in Nat /\ h - 1 < h
    BY <1>2
  <2> QED BY <2>1, <1>2
<1>5. \A i \in 0 .. 2^h - 1 :
        At(ls, st, h, 0, i) = IF i < n THEN ls[i + 1] ELSE ZeroHash
  <2> SUFFICES ASSUME NEW i \in 0 .. 2^h - 1
               PROVE  At(ls, st, h, 0, i) = IF i < n THEN ls[i + 1] ELSE ZeroHash
    OBVIOUS
  <2>1. At(ls, st, h, 0, i) = IF i >= n THEN ZeroHash ELSE ls[i + 1]
    BY Zenon DEF At, getNodeHashAt
  <2>2. i \in Int
    OBVIOUS
  <2> HIDE DEF n
  <2>3. (i < n) <=> ~(i >= n)
    BY <1>1, <2>2
  <2> QED BY <2>1, <2>3, Zenon
<1> QED BY <1>1, <1>2, <1>3, <1>4, <1>5 DEF Agrees

\* From a level of one hash on, the levels stay the same.
LEMMA LevelsStay ==
  ASSUME NEW L, NEW h \in Nat, NEW n \in Nat, h <= n, Len(L[h]) = 1,
         \A k \in 1 .. n : L[k] = ParentLevel(L[k - 1])
  PROVE  L[n] = L[h]
<1> DEFINE T == {k \in Nat : h <= k /\ k <= n /\ L[k] # L[h]}
<1> SUFFICES ASSUME T # {} PROVE FALSE
  OBVIOUS
<1>1. PICK x \in T : \A y \in T : x <= y
  BY MinExists
<1>2. x \in Nat /\ h <= x /\ x <= n /\ L[x] # L[h]
  OBVIOUS
<1>3. x # h
  BY <1>2
<1> DEFINE k == x - 1
<1>4. k \in Nat /\ h <= k /\ k <= n /\ x \in 1 .. n /\ ~(x <= k)
  BY <1>2, <1>3
<1>5. L[k] = L[h] /\ L[x] = ParentLevel(L[k])
  BY <1>1, <1>4
<1>6. ParentLevel(L[h]) = L[h]
  BY DEF ParentLevel
<1> QED BY <1>2, <1>5, <1>6

\* The tree over two leaves or more, and its root.
LEMMA TreeFacts ==
  ASSUME NEW ls \in Seq(Real), Len(ls) >= 2, NEW h, h = Log2Ceil(Len(ls)),
         NEW st, st = BuildMerkleTreeStoreFromBytes(ls)
  PROVE  /\ h \in Nat /\ h >= 1 /\ h <= Len(ls)
         /\ NextPowerOfTwo(Len(ls)) = 2^h
         /\ IsStore(ls, st, 2^h, 2^h - 1)
         /\ Agrees(ls, st, h, ls, 0)
         /\ MerkleRoot(ls) = At(ls, st, h, h, 0)
<1> DEFINE n == Len(ls)
<1>1. n \in Nat /\ n >= 2
  OBVIOUS
<1>2. n >= 1 /\ n # 1
  <2> HIDE DEF n
  <2> QED BY <1>1
<1>3. h \in Nat /\ Agrees(ls, st, h, ls, 0)
  BY <1>2, LeavesAgree
<1>4. NextPowerOfTwo(n) = 2^h /\ 2^h \in Nat /\ 2^h >= 1
  <2>1. NextPowerOfTwo(n) = 2^h
    <3>1. h = Log2Ceil(n)
      OBVIOUS
    <3> HIDE DEF n
    <3> QED BY <1>1, <1>2, <3>1, NextPowerLemma
  <2> QED BY <2>1, <1>3, PowerType
<1>5. IsStore(ls, st, 2^h, 2^h - 1)
  BY <1>1, <1>4, StoreFacts
<1>6. MerkleRoot(ls) = st[2^h - 2]
  BY <1>2, <1>4, Zenon DEF MerkleRoot
<1>7. h <= n /\ h >= 1
  <2>1. h = Log2Ceil(n)
    OBVIOUS
  <2> HIDE DEF n
  <2>2. (\A j \in Nat : j < h => 2^j < n) /\ n <= 2^h
    BY <1>1, <1>2, <2>1, Log2CeilLemma
  <2>3. n < 2^n /\ 2^n \in Nat
    BY <1>1, PowerAbove, PowerType
  <2>4. ~(n < h)
    BY <1>1, <2>2, <2>3
  <2>5. h # 0
    <3> SUFFICES ASSUME h = 0 PROVE FALSE
      OBVIOUS
    <3>1. 2^0 = 1
      OBVIOUS
    <3>2. n <= 1
      BY <2>2, <3>1
    <3> QED BY <1>1, <3>2
  <2> QED BY <1>1, <1>3, <2>4, <2>5
<1>8. At(ls, st, h, h, 0) = st[2^h - 2]
  <2>1. h # 0 /\ h - h + 1 = 1
    BY <1>3, <1>7
  <2>2. At(ls, st, h, h, 0) = st[2^h - 2^1 + 0]
    BY <2>1 DEF At
  <2>3. 2^h - 2^1 + 0 = 2^h - 2
    <3> DEFINE N == 2^h
               u == 2^1
    <3>1. u = 2
      OBVIOUS
    <3>2. N \in Nat
      BY <1>4
    <3> HIDE DEF N, u
    <3>3. N - u + 0 = N - 2
      BY <3>1, <3>2
    <3> QED BY <3>3 DEF N, u
  <2> QED BY <2>2, <2>3
<1> QED BY <1>3, <1>4, <1>5, <1>6, <1>7, <1>8

\* The tree over one leaf.
LEMMA OneLeaf ==
  ASSUME NEW ls, Len(ls) = 1
  PROVE  MerkleRoot(ls) = ls[1]
<1> DEFINE st == BuildMerkleTreeStoreFromBytes(ls)
<1>1. Len(ls) # 0
  OBVIOUS
<1>2. st = [offset \in {0} |-> ls[1]]
  BY <1>1, Zenon DEF BuildMerkleTreeStoreFromBytes
<1>3. MerkleRoot(ls) = st[0]
  BY Zenon DEF MerkleRoot
<1>4. st[0] = ls[1]
  BY <1>2
<1> QED BY <1>3, <1>4

\* The reference reaches a single hash, the root, at the height of the store.
LEMMA LevelsShrink ==
  ASSUME NEW s \in Seq(Real), Len(s) >= 1, NEW g, g = Log2Ceil(Len(s)),
         NEW L, L[0] = s, \A k \in 1 .. Len(s) : L[k] = ParentLevel(L[k - 1])
  PROVE  /\ g \in Nat /\ g <= Len(s)
         /\ L[g] \in Seq(Real) /\ Len(L[g]) = 1 /\ L[g][1] = MerkleRoot(s)
         /\ \A k \in 0 .. g - 1 : Len(L[k]) # 1
<1> DEFINE n == Len(s)
           st == BuildMerkleTreeStoreFromBytes(s)
<1>1. n \in Nat /\ n >= 1
  OBVIOUS
<1>2. CASE n = 1
  <2>1. MerkleRoot(s) = s[1]
    BY <1>2, OneLeaf
  <2>2. g \in Nat /\ \A j \in Nat : j < g => 2^j < n
    <3>1. g = Log2Ceil(n)
      OBVIOUS
    <3> HIDE DEF n
    <3> QED BY <1>1, <3>1, Log2CeilLemma
  <2>3. g = 0
    <3>1. 0 < g => 2^0 < n
      <4>1. 0 \in Nat
        OBVIOUS
      <4> QED BY <2>2, <4>1, Zenon
    <3> HIDE DEF n
    <3>2. ~(0 < g)
      BY <1>2, <3>1
    <3> QED BY <2>2, <3>2
  <2> QED BY <1>2, <2>1, <2>3
<1>3. CASE n # 1
  <2>1. n >= 2
    <3> HIDE DEF n
    <3> QED BY <1>1, <1>3
  <2>2. /\ g \in Nat /\ g >= 1 /\ g <= n
        /\ IsStore(s, st, 2^g, 2^g - 1)
        /\ Agrees(s, st, g, s, 0)
        /\ MerkleRoot(s) = At(s, st, g, g, 0)
    BY <2>1, TreeFacts
  <2>3. \A k \in 1 .. n : L[k] = ParentLevel(L[k - 1])
    OBVIOUS
  <2> HIDE DEF n, st
  <2>4. \A k \in 0 .. g : Agrees(s, st, g, L[k], k)
    <3>1. \A k \in 1 .. g : L[k] = ParentLevel(L[k - 1])
      BY <1>1, <2>2, <2>3
    <3> QED BY <2>2, <3>1, LevelsAgree
  <2>5. g \in 0 .. g /\ g - g = 0 /\ 2^0 = 1
    BY <2>2
  <2>6. L[g] \in Seq(Real) /\ Len(L[g]) = 1 /\ At(s, st, g, g, 0) = L[g][1]
    <3>1. Agrees(s, st, g, L[g], g)
      BY <2>4, <2>5
    <3>2. L[g] \in Seq(Real) /\ Len(L[g]) >= 1 /\ Len(L[g]) <= 1
          /\ \A i \in 0 .. 1 - 1 : At(s, st, g, g, i) = IF i < Len(L[g]) THEN L[g][i + 1] ELSE ZeroHash
      BY <2>5, <3>1 DEF Agrees
    <3> DEFINE w == Len(L[g])
    <3>3. w \in Nat /\ w >= 1 /\ w <= 1
      BY <3>2
    <3> HIDE DEF w
    <3>4. w = 1
      BY <3>3
    <3>5. Len(L[g]) = 1
      BY <3>4 DEF w
    <3>6. 0 \in 0 .. 1 - 1 /\ 0 < 1 /\ 0 + 1 = 1
      OBVIOUS
    <3> QED BY <3>2, <3>5, <3>6
  <2>7. ASSUME NEW k \in 0 .. g - 1 PROVE Len(L[k]) # 1
    <3>1. k \in 0 .. g /\ k < g
      BY <2>2
    <3>2. Agrees(s, st, g, L[k], k)
      BY <2>4, <3>1
    <3> DEFINE A == 2^(g - k - 1)
               w == Len(L[k])
    <3>3. A \in Nat /\ A >= 1
      BY <2>2, Widths
    <3>4. A < w
      BY <3>1, <3>2 DEF Agrees
    <3> HIDE DEF A, w
    <3>5. w # 1
      BY <3>3, <3>4
    <3> QED BY <3>5 DEF w
  <2> QED BY <2>2, <2>6, <2>7 DEF n
<1> QED BY <1>2, <1>3

\* The reference's root, read from any list of levels that is long enough.
LEMMA FlatRootAny ==
  ASSUME NEW s \in Seq(Real), Len(s) >= 1, NEW n \in Nat, Len(s) <= n,
         NEW L, L[0] = s, \A k \in 1 .. n : L[k] = ParentLevel(L[k - 1])
  PROVE  FlatRoot(s) = L[n][1] /\ FlatRoot(s) = MerkleRoot(s)
<1> DEFINE m == Len(s)
           g == Log2Ceil(m)
<1>1. m \in Nat /\ m >= 1 /\ m <= n
  OBVIOUS
<1>2. PICK M : IsLevels(s, M, m) /\ FlatRoot(s) = M[m][1]
  BY <1>1, FlatRootLevels
<1>3. M[0] = s /\ \A k \in 1 .. m : M[k] = ParentLevel(M[k - 1])
  BY <1>2 DEF IsLevels
<1>4. \A k \in 1 .. m : L[k] = ParentLevel(L[k - 1])
  <2> HIDE DEF m
  <2>1. \A k \in 1 .. m : k \in 1 .. n
    BY <1>1
  <2> QED BY <2>1
<1>5. g \in Nat /\ g <= m /\ Len(L[g]) = 1 /\ L[g][1] = MerkleRoot(s)
  BY <1>4, LevelsShrink
<1>6. g \in Nat /\ Len(M[g]) = 1 /\ M[g][1] = MerkleRoot(s)
  BY <1>3, LevelsShrink
<1> HIDE DEF m, g
<1>7. L[n] = L[g]
  <2>1. g <= n
    BY <1>1, <1>5
  <2> QED BY <1>5, <2>1, LevelsStay
<1>8. M[m] = M[g]
  BY <1>1, <1>3, <1>5, <1>6, LevelsStay
<1> QED BY <1>2, <1>5, <1>6, <1>7, <1>8

\* The last entry of the store is the root of the reference, and a hash.
LEMMA RootLemma ==
  ASSUME NEW s \in Seq(Real), Len(s) >= 1
  PROVE  MerkleRoot(s) = FlatRoot(s) /\ MerkleRoot(s) \in Real
<1> DEFINE n == Len(s)
<1>1. n \in Nat /\ n <= n
  OBVIOUS
<1>2. PICK L : IsLevels(s, L, n)
  BY <1>1, LevelsExist
<1>3. L[0] = s /\ \A k \in 1 .. n : L[k] = ParentLevel(L[k - 1])
  BY <1>2 DEF IsLevels
<1>4. MerkleRoot(s) \in Real
  <2> DEFINE g == Log2Ceil(n)
  <2>1. L[g] \in Seq(Real) /\ Len(L[g]) = 1 /\ L[g][1] = MerkleRoot(s)
    BY <1>3, LevelsShrink
  <2> HIDE DEF g
  <2>2. L[g][1] \in Real
    BY <2>1
  <2> QED BY <2>1, <2>2
<1> QED BY <1>1, <1>3, <1>4, FlatRootAny

-----------------------------------------------------------------------------
(* Climbing with a proof.                                                  *)

\* Halving a position is dropping one more bit of the index.
LEMMA DivHalf ==
  ASSUME NEW x \in Nat, NEW d \in Nat, d >= 1
  PROVE  x \div (2 * d) = (x \div d) \div 2
OBVIOUS

\* One step of the verifier.
Climb(index, proof, v, j) ==
  IF (index \div 2^(j - 1)) % 2 = 0 THEN H(v, proof[j]) ELSE H(proof[j], v)

\* The hashes f, from the leaf on, obey the verifier's step.
IsClimb(leaf, index, proof, f, n) ==
  /\ f = [j \in 0 .. n |-> f[j]]
  /\ f[0] = leaf
  /\ \A j \in 1 .. n : f[j] = Climb(index, proof, f[j - 1], j)

\* The verifier always gets to the end of a proof.
LEMMA ClimbExists ==
  ASSUME NEW leaf, NEW index, NEW proof, NEW n \in Nat
  PROVE  \E f : IsClimb(leaf, index, proof, f, n)
<1> DEFINE T == {m \in Nat : ~\E f : IsClimb(leaf, index, proof, f, m)}
<1> SUFFICES ASSUME T # {} PROVE FALSE
  OBVIOUS
<1>1. PICK x \in T : \A y \in T : x <= y
  BY MinExists
<1>2. CASE x = 0
  <2> DEFINE f == [k \in 0 .. 0 |-> leaf]
  <2>1. f = [k \in 0 .. 0 |-> f[k]] /\ f[0] = leaf /\ 1 .. 0 = {}
    OBVIOUS
  <2>2. IsClimb(leaf, index, proof, f, 0)
    <3> HIDE DEF f
    <3> QED BY <2>1 DEF IsClimb
  <2>3. x \notin T
    BY <2>2, <1>2
  <2> QED BY <2>3
<1>3. CASE x # 0
  <2>1. x - 1 \in Nat /\ x - 1 < x /\ x \in Nat
    BY <1>3
  <2>2. PICK f : IsClimb(leaf, index, proof, f, x - 1)
    BY <2>1, <1>1
  <2> DEFINE v == Climb(index, proof, f[x - 1], x)
             g == [k \in 0 .. x |-> IF k = x THEN v ELSE f[k]]
  <2> HIDE DEF v
  <2>3. g = [k \in 0 .. x |-> g[k]]
    OBVIOUS
  <2>4. \A k \in 0 .. x - 1 : g[k] = f[k]
    BY <2>1
  <2>5. g[x] = v
    BY <2>1
  <2> HIDE DEF g, T
  <2>6. g[0] = f[0]
    BY <2>4, <2>1
  <2>7. ASSUME NEW k \in 1 .. x PROVE g[k] = Climb(index, proof, g[k - 1], k)
    <3>1. k - 1 \in 0 .. x - 1
      BY <2>1
    <3>2. g[k - 1] = f[k - 1]
      BY <3>1, <2>4
    <3>3. CASE k = x
      BY <3>2, <3>3, <2>5, Zenon DEF v
    <3>4. CASE k # x
      <4>1. k \in 1 .. x - 1 /\ k \in 0 .. x - 1
        BY <3>4, <2>1
      <4>2. f[k] = Climb(index, proof, f[k - 1], k)
        BY <4>1, <2>2 DEF IsClimb
      <4>3. g[k] = f[k]
        BY <4>1, <2>4
      <4> QED BY <4>2, <4>3, <3>2
    <3> QED BY <3>3, <3>4
  <2>8. IsClimb(leaf, index, proof, g, x)
    BY <2>2, <2>3, <2>6, <2>7, Zenon DEF IsClimb
  <2> QED BY <2>8 DEF T
<1> QED BY <1>2, <1>3

\* Such hashes are the ones the verifier sees.
LEMMA ClimbLemma ==
  ASSUME NEW leaf, NEW index, NEW proof, NEW n \in Nat, n = Len(proof), NEW f,
         IsClimb(leaf, index, proof, f, n)
  PROVE  ProvenRoot(leaf, index, proof) = f[n]
<1> DEFINE E(g, j) == IF j = 0 THEN leaf ELSE Climb(index, proof, g[j - 1], j)
           P(g) == g = [j \in 0 .. n |-> E(g, j)]
           c == CHOOSE g : P(g)
<1>1. ProvenRoot(leaf, index, proof) = c[n]
  BY Zenon DEF ProvenRoot, Climb
<1>0. /\ f = [j \in 0 .. n |-> f[j]] /\ f[0] = leaf
      /\ \A j \in 1 .. n : f[j] = Climb(index, proof, f[j - 1], j)
  BY DEF IsClimb
<1>2. P(f)
  <2>1. ASSUME NEW j \in 0 .. n PROVE f[j] = E(f, j)
    <3>1. j = 0 \/ (j # 0 /\ j \in 1 .. n)
      OBVIOUS
    <3> QED BY <1>0, <3>1
  <2> HIDE DEF E
  <2> QED BY <1>0, <2>1
<1>3. P(c)
  <2> HIDE DEF P
  <2> QED BY <1>2
<1>4. \A j \in 0 .. n : c[j] = E(c, j)
  <2> HIDE DEF c, E
  <2> QED BY <1>3
<1> HIDE DEF c, P
<1> DEFINE T == {j \in 0 .. n : c[j] # f[j]}
<1>5. T = {}
  <2> SUFFICES ASSUME T # {} PROVE FALSE
    OBVIOUS
  <2>1. PICK x \in T : \A y \in T : x <= y
    <3>1. T \in SUBSET Nat
      OBVIOUS
    <3> HIDE DEF T
    <3> QED BY <3>1, MinExists
  <2>2. x \in 0 .. n /\ c[x] # f[x] /\ c[x] = E(c, x)
    BY <1>4
  <2>3. x # 0
    BY <1>0, <2>2
  <2>4. x \in 1 .. n /\ x - 1 \in 0 .. n /\ ~(x <= x - 1)
    BY <2>2, <2>3
  <2>5. c[x - 1] = f[x - 1]
    BY <2>1, <2>4
  <2>6. c[x] = Climb(index, proof, f[x - 1], x)
    BY <2>2, <2>3, <2>5
  <2> QED BY <1>0, <2>2, <2>4, <2>6
<1>6. n \in 0 .. n
  OBVIOUS
<1> QED BY <1>1, <1>5, <1>6

\* The leftmost path is climbed with every sibling on the right.
LEMMA ClimbLeftmost ==
  ASSUME NEW proof, NEW v, NEW j \in Nat, j >= 1
  PROVE  Climb(0, proof, v, j) = H(v, proof[j])
<1>1. j - 1 \in Nat
  OBVIOUS
<1> DEFINE d == 2^(j - 1)
<1>2. d \in Nat /\ d >= 1
  BY <1>1, PowerType
<1> HIDE DEF d
<1>3. (0 \div d) % 2 = 0
  BY <1>2
<1> QED BY <1>3 DEF Climb, d

\* On that path two proofs, one after the other, are climbed one after the other.
LEMMA ClimbConcat ==
  ASSUME NEW R, NEW p \in Seq(R), NEW q \in Seq(R), NEW leaf
  PROVE  ProvenRoot(leaf, 0, p \o q) = ProvenRoot(ProvenRoot(leaf, 0, p), 0, q)
<1> DEFINE a == Len(p)
           b == Len(q)
           pq == p \o q
<1>1. a \in Nat /\ b \in Nat
  OBVIOUS
<1>2. Len(pq) = a + b /\ \A j \in 1 .. a + b : pq[j] = IF j <= a THEN p[j] ELSE q[j - a]
  BY ConcatProperties
<1> HIDE DEF a, b, pq
<1>3. PICK f : IsClimb(leaf, 0, p, f, a)
  BY <1>1, ClimbExists
<1>4. PICK g : IsClimb(f[a], 0, q, g, b)
  BY <1>1, ClimbExists
<1>5. ProvenRoot(leaf, 0, p) = f[a]
  <2>1. a = Len(p)
    BY DEF a
  <2> QED BY <1>1, <1>3, <2>1, ClimbLemma
<1>6. ProvenRoot(f[a], 0, q) = g[b]
  <2>1. b = Len(q)
    BY DEF b
  <2> QED BY <1>1, <1>4, <2>1, ClimbLemma
<1>7. f[0] = leaf /\ \A j \in 1 .. a : f[j] = H(f[j - 1], p[j])
  <2>1. f[0] = leaf /\ \A j \in 1 .. a : f[j] = Climb(0, p, f[j - 1], j)
    BY <1>3 DEF IsClimb
  <2>2. ASSUME NEW j \in 1 .. a PROVE f[j] = H(f[j - 1], p[j])
    <3>1. j \in Nat /\ j >= 1
      BY <1>1
    <3>2. Climb(0, p, f[j - 1], j) = H(f[j - 1], p[j])
      BY <3>1, ClimbLeftmost
    <3> QED BY <2>1, <3>2
  <2> QED BY <2>1, <2>2
<1>8. g[0] = f[a] /\ \A j \in 1 .. b : g[j] = H(g[j - 1], q[j])
  <2>1. g[0] = f[a] /\ \A j \in 1 .. b : g[j] = Climb(0, q, g[j - 1], j)
    BY <1>4 DEF IsClimb
  <2>2. ASSUME NEW j \in 1 .. b PROVE g[j] = H(g[j - 1], q[j])
    <3>1. j \in Nat /\ j >= 1
      BY <1>1
    <3>2. Climb(0, q, g[j - 1], j) = H(g[j - 1], q[j])
      BY <3>1, ClimbLeftmost
    <3> QED BY <2>1, <3>2
  <2> QED BY <2>1, <2>2
<1> DEFINE k == [j \in 0 .. a + b |-> IF j <= a THEN f[j] ELSE g[j - a]]
<1>9. k = [j \in 0 .. a + b |-> k[j]] /\ k[0] = leaf
  BY <1>1, <1>7
<1>10. \A j \in 0 .. a + b : (j <= a => k[j] = f[j]) /\ (j >= a => k[j] = g[j - a])
  <2> SUFFICES ASSUME NEW j \in 0 .. a + b
               PROVE  (j <= a => k[j] = f[j]) /\ (j >= a => k[j] = g[j - a])
    OBVIOUS
  <2>1. CASE j = a
    <3>1. j <= a /\ j - a = 0
      BY <1>1, <2>1
    <3> QED BY <1>8, <2>1, <3>1
  <2>2. CASE j # a
    BY <1>1, <2>2
  <2> QED BY <2>1, <2>2
<1> HIDE DEF k
<1>11. ASSUME NEW j \in 1 .. a + b PROVE k[j] = Climb(0, pq, k[j - 1], j)
  <2>1. j \in Nat /\ j >= 1 /\ j - 1 \in 0 .. a + b /\ j \in 0 .. a + b
    BY <1>1
  <2>2. Climb(0, pq, k[j - 1], j) = H(k[j - 1], pq[j])
    BY <2>1, ClimbLeftmost
  <2>3. CASE j <= a
    <3>1. j \in 1 .. a /\ j - 1 <= a
      BY <1>1, <2>3
    <3>2. k[j] = f[j] /\ k[j - 1] = f[j - 1] /\ pq[j] = p[j]
      BY <1>2, <1>10, <2>1, <2>3, <3>1
    <3> QED BY <1>7, <2>2, <3>1, <3>2
  <2>4. CASE ~(j <= a)
    <3>1. j - a \in 1 .. b /\ j - 1 >= a /\ j >= a /\ (j - 1) - a = (j - a) - 1
      BY <1>1, <2>4
    <3>2. k[j] = g[j - a] /\ k[j - 1] = g[(j - a) - 1] /\ pq[j] = q[j - a]
      BY <1>2, <1>10, <2>1, <2>4, <3>1
    <3> QED BY <1>8, <2>2, <3>1, <3>2
  <2> QED BY <2>3, <2>4
<1>12. IsClimb(leaf, 0, pq, k, a + b)
  BY <1>9, <1>11 DEF IsClimb
<1>13. ProvenRoot(leaf, 0, pq) = k[a + b]
  <2>1. a + b \in Nat /\ a + b = Len(pq)
    BY <1>1, <1>2
  <2> QED BY <1>12, <2>1, ClimbLemma
<1>14. k[a + b] = g[b]
  <2>1. a + b \in 0 .. a + b /\ a + b >= a /\ (a + b) - a = b
    BY <1>1
  <2> QED BY <1>10, <2>1
<1> QED BY <1>5, <1>6, <1>13, <1>14 DEF pq

\* The running offset treeIndexPos is where the level begins in the store.
LEMMA ProofEntries ==
  ASSUME NEW ls, NEW index, Log2Ceil(Len(ls)) \in Nat,
         NextPowerOfTwo(Len(ls)) = 2^Log2Ceil(Len(ls))
  PROVE  LET h == Log2Ceil(Len(ls))
             st == BuildMerkleTreeStoreFromBytes(ls)
         IN  GetMerkleProof(ls, index)
               = [j \in 1 .. h |->
                    IF j = 1 THEN getLeafSiblingHash(ls, index)
                    ELSE st[calculateTreePosition(st, 2^h - 2^(h - j + 2),
                                                  index \div 2^(j - 1), 2^h + 2^h - 1)]]
<1> DEFINE h == Log2Ceil(Len(ls))
           st == BuildMerkleTreeStoreFromBytes(ls)
           N == NextPowerOfTwo(Len(ls))
           E(g, j) == IF j = 2 THEN 0 ELSE g[j - 1] + 2^(h - j + 2)
           P(g) == g = [j \in 2 .. h |-> E(g, j)]
           c == CHOOSE g : P(g)
           f == [j \in 2 .. h |-> 2^h - 2^(h - j + 2)]
           V(o, j) == IF j = 1 THEN getLeafSiblingHash(ls, index)
                      ELSE st[calculateTreePosition(st, o, index \div 2^(j - 1), 2^h + N - 1)]
<1>1. GetMerkleProof(ls, index) = [j \in 1 .. h |-> V(c[j], j)]
  BY Zenon DEF GetMerkleProof
<1>0. h \in Nat /\ N = 2^h
  OBVIOUS
<1> HIDE DEF h, st, N
<1>2. ASSUME NEW j \in 2 .. h PROVE f[j] = E(f, j)
  <2>1. CASE j = 2
    <3>1. h - j + 2 = h /\ 2^h \in Nat
      <4>1. h \in Nat
        BY <1>0
      <4>2. h - j + 2 = h
        BY <2>1, <4>1
      <4>3. 2^h \in Nat
        BY <4>1, PowerType
      <4> QED BY <4>2, <4>3
    <3> DEFINE W == 2^h
    <3>2. f[j] = W - W /\ W \in Nat
      BY <3>1
    <3> HIDE DEF W, f
    <3> QED BY <2>1, <3>2
  <2>2. CASE j # 2
    <3> DEFINE a == h - j + 2
    <3>1. a \in Nat /\ a + 1 = h - (j - 1) + 2 /\ j - 1 \in 2 .. h
      BY <1>0, <2>2
    <3>2. f[j] = 2^h - 2^a /\ f[j - 1] = 2^h - 2^(a + 1)
      BY <3>1
    <3>3. 2^(a + 1) = 2 * 2^a /\ 2^a \in Nat /\ 2^h \in Nat
      <4> HIDE DEF a
      <4> QED BY <1>0, <3>1, PowerDoubles, PowerType
    <3> DEFINE W == 2^h
               A == 2^a
               B == 2^(a + 1)
    <3>4. W \in Nat /\ A \in Nat /\ B = 2 * A /\ f[j] = W - A /\ f[j - 1] = W - B
      BY <3>2, <3>3
    <3> HIDE DEF W, A, B, f
    <3>5. f[j] = f[j - 1] + A
      BY <3>4
    <3> QED BY <2>2, <3>5 DEF A
  <2> QED BY <2>1, <2>2
<1>3. P(f)
  <2>1. f = [j \in 2 .. h |-> f[j]]
    OBVIOUS
  <2> HIDE DEF f, E
  <2> QED BY <1>2, <2>1
<1>4. P(c)
  <2> HIDE DEF P
  <2> QED BY <1>3
<1>5. \A j \in 2 .. h : c[j] = E(c, j)
  <2> HIDE DEF c, E
  <2> QED BY <1>4
<1> HIDE DEF c, P, f
<1> DEFINE T == {j \in 2 .. h : c[j] # f[j]}
<1>6. T = {}
  <2> SUFFICES ASSUME T # {} PROVE FALSE
    OBVIOUS
  <2>1. PICK x \in T : \A y \in T : x <= y
    <3>1. T \in SUBSET Nat
      OBVIOUS
    <3> HIDE DEF T
    <3> QED BY <3>1, MinExists
  <2>2. x \in 2 .. h /\ c[x] # f[x] /\ c[x] = E(c, x) /\ f[x] = E(f, x)
    BY <1>2, <1>5
  <2>3. x # 2
    BY <2>2
  <2>4. x - 1 \in 2 .. h /\ ~(x <= x - 1)
    BY <1>0, <2>2, <2>3
  <2>5. c[x - 1] = f[x - 1]
    BY <2>1, <2>4
  <2>6. E(c, x) = E(f, x)
    BY <2>5
  <2> QED BY <2>2, <2>6
<1>7. ASSUME NEW j \in 1 .. h PROVE V(c[j], j) = V(2^h - 2^(h - j + 2), j)
  <2>1. j = 1 \/ (j # 1 /\ j \in 2 .. h)
    BY <1>0
  <2>2. j # 1 => c[j] = 2^h - 2^(h - j + 2)
    BY <1>6, <2>1 DEF f
  <2> QED BY <2>1, <2>2
<1> HIDE DEF V
<1>8. GetMerkleProof(ls, index) = [j \in 1 .. h |-> V(2^h - 2^(h - j + 2), j)]
  BY <1>1, <1>7
<1> QED BY <1>0, <1>8 DEF V, h, st

\* The sibling of entry x of level k: the entry itself where there is none.
Sibling(ls, st, h, l, k, x) ==
  IF x % 2 = 1 THEN At(ls, st, h, k, x - 1)
  ELSE IF x + 1 < Len(l) THEN At(ls, st, h, k, x + 1)
  ELSE At(ls, st, h, k, x)

\* An entry and its sibling hash to the entry above, on the side that the
\* parity of the position says.
LEMMA ClimbStep ==
  ASSUME NEW ls, NEW st, NEW h \in Nat, IsStore(ls, st, 2^h, 2^h - 1),
         NEW k \in 0 .. h - 1, NEW l, Agrees(ls, st, h, l, k),
         NEW x \in Nat, x < Len(l)
  PROVE  At(ls, st, h, k + 1, x \div 2)
           = IF x % 2 = 0
             THEN H(At(ls, st, h, k, x), Sibling(ls, st, h, l, k, x))
             ELSE H(Sibling(ls, st, h, l, k, x), At(ls, st, h, k, x))
<1> DEFINE A == 2^(h - k - 1)
           n == Len(l)
           i == x \div 2
           at(y) == At(ls, st, h, k, y)
<1>1. A \in Nat /\ A >= 1 /\ 2^(h - k) = 2 * A
  BY Widths
<1>2. /\ l \in Seq(Real) /\ n \in Nat /\ n <= 2 * A /\ x < n
      /\ \A y \in 0 .. 2 * A - 1 : at(y) = IF y < n THEN l[y + 1] ELSE ZeroHash
  BY <1>1 DEF Agrees
<1>3. \A y \in 0 .. A - 1 : At(ls, st, h, k + 1, y) = calcMerkle(at(2 * y), at(2 * y + 1))
  BY LevelStep
<1>4. \A y \in Nat : y < n => l[y + 1] # ZeroHash
  <2>1. \A y \in Nat : y < n => y + 1 \in 1 .. Len(l)
    OBVIOUS
  <2>2. \A y \in 1 .. Len(l) : l[y] \in Real
    BY <1>2
  <2> QED BY <2>1, <2>2 DEF Real
<1>5. Sibling(ls, st, h, l, k, x)
        = IF x % 2 = 1 THEN at(x - 1) ELSE IF x + 1 < n THEN at(x + 1) ELSE at(x)
  BY Zenon DEF Sibling
<1> HIDE DEF A, n, at
<1>6. i \in 0 .. A - 1 /\ (x = 2 * i \/ x = 2 * i + 1)
  BY <1>1, <1>2
<1> HIDE DEF i
<1>7. At(ls, st, h, k + 1, i) = calcMerkle(at(2 * i), at(2 * i + 1))
  BY <1>3, <1>6
<1>8. \A y \in Nat : y < n => at(y) # ZeroHash
  BY <1>1, <1>2, <1>4
<1>9. CASE x = 2 * i
  <2>1. x % 2 = 0 /\ x % 2 # 1 /\ i \in Nat /\ x + 1 = 2 * i + 1 /\ x + 1 \in 0 .. 2 * A - 1
    BY <1>6, <1>9, <1>1
  <2>2. at(x) # ZeroHash
    BY <1>2, <1>8
  <2>3. CASE x + 1 < n
    <3>1. at(x + 1) # ZeroHash
      BY <2>1, <2>3, <1>8
    <3>2. calcMerkle(at(x), at(x + 1)) = H(at(x), at(x + 1))
      BY <2>2, <3>1, Zenon DEF calcMerkle
    <3>3. Sibling(ls, st, h, l, k, x) = at(x + 1)
      BY <1>5, <2>1, <2>3
    <3> QED BY <1>7, <1>9, <2>1, <3>2, <3>3 DEF at, i
  <2>4. CASE ~(x + 1 < n)
    <3>1. at(x + 1) = ZeroHash
      BY <2>1, <2>4, <1>2
    <3>2. calcMerkle(at(x), at(x + 1)) = H(at(x), at(x))
      BY <2>2, <3>1, Zenon DEF calcMerkle
    <3>3. Sibling(ls, st, h, l, k, x) = at(x)
      BY <1>5, <2>1, <2>4
    <3> QED BY <1>7, <1>9, <2>1, <3>2, <3>3 DEF at, i
  <2> QED BY <2>3, <2>4
<1>10. CASE x = 2 * i + 1
  <2>1. x % 2 = 1 /\ x % 2 # 0 /\ x - 1 = 2 * i /\ x - 1 \in Nat /\ x - 1 < n
    BY <1>2, <1>6, <1>10
  <2>2. at(x) # ZeroHash /\ at(x - 1) # ZeroHash
    BY <1>2, <1>8, <2>1
  <2>3. calcMerkle(at(x - 1), at(x)) = H(at(x - 1), at(x))
    BY <2>2, Zenon DEF calcMerkle
  <2>4. Sibling(ls, st, h, l, k, x) = at(x - 1)
    BY <1>5, <2>1
  <2> QED BY <1>7, <1>10, <2>1, <2>3, <2>4 DEF at, i
<1> QED BY <1>6, <1>9, <1>10

\* Above the leaves, the position calculateTreePosition finds holds it.
LEMMA SiblingInStore ==
  ASSUME NEW ls, NEW st, NEW h \in Nat,
         NEW k \in 1 .. h - 1, NEW l, Agrees(ls, st, h, l, k),
         NEW x \in Nat, x < Len(l)
  PROVE  st[calculateTreePosition(st, 2^h - 2^(h - k + 1), x, 2^h + 2^h - 1)]
           = Sibling(ls, st, h, l, k, x)
<1> DEFINE A == 2^(h - k - 1)
           N == 2^h
           b == N - 4 * A
           n == Len(l)
           at(y) == At(ls, st, h, k, y)
           p == b + x
<1>1. k \in 0 .. h - 1 /\ k # 0
  OBVIOUS
<1>2. A \in Nat /\ A >= 1 /\ 2^(h - k) = 2 * A /\ 2^(h - k + 1) = 4 * A /\ N \in Nat /\ N >= 4 * A
  BY <1>1, Widths
<1>3. N = 2 * 2^(h - 1) /\ 2^(h - 1) \in Nat
  <2> DEFINE a == h - 1
  <2>1. a \in Nat /\ a + 1 = h
    OBVIOUS
  <2> HIDE DEF a
  <2> QED BY <2>1, PowerDoubles, PowerType DEF a
<1>4. /\ l \in Seq(Real) /\ n \in Nat /\ n <= 2 * A /\ x < n
      /\ \A y \in 0 .. 2 * A - 1 : at(y) = IF y < n THEN l[y + 1] ELSE ZeroHash
  BY <1>2 DEF Agrees
<1>5. \A y \in Nat : y < n => l[y + 1] # ZeroHash
  <2>1. \A y \in Nat : y < n => y + 1 \in 1 .. Len(l)
    OBVIOUS
  <2>2. \A y \in 1 .. Len(l) : l[y] \in Real
    BY <1>4
  <2> QED BY <2>1, <2>2 DEF Real
<1>6. \A y : at(y) = st[b + y]
  BY <1>1, <1>2 DEF At
<1>7. Sibling(ls, st, h, l, k, x)
        = IF x % 2 = 1 THEN at(x - 1) ELSE IF x + 1 < n THEN at(x + 1) ELSE at(x)
  BY Zenon DEF Sibling
<1>8. 2^h - 2^(h - k + 1) = b /\ 2^h + 2^h - 1 = N + N - 1
  BY <1>2
<1> DEFINE M == 2^(h - 1)
           c == calculateTreePosition(st, b, x, N + N - 1)
<1>9. N = 2 * M /\ M \in Nat
  BY <1>3
<1> HIDE DEF A, N, n, at, M
<1>10. \A y \in Nat : y < n => at(y) # ZeroHash
  BY <1>2, <1>4, <1>5
<1>11. /\ b \in Nat /\ p \in Nat /\ p % 2 = x % 2 /\ N + N - 1 > p + 1
       /\ p + 1 = b + (x + 1) /\ p - 1 = b + (x - 1)
  BY <1>2, <1>4, <1>9
<1>12. CASE x % 2 = 1
  <2>1. x - 1 \in Nat /\ x - 1 < n
    BY <1>4, <1>12
  <2>2. st[p - 1] = at(x - 1) /\ st[p - 1] # ZeroHash
    BY <1>6, <1>10, <1>11, <2>1
  <2>3. p % 2 = 1 /\ p % 2 # 0
    BY <1>11, <1>12
  <2>4. c = p - 1
    <3> HIDE DEF b
    <3> QED BY <2>2, <2>3, Zenon DEF calculateTreePosition
  <2>5. st[c] = at(x - 1)
    BY <2>2, <2>4
  <2> QED BY <1>7, <1>8, <1>12, <2>5
<1>13. CASE x % 2 # 1
  <2>1. x % 2 = 0 /\ p % 2 = 0 /\ p % 2 # 1 /\ x + 1 \in 0 .. 2 * A - 1
    <3>1. x % 2 = 0 /\ p % 2 = 0
      BY <1>11, <1>13
    <3>2. x + 1 \in 0 .. 2 * A - 1
      <4> DEFINE i == x \div 2
      <4>1. i \in Nat /\ x = 2 * i
        BY <3>1
      <4> HIDE DEF i
      <4>2. x < 2 * A
        BY <1>2, <1>4
      <4> QED BY <1>2, <4>1, <4>2
    <3> QED BY <3>1, <3>2
  <2>2. st[p + 1] = at(x + 1) /\ st[p] = at(x)
    BY <1>6, <1>11
  <2>3. CASE x + 1 < n
    <3>1. st[p + 1] # ZeroHash
      BY <1>10, <2>2, <2>3
    <3>2. c = p + 1
      <4> HIDE DEF b
      <4> QED BY <1>11, <2>1, <3>1, Zenon DEF calculateTreePosition
    <3> QED BY <1>7, <1>8, <1>13, <2>2, <2>3, <3>2
  <2>4. CASE ~(x + 1 < n)
    <3>1. st[p + 1] = ZeroHash
      BY <1>4, <2>1, <2>2, <2>4
    <3>2. c = p
      <4> HIDE DEF b
      <4> QED BY <2>1, <3>1, Zenon DEF calculateTreePosition
    <3> QED BY <1>7, <1>8, <1>13, <2>2, <2>4, <3>2
  <2> QED BY <2>3, <2>4
<1> QED BY <1>12, <1>13

\* The leaf's own sibling, or the leaf where it has none.
LEMMA SiblingOfLeaf ==
  ASSUME NEW ls \in Seq(Real), NEW st, NEW h, NEW x \in Nat, x < Len(ls)
  PROVE  getLeafSiblingHash(ls, x) = Sibling(ls, st, h, ls, 0, x)
<1> DEFINE n == Len(ls)
           at(y) == At(ls, st, h, 0, y)
<1>1. n \in Nat
  OBVIOUS
<1>2. \A y : at(y) = IF y >= n THEN ZeroHash ELSE ls[y + 1]
  BY Zenon DEF At, getNodeHashAt
<1>3. Sibling(ls, st, h, ls, 0, x)
        = IF x % 2 = 1 THEN at(x - 1) ELSE IF x + 1 < n THEN at(x + 1) ELSE at(x)
  BY Zenon DEF Sibling
<1>4. getLeafSiblingHash(ls, x)
        = IF x % 2 = 0
          THEN IF x + 1 >= n THEN ls[x + 1] ELSE ls[x + 2]
          ELSE ls[x]
  BY Zenon DEF getLeafSiblingHash
<1>5. x < n
  OBVIOUS
<1> HIDE DEF n, at
<1>6. /\ ~(x >= n) /\ ~(x - 1 >= n) /\ (x - 1) + 1 = x /\ (x + 1) + 1 = x + 2
      /\ (x + 1 < n <=> ~(x + 1 >= n)) /\ (x % 2 = 0 <=> x % 2 # 1)
  BY <1>1, <1>5
<1>7. at(x - 1) = ls[x] /\ at(x) = ls[x + 1] /\ (x + 1 < n => at(x + 1) = ls[x + 2])
  BY <1>2, <1>6
<1> QED BY <1>3, <1>4, <1>6, <1>7

\* The position of the path stays inside the level.
LEMMA PathInLevel ==
  ASSUME NEW ls, NEW st, NEW h \in Nat, NEW k \in 0 .. h - 1, NEW l,
         Agrees(ls, st, h, l, k), NEW x \in Nat, x < Len(l)
  PROVE  x \div 2 < Len(ParentLevel(l))
<1> DEFINE A == 2^(h - k - 1)
           n == Len(l)
<1>1. A \in Nat /\ A >= 1
  BY Widths
<1>2. l \in Seq(Real) /\ n \in Nat /\ A < n /\ x < n
  <2>1. k < h
    OBVIOUS
  <2> QED BY <2>1 DEF Agrees
<1>3. n >= 2
  <2> HIDE DEF A, n
  <2> QED BY <1>1, <1>2
<1>4. Len(ParentLevel(l)) = (n + 1) \div 2
  BY <1>2, <1>3, ParentLevelFacts
<1> HIDE DEF n, A
<1> QED BY <1>2, <1>4

\* A proof has one hash for each level.
LEMMA ProofShape ==
  ASSUME NEW ls, Len(ls) \in Nat, Len(ls) >= 1, NEW index
  PROVE  /\ Len(GetMerkleProof(ls, index)) = Log2Ceil(Len(ls))
         /\ \E R : GetMerkleProof(ls, index) \in Seq(R)
<1> DEFINE n == Len(ls)
           h == Log2Ceil(n)
           st == BuildMerkleTreeStoreFromBytes(ls)
           proof == GetMerkleProof(ls, index)
<1>1. h \in Nat /\ NextPowerOfTwo(n) = 2^h
  <2>1. n \in Nat /\ n >= 1
    OBVIOUS
  <2> HIDE DEF n
  <2> QED BY <2>1, Log2CeilLemma, NextPowerLemma
<1>2. proof = [j \in 1 .. h |->
                 IF j = 1 THEN getLeafSiblingHash(ls, index)
                 ELSE st[calculateTreePosition(st, 2^h - 2^(h - j + 2),
                                               index \div 2^(j - 1), 2^h + 2^h - 1)]]
  BY <1>1, ProofEntries
<1>3. Len(proof) = h /\ \E R : proof \in Seq(R)
  <2> DEFINE e(j) == IF j = 1 THEN getLeafSiblingHash(ls, index)
                     ELSE st[calculateTreePosition(st, 2^h - 2^(h - j + 2),
                                                   index \div 2^(j - 1), 2^h + 2^h - 1)]
             R == {e(j) : j \in 1 .. h}
  <2>1. proof = [j \in 1 .. h |-> e(j)]
    BY <1>2
  <2> HIDE DEF proof, h, st, e
  <2>2. proof \in [1 .. h -> R]
    BY <2>1
  <2> HIDE DEF R
  <2> QED BY <1>1, <2>2
<1> QED BY <1>3

\* The proof of a leaf leads to the root.
LEMMA ProofLemma ==
  ASSUME NEW ls \in Seq(Real), Len(ls) >= 1, NEW index \in 0 .. Len(ls) - 1
  PROVE  ProvenRoot(ls[index + 1], index, GetMerkleProof(ls, index)) = MerkleRoot(ls)
<1> DEFINE n == Len(ls)
           h == Log2Ceil(n)
           st == BuildMerkleTreeStoreFromBytes(ls)
           proof == GetMerkleProof(ls, index)
           X(k) == index \div 2^k
           at(k, y) == At(ls, st, h, k, y)
           f == [k \in 0 .. h |-> at(k, X(k))]
<1>1. n \in Nat /\ n >= 1 /\ index \in Nat /\ index < n
  OBVIOUS
<1>2. h \in Nat /\ NextPowerOfTwo(n) = 2^h /\ n <= 2^h
  <2> HIDE DEF n
  <2> QED BY <1>1, Log2CeilLemma, NextPowerLemma
<1>3. proof = [j \in 1 .. h |->
                 IF j = 1 THEN getLeafSiblingHash(ls, index)
                 ELSE st[calculateTreePosition(st, 2^h - 2^(h - j + 2),
                                               index \div 2^(j - 1), 2^h + 2^h - 1)]]
  BY <1>2, ProofEntries
<1>4. Len(proof) = h
  BY ProofShape
<1>5. PICK L : IsLevels(ls, L, n)
  BY <1>1, LevelsExist
<1>6. L[0] = ls /\ \A k \in 1 .. n : L[k] = ParentLevel(L[k - 1])
  BY <1>5 DEF IsLevels
<1>7. CASE n = 1
  <2>1. MerkleRoot(ls) = ls[1]
    BY <1>7, OneLeaf
  <2>2. index = 0 /\ h = 0
    <3>1. \A j \in Nat : j < h => 2^j < n
      <4> HIDE DEF n
      <4> QED BY <1>1, Log2CeilLemma
    <3> HIDE DEF h, n
    <3>2. 0 < h => 2^0 < n
      <4>1. 0 \in Nat
        OBVIOUS
      <4> QED BY <3>1, <4>1, Zenon
    <3>3. ~(0 < h)
      BY <1>7, <3>2
    <3> QED BY <1>1, <1>2, <1>7, <3>3
  <2> DEFINE g == [k \in 0 .. 0 |-> ls[1]]
  <2>3. g = [k \in 0 .. 0 |-> g[k]] /\ g[0] = ls[1] /\ 1 .. 0 = {} /\ index + 1 = 1 /\ 0 \in Nat
    BY <2>2
  <2> HIDE DEF g, proof, h
  <2>4. ProvenRoot(ls[1], index, proof) = g[0]
    <3>1. IsClimb(ls[1], index, proof, g, 0)
      BY <2>3 DEF IsClimb
    <3>2. 0 = Len(proof)
      BY <1>4, <2>2
    <3> QED BY <2>3, <3>1, <3>2, ClimbLemma
  <2> QED BY <2>1, <2>3, <2>4 DEF proof
<1>8. CASE n # 1
  <2>1. n >= 2
    <3> HIDE DEF n
    <3> QED BY <1>1, <1>8
  <2>2. /\ h >= 1 /\ h <= n
        /\ IsStore(ls, st, 2^h, 2^h - 1)
        /\ Agrees(ls, st, h, ls, 0)
        /\ MerkleRoot(ls) = at(h, 0)
    BY <2>1, TreeFacts
  <2>3. getLeafSiblingHash(ls, index) = Sibling(ls, st, h, ls, 0, index)
    <3> HIDE DEF h, st
    <3> QED BY <1>1, SiblingOfLeaf
  <2> HIDE DEF n, h, st, proof
  <2>4. \A k \in 1 .. h : L[k] = ParentLevel(L[k - 1])
    BY <1>1, <1>2, <1>6, <2>2
  <2>5. \A k \in 0 .. h : Agrees(ls, st, h, L[k], k)
    BY <1>2, <1>6, <2>2, <2>4, LevelsAgree
  <2>6. X(0) = index
    <3>1. 2^0 = 1
      OBVIOUS
    <3> QED BY <1>1, <3>1
  <2>7. \A k \in Nat : X(k) \in Nat /\ X(k + 1) = X(k) \div 2
    <3> SUFFICES ASSUME NEW k \in Nat PROVE X(k) \in Nat /\ X(k + 1) = X(k) \div 2
      OBVIOUS
    <3> DEFINE d == 2^k
               e == 2^(k + 1)
    <3>1. d \in Nat /\ d >= 1 /\ e = 2 * d
      BY PowerType, PowerDoubles
    <3> HIDE DEF d, e
    <3>2. index \div d \in Nat
      BY <1>1, <3>1
    <3>3. index \div (2 * d) = (index \div d) \div 2
      BY <1>1, <3>1, DivHalf
    <3> QED BY <3>1, <3>2, <3>3 DEF d, e
  <2>8. X(h) = 0
    <3> DEFINE N == 2^h
    <3>1. N \in Nat /\ N >= 1 /\ index < N
      <4>1. N \in Nat /\ N >= 1
        BY <1>2, PowerType
      <4> QED BY <1>1, <1>2, <4>1
    <3> HIDE DEF N
    <3>2. index \div N = 0
      BY <1>1, <3>1
    <3> QED BY <3>2 DEF N
  <2> HIDE DEF X
  <2>9. \A k \in 0 .. h : X(k) < Len(L[k])
    <3> DEFINE T == {k \in 0 .. h : ~(X(k) < Len(L[k]))}
    <3> SUFFICES ASSUME T # {} PROVE FALSE
      OBVIOUS
    <3>1. PICK x \in T : \A y \in T : x <= y
      <4>1. T \in SUBSET Nat
        OBVIOUS
      <4> HIDE DEF T
      <4> QED BY <4>1, MinExists
    <3>2. x \in 0 .. h /\ ~(X(x) < Len(L[x]))
      OBVIOUS
    <3>3. x # 0
      BY <1>1, <1>6, <2>6, <3>2 DEF n
    <3> DEFINE k == x - 1
    <3>4. /\ k \in 0 .. h - 1 /\ k + 1 = x /\ k \in 0 .. h /\ ~(x <= k)
          /\ k \in Nat /\ x \in 1 .. h
      BY <1>2, <3>2, <3>3
    <3>5. L[x] = ParentLevel(L[k])
      BY <2>4, <3>4
    <3>6. X(k) < Len(L[k]) /\ X(k) \in Nat /\ X(x) = X(k) \div 2
      BY <2>7, <3>1, <3>4
    <3>7. Agrees(ls, st, h, L[k], k)
      BY <2>5, <3>4
    <3> HIDE DEF k, T
    <3>8. X(k) \div 2 < Len(ParentLevel(L[k]))
      BY <1>2, <3>4, <3>6, <3>7, PathInLevel
    <3> QED BY <3>2, <3>5, <3>6, <3>8
  <2>10. ASSUME NEW k \in 0 .. h - 1
         PROVE  proof[k + 1] = Sibling(ls, st, h, L[k], k, X(k))
    <3>1. k + 1 \in 1 .. h /\ k \in 0 .. h /\ k \in Nat
      BY <1>2
    <3>2. CASE k = 0
      <4>1. proof[k + 1] = getLeafSiblingHash(ls, index)
        BY <1>3, <3>1, <3>2
      <4> QED BY <1>6, <2>3, <2>6, <3>2, <4>1
    <3>3. CASE k # 0
      <4>1. k + 1 # 1 /\ h - (k + 1) + 2 = h - k + 1 /\ (k + 1) - 1 = k /\ k \in 1 .. h - 1
        BY <1>2, <3>1, <3>3
      <4>2. proof[k + 1] = st[calculateTreePosition(st, 2^h - 2^(h - (k + 1) + 2),
                                     index \div 2^((k + 1) - 1), 2^h + 2^h - 1)]
        BY <1>3, <3>1, <4>1, Zenon
      <4>3. proof[k + 1] = st[calculateTreePosition(st, 2^h - 2^(h - k + 1), X(k), 2^h + 2^h - 1)]
        BY <4>1, <4>2 DEF X
      <4>4. Agrees(ls, st, h, L[k], k) /\ X(k) \in Nat /\ X(k) < Len(L[k])
        BY <2>5, <2>7, <2>9, <3>1
      <4> QED BY <1>2, <4>1, <4>3, <4>4, SiblingInStore
    <3> QED BY <3>2, <3>3
  <2>11. ASSUME NEW j \in 1 .. h
         PROVE  f[j] = Climb(index, proof, f[j - 1], j)
    <3> DEFINE k == j - 1
               s == Sibling(ls, st, h, L[k], k, X(k))
    <3>1. k \in 0 .. h - 1 /\ k + 1 = j /\ k \in 0 .. h /\ j \in 0 .. h /\ k \in Nat
      BY <1>2
    <3>2. f[j] = at(j, X(j)) /\ f[k] = at(k, X(k))
      BY <3>1
    <3> HIDE DEF k, f
    <3>3. Agrees(ls, st, h, L[k], k) /\ X(k) \in Nat /\ X(k) < Len(L[k]) /\ X(j) = X(k) \div 2
      BY <2>5, <2>7, <2>9, <3>1
    <3>4. at(k + 1, X(k) \div 2) = IF X(k) % 2 = 0 THEN H(at(k, X(k)), s) ELSE H(s, at(k, X(k)))
      BY <1>2, <2>2, <3>1, <3>3, ClimbStep
    <3>5. proof[j] = s
      BY <2>10, <3>1
    <3> HIDE DEF s, at
    <3>6. f[j] = IF X(k) % 2 = 0 THEN H(f[k], proof[j]) ELSE H(proof[j], f[k])
      BY <3>1, <3>2, <3>3, <3>4, <3>5
    <3> QED BY <3>6, Zenon DEF Climb, X, k
  <2>12. f = [j \in 0 .. h |-> f[j]] /\ f[h] = at(h, 0)
    BY <1>2, <2>8
  <2>13. f[0] = ls[index + 1]
    <3>1. f[0] = at(0, index) /\ ~(index >= n)
      BY <1>1, <1>2, <2>6
    <3>2. at(0, index) = IF index >= Len(ls) THEN ZeroHash ELSE ls[index + 1]
      BY Zenon DEF At, getNodeHashAt
    <3> QED BY <3>1, <3>2 DEF n
  <2> HIDE DEF f
  <2>14. ProvenRoot(ls[index + 1], index, proof) = f[h]
    <3>1. IsClimb(ls[index + 1], index, proof, f, h)
      BY <2>11, <2>12, <2>13 DEF IsClimb
    <3> QED BY <1>2, <1>4, <3>1, ClimbLemma
  <2> QED BY <2>2, <2>12, <2>14 DEF proof
<1> QED BY <1>7, <1>8

-----------------------------------------------------------------------------
(* Subtrees inside a block: the levels of a block are, subtree by subtree, *)
(* the levels of the subtrees, each lifted to the common height.           *)

\* ParentLevel without its stop at one hash: what RootHashPadded repeats.
UpLevel(s) ==
  [i \in 1 .. (Len(s) + 1) \div 2 |->
     H(s[2 * i - 1], IF 2 * i <= Len(s) THEN s[2 * i] ELSE s[2 * i - 1])]

\* How many of W entries from b on the list l has, and those entries.
Width(l, b, W) == IF b + W <= Len(l) THEN W ELSE Len(l) - b
Part(l, b, W) == [y \in 1 .. Width(l, b, W) |-> l[b + y]]

\* The two agree on more than one hash.
LEMMA UpIsParent ==
  ASSUME NEW s, Len(s) # 1
  PROVE  ParentLevel(s) = UpLevel(s)
BY Zenon DEF ParentLevel, UpLevel

\* The parents of an aligned part are the part of the parents.
LEMMA PartStep ==
  ASSUME NEW l \in Seq(Real), Len(l) >= 2, NEW V \in Nat, V >= 1,
         NEW b \in Nat, 2 * b < Len(l)
  PROVE  Part(ParentLevel(l), b, V) = UpLevel(Part(l, 2 * b, 2 * V))
<1> DEFINE n == Len(l)
           q == ParentLevel(l)
           m == Len(q)
           p == Part(l, 2 * b, 2 * V)
           w == Width(l, 2 * b, 2 * V)
           v == Width(q, b, V)
<1>1. n \in Nat /\ n >= 2 /\ 2 * b < n
  OBVIOUS
<1>2. /\ m = (n + 1) \div 2
      /\ \A i \in 1 .. m : q[i] = H(l[2 * i - 1], IF 2 * i <= n THEN l[2 * i] ELSE l[2 * i - 1])
  BY ParentLevelFacts
<1>3. w = (IF 2 * b + 2 * V <= n THEN 2 * V ELSE n - 2 * b) /\ v = (IF b + V <= m THEN V ELSE m - b)
  BY Zenon DEF Width
<1>4. p = [y \in 1 .. w |-> l[2 * b + y]]
  BY Zenon DEF Part
<1>5. w \in Nat
  <2> HIDE DEF n, w, v, m
  <2> QED BY <1>1, <1>3
<1>6. Len(p) = w
  <2> DEFINE e(y) == l[2 * b + y]
             R == {e(y) : y \in 1 .. w}
  <2>1. p = [y \in 1 .. w |-> e(y)]
    BY <1>4
  <2> HIDE DEF p, e, w
  <2>2. p \in [1 .. w -> R]
    BY <2>1
  <2> HIDE DEF R
  <2> QED BY <1>5, <2>2
<1> HIDE DEF n, q, m, p, w, v
<1>7. m \in Nat /\ v = (w + 1) \div 2 /\ v \in Nat
  BY <1>1, <1>2, <1>3
<1>8. ASSUME NEW y \in 1 .. v
      PROVE  q[b + y] = H(p[2 * y - 1], IF 2 * y <= w THEN p[2 * y] ELSE p[2 * y - 1])
  <2>1. b + y \in 1 .. m /\ 2 * (b + y) - 1 = 2 * b + (2 * y - 1) /\ 2 * (b + y) = 2 * b + 2 * y
    BY <1>1, <1>2, <1>3, <1>7
  <2>2. 2 * y - 1 \in 1 .. w /\ (2 * y <= w => 2 * y \in 1 .. w)
    BY <1>5, <1>7
  <2>3. 2 * y <= w <=> 2 * (b + y) <= n
    BY <1>1, <1>3, <1>5, <1>7
  <2>4. p[2 * y - 1] = l[2 * b + (2 * y - 1)] /\ (2 * y <= w => p[2 * y] = l[2 * b + 2 * y])
    BY <1>4, <2>2
  <2>5. q[b + y] = H(l[2 * (b + y) - 1],
                     IF 2 * (b + y) <= n THEN l[2 * (b + y)] ELSE l[2 * (b + y) - 1])
    BY <1>2, <2>1
  <2> QED BY <2>1, <2>3, <2>4, <2>5
<1>9. UpLevel(p) = [y \in 1 .. v |-> H(p[2 * y - 1], IF 2 * y <= w THEN p[2 * y] ELSE p[2 * y - 1])]
  BY <1>6, <1>7, Zenon DEF UpLevel
<1>10. Part(q, b, V) = [y \in 1 .. v |-> q[b + y]]
  BY Zenon DEF Part, v
<1>11. Part(q, b, V) = UpLevel(p)
  BY <1>8, <1>9, <1>10
<1> QED BY <1>11 DEF q, p

\* NaturalHeight is the height of the store's tree.
LEMMA NaturalHeightLemma ==
  ASSUME NEW n \in Nat, n >= 1
  PROVE  NaturalHeight(n) = Log2Ceil(n)
<1> DEFINE c == Log2Ceil(n)
           f == Log2Floor(n - 1)
<1>1. c \in Nat /\ n <= 2^c /\ \A j \in Nat : j < c => 2^j < n
  BY Log2CeilLemma
<1>2. CASE n = 1
  <2>1. NaturalHeight(n) = 0
    <3>1. n - 1 = 0
      BY <1>2
    <3> QED BY <3>1 DEF NaturalHeight, BitsLen
  <2> HIDE DEF c
  <2>2. 0 < c => 2^0 < n
    <3>1. 0 \in Nat
      OBVIOUS
    <3> QED BY <1>1, <3>1, Zenon
  <2>3. ~(0 < c)
    BY <1>2, <2>2
  <2>4. c = 0
    BY <1>1, <2>3
  <2> QED BY <2>1, <2>4 DEF c
<1>3. CASE n # 1
  <2>1. n - 1 \in Nat /\ n - 1 >= 1 /\ n - 1 # 0
    BY <1>3
  <2>2. f \in Nat /\ 2^f <= n - 1 /\ n - 1 < 2^(f + 1)
    BY <2>1, Log2FloorLemma
  <2>3. NaturalHeight(n) = f + 1
    BY <2>1, Zenon DEF NaturalHeight, BitsLen
  <2> HIDE DEF c, f
  <2>4. 2^c \in Nat /\ 2^f \in Nat /\ 2^(f + 1) \in Nat /\ f + 1 \in Nat
    <3>1. f + 1 \in Nat
      BY <2>2
    <3> QED BY <1>1, <2>2, <3>1, PowerType
  <2>5. 2^f < n /\ n <= 2^(f + 1)
    BY <2>2, <2>4
  <2>6. ~(c < f) /\ c # f
    <3>1. c < f => 2^c < 2^f
      BY <1>1, <2>2, PowerGrows
    <3> QED BY <1>1, <2>4, <2>5, <3>1
  <2>7. ~(f + 1 < c)
    <3>1. f + 1 < c => 2^(f + 1) < n
      BY <1>1, <2>4
    <3> QED BY <2>4, <2>5, <3>1
  <2>8. c = f + 1
    BY <1>1, <2>2, <2>6, <2>7
  <2> QED BY <2>3, <2>8 DEF c
<1> QED BY <1>2, <1>3

\* The hashes f, from x on, obey the step of Lift.
IsLift(x, f, n) ==
  /\ f = [k \in 0 .. n |-> f[k]]
  /\ f[0] = x
  /\ \A k \in 1 .. n : f[k] = H(f[k - 1], f[k - 1])

\* Such hashes are the ones Lift goes through.
LEMMA LiftLemma ==
  ASSUME NEW x, NEW n \in Nat, NEW f, IsLift(x, f, n)
  PROVE  Lift(x, n) = f[n]
<1> DEFINE E(g, j) == IF j = 0 THEN x ELSE H(g[j - 1], g[j - 1])
           P(g) == g = [j \in 0 .. n |-> E(g, j)]
           c == CHOOSE g : P(g)
<1>1. Lift(x, n) = c[n]
  BY Zenon DEF Lift
<1>0. /\ f = [k \in 0 .. n |-> f[k]] /\ f[0] = x
      /\ \A k \in 1 .. n : f[k] = H(f[k - 1], f[k - 1])
  BY DEF IsLift
<1>2. P(f)
  <2>1. ASSUME NEW j \in 0 .. n PROVE f[j] = E(f, j)
    <3>1. j = 0 \/ (j # 0 /\ j \in 1 .. n)
      OBVIOUS
    <3> QED BY <1>0, <3>1
  <2> HIDE DEF E
  <2> QED BY <1>0, <2>1
<1>3. P(c)
  <2> HIDE DEF P
  <2> QED BY <1>2
<1>4. \A j \in 0 .. n : c[j] = E(c, j)
  <2> HIDE DEF c, E
  <2> QED BY <1>3
<1> HIDE DEF c, P
<1> DEFINE T == {j \in 0 .. n : c[j] # f[j]}
<1>5. T = {}
  <2> SUFFICES ASSUME T # {} PROVE FALSE
    OBVIOUS
  <2>1. PICK z \in T : \A y \in T : z <= y
    <3>1. T \in SUBSET Nat
      OBVIOUS
    <3> HIDE DEF T
    <3> QED BY <3>1, MinExists
  <2>2. z \in 0 .. n /\ c[z] # f[z] /\ c[z] = E(c, z)
    BY <1>4
  <2>3. z # 0
    BY <1>0, <2>2
  <2>4. z \in 1 .. n /\ z - 1 \in 0 .. n /\ ~(z <= z - 1)
    BY <2>2, <2>3
  <2>5. c[z - 1] = f[z - 1]
    BY <2>1, <2>4
  <2>6. c[z] = H(f[z - 1], f[z - 1])
    BY <2>2, <2>3, <2>5
  <2> QED BY <1>0, <2>2, <2>4, <2>6
<1>6. n \in 0 .. n
  OBVIOUS
<1> QED BY <1>1, <1>5, <1>6

\* The parent of a single hash is that hash with itself.
LEMMA UpOne ==
  ASSUME NEW s, Len(s) = 1
  PROVE  Len(UpLevel(s)) = 1 /\ UpLevel(s)[1] = H(s[1], s[1])
<1>1. (1 + 1) \div 2 = 1 /\ 2 * 1 - 1 = 1 /\ ~(2 * 1 <= 1)
  OBVIOUS
<1> DEFINE e(i) == H(s[2 * i - 1], IF 2 * i <= Len(s) THEN s[2 * i] ELSE s[2 * i - 1])
<1>2. UpLevel(s) = [i \in 1 .. 1 |-> e(i)]
  BY <1>1, Zenon DEF UpLevel
<1>3. e(1) = H(s[1], s[1])
  BY <1>1
<1> HIDE DEF e
<1>4. Len([i \in 1 .. 1 |-> e(i)]) = 1
  <2> DEFINE u == [i \in 1 .. 1 |-> e(i)]
  <2>1. u \in [1 .. 1 -> {e(1)}]
    OBVIOUS
  <2> HIDE DEF u
  <2>2. Len(u) = 1
    BY <2>1
  <2> QED BY <2>2 DEF u
<1> QED BY <1>2, <1>3, <1>4

\* A subtree whose levels go on up to height h ends in its padded root.
LEMMA PaddedTower ==
  ASSUME NEW s \in Seq(Real), Len(s) >= 1, NEW h \in Nat, Len(s) <= 2^h,
         NEW U, U[0] = s, \A k \in 1 .. h : U[k] = UpLevel(U[k - 1])
  PROVE  Len(U[h]) = 1 /\ U[h][1] = PaddedRoot(s, h)
<1> DEFINE n == Len(s)
           g == Log2Ceil(n)
<1>1. n \in Nat /\ n >= 1 /\ n <= 2^h
  OBVIOUS
<1>2. g \in Nat /\ \A j \in Nat : j < g => 2^j < n
  <2> HIDE DEF n
  <2> QED BY <1>1, Log2CeilLemma
<1>3. g <= h /\ h - g \in Nat
  <2>1. 2^h \in Nat
    BY PowerType
  <2> HIDE DEF g, n
  <2>2. ~(h < g)
    BY <1>1, <1>2, <2>1
  <2> QED BY <1>2, <2>2
<1>4. PICK L : IsLevels(s, L, n)
  BY <1>1, LevelsExist
<1>5. L[0] = s /\ \A k \in 1 .. n : L[k] = ParentLevel(L[k - 1])
  BY <1>4 DEF IsLevels
<1>6. /\ g <= n /\ Len(L[g]) = 1 /\ L[g][1] = MerkleRoot(s)
      /\ \A k \in 0 .. g - 1 : Len(L[k]) # 1
  BY <1>5, LevelsShrink
<1>7. NaturalHeight(n) = g
  <2> HIDE DEF n
  <2> QED BY <1>1, NaturalHeightLemma
<1>8. PaddedRoot(s, h) = Lift(MerkleRoot(s), h - g)
  BY <1>7, Zenon DEF PaddedRoot
<1> HIDE DEF n, g
<1>9. U[g] = L[g]
  <2> DEFINE T == {k \in 0 .. g : U[k] # L[k]}
  <2>1. T = {}
    <3> SUFFICES ASSUME T # {} PROVE FALSE
      OBVIOUS
    <3>1. PICK x \in T : \A y \in T : x <= y
      <4>1. T \in SUBSET Nat
        BY <1>2
      <4> HIDE DEF T
      <4> QED BY <4>1, MinExists
    <3>2. x \in 0 .. g /\ U[x] # L[x]
      OBVIOUS
    <3>3. x # 0
      BY <1>5, <3>2
    <3> DEFINE k == x - 1
    <3>4. k \in 0 .. g - 1 /\ k \in 0 .. g /\ x \in 1 .. h /\ x \in 1 .. n /\ ~(x <= k)
      BY <1>1, <1>2, <1>3, <1>6, <3>2, <3>3
    <3>5. U[k] = L[k] /\ U[x] = UpLevel(U[k]) /\ L[x] = ParentLevel(L[k]) /\ Len(L[k]) # 1
      BY <1>5, <1>6, <3>1, <3>4
    <3> HIDE DEF k
    <3> QED BY <3>2, <3>5, UpIsParent
  <2>2. g \in 0 .. g
    BY <1>2
  <2> QED BY <2>1, <2>2
<1> DEFINE m == h - g
           f == [j \in 0 .. m |-> U[g + j][1]]
<1>10. \A j \in 0 .. m : Len(U[g + j]) = 1
  <2> DEFINE T == {j \in 0 .. m : Len(U[g + j]) # 1}
  <2>1. T = {}
    <3> SUFFICES ASSUME T # {} PROVE FALSE
      OBVIOUS
    <3>1. PICK x \in T : \A y \in T : x <= y
      <4>1. T \in SUBSET Nat
        BY <1>3
      <4> HIDE DEF T
      <4> QED BY <4>1, MinExists
    <3>2. x \in 0 .. m /\ Len(U[g + x]) # 1
      OBVIOUS
    <3>3. x # 0
      <4>1. g + 0 = g
        BY <1>2
      <4> QED BY <1>6, <1>9, <3>2, <4>1
    <3>4. x - 1 \in 0 .. m /\ g + x \in 1 .. h /\ (g + x) - 1 = g + (x - 1) /\ ~(x <= x - 1)
      BY <1>2, <1>3, <3>2, <3>3
    <3>5. Len(U[g + (x - 1)]) = 1
      BY <3>1, <3>4
    <3>6. U[g + x] = UpLevel(U[g + (x - 1)])
      BY <3>4
    <3> QED BY <3>2, <3>5, <3>6, UpOne
  <2> QED BY <2>1
<1>11. ASSUME NEW j \in 1 .. m PROVE f[j] = H(f[j - 1], f[j - 1])
  <2>1. /\ j - 1 \in 0 .. m /\ j \in 0 .. m /\ g + j \in 1 .. h
        /\ (g + j) - 1 = g + (j - 1)
    BY <1>2, <1>3
  <2>2. f[j] = U[g + j][1] /\ f[j - 1] = U[g + (j - 1)][1]
    BY <2>1
  <2>3. Len(U[g + (j - 1)]) = 1 /\ U[g + j] = UpLevel(U[g + (j - 1)])
    BY <1>10, <2>1
  <2> HIDE DEF f
  <2> QED BY <2>2, <2>3, UpOne
<1>12. f = [j \in 0 .. m |-> f[j]] /\ f[0] = MerkleRoot(s) /\ f[m] = U[h][1] /\ Len(U[h]) = 1
  <2>1. 0 \in 0 .. m /\ m \in 0 .. m /\ g + 0 = g /\ g + m = h
    BY <1>2, <1>3
  <2>2. f[0] = U[g + 0][1] /\ f[m] = U[g + m][1] /\ Len(U[g + m]) = 1
    BY <1>10, <2>1
  <2> QED BY <1>6, <1>9, <2>1, <2>2
<1>13. Lift(MerkleRoot(s), m) = f[m]
  <2>1. m \in Nat
    BY <1>3
  <2> HIDE DEF f, m
  <2>2. IsLift(MerkleRoot(s), f, m)
    BY <1>11, <1>12 DEF IsLift
  <2> QED BY <2>1, <2>2, LiftLemma
<1> QED BY <1>8, <1>12, <1>13

\* A subtree whose own tree is h high is not lifted.
LEMMA PaddedIsRoot ==
  ASSUME NEW s, NEW h, Len(s) \in Nat, NaturalHeight(Len(s)) = h, h \in Nat
  PROVE  PaddedRoot(s, h) = MerkleRoot(s)
<1> DEFINE x == MerkleRoot(s)
           f == [k \in 0 .. 0 |-> x]
<1>1. h - NaturalHeight(Len(s)) = 0
  OBVIOUS
<1>2. PaddedRoot(s, h) = Lift(x, 0)
  BY <1>1, Zenon DEF PaddedRoot
<1> HIDE DEF x
<1>3. f = [k \in 0 .. 0 |-> f[k]] /\ f[0] = x /\ 1 .. 0 = {} /\ 0 \in Nat
  OBVIOUS
<1> HIDE DEF f
<1>4. IsLift(x, f, 0)
  BY <1>3 DEF IsLift
<1>5. Lift(x, 0) = f[0]
  BY <1>3, <1>4, LiftLemma
<1> QED BY <1>2, <1>3, <1>5 DEF x

\* A full subtree is as high as the height it was created with.
LEMMA FullHeight ==
  ASSUME NEW h \in Nat
  PROVE  NaturalHeight(2^h) = h
<1> DEFINE n == 2^h
           c == Log2Ceil(n)
<1>1. n \in Nat /\ n >= 1
  BY PowerType
<1> HIDE DEF n
<1>2. c \in Nat /\ n <= 2^c /\ \A j \in Nat : j < c => 2^j < n
  BY <1>1, Log2CeilLemma
<1>3. NaturalHeight(n) = c
  BY <1>1, NaturalHeightLemma
<1> HIDE DEF c
<1>4. ~(h < c)
  BY <1>1, <1>2 DEF n
<1>5. ~(c < h)
  <2>1. c < h => 2^c < n
    BY <1>2, PowerGrows DEF n
  <2>2. 2^c \in Nat
    BY <1>2, PowerType
  <2> QED BY <1>1, <1>2, <2>1, <2>2
<1>6. c = h
  BY <1>2, <1>4, <1>5
<1> QED BY <1>3, <1>6 DEF n

\* A larger factor gives a larger product.
LEMMA ProductGrows ==
  ASSUME NEW a \in Nat, NEW b \in Nat, a <= b, NEW w \in Nat
  PROVE  a * w \in Nat /\ a * w <= b * w /\ (a + 1) * w = a * w + w
OBVIOUS

\* m lists of W entries each, the last one possibly shorter.
Filled(ss, W, m) ==
  /\ m = Len(ss) /\ m >= 1
  /\ \A i \in 1 .. m - 1 : Len(ss[i]) = W
  /\ Len(ss[m]) >= 1 /\ Len(ss[m]) <= W

\* The leaves of the subtrees in a row: subtree i begins at (i - 1) * W.
LEMMA FlattenParts ==
  ASSUME NEW S, NEW ss \in Seq(Seq(S)), NEW W \in Nat, NEW m \in Nat, Filled(ss, W, m)
  PROVE  /\ FlattenSeq(ss) \in Seq(S)
         /\ Len(FlattenSeq(ss)) = (m - 1) * W + Len(ss[m])
         /\ \A i \in 1 .. m : \A y \in 1 .. Len(ss[i]) :
              FlattenSeq(ss)[(i - 1) * W + y] = ss[i][y]
<1> DEFINE Good(t, x) == /\ t \in Seq(S)
                         /\ Len(t) = (x - 1) * W + Len(ss[x])
                         /\ \A i \in 1 .. x : \A y \in 1 .. Len(ss[i]) :
                              t[(i - 1) * W + y] = ss[i][y]
<1>0. m = Len(ss) /\ m >= 1 /\ \A i \in 1 .. m - 1 : Len(ss[i]) = W
  BY DEF Filled
<1>1. \A i \in 1 .. m : ss[i] \in Seq(S) /\ Len(ss[i]) \in Nat
  BY <1>0
<1>2. m # 0
  BY <1>0
<1>3. PICK c : /\ FlattenSeq(ss) = c[m]
               /\ \A i \in 1 .. m : c[i] = IF i = 1 THEN ss[i] ELSE c[i - 1] \o ss[i]
  BY <1>0, <1>2, FlattenSteps
<1> DEFINE T == {x \in 1 .. m : ~Good(c[x], x)}
<1> HIDE DEF Good
<1>4. T = {}
  <2> SUFFICES ASSUME T # {} PROVE FALSE
    OBVIOUS
  <2>1. PICK x \in T : \A y \in T : x <= y
    <3>1. T \in SUBSET Nat
      OBVIOUS
    <3> HIDE DEF T
    <3> QED BY <3>1, MinExists
  <2>2. x \in 1 .. m /\ ~Good(c[x], x)
    OBVIOUS
  <2>3. CASE x = 1
    <3>1. c[x] = ss[1] /\ 1 \in 1 .. m
      BY <1>3, <2>2, <2>3
    <3>2. (1 - 1) * W = 0
      OBVIOUS
    <3>3. ss[1] \in Seq(S) /\ Len(ss[1]) \in Nat
      BY <1>1, <3>1
    <3>4. Good(ss[1], 1)
      <4>1. Len(ss[1]) = (1 - 1) * W + Len(ss[1])
        <5> DEFINE u == Len(ss[1])
                   z == (1 - 1) * W
        <5>1. u \in Nat /\ z = 0
          BY <3>2, <3>3
        <5> HIDE DEF u, z
        <5>2. u = z + u
          BY <5>1
        <5> QED BY <5>2 DEF u, z
      <4>2. ASSUME NEW i \in 1 .. 1, NEW y \in 1 .. Len(ss[i])
            PROVE  ss[1][(i - 1) * W + y] = ss[i][y]
        <5>1. i = 1
          OBVIOUS
        <5>2. (i - 1) * W + y = y
          BY <3>2, <5>1
        <5> QED BY <5>1, <5>2
      <4> QED BY <3>3, <4>1, <4>2 DEF Good
    <3> QED BY <2>2, <2>3, <3>1, <3>4
  <2>4. CASE x # 1
    <3> DEFINE k == x - 1
               l == c[k]
               t == ss[x]
    <3>1. k \in 1 .. m /\ k \in 1 .. m - 1 /\ ~(x <= k)
      BY <2>2, <2>4
    <3>2. Good(l, k)
      BY <2>1, <3>1
    <3>3. c[x] = l \o t
      BY <1>3, <2>2, <2>4
    <3>4. t \in Seq(S) /\ Len(t) \in Nat /\ Len(ss[k]) = W
      BY <1>0, <1>1, <2>2, <3>1
    <3>5. l \in Seq(S) /\ Len(l) = k * W
      <4>1. l \in Seq(S) /\ Len(l) = (k - 1) * W + W
        BY <3>2, <3>4 DEF Good
      <4>2. (k - 1) * W + W = k * W
        BY <3>1
      <4> QED BY <4>1, <4>2
    <3>6. \A i \in 1 .. k : \A y \in 1 .. Len(ss[i]) : l[(i - 1) * W + y] = ss[i][y]
      BY <3>2 DEF Good
    <3> HIDE DEF k, l, t
    <3>7. k * W \in Nat
      BY <3>1
    <3>8. /\ l \o t \in Seq(S) /\ Len(l \o t) = Len(l) + Len(t)
          /\ \A i \in 1 .. Len(l) + Len(t) :
               (l \o t)[i] = IF i <= Len(l) THEN l[i] ELSE t[i - Len(l)]
      BY <3>4, <3>5, ConcatProperties
    <3>9. ASSUME NEW i \in 1 .. x, NEW y \in 1 .. Len(ss[i])
          PROVE  (l \o t)[(i - 1) * W + y] = ss[i][y]
      <4>1. CASE i = x
        <5>1. (i - 1) * W + y = k * W + y /\ y \in 1 .. Len(t)
          BY <4>1 DEF k, t
        <5>2. k * W + y \in 1 .. k * W + Len(t) /\ ~(k * W + y <= k * W) /\ (k * W + y) - k * W = y
          <6> DEFINE z == k * W
          <6>1. z \in Nat
            BY <3>7
          <6> HIDE DEF z
          <6>2. z + y \in 1 .. z + Len(t) /\ ~(z + y <= z) /\ (z + y) - z = y
            BY <3>4, <5>1, <6>1
          <6> QED BY <6>2 DEF z
        <5>3. (l \o t)[k * W + y] = t[y]
          BY <3>5, <3>8, <5>2
        <5> QED BY <4>1, <5>1, <5>3 DEF t
      <4>2. CASE i # x
        <5>1. i \in 1 .. k /\ i \in 1 .. m - 1
          BY <2>2, <3>1, <4>2 DEF k
        <5>2. Len(ss[i]) = W /\ y \in 1 .. W
          BY <1>0, <5>1
        <5>3. (i - 1) * W + y \in 1 .. k * W
          <6> DEFINE z == (i - 1) * W
          <6>1. z \in Nat /\ z + W = i * W
            BY <5>1
          <6>2. i * W <= k * W
            BY <3>1, <5>1
          <6>3. z + y \in Nat /\ z + y >= 1 /\ z + y <= z + W
            <7> HIDE DEF z
            <7> QED BY <5>2, <6>1
          <6>4. z + y <= k * W
            <7> DEFINE p == i * W
                       r == k * W
            <7>1. p \in Nat /\ r \in Nat /\ p <= r /\ z + W = p
              BY <3>1, <3>7, <5>1, <6>1, <6>2
            <7> HIDE DEF p, r, z
            <7>2. z + y <= r
              BY <6>3, <7>1
            <7> QED BY <7>2 DEF r
          <6> HIDE DEF z
          <6>5. z + y \in 1 .. k * W
            BY <3>7, <6>3, <6>4
          <6> QED BY <6>5 DEF z
        <5> DEFINE z == (i - 1) * W + y
                   r == k * W
        <5>4. z \in 1 .. r /\ r \in Nat /\ Len(l) = r
          BY <3>5, <3>7, <5>3
        <5>5. l[z] = ss[i][y]
          BY <3>6, <5>1
        <5> HIDE DEF z, r
        <5>6. z \in 1 .. Len(l) + Len(t) /\ z <= Len(l)
          BY <3>4, <5>4
        <5>7. (l \o t)[z] = l[z]
          BY <3>8, <5>6
        <5> QED BY <5>5, <5>7 DEF z
      <4> QED BY <4>1, <4>2
    <3>10. Good(l \o t, x)
      <4>1. Len(l \o t) = (x - 1) * W + Len(ss[x])
        BY <3>5, <3>8 DEF k, t
      <4> QED BY <3>8, <3>9, <4>1 DEF Good
    <3> QED BY <2>2, <3>3, <3>10
  <2> QED BY <2>3, <2>4
<1>5. m \in 1 .. m
  BY <1>2
<1>6. Good(c[m], m)
  BY <1>4, <1>5
<1> QED BY <1>3, <1>6 DEF Good

\* Level k of a block of m subtrees ends in the m-th of them.
LEMMA BlockLevels ==
  ASSUME NEW t \in Seq(Real), NEW m \in Nat, m >= 2, NEW h \in Nat,
         (m - 1) * 2^h < Len(t), Len(t) <= m * 2^h,
         NEW L, L[0] = t, \A k \in 1 .. h : L[k] = ParentLevel(L[k - 1])
  PROVE  \A k \in 0 .. h : /\ L[k] \in Seq(Real) /\ Len(L[k]) >= 2
                           /\ (m - 1) * 2^(h - k) < Len(L[k])
                           /\ Len(L[k]) <= m * 2^(h - k)
<1> DEFINE Fits(k) == /\ L[k] \in Seq(Real)
                      /\ (m - 1) * 2^(h - k) < Len(L[k])
                      /\ Len(L[k]) <= m * 2^(h - k)
           T == {k \in 0 .. h : ~Fits(k)}
<1>1. ASSUME NEW k \in 0 .. h, Fits(k) PROVE Len(L[k]) >= 2
  <2> DEFINE V == 2^(h - k)
             n == Len(L[k])
  <2>1. h - k \in Nat
    OBVIOUS
  <2>2. V \in Nat /\ V >= 1
    BY <2>1, PowerType
  <2>3. n \in Nat /\ (m - 1) * V < n
    BY <1>1
  <2> HIDE DEF V, n
  <2>4. (m - 1) * V >= 1
    BY <2>2
  <2>5. n >= 2
    <3> DEFINE z == (m - 1) * V
    <3>1. z \in Nat
      BY <2>2
    <3> HIDE DEF z
    <3>2. z >= 1 /\ z < n
      BY <2>3, <2>4 DEF z
    <3> QED BY <2>3, <3>1, <3>2
  <2> QED BY <2>5 DEF n
<1>2. T = {}
  <2> SUFFICES ASSUME T # {} PROVE FALSE
    OBVIOUS
  <2>1. PICK x \in T : \A y \in T : x <= y
    <3>1. T \in SUBSET Nat
      OBVIOUS
    <3> HIDE DEF T
    <3> QED BY <3>1, MinExists
  <2>2. x \in 0 .. h /\ ~Fits(x)
    OBVIOUS
  <2>3. x # 0
    <3>1. h - 0 = h
      OBVIOUS
    <3>2. Fits(0)
      BY <3>1
    <3> QED BY <2>2, <3>2
  <2> DEFINE k == x - 1
  <2>4. k \in 0 .. h /\ k \in 0 .. h - 1 /\ x \in 1 .. h /\ ~(x <= k) /\ h - x = h - k - 1
    BY <2>2, <2>3
  <2>5. Fits(k)
    <3> HIDE DEF Fits, k
    <3> QED BY <2>1, <2>4
  <2>6. L[x] = ParentLevel(L[k])
    BY <2>4
  <2> HIDE DEF k, T
  <2> DEFINE V == 2^(h - k - 1)
             n == Len(L[k])
             q == Len(L[x])
             a == (m - 1) * V
             b == m * V
  <2>7. V \in Nat /\ V >= 1 /\ 2^(h - k) = 2 * V
    BY <2>4, Widths
  <2>8. L[k] \in Seq(Real) /\ n \in Nat /\ n >= 2 /\ (m - 1) * (2 * V) < n /\ n <= m * (2 * V)
    <3>1. n >= 2
      <4> HIDE DEF Fits
      <4> QED BY <1>1, <2>4, <2>5
    <3>2. L[k] \in Seq(Real) /\ (m - 1) * 2^(h - k) < n /\ n <= m * 2^(h - k)
      BY <2>5
    <3>3. n \in Nat
      BY <3>2
    <3> HIDE DEF n, V
    <3> QED BY <2>7, <3>1, <3>2, <3>3
  <2>9. L[x] \in Seq(Real) /\ q = (n + 1) \div 2
    BY <2>6, <2>8, ParentLevelFacts
  <2> HIDE DEF V, n, q
  <2>10. a \in Nat /\ b \in Nat /\ (m - 1) * (2 * V) = 2 * a /\ m * (2 * V) = 2 * b
    BY <2>7
  <2> HIDE DEF a, b
  <2>11. a < q /\ q <= b
    BY <2>8, <2>9, <2>10
  <2>12. Fits(x)
    BY <2>4, <2>9, <2>11 DEF a, b, q, V
  <2> QED BY <2>2, <2>12
<1> QED BY <1>1, <1>2

\* Roots of subtrees, lifted to one height, are level h of the block.
LEMMA RootsAreLevel ==
  ASSUME NEW ss \in Seq(Seq(Real)), NEW m \in Nat, m >= 2, NEW h \in Nat,
         Filled(ss, 2^h, m),
         NEW L, L[0] = FlattenSeq(ss), \A k \in 1 .. h : L[k] = ParentLevel(L[k - 1])
  PROVE  /\ FlattenSeq(ss) \in Seq(Real) /\ Len(FlattenSeq(ss)) >= 1
         /\ L[h] \in Seq(Real) /\ Len(L[h]) = m
         /\ \A i \in 1 .. m : L[h][i] = PaddedRoot(ss[i], h)
<1> DEFINE W == 2^h
           t == FlattenSeq(ss)
           e == Len(ss[m])
<1>1. W \in Nat /\ W >= 1
  BY PowerType
<1>2. \A i \in 1 .. m : ss[i] \in Seq(Real) /\ Len(ss[i]) \in Nat
  BY DEF Filled
<1>3. (\A i \in 1 .. m - 1 : Len(ss[i]) = W) /\ Filled(ss, W, m)
  BY DEF Filled
<1>4. m \in 1 .. m /\ m >= 1
  OBVIOUS
<1>5. e \in Nat /\ e >= 1 /\ e <= W
  BY <1>2, <1>4 DEF Filled
<1>6. /\ t \in Seq(Real) /\ Len(t) = (m - 1) * W + e
      /\ \A i \in 1 .. m : \A y \in 1 .. Len(ss[i]) : t[(i - 1) * W + y] = ss[i][y]
  <2>1. Filled(ss, W, m)
    BY <1>3
  <2> HIDE DEF W
  <2>2. t \in Seq(Real)
    BY <1>1, <2>1, FlattenParts
  <2>3. Len(t) = (m - 1) * W + e
    BY <1>1, <2>1, FlattenParts
  <2>4. \A i \in 1 .. m : \A y \in 1 .. Len(ss[i]) : t[(i - 1) * W + y] = ss[i][y]
    <3> HIDE DEF e
    <3>1. \A i \in 1 .. m : \A y \in 1 .. Len(ss[i]) :
            FlattenSeq(ss)[(i - 1) * W + y] = ss[i][y]
      BY <1>1, <2>1, FlattenParts, ZenonT(30)
    <3> QED BY <3>1
  <2> QED BY <2>2, <2>3, <2>4
<1>7. (m - 1) * W < Len(t) /\ Len(t) <= m * W /\ Len(t) >= 1 /\ (m - 1) * W \in Nat
  <2> DEFINE z == (m - 1) * W
  <2>1. z \in Nat /\ m * W = z + W
    BY <1>1
  <2>2. Len(t) = z + e
    BY <1>6
  <2> HIDE DEF z, W, t, e
  <2>3. z < Len(t) /\ Len(t) <= z + W /\ Len(t) >= 1
    BY <1>1, <1>5, <2>1, <2>2
  <2> QED BY <2>1, <2>3 DEF z
<1>8. \A k \in 0 .. h : /\ L[k] \in Seq(Real) /\ Len(L[k]) >= 2
                        /\ (m - 1) * 2^(h - k) < Len(L[k])
                        /\ Len(L[k]) <= m * 2^(h - k)
  <2> HIDE DEF t
  <2> QED BY <1>6, <1>7, BlockLevels DEF t
<1>9. L[h] \in Seq(Real) /\ Len(L[h]) = m
  <2>1. h \in 0 .. h /\ h - h = 0 /\ 2^0 = 1
    OBVIOUS
  <2>2. L[h] \in Seq(Real) /\ (m - 1) * 1 < Len(L[h]) /\ Len(L[h]) <= m * 1
    BY <1>8, <2>1
  <2> DEFINE n == Len(L[h])
  <2>3. n \in Nat /\ (m - 1) * 1 < n /\ n <= m * 1
    BY <2>2
  <2> HIDE DEF n
  <2>4. n = m
    BY <2>3
  <2> QED BY <2>2, <2>4 DEF n
<1>10. ASSUME NEW i \in 1 .. m PROVE L[h][i] = PaddedRoot(ss[i], h)
  <2> DEFINE s == ss[i]
             B(k) == (i - 1) * 2^(h - k)
             U == [k \in 0 .. h |-> Part(L[k], B(k), 2^(h - k))]
  <2>1. s \in Seq(Real) /\ Len(s) \in Nat /\ Len(s) >= 1 /\ Len(s) <= W
    <3>1. CASE i = m
      BY <1>2, <1>5, <3>1
    <3>2. CASE i # m
      <4>1. i \in 1 .. m - 1
        BY <3>2
      <4>2. Len(s) = W
        BY <1>3, <4>1
      <4> HIDE DEF W
      <4> QED BY <1>1, <1>2, <4>2
    <3> QED BY <3>1, <3>2
  <2>2. Width(t, (i - 1) * W, W) = Len(s)
    <3> DEFINE z == (i - 1) * W
               b == (m - 1) * W
    <3>1. z \in Nat /\ b \in Nat /\ Len(t) = b + e /\ Width(t, z, W) = IF z + W <= Len(t) THEN W ELSE Len(t) - z
      <4>1. z \in Nat
        <5> HIDE DEF W
        <5>1. i - 1 \in Nat
          OBVIOUS
        <5> QED BY <1>1, <5>1, ProductGrows
      <4>2. Width(t, z, W) = IF z + W <= Len(t) THEN W ELSE Len(t) - z
        BY Zenon DEF Width
      <4> QED BY <1>6, <1>7, <4>1, <4>2
    <3>2. CASE i = m
      <4>1. z = b /\ Len(s) = e
        BY <3>2
      <4> HIDE DEF z, b, e, W, t, s
      <4>2. b + W <= b + e <=> e = W
        BY <1>1, <1>5, <3>1
      <4>3. (b + e) - b = e
        BY <1>5, <3>1
      <4>4. Width(t, z, W) = e
        BY <3>1, <4>1, <4>2, <4>3
      <4> QED BY <4>1, <4>4 DEF z, W
    <3>3. CASE i # m
      <4>1. i \in 1 .. m - 1
        BY <3>3
      <4>2. Len(s) = W
        BY <1>3, <4>1
      <4>3. z + W <= b
        <5> HIDE DEF W
        <5>1. i - 1 \in Nat /\ (i - 1) + 1 = i /\ i \in Nat /\ m - 1 \in Nat /\ i <= m - 1
          BY <4>1
        <5>2. z + W = i * W
          BY <1>1, <5>1, ProductGrows
        <5>3. i * W <= (m - 1) * W
          BY <1>1, <5>1, ProductGrows
        <5> QED BY <5>2, <5>3
      <4> HIDE DEF z, b, e, W, t, s
      <4>4. z + W <= b + e
        BY <1>1, <1>5, <3>1, <4>3
      <4>5. Width(t, z, W) = W
        BY <3>1, <4>4
      <4> QED BY <4>2, <4>5 DEF z, W
    <3> QED BY <3>2, <3>3
  <2>3. U[0] = s
    <3>1. 0 \in 0 .. h /\ h - 0 = h
      OBVIOUS
    <3>2. U[0] = Part(t, (i - 1) * W, W)
      BY <3>1
    <3>3. Part(t, (i - 1) * W, W) = [y \in 1 .. Len(s) |-> t[(i - 1) * W + y]]
      BY <2>2 DEF Part
    <3>4. \A y \in 1 .. Len(s) : t[(i - 1) * W + y] = s[y]
      BY <1>6
    <3>5. s = [y \in 1 .. Len(s) |-> s[y]]
      BY <2>1
    <3> HIDE DEF U, s, t, W
    <3> QED BY <3>2, <3>3, <3>4, <3>5
  <2>4. ASSUME NEW x \in 1 .. h PROVE U[x] = UpLevel(U[x - 1])
    <3> DEFINE k == x - 1
               V == 2^(h - x)
               b == (i - 1) * V
               l == L[k]
    <3>1. k \in 0 .. h /\ x \in 0 .. h /\ k \in 0 .. h - 1 /\ h - x = h - k - 1
      OBVIOUS
    <3>2. V \in Nat /\ V >= 1 /\ 2^(h - k) = 2 * V
      <4> HIDE DEF k
      <4> QED BY <3>1, Widths
    <3>3. U[x] = Part(L[x], b, V) /\ U[k] = Part(l, (i - 1) * (2 * V), 2 * V)
      BY <3>1, <3>2
    <3>4. L[x] = ParentLevel(l)
      OBVIOUS
    <3>5. l \in Seq(Real) /\ Len(l) >= 2 /\ (m - 1) * (2 * V) < Len(l) /\ Len(l) \in Nat
      <4>1. l \in Seq(Real) /\ Len(l) >= 2 /\ (m - 1) * 2^(h - k) < Len(l)
        BY <1>8, <3>1
      <4>2. Len(l) \in Nat
        BY <4>1
      <4> HIDE DEF l, k, V
      <4> QED BY <3>2, <4>1, <4>2
    <3> HIDE DEF V, l
    <3>6. b \in Nat /\ (i - 1) * (2 * V) = 2 * b /\ (i - 1) * (2 * V) <= (m - 1) * (2 * V)
          /\ (m - 1) * (2 * V) \in Nat
      <4>1. i - 1 \in Nat /\ m - 1 \in Nat /\ i - 1 <= m - 1 /\ 2 * V \in Nat /\ m - 1 <= m - 1
        BY <3>2
      <4>2. b \in Nat
        BY <3>2, <4>1, ProductGrows
      <4>3. (i - 1) * (2 * V) <= (m - 1) * (2 * V) /\ (m - 1) * (2 * V) \in Nat
        BY <4>1, ProductGrows
      <4>4. (i - 1) * (2 * V) = 2 * b
        BY <3>2, <4>1
      <4> QED BY <4>2, <4>3, <4>4
    <3>7. 2 * b < Len(l)
      <4> DEFINE z == (m - 1) * (2 * V)
                 n == Len(l)
      <4>1. z \in Nat /\ 2 * b <= z /\ z < n /\ n \in Nat /\ b \in Nat
        BY <3>5, <3>6
      <4> HIDE DEF z, n, b
      <4>2. 2 * b < n
        BY <4>1
      <4> QED BY <4>2 DEF n
    <3> HIDE DEF b, U
    <3>8. Part(ParentLevel(l), b, V) = UpLevel(Part(l, 2 * b, 2 * V))
      BY <3>2, <3>5, <3>6, <3>7, PartStep
    <3> QED BY <3>3, <3>4, <3>6, <3>8
  <2>5. U[h] = [y \in 1 .. 1 |-> L[h][(i - 1) + y]]
    <3>1. h \in 0 .. h /\ h - h = 0 /\ 2^0 = 1 /\ (i - 1) * 1 = i - 1
      OBVIOUS
    <3>2. U[h] = Part(L[h], i - 1, 1)
      BY <3>1
    <3>3. (i - 1) + 1 <= Len(L[h])
      BY <1>9
    <3>4. Width(L[h], i - 1, 1) = 1
      BY <3>3 DEF Width
    <3> QED BY <3>2, <3>4 DEF Part
  <2>6. U[h][1] = L[h][i]
    <3>1. (i - 1) + 1 = i /\ 1 \in 1 .. 1
      OBVIOUS
    <3> HIDE DEF U
    <3> QED BY <2>5, <3>1
  <2> HIDE DEF U, s
  <2>7. U[h][1] = PaddedRoot(s, h)
    BY <2>1, <2>3, <2>4, PaddedTower
  <2> QED BY <2>6, <2>7 DEF s
<1> QED BY <1>6, <1>7, <1>9, <1>10

\* The padded roots of the subtrees make the root of the block.
LEMMA ComposeLemma ==
  ASSUME NEW ss \in Seq(Seq(Real)), NEW m \in Nat, m >= 2, NEW h \in Nat,
         Filled(ss, 2^h, m),
         NEW roots, roots = [i \in 1 .. m |-> PaddedRoot(ss[i], h)]
  PROVE  /\ roots \in Seq(Real) /\ Len(roots) = m
         /\ MerkleRoot(roots) = FlatRoot(FlattenSeq(ss))
<1> DEFINE t == FlattenSeq(ss)
           n == Len(t)
           z == n + h + m
<1>1. t \in Seq(Real)
  BY FlattenType
<1>2. n \in Nat /\ z \in Nat /\ n <= z /\ h <= z /\ z - h \in Nat /\ m <= z - h
  <2>1. n \in Nat
    BY <1>1
  <2> HIDE DEF n
  <2> QED BY <2>1
<1>3. PICK L : IsLevels(t, L, z)
  BY <1>2, LevelsExist
<1>4. L[0] = t /\ \A k \in 1 .. z : L[k] = ParentLevel(L[k - 1])
  BY <1>3 DEF IsLevels
<1> HIDE DEF z
<1>5. \A k \in 1 .. h : L[k] = ParentLevel(L[k - 1])
  BY <1>2, <1>4
<1>6. /\ n >= 1 /\ L[h] \in Seq(Real) /\ Len(L[h]) = m
      /\ \A i \in 1 .. m : L[h][i] = PaddedRoot(ss[i], h)
  BY <1>4, <1>5, RootsAreLevel
<1>7. roots = L[h]
  <2>1. L[h] = [i \in 1 .. m |-> L[h][i]]
    BY <1>6
  <2> QED BY <1>6, <2>1
<1> HIDE DEF n, t
<1>8. FlatRoot(t) = L[z][1]
  BY <1>1, <1>2, <1>4, <1>6, FlatRootAny DEF n
<1> DEFINE M == [k \in 0 .. z - h |-> L[h + k]]
<1>9. M[0] = L[h] /\ M[z - h] = L[z]
  <2>1. 0 \in 0 .. z - h /\ z - h \in 0 .. z - h /\ h + 0 = h /\ h + (z - h) = z
    BY <1>2
  <2> QED BY <2>1
<1>10. ASSUME NEW k \in 1 .. z - h PROVE M[k] = ParentLevel(M[k - 1])
  <2>1. /\ k \in 0 .. z - h /\ k - 1 \in 0 .. z - h /\ h + k \in 1 .. z
        /\ (h + k) - 1 = h + (k - 1)
    BY <1>2
  <2>2. M[k] = L[h + k] /\ M[k - 1] = L[h + (k - 1)]
    BY <2>1
  <2>3. L[h + k] = ParentLevel(L[h + (k - 1)])
    BY <1>4, <2>1
  <2> QED BY <2>2, <2>3
<1> HIDE DEF M
<1>11. roots \in Seq(Real) /\ Len(roots) = m /\ Len(roots) >= 1
  BY <1>6, <1>7
<1>12. M[0] = roots /\ Len(roots) <= z - h
  BY <1>2, <1>7, <1>9, <1>11
<1>13. FlatRoot(roots) = M[z - h][1] /\ FlatRoot(roots) = MerkleRoot(roots)
  BY <1>2, <1>10, <1>11, <1>12, FlatRootAny
<1> QED BY <1>8, <1>9, <1>11, <1>13 DEF t

-----------------------------------------------------------------------------
(* The block.                                                              *)

Leaf == TxHashes \cup {CoinbasePlaceholder}

\* Every leaf of a block is the hash of a node that is there.
LEMMA LeafReal == Leaf \subseteq Real
<1>1. CoinbasePlaceholder \in Real
  BY DEF CoinbasePlaceholder, Real, Hash, ZeroHash
<1>2. TxHashes \subseteq Real
  BY BlockAssumption DEF Real
<1> QED BY <1>1, <1>2 DEF Leaf

\* The inductive invariant: TypeOK bounds the lengths of the subtrees, and
\* the first conjunct says that they are lists of leaves.
BInv == subtrees \in Seq(Seq(Leaf)) /\ TypeOK

\* A block begins without subtrees.
LEMMA BInvInit == Init => BInv
<1> SUFFICES ASSUME Init PROVE BInv
  OBVIOUS
<1>1. subtrees = << >> /\ height \in 0 .. MaxHeight
  BY DEF Init
<1>2. DOMAIN subtrees = {} /\ subtrees \in Seq(Seq(Leaf))
  BY <1>1
<1> QED BY <1>1, <1>2 DEF BInv, TypeOK

\* What BInv says of each subtree, without Range.
LEMMA BInvFacts ==
  ASSUME NEW ss \in Seq(Seq(Leaf)), NEW i \in DOMAIN ss
  PROVE  /\ i \in 1 .. Len(ss) /\ Len(ss) \in Nat
         /\ ss[i] \in Seq(Leaf) /\ Len(ss[i]) \in Nat
         /\ Range(ss[i]) \subseteq TxHashes \cup {CoinbasePlaceholder}
<1>1. i \in 1 .. Len(ss) /\ Len(ss) \in Nat
  OBVIOUS
<1> DEFINE t == ss[i]
<1>2. t \in Seq(Leaf)
  OBVIOUS
<1> HIDE DEF t
<1>3. Len(t) \in Nat /\ Range(t) \subseteq TxHashes \cup {CoinbasePlaceholder}
  BY <1>2 DEF Range, Leaf
<1> QED BY <1>1, <1>2, <1>3 DEF t

\* Every step keeps the shape of the block.
LEMMA BInvStep == BInv /\ [Next]_vars => BInv'
<1> SUFFICES ASSUME BInv, [Next]_vars PROVE BInv'
  OBVIOUS
<1> DEFINE ss == subtrees
           n == Len(ss)
           w == 2^height
           Shape(t) == /\ t \in Seq(Seq(Leaf))
                       /\ \A i \in DOMAIN t :
                            /\ Len(t[i]) <= w
                            /\ i < Len(t) => Len(t[i]) = w
<1>1. height \in Nat /\ height \in 0 .. MaxHeight
  BY BlockAssumption DEF BInv, TypeOK
<1>2. w \in Nat /\ w >= 1
  BY <1>1, PowerType
<1>3. Shape(ss) /\ n \in Nat
  <2>1. ss \in Seq(Seq(Leaf))
    BY DEF BInv
  <2> QED BY <2>1 DEF BInv, TypeOK
<1>4. ASSUME Shape(subtrees'), height' = height PROVE BInv'
  <2>1. \A i \in DOMAIN subtrees' :
          Range(subtrees'[i]) \subseteq TxHashes \cup {CoinbasePlaceholder}
    BY <1>4, BInvFacts
  <2> QED BY <1>1, <1>4, <2>1 DEF BInv, TypeOK
<1>5. CASE NewTree
  <2>1. subtrees' = Append(ss, << >>) /\ height' = height /\ ~Open
    BY <1>5 DEF NewTree
  <2>2. << >> \in Seq(Leaf)
    OBVIOUS
  <2>3. /\ subtrees' \in Seq(Seq(Leaf)) /\ Len(subtrees') = n + 1
        /\ \A i \in 1 .. n : subtrees'[i] = ss[i]
        /\ subtrees'[n + 1] = << >>
        /\ DOMAIN subtrees' = 1 .. n + 1 /\ DOMAIN ss = 1 .. n
    BY <1>3, <2>1, <2>2
  <2>4. n # 0 => Len(ss[n]) = w
    <3> SUFFICES ASSUME n # 0 PROVE Len(ss[n]) = w
      OBVIOUS
    <3>1. ss # << >> /\ n \in DOMAIN ss
      BY <1>3, <2>3
    <3>2. ~(Len(ss[n]) < w)
      BY <2>1, <3>1 DEF Open, Last
    <3>3. Len(ss[n]) <= w /\ Len(ss[n]) \in Nat
      BY <1>3, <3>1, BInvFacts
    <3> DEFINE x == Len(ss[n])
    <3> HIDE DEF x, w
    <3> QED BY <1>2, <3>2, <3>3 DEF x
  <2>5. ASSUME NEW i \in DOMAIN subtrees'
        PROVE  /\ Len(subtrees'[i]) <= w
               /\ i < Len(subtrees') => Len(subtrees'[i]) = w
    <3> HIDE DEF n, w
    <3>1. CASE i = n + 1
      <4>1. Len(subtrees'[i]) = 0
        BY <2>3, <3>1
      <4> QED BY <1>2, <1>3, <2>3, <3>1, <4>1
    <3>2. CASE i # n + 1
      <4>1. i \in 1 .. n /\ i \in DOMAIN ss /\ subtrees'[i] = ss[i] /\ (i = n \/ i < n) /\ n # 0
        BY <1>3, <2>3, <3>2
      <4>2. Len(ss[i]) <= w /\ (i < n => Len(ss[i]) = w)
        BY <1>3, <4>1 DEF n
      <4> QED BY <2>4, <4>1, <4>2
    <3> QED BY <3>1, <3>2
  <2>6. Shape(subtrees')
    BY <2>3, <2>5
  <2> QED BY <1>4, <2>1, <2>6
<1>6. CASE AddCoinbaseNode
  <2> DEFINE a == <<CoinbasePlaceholder>>
  <2>1. subtrees' = <<a>> /\ height' = height
    BY <1>6 DEF AddCoinbaseNode
  <2>2. a \in Seq(Leaf) /\ Len(a) = 1
    BY DEF Leaf
  <2> HIDE DEF a
  <2>3. /\ subtrees' \in Seq(Seq(Leaf)) /\ Len(subtrees') = 1
        /\ DOMAIN subtrees' = {1} /\ subtrees'[1] = a
    BY <2>1, <2>2
  <2>4. 1 <= w
    <3> HIDE DEF w
    <3> QED BY <1>2
  <2>5. Shape(subtrees')
    <3> HIDE DEF w
    <3>1. ASSUME NEW i \in DOMAIN subtrees'
          PROVE  /\ Len(subtrees'[i]) <= w
                 /\ i < Len(subtrees') => Len(subtrees'[i]) = w
      <4>1. i = 1 /\ Len(subtrees'[i]) = 1 /\ ~(1 < 1)
        BY <2>2, <2>3
      <4> QED BY <2>3, <2>4, <4>1
    <3> QED BY <2>3, <3>1
  <2> QED BY <1>4, <2>1, <2>5
<1>7. ASSUME NEW hash \in TxHashes, AddNode(hash) PROVE BInv'
  <2> DEFINE b == Append(ss[n], hash)
  <2>1. subtrees' = [ss EXCEPT ![n] = b] /\ height' = height /\ Open
    BY <1>7 DEF AddNode
  <2>2. ss # << >> /\ Len(ss[n]) < w
    BY <2>1 DEF Open, Last
  <2>3. n \in 1 .. n /\ DOMAIN ss = 1 .. n
    BY <1>3, <2>2
  <2>4. ss[n] \in Seq(Leaf) /\ Len(ss[n]) \in Nat
    BY <1>3, <2>3, BInvFacts
  <2>5. b \in Seq(Leaf) /\ Len(b) = Len(ss[n]) + 1
    BY <2>4 DEF Leaf
  <2> HIDE DEF b
  <2>6. /\ subtrees' \in Seq(Seq(Leaf)) /\ Len(subtrees') = n
        /\ DOMAIN subtrees' = 1 .. n
        /\ subtrees'[n] = b /\ \A i \in 1 .. n : i # n => subtrees'[i] = ss[i]
    <3> DEFINE g == [ss EXCEPT ![n] = b]
    <3>1. ss \in Seq(Seq(Leaf))
      BY <1>3
    <3>2. ss \in [1 .. n -> Seq(Leaf)]
      BY <2>3, <3>1
    <3> HIDE DEF n
    <3>3. /\ g \in [1 .. n -> Seq(Leaf)]
          /\ g[n] = b /\ \A i \in 1 .. n : i # n => g[i] = ss[i]
      BY <2>3, <2>5, <3>2
    <3> HIDE DEF g
    <3>4. g \in Seq(Seq(Leaf)) /\ Len(g) = n /\ DOMAIN g = 1 .. n
      BY <1>3, <3>3
    <3> QED BY <2>1, <3>3, <3>4 DEF g
  <2>7. Len(b) <= w
    <3> DEFINE x == Len(ss[n])
    <3> HIDE DEF x, w
    <3> QED BY <1>2, <2>2, <2>4, <2>5 DEF x
  <2>8. ASSUME NEW i \in DOMAIN subtrees'
        PROVE  /\ Len(subtrees'[i]) <= w
               /\ i < Len(subtrees') => Len(subtrees'[i]) = w
    <3> HIDE DEF n, w
    <3>1. CASE i = n
      BY <1>3, <2>6, <2>7, <3>1
    <3>2. CASE i # n
      <4>1. i \in DOMAIN ss /\ subtrees'[i] = ss[i]
        BY <2>3, <2>6, <3>2
      <4> QED BY <1>3, <2>6, <4>1 DEF n
    <3> QED BY <3>1, <3>2
  <2>9. Shape(subtrees')
    BY <2>6, <2>8
  <2> QED BY <1>4, <2>1, <2>9
<1>8. CASE UNCHANGED vars
  BY <1>8 DEF vars, BInv, TypeOK
<1>9. CASE Done
  BY <1>8, <1>9 DEF Done
<1> QED BY <1>5, <1>6, <1>7, <1>8, <1>9 DEF Next

\* A block is a list of full subtrees of leaves, then at most one that is
\* filling, whatever its height and however many leaves it takes.
THEOREM BlockInvariant == Spec => []BInv
BY BInvInit, BInvStep, PTL DEF Spec

\* TypeOK of the block, for every height and every number of leaves.
THEOREM BlockTypes == Spec => []TypeOK
<1>1. BInv => TypeOK
  BY DEF BInv
<1> QED BY <1>1, BlockInvariant, PTL

\* The root that BuildMerkleTreeStoreFromBytes leaves at the end of its
\* padded array is the Bitcoin merkle root of the leaves, for every number of
\* leaves and every pattern of equal hashes.
THEOREM RootAlwaysCanonical == Spec => []RootIsCanonical
<1>1. BInv => RootIsCanonical
  <2> SUFFICES ASSUME BInv, leaves # << >> PROVE MerkleRoot(leaves) = FlatRoot(leaves)
    BY DEF RootIsCanonical
  <2>1. leaves \in Seq(Leaf)
    BY FlattenType DEF BInv, leaves
  <2> HIDE DEF BInv
  <2>2. leaves \in Seq(Real)
    BY <2>1, LeafReal, SeqMonotonic
  <2>3. Len(leaves) >= 1
    BY <2>1
  <2> QED BY <2>2, <2>3, RootLemma
<1> QED BY <1>1, BlockInvariant, PTL

\* The siblings GetMerkleProof returns for a leaf of a subtree lead a verifier
\* from that leaf to the subtree's RootHash, for subtrees of every size.
THEOREM ProofsAlwaysVerify == Spec => []ProofsVerify
<1>1. BInv => ProofsVerify
  <2> SUFFICES ASSUME BInv, NEW i \in DOMAIN subtrees,
                      NEW index \in 0 .. Len(subtrees[i]) - 1
               PROVE  ProvenRoot(subtrees[i][index + 1], index, GetMerkleProof(subtrees[i], index))
                        = MerkleRoot(subtrees[i])
    BY DEF ProofsVerify
  <2> DEFINE s == subtrees[i]
  <2>1. s \in Seq(Leaf) /\ Len(s) \in Nat
    BY BInvFacts DEF BInv
  <2> HIDE DEF s
  <2>2. s \in Seq(Real)
    BY <2>1, LeafReal, SeqMonotonic
  <2>3. index \in 0 .. Len(s) - 1
    BY DEF s
  <2>4. Len(s) >= 1
    BY <2>1, <2>3
  <2>5. ProvenRoot(s[index + 1], index, GetMerkleProof(s, index)) = MerkleRoot(s)
    BY <2>2, <2>3, <2>4, ProofLemma
  <2> QED BY <2>5 DEF s
<1> QED BY <1>1, BlockInvariant, PTL

\* What a subtree that is there is to the lemmas above.
LEMMA BlockIsFilled ==
  ASSUME BInv, subtrees # << >>, Last(subtrees) # << >>
  PROVE  /\ subtrees \in Seq(Seq(Real)) /\ Len(subtrees) \in Nat /\ height \in Nat
         /\ DOMAIN subtrees = 1 .. Len(subtrees)
         /\ Filled(subtrees, 2^height, Len(subtrees))
<1> DEFINE ss == subtrees
           m == Len(ss)
           w == 2^height
<1>1. ss \in Seq(Seq(Leaf)) /\ height \in Nat
  BY BlockAssumption DEF BInv, TypeOK
<1>2. ss \in Seq(Seq(Real))
  <2>1. Seq(Leaf) \subseteq Seq(Real)
    BY LeafReal, SeqMonotonic
  <2> QED BY <1>1, <2>1, SeqMonotonic
<1>3. m \in Nat /\ m >= 1 /\ DOMAIN ss = 1 .. m
  BY <1>1
<1>4. m \in DOMAIN ss /\ \A i \in 1 .. m - 1 : i \in DOMAIN ss /\ i < m
  <2> HIDE DEF m
  <2> QED BY <1>3
<1>5. Len(ss[m]) <= w /\ \A i \in 1 .. m - 1 : Len(ss[i]) = w
  BY <1>4 DEF BInv, TypeOK
<1>6. Len(ss[m]) >= 1
  <2> DEFINE t == ss[m]
  <2>1. t \in Seq(Leaf) /\ t # << >>
    BY <1>1, <1>4 DEF Last
  <2> HIDE DEF t
  <2>2. Len(t) >= 1
    BY <2>1
  <2> QED BY <2>2 DEF t
<1> QED BY <1>1, <1>2, <1>3, <1>5, <1>6 DEF Filled

\* RootHashPadded keeps its promise for blocks of any number of subtrees: a
\* tree over the padded roots has the root of one tree over all the leaves.
THEOREM PaddedRootsAlwaysCompose == Spec => []PaddedRootsCompose
<1>1. BInv => PaddedRootsCompose
  <2> SUFFICES ASSUME BInv, Len(subtrees) > 1, Last(subtrees) # << >>
               PROVE  MerkleRoot([i \in DOMAIN subtrees |-> PaddedRoot(subtrees[i], height)])
                        = FlatRoot(leaves)
    BY DEF PaddedRootsCompose
  <2> DEFINE m == Len(subtrees)
             roots == [i \in 1 .. m |-> PaddedRoot(subtrees[i], height)]
  <2>1. subtrees # << >>
    OBVIOUS
  <2>2. /\ subtrees \in Seq(Seq(Real)) /\ m \in Nat /\ height \in Nat
        /\ DOMAIN subtrees = 1 .. m
        /\ Filled(subtrees, 2^height, m)
    BY <2>1, BlockIsFilled
  <2>3. m >= 2
    <3>1. m > 1
      OBVIOUS
    <3> HIDE DEF m
    <3> QED BY <2>2, <3>1
  <2> HIDE DEF m, roots
  <2>4. roots = [i \in 1 .. m |-> PaddedRoot(subtrees[i], height)]
    BY DEF roots
  <2>5. MerkleRoot(roots) = FlatRoot(FlattenSeq(subtrees))
    BY <2>2, <2>3, <2>4, ComposeLemma
  <2> QED BY <2>2, <2>4, <2>5 DEF leaves
<1> QED BY <1>1, BlockInvariant, PTL

\* Where GetMerkleProofForCoinbase succeeds and the last subtree is as high as
\* the others, its proof leads from the first leaf to the root of the block.
THEOREM CoinbaseProofVerifiesWhenLevel == Spec => []CoinbaseProofVerifiesIfLevel
<1>1. BInv => CoinbaseProofVerifiesIfLevel
  <2> SUFFICES ASSUME BInv, CoinbaseProofOutcome = "ok",
                      Len(subtrees) = 1 \/ NaturalHeight(Len(Last(subtrees))) = height
               PROVE  ProvenRoot(leaves[1], 0, GetMerkleProofForCoinbase) = FlatRoot(leaves)
    BY DEF CoinbaseProofVerifiesIfLevel
  <2> DEFINE ss == subtrees
             m == Len(ss)
             s == ss[1]
             top == topTree
             p == GetMerkleProof(s, 0)
             q == GetMerkleProof(top, 0)
  <2>1. ss # << >> /\ \A i \in DOMAIN ss : ss[i] # << >>
    <3> DEFINE refused == {i \in DOMAIN subtrees :
                             \/ subtrees[i] = << >>
                             \/ MerkleRoot(subtrees[i]) = CoinbasePlaceholder}
    <3>1. CoinbaseProofOutcome =
            IF subtrees = << >> THEN "ErrNoSubtreesAvailable"
            ELSE IF subtrees[1] = << >> THEN "ErrIndexOutOfRange"
            ELSE IF refused = {} THEN "ok"
            ELSE IF subtrees[Min(refused)] = << >> THEN "panic"
            ELSE "ErrCoinbasePlaceholderMisuse"
      BY Zenon DEF CoinbaseProofOutcome
    <3> HIDE DEF refused
    <3>2. subtrees # << >> /\ refused = {}
      BY <3>1
    <3> QED BY <3>2, Zenon DEF refused
  <2>2. ss \in Seq(Seq(Leaf)) /\ m \in Nat /\ m >= 1 /\ DOMAIN ss = 1 .. m
    <3>1. ss \in Seq(Seq(Leaf))
      BY DEF BInv
    <3> QED BY <2>1, <3>1
  <2>3. m \in 1 .. m /\ 1 \in 1 .. m
    <3> HIDE DEF m
    <3> QED BY <2>2
  <2>4. Last(ss) # << >> /\ Last(ss) = ss[m]
    BY <2>1, <2>2, <2>3 DEF Last
  <2>5. /\ ss \in Seq(Seq(Real)) /\ height \in Nat
        /\ Filled(ss, 2^height, m)
    BY <2>1, <2>4, BlockIsFilled
  <2>6. ASSUME NEW i \in 1 .. m PROVE ss[i] \in Seq(Real) /\ Len(ss[i]) \in Nat /\ Len(ss[i]) >= 1
    <3> DEFINE t == ss[i]
    <3>1. t \in Seq(Real) /\ t # << >>
      BY <2>1, <2>2, <2>5
    <3> HIDE DEF t
    <3>2. Len(t) \in Nat /\ Len(t) >= 1
      BY <3>1
    <3> QED BY <3>1, <3>2 DEF t
  <2>7. top = [i \in 1 .. m |-> MerkleRoot(ss[i])]
    BY <2>2 DEF topTree
  <2>8. \A i \in 1 .. m : MerkleRoot(ss[i]) \in Real
    BY <2>6, RootLemma
  <2> HIDE DEF top
  <2>9. top \in Seq(Real) /\ Len(top) = m /\ \A i \in 1 .. m : top[i] = MerkleRoot(ss[i])
    <3> HIDE DEF m, ss
    <3>1. top \in [1 .. m -> Real]
      BY <2>7, <2>8
    <3> QED BY <2>2, <2>7, <3>1
  <2>10. s \in Seq(Real) /\ Len(s) \in Nat /\ Len(s) >= 1
    BY <2>3, <2>6
  <2>11. leaves[1] = s[1]
    <3> DEFINE W == 2^height
    <3>1. W \in Nat /\ Filled(ss, W, m)
      BY <2>5, PowerType
    <3>2. 1 \in 1 .. Len(ss[1]) /\ (1 - 1) * W + 1 = 1
      <4>1. 1 \in 1 .. Len(ss[1])
        BY <2>10
      <4> HIDE DEF W
      <4>2. (1 - 1) * W + 1 = 1
        BY <3>1
      <4> QED BY <4>1, <4>2
    <3> HIDE DEF W
    <3>3. \A i \in 1 .. m : \A y \in 1 .. Len(ss[i]) :
            FlattenSeq(ss)[(i - 1) * W + y] = ss[i][y]
      BY <2>2, <2>5, <3>1, FlattenParts, ZenonT(30)
    <3>4. FlattenSeq(ss)[(1 - 1) * W + 1] = ss[1][1]
      BY <2>3, <3>2, <3>3
    <3> QED BY <3>2, <3>4 DEF leaves
  <2>12. ProvenRoot(s[1], 0, p) = MerkleRoot(s)
    <3> HIDE DEF s
    <3>1. 0 \in 0 .. Len(s) - 1 /\ 0 + 1 = 1
      BY <2>10
    <3>2. ProvenRoot(s[0 + 1], 0, GetMerkleProof(s, 0)) = MerkleRoot(s)
      BY <2>10, <3>1, ProofLemma
    <3> QED BY <3>1, <3>2
  <2>13. ProvenRoot(top[1], 0, q) = MerkleRoot(top) /\ top[1] = MerkleRoot(s)
    <3> HIDE DEF m
    <3>1. 0 \in 0 .. Len(top) - 1 /\ 0 + 1 = 1 /\ Len(top) >= 1
      BY <2>2, <2>9
    <3>2. ProvenRoot(top[0 + 1], 0, GetMerkleProof(top, 0)) = MerkleRoot(top)
      BY <2>9, <3>1, ProofLemma
    <3> QED BY <2>3, <2>9, <3>1, <3>2
  <2>14. ProvenRoot(s[1], 0, p \o q) = MerkleRoot(top)
    <3>1. PICK A : p \in Seq(A)
      BY <2>10, ProofShape
    <3>2. PICK B : q \in Seq(B)
      BY <2>2, <2>9, ProofShape
    <3> HIDE DEF p, q, s, m
    <3>3. p \in Seq(A \cup B) /\ q \in Seq(A \cup B)
      BY <3>1, <3>2, SeqMonotonic
    <3>4. ProvenRoot(s[1], 0, p \o q) = ProvenRoot(ProvenRoot(s[1], 0, p), 0, q)
      BY <3>3, ClimbConcat
    <3> QED BY <2>12, <2>13, <3>4
  <2>15. GetMerkleProofForCoinbase = p \o q
    BY Zenon DEF GetMerkleProofForCoinbase, top
  <2>16. MerkleRoot(top) = FlatRoot(leaves)
    <3>1. CASE m = 1
      <4>1. MerkleRoot(top) = top[1]
        BY <2>9, <3>1, OneLeaf
      <4>2. MerkleRoot(s) = FlatRoot(s)
        <5> HIDE DEF s
        <5> QED BY <2>10, RootLemma
      <4>3. leaves = s
        <5>1. 1 # 0 /\ 1 \in Nat /\ 1 = Len(ss) /\ 1 \in 1 .. 1
          BY <3>1
        <5>2. PICK c : /\ FlattenSeq(ss) = c[1]
                       /\ \A i \in 1 .. 1 : c[i] = IF i = 1 THEN ss[i] ELSE c[i - 1] \o ss[i]
          BY <5>1, FlattenSteps
        <5> QED BY <5>1, <5>2 DEF leaves
      <4> QED BY <2>13, <4>1, <4>2, <4>3
    <3>2. CASE m # 1
      <4>1. m >= 2 /\ \A i \in 1 .. m : i = m \/ i \in 1 .. m - 1
        <5> HIDE DEF m
        <5> QED BY <2>2, <3>2
      <4>2. NaturalHeight(Len(ss[m])) = height
        BY <2>4, <3>2
      <4>3. \A i \in 1 .. m - 1 : Len(ss[i]) = 2^height
        BY <2>5 DEF Filled
      <4>4. ASSUME NEW i \in 1 .. m PROVE PaddedRoot(ss[i], height) = MerkleRoot(ss[i])
        <5>1. NaturalHeight(Len(ss[i])) = height
          <6>1. CASE i = m
            BY <4>2, <6>1
          <6>2. CASE i # m
            BY <2>5, <4>1, <4>3, <6>2, FullHeight
          <6> QED BY <6>1, <6>2
        <5>2. Len(ss[i]) \in Nat
          BY <2>6
        <5> HIDE DEF m, ss
        <5> QED BY <2>5, <5>1, <5>2, PaddedIsRoot
      <4>5. top = [i \in 1 .. m |-> PaddedRoot(ss[i], height)]
        BY <2>7, <4>4
      <4> HIDE DEF m
      <4>6. MerkleRoot(top) = FlatRoot(FlattenSeq(ss))
        <5>1. m \in Nat /\ m >= 2
          BY <2>2, <4>1
        <5> HIDE DEF ss
        <5> QED BY <2>5, <4>5, <5>1, ComposeLemma
      <4> QED BY <4>6 DEF leaves
    <3> QED BY <3>1, <3>2
  <2> QED BY <2>11, <2>14, <2>15, <2>16
<1> QED BY <1>1, BlockInvariant, PTL
=============================================================================
