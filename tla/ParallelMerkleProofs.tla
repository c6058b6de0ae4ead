------------------------ MODULE ParallelMerkleProofs ------------------------
(***************************************************************************)
(* What the parallel build of the merkle store promises, proved for every  *)
(* number of leaves and every even split size: the goroutines never race,  *)
(* and whatever their interleaving the caller returns the store of the     *)
(* sequential definition.                                                  *)
(*                                                                         *)
(* IInv is inductive.  It says where the levels lie (LevelsInOrder), that  *)
(* the goroutines of a level have disjoint chunks (ChunksApart), exactly   *)
(* which entries have been written (WrittenSoFar), and that each of these  *)
(* is the parent of two children that were there before (WrittenIsRight).  *)
(* At the end all entries are written, so the array satisfies the equation *)
(* of the recursive definition, which has one solution: an entry's         *)
(* children lie at lower offsets.                                          *)
(***************************************************************************)
EXTENDS ParallelMerkle, CommonLemmas

\* How many positions the level has.
width == 2^(height - h)

\* The entries below it have all been written.
base == IF h <= height THEN nextPoT - width ELSE nextPoT - 1

\* The caller's progress: the levels lie one after the other in the array
\* "leaves, then merkles", each half as wide as the one before.
LevelsInOrder ==
  /\ pc \in {"start", "level", "spawn", "wait", "calc", "done"}
  /\ length \in 0 .. MaxLeaves
  /\ h \in Nat /\ merkleFrom \in Nat /\ at \in Nat
  /\ pc = "start" => h = 0
  /\ pc \notin {"start", "done"} => length > 1
  /\ length > 1 =>
       /\ h <= height + 1
       /\ h <= height => merkleFrom = 2 * nextPoT - 2 * width
       /\ pc \in {"spawn", "wait", "calc"} => h <= height
       /\ pc = "done" => h > height

\* Goroutine w has a chunk of the level, has reached an even position of it,
\* holds the pair at that position or none, and shares no position with another.
ChunkApart(w) ==
  /\ workers[w] = [i |-> workers[w].i, to |-> workers[w].to, pair |-> workers[w].pair]
  /\ w \in Nat /\ w % 2 = 0
  /\ merkleFrom <= w /\ w + SplitSize <= at /\ w < merkleTo
  /\ workers[w].to = IF w + SplitSize <= merkleTo THEN w + SplitSize ELSE merkleTo
  /\ workers[w].i \in Nat /\ workers[w].i % 2 = 0
  /\ w <= workers[w].i /\ workers[w].i <= workers[w].to + 1
  /\ workers[w].pair # NULL =>
       /\ workers[w].i < workers[w].to
       /\ workers[w].pair = getMerklePair(leaves, merkles, workers[w].i, nextPoT)
  /\ \A v \in DOMAIN workers : v # w => v + SplitSize <= w \/ w + SplitSize <= v

\* The goroutines of a level, counted by the WaitGroup.
ChunksApart ==
  /\ workers = [w \in DOMAIN workers |-> workers[w]]
  /\ IsFiniteSet(DOMAIN workers)
  /\ wg = Cardinality(DOMAIN workers)
  /\ pc \notin {"spawn", "wait"} => DOMAIN workers = {}
  /\ \A w \in DOMAIN workers : ChunkApart(w)

\* Position p is in a goroutine's chunk, and it has not come past it.
pending(p) == \E w \in DOMAIN workers : workers[w].i <= p /\ p < workers[w].to

\* What has been written: the levels below, and of this level what the caller's
\* loop or the goroutines have come past.
WrittenSoFar ==
  /\ length <= 1 => written = {}
  /\ length > 1 =>
       /\ written \subseteq 0 .. nextPoT - 2
       /\ pc \in {"start", "level", "done"} => written = 0 .. base - 1
       /\ pc = "calc" =>
            /\ at % 2 = 0 /\ merkleFrom <= at /\ at <= merkleTo + 1
            /\ width = 1 => at = merkleFrom
            /\ \A o \in 0 .. nextPoT - 2 : o \in written <=> 2 * o < at
       /\ pc \in {"spawn", "wait"} =>
            /\ width > 1 /\ at % 2 = 0 /\ merkleFrom <= at
            /\ \A o \in 0 .. nextPoT - 2 :
                 o \in written <=> 2 * o < at /\ 2 * o < merkleTo /\ ~pending(2 * o)
       /\ pc = "wait" => at >= merkleTo

\* Every entry written is the parent of its pair of children, which were there
\* before.
WrittenIsRight ==
  /\ length <= 1 /\ pc = "done" => merkles = BuildMerkleTreeStoreFromBytes(leaves)
  /\ length > 1 =>
       /\ merkles = [o \in 0 .. nextPoT - 2 |-> merkles[o]]
       /\ \A o \in written :
            /\ inputs(2 * o) \subseteq written
            /\ merkles[o] = calcMerkle(getMerklePair(leaves, merkles, 2 * o, nextPoT)[1],
                                       getMerklePair(leaves, merkles, 2 * o, nextPoT)[2])

IInv ==
  /\ LevelsInOrder
  /\ ChunksApart
  /\ WrittenSoFar
  /\ WrittenIsRight

-----------------------------------------------------------------------------
(* Sizes.                                                                  *)

\* A tree of two leaves or more has at least one level above the leaves, and the
\* power of two that sizes its store is the one that counts its levels.
LEMMA Sizes ==
  ASSUME NEW n \in Nat, n > 1
  PROVE  /\ Log2Ceil(n) \in Nat
         /\ NextPowerOfTwo(n) = 2^Log2Ceil(n)
         /\ NextPowerOfTwo(n) \in Nat
         /\ NextPowerOfTwo(n) >= 2
<1>1. Log2Ceil(n) \in Nat /\ n <= 2^Log2Ceil(n)
  BY Log2CeilLemma
<1>2. NextPowerOfTwo(n) = 2^Log2Ceil(n)
  BY NextPowerLemma
<1>3. 2^Log2Ceil(n) \in Nat
  BY <1>1, PowerType
<1> QED BY <1>1, <1>2, <1>3

\* Each level is half as wide as the one before; the last is one position wide.
LEMMA Widths ==
  ASSUME NEW c \in Nat, NEW k \in Nat, k <= c
  PROVE  /\ 2^(c - k) \in Nat
         /\ 2^(c - k) >= 1
         /\ 2^(c - k) <= 2^c
         /\ k < c => 2^(c - k) = 2 * 2^(c - (k + 1)) /\ 2^(c - (k + 1)) \in Nat
         /\ k = c => 2^(c - k) = 1
<1>1. c - k \in Nat
  OBVIOUS
<1>2. 2^(c - k) \in Nat /\ 2^(c - k) >= 1 /\ 2^c \in Nat
  BY <1>1, PowerType
<1>3. 2^(c - k) <= 2^c
  <2>1. CASE k = 0
    <3>1. c - k = c
      BY <2>1
    <3> QED BY <3>1, <1>2
  <2>2. CASE k # 0
    <3>1. c - k < c
      BY <2>2
    <3>2. 2^(c - k) < 2^c
      BY <3>1, <1>1, PowerGrows
    <3> QED BY <3>2, <1>2
  <2> QED BY <2>1, <2>2
<1>4. ASSUME k < c PROVE 2^(c - k) = 2 * 2^(c - (k + 1)) /\ 2^(c - (k + 1)) \in Nat
  <2>1. c - (k + 1) \in Nat /\ c - (k + 1) + 1 = c - k
    BY <1>4
  <2>2. 2^(c - (k + 1) + 1) = 2 * 2^(c - (k + 1))
    BY <2>1, PowerDoubles
  <2> QED BY <2>1, <2>2, PowerType
<1>5. ASSUME k = c PROVE 2^(c - k) = 1
  <2>1. c - k = 0
    BY <1>5
  <2>2. 2^0 = 1
    OBVIOUS
  <2> QED BY <2>1, <2>2
<1> QED BY <1>2, <1>3, <1>4, <1>5

\* The level the caller is at.
LEMMA LevelFacts ==
  ASSUME LevelsInOrder, length > 1, h <= height
  PROVE  /\ nextPoT \in Nat /\ nextPoT >= 2
         /\ width \in Nat /\ width >= 1 /\ width <= nextPoT
         /\ height \in Nat
         /\ merkleFrom = 2 * nextPoT - 2 * width
         /\ merkleTo = 2 * nextPoT - width - 1
         /\ width > 1 => width % 2 = 0 /\ h < height
         /\ base = nextPoT - width
<1>1. length \in Nat /\ h \in Nat /\ merkleFrom = 2 * nextPoT - 2 * width
  BY ParallelAssumption DEF LevelsInOrder
<1>2. height \in Nat /\ nextPoT = 2^height /\ nextPoT \in Nat /\ nextPoT >= 2
  BY <1>1, Sizes DEF height, nextPoT
<1>3. width \in Nat /\ width >= 1 /\ width <= nextPoT
  BY <1>1, <1>2, Widths DEF width
<1>4. h < height => width = 2 * 2^(height - (h + 1)) /\ 2^(height - (h + 1)) \in Nat
  BY <1>1, <1>2, Widths DEF width
<1>5. h = height => width = 1
  BY <1>1, <1>2, Widths DEF width
<1>6. h < height => width % 2 = 0
  <2> SUFFICES ASSUME h < height, NEW q \in Nat, width = 2 * q PROVE width % 2 = 0
    BY <1>4
  <2> QED OBVIOUS
<1>7. merkleTo = merkleFrom + width - 1
  BY DEF merkleTo, width
<1>8. base = nextPoT - width
  BY DEF base
<1> QED BY <1>1, <1>2, <1>3, <1>5, <1>6, <1>7, <1>8

\* What a step that stays on the level leaves alone.
LEMMA SameLeaves ==
  ASSUME leaves' = leaves
  PROVE  length' = length /\ nextPoT' = nextPoT /\ height' = height
BY DEF length, nextPoT, height

LEMMA SameLevel ==
  ASSUME leaves' = leaves, h' = h, merkleFrom' = merkleFrom
  PROVE  width' = width /\ base' = base /\ merkleTo' = merkleTo
BY SameLeaves DEF width, base, merkleTo

\* Min of two numbers, with which a chunk ends.
LEMMA MinOfTwo ==
  ASSUME NEW a \in Int, NEW b \in Int
  PROVE  Min({a, b}) = IF a <= b THEN a ELSE b
<1> DEFINE m == IF a <= b THEN a ELSE b
<1>1. m \in {a, b} /\ \A y \in {a, b} : m <= y
  OBVIOUS
<1>2. \A x \in {a, b} : (\A y \in {a, b} : x <= y) => x = m
  OBVIOUS
<1> HIDE DEF m
<1>3. Min({a, b}) = m
  BY <1>1, <1>2 DEF Min
<1> QED BY <1>3 DEF m

-----------------------------------------------------------------------------
(* The shared array.                                                       *)

\* The pair at a position depends on the two entries it is made of.
LEMMA PairKept ==
  ASSUME NEW ls, NEW N \in Nat, NEW m, NEW n, NEW i \in Nat,
         i >= N => n[i - N] = m[i - N] /\ n[i - N + 1] = m[i - N + 1]
  PROVE  getMerklePair(ls, n, i, N) = getMerklePair(ls, m, i, N)
<1>1. CASE i < N
  BY <1>1 DEF getMerklePair
<1>2. CASE ~(i < N)
  BY <1>2 DEF getMerklePair
<1> QED BY <1>1, <1>2

\* The levels below have been written.
LEMMA BelowWritten ==
  ASSUME IInv, length > 1, h <= height
  PROVE  \A o \in Nat : o < base => o \in written
<1>1. /\ nextPoT \in Nat /\ width \in Nat /\ width >= 1 /\ base = nextPoT - width
      /\ merkleFrom = 2 * nextPoT - 2 * width /\ merkleTo = 2 * nextPoT - width - 1
  BY LevelFacts DEF IInv
<1> SUFFICES ASSUME NEW o \in Nat, o < base PROVE o \in written
  OBVIOUS
<1>2. o \in 0 .. nextPoT - 2 /\ 2 * o < merkleFrom /\ o \in 0 .. base - 1
  BY <1>1
<1>3. at \in Nat
  BY DEF IInv, LevelsInOrder
<1>4. CASE pc \in {"start", "level", "done"}
  BY <1>2, <1>4 DEF IInv, WrittenSoFar
<1>5. CASE pc = "calc"
  <2>1. merkleFrom <= at /\ (o \in written <=> 2 * o < at)
    BY <1>2, <1>5 DEF IInv, WrittenSoFar
  <2> QED BY <2>1, <1>1, <1>2, <1>3
<1>6. CASE pc \in {"spawn", "wait"}
  <2>1. /\ merkleFrom <= at /\ width > 1
        /\ o \in written <=> 2 * o < at /\ 2 * o < merkleTo /\ ~pending(2 * o)
    BY <1>2, <1>6 DEF IInv, WrittenSoFar
  <2>2. ~pending(2 * o)
    <3> SUFFICES ASSUME NEW w \in DOMAIN workers, workers[w].i <= 2 * o PROVE FALSE
      BY DEF pending
    <3>1. w \in Nat /\ merkleFrom <= w /\ w <= workers[w].i /\ workers[w].i \in Nat
      BY DEF IInv, ChunksApart, ChunkApart
    <3> QED BY <3>1, <1>1, <1>2
  <2> QED BY <2>1, <2>2, <1>1, <1>2, <1>3
<1> QED BY <1>4, <1>5, <1>6 DEF IInv, LevelsInOrder

\* The children of a position of the level have been written, and are entries of
\* the array.
LEMMA InputsWritten ==
  ASSUME IInv, length > 1, h <= height, NEW i \in Nat, i < merkleTo
  PROVE  /\ inputs(i) \subseteq written
         /\ i >= nextPoT => {i - nextPoT, i - nextPoT + 1} \subseteq written
<1>1. /\ nextPoT \in Nat /\ width \in Nat /\ base = nextPoT - width
      /\ merkleTo = 2 * nextPoT - width - 1
  BY LevelFacts DEF IInv
<1>2. ASSUME i >= nextPoT PROVE {i - nextPoT, i - nextPoT + 1} \subseteq written
  <2>1. i - nextPoT \in Nat /\ i - nextPoT + 1 \in Nat /\ i - nextPoT + 1 < base
        /\ i - nextPoT < base
    BY <1>1, <1>2
  <2> QED BY <2>1, BelowWritten
<1> QED BY <1>1, <1>2 DEF inputs

\* Writing the parent of a pair whose children are there, where nothing was
\* written yet, leaves everything written so far right, and adds a right entry.
LEMMA WriteRight ==
  ASSUME IInv, length > 1, nextPoT \in Nat, leaves' = leaves,
         NEW i \in Nat, i % 2 = 0, i \div 2 \in 0 .. nextPoT - 2,
         i \div 2 \notin written, inputs(i) \subseteq written,
         write(i, getMerklePair(leaves, merkles, i, nextPoT))
  PROVE  /\ WrittenIsRight'
         /\ \A j \in Nat : inputs(j) \subseteq written =>
              getMerklePair(leaves, merkles', j, nextPoT)
                = getMerklePair(leaves, merkles, j, nextPoT)
<1> DEFINE o == i \div 2
           pair == getMerklePair(leaves, merkles, i, nextPoT)
           x == calcMerkle(pair[1], pair[2])
<1>1. /\ merkles' = [merkles EXCEPT ![o] = x]
      /\ written' = written \cup {o}
  BY DEF write
<1>2. 2 * o = i /\ o \in Nat
  OBVIOUS
<1>3. /\ merkles = [k \in 0 .. nextPoT - 2 |-> merkles[k]]
      /\ written \subseteq 0 .. nextPoT - 2
      /\ \A p \in written :
            /\ inputs(2 * p) \subseteq written
            /\ merkles[p] = calcMerkle(getMerklePair(leaves, merkles, 2 * p, nextPoT)[1],
                                       getMerklePair(leaves, merkles, 2 * p, nextPoT)[2])
  BY DEF IInv, WrittenIsRight, WrittenSoFar
<1>4. o \in 0 .. nextPoT - 2 /\ o \notin written
  OBVIOUS
<1> HIDE DEF o, x
<1>5. /\ merkles' = [k \in 0 .. nextPoT - 2 |-> merkles'[k]]
      /\ merkles'[o] = x
      /\ \A p \in written : merkles'[p] = merkles[p]
  BY <1>1, <1>3, <1>4
<1>6. ASSUME NEW j \in Nat, inputs(j) \subseteq written
      PROVE  getMerklePair(leaves, merkles', j, nextPoT)
               = getMerklePair(leaves, merkles, j, nextPoT)
  <2>1. j >= nextPoT => /\ j - nextPoT \in written
                        /\ j - nextPoT + 1 \in written
    BY <1>6 DEF inputs
  <2>2. j >= nextPoT => /\ merkles'[j - nextPoT] = merkles[j - nextPoT]
                        /\ merkles'[j - nextPoT + 1] = merkles[j - nextPoT + 1]
    BY <2>1, <1>5
  <2> QED BY <2>2, PairKept
<1>7. ASSUME NEW p \in written'
      PROVE  /\ inputs(2 * p) \subseteq written'
             /\ merkles'[p] = calcMerkle(getMerklePair(leaves, merkles', 2 * p, nextPoT)[1],
                                         getMerklePair(leaves, merkles', 2 * p, nextPoT)[2])
  <2>1. CASE p \in written
    <3>1. 2 * p \in Nat
      BY <2>1, <1>3
    <3>2. inputs(2 * p) \subseteq written
      BY <2>1, <1>3
    <3>3. getMerklePair(leaves, merkles', 2 * p, nextPoT)
            = getMerklePair(leaves, merkles, 2 * p, nextPoT)
      BY <3>1, <3>2, <1>6
    <3> QED BY <2>1, <3>2, <3>3, <1>1, <1>3, <1>5
  <2>2. CASE p = o
    <3>1. getMerklePair(leaves, merkles', 2 * p, nextPoT) = pair
      BY <2>2, <1>2, <1>6
    <3>2. inputs(2 * p) \subseteq written'
      BY <2>2, <1>1, <1>2
    <3> QED BY <2>2, <3>1, <3>2, <1>5, Zenon DEF x
  <2> QED BY <2>1, <2>2, <1>1
<1>8. length' = length /\ nextPoT' = nextPoT
  BY SameLeaves
<1>9. \A p \in written' : inputs(2 * p)' = inputs(2 * p)
  BY <1>8 DEF inputs
<1>10. WrittenIsRight'
  <2>1. ~(length' <= 1)
    BY <1>8 DEF IInv, LevelsInOrder
  <2>2. \A p \in written' :
          /\ inputs(2 * p)' \subseteq written'
          /\ merkles'[p] = calcMerkle(getMerklePair(leaves, merkles', 2 * p, nextPoT)[1],
                                      getMerklePair(leaves, merkles', 2 * p, nextPoT)[2])
    BY <1>7, <1>9
  <2> QED BY <2>1, <2>2, <1>5, <1>8 DEF WrittenIsRight
<1> QED BY <1>6, <1>10

-----------------------------------------------------------------------------
(* IInv is inductive: the caller.                                          *)

\* Nothing has been built.
LEMMA InitIInv == Init => IInv
<1> SUFFICES ASSUME Init PROVE IInv
  OBVIOUS
<1>1. PICK n \in 0 .. MaxLeaves : leaves = [i \in 1 .. n |-> <<i + 1>>]
  BY DEF Init
<1>2. length = n /\ length \in Nat /\ length \in 0 .. MaxLeaves
  <2>1. n \in Nat
    BY ParallelAssumption
  <2> QED BY <1>1, <2>1 DEF length
<1>3. length > 1 => /\ height \in Nat /\ nextPoT = 2^height
                    /\ nextPoT \in Nat /\ nextPoT >= 2
  BY <1>2, Sizes DEF height, nextPoT
<1>4. h = 0 /\ merkleFrom = 0 /\ at = 0 /\ wg = 0 /\ pc = "start" /\ written = {}
  BY DEF Init
<1>5. length > 1 => width = nextPoT /\ base = 0
  <2> SUFFICES ASSUME length > 1 PROVE width = nextPoT /\ base = 0
    OBVIOUS
  <2>1. height - h = height /\ h <= height
    BY <1>3, <1>4
  <2>2. width = nextPoT
    BY <2>1, <1>3 DEF width
  <2> QED BY <2>1, <2>2, <1>3 DEF base
<1>6. LevelsInOrder
  BY <1>2, <1>3, <1>4, <1>5 DEF LevelsInOrder
<1>7. workers = [i \in {} |-> NULL] /\ DOMAIN workers = {}
  BY DEF Init
<1>8. ChunksApart
  <2>1. IsFiniteSet(DOMAIN workers) /\ wg = Cardinality(DOMAIN workers)
    BY <1>4, <1>7, FS_EmptySet
  <2>2. workers = [w \in DOMAIN workers |-> workers[w]]
    BY <1>7
  <2> QED BY <2>1, <2>2, <1>7 DEF ChunksApart
<1>9. WrittenSoFar
  BY <1>3, <1>4, <1>5 DEF WrittenSoFar
<1>10. merkles = [o \in 0 .. nextPoT - 2 |-> merkles[o]]
  BY DEF Init
<1>11. WrittenIsRight
  BY <1>4, <1>10 DEF WrittenIsRight
<1> QED BY <1>6, <1>8, <1>9, <1>11 DEF IInv

\* Fewer than two leaves: the store is returned at once.
LEMMA StartKeeps ==
  ASSUME IInv, Start
  PROVE  IInv'
<1>1. /\ pc = "start" /\ leaves' = leaves /\ written' = written /\ h' = h
      /\ merkleFrom' = merkleFrom /\ at' = at /\ wg' = wg /\ workers' = workers
  BY DEF Start
<1>2. /\ length' = length /\ nextPoT' = nextPoT /\ height' = height
      /\ width' = width /\ base' = base /\ merkleTo' = merkleTo
  BY <1>1, SameLeaves, SameLevel
<1>3. /\ length \in Nat /\ h = 0 /\ DOMAIN workers = {}
      /\ length > 1 => height \in Nat
  BY <1>1, ParallelAssumption, Sizes DEF IInv, LevelsInOrder, ChunksApart, height
<1>4. CASE /\ length <= 1
           /\ merkles' = [offset \in 0 .. length - 1 |-> leaves[offset + 1]]
           /\ pc' = "done"
  <2>1. LevelsInOrder'
    BY <1>1, <1>2, <1>3, <1>4 DEF IInv, LevelsInOrder
  <2>2. ChunksApart'
    BY <1>1, <1>3, <1>4 DEF IInv, ChunksApart
  <2>3. WrittenSoFar'
    BY <1>1, <1>2, <1>3, <1>4 DEF IInv, WrittenSoFar
  <2>4. merkles' = BuildMerkleTreeStoreFromBytes(leaves)
    <3>1. CASE length = 0
      <4>1. merkles' = [offset \in {} |-> ZeroHash]
        BY <3>1, <1>4
      <4>2. Len(leaves) = 0
        BY <3>1 DEF length
      <4>3. BuildMerkleTreeStoreFromBytes(leaves) = [offset \in {} |-> ZeroHash]
        BY <4>2 DEF BuildMerkleTreeStoreFromBytes
      <4> QED BY <4>1, <4>3
    <3>2. CASE length = 1
      <4>1. merkles' = [offset \in {0} |-> leaves[1]]
        BY <3>2, <1>4
      <4>2. Len(leaves) # 0 /\ Len(leaves) = 1
        BY <3>2 DEF length
      <4> QED BY <4>1, <4>2, Zenon DEF BuildMerkleTreeStoreFromBytes
    <3> QED BY <3>1, <3>2, <1>3, <1>4
  <2>5. BuildMerkleTreeStoreFromBytes(leaves)' = BuildMerkleTreeStoreFromBytes(leaves)
    BY <1>1
  <2>6. WrittenIsRight'
    BY <2>4, <2>5, <1>2, <1>3, <1>4 DEF WrittenIsRight
  <2> QED BY <2>1, <2>2, <2>3, <2>6 DEF IInv
<1>5. CASE length > 1 /\ pc' = "level" /\ UNCHANGED merkles
  <2>1. LevelsInOrder'
    BY <1>1, <1>2, <1>3, <1>5 DEF IInv, LevelsInOrder
  <2>2. ChunksApart'
    BY <1>1, <1>3, <1>5 DEF IInv, ChunksApart
  <2>3. WrittenSoFar'
    BY <1>1, <1>2, <1>3, <1>5 DEF IInv, WrittenSoFar
  <2>4. WrittenIsRight'
    BY <1>1, <1>2, <1>3, <1>5 DEF IInv, WrittenIsRight, inputs
  <2> QED BY <2>1, <2>2, <2>3, <2>4 DEF IInv
<1> QED BY <1>4, <1>5 DEF Start

\* What a step that writes nothing and stays on the level leaves as it was.
LEMMA QuietKeepsRight ==
  ASSUME IInv, leaves' = leaves, merkles' = merkles, written' = written,
         length > 1
  PROVE  WrittenIsRight'
<1>1. length' = length /\ nextPoT' = nextPoT
  BY SameLeaves
<1>2. ~(length <= 1)
  BY DEF IInv, LevelsInOrder
<1> QED BY <1>1, <1>2 DEF IInv, WrittenIsRight, inputs

\* The head of the loop over the levels.
LEMMA LevelKeeps ==
  ASSUME IInv, Level
  PROVE  IInv'
<1>1. /\ pc = "level" /\ leaves' = leaves /\ written' = written /\ h' = h
      /\ merkleFrom' = merkleFrom /\ at' = merkleFrom /\ wg' = wg
      /\ workers' = workers /\ merkles' = merkles
      /\ pc' = IF h > height THEN "done"
               ELSE IF merkleTo - merkleFrom > SplitSize THEN "spawn" ELSE "calc"
  BY DEF Level
<1>2. /\ length' = length /\ nextPoT' = nextPoT /\ height' = height
      /\ width' = width /\ base' = base /\ merkleTo' = merkleTo
  BY <1>1, SameLeaves, SameLevel
<1>3. /\ length \in Nat /\ length > 1 /\ ~(length <= 1) /\ h \in Nat
      /\ merkleFrom \in Nat /\ DOMAIN workers = {} /\ written = 0 .. base - 1
  BY <1>1, ParallelAssumption DEF IInv, LevelsInOrder, ChunksApart, WrittenSoFar
<1>4. height \in Nat
  BY <1>3, Sizes DEF height
<1>5. pc' \in {"done", "spawn", "calc"} /\ (pc' = "done" <=> h > height)
  BY <1>1
<1>6. LevelsInOrder'
  BY <1>1, <1>2, <1>3, <1>4, <1>5 DEF IInv, LevelsInOrder
<1>7. ChunksApart'
  BY <1>1, <1>3 DEF IInv, ChunksApart
<1>8. WrittenIsRight'
  BY <1>1, <1>3, QuietKeepsRight
<1>9. WrittenSoFar'
  <2>1. CASE h > height
    BY <2>1, <1>1, <1>2, <1>3, <1>5 DEF IInv, WrittenSoFar
  <2>2. CASE h <= height
    <3>1. /\ nextPoT \in Nat /\ width \in Nat /\ width >= 1
          /\ merkleFrom = 2 * nextPoT - 2 * width
          /\ merkleTo = 2 * nextPoT - width - 1
          /\ base = nextPoT - width
      BY <2>2, <1>3, LevelFacts DEF IInv
    <3>2. pc' \in {"spawn", "calc"} /\ (pc' = "spawn" => width > 1)
      BY <2>2, <3>1, <1>1, <1>3, <1>4, ParallelAssumption
    <3>3. merkleFrom % 2 = 0 /\ merkleFrom <= merkleTo + 1
      BY <3>1
    <3>4. \A o \in 0 .. nextPoT - 2 : o \in written <=> 2 * o < merkleFrom
      BY <3>1, <1>3
    <3>5. 2 * nextPoT - 2 * width <= merkleTo
      BY <3>1
    <3>6. \A o \in 0 .. nextPoT - 2 : 2 * o < merkleFrom => 2 * o < merkleTo
      BY <3>1
    <3>7. \A p : ~pending(p)'
      BY <1>1, <1>3 DEF pending
    <3>8. written \subseteq 0 .. nextPoT - 2
      BY <1>3 DEF IInv, WrittenSoFar
    <3> QED BY <3>2, <3>3, <3>4, <3>6, <3>7, <3>8, <1>1, <1>2, <1>3 DEF WrittenSoFar
  <2> QED BY <2>1, <2>2, <1>3, <1>4
<1> QED BY <1>6, <1>7, <1>8, <1>9 DEF IInv

\* The tail of the loop over the levels, when the level has been written.
LEMMA NextLevelKeeps ==
  ASSUME IInv, nextLevel, pc \in {"calc", "wait"}, DOMAIN workers = {},
         \A o \in 0 .. nextPoT - 2 : o \in written <=> 2 * o < 2 * nextPoT - width
  PROVE  IInv'
<1>1. /\ leaves' = leaves /\ written' = written /\ h' = h + 1 /\ pc' = "level"
      /\ merkleFrom' = merkleTo + 1 /\ at' = at /\ wg' = wg
      /\ workers' = workers /\ merkles' = merkles
  BY DEF nextLevel
<1>2. /\ length' = length /\ nextPoT' = nextPoT /\ height' = height
  BY <1>1, SameLeaves
<1>3. /\ length \in Nat /\ length > 1 /\ ~(length <= 1) /\ h \in Nat /\ h <= height
      /\ at \in Nat /\ written \subseteq 0 .. nextPoT - 2
      /\ length \in 0 .. MaxLeaves
  BY ParallelAssumption DEF IInv, LevelsInOrder, WrittenSoFar
<1>4. /\ nextPoT \in Nat /\ width \in Nat /\ width >= 1 /\ width <= nextPoT
      /\ merkleFrom = 2 * nextPoT - 2 * width
      /\ merkleTo = 2 * nextPoT - width - 1
      /\ height \in Nat /\ nextPoT >= 2
  BY <1>3, LevelFacts DEF IInv
<1>5. h < height => width = 2 * width' /\ width' \in Nat
  BY <1>1, <1>2, <1>3, <1>4, Widths DEF width
<1>6. base' = IF h < height THEN nextPoT - width' ELSE nextPoT - 1
  BY <1>1, <1>2, <1>3, <1>4 DEF base
<1>7. LevelsInOrder'
  <2>1. merkleFrom' = 2 * nextPoT - width /\ merkleFrom' \in Nat
    BY <1>1, <1>4
  <2>2. h' <= height => merkleFrom' = 2 * nextPoT - 2 * width'
    BY <2>1, <1>1, <1>3, <1>4, <1>5
  <2> QED BY <2>1, <2>2, <1>1, <1>2, <1>3, <1>4 DEF LevelsInOrder
<1>8. ChunksApart'
  BY <1>1 DEF IInv, ChunksApart
<1>9. WrittenIsRight'
  BY <1>1, <1>3, QuietKeepsRight
<1>10. written = 0 .. base' - 1
  <2>1. CASE h < height
    <3>1. width' \in Nat /\ width = 2 * width' /\ base' = nextPoT - width'
      BY <2>1, <1>5, <1>6
    <3>2. PICK q \in Nat : width = 2 * q /\ base' = nextPoT - q
      BY <3>1
    <3>3. \A o \in 0 .. nextPoT - 2 : o \in written <=> o \in 0 .. nextPoT - q - 1
      BY <3>2, <1>4
    <3>4. 0 .. nextPoT - q - 1 \subseteq 0 .. nextPoT - 2
      BY <3>2, <1>4
    <3>5. written = 0 .. nextPoT - q - 1
      BY <3>3, <3>4, <1>3, Zenon
    <3> QED BY <3>2, <3>5
  <2>2. CASE ~(h < height)
    <3>1. width = 1
      BY <2>2, <1>3, <1>4, Widths DEF width
    <3>2. \A o \in 0 .. nextPoT - 2 : o \in written
      BY <3>1, <1>4
    <3>3. base' = nextPoT - 1 /\ nextPoT - 1 - 1 = nextPoT - 2
      BY <2>2, <1>4, <1>6
    <3>4. written = 0 .. nextPoT - 2
      BY <3>2, <1>3, Zenon
    <3> QED BY <3>3, <3>4
  <2> QED BY <2>1, <2>2
<1>11. WrittenSoFar'
  BY <1>1, <1>2, <1>3, <1>10 DEF WrittenSoFar
<1> QED BY <1>7, <1>8, <1>9, <1>11 DEF IInv

\* wg.Wait(): no goroutine is left, so the level has been written.
LEMMA WaitKeeps ==
  ASSUME IInv, Wait
  PROVE  IInv'
<1>1. pc = "wait" /\ wg = 0 /\ nextLevel
  BY DEF Wait
<1>2. DOMAIN workers = {}
  BY <1>1, FS_EmptySet DEF IInv, ChunksApart
<1>3. /\ length > 1 /\ h <= height /\ at \in Nat
      /\ at >= merkleTo /\ width > 1
      /\ \A o \in 0 .. nextPoT - 2 :
           o \in written <=> 2 * o < at /\ 2 * o < merkleTo /\ ~pending(2 * o)
  BY <1>1 DEF IInv, LevelsInOrder, WrittenSoFar
<1>4. /\ nextPoT \in Nat /\ width \in Nat /\ merkleTo = 2 * nextPoT - width - 1
      /\ width % 2 = 0
  BY <1>3, LevelFacts DEF IInv
<1>5. \A p : ~pending(p)
  BY <1>2 DEF pending
<1>6. \A o \in 0 .. nextPoT - 2 : o \in written <=> 2 * o < 2 * nextPoT - width
  BY <1>3, <1>4, <1>5
<1> QED BY <1>1, <1>2, <1>6, NextLevelKeeps

\* A narrow level: the caller writes the next pair, or is at the end of it.
LEMMA CalcKeeps ==
  ASSUME IInv, Calc
  PROVE  IInv'
<1>1. /\ pc = "calc" /\ length > 1 /\ ~(length <= 1) /\ h <= height /\ at \in Nat
      /\ at % 2 = 0 /\ merkleFrom <= at /\ at <= merkleTo + 1
      /\ width = 1 => at = merkleFrom
      /\ \A o \in 0 .. nextPoT - 2 : o \in written <=> 2 * o < at
      /\ written \subseteq 0 .. nextPoT - 2
      /\ DOMAIN workers = {}
  BY DEF Calc, IInv, LevelsInOrder, WrittenSoFar, ChunksApart
<1>2. /\ nextPoT \in Nat /\ width \in Nat /\ width >= 1
      /\ merkleFrom = 2 * nextPoT - 2 * width
      /\ merkleTo = 2 * nextPoT - width - 1
      /\ width > 1 => width % 2 = 0
  BY <1>1, LevelFacts DEF IInv
<1>3. CASE at >= merkleTo /\ nextLevel
  <2>1. at = 2 * nextPoT - width \/ (width = 1 /\ at = 2 * nextPoT - 2)
    BY <1>1, <1>2, <1>3
  <2>2. \A o \in 0 .. nextPoT - 2 : o \in written <=> 2 * o < 2 * nextPoT - width
    BY <2>1, <1>1, <1>2
  <2> QED BY <2>2, <1>1, <1>3, NextLevelKeeps
<1>4. CASE /\ at < merkleTo
           /\ write(at, getMerklePair(leaves, merkles, at, nextPoT))
           /\ at' = at + 2
           /\ UNCHANGED <<leaves, pc, h, merkleFrom, wg, workers>>
  <2> DEFINE o == at \div 2
  <2>1. /\ written' = written \cup {o} /\ leaves' = leaves /\ pc' = pc /\ h' = h
        /\ merkleFrom' = merkleFrom /\ wg' = wg /\ workers' = workers /\ at' = at + 2
    BY <1>4 DEF write
  <2>2. /\ length' = length /\ nextPoT' = nextPoT /\ height' = height
        /\ width' = width /\ base' = base /\ merkleTo' = merkleTo
    BY <2>1, SameLeaves, SameLevel
  <2>3. 2 * o = at /\ o \in 0 .. nextPoT - 2
    BY <1>1, <1>2, <1>4
  <2>4. o \notin written
    BY <1>1, <2>3
  <2>5. inputs(at) \subseteq written
    BY <1>1, <1>4, InputsWritten
  <2>6. WrittenIsRight'
    BY <2>1, <2>3, <2>4, <2>5, <1>1, <1>2, <1>4, WriteRight
  <2> HIDE DEF o
  <2>7. LevelsInOrder'
    BY <2>1, <2>2, <1>1 DEF IInv, LevelsInOrder
  <2>8. ChunksApart'
    BY <2>1, <1>1 DEF IInv, ChunksApart
  <2>9. \A p \in 0 .. nextPoT - 2 : p \in written' <=> 2 * p < at + 2
    BY <2>1, <2>3, <1>1, <1>2
  <2>10. at + 2 <= merkleTo + 1 /\ (at + 2) % 2 = 0 /\ merkleFrom <= at + 2
         /\ width # 1
    BY <1>1, <1>2, <1>4
  <2>11. written' \subseteq 0 .. nextPoT - 2
    BY <2>1, <2>3, <1>1
  <2>12. WrittenSoFar'
    BY <2>1, <2>2, <2>9, <2>10, <2>11, <1>1 DEF WrittenSoFar
  <2> QED BY <2>6, <2>7, <2>8, <2>12 DEF IInv
<1> QED BY <1>3, <1>4 DEF Calc

\* wg.Add(1); go func: a goroutine for the next chunk.
LEMMA SpawnKeeps ==
  ASSUME IInv, Spawn
  PROVE  IInv'
<1> DEFINE r == [i |-> at, to |-> chunkTo(at), pair |-> NULL]
<1>1. /\ pc = "spawn" /\ at < merkleTo /\ wg' = wg + 1 /\ at' = at + SplitSize
      /\ leaves' = leaves /\ merkles' = merkles /\ written' = written /\ pc' = pc
      /\ h' = h /\ merkleFrom' = merkleFrom
      /\ workers' = [i \in DOMAIN workers \cup {at} |-> IF i = at THEN r ELSE workers[i]]
  BY DEF Spawn
<1>2. /\ length' = length /\ nextPoT' = nextPoT /\ height' = height
      /\ width' = width /\ base' = base /\ merkleTo' = merkleTo
  BY <1>1, SameLeaves, SameLevel
<1>3. /\ length > 1 /\ ~(length <= 1) /\ h <= height /\ at \in Nat
      /\ width > 1 /\ at % 2 = 0 /\ merkleFrom <= at
      /\ written \subseteq 0 .. nextPoT - 2
      /\ \A o \in 0 .. nextPoT - 2 :
           o \in written <=> 2 * o < at /\ 2 * o < merkleTo /\ ~pending(2 * o)
  BY <1>1 DEF IInv, LevelsInOrder, WrittenSoFar
<1>4. /\ nextPoT \in Nat /\ width \in Nat /\ merkleTo = 2 * nextPoT - width - 1
      /\ merkleTo \in Nat /\ merkleFrom = 2 * nextPoT - 2 * width
  BY <1>1, <1>3, LevelFacts DEF IInv
<1>5. SplitSize \in Nat /\ SplitSize > 0 /\ SplitSize % 2 = 0
  BY ParallelAssumption
<1>6. r.i = at /\ r.pair = NULL /\ r = [i |-> r.i, to |-> r.to, pair |-> r.pair]
      /\ r.to = IF at + SplitSize <= merkleTo THEN at + SplitSize ELSE merkleTo
  BY <1>3, <1>4, <1>5, MinOfTwo DEF chunkTo
<1> HIDE DEF r
<1>7. /\ \A w \in DOMAIN workers : ChunkApart(w)
      /\ IsFiniteSet(DOMAIN workers)
      /\ wg = Cardinality(DOMAIN workers)
  BY DEF IInv, ChunksApart
<1>8. \A w \in DOMAIN workers : w \in Nat /\ w + SplitSize <= at /\ w # at
  BY <1>3, <1>5, <1>7 DEF ChunkApart
<1>9. /\ DOMAIN workers' = DOMAIN workers \cup {at}
      /\ workers'[at] = r
      /\ \A w \in DOMAIN workers : workers'[w] = workers[w]
  BY <1>1, <1>8
<1>10. workers' = [w \in DOMAIN workers' |-> workers'[w]]
  BY <1>1
<1>11. LevelsInOrder'
  BY <1>1, <1>2, <1>3, <1>5 DEF IInv, LevelsInOrder
<1>12. IsFiniteSet(DOMAIN workers') /\ wg' = Cardinality(DOMAIN workers')
  BY <1>1, <1>7, <1>8, <1>9, FS_AddElement
<1>13. ASSUME NEW w \in DOMAIN workers PROVE ChunkApart(w)'
  <2>1. \A v \in DOMAIN workers' : v # w => v + SplitSize <= w \/ w + SplitSize <= v
    BY <1>7, <1>8, <1>9 DEF ChunkApart
  <2>2. w + SplitSize <= at'
    BY <1>1, <1>3, <1>5, <1>8
  <2>3. ChunkApart(w) /\ workers'[w] = workers[w]
    BY <1>7, <1>9
  <2> QED BY <2>1, <2>2, <2>3, <1>1, <1>2 DEF ChunkApart
<1>14. ASSUME NEW w \in DOMAIN workers', w = at PROVE ChunkApart(w)'
  <2>1. workers'[w] = r
    BY <1>9, <1>14
  <2>2. \A v \in DOMAIN workers' : v # w => v + SplitSize <= w \/ w + SplitSize <= v
    BY <1>8, <1>9, <1>14
  <2>3. w \in Nat /\ w % 2 = 0 /\ merkleFrom <= w /\ w + SplitSize <= at' /\ w < merkleTo
    BY <1>1, <1>3, <1>14
  <2>4. r.i = w /\ r.i <= r.to + 1
    BY <1>1, <1>3, <1>4, <1>5, <1>6, <1>14
  <2> QED BY <2>1, <2>2, <2>3, <2>4, <1>1, <1>2, <1>6, <1>14 DEF ChunkApart
<1>15. ChunksApart'
  BY <1>1, <1>9, <1>10, <1>12, <1>13, <1>14 DEF ChunksApart
<1>16. WrittenIsRight'
  BY <1>1, <1>3, QuietKeepsRight
<1>17. ASSUME NEW o \in 0 .. nextPoT - 2
       PROVE  o \in written <=>
                2 * o < at + SplitSize /\ 2 * o < merkleTo /\ ~pending(2 * o)'
  <2>1. pending(2 * o)' <=> pending(2 * o) \/ (at <= 2 * o /\ 2 * o < r.to)
    <3>1. pending(2 * o)' <=> \E w \in DOMAIN workers' :
                                 workers'[w].i <= 2 * o /\ 2 * o < workers'[w].to
      BY DEF pending
    <3>2. pending(2 * o) <=> \E w \in DOMAIN workers :
                               workers[w].i <= 2 * o /\ 2 * o < workers[w].to
      BY DEF pending
    <3> QED BY <3>1, <3>2, <1>6, <1>9
  <2>2. pending(2 * o) => 2 * o < at
    <3> SUFFICES ASSUME NEW w \in DOMAIN workers, 2 * o < workers[w].to
                 PROVE  2 * o < at
      BY DEF pending
    <3>1. /\ w \in Nat /\ w + SplitSize <= at
          /\ workers[w].to = IF w + SplitSize <= merkleTo THEN w + SplitSize ELSE merkleTo
      BY <1>7 DEF ChunkApart
    <3> QED BY <3>1, <1>3, <1>4, <1>5
  <2>3. o \in written <=> 2 * o < at /\ 2 * o < merkleTo /\ ~pending(2 * o)
    BY <1>3
  <2>4. CASE 2 * o < at
    BY <2>1, <2>2, <2>3, <2>4, <1>3, <1>5
  <2>5. CASE ~(2 * o < at)
    <3>1. 2 * o < at + SplitSize /\ 2 * o < merkleTo => 2 * o < r.to
      BY <1>6
    <3> QED BY <2>1, <2>3, <2>5, <3>1, <1>3
  <2> QED BY <2>4, <2>5
<1>18. merkleFrom <= at + SplitSize /\ (at + SplitSize) % 2 = 0
  BY <1>3, <1>4, <1>5
<1>19. WrittenSoFar'
  BY <1>1, <1>2, <1>3, <1>17, <1>18 DEF WrittenSoFar
<1> QED BY <1>11, <1>15, <1>16, <1>19 DEF IInv

\* All goroutines of the level have been started.
LEMMA SpawnedKeeps ==
  ASSUME IInv, Spawned
  PROVE  IInv'
<1>1. /\ pc = "spawn" /\ at >= merkleTo /\ pc' = "wait" /\ wg' = wg /\ at' = at
      /\ leaves' = leaves /\ merkles' = merkles /\ written' = written
      /\ h' = h /\ merkleFrom' = merkleFrom /\ workers' = workers
  BY DEF Spawned
<1>2. /\ length' = length /\ nextPoT' = nextPoT /\ height' = height
      /\ width' = width /\ base' = base /\ merkleTo' = merkleTo
  BY <1>1, SameLeaves, SameLevel
<1>3. length > 1 /\ ~(length <= 1) /\ h <= height
  BY <1>1 DEF IInv, LevelsInOrder
<1>4. LevelsInOrder'
  BY <1>1, <1>2, <1>3 DEF IInv, LevelsInOrder
<1>5. ChunksApart'
  BY <1>1, <1>2 DEF IInv, ChunksApart, ChunkApart
<1>6. WrittenIsRight'
  BY <1>1, <1>3, QuietKeepsRight
<1>7. WrittenSoFar'
  BY <1>1, <1>2, <1>3 DEF IInv, WrittenSoFar, pending
<1> QED BY <1>4, <1>5, <1>6, <1>7 DEF IInv

-----------------------------------------------------------------------------
(* IInv is inductive: the goroutines.                                      *)

\* While a goroutine runs, the caller starts others or waits.
LEMMA WorkerFacts ==
  ASSUME IInv, NEW w \in DOMAIN workers
  PROVE  /\ pc \in {"spawn", "wait"}
         /\ length > 1 /\ ~(length <= 1) /\ h <= height
         /\ ChunkApart(w)
         /\ workers[w].i \in Nat /\ workers[w].to \in Nat
         /\ workers[w].to <= merkleTo /\ workers[w].to <= w + SplitSize
         /\ w \in Nat /\ w <= workers[w].i /\ w + SplitSize <= at
         /\ nextPoT \in Nat /\ width \in Nat /\ width > 1
         /\ merkleTo = 2 * nextPoT - width - 1 /\ at \in Nat
<1>1. pc \in {"spawn", "wait"} /\ ChunkApart(w)
  BY DEF IInv, ChunksApart
<1>2. length > 1 /\ ~(length <= 1) /\ h <= height /\ at \in Nat /\ width > 1
  BY <1>1 DEF IInv, LevelsInOrder, WrittenSoFar
<1>3. /\ nextPoT \in Nat /\ width \in Nat /\ width <= nextPoT /\ nextPoT >= 2
      /\ merkleTo = 2 * nextPoT - width - 1
  BY <1>2, LevelFacts DEF IInv
<1>4. merkleTo \in Nat
  BY <1>3
<1>5. SplitSize \in Nat
  BY ParallelAssumption
<1>6. /\ w \in Nat /\ w <= workers[w].i /\ w + SplitSize <= at /\ workers[w].i \in Nat
      /\ workers[w].to = IF w + SplitSize <= merkleTo THEN w + SplitSize ELSE merkleTo
  BY <1>1 DEF ChunkApart
<1>7. /\ workers[w].to \in Nat
      /\ workers[w].to <= merkleTo /\ workers[w].to <= w + SplitSize
  BY <1>4, <1>5, <1>6
<1> QED BY <1>1, <1>2, <1>3, <1>6, <1>7

\* What has been written, while goroutines run.
LEMMA WrittenWhile ==
  ASSUME IInv, NEW w \in DOMAIN workers
  PROVE  /\ written \subseteq 0 .. nextPoT - 2
         /\ at % 2 = 0 /\ merkleFrom <= at
         /\ \A o \in 0 .. nextPoT - 2 :
              o \in written <=> 2 * o < at /\ 2 * o < merkleTo /\ ~pending(2 * o)
         /\ pc = "wait" => at >= merkleTo
BY WorkerFacts DEF IInv, WrittenSoFar

\* A goroutine reads the pair at its position.
LEMMA ReadKeeps ==
  ASSUME IInv, NEW w \in DOMAIN workers, Read(w)
  PROVE  IInv'
<1> DEFINE x == getMerklePair(leaves, merkles, workers[w].i, nextPoT)
           r == [i |-> workers[w].i, to |-> workers[w].to, pair |-> x]
<1>1. /\ workers[w].i < workers[w].to
      /\ workers' = [workers EXCEPT ![w].pair = x]
      /\ leaves' = leaves /\ merkles' = merkles /\ written' = written /\ pc' = pc
      /\ h' = h /\ merkleFrom' = merkleFrom /\ at' = at /\ wg' = wg
  BY DEF Read
<1>2. /\ length' = length /\ nextPoT' = nextPoT /\ height' = height
      /\ width' = width /\ base' = base /\ merkleTo' = merkleTo
  BY <1>1, SameLeaves, SameLevel
<1>3. /\ workers = [v \in DOMAIN workers |-> workers[v]]
      /\ IsFiniteSet(DOMAIN workers) /\ wg = Cardinality(DOMAIN workers)
      /\ \A v \in DOMAIN workers : ChunkApart(v)
  BY DEF IInv, ChunksApart
<1>4. workers[w] = [i |-> workers[w].i, to |-> workers[w].to, pair |-> workers[w].pair]
  BY <1>3 DEF ChunkApart
<1> HIDE DEF x
<1>5. /\ DOMAIN workers' = DOMAIN workers
      /\ workers'[w] = r
      /\ \A v \in DOMAIN workers : v # w => workers'[v] = workers[v]
      /\ workers' = [v \in DOMAIN workers' |-> workers'[v]]
  BY <1>1, <1>3, <1>4
<1>6. r.i = workers[w].i /\ r.to = workers[w].to /\ r.pair = x
      /\ r = [i |-> r.i, to |-> r.to, pair |-> r.pair]
  OBVIOUS
<1> HIDE DEF r
<1>7. length > 1 /\ ~(length <= 1) /\ h <= height /\ pc \in {"spawn", "wait"}
  BY WorkerFacts
<1>8. LevelsInOrder'
  BY <1>1, <1>2, <1>7 DEF IInv, LevelsInOrder
<1>9. ASSUME NEW v \in DOMAIN workers, v # w PROVE ChunkApart(v)'
  BY <1>1, <1>2, <1>3, <1>5, <1>9 DEF ChunkApart
<1>10. ChunkApart(w)'
  <2>1. x = getMerklePair(leaves, merkles, r.i, nextPoT)
    BY <1>6 DEF x
  <2>2. ChunkApart(w)
    BY <1>3
  <2> QED BY <2>1, <2>2, <1>1, <1>2, <1>5, <1>6 DEF ChunkApart
<1>11. ChunksApart'
  BY <1>1, <1>3, <1>5, <1>7, <1>9, <1>10 DEF ChunksApart
<1>12. WrittenIsRight'
  BY <1>1, <1>7, QuietKeepsRight
<1>13. \A p : pending(p)' <=> pending(p)
  <2>1. \A v \in DOMAIN workers : /\ workers'[v].i = workers[v].i
                                  /\ workers'[v].to = workers[v].to
    BY <1>5, <1>6
  <2> QED BY <2>1, <1>5 DEF pending
<1>14. WrittenSoFar'
  BY <1>1, <1>2, <1>7, <1>13, WrittenWhile, WorkerFacts DEF WrittenSoFar
<1> QED BY <1>8, <1>11, <1>12, <1>14 DEF IInv

\* A goroutine writes the parent of the pair it has read: still the pair that is
\* there, since no other goroutine writes at its position or at its children.
LEMMA WriteKeeps ==
  ASSUME IInv, NEW w \in DOMAIN workers, Write(w)
  PROVE  IInv'
<1> DEFINE i == workers[w].i
           o == i \div 2
           r == [i |-> i + 2, to |-> workers[w].to, pair |-> NULL]
<1>1. /\ workers[w].pair # NULL
      /\ write(i, workers[w].pair)
      /\ workers' = [workers EXCEPT ![w].i = @ + 2, ![w].pair = NULL]
      /\ leaves' = leaves /\ pc' = pc /\ h' = h /\ merkleFrom' = merkleFrom
      /\ at' = at /\ wg' = wg
  BY DEF Write
<1>2. /\ length' = length /\ nextPoT' = nextPoT /\ height' = height
      /\ width' = width /\ base' = base /\ merkleTo' = merkleTo
  BY <1>1, SameLeaves, SameLevel
<1>3. /\ workers = [v \in DOMAIN workers |-> workers[v]]
      /\ IsFiniteSet(DOMAIN workers) /\ wg = Cardinality(DOMAIN workers)
      /\ \A v \in DOMAIN workers : ChunkApart(v)
  BY DEF IInv, ChunksApart
<1>4. /\ workers[w] = [i |-> workers[w].i, to |-> workers[w].to, pair |-> workers[w].pair]
      /\ i < workers[w].to
      /\ workers[w].pair = getMerklePair(leaves, merkles, i, nextPoT)
      /\ i % 2 = 0
  BY <1>1, <1>3 DEF ChunkApart
<1>5. /\ DOMAIN workers' = DOMAIN workers
      /\ workers'[w] = r
      /\ \A v \in DOMAIN workers : v # w => workers'[v] = workers[v]
      /\ workers' = [v \in DOMAIN workers' |-> workers'[v]]
  BY <1>1, <1>3, <1>4
<1>6. r.i = i + 2 /\ r.to = workers[w].to /\ r.pair = NULL
      /\ r = [i |-> r.i, to |-> r.to, pair |-> r.pair]
  OBVIOUS
<1>7. /\ length > 1 /\ ~(length <= 1) /\ h <= height /\ pc \in {"spawn", "wait"}
      /\ i \in Nat /\ workers[w].to \in Nat /\ workers[w].to <= merkleTo
      /\ workers[w].to <= w + SplitSize /\ w \in Nat /\ w <= i /\ w + SplitSize <= at
      /\ nextPoT \in Nat /\ width \in Nat /\ width > 1
      /\ merkleTo = 2 * nextPoT - width - 1 /\ at \in Nat
  BY WorkerFacts
<1>8. /\ written \subseteq 0 .. nextPoT - 2
      /\ \A p \in 0 .. nextPoT - 2 :
           p \in written <=> 2 * p < at /\ 2 * p < merkleTo /\ ~pending(2 * p)
  BY WrittenWhile
<1> HIDE DEF r, i
<1>9. 2 * o = i /\ o \in 0 .. nextPoT - 2
  BY <1>4, <1>7
<1>10. o \notin written
  <2>1. pending(2 * o)
    BY <1>4, <1>7, <1>9 DEF pending, i
  <2> QED BY <2>1, <1>8, <1>9
<1>11. inputs(i) \subseteq written
  <2>1. i < merkleTo
    BY <1>4, <1>7
  <2> QED BY <2>1, <1>7, InputsWritten
<1>12. /\ WrittenIsRight'
       /\ \A j \in Nat : inputs(j) \subseteq written =>
            getMerklePair(leaves, merkles', j, nextPoT)
              = getMerklePair(leaves, merkles, j, nextPoT)
  <2>1. write(i, getMerklePair(leaves, merkles, i, nextPoT))
    BY <1>1, <1>4
  <2> QED BY <2>1, <1>1, <1>4, <1>7, <1>9, <1>10, <1>11, WriteRight
<1>13. written' = written \cup {o}
  BY <1>1 DEF write
<1> HIDE DEF o
<1>14. LevelsInOrder'
  BY <1>1, <1>2, <1>7 DEF IInv, LevelsInOrder
<1>15. ASSUME NEW v \in DOMAIN workers, v # w PROVE ChunkApart(v)'
  <2>1. ChunkApart(v) /\ workers'[v] = workers[v] /\ DOMAIN workers' = DOMAIN workers
    BY <1>3, <1>5, <1>15
  <2>2. workers[v].pair # NULL =>
          workers[v].pair = getMerklePair(leaves, merkles', workers[v].i, nextPoT)
    <3> SUFFICES ASSUME workers[v].pair # NULL
                 PROVE  workers[v].pair = getMerklePair(leaves, merkles', workers[v].i, nextPoT)
      OBVIOUS
    <3>1. /\ workers[v].pair = getMerklePair(leaves, merkles, workers[v].i, nextPoT)
          /\ workers[v].i < workers[v].to
      BY <2>1 DEF ChunkApart
    <3>2. workers[v].i \in Nat /\ workers[v].i < merkleTo
      <4>1. /\ workers[v].i \in Nat /\ workers[v].to \in Nat
            /\ workers[v].to <= merkleTo
        BY WorkerFacts
      <4> QED BY <4>1, <3>1, <1>7
    <3>3. inputs(workers[v].i) \subseteq written
      BY <3>2, <1>7, InputsWritten
    <3> QED BY <3>1, <3>2, <3>3, <1>12
  <2> QED BY <2>1, <2>2, <1>1, <1>2 DEF ChunkApart
<1>16. ChunkApart(w)'
  <2>1. ChunkApart(w)
    BY <1>3
  <2>2. r.i \in Nat /\ r.i % 2 = 0 /\ w <= r.i /\ r.i <= r.to + 1
    BY <1>4, <1>6, <1>7
  <2> QED BY <2>1, <2>2, <1>1, <1>2, <1>5, <1>6 DEF ChunkApart
<1>17. ChunksApart'
  BY <1>1, <1>3, <1>5, <1>7, <1>15, <1>16 DEF ChunksApart
<1>18. ASSUME NEW p \in 0 .. nextPoT - 2
       PROVE  p \in written' <=> 2 * p < at /\ 2 * p < merkleTo /\ ~pending(2 * p)'
  <2>1. p \in Nat
    OBVIOUS
  <2>2. CASE p = o
    <3>1. ~pending(2 * p)'
      <4> SUFFICES ASSUME NEW v \in DOMAIN workers,
                          workers'[v].i <= i, i < workers'[v].to
                   PROVE  FALSE
        BY <2>2, <1>5, <1>9 DEF pending
      <4>1. CASE v = w
        BY <4>1, <1>5, <1>6, <1>7
      <4>2. CASE v # w
        <5>1. /\ workers[v].to \in Nat /\ workers[v].i \in Nat /\ v \in Nat
              /\ workers[v].to <= v + SplitSize /\ v <= workers[v].i
          BY WorkerFacts
        <5>2. v + SplitSize <= w \/ w + SplitSize <= v
          BY <4>2, <1>3 DEF ChunkApart
        <5>3. SplitSize \in Nat
          BY ParallelAssumption
        <5>4. workers'[v] = workers[v]
          BY <4>2, <1>5
        <5> QED BY <5>1, <5>2, <5>3, <5>4, <1>4, <1>7
      <4> QED BY <4>1, <4>2
    <3>2. i < at /\ i < merkleTo
      BY <1>4, <1>7, ParallelAssumption
    <3> QED BY <2>2, <3>1, <3>2, <1>9, <1>13
  <2>3. CASE p # o
    <3>1. ASSUME NEW v \in DOMAIN workers
          PROVE  (workers'[v].i <= 2 * p /\ 2 * p < workers'[v].to) <=>
                 (workers[v].i <= 2 * p /\ 2 * p < workers[v].to)
      <4>1. CASE v = w
        <5>1. workers'[v].i = i + 2 /\ workers[v].i = i /\ workers'[v].to = workers[v].to
          BY <4>1, <1>5, <1>6 DEF i
        <5>2. 2 * p # i /\ i % 2 = 0 /\ i \in Nat
          BY <2>1, <2>3, <1>4, <1>7, <1>9
        <5>3. i + 2 <= 2 * p <=> i <= 2 * p
          BY <5>2, <2>1
        <5> QED BY <5>1, <5>3
      <4>2. CASE v # w
        BY <4>2, <1>5
      <4> QED BY <4>1, <4>2
    <3>2. pending(2 * p)' <=> pending(2 * p)
      BY <3>1, <1>5 DEF pending
    <3> QED BY <2>3, <3>2, <1>8, <1>13
  <2> QED BY <2>2, <2>3
<1>19. written' \subseteq 0 .. nextPoT - 2
  BY <1>8, <1>9, <1>13
<1>20. at % 2 = 0 /\ merkleFrom <= at /\ (pc = "wait" => at >= merkleTo)
  BY WrittenWhile
<1>21. WrittenSoFar'
  BY <1>1, <1>2, <1>7, <1>18, <1>19, <1>20 DEF WrittenSoFar
<1> QED BY <1>12, <1>14, <1>17, <1>21 DEF IInv

\* defer wg.Done(): a goroutine that has come to the end of its chunk.
LEMMA WgDoneKeeps ==
  ASSUME IInv, NEW w \in DOMAIN workers, WgDone(w)
  PROVE  IInv'
<1>1. /\ workers[w].i >= workers[w].to /\ wg' = wg - 1
      /\ workers' = [v \in DOMAIN workers \ {w} |-> workers[v]]
      /\ leaves' = leaves /\ merkles' = merkles /\ written' = written /\ pc' = pc
      /\ h' = h /\ merkleFrom' = merkleFrom /\ at' = at
  BY DEF WgDone
<1>2. /\ length' = length /\ nextPoT' = nextPoT /\ height' = height
      /\ width' = width /\ base' = base /\ merkleTo' = merkleTo
  BY <1>1, SameLeaves, SameLevel
<1>3. /\ IsFiniteSet(DOMAIN workers) /\ wg = Cardinality(DOMAIN workers)
      /\ \A v \in DOMAIN workers : ChunkApart(v)
  BY DEF IInv, ChunksApart
<1>4. /\ DOMAIN workers' = DOMAIN workers \ {w}
      /\ \A v \in DOMAIN workers' : workers'[v] = workers[v]
      /\ workers' = [v \in DOMAIN workers' |-> workers'[v]]
  BY <1>1
<1>5. IsFiniteSet(DOMAIN workers') /\ wg' = Cardinality(DOMAIN workers')
  BY <1>1, <1>3, <1>4, FS_RemoveElement
<1>6. /\ length > 1 /\ ~(length <= 1) /\ h <= height /\ pc \in {"spawn", "wait"}
      /\ workers[w].i \in Nat /\ workers[w].to \in Nat
  BY WorkerFacts
<1>7. LevelsInOrder'
  BY <1>1, <1>2, <1>6 DEF IInv, LevelsInOrder
<1>8. ASSUME NEW v \in DOMAIN workers' PROVE ChunkApart(v)'
  <2>1. ChunkApart(v) /\ workers'[v] = workers[v] /\ DOMAIN workers' \subseteq DOMAIN workers
    BY <1>3, <1>4
  <2> QED BY <2>1, <1>1, <1>2 DEF ChunkApart
<1>9. ChunksApart'
  BY <1>1, <1>4, <1>5, <1>6, <1>8 DEF ChunksApart
<1>10. WrittenIsRight'
  BY <1>1, <1>6, QuietKeepsRight
<1>11. ASSUME NEW p \in Nat PROVE pending(p)' <=> pending(p)
  <2>1. ~(workers[w].i <= p /\ p < workers[w].to)
    BY <1>1, <1>6
  <2> QED BY <2>1, <1>4 DEF pending
<1>12. \A p \in 0 .. nextPoT - 2 : pending(2 * p)' <=> pending(2 * p)
  <2> SUFFICES ASSUME NEW p \in 0 .. nextPoT - 2 PROVE pending(2 * p)' <=> pending(2 * p)
    OBVIOUS
  <2>1. 2 * p \in Nat
    OBVIOUS
  <2> QED BY <2>1, <1>11
<1>13. WrittenSoFar'
  BY <1>1, <1>2, <1>6, <1>12, WrittenWhile, WorkerFacts DEF WrittenSoFar
<1> QED BY <1>7, <1>9, <1>10, <1>13 DEF IInv

\* Every step preserves the invariant.
LEMMA StepKeepsIInv == IInv /\ [Next]_vars => IInv'
<1> SUFFICES ASSUME IInv, [Next]_vars PROVE IInv'
  OBVIOUS
<1>1. CASE UNCHANGED vars
  <2>1. /\ leaves' = leaves /\ merkles' = merkles /\ written' = written /\ pc' = pc
        /\ h' = h /\ merkleFrom' = merkleFrom /\ at' = at /\ wg' = wg
        /\ workers' = workers
    BY <1>1 DEF vars
  <2>2. /\ length' = length /\ nextPoT' = nextPoT /\ height' = height
        /\ width' = width /\ base' = base /\ merkleTo' = merkleTo
    BY <2>1, SameLeaves, SameLevel
  <2>3. LevelsInOrder'
    BY <2>1, <2>2 DEF IInv, LevelsInOrder
  <2>4. ChunksApart'
    BY <2>1, <2>2 DEF IInv, ChunksApart, ChunkApart
  <2>5. WrittenSoFar'
    BY <2>1, <2>2 DEF IInv, WrittenSoFar, pending
  <2>6. BuildMerkleTreeStoreFromBytes(leaves)' = BuildMerkleTreeStoreFromBytes(leaves)
    BY <2>1
  <2>7. WrittenIsRight'
    BY <2>1, <2>2, <2>6 DEF IInv, WrittenIsRight, inputs
  <2> QED BY <2>3, <2>4, <2>5, <2>7 DEF IInv
<1>2. CASE Caller
  BY <1>2, StartKeeps, LevelKeeps, SpawnKeeps, SpawnedKeeps, WaitKeeps, CalcKeeps
     DEF Caller
<1>3. ASSUME NEW w \in Positions, Worker(w) PROVE IInv'
  BY <1>3, ReadKeeps, WriteKeeps, WgDoneKeeps DEF Worker
<1> QED BY <1>1, <1>2, <1>3 DEF Next

\* IInv holds of every run of the build.
THEOREM BuildInvariant == Spec => []IInv
<1>1. Init => IInv
  BY InitIInv
<1>2. IInv /\ [Next]_vars => IInv'
  BY StepKeepsIInv
<1> QED BY <1>1, <1>2, PTL DEF Spec

-----------------------------------------------------------------------------
(* What follows from it.                                                   *)

\* The array "leaves, then merkles" fits the positions of the model: rounding a
\* smaller number up gives no larger power of two.
LEMMA PositionsHold ==
  ASSUME LevelsInOrder, length > 1
  PROVE  nextPoT <= CeilPowerOfTwo(MaxLeaves) /\ CeilPowerOfTwo(MaxLeaves) \in Nat
<1> DEFINE c == Log2Ceil(MaxLeaves)
<1>1. length \in Nat /\ length <= MaxLeaves /\ MaxLeaves \in Nat /\ MaxLeaves >= 1
  BY ParallelAssumption DEF LevelsInOrder
<1>2. c \in Nat /\ MaxLeaves <= 2^c /\ 2^c \in Nat
  BY <1>1, Log2CeilLemma, PowerType
<1>3. height \in Nat /\ \A j \in Nat : j < height => 2^j < length
  BY <1>1, Log2CeilLemma DEF height
<1>4. nextPoT = 2^height /\ nextPoT \in Nat
  BY <1>1, Sizes DEF height, nextPoT
<1> HIDE DEF c
<1>5. height <= c
  <2> SUFFICES ASSUME c < height PROVE FALSE
    BY <1>2, <1>3
  <2>1. 2^c < length
    BY <1>2, <1>3
  <2> QED BY <2>1, <1>1, <1>2
<1>6. 2^height <= 2^c
  <2>1. height = c \/ 2^height < 2^c
    BY <1>2, <1>3, <1>5, PowerGrows
  <2> QED BY <2>1, <1>2, <1>4
<1>7. CeilPowerOfTwo(MaxLeaves) = 2^c
  BY <1>1 DEF CeilPowerOfTwo, c
<1> QED BY <1>2, <1>4, <1>6, <1>7

\* The variables have their types.
THEOREM BuildTypes == Spec => []TypeOK
<1>1. IInv => TypeOK
  <2> SUFFICES ASSUME IInv PROVE TypeOK
    OBVIOUS
  <2>1. /\ pc \in {"start", "level", "spawn", "wait", "calc", "done"}
        /\ h \in Nat /\ merkleFrom \in Nat /\ at \in Nat
    BY DEF IInv, LevelsInOrder
  <2>2. wg \in Nat
    BY FS_CardinalityType DEF IInv, ChunksApart
  <2>3. written \subseteq DOMAIN merkles
    <3>1. CASE length > 1
      <4>1. merkles = [o \in 0 .. nextPoT - 2 |-> merkles[o]]
        BY <3>1 DEF IInv, WrittenIsRight
      <4>2. DOMAIN merkles = 0 .. nextPoT - 2
        BY <4>1
      <4> QED BY <3>1, <4>2 DEF IInv, WrittenSoFar
    <3>2. CASE ~(length > 1)
      <4>1. length <= 1
        BY <3>2, ParallelAssumption DEF IInv, LevelsInOrder
      <4> QED BY <4>1 DEF IInv, WrittenSoFar
    <3> QED BY <3>1, <3>2
  <2>4. ASSUME NEW w \in DOMAIN workers
        PROVE  w \in Positions /\ workers[w].i \in Positions
    <3>1. /\ length > 1 /\ w \in Nat /\ w <= workers[w].i /\ workers[w].i \in Nat
          /\ workers[w].to \in Nat /\ workers[w].to <= merkleTo
          /\ nextPoT \in Nat /\ width \in Nat /\ width > 1
          /\ merkleTo = 2 * nextPoT - width - 1
      BY WorkerFacts
    <3>2. workers[w].i <= workers[w].to + 1
      BY DEF IInv, ChunksApart, ChunkApart
    <3>3. nextPoT <= CeilPowerOfTwo(MaxLeaves) /\ CeilPowerOfTwo(MaxLeaves) \in Nat
      BY <3>1, PositionsHold DEF IInv
    <3> QED BY <3>1, <3>2, <3>3 DEF Positions
  <2> QED BY <2>1, <2>2, <2>3, <2>4 DEF TypeOK
<1> QED BY <1>1, BuildInvariant, PTL

\* The barrier between levels: a goroutine reads only entries that have been
\* written, and what it has read is still there when it writes.
THEOREM ReadsSettled == Spec => []ReadsAreSettled
<1>1. IInv => ReadsAreSettled
  <2> SUFFICES ASSUME IInv, NEW w \in DOMAIN workers
               PROVE  /\ workers[w].i < workers[w].to => inputs(workers[w].i) \subseteq written
                      /\ workers[w].pair # NULL =>
                           workers[w].pair
                             = getMerklePair(leaves, merkles, workers[w].i, nextPoT)
    BY DEF ReadsAreSettled
  <2>1. /\ length > 1 /\ h <= height /\ workers[w].i \in Nat /\ workers[w].to \in Nat
        /\ workers[w].to <= merkleTo /\ nextPoT \in Nat /\ width \in Nat
        /\ merkleTo = 2 * nextPoT - width - 1 /\ ChunkApart(w)
    BY WorkerFacts
  <2>2. ASSUME workers[w].i < workers[w].to
        PROVE  inputs(workers[w].i) \subseteq written
    <3>1. workers[w].i < merkleTo
      BY <2>1, <2>2
    <3> QED BY <2>1, <3>1, InputsWritten
  <2> QED BY <2>1, <2>2 DEF ChunkApart
<1> QED BY <1>1, BuildInvariant, PTL

\* No data race and no entry written twice: what a goroutine will write, no other
\* one will, and nobody has written.
THEOREM SlotsExclusive == Spec => []SlotsAreExclusive
<1>1. IInv => SlotsAreExclusive
  <2> SUFFICES ASSUME IInv, NEW w \in DOMAIN workers
               PROVE  /\ toWrite(w) \cap written = {}
                      /\ \A v \in DOMAIN workers : v # w => toWrite(v) \cap toWrite(w) = {}
    BY DEF SlotsAreExclusive
  <2>1. ASSUME NEW v \in DOMAIN workers, NEW o \in toWrite(v)
        PROVE  /\ o \in Nat /\ workers[v].i <= 2 * o /\ 2 * o < workers[v].to
               /\ v <= 2 * o /\ 2 * o < v + SplitSize /\ v \in Nat
    <3>1. /\ workers[v].i \in Nat /\ workers[v].to \in Nat /\ v \in Nat
          /\ workers[v].to <= v + SplitSize /\ v <= workers[v].i
      BY WorkerFacts
    <3>2. workers[v].i % 2 = 0
      BY DEF IInv, ChunksApart, ChunkApart
    <3>3. PICK i \in workers[v].i .. workers[v].to - 1 : o = i \div 2
      BY DEF toWrite
    <3> QED BY <3>1, <3>2, <3>3, ParallelAssumption
  <2>2. ASSUME NEW o \in toWrite(w), o \in written PROVE FALSE
    <3>1. workers[w].i <= 2 * o /\ 2 * o < workers[w].to
      BY <2>1
    <3>2. pending(2 * o)
      BY <3>1 DEF pending
    <3>3. o \in 0 .. nextPoT - 2
      BY <2>2, WrittenWhile
    <3> QED BY <2>2, <3>2, <3>3, WrittenWhile
  <2>3. ASSUME NEW v \in DOMAIN workers, v # w, NEW o \in toWrite(v), o \in toWrite(w)
        PROVE  FALSE
    <3>1. /\ o \in Nat /\ v \in Nat /\ w \in Nat
          /\ v <= 2 * o /\ 2 * o < v + SplitSize
          /\ w <= 2 * o /\ 2 * o < w + SplitSize
      BY <2>1, <2>3
    <3>2. v + SplitSize <= w \/ w + SplitSize <= v
      BY <2>3 DEF IInv, ChunksApart, ChunkApart
    <3> QED BY <3>1, <3>2, ParallelAssumption
  <2> QED BY <2>2, <2>3
<1> QED BY <1>1, BuildInvariant, PTL

\* Every entry of f is the parent of its pair of children: the equation of the
\* recursive definition of the store.
IsStore(ls, f, N) ==
  \A o \in 0 .. N - 2 :
    f[o] = calcMerkle(getMerklePair(ls, f, 2 * o, N)[1],
                      getMerklePair(ls, f, 2 * o, N)[2])

\* The equation has one solution: where two arrays that satisfy it differ first,
\* their children, at lower offsets, agree.
LEMMA OneStore ==
  ASSUME NEW ls, NEW N \in Nat, NEW f, NEW g, IsStore(ls, f, N), IsStore(ls, g, N)
  PROVE  \A o \in 0 .. N - 2 : f[o] = g[o]
<1> DEFINE T == {o \in 0 .. N - 2 : f[o] # g[o]}
<1> SUFFICES ASSUME T # {} PROVE FALSE
  OBVIOUS
<1>1. T \in SUBSET Nat
  OBVIOUS
<1>2. PICK o \in T : \A p \in T : o <= p
  <2> HIDE DEF T
  <2> QED BY <1>1, MinExists
<1>3. o \in 0 .. N - 2 /\ f[o] # g[o] /\ 2 * o \in Nat
  OBVIOUS
<1>4. ASSUME NEW p \in 0 .. N - 2, p < o PROVE f[p] = g[p]
  BY <1>2, <1>3, <1>4
<1>5. 2 * o >= N => /\ f[2 * o - N] = g[2 * o - N]
                    /\ f[2 * o - N + 1] = g[2 * o - N + 1]
  <2> SUFFICES ASSUME 2 * o >= N
               PROVE  f[2 * o - N] = g[2 * o - N] /\ f[2 * o - N + 1] = g[2 * o - N + 1]
    OBVIOUS
  <2>1. /\ 2 * o - N \in 0 .. N - 2 /\ 2 * o - N < o
        /\ 2 * o - N + 1 \in 0 .. N - 2 /\ 2 * o - N + 1 < o
    BY <1>3
  <2> QED BY <2>1, <1>4
<1>6. getMerklePair(ls, f, 2 * o, N) = getMerklePair(ls, g, 2 * o, N)
  BY <1>3, <1>5, PairKept
<1> QED BY <1>3, <1>6, Zenon DEF IsStore

\* However the goroutines interleave, the store that is returned is the one the
\* sequential definition gives.
THEOREM StoreIsRight == Spec => []ResultIsTheStore
<1>1. IInv => ResultIsTheStore
  <2> SUFFICES ASSUME IInv, pc = "done"
               PROVE  merkles = BuildMerkleTreeStoreFromBytes(leaves)
    BY DEF ResultIsTheStore
  <2>1. CASE length <= 1
    BY <2>1 DEF IInv, WrittenIsRight
  <2>2. CASE ~(length <= 1)
    <3> DEFINE N == NextPowerOfTwo(Len(leaves))
               P(f) == f = [o \in 0 .. N - 2 |->
                              calcMerkle(getMerklePair(leaves, f, 2 * o, N)[1],
                                         getMerklePair(leaves, f, 2 * o, N)[2])]
    <3>1. length > 1 /\ length \in Nat
      BY <2>2, ParallelAssumption DEF IInv, LevelsInOrder
    <3>2. Len(leaves) # 0 /\ Len(leaves) # 1
      <4>1. length # 0 /\ length # 1
        BY <3>1
      <4> QED BY <4>1, Zenon DEF length
    <3>3. nextPoT = N /\ N \in Nat /\ N >= 2 /\ height \in Nat
      BY <3>1, Sizes DEF nextPoT, height, length
    <3>4. written = 0 .. N - 2
      <4>1. h > height /\ h \in Nat
        BY <3>1 DEF IInv, LevelsInOrder
      <4>2. base = N - 1 /\ base - 1 = N - 2
        BY <4>1, <3>3 DEF base
      <4>3. written = 0 .. base - 1
        BY <3>1 DEF IInv, WrittenSoFar
      <4> QED BY <4>2, <4>3
    <3>5. P(merkles)
      <4> HIDE DEF N
      <4>1. /\ merkles = [o \in 0 .. N - 2 |-> merkles[o]]
            /\ \A o \in 0 .. N - 2 :
                 merkles[o] = calcMerkle(getMerklePair(leaves, merkles, 2 * o, N)[1],
                                         getMerklePair(leaves, merkles, 2 * o, N)[2])
        BY <3>1, <3>3, <3>4 DEF IInv, WrittenIsRight
      <4> QED BY <4>1, Zenon
    <3>6. BuildMerkleTreeStoreFromBytes(leaves) = CHOOSE f : P(f)
      BY <3>2, Zenon DEF BuildMerkleTreeStoreFromBytes
    <3> HIDE DEF P
    <3>7. P(BuildMerkleTreeStoreFromBytes(leaves))
      BY <3>5, <3>6, Zenon
    <3> DEFINE store == BuildMerkleTreeStoreFromBytes(leaves)
    <3> HIDE DEF store, N
    <3>8. P(store)
      BY <3>7 DEF store
    <3>9. IsStore(leaves, store, N)
      BY <3>8, Zenon DEF P, IsStore
    <3>10. IsStore(leaves, merkles, N)
      BY <3>5, Zenon DEF P, IsStore
    <3>11. \A o \in 0 .. N - 2 : merkles[o] = store[o]
      BY <3>3, <3>9, <3>10, OneStore
    <3>12. merkles = store
      BY <3>5, <3>8, <3>11, Zenon DEF P
    <3> QED BY <3>12 DEF store
  <2> QED BY <2>1, <2>2
<1> QED BY <1>1, BuildInvariant, PTL
=============================================================================
