----------------------------- MODULE MerkleTree -----------------------------
(***************************************************************************)
(* The pure algorithms of merkle_tree.go and power_of_two.go, and the two  *)
(* queries of subtree.go that are built on them: GetMerkleProof and        *)
(* RootHashPadded.                                                         *)
(*                                                                         *)
(* A Go slice of leaves is a sequence (position i of the code is element   *)
(* i + 1); the merkle store keeps the code's zero-based positions, as a    *)
(* function on 0 .. len - 1.                                               *)
(*                                                                         *)
(* Hashes are symbolic.  A leaf hash is a one-element sequence <<k>> with  *)
(* k > 0, the parent of l and r is the prefix term <<0>> \o l \o r, and    *)
(* the all-zero hash that the code uses for "absent" is the empty          *)
(* sequence.  Prefix terms are uniquely decodable, so H is injective and   *)
(* never yields the zero hash: the idealisation of double SHA-256.         *)
(***************************************************************************)
EXTENDS Integers, Sequences, FiniteSets

Hash == Seq(Nat)

\* chainhash.Hash{}
ZeroHash == << >>

\* The all-0xFF hash that stands for the coinbase transaction of a block.
CoinbasePlaceholder == <<1>>

\* sha256(sha256(l || r))
H(l, r) == <<0>> \o l \o r

-----------------------------------------------------------------------------
(* Powers of two.                                                          *)

\* int(math.Log2(n)) for n >= 1: how many of 2, 4, 8, ... are not above n.
Log2Floor(n) == Cardinality({k \in 1 .. n : 2^k <= n})

\* int(math.Ceil(math.Log2(n))) for n >= 1: how many of 1, 2, 4, ... are below n.
Log2Ceil(n) == Cardinality({k \in 0 .. n : 2^k < n})

\* bits.Len: the number of bits needed to write x.
BitsLen(x) == IF x = 0 THEN 0 ELSE Log2Floor(x) + 1

IsPowerOfTwo(num) == num > 0 /\ num = 2^Log2Floor(num)

CeilPowerOfTwo(num) == IF num <= 0 THEN 1 ELSE 2^Log2Ceil(num)

NextPowerOfTwo(n) ==
  IF n = 0 \/ IsPowerOfTwo(n) THEN n ELSE 2^(Log2Floor(n) + 1)

-----------------------------------------------------------------------------
(* Building the store.                                                     *)

getNodeHashAt(leaves, index) ==
  IF index >= Len(leaves) THEN ZeroHash ELSE leaves[index + 1]

\* The pair of children at position i of the array "leaves, then merkles".
getMerklePair(leaves, merkles, i, nextPoT) ==
  IF i < nextPoT
  THEN <<getNodeHashAt(leaves, i), getNodeHashAt(leaves, i + 1)>>
  ELSE <<merkles[i - nextPoT], merkles[i - nextPoT + 1]>>

\* Mutant: a left child without a right one is passed up as it is.
calcMerkleNoDuplicate(left, right) ==
  IF left = ZeroHash \/ right = ZeroHash THEN left ELSE H(left, right)

\* No left child: no parent.  No right child: the left one is used twice.
calcMerkle(left, right) ==
  CASE left = ZeroHash  -> ZeroHash
    [] left # ZeroHash /\ right = ZeroHash -> H(left, left)
    [] OTHER            -> H(left, right)

\* All levels above the leaves, lowest level first; the root is the last
\* entry.  Entry o combines positions 2 * o and 2 * o + 1.
BuildMerkleTreeStoreFromBytes(leaves) ==
  LET nextPoT == NextPowerOfTwo(Len(leaves))
      merkles[offset \in 0 .. nextPoT - 2] ==
        LET pair == getMerklePair(leaves, merkles, 2 * offset, nextPoT)
        IN  calcMerkle(pair[1], pair[2])
  IN  CASE Len(leaves) = 0 -> [offset \in {} |-> ZeroHash]
        [] Len(leaves) = 1 -> [offset \in {0} |-> leaves[1]]
        [] OTHER           -> merkles

\* The last entry of the store, (*store)[len(*store)-1], for leaves # <<>>.
MerkleRoot(leaves) ==
  LET store == BuildMerkleTreeStoreFromBytes(leaves)
  IN  IF Len(leaves) = 1 THEN store[0]
      ELSE store[NextPowerOfTwo(Len(leaves)) - 2]

-----------------------------------------------------------------------------
(* Merkle proofs.                                                          *)

\* The sibling at the leaf level; a last leaf without one is its own sibling.
getLeafSiblingHash(leaves, index) ==
  IF index % 2 = 0
  THEN IF index + 1 >= Len(leaves) THEN leaves[index + 1] ELSE leaves[index + 2]
  ELSE leaves[index]

\* Mutant: the sibling's position, also where the sibling is absent.
treePositionUnchecked(store, treeIndexPos, treeIndex, totalLength) ==
  LET treePos == treeIndexPos + treeIndex
  IN  IF treePos % 2 = 0 THEN treePos + 1 ELSE treePos - 1

\* The position in the store of the sibling of entry treeIndexPos + treeIndex,
\* or of the entry itself when it has none.
calculateTreePosition(store, treeIndexPos, treeIndex, totalLength) ==
  LET treePos == treeIndexPos + treeIndex
  IN  CASE /\ treePos % 2 = 0
           /\ totalLength > treePos + 1
           /\ store[treePos + 1] # ZeroHash -> treePos + 1
        [] /\ treePos % 2 = 1
           /\ store[treePos - 1] # ZeroHash -> treePos - 1
        [] OTHER -> treePos

\* The siblings on the path from leaf index (zero-based) to the root, for
\* index < Len(leaves).  Step j of the loop climbs from level j - 1 to j.
GetMerkleProof(leaves, index) ==
  LET store       == BuildMerkleTreeStoreFromBytes(leaves)
      height      == Log2Ceil(Len(leaves))
      totalLength == 2^height + NextPowerOfTwo(Len(leaves)) - 1
      treeIndexPos[j \in 2 .. height] ==
        IF j = 2 THEN 0 ELSE treeIndexPos[j - 1] + 2^(height - j + 2)
      treeIndex(j) == index \div 2^(j - 1)
  IN  [j \in 1 .. height |->
         IF j = 1 THEN getLeafSiblingHash(leaves, index)
         ELSE store[calculateTreePosition(store, treeIndexPos[j], treeIndex(j),
                                          totalLength)]]

\* H(x, x), applied n times.
Lift(x, n) ==
  LET up[k \in 0 .. n] == IF k = 0 THEN x ELSE H(up[k - 1], up[k - 1])
  IN  up[n]

\* Mutant: rounded down, one too low where n is not a power of two.
NaturalHeightOff(n) == BitsLen(n) - 1

\* The height of the natural merkle root of n >= 1 leaves.
NaturalHeight(n) == BitsLen(n - 1)

\* The root of a non-empty subtree lifted to targetHeight >= NaturalHeight.
PaddedRoot(leaves, targetHeight) ==
  Lift(MerkleRoot(leaves), targetHeight - NaturalHeight(Len(leaves)))
=============================================================================
