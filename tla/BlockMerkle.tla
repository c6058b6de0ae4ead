---------------------------- MODULE BlockMerkle -----------------------------
(***************************************************************************)
(* A block as a list of subtrees of one height, filled in order, and the   *)
(* merkle queries the package offers over it: RootHash, GetMerkleProof and *)
(* RootHashPadded of each subtree, and GetMerkleProofForCoinbase of the    *)
(* whole list.  The queries are compared with a reference definition of    *)
(* the Bitcoin merkle root that knows nothing of stores or subtrees.       *)
(***************************************************************************)
EXTENDS MerkleTree, SequencesExt

CONSTANTS
  TxHashes,   \* the leaf hashes that transactions may have
  MaxHeight,  \* bound: heights of subtrees are 0 .. MaxHeight
  MaxLeaves   \* bound: leaves in the whole block

ASSUME BlockAssumption ==
  /\ TxHashes \subseteq (Hash \ {ZeroHash, CoinbasePlaceholder})
  /\ MaxHeight \in Nat
  /\ MaxLeaves \in Nat

VARIABLES
  height,     \* the height all subtrees of the block are created with
  subtrees    \* a sequence of leaf sequences, one per subtree

vars == <<height, subtrees>>

leaves == FlattenSeq(subtrees)

Init ==
  /\ height \in 0 .. MaxHeight
  /\ subtrees = << >>

\* The block has a subtree that can take a leaf.
Open == subtrees # << >> /\ Len(Last(subtrees)) < 2^height

\* Mutant: the next subtree is begun before the last one is complete.
NewTreeEarly ==
  /\ Len(leaves) < MaxLeaves
  /\ subtrees' = Append(subtrees, << >>)
  /\ UNCHANGED height

\* NewTree(height): only once the previous subtree is complete.
NewTree ==
  /\ ~Open
  /\ Len(leaves) < MaxLeaves
  /\ subtrees' = Append(subtrees, << >>)
  /\ UNCHANGED height

\* The first node of the first subtree.
AddCoinbaseNode ==
  /\ subtrees = << << >> >>
  /\ subtrees' = << <<CoinbasePlaceholder>> >>
  /\ UNCHANGED height

\* AddNode on the subtree being filled.
AddNode(hash) ==
  /\ Open
  /\ Len(leaves) < MaxLeaves
  /\ subtrees' = [subtrees EXCEPT ![Len(subtrees)] = Append(@, hash)]
  /\ UNCHANGED height

\* The block has all the leaves the bound allows: nothing more is added.
Done ==
  /\ Len(leaves) = MaxLeaves
  /\ UNCHANGED vars

Next ==
  \/ NewTree
  \/ AddCoinbaseNode
  \/ \E hash \in TxHashes : AddNode(hash)
  \/ Done

Spec == Init /\ [][Next]_vars

-----------------------------------------------------------------------------
(* GetMerkleProofForCoinbase.                                              *)

\* The leaves of the top tree: the root hash of every subtree, unpadded.
topTree == [i \in DOMAIN subtrees |-> MerkleRoot(subtrees[i])]

\* The first subtree the top tree cannot take: an empty one, whose nil root
\* hash is dereferenced, or one whose root is the placeholder, which AddNode
\* refuses.
CoinbaseProofOutcome ==
  LET refused == {i \in DOMAIN subtrees :
                    \/ subtrees[i] = << >>
                    \/ MerkleRoot(subtrees[i]) = CoinbasePlaceholder}
  IN  IF subtrees = << >> THEN "ErrNoSubtreesAvailable"
      ELSE IF subtrees[1] = << >> THEN "ErrIndexOutOfRange"
      ELSE IF refused = {} THEN "ok"
      ELSE IF subtrees[Min(refused)] = << >> THEN "panic"
      ELSE "ErrCoinbasePlaceholderMisuse"

\* Mutant: the two parts of the proof in the wrong order.
CoinbaseProofSwapped ==
  GetMerkleProof(topTree, 0) \o GetMerkleProof(subtrees[1], 0)

\* The path to the root of the first subtree, then the path above it.
GetMerkleProofForCoinbase ==
  GetMerkleProof(subtrees[1], 0) \o GetMerkleProof(topTree, 0)

-----------------------------------------------------------------------------
(* The reference: Bitcoin's merkle root, level by level, the last hash of  *)
(* an odd level paired with itself; and what a verifier does with a proof. *)

ParentLevel(s) ==
  IF Len(s) = 1 THEN s
  ELSE [i \in 1 .. (Len(s) + 1) \div 2 |->
          H(s[2 * i - 1], IF 2 * i <= Len(s) THEN s[2 * i] ELSE s[2 * i - 1])]

FlatRoot(s) ==
  LET level[k \in 0 .. Len(s)] == IF k = 0 THEN s ELSE ParentLevel(level[k - 1])
  IN  level[Len(s)][1]

ProvenRoot(leaf, index, proof) ==
  LET acc[j \in 0 .. Len(proof)] ==
        IF j = 0 THEN leaf
        ELSE IF (index \div 2^(j - 1)) % 2 = 0
             THEN H(acc[j - 1], proof[j])
             ELSE H(proof[j], acc[j - 1])
  IN  acc[Len(proof)]

-----------------------------------------------------------------------------
(* Properties.                                                             *)

\* The state is well formed: full subtrees, then at most one that is filling.
TypeOK ==
  /\ height \in 0 .. MaxHeight
  /\ \A i \in DOMAIN subtrees :
       /\ Range(subtrees[i]) \subseteq TxHashes \cup {CoinbasePlaceholder}
       /\ Len(subtrees[i]) <= 2^height
       /\ i < Len(subtrees) => Len(subtrees[i]) = 2^height

\* BuildMerkleTreeStoreFromBytes, which works in one padded array and treats
\* a zero hash as "absent", has as its last entry the Bitcoin merkle root of
\* the leaves, for every number of leaves and every pattern of equal leaves.
RootIsCanonical == leaves # << >> => MerkleRoot(leaves) = FlatRoot(leaves)

\* The siblings GetMerkleProof returns for any leaf of any subtree lead a
\* verifier from that leaf to the RootHash of the subtree.
ProofsVerify ==
  \A i \in DOMAIN subtrees : \A index \in 0 .. Len(subtrees[i]) - 1 :
    ProvenRoot(subtrees[i][index + 1], index, GetMerkleProof(subtrees[i], index))
      = MerkleRoot(subtrees[i])

\* RootHashPadded's promise: a merkle tree over the roots of two or more
\* subtrees, each lifted to the common height, has the same root as one tree
\* over all the leaves, however few leaves the last subtree holds.
PaddedRootsCompose ==
  (Len(subtrees) > 1 /\ Last(subtrees) # << >>) =>
    MerkleRoot([i \in DOMAIN subtrees |-> PaddedRoot(subtrees[i], height)])
      = FlatRoot(leaves)

\* Where GetMerkleProofForCoinbase returns a proof, the proof leads from the
\* first leaf to the merkle root of all the leaves.
CoinbaseProofVerifies ==
  CoinbaseProofOutcome = "ok" =>
    ProvenRoot(leaves[1], 0, GetMerkleProofForCoinbase) = FlatRoot(leaves)

\* What the code does guarantee: the coinbase proof leads to the root of the
\* whole block if the last subtree's own tree is as high as the others.
CoinbaseProofVerifiesIfLevel ==
  (/\ CoinbaseProofOutcome = "ok"
   /\ Len(subtrees) = 1 \/ NaturalHeight(Len(Last(subtrees))) = height)
  => ProvenRoot(leaves[1], 0, GetMerkleProofForCoinbase) = FlatRoot(leaves)
=============================================================================
