------------------------------ MODULE Subtree -------------------------------
(***************************************************************************)
(* One Subtree of subtree.go, used by one goroutine: the node list and the *)
(* four things derived from it that the code keeps by hand next to it (the *)
(* fee and size totals, the cached root hash, the lazily built index from  *)
(* transaction hash to position, the list of conflicting transactions).    *)
(* Every method that changes the receiver is an action; the ones that      *)
(* return a new Subtree (Duplicate, Serialize followed by                  *)
(* NewSubtreeFromBytes) are actions after which the caller works with the  *)
(* new object.                                                             *)
(***************************************************************************)
EXTENDS MerkleTree, FiniteSetsExt

CONSTANTS
  Txs,        \* the nodes callers add: records with Hash, Fee, SizeInBytes
  NULL,       \* Go's nil
  MaxHeight,  \* bound: NewTree is called with heights 0 .. MaxHeight
  MaxNodes,   \* bound: no call that would make the list longer is followed
  Word,       \* uint64 arithmetic is modulo Word (2^64 in the code)
  MaxReplaces \* bound: calls of ReplaceRootNode, each of which lets totals drift

Node == [Hash : Hash, Fee : Nat, SizeInBytes : Nat]

ASSUME SubtreeAssumption ==
  /\ Txs \subseteq Node
  /\ \A tx \in Txs : tx.Hash \notin {ZeroHash, CoinbasePlaceholder}
  /\ MaxHeight \in Nat
  /\ Word \in Nat \ {0}
  /\ MaxNodes \in Nat
  /\ MaxReplaces \in Nat

VARIABLES
  nodes,             \* st.Nodes
  capacity,          \* cap(st.Nodes)
  treeSize,          \* st.treeSize
  height,            \* st.Height
  fees,              \* st.Fees
  sizeInBytes,       \* st.SizeInBytes
  conflictingNodes,  \* st.ConflictingNodes
  rootHash,          \* st.rootHash: NULL, or the cached root
  nodeIndex,         \* st.nodeIndex: NULL, or position per hash, -1 for none
  replaces,          \* how often ReplaceRootNode was called
  last               \* the last call, and the error it returned or "panic"

subtree == <<nodes, capacity, treeSize, height, fees, sizeInBytes,
             conflictingNodes, rootHash, nodeIndex, replaces>>
vars == <<nodes, capacity, treeSize, height, fees, sizeInBytes,
          conflictingNodes, rootHash, nodeIndex, replaces, last>>

coinbaseNode == [Hash |-> CoinbasePlaceholder, Fee |-> 0, SizeInBytes |-> 0]

\* What callers pass to the methods that take a node, and the hashes they ask
\* for: the placeholder is a legal argument everywhere.
Inputs == Txs \cup {coinbaseNode}
Hashes == {node.Hash : node \in Inputs}

leafHashes == [i \in DOMAIN nodes |-> nodes[i].Hash]

\* The capacity append gives a full array: twice the old one, or 1.  (From 256
\* nodes on, Go's runtime grows by a quarter and rounds up to a size class; no
\* property depends on by how much.)
growslice(oldCap) == IF oldCap = 0 THEN 1 ELSE 2 * oldCap

-----------------------------------------------------------------------------
(* NewTree, NewTreeByLeafCount and NewIncompleteTreeByLeafCount.           *)

Init ==
  /\ height \in 0 .. MaxHeight
  /\ treeSize = 2^height
  /\ capacity = treeSize
  /\ nodes = << >>
  /\ fees = 0
  /\ sizeInBytes = 0
  /\ conflictingNodes = << >>
  /\ rootHash = NULL
  /\ nodeIndex = NULL
  /\ replaces = 0
  /\ last = [op |-> "NewTree", err |-> "nil"]

-----------------------------------------------------------------------------
(* Changing the node list.                                                 *)

returns(op, e) == last' = [op |-> op, err |-> e]

\* A return before anything was changed.
Fail(op, e) == returns(op, e) /\ UNCHANGED subtree

\* nodes = append(nodes, node)
appendNode(node) ==
  /\ Len(nodes) < MaxNodes
  /\ nodes' = Append(nodes, node)
  /\ capacity' = IF Len(nodes) < capacity THEN capacity ELSE growslice(capacity)

\* x += y and x -= y on uint64
add64(x, y) == (x + y) % Word

\* Mutants: signed arithmetic; a removed node's amount is not taken off.
subSigned(x, y) == x - y
subForgotten(x, y) == x

sub64(x, y) == (x - y) % Word

\* Mutant: the index is not told of the change.
indexUntouched(hash, position) == nodeIndex

\* The index, if there is one, with the entry of a hash set or (-1) deleted.
indexWith(hash, position) ==
  IF nodeIndex = NULL THEN NULL ELSE [nodeIndex EXCEPT ![hash] = position]

\* The common body of the three methods that add a transaction.
addNode(node) ==
  /\ appendNode(node)
  /\ rootHash' = NULL
  /\ fees' = add64(fees, node.Fee)
  /\ sizeInBytes' = add64(sizeInBytes, node.SizeInBytes)
  /\ nodeIndex' = indexWith(node.Hash, Len(nodes))
  /\ UNCHANGED <<treeSize, height, conflictingNodes, replaces>>

\* Mutant: one node too many.
fullLate == Len(nodes) > treeSize

full == Len(nodes) + 1 > treeSize

AddSubtreeNode(node) ==
  \/ full /\ Fail("AddSubtreeNode", "ErrSubtreeFull")
  \/ /\ ~full
     /\ node.Hash = CoinbasePlaceholder
     /\ Fail("AddSubtreeNode", "ErrCoinbasePlaceholderMisuse")
  \/ /\ ~full
     /\ node.Hash # CoinbasePlaceholder
     /\ addNode(node)
     /\ returns("AddSubtreeNode", "nil")

\* Mutant: the placeholder is not refused.
AddNodeUnchecked(node) ==
  \/ full /\ Fail("AddNode", "ErrSubtreeFull")
  \/ ~full /\ addNode(node) /\ returns("AddNode", "nil")

\* The same checks and the same effect as AddSubtreeNode, without its lock.
AddNode(node) ==
  \/ full /\ Fail("AddNode", "ErrSubtreeFull")
  \/ /\ ~full
     /\ node.Hash = CoinbasePlaceholder
     /\ Fail("AddNode", "ErrCoinbasePlaceholderMisuse")
  \/ /\ ~full
     /\ node.Hash # CoinbasePlaceholder
     /\ addNode(node)
     /\ returns("AddNode", "nil")

\* Does not refuse the coinbase placeholder.
AddSubtreeNodeWithoutLock(node) ==
  \/ full /\ Fail("AddSubtreeNodeWithoutLock", "ErrSubtreeFull")
  \/ ~full /\ addNode(node) /\ returns("AddSubtreeNodeWithoutLock", "nil")

\* Compares with no treeSize, and leaves an existing index alone.
AddCoinbaseNode ==
  \/ nodes # << >> /\ Fail("AddCoinbaseNode", "ErrSubtreeNotEmpty")
  \/ /\ nodes = << >>
     /\ appendNode(coinbaseNode)
     /\ rootHash' = NULL
     /\ fees' = 0
     /\ sizeInBytes' = 0
     /\ returns("AddCoinbaseNode", "nil")
     /\ UNCHANGED <<treeSize, height, conflictingNodes, nodeIndex, replaces>>

\* The nodes after the removed one move down; index entries of theirs do not.
RemoveNodeAtIndex(index) ==
  \/ index >= Len(nodes) /\ Fail("RemoveNodeAtIndex", "ErrIndexOutOfRange")
  \/ /\ index < Len(nodes)
     /\ LET removed == nodes[index + 1]
        IN  /\ fees' = sub64(fees, removed.Fee)
            /\ sizeInBytes' = sub64(sizeInBytes, removed.SizeInBytes)
            /\ nodeIndex' = indexWith(removed.Hash, -1)
     /\ nodes' = SubSeq(nodes, 1, index) \o SubSeq(nodes, index + 2, Len(nodes))
     /\ rootHash' = NULL
     /\ returns("RemoveNodeAtIndex", "nil")
     /\ UNCHANGED <<capacity, treeSize, height, conflictingNodes, replaces>>

\* Mutant: the cached root is not dropped before RootHash is called.
ReplaceRootNodeStale(node) ==
  /\ replaces < MaxReplaces
  /\ IF nodes = << >> THEN appendNode(node)
     ELSE nodes' = [nodes EXCEPT ![1] = node] /\ UNCHANGED capacity
  /\ sizeInBytes' = add64(sizeInBytes, node.SizeInBytes)
  /\ rootHash' = IF rootHash # NULL THEN rootHash ELSE MerkleRoot(leafHashes')
  /\ returns("ReplaceRootNode", "nil")
  /\ replaces' = replaces + 1
  /\ UNCHANGED <<treeSize, height, fees, conflictingNodes, nodeIndex>>

\* Leaves fees and index alone, adds the new size to the old total, and ends
\* by computing, and so caching, the root of the new list.
ReplaceRootNode(node) ==
  /\ replaces < MaxReplaces
  /\ IF nodes = << >> THEN appendNode(node)
     ELSE nodes' = [nodes EXCEPT ![1] = node] /\ UNCHANGED capacity
  /\ sizeInBytes' = add64(sizeInBytes, node.SizeInBytes)
  /\ rootHash' = MerkleRoot(leafHashes')
  /\ returns("ReplaceRootNode", "nil")
  /\ replaces' = replaces + 1
  /\ UNCHANGED <<treeSize, height, fees, conflictingNodes, nodeIndex>>

\* Mutant: a conflicting transaction may be listed twice.
AddConflictingNodeTwice(hash) ==
  LET found == \E i \in DOMAIN nodes : nodes[i].Hash = hash
  IN  \/ ~found /\ Fail("AddConflictingNode", "ErrConflictingNodeNotInSubtree")
      \/ /\ found
         /\ conflictingNodes' = Append(conflictingNodes, hash)
         /\ returns("AddConflictingNode", "nil")
         /\ UNCHANGED <<nodes, capacity, treeSize, height, fees, sizeInBytes,
                        rootHash, nodeIndex, replaces>>

\* Only transactions of the subtree are listed, each once.
AddConflictingNode(hash) ==
  LET found == \E i \in DOMAIN nodes : nodes[i].Hash = hash
      listed == \E i \in DOMAIN conflictingNodes : conflictingNodes[i] = hash
  IN  \/ ~found /\ Fail("AddConflictingNode", "ErrConflictingNodeNotInSubtree")
      \/ found /\ listed /\ Fail("AddConflictingNode", "nil")
      \/ /\ found /\ ~listed
         /\ conflictingNodes' = Append(conflictingNodes, hash)
         /\ returns("AddConflictingNode", "nil")
         /\ UNCHANGED <<nodes, capacity, treeSize, height, fees, sizeInBytes,
                        rootHash, nodeIndex, replaces>>

-----------------------------------------------------------------------------
(* Queries that fill a cache.                                              *)

\* What RootHash() returns; a root it had to compute is kept in rootHash.
rootHashValue ==
  IF rootHash # NULL THEN rootHash
  ELSE IF nodes = << >> THEN NULL
  ELSE MerkleRoot(leafHashes)

cacheRoot ==
  /\ rootHash' = rootHashValue
  /\ UNCHANGED <<nodes, capacity, treeSize, height, fees, sizeInBytes,
                 conflictingNodes, nodeIndex, replaces>>

RootHash == cacheRoot /\ returns("RootHash", "nil")

RootHashPadded(targetHeight) ==
  \/ nodes = << >> /\ Fail("RootHashPadded", "nil")
  \/ /\ nodes # << >>
     /\ targetHeight < NaturalHeight(Len(nodes))
     /\ Fail("RootHashPadded", "ErrTargetHeightTooSmall")
  \/ /\ nodes # << >>
     /\ targetHeight >= NaturalHeight(Len(nodes))
     /\ cacheRoot
     /\ returns("RootHashPadded", "nil")

\* Dereferences the nil root hash of an empty subtree.
Serialize ==
  \/ rootHashValue = NULL /\ Fail("Serialize", "panic")
  \/ rootHashValue # NULL /\ cacheRoot /\ returns("Serialize", "nil")

\* Mutant: the first of several nodes with the same hash wins.
firstPosition(at) ==
  IF at = {} THEN -1 ELSE (CHOOSE i \in at : \A j \in at : j >= i) - 1

\* The last of several nodes with the same hash wins.
lastPosition(at) ==
  IF at = {} THEN -1 ELSE (CHOOSE i \in at : \A j \in at : j <= i) - 1

positionOf(list, hash) == lastPosition({i \in DOMAIN list : list[i].Hash = hash})

\* The index after NodeIndex(hash): built from the list if there is none.
builtIndex ==
  IF nodeIndex = NULL THEN [hash \in Hashes |-> positionOf(nodes, hash)]
  ELSE nodeIndex

buildIndex ==
  /\ nodeIndex' = builtIndex
  /\ UNCHANGED <<nodes, capacity, treeSize, height, fees, sizeInBytes,
                 conflictingNodes, rootHash, replaces>>

\* NodeIndex and HasNode: the answer is nodeIndex'[hash].
NodeIndex == buildIndex /\ returns("NodeIndex", "nil")

\* The answer is the node at nodeIndex'[hash]; a position past the end panics.
GetNode(hash) ==
  /\ buildIndex
  /\ returns("GetNode", IF nodeIndex'[hash] = -1 THEN "ErrNodeNotFound"
                        ELSE IF nodeIndex'[hash] >= Len(nodes) THEN "panic"
                        ELSE "nil")

IsComplete == Len(nodes) = capacity

-----------------------------------------------------------------------------
(* Copies.                                                                 *)

\* Work goes on with the copy: as many nodes as capacity, and no index.
Duplicate ==
  /\ capacity' = Len(nodes)
  /\ nodeIndex' = NULL
  /\ returns("Duplicate", "nil")
  /\ UNCHANGED <<nodes, treeSize, height, fees, sizeInBytes, conflictingNodes,
                 rootHash, replaces>>

\* Mutant: the two totals are written in the other order.
serializedSwapped ==
  <<rootHashValue, sizeInBytes, fees, Len(nodes)>> \o nodes
    \o <<Len(conflictingNodes)>> \o conflictingNodes

\* The fields Serialize writes, in order; a node is one 48-byte field.
serialized ==
  <<rootHashValue, fees, sizeInBytes, Len(nodes)>> \o nodes
    \o <<Len(conflictingNodes)>> \o conflictingNodes

\* NewSubtreeFromBytes(b) for a complete b.
deserialize(b) ==
  LET numLeaves == b[4]
      numConflictingLeaves == b[5 + numLeaves]
  IN  /\ rootHash' = b[1]
      /\ fees' = b[2]
      /\ sizeInBytes' = b[3]
      /\ treeSize' = numLeaves
      /\ height' = Log2Ceil(numLeaves)
      /\ nodes' = SubSeq(b, 5, 4 + numLeaves)
      /\ capacity' = numLeaves
      /\ conflictingNodes' =
           SubSeq(b, 6 + numLeaves, 5 + numLeaves + numConflictingLeaves)
      /\ nodeIndex' = NULL
      /\ UNCHANGED replaces

\* The transaction hashes without the rest.
SerializeNodes == leafHashes

\* The node hashes read from as much of Serialize's fields as b holds; NULL is
\* an error.
DeserializeNodesFromReader(b) ==
  IF Len(b) < 4 \/ Len(b) < 4 + b[4] THEN NULL
  ELSE [i \in 1 .. b[4] |-> b[4 + i].Hash]

\* Mutant: the list of conflicting nodes may end early.
DeserializeSubtreeConflictingEarly(b) ==
  LET rest == SubSeq(b, 4, Len(b))
      counted == IF rest = << >> THEN << >> ELSE SubSeq(rest, 2 + rest[1], Len(rest))
  IN  IF counted = << >> THEN NULL ELSE Tail(counted)

\* The conflicting hashes read from b.  The header and the nodes are skipped
\* with Discard, whose error is ignored: nothing is left to read then.
DeserializeSubtreeConflictingFromReader(b) ==
  LET rest == SubSeq(b, 4, Len(b))
      counted == IF rest = << >> THEN << >> ELSE SubSeq(rest, 2 + rest[1], Len(rest))
  IN  IF counted = << >> \/ Len(counted) < 1 + counted[1] THEN NULL
      ELSE SubSeq(counted, 2, 1 + counted[1])

\* Work goes on with what NewSubtreeFromBytes makes of Serialize's bytes.
Reload ==
  /\ rootHashValue # NULL
  /\ deserialize(serialized)
  /\ returns("Reload", "nil")

-----------------------------------------------------------------------------
Next ==
  \/ \E node \in Inputs :
       \/ AddSubtreeNode(node)
       \/ AddNode(node)
       \/ AddSubtreeNodeWithoutLock(node)
       \/ ReplaceRootNode(node)
  \/ AddCoinbaseNode
  \/ \E index \in 0 .. Len(nodes) : RemoveNodeAtIndex(index)
  \/ \E hash \in Hashes : AddConflictingNode(hash) \/ GetNode(hash)
  \/ RootHash
  \/ \E targetHeight \in 0 .. MaxHeight : RootHashPadded(targetHeight)
  \/ NodeIndex
  \/ Serialize
  \/ Duplicate
  \/ Reload

Spec == Init /\ [][Next]_vars

-----------------------------------------------------------------------------
(* Properties.                                                             *)

Calls == {"NewTree", "AddSubtreeNode", "AddNode", "AddSubtreeNodeWithoutLock",
          "AddCoinbaseNode", "RemoveNodeAtIndex", "ReplaceRootNode",
          "AddConflictingNode", "RootHash", "RootHashPadded", "Serialize",
          "NodeIndex", "GetNode", "Duplicate", "Reload"}

Errors == {"nil", "panic", "ErrSubtreeFull", "ErrCoinbasePlaceholderMisuse",
           "ErrSubtreeNotEmpty", "ErrIndexOutOfRange", "ErrNodeNotFound",
           "ErrConflictingNodeNotInSubtree", "ErrTargetHeightTooSmall"}

\* The fields have their types; the list fits its backing array.
TypeOK ==
  /\ nodes \in Seq(Inputs)
  /\ capacity \in Nat
  /\ Len(nodes) <= capacity
  /\ treeSize \in Nat
  /\ height \in Nat
  /\ fees \in 0 .. Word - 1
  /\ sizeInBytes \in 0 .. Word - 1
  /\ conflictingNodes \in Seq(Hashes)
  /\ nodeIndex = NULL \/ nodeIndex \in [Hashes -> Nat \cup {-1}]
  /\ replaces \in 0 .. MaxReplaces
  /\ last \in [op : Calls, err : Errors]

\* A cached root is the root of the list as it is now: every method that
\* changes the list drops or recomputes the cache, and every copy carries it
\* over only with the list it belongs to.
RootCacheFresh ==
  rootHash # NULL => nodes # << >> /\ rootHash = MerkleRoot(leafHashes)

\* No sequence of calls, AddCoinbaseNode and ReplaceRootNode without a check
\* of their own included, makes a list longer than the size of the tree:
\* neither a new tree nor one read back has room for no node at all.
WithinTreeSize == 1 <= treeSize /\ Len(nodes) <= treeSize

\* The size a tree accepts nodes up to never exceeds what its height allows,
\* although Duplicate and NewSubtreeFromBytes derive the two independently.
FitsHeight == treeSize <= 2^height

\* The fee total is the sum of the nodes' fees, as far as a word holds it.
FeesMatch == fees = MapThenSumSet(LAMBDA i : nodes[i].Fee, DOMAIN nodes) % Word

\* Only ReplaceRootNode, which leaves the total alone, lets the fees that
\* Serialize writes differ from the fees of the nodes.
FeesKept ==
  [][FeesMatch => FeesMatch' \/ last'.op = "ReplaceRootNode"]_vars

\* RemoveNodeAtIndex does not shift the entries of the nodes that move down,
\* so an entry may point too far, but never too low: no copy of a hash that
\* has an entry stands after the position the entry gives.
IndexNeverUndershoots ==
  nodeIndex # NULL =>
    \A hash \in Hashes : \A i \in DOMAIN nodes :
      nodes[i].Hash = hash /\ nodeIndex[hash] # -1 => i - 1 <= nodeIndex[hash]

\* The inductive invariant of the proofs.
IInv == TypeOK /\ RootCacheFresh /\ WithinTreeSize /\ IndexNeverUndershoots

\* NodeIndex, HasNode and GetNode answer from an index that agrees with the
\* list.
IndexExact ==
  nodeIndex # NULL => \A hash \in Hashes : nodeIndex[hash] = positionOf(nodes, hash)

\* Removing the last node, if its hash is in the list once.
removesLast(index) ==
  /\ index = Len(nodes) - 1
  /\ \A i \in 1 .. Len(nodes) - 1 : nodes[i].Hash # nodes[Len(nodes)].Hash

\* An exact index stays exact, except across the three methods that move or
\* overwrite nodes without telling it.
IndexKept ==
  [][IndexExact =>
       \/ IndexExact'
       \/ last'.op \in {"ReplaceRootNode", "AddCoinbaseNode"}
       \/ \E index \in 0 .. Len(nodes) :
            RemoveNodeAtIndex(index) /\ ~removesLast(index)]_vars

\* Every conflicting transaction is a node of the subtree, listed once.
ConflictsPresent ==
  /\ \A i \in DOMAIN conflictingNodes :
       \E j \in DOMAIN nodes : nodes[j].Hash = conflictingNodes[i]
  /\ \A i, j \in DOMAIN conflictingNodes :
       conflictingNodes[i] = conflictingNodes[j] => i = j

\* Only the methods that take a node out of the list leave its hash behind in
\* ConflictingNodes.
ConflictsKept ==
  [][ConflictsPresent =>
       ConflictsPresent' \/ last'.op \in {"ReplaceRootNode", "RemoveNodeAtIndex"}]_vars

\* The coinbase placeholder stands nowhere but in front.
PlaceholderFirst ==
  \A i \in DOMAIN nodes : nodes[i].Hash = CoinbasePlaceholder => i = 1

\* Of all the methods, only the one without the check can put it elsewhere.
PlaceholderKept ==
  [][PlaceholderFirst =>
       PlaceholderFirst' \/ last'.op = "AddSubtreeNodeWithoutLock"]_vars

\* A subtree read back from its own bytes has the same nodes, totals and
\* conflicting transactions, in the same order, and the root RootHash gives.
ReloadFaithful ==
  [][last'.op = "Reload" =>
               /\ nodes' = nodes
               /\ fees' = fees
               /\ sizeInBytes' = sizeInBytes
               /\ conflictingNodes' = conflictingNodes
               /\ rootHash' = rootHashValue]_vars

\* The two functions that read only a part of Serialize's bytes, one of them
\* without looking at errors on its way, give what the subtree holds, and give
\* an error if and only if the stream ends before that part does.
PartialReadsAgree ==
  rootHashValue # NULL =>
    LET b == serialized
    IN  \A n \in 0 .. Len(b) :
          LET prefix == SubSeq(b, 1, n)
          IN  /\ DeserializeNodesFromReader(prefix) =
                   IF n < 4 + Len(nodes) THEN NULL ELSE SerializeNodes
              /\ DeserializeSubtreeConflictingFromReader(prefix) =
                   IF n < Len(b) THEN NULL ELSE conflictingNodes

\* The comment on IsComplete: complete means the number of nodes that the
\* height defines.
CompleteMeansFull == IsComplete <=> Len(nodes) = 2^height

\* The comment on GetNode: where the index has an entry for a hash, the node
\* at that position is there and has that hash.
GetNodeFindsTheNode ==
  nodeIndex # NULL =>
    \A hash \in Hashes :
      nodeIndex[hash] # -1 =>
        /\ nodeIndex[hash] < Len(nodes)
        /\ nodes[nodeIndex[hash] + 1].Hash = hash
=============================================================================
