--------------------------- MODULE SubtreeProofs ----------------------------
(***************************************************************************)
(* What Subtree and Meta promise, proved for every set of transactions,    *)
(* every height, every word size and every bound.  IInv is inductive: its  *)
(* parts are TypeOK, RootCacheFresh, WithinTreeSize (which AddCoinbaseNode *)
(* and ReplaceRootNode need, as they do not look at treeSize before they   *)
(* add to an empty list) and IndexNeverUndershoots.  One lemma per method  *)
(* shows that the method preserves it.  The action properties follow from  *)
(* IInv and a second analysis of the methods; the one on the fee total     *)
(* also needs what appending and removing a node do to a sum over the      *)
(* positions of a list.  The last part is about Meta and has an invariant  *)
(* of its own, MetaInv.                                                    *)
(***************************************************************************)
EXTENDS SubtreeMeta, CommonLemmas

\* The nodes callers pass in have hashes, and fees and sizes that are numbers.
LEMMA InputFacts ==
  /\ coinbaseNode \in Inputs
  /\ \A node \in Inputs :
       node.Hash \in Hashes /\ node.Fee \in Nat /\ node.SizeInBytes \in Nat
BY SubtreeAssumption DEF Inputs, Hashes, Node, coinbaseNode

\* uint64 arithmetic stays within the word.
LEMMA ModRange == \A x \in Int : x % Word \in 0 .. Word - 1
BY SubtreeAssumption

\* What the loop of NodeIndex finds for a hash: -1 if no node has it, and
\* otherwise the position of the last node that does.
LEMMA PositionFacts ==
  ASSUME NEW S, NEW list \in Seq(S), NEW hash
  PROVE  /\ positionOf(list, hash) \in Nat \cup {-1}
         /\ \A i \in DOMAIN list :
              list[i].Hash = hash => i - 1 <= positionOf(list, hash)
<1> DEFINE at == {i \in DOMAIN list : list[i].Hash = hash}
           top == CHOOSE i \in at : \A j \in at : j <= i
<1>1. Len(list) \in Nat /\ DOMAIN list = 1 .. Len(list)
  OBVIOUS
<1>2. CASE at = {}
  BY <1>1, <1>2 DEF positionOf, lastPosition
<1>3. CASE at # {}
  <2>1. at \in SUBSET (1 .. Len(list))
    BY <1>1
  <2>2. \E i \in at : \A j \in at : j <= i
    <3> HIDE DEF at
    <3> QED BY <1>1, <1>3, <2>1, MaxExists
  <2>3. top \in at /\ \A j \in at : j <= top
    BY <2>2
  <2>4. positionOf(list, hash) = top - 1
    BY <1>3 DEF positionOf, lastPosition
  <2> HIDE DEF top
  <2> QED BY <1>1, <2>1, <2>3, <2>4
<1> QED BY <1>2, <1>3

\* A node with the hash, after which no other has it, is the one NodeIndex
\* finds.
LEMMA PositionIs ==
  ASSUME NEW S, NEW list \in Seq(S), NEW hash,
         NEW i \in 1 .. Len(list), list[i].Hash = hash,
         \A j \in 1 .. Len(list) : list[j].Hash = hash => j <= i
  PROVE  positionOf(list, hash) = i - 1
<1> DEFINE at == {j \in DOMAIN list : list[j].Hash = hash}
           top == CHOOSE j \in at : \A k \in at : k <= j
<1>1. DOMAIN list = 1 .. Len(list) /\ at \subseteq Int
  OBVIOUS
<1>2. i \in at /\ \A j \in at : j <= i
  BY <1>1
<1>3. top \in at /\ \A j \in at : j <= top
  BY <1>2
<1>4. positionOf(list, hash) = top - 1
  BY <1>2 DEF positionOf, lastPosition
<1>5. top = i
  <2> HIDE DEF at, top
  <2> QED BY <1>1, <1>2, <1>3
<1> QED BY <1>4, <1>5

\* The position NodeIndex finds is that of a node with the hash.
LEMMA PositionHit ==
  ASSUME NEW S, NEW list \in Seq(S), NEW hash, positionOf(list, hash) # -1
  PROVE  /\ positionOf(list, hash) \in 0 .. Len(list) - 1
         /\ positionOf(list, hash) + 1 \in 1 .. Len(list)
         /\ list[positionOf(list, hash) + 1].Hash = hash
<1> DEFINE at == {i \in DOMAIN list : list[i].Hash = hash}
           top == CHOOSE i \in at : \A j \in at : j <= i
<1>1. Len(list) \in Nat /\ DOMAIN list = 1 .. Len(list)
  OBVIOUS
<1>2. at # {}
  BY DEF positionOf, lastPosition
<1>3. at \in SUBSET (1 .. Len(list))
  BY <1>1
<1>4. \E i \in at : \A j \in at : j <= i
  <2> HIDE DEF at
  <2> QED BY <1>1, <1>2, <1>3, MaxExists
<1>5. top \in at
  BY <1>4
<1>6. positionOf(list, hash) = top - 1
  BY <1>2 DEF positionOf, lastPosition
<1>7. top \in 1 .. Len(list) /\ list[top].Hash = hash
  BY <1>1, <1>5
<1> HIDE DEF top, at
<1>8. positionOf(list, hash) + 1 = top
  BY <1>6, <1>7
<1> QED BY <1>1, <1>6, <1>7, <1>8

\* Lists in which the same positions have the hash give the same answer.
LEMMA PositionSame ==
  ASSUME NEW s, NEW t, NEW hash,
         {i \in DOMAIN s : s[i].Hash = hash} = {i \in DOMAIN t : t[i].Hash = hash}
  PROVE  positionOf(s, hash) = positionOf(t, hash)
BY DEF positionOf

\* Every method returns one of the listed errors.
LEMMA ReturnsType ==
  ASSUME NEW op \in Calls, NEW e \in Errors, returns(op, e)
  PROVE  last' \in [op : Calls, err : Errors]
BY DEF returns

\* A tree fresh from NewTree satisfies the invariant.
LEMMA InitIInv == Init => IInv
<1> SUFFICES ASSUME Init PROVE IInv
  OBVIOUS
<1>1. nodes = << >> /\ nodes \in Seq(Inputs) /\ Len(nodes) = 0
  BY DEF Init
<1>2. 2^height \in Nat /\ 2^height >= 1
  <2>1. height \in Nat
    BY SubtreeAssumption DEF Init
  <2> QED BY <2>1, PowerType
<1>3. TypeOK
  BY <1>1, <1>2, SubtreeAssumption DEF Init, TypeOK, Calls, Errors
<1>4. RootCacheFresh /\ IndexNeverUndershoots
  BY DEF Init, RootCacheFresh, IndexNeverUndershoots
<1>5. WithinTreeSize
  BY <1>1, <1>2 DEF Init, WithinTreeSize
<1> QED BY <1>3, <1>4, <1>5 DEF IInv

\* An early return of a method changes nothing.
LEMMA FailKeepsIInv ==
  ASSUME IInv, NEW op \in Calls, NEW e \in Errors, Fail(op, e)
  PROVE  IInv'
BY ReturnsType DEF IInv, TypeOK, RootCacheFresh, WithinTreeSize, IndexNeverUndershoots,
       leafHashes, Fail, subtree

\* append(nodes, node): the list is one longer, the old nodes are where they
\* were, and the backing array is large enough.
LEMMA AppendFacts ==
  ASSUME TypeOK, NEW node \in Inputs, appendNode(node)
  PROVE  /\ nodes' \in Seq(Inputs)
         /\ Len(nodes') = Len(nodes) + 1
         /\ \A i \in 1 .. Len(nodes) : nodes'[i] = nodes[i]
         /\ nodes'[Len(nodes) + 1] = node
         /\ capacity' \in Nat
         /\ Len(nodes') <= capacity'
BY DEF TypeOK, appendNode, growslice

\* The common body of AddSubtreeNode, AddNode and AddSubtreeNodeWithoutLock
\* preserves the invariant when the tree is not full.
LEMMA AddNodeKeepsIInv ==
  ASSUME IInv, NEW node \in Inputs, ~full, addNode(node),
         last' \in [op : Calls, err : Errors]
  PROVE  IInv'
<1>1. TypeOK
  BY DEF IInv
<1>2. /\ nodes' \in Seq(Inputs)
      /\ Len(nodes') = Len(nodes) + 1
      /\ \A i \in 1 .. Len(nodes) : nodes'[i] = nodes[i]
      /\ nodes'[Len(nodes) + 1] = node
      /\ capacity' \in Nat
      /\ Len(nodes') <= capacity'
  BY <1>1, AppendFacts DEF addNode
<1>3. fees' \in 0 .. Word - 1 /\ sizeInBytes' \in 0 .. Word - 1
  <2>1. fees + node.Fee \in Int /\ sizeInBytes + node.SizeInBytes \in Int
    BY <1>1, InputFacts, SubtreeAssumption DEF TypeOK
  <2> QED BY <2>1, ModRange DEF addNode, add64
<1>4. nodeIndex' = NULL \/ nodeIndex' \in [Hashes -> Nat \cup {-1}]
  BY <1>1, InputFacts DEF addNode, indexWith, TypeOK
<1>5. TypeOK'
  BY <1>1, <1>2, <1>3, <1>4 DEF addNode, TypeOK
<1>6. RootCacheFresh'
  BY DEF addNode, RootCacheFresh
<1>7. WithinTreeSize'
  BY <1>1, <1>2 DEF addNode, full, IInv, WithinTreeSize, TypeOK
<1>8. IndexNeverUndershoots'
  <2> SUFFICES ASSUME nodeIndex' # NULL,
                      NEW hash \in Hashes, NEW i \in DOMAIN nodes',
                      nodes'[i].Hash = hash, nodeIndex'[hash] # -1
               PROVE  i - 1 <= nodeIndex'[hash]
    BY DEF IndexNeverUndershoots
  <2>1. Len(nodes) \in Nat /\ i \in 1 .. Len(nodes) + 1
    BY <1>1, <1>2 DEF TypeOK
  <2>2. /\ nodeIndex # NULL
        /\ nodeIndex \in [Hashes -> Nat \cup {-1}]
        /\ nodeIndex' = [nodeIndex EXCEPT ![node.Hash] = Len(nodes)]
    BY <1>1 DEF addNode, indexWith, TypeOK
  <2>3. CASE hash = node.Hash
    BY <2>1, <2>2, <2>3
  <2>4. CASE hash # node.Hash
    <3>1. i \in DOMAIN nodes /\ nodes'[i] = nodes[i]
      BY <1>1, <1>2, <2>1, <2>4 DEF TypeOK
    <3>2. nodeIndex'[hash] = nodeIndex[hash]
      BY <2>2, <2>4
    <3> QED BY <2>2, <3>1, <3>2 DEF IInv, IndexNeverUndershoots
  <2> QED BY <2>3, <2>4
<1> QED BY <1>5, <1>6, <1>7, <1>8 DEF IInv

\* AddCoinbaseNode preserves the invariant: it adds to an empty list only, and
\* every tree has room for one node.
LEMMA AddCoinbaseNodeKeepsIInv ==
  ASSUME IInv, AddCoinbaseNode
  PROVE  IInv'
<1>1. CASE Fail("AddCoinbaseNode", "ErrSubtreeNotEmpty")
  BY <1>1, FailKeepsIInv DEF Calls, Errors
<1>2. CASE nodes = << >> /\ ~Fail("AddCoinbaseNode", "ErrSubtreeNotEmpty")
  <2>1. TypeOK
    BY DEF IInv
  <2>2. /\ nodes' \in Seq(Inputs)
        /\ Len(nodes') = Len(nodes) + 1
        /\ capacity' \in Nat
        /\ Len(nodes') <= capacity'
    BY <1>2, <2>1, InputFacts, AppendFacts DEF AddCoinbaseNode
  <2>3. Len(nodes') = 1
    BY <1>2, <2>2
  <2>4. TypeOK'
    BY <1>2, <2>1, <2>2, SubtreeAssumption, ReturnsType
       DEF AddCoinbaseNode, TypeOK, Calls, Errors
  <2>5. RootCacheFresh'
    BY <1>2 DEF AddCoinbaseNode, RootCacheFresh
  <2>6. WithinTreeSize'
    BY <1>2, <2>3 DEF AddCoinbaseNode, IInv, WithinTreeSize
  <2>7. IndexNeverUndershoots'
    BY <1>2, <2>1, <2>2, <2>3 DEF AddCoinbaseNode, IndexNeverUndershoots, TypeOK
  <2> QED BY <2>4, <2>5, <2>6, <2>7 DEF IInv
<1> QED BY <1>1, <1>2 DEF AddCoinbaseNode

\* RemoveNodeAtIndex preserves the invariant: nodes move down, so entries it
\* leaves alone can only point further than before.
LEMMA RemoveNodeAtIndexKeepsIInv ==
  ASSUME IInv, NEW index \in 0 .. Len(nodes), RemoveNodeAtIndex(index)
  PROVE  IInv'
<1>1. TypeOK /\ Len(nodes) \in Nat
  BY DEF IInv, TypeOK
<1>2. CASE index >= Len(nodes)
  <2>1. ~(index < Len(nodes))
    BY <1>1, <1>2
  <2>2. Fail("RemoveNodeAtIndex", "ErrIndexOutOfRange")
    BY <2>1, Zenon DEF RemoveNodeAtIndex
  <2> QED BY <2>2, FailKeepsIInv DEF Calls, Errors
<1>3. CASE index < Len(nodes)
  <2> DEFINE removed == nodes[index + 1]
  <2>1. /\ fees' = sub64(fees, removed.Fee)
        /\ sizeInBytes' = sub64(sizeInBytes, removed.SizeInBytes)
        /\ nodeIndex' = indexWith(removed.Hash, -1)
        /\ rootHash' = NULL
        /\ returns("RemoveNodeAtIndex", "nil")
        /\ UNCHANGED <<capacity, treeSize, height, conflictingNodes, replaces>>
    <3>1. ~(index >= Len(nodes))
      BY <1>1, <1>3
    <3> QED BY <3>1, Zenon DEF RemoveNodeAtIndex
  <2>2. removed \in Inputs
    BY <1>1, <1>3 DEF TypeOK
  <2>3. /\ nodes' \in Seq(Inputs)
        /\ Len(nodes') = Len(nodes) - 1
        /\ \A i \in 1 .. Len(nodes') :
             nodes'[i] = IF i <= index THEN nodes[i] ELSE nodes[i + 1]
    <3>1. nodes \in Seq(Inputs) /\ index \in 0 .. Len(nodes) - 1
      BY <1>1, <1>3 DEF TypeOK
    <3>2. ~(index >= Len(nodes))
      BY <1>1, <1>3
    <3>3. nodes' = SubSeq(nodes, 1, index) \o SubSeq(nodes, index + 2, Len(nodes))
      BY <3>2, Zenon DEF RemoveNodeAtIndex
    <3> QED BY <3>1, <3>3, RemoveLemma, Zenon
  <2> HIDE DEF removed
  <2>4. fees' \in 0 .. Word - 1 /\ sizeInBytes' \in 0 .. Word - 1
    <3>1. fees - removed.Fee \in Int /\ sizeInBytes - removed.SizeInBytes \in Int
      BY <1>1, <2>2, InputFacts, SubtreeAssumption DEF TypeOK
    <3> QED BY <2>1, <3>1, ModRange DEF sub64
  <2>5. nodeIndex' = NULL \/ nodeIndex' \in [Hashes -> Nat \cup {-1}]
    BY <1>1, <2>1, <2>2, InputFacts DEF indexWith, TypeOK
  <2>6. TypeOK'
    BY <1>1, <2>1, <2>3, <2>4, <2>5, ReturnsType DEF TypeOK, Calls, Errors
  <2>7. RootCacheFresh'
    BY <2>1 DEF RootCacheFresh
  <2>8. WithinTreeSize'
    BY <1>1, <2>1, <2>3 DEF IInv, WithinTreeSize, TypeOK
  <2>9. IndexNeverUndershoots'
    <3> SUFFICES ASSUME nodeIndex' # NULL,
                        NEW hash \in Hashes, NEW i \in DOMAIN nodes',
                        nodes'[i].Hash = hash, nodeIndex'[hash] # -1
                 PROVE  i - 1 <= nodeIndex'[hash]
      BY DEF IndexNeverUndershoots
    <3>1. i \in 1 .. Len(nodes) - 1 /\ DOMAIN nodes = 1 .. Len(nodes)
      BY <1>1, <2>3 DEF TypeOK
    <3>2. /\ nodeIndex # NULL
          /\ nodeIndex \in [Hashes -> Nat \cup {-1}]
          /\ nodeIndex'[hash] = nodeIndex[hash]
      BY <1>1, <2>1 DEF indexWith, TypeOK
    <3> DEFINE k == IF i <= index THEN i ELSE i + 1
    <3>a. k \in DOMAIN nodes /\ i <= k
      BY <1>1, <3>1
    <3>b. nodes'[i] = nodes[k]
      BY <2>3, <3>1
    <3>3. PICK j \in DOMAIN nodes : i <= j /\ nodes[j].Hash = hash
      <4> HIDE DEF k
      <4> QED BY <3>a, <3>b
    <3>4. j - 1 <= nodeIndex[hash]
      BY <3>2, <3>3 DEF IInv, IndexNeverUndershoots
    <3> QED BY <3>1, <3>2, <3>3, <3>4
  <2> QED BY <2>6, <2>7, <2>8, <2>9 DEF IInv
<1> QED BY <1>1, <1>2, <1>3

\* ReplaceRootNode preserves the invariant: the root it caches is that of the
\* new list, and a node at position 0 is never after an entry.
LEMMA ReplaceRootNodeKeepsIInv ==
  ASSUME IInv, NEW node \in Inputs, ReplaceRootNode(node)
  PROVE  IInv'
<1>1. TypeOK /\ Len(nodes) \in Nat
  BY DEF IInv, TypeOK
<1>2. /\ nodes' \in Seq(Inputs)
      /\ Len(nodes') = IF nodes = << >> THEN 1 ELSE Len(nodes)
      /\ \A i \in 1 .. Len(nodes') : i # 1 => nodes'[i] = nodes[i]
      /\ capacity' \in Nat
      /\ Len(nodes') <= capacity'
  <2>1. CASE nodes = << >>
    BY <1>1, <2>1, AppendFacts DEF ReplaceRootNode
  <2>2. CASE nodes # << >>
    <3>1. nodes' = [nodes EXCEPT ![1] = node] /\ capacity' = capacity
      BY <2>2 DEF ReplaceRootNode
    <3> QED BY <1>1, <2>2, <3>1 DEF TypeOK
  <2> QED BY <2>1, <2>2
<1>3. sizeInBytes' \in 0 .. Word - 1
  <2>1. sizeInBytes + node.SizeInBytes \in Int
    BY <1>1, InputFacts, SubtreeAssumption DEF TypeOK
  <2> QED BY <2>1, ModRange DEF ReplaceRootNode, add64
<1>4. TypeOK'
  BY <1>1, <1>2, <1>3, SubtreeAssumption, ReturnsType
     DEF ReplaceRootNode, TypeOK, Calls, Errors
<1>5. RootCacheFresh'
  <2>1. nodes' # << >>
    BY <1>1, <1>2
  <2> QED BY <2>1, Zenon DEF ReplaceRootNode, RootCacheFresh
<1>6. WithinTreeSize'
  BY <1>1, <1>2 DEF ReplaceRootNode, IInv, WithinTreeSize, TypeOK
<1>7. IndexNeverUndershoots'
  <2> SUFFICES ASSUME nodeIndex' # NULL,
                      NEW hash \in Hashes, NEW i \in DOMAIN nodes',
                      nodes'[i].Hash = hash, nodeIndex'[hash] # -1
               PROVE  i - 1 <= nodeIndex'[hash]
    BY DEF IndexNeverUndershoots
  <2>1. nodeIndex' = nodeIndex /\ nodeIndex \in [Hashes -> Nat \cup {-1}]
    BY <1>1 DEF ReplaceRootNode, TypeOK
  <2>2. i \in 1 .. Len(nodes')
    BY <1>2
  <2>3. CASE i = 1
    BY <2>1, <2>3
  <2>4. CASE i # 1
    <3>1. i \in DOMAIN nodes /\ nodes[i].Hash = hash
      BY <1>1, <1>2, <2>2, <2>4 DEF TypeOK
    <3> QED BY <2>1, <3>1 DEF IInv, IndexNeverUndershoots
  <2> QED BY <2>3, <2>4
<1> QED BY <1>4, <1>5, <1>6, <1>7 DEF IInv

\* AddConflictingNode preserves the invariant.
LEMMA AddConflictingNodeKeepsIInv ==
  ASSUME IInv, NEW hash \in Hashes, AddConflictingNode(hash)
  PROVE  IInv'
<1>1. CASE \/ Fail("AddConflictingNode", "ErrConflictingNodeNotInSubtree")
           \/ Fail("AddConflictingNode", "nil")
  BY <1>1, FailKeepsIInv DEF Calls, Errors
<1>2. CASE /\ conflictingNodes' = Append(conflictingNodes, hash)
           /\ returns("AddConflictingNode", "nil")
           /\ UNCHANGED <<nodes, capacity, treeSize, height, fees, sizeInBytes,
                          rootHash, nodeIndex, replaces>>
  <2>1. conflictingNodes' \in Seq(Hashes)
    BY <1>2 DEF IInv, TypeOK
  <2> QED BY <1>2, <2>1, ReturnsType
          DEF IInv, TypeOK, RootCacheFresh, WithinTreeSize,
              IndexNeverUndershoots, leafHashes, Calls, Errors
<1> QED BY <1>1, <1>2, Zenon DEF AddConflictingNode

\* RootHash, and the methods that call it, cache the root of the list.
LEMMA CacheRootKeepsIInv ==
  ASSUME IInv, cacheRoot, last' \in [op : Calls, err : Errors]
  PROVE  IInv'
<1>1. TypeOK' /\ WithinTreeSize' /\ IndexNeverUndershoots'
  BY DEF IInv, TypeOK, WithinTreeSize, IndexNeverUndershoots, cacheRoot
<1>2. RootCacheFresh'
  BY DEF IInv, RootCacheFresh, cacheRoot, rootHashValue, leafHashes
<1> QED BY <1>1, <1>2 DEF IInv

\* NodeIndex, and GetNode which calls it, build an index that points at the
\* last node of each hash.
LEMMA BuildIndexKeepsIInv ==
  ASSUME IInv, buildIndex, last' \in [op : Calls, err : Errors]
  PROVE  IInv'
<1>1. TypeOK
  BY DEF IInv
<1>2. CASE nodeIndex # NULL
  BY <1>2 DEF IInv, TypeOK, RootCacheFresh, WithinTreeSize,
              IndexNeverUndershoots, leafHashes, buildIndex, builtIndex
<1>3. CASE nodeIndex = NULL
  <2>1. nodeIndex' = [hash \in Hashes |-> positionOf(nodes, hash)]
    BY <1>3 DEF buildIndex, builtIndex
  <2>2. nodeIndex' \in [Hashes -> Nat \cup {-1}]
    BY <1>1, <2>1, PositionFacts DEF TypeOK
  <2>3. TypeOK' /\ WithinTreeSize' /\ RootCacheFresh'
    BY <2>2 DEF IInv, TypeOK, WithinTreeSize, RootCacheFresh, leafHashes, buildIndex
  <2>4. IndexNeverUndershoots'
    BY <1>1, <2>1, PositionFacts DEF IndexNeverUndershoots, buildIndex, TypeOK
  <2> QED BY <2>3, <2>4 DEF IInv
<1> QED BY <1>2, <1>3

\* Duplicate copies the cached root together with the list it is the root of.
LEMMA DuplicateKeepsIInv ==
  ASSUME IInv, Duplicate
  PROVE  IInv'
<1>1. Len(nodes) \in Nat
  BY DEF IInv, TypeOK
<1> QED BY <1>1, ReturnsType
        DEF IInv, TypeOK, RootCacheFresh, WithinTreeSize, IndexNeverUndershoots,
            leafHashes, Duplicate, Calls, Errors

\* The fields that Serialize writes, by position.
LEMMA SerializedFacts ==
  ASSUME IInv, NEW b, b = serialized
  PROVE  /\ \E U : b \in Seq(U)
         /\ Len(b) = 5 + Len(nodes) + Len(conflictingNodes)
         /\ b[1] = rootHashValue /\ b[2] = fees /\ b[3] = sizeInBytes
         /\ b[4] = Len(nodes)
         /\ \A i \in 1 .. Len(nodes) : b[4 + i] = nodes[i]
         /\ SubSeq(b, 5, 4 + Len(nodes)) = nodes
         /\ b[5 + Len(nodes)] = Len(conflictingNodes)
         /\ \A i \in 1 .. Len(conflictingNodes) :
              b[5 + Len(nodes) + i] = conflictingNodes[i]
         /\ SubSeq(b, 6 + Len(nodes), 5 + Len(nodes) + Len(conflictingNodes))
              = conflictingNodes
<1> DEFINE U == Inputs \cup Hashes \cup
                {rootHashValue, fees, sizeInBytes, Len(nodes), Len(conflictingNodes)}
<1>1. nodes \in Seq(U) /\ conflictingNodes \in Seq(U)
  <2>1. nodes \in Seq(Inputs) /\ conflictingNodes \in Seq(Hashes)
    BY DEF IInv, TypeOK
  <2>2. Inputs \subseteq U /\ Hashes \subseteq U
    OBVIOUS
  <2> HIDE DEF U
  <2> QED BY <2>1, <2>2, SeqMonotonic, Zenon
<1>2. /\ rootHashValue \in U /\ fees \in U /\ sizeInBytes \in U
      /\ Len(nodes) \in U /\ Len(conflictingNodes) \in U
  OBVIOUS
<1> HIDE DEF U
<1>3. b = <<rootHashValue, fees, sizeInBytes, Len(nodes)>> \o nodes
            \o <<Len(conflictingNodes)>> \o conflictingNodes
  BY DEF serialized
<1>4. /\ b \in Seq(U)
      /\ Len(b) = 5 + Len(nodes) + Len(conflictingNodes)
  BY <1>1, <1>2, <1>3, SMT
<1>5. /\ b[1] = rootHashValue /\ b[2] = fees /\ b[3] = sizeInBytes
      /\ b[4] = Len(nodes)
      /\ SubSeq(b, 5, 4 + Len(nodes)) = nodes
      /\ b[5 + Len(nodes)] = Len(conflictingNodes)
      /\ SubSeq(b, 6 + Len(nodes), 5 + Len(nodes) + Len(conflictingNodes))
           = conflictingNodes
  BY <1>1, <1>2, <1>3, SMT
<1>6. \A i \in 1 .. Len(nodes) : b[4 + i] = nodes[i]
  BY <1>1, <1>2, <1>3, SMT
<1>7. \A i \in 1 .. Len(conflictingNodes) : b[5 + Len(nodes) + i] = conflictingNodes[i]
  BY <1>1, <1>2, <1>3, SMT
<1> QED BY <1>4, <1>5, <1>6, <1>7

\* NewSubtreeFromBytes finds each field of Serialize's bytes where it was put.
LEMMA ReloadFacts ==
  ASSUME IInv, Reload
  PROVE  /\ nodes # << >>
         /\ nodes' = nodes
         /\ fees' = fees
         /\ sizeInBytes' = sizeInBytes
         /\ conflictingNodes' = conflictingNodes
         /\ rootHash' = rootHashValue
         /\ capacity' = Len(nodes)
         /\ treeSize' = Len(nodes)
         /\ height' = Log2Ceil(Len(nodes))
         /\ nodeIndex' = NULL
         /\ replaces' = replaces
         /\ returns("Reload", "nil")
<1> DEFINE b == serialized
<1>1. /\ b[1] = rootHashValue /\ b[2] = fees /\ b[3] = sizeInBytes
      /\ b[4] = Len(nodes)
      /\ SubSeq(b, 5, 4 + Len(nodes)) = nodes
      /\ b[5 + Len(nodes)] = Len(conflictingNodes)
      /\ SubSeq(b, 6 + Len(nodes), 5 + Len(nodes) + Len(conflictingNodes))
           = conflictingNodes
  BY SerializedFacts
<1>2. deserialize(b) /\ rootHashValue # NULL /\ returns("Reload", "nil")
  BY DEF Reload
<1>3. nodes # << >>
  BY <1>2 DEF IInv, RootCacheFresh, rootHashValue
<1> QED BY <1>1, <1>2, <1>3, Zenon DEF deserialize

\* A tree read back satisfies the invariant: the size it is given is the number
\* of its nodes, which is not 0 since an empty tree cannot be serialized.
LEMMA ReloadKeepsIInv ==
  ASSUME IInv, Reload
  PROVE  IInv'
<1>1. Len(nodes) \in Nat /\ nodes \in Seq(Inputs)
  BY DEF IInv, TypeOK
<1>2. Len(nodes) >= 1
  BY <1>1, ReloadFacts
<1>3. height' \in Nat
  BY <1>1, <1>2, ReloadFacts, Log2CeilLemma
<1>4. TypeOK'
  BY <1>1, <1>3, ReloadFacts, ReturnsType DEF IInv, TypeOK, Calls, Errors
<1>5. WithinTreeSize' /\ IndexNeverUndershoots'
  BY <1>1, <1>2, ReloadFacts DEF WithinTreeSize, IndexNeverUndershoots
<1>6. RootCacheFresh'
  BY ReloadFacts DEF IInv, RootCacheFresh, rootHashValue, leafHashes
<1> QED BY <1>4, <1>5, <1>6 DEF IInv

\* Every method preserves the invariant.
LEMMA StepKeepsIInv == IInv /\ [Next]_vars => IInv'
<1> SUFFICES ASSUME IInv, [Next]_vars PROVE IInv'
  OBVIOUS
<1>1. CASE UNCHANGED vars
  BY <1>1 DEF IInv, TypeOK, RootCacheFresh, WithinTreeSize,
              IndexNeverUndershoots, leafHashes, vars
<1>2. ASSUME NEW node \in Inputs, AddSubtreeNode(node) \/ AddNode(node)
      PROVE  IInv'
  BY <1>2, FailKeepsIInv, AddNodeKeepsIInv, ReturnsType, Zenon
     DEF AddSubtreeNode, AddNode, Calls, Errors
<1>3. ASSUME NEW node \in Inputs, AddSubtreeNodeWithoutLock(node)
      PROVE  IInv'
  BY <1>3, FailKeepsIInv, AddNodeKeepsIInv, ReturnsType, Zenon
     DEF AddSubtreeNodeWithoutLock, Calls, Errors
<1>4. ASSUME NEW node \in Inputs, ReplaceRootNode(node)
      PROVE  IInv'
  BY <1>4, ReplaceRootNodeKeepsIInv
<1>5. CASE AddCoinbaseNode
  BY <1>5, AddCoinbaseNodeKeepsIInv
<1>6. ASSUME NEW index \in 0 .. Len(nodes), RemoveNodeAtIndex(index)
      PROVE  IInv'
  BY <1>6, RemoveNodeAtIndexKeepsIInv
<1>7. ASSUME NEW hash \in Hashes, AddConflictingNode(hash)
      PROVE  IInv'
  BY <1>7, AddConflictingNodeKeepsIInv
<1>8. ASSUME NEW hash \in Hashes, GetNode(hash)
      PROVE  IInv'
  BY <1>8, BuildIndexKeepsIInv, ReturnsType DEF GetNode, Calls, Errors
<1>9. CASE RootHash
  BY <1>9, CacheRootKeepsIInv, ReturnsType DEF RootHash, Calls, Errors
<1>10. ASSUME NEW targetHeight \in 0 .. MaxHeight, RootHashPadded(targetHeight)
       PROVE  IInv'
  BY <1>10, FailKeepsIInv, CacheRootKeepsIInv, ReturnsType, Zenon
     DEF RootHashPadded, Calls, Errors
<1>11. CASE NodeIndex
  BY <1>11, BuildIndexKeepsIInv, ReturnsType DEF NodeIndex, Calls, Errors
<1>12. CASE Serialize
  BY <1>12, FailKeepsIInv, CacheRootKeepsIInv, ReturnsType, Zenon
     DEF Serialize, Calls, Errors
<1>13. CASE Duplicate
  BY <1>13, DuplicateKeepsIInv
<1>14. CASE Reload
  BY <1>14, ReloadKeepsIInv
<1> QED BY <1>1, <1>2, <1>3, <1>4, <1>5, <1>6, <1>7, <1>8, <1>9, <1>10, <1>11,
           <1>12, <1>13, <1>14, Zenon DEF Next

\* Every reachable Subtree satisfies the inductive invariant.
THEOREM Invariance == Spec => []IInv
BY InitIInv, StepKeepsIInv, PTL DEF Spec

\* The fields always have their types, totals stay within a word, and the list
\* fits its backing array.
THEOREM TypeCorrect == Spec => []TypeOK
<1>1. IInv => TypeOK
  BY DEF IInv
<1> QED BY <1>1, Invariance, PTL

\* The root hash that RootHash, RootHashPadded and Serialize answer from the
\* cache is always that of the list as it is now.
THEOREM RootCacheAlwaysFresh == Spec => []RootCacheFresh
<1>1. IInv => RootCacheFresh
  BY DEF IInv
<1> QED BY <1>1, Invariance, PTL

\* No sequence of calls, those of AddCoinbaseNode and ReplaceRootNode included,
\* makes the list longer than treeSize.
THEOREM AlwaysWithinTreeSize == Spec => []WithinTreeSize
<1>1. IInv => WithinTreeSize
  BY DEF IInv
<1> QED BY <1>1, Invariance, PTL

\* An entry of the index never points before a node with its hash, whatever
\* RemoveNodeAtIndex and ReplaceRootNode do to the list.
THEOREM IndexNeverTooLow == Spec => []IndexNeverUndershoots
<1>1. IInv => IndexNeverUndershoots
  BY DEF IInv
<1> QED BY <1>1, Invariance, PTL

\* No other method reports itself as a reload.
LEMMA OnlyReload ==
  ASSUME [Next]_vars, last'.op = "Reload", ~UNCHANGED vars
  PROVE  Reload
<1>1. /\ \A op, e : op # "Reload" => ~Fail(op, e) /\ ~returns(op, e)
  BY DEF Fail, returns
<1> QED BY <1>1, Zenon
        DEF Next, AddSubtreeNode, AddNode, AddSubtreeNodeWithoutLock,
            ReplaceRootNode, AddCoinbaseNode, RemoveNodeAtIndex,
            AddConflictingNode, GetNode, RootHash, RootHashPadded, NodeIndex,
            Serialize, Duplicate

\* NewSubtreeFromBytes of Serialize's bytes gives the same nodes, totals,
\* conflicting transactions and root hash.
THEOREM ReloadIsFaithful == Spec => ReloadFaithful
<1>1. IInv /\ [Next]_vars =>
        [last'.op = "Reload" =>
           /\ nodes' = nodes
           /\ fees' = fees
           /\ sizeInBytes' = sizeInBytes
           /\ conflictingNodes' = conflictingNodes
           /\ rootHash' = rootHashValue]_vars
  BY OnlyReload, ReloadFacts
<1> QED BY <1>1, Invariance, PTL DEF Spec, ReloadFaithful

-----------------------------------------------------------------------------
\* The common body of the three methods that add a transaction keeps an exact
\* index exact, also when the hash is in the list already.
LEMMA AddNodeKeepsIndex ==
  ASSUME TypeOK, IndexExact, NEW node \in Inputs, addNode(node)
  PROVE  IndexExact'
<1> SUFFICES ASSUME nodeIndex' # NULL, NEW hash \in Hashes
             PROVE  nodeIndex'[hash] = positionOf(nodes', hash)
  BY DEF IndexExact
<1>1. /\ nodes' \in Seq(Inputs)
      /\ Len(nodes') = Len(nodes) + 1
      /\ \A i \in 1 .. Len(nodes) : nodes'[i] = nodes[i]
      /\ nodes'[Len(nodes) + 1] = node
  BY AppendFacts DEF addNode
<1>2. Len(nodes) \in Nat /\ nodes \in Seq(Inputs)
  BY DEF TypeOK
<1>3. /\ nodeIndex # NULL
      /\ nodeIndex \in [Hashes -> Nat \cup {-1}]
      /\ nodeIndex' = [nodeIndex EXCEPT ![node.Hash] = Len(nodes)]
  BY DEF addNode, indexWith, TypeOK
<1>4. CASE hash = node.Hash
  <2>1. positionOf(nodes', hash) = (Len(nodes) + 1) - 1
    BY <1>1, <1>2, <1>4, PositionIs
  <2> QED BY <1>2, <1>3, <1>4, <2>1
<1>5. CASE hash # node.Hash
  <2>1. {i \in DOMAIN nodes' : nodes'[i].Hash = hash}
          = {i \in DOMAIN nodes : nodes[i].Hash = hash}
    BY <1>1, <1>2, <1>5
  <2>2. positionOf(nodes', hash) = positionOf(nodes, hash)
    BY <2>1, PositionSame, Zenon
  <2> QED BY <1>3, <1>5, <2>2 DEF IndexExact
<1> QED BY <1>4, <1>5

\* Removing the last node, if its hash is nowhere else, keeps an exact index
\* exact.
LEMMA RemoveLastKeepsIndex ==
  ASSUME TypeOK, IndexExact, NEW index \in 0 .. Len(nodes),
         RemoveNodeAtIndex(index), index < Len(nodes), removesLast(index)
  PROVE  IndexExact'
<1> SUFFICES ASSUME nodeIndex' # NULL, NEW hash \in Hashes
             PROVE  nodeIndex'[hash] = positionOf(nodes', hash)
  BY DEF IndexExact
<1>1. Len(nodes) \in Nat /\ nodes \in Seq(Inputs) /\ index = Len(nodes) - 1
  BY DEF TypeOK, removesLast
<1>2. ~(index >= Len(nodes))
  BY <1>1
<1>3. nodes' = SubSeq(nodes, 1, index) \o SubSeq(nodes, index + 2, Len(nodes))
  BY <1>2, Zenon DEF RemoveNodeAtIndex
<1>4. nodeIndex' = indexWith(nodes[index + 1].Hash, -1)
  BY <1>2, Zenon DEF RemoveNodeAtIndex
<1>5. /\ nodes' \in Seq(Inputs)
      /\ Len(nodes') = Len(nodes) - 1
      /\ \A i \in 1 .. Len(nodes') :
           nodes'[i] = IF i <= index THEN nodes[i] ELSE nodes[i + 1]
  <2>1. nodes \in Seq(Inputs) /\ index \in 0 .. Len(nodes) - 1
    BY <1>1
  <2> QED BY <1>3, <2>1, RemoveLemma, Zenon
<1>6. \A i \in 1 .. Len(nodes) - 1 : nodes'[i] = nodes[i]
  BY <1>1, <1>5
<1>7. nodes[index + 1] = nodes[Len(nodes)] /\ nodes[Len(nodes)] \in Inputs
  BY <1>1, <1>2
<1>8. CASE hash = nodes[Len(nodes)].Hash
  <2>1. {i \in DOMAIN nodes' : nodes'[i].Hash = hash} = {}
    BY <1>1, <1>5, <1>6, <1>8 DEF removesLast
  <2>2. positionOf(nodes', hash) = -1
    BY <2>1 DEF positionOf, lastPosition
  <2> QED BY <1>4, <1>7, <1>8, <2>2 DEF indexWith, TypeOK
<1>9. CASE hash # nodes[Len(nodes)].Hash
  <2>1. {i \in DOMAIN nodes' : nodes'[i].Hash = hash}
          = {i \in DOMAIN nodes : nodes[i].Hash = hash}
    <3>1. DOMAIN nodes = 1 .. Len(nodes) /\ DOMAIN nodes' = 1 .. Len(nodes) - 1
      BY <1>1, <1>5
    <3> QED BY <1>1, <1>6, <1>9, <3>1
  <2>2. positionOf(nodes', hash) = positionOf(nodes, hash)
    BY <2>1, PositionSame, Zenon
  <2>3. nodeIndex # NULL /\ nodeIndex'[hash] = nodeIndex[hash]
    BY <1>4, <1>7, <1>9 DEF indexWith, TypeOK
  <2> QED BY <2>2, <2>3 DEF IndexExact
<1> QED BY <1>8, <1>9

\* Every step keeps an exact index exact, but for ReplaceRootNode,
\* AddCoinbaseNode and a RemoveNodeAtIndex that moves nodes or drops the entry
\* of a node that stays.
LEMMA StepKeepsIndex ==
  IInv /\ [Next]_vars =>
    (IndexExact => \/ IndexExact'
                   \/ last'.op \in {"ReplaceRootNode", "AddCoinbaseNode"}
                   \/ \E index \in 0 .. Len(nodes) :
                        RemoveNodeAtIndex(index) /\ ~removesLast(index))
<1> SUFFICES ASSUME IInv, [Next]_vars, IndexExact,
                    last'.op \notin {"ReplaceRootNode", "AddCoinbaseNode"},
                    \A index \in 0 .. Len(nodes) :
                      RemoveNodeAtIndex(index) => removesLast(index)
             PROVE  IndexExact'
  BY Zenon
<1>1. TypeOK
  BY DEF IInv
<1>2. ASSUME UNCHANGED <<nodes, nodeIndex>> PROVE IndexExact'
  BY <1>2 DEF IndexExact
<1>3. ASSUME NEW op, NEW e, Fail(op, e) PROVE IndexExact'
  BY <1>2, <1>3 DEF Fail, subtree
<1>4. ASSUME NEW node \in Inputs,
             AddSubtreeNode(node) \/ AddNode(node) \/ AddSubtreeNodeWithoutLock(node)
      PROVE  IndexExact'
  BY <1>1, <1>3, <1>4, AddNodeKeepsIndex, Zenon
     DEF AddSubtreeNode, AddNode, AddSubtreeNodeWithoutLock
<1>5. ASSUME NEW index \in 0 .. Len(nodes), RemoveNodeAtIndex(index)
      PROVE  IndexExact'
  <2>1. CASE index < Len(nodes)
    BY <1>1, <1>5, <2>1, RemoveLastKeepsIndex
  <2>2. CASE ~(index < Len(nodes))
    BY <1>3, <1>5, <2>2, Zenon DEF RemoveNodeAtIndex
  <2> QED BY <2>1, <2>2
<1>6. ASSUME NEW hash \in Hashes, AddConflictingNode(hash) PROVE IndexExact'
  BY <1>2, <1>3, <1>6, Zenon DEF AddConflictingNode
<1>7. ASSUME cacheRoot PROVE IndexExact'
  BY <1>2, <1>7 DEF cacheRoot
<1>8. ASSUME buildIndex PROVE IndexExact'
  BY <1>8 DEF buildIndex, builtIndex, IndexExact
<1>9. ASSUME Duplicate \/ Reload PROVE IndexExact'
  BY <1>9, ReloadFacts DEF Duplicate, IndexExact
<1>10. ASSUME NEW targetHeight \in 0 .. MaxHeight, RootHashPadded(targetHeight)
       PROVE  IndexExact'
  BY <1>3, <1>7, <1>10, Zenon DEF RootHashPadded
<1>11. ASSUME RootHash \/ Serialize PROVE IndexExact'
  BY <1>3, <1>7, <1>11, Zenon DEF RootHash, Serialize
<1>12. ASSUME UNCHANGED vars PROVE IndexExact'
  BY <1>2, <1>12 DEF vars
<1>13. ~AddCoinbaseNode /\ \A node \in Inputs : ~ReplaceRootNode(node)
  BY DEF AddCoinbaseNode, ReplaceRootNode, Fail, returns
<1> QED BY <1>4, <1>5, <1>6, <1>8, <1>9, <1>10, <1>11, <1>12, <1>13, Zenon
        DEF Next, NodeIndex, GetNode

\* Once NodeIndex answers from an index that agrees with the list, only those
\* three methods can make it disagree.
THEOREM IndexStaysExact == Spec => IndexKept
BY StepKeepsIndex, Invariance, PTL DEF Spec, IndexKept

\* As long as the index agrees with the list, GetNode finds the node it was asked
\* for, as its comment says: the two can part only in the steps that IndexKept
\* names.
THEOREM GetNodeRightWhileExact == Spec => [](IndexExact => GetNodeFindsTheNode)
<1>1. IInv => (IndexExact => GetNodeFindsTheNode)
  <2> SUFFICES ASSUME IInv, IndexExact, nodeIndex # NULL,
                      NEW hash \in Hashes, nodeIndex[hash] # -1
               PROVE  /\ nodeIndex[hash] < Len(nodes)
                      /\ nodes[nodeIndex[hash] + 1].Hash = hash
    BY DEF GetNodeFindsTheNode
  <2>1. nodes \in Seq(Inputs) /\ Len(nodes) \in Nat
    BY DEF IInv, TypeOK
  <2>2. nodeIndex[hash] = positionOf(nodes, hash) /\ positionOf(nodes, hash) # -1
    BY DEF IndexExact
  <2>3. /\ positionOf(nodes, hash) \in 0 .. Len(nodes) - 1
        /\ nodes[positionOf(nodes, hash) + 1].Hash = hash
    BY <2>1, <2>2, PositionHit
  <2> QED BY <2>1, <2>2, <2>3
<1> QED BY <1>1, Invariance, PTL

-----------------------------------------------------------------------------
\* Every step but AddSubtreeNodeWithoutLock keeps the coinbase placeholder in
\* front, RemoveNodeAtIndex and ReplaceRootNode included.
LEMMA StepKeepsPlaceholder ==
  IInv /\ [Next]_vars =>
    (PlaceholderFirst =>
       PlaceholderFirst' \/ last'.op = "AddSubtreeNodeWithoutLock")
<1> SUFFICES ASSUME IInv, [Next]_vars, PlaceholderFirst,
                    last'.op # "AddSubtreeNodeWithoutLock"
             PROVE  PlaceholderFirst'
  OBVIOUS
<1>1. TypeOK /\ nodes \in Seq(Inputs) /\ Len(nodes) \in Nat
  BY DEF IInv, TypeOK
<1>2. ASSUME UNCHANGED nodes PROVE PlaceholderFirst'
  BY <1>2 DEF PlaceholderFirst
<1>3. ASSUME NEW op, NEW e, Fail(op, e) PROVE PlaceholderFirst'
  BY <1>2, <1>3 DEF Fail, subtree
<1>4. ASSUME NEW node \in Inputs, node.Hash # CoinbasePlaceholder, addNode(node)
      PROVE  PlaceholderFirst'
  <2>1. /\ nodes' \in Seq(Inputs)
        /\ Len(nodes') = Len(nodes) + 1
        /\ \A i \in 1 .. Len(nodes) : nodes'[i] = nodes[i]
        /\ nodes'[Len(nodes) + 1] = node
    BY <1>1, <1>4, AppendFacts DEF addNode
  <2> QED BY <1>1, <1>4, <2>1 DEF PlaceholderFirst
<1>5. ASSUME NEW node \in Inputs, AddSubtreeNode(node) \/ AddNode(node)
      PROVE  PlaceholderFirst'
  BY <1>3, <1>4, <1>5, Zenon DEF AddSubtreeNode, AddNode
<1>6. ASSUME NEW node \in Inputs, AddSubtreeNodeWithoutLock(node)
      PROVE  FALSE
  BY <1>6 DEF AddSubtreeNodeWithoutLock, Fail, returns
<1>7. ASSUME NEW node \in Inputs, ReplaceRootNode(node)
      PROVE  PlaceholderFirst'
  <2>1. CASE nodes = << >>
    <3>1. nodes' \in Seq(Inputs) /\ Len(nodes') = Len(nodes) + 1
      BY <1>1, <1>7, <2>1, AppendFacts DEF ReplaceRootNode
    <3> QED BY <2>1, <3>1 DEF PlaceholderFirst
  <2>2. CASE nodes # << >>
    <3>1. nodes' = [nodes EXCEPT ![1] = node]
      BY <1>7, <2>2 DEF ReplaceRootNode
    <3> QED BY <1>1, <2>2, <3>1 DEF PlaceholderFirst
  <2> QED BY <2>1, <2>2
<1>8. ASSUME AddCoinbaseNode PROVE PlaceholderFirst'
  <2>1. CASE Fail("AddCoinbaseNode", "ErrSubtreeNotEmpty")
    BY <1>3, <2>1
  <2>2. CASE nodes = << >> /\ appendNode(coinbaseNode)
    <3>1. nodes' \in Seq(Inputs) /\ Len(nodes') = Len(nodes) + 1
      BY <1>1, <2>2, InputFacts, AppendFacts
    <3> QED BY <2>2, <3>1 DEF PlaceholderFirst
  <2> QED BY <1>8, <2>1, <2>2 DEF AddCoinbaseNode
<1>9. ASSUME NEW index \in 0 .. Len(nodes), RemoveNodeAtIndex(index)
      PROVE  PlaceholderFirst'
  <2>1. CASE Fail("RemoveNodeAtIndex", "ErrIndexOutOfRange")
    BY <1>3, <2>1
  <2>2. CASE /\ index < Len(nodes)
             /\ nodes' = SubSeq(nodes, 1, index) \o SubSeq(nodes, index + 2, Len(nodes))
    <3>1. index \in 0 .. Len(nodes) - 1
      BY <1>1, <2>2
    <3>2. /\ nodes' \in Seq(Inputs)
          /\ Len(nodes') = Len(nodes) - 1
          /\ \A i \in 1 .. Len(nodes') :
               nodes'[i] = IF i <= index THEN nodes[i] ELSE nodes[i + 1]
      BY <1>1, <2>2, <3>1, RemoveLemma, Zenon
    <3> SUFFICES ASSUME NEW i \in DOMAIN nodes', nodes'[i].Hash = CoinbasePlaceholder
                 PROVE  i = 1
      BY DEF PlaceholderFirst
    <3>3. i \in 1 .. Len(nodes) - 1 /\ DOMAIN nodes = 1 .. Len(nodes)
      BY <1>1, <3>2
    <3>4. PICK j \in DOMAIN nodes : i <= j /\ nodes[j].Hash = CoinbasePlaceholder
      <4>1. i \in DOMAIN nodes /\ i + 1 \in DOMAIN nodes /\ i <= i /\ i <= i + 1
        BY <1>1, <3>3
      <4>2. i \in 1 .. Len(nodes')
        BY <3>2, <3>3
      <4>3. nodes'[i] = nodes[i] \/ nodes'[i] = nodes[i + 1]
        BY <3>2, <4>2, Zenon
      <4> QED BY <4>1, <4>3, Zenon
    <3>5. j = 1
      BY <3>4 DEF PlaceholderFirst
    <3> QED BY <3>3, <3>4, <3>5
  <2> QED BY <1>9, <2>1, <2>2, Zenon DEF RemoveNodeAtIndex
<1>10. ASSUME NEW hash \in Hashes, AddConflictingNode(hash) PROVE PlaceholderFirst'
  <2>1. CASE UNCHANGED nodes
    BY <1>2, <2>1
  <2> QED BY <1>3, <1>10, <2>1 DEF AddConflictingNode
<1>11. ASSUME cacheRoot \/ buildIndex \/ Duplicate PROVE PlaceholderFirst'
  BY <1>2, <1>11 DEF cacheRoot, buildIndex, Duplicate
<1>12. ASSUME Reload PROVE PlaceholderFirst'
  BY <1>2, <1>12, ReloadFacts
<1>13. ASSUME NEW targetHeight \in 0 .. MaxHeight, RootHashPadded(targetHeight)
       PROVE  PlaceholderFirst'
  BY <1>3, <1>11, <1>13, Zenon DEF RootHashPadded
<1>14. ASSUME UNCHANGED vars PROVE PlaceholderFirst'
  BY <1>2, <1>14 DEF vars
<1> QED BY <1>3, <1>5, <1>6, <1>7, <1>8, <1>9, <1>10, <1>11, <1>12, <1>13, <1>14,
           Zenon DEF Next, RootHash, Serialize, NodeIndex, GetNode

\* Only AddSubtreeNodeWithoutLock, which does not refuse the placeholder, can
\* put it anywhere but in front.
THEOREM PlaceholderStaysFirst == Spec => PlaceholderKept
BY StepKeepsPlaceholder, Invariance, PTL DEF Spec, PlaceholderKept

-----------------------------------------------------------------------------
\* Only Reload changes the size or the height.
LEMMA SizeFixed ==
  ASSUME [Next]_vars, ~Reload
  PROVE  treeSize' = treeSize /\ height' = height
<1>1. ASSUME NEW op, NEW e, Fail(op, e) PROVE treeSize' = treeSize /\ height' = height
  BY <1>1 DEF Fail, subtree
<1>2. ASSUME NEW node, addNode(node) PROVE treeSize' = treeSize /\ height' = height
  BY <1>2 DEF addNode
<1>3. ASSUME cacheRoot \/ buildIndex \/ Duplicate
      PROVE  treeSize' = treeSize /\ height' = height
  BY <1>3 DEF cacheRoot, buildIndex, Duplicate
<1>4. ASSUME NEW node \in Inputs,
             \/ AddSubtreeNode(node) \/ AddNode(node)
             \/ AddSubtreeNodeWithoutLock(node) \/ ReplaceRootNode(node)
      PROVE  treeSize' = treeSize /\ height' = height
  BY <1>1, <1>2, <1>4, Zenon
     DEF AddSubtreeNode, AddNode, AddSubtreeNodeWithoutLock, ReplaceRootNode
<1>5. ASSUME NEW index \in 0 .. Len(nodes), RemoveNodeAtIndex(index)
      PROVE  treeSize' = treeSize /\ height' = height
  BY <1>1, <1>5, Zenon DEF RemoveNodeAtIndex
<1>6. ASSUME AddCoinbaseNode PROVE treeSize' = treeSize /\ height' = height
  BY <1>1, <1>6, Zenon DEF AddCoinbaseNode
<1>7. ASSUME NEW hash \in Hashes, AddConflictingNode(hash) \/ GetNode(hash)
      PROVE  treeSize' = treeSize /\ height' = height
  BY <1>1, <1>3, <1>7, Zenon DEF AddConflictingNode, GetNode
<1>8. ASSUME NEW targetHeight \in 0 .. MaxHeight, RootHashPadded(targetHeight)
      PROVE  treeSize' = treeSize /\ height' = height
  BY <1>1, <1>3, <1>8, Zenon DEF RootHashPadded
<1>9. ASSUME UNCHANGED vars PROVE treeSize' = treeSize /\ height' = height
  BY <1>9 DEF vars
<1> QED BY <1>1, <1>3, <1>4, <1>5, <1>6, <1>7, <1>8, <1>9, Zenon
        DEF Next, RootHash, NodeIndex, Serialize

\* The size a tree accepts nodes up to never exceeds what its height allows: the
\* height that NewSubtreeFromBytes computes with math.Log2 is large enough for
\* the number of nodes it takes as the size.
THEOREM SizeFitsHeight == Spec => []FitsHeight
<1>1. Init => FitsHeight
  <2> SUFFICES ASSUME Init PROVE FitsHeight
    OBVIOUS
  <2>1. height \in Nat /\ treeSize = 2^height
    BY SubtreeAssumption DEF Init
  <2>2. 2^height \in Nat
    BY <2>1, PowerType
  <2> QED BY <2>1, <2>2 DEF FitsHeight
<1>2. IInv /\ FitsHeight /\ [Next]_vars => FitsHeight'
  <2> SUFFICES ASSUME IInv, FitsHeight, [Next]_vars PROVE FitsHeight'
    OBVIOUS
  <2>1. CASE Reload
    <3>1. /\ treeSize' = Len(nodes) /\ height' = Log2Ceil(Len(nodes))
          /\ nodes # << >> /\ nodes \in Seq(Inputs)
      BY <2>1, ReloadFacts DEF IInv, TypeOK
    <3>2. Len(nodes) \in Nat /\ Len(nodes) >= 1
      BY <3>1
    <3>3. Len(nodes) <= 2^Log2Ceil(Len(nodes))
      BY <3>2, Log2CeilLemma
    <3> QED BY <3>1, <3>3 DEF FitsHeight
  <2>2. CASE ~Reload
    BY <2>2, SizeFixed DEF FitsHeight
  <2> QED BY <2>1, <2>2
<1> QED BY <1>1, <1>2, Invariance, PTL DEF Spec

-----------------------------------------------------------------------------
\* Every step but ReplaceRootNode and RemoveNodeAtIndex, which take a node out of
\* the list, keeps each conflicting transaction in the list, and listed once.
LEMMA StepKeepsConflicts ==
  IInv /\ [Next]_vars =>
    (ConflictsPresent =>
       ConflictsPresent' \/ last'.op \in {"ReplaceRootNode", "RemoveNodeAtIndex"})
<1> SUFFICES ASSUME IInv, [Next]_vars, ConflictsPresent,
                    last'.op \notin {"ReplaceRootNode", "RemoveNodeAtIndex"}
             PROVE  ConflictsPresent'
  OBVIOUS
<1>1. /\ TypeOK /\ nodes \in Seq(Inputs) /\ Len(nodes) \in Nat
      /\ conflictingNodes \in Seq(Hashes)
  BY DEF IInv, TypeOK
<1>2. ASSUME UNCHANGED <<nodes, conflictingNodes>> PROVE ConflictsPresent'
  BY <1>2 DEF ConflictsPresent
<1>3. ASSUME NEW op, NEW e, Fail(op, e) PROVE ConflictsPresent'
  BY <1>2, <1>3 DEF Fail, subtree
<1>4. ASSUME NEW node \in Inputs, appendNode(node), UNCHANGED conflictingNodes
      PROVE  ConflictsPresent'
  <2>1. /\ nodes' \in Seq(Inputs)
        /\ Len(nodes') = Len(nodes) + 1
        /\ \A i \in 1 .. Len(nodes) : nodes'[i] = nodes[i]
    BY <1>1, <1>4, AppendFacts
  <2>2. \A j \in DOMAIN nodes : j \in DOMAIN nodes' /\ nodes'[j] = nodes[j]
    BY <1>1, <2>1
  <2> QED BY <1>4, <2>2 DEF ConflictsPresent
<1>5. ASSUME NEW node \in Inputs,
             AddSubtreeNode(node) \/ AddNode(node) \/ AddSubtreeNodeWithoutLock(node)
      PROVE  ConflictsPresent'
  BY <1>3, <1>4, <1>5, Zenon
     DEF AddSubtreeNode, AddNode, AddSubtreeNodeWithoutLock, addNode
<1>6. ASSUME NEW node \in Inputs, ReplaceRootNode(node) PROVE FALSE
  BY <1>6 DEF ReplaceRootNode, returns
<1>7. ASSUME NEW index \in 0 .. Len(nodes), RemoveNodeAtIndex(index) PROVE FALSE
  <2>1. \E e : last' = [op |-> "RemoveNodeAtIndex", err |-> e]
    BY <1>7, Zenon DEF RemoveNodeAtIndex, Fail, returns
  <2> QED BY <2>1
<1>8. ASSUME AddCoinbaseNode PROVE ConflictsPresent'
  BY <1>3, <1>4, <1>8, InputFacts, Zenon DEF AddCoinbaseNode
<1>9. ASSUME NEW hash \in Hashes, AddConflictingNode(hash) PROVE ConflictsPresent'
  <2>1. CASE /\ \E i \in DOMAIN nodes : nodes[i].Hash = hash
             /\ ~\E i \in DOMAIN conflictingNodes : conflictingNodes[i] = hash
             /\ conflictingNodes' = Append(conflictingNodes, hash)
             /\ UNCHANGED nodes
    <3>1. /\ DOMAIN conflictingNodes = 1 .. Len(conflictingNodes)
          /\ Len(conflictingNodes) \in Nat
          /\ DOMAIN conflictingNodes' = 1 .. Len(conflictingNodes) + 1
          /\ conflictingNodes'[Len(conflictingNodes) + 1] = hash
          /\ \A i \in DOMAIN conflictingNodes : conflictingNodes'[i] = conflictingNodes[i]
      BY <1>1, <2>1
    <3>2. \A i \in DOMAIN conflictingNodes' :
            i \in DOMAIN conflictingNodes \/ i = Len(conflictingNodes) + 1
      BY <3>1
    <3>3. ASSUME NEW i \in DOMAIN conflictingNodes'
          PROVE  \E j \in DOMAIN nodes' : nodes'[j].Hash = conflictingNodes'[i]
      BY <2>1, <3>1, <3>2 DEF ConflictsPresent
    <3>4. ASSUME NEW i \in DOMAIN conflictingNodes', NEW j \in DOMAIN conflictingNodes',
                 conflictingNodes'[i] = conflictingNodes'[j]
          PROVE  i = j
      BY <2>1, <3>1, <3>2, <3>4 DEF ConflictsPresent
    <3> QED BY <3>3, <3>4 DEF ConflictsPresent
  <2> QED BY <1>3, <1>9, <2>1, Zenon DEF AddConflictingNode
<1>10. ASSUME cacheRoot \/ buildIndex \/ Duplicate PROVE ConflictsPresent'
  BY <1>2, <1>10 DEF cacheRoot, buildIndex, Duplicate
<1>11. ASSUME Reload PROVE ConflictsPresent'
  BY <1>2, <1>11, ReloadFacts
<1>12. ASSUME NEW targetHeight \in 0 .. MaxHeight, RootHashPadded(targetHeight)
       PROVE  ConflictsPresent'
  BY <1>3, <1>10, <1>12, Zenon DEF RootHashPadded
<1>13. ASSUME UNCHANGED vars PROVE ConflictsPresent'
  BY <1>2, <1>13 DEF vars
<1> QED BY <1>3, <1>5, <1>6, <1>7, <1>8, <1>9, <1>10, <1>11, <1>12, <1>13,
           Zenon DEF Next, RootHash, Serialize, NodeIndex, GetNode

\* Only the methods that take a node out of the list can leave its hash behind in
\* ConflictingNodes.
THEOREM ConflictsStayPresent == Spec => ConflictsKept
BY StepKeepsConflicts, Invariance, PTL DEF Spec, ConflictsKept

-----------------------------------------------------------------------------
\* The reader of the node hashes, on the first n fields.
LEMMA NodesOfPrefix ==
  ASSUME IInv, NEW n \in 0 .. Len(serialized)
  PROVE  DeserializeNodesFromReader(SubSeq(serialized, 1, n)) =
           IF n < 4 + Len(nodes) THEN NULL ELSE SerializeNodes
<1> DEFINE b == serialized
           p == SubSeq(b, 1, n)
<1>1. PICK U : b \in Seq(U)
  BY SerializedFacts
<1>2. nodes \in Seq(Inputs) /\ Len(nodes) \in Nat /\ DOMAIN nodes = 1 .. Len(nodes)
      /\ Len(conflictingNodes) \in Nat
  BY DEF IInv, TypeOK
<1>3. /\ Len(b) = 5 + Len(nodes) + Len(conflictingNodes) /\ b[4] = Len(nodes)
      /\ \A i \in 1 .. Len(nodes) : b[4 + i] = nodes[i]
  BY SerializedFacts
<1>4. n \in Nat /\ n <= Len(b)
  BY <1>2, <1>3
<1> HIDE DEF b
<1>5. p \in Seq(U) /\ Len(p) = n /\ \A i \in 1 .. n : p[i] = b[i]
  BY <1>1, <1>4
<1> HIDE DEF p
<1>6. CASE n < 4
  <2>1. Len(p) < 4 /\ n < 4 + Len(nodes)
    BY <1>2, <1>4, <1>5, <1>6
  <2> QED BY <2>1 DEF DeserializeNodesFromReader, p, b
<1>7. CASE ~(n < 4)
  <2>1. ~(Len(p) < 4) /\ p[4] = Len(nodes)
    BY <1>3, <1>4, <1>5, <1>7
  <2>2. CASE n < 4 + Len(nodes)
    BY <2>1, <2>2, <1>5 DEF DeserializeNodesFromReader, p, b
  <2>3. CASE ~(n < 4 + Len(nodes))
    <3>1. \A i \in 1 .. Len(nodes) : p[4 + i].Hash = nodes[i].Hash
      <4> SUFFICES ASSUME NEW i \in 1 .. Len(nodes) PROVE p[4 + i] = nodes[i]
        OBVIOUS
      <4>1. 4 + i \in 1 .. n
        BY <1>2, <1>4, <2>3
      <4> QED BY <4>1, <1>3, <1>5
    <3>2. [i \in 1 .. p[4] |-> p[4 + i].Hash] = leafHashes
      BY <2>1, <3>1, <1>2, Zenon DEF leafHashes
    <3>3. DeserializeNodesFromReader(p) = [i \in 1 .. p[4] |-> p[4 + i].Hash]
      BY <2>1, <2>3, <1>5, Zenon DEF DeserializeNodesFromReader
    <3> QED BY <2>3, <3>2, <3>3, Zenon DEF SerializeNodes, p, b
  <2> QED BY <2>2, <2>3
<1> QED BY <1>6, <1>7

\* The reader of the conflicting hashes, on the first n fields: it skips the
\* header and the nodes without looking at errors, and notices all the same when
\* the stream ends before the list does.
LEMMA ConflictsOfPrefix ==
  ASSUME IInv, NEW n \in 0 .. Len(serialized)
  PROVE  DeserializeSubtreeConflictingFromReader(SubSeq(serialized, 1, n)) =
           IF n < Len(serialized) THEN NULL ELSE conflictingNodes
<1> DEFINE b == serialized
           p == SubSeq(b, 1, n)
           rest == SubSeq(p, 4, Len(p))
           counted == IF rest = << >> THEN << >>
                      ELSE SubSeq(rest, 2 + rest[1], Len(rest))
           L == Len(nodes)
           C == Len(conflictingNodes)
<1>1. PICK U : b \in Seq(U)
  BY SerializedFacts
<1>2. L \in Nat /\ C \in Nat /\ conflictingNodes \in Seq(Hashes)
  BY DEF IInv, TypeOK
<1>3. /\ Len(b) = 5 + L + C /\ b[4] = L /\ b[5 + L] = C
      /\ \A i \in 1 .. C : b[5 + L + i] = conflictingNodes[i]
  BY SerializedFacts
<1>4. n \in Nat /\ n <= Len(b)
  BY <1>2, <1>3
<1>5. DeserializeSubtreeConflictingFromReader(p) =
        IF counted = << >> \/ Len(counted) < 1 + counted[1] THEN NULL
        ELSE SubSeq(counted, 2, 1 + counted[1])
  BY DEF DeserializeSubtreeConflictingFromReader
<1> SUFFICES (IF counted = << >> \/ Len(counted) < 1 + counted[1] THEN NULL
              ELSE SubSeq(counted, 2, 1 + counted[1]))
             = IF n < Len(b) THEN NULL ELSE conflictingNodes
  BY <1>5, Zenon
<1> HIDE DEF b, L, C
<1>6. p \in Seq(U) /\ Len(p) = n /\ \A i \in 1 .. n : p[i] = b[i]
  BY <1>1, <1>4
<1> HIDE DEF p
<1>7. /\ rest \in Seq(U)
      /\ Len(rest) = IF n < 4 THEN 0 ELSE n - 3
      /\ \A i \in 1 .. Len(rest) : rest[i] = p[i + 3]
  BY <1>4, <1>6
<1> HIDE DEF rest
<1>8. CASE n < 4
  <2>1. rest = << >>
    BY <1>7, <1>8
  <2>2. counted = << >>
    BY <2>1
  <2> QED BY <2>2, <1>2, <1>3, <1>4, <1>8
<1>9. CASE ~(n < 4)
  <2>1. rest # << >> /\ Len(rest) = n - 3 /\ rest[1] = L
    BY <1>3, <1>4, <1>6, <1>7, <1>9
  <2>2. counted = SubSeq(rest, 2 + L, n - 3)
    BY <2>1
  <2> HIDE DEF counted
  <2>3. CASE n <= 4 + L
    <3>1. counted = << >>
      BY <2>1, <2>2, <2>3, <1>2, <1>4, <1>7
    <3> QED BY <3>1, <2>3, <1>2, <1>3, <1>4
  <2>4. CASE ~(n <= 4 + L)
    <3>1. /\ counted \in Seq(U) /\ Len(counted) = n - 4 - L
          /\ \A i \in 1 .. Len(counted) : counted[i] = rest[i + 1 + L]
      BY <2>1, <2>2, <2>4, <1>2, <1>4, <1>7
    <3>2. \A i \in 1 .. Len(counted) : counted[i] = b[i + 4 + L]
      <4> SUFFICES ASSUME NEW i \in 1 .. Len(counted) PROVE counted[i] = b[i + 4 + L]
        OBVIOUS
      <4>1. counted[i] = rest[i + 1 + L] /\ i + 1 + L \in 1 .. Len(rest)
        BY <3>1, <2>1, <1>2, <1>4
      <4>2. rest[i + 1 + L] = p[i + 1 + L + 3] /\ i + 1 + L + 3 = i + 4 + L
        BY <4>1, <1>2, <1>7, <3>1
      <4>3. i + 4 + L \in 1 .. n
        BY <4>1, <2>1, <1>2, <1>4, <3>1
      <4> QED BY <4>1, <4>2, <4>3, <1>6
    <3>3. counted # << >> /\ counted[1] = C
      <4>1. 1 \in 1 .. Len(counted) /\ 1 + 4 + L = 5 + L
        BY <3>1, <2>4, <1>2, <1>4
      <4> QED BY <4>1, <3>1, <3>2, <1>3
    <3>4. CASE n < Len(b)
      <4>1. Len(counted) < 1 + C
        BY <3>1, <3>4, <1>2, <1>3, <1>4
      <4> QED BY <3>3, <3>4, <4>1
    <3>5. CASE ~(n < Len(b))
      <4>1. Len(counted) = 1 + C
        BY <3>1, <3>5, <1>2, <1>3, <1>4
      <4>2. ~(Len(counted) < 1 + counted[1])
        BY <4>1, <3>3, <1>2
      <4> DEFINE t == SubSeq(counted, 2, 1 + C)
      <4>3. t \in Seq(U) /\ Len(t) = C /\ \A i \in 1 .. C : t[i] = counted[i + 1]
        BY <4>1, <3>1, <1>2
      <4>4. \A i \in 1 .. C : t[i] = conflictingNodes[i]
        <5> SUFFICES ASSUME NEW i \in 1 .. C PROVE t[i] = conflictingNodes[i]
          OBVIOUS
        <5>1. i + 1 \in 1 .. Len(counted) /\ i + 1 + 4 + L = 5 + L + i
          BY <4>1, <1>2
        <5>2. counted[i + 1] = b[5 + L + i]
          BY <5>1, <3>2
        <5> QED BY <5>2, <4>3, <1>3
      <4> HIDE DEF t
      <4>5. t = conflictingNodes
        BY <4>3, <4>4, <1>2, SeqEqual DEF C
      <4> QED BY <4>2, <4>5, <3>3, <3>5 DEF t
    <3> QED BY <3>4, <3>5
  <2> QED BY <2>3, <2>4
<1> QED BY <1>8, <1>9

\* The two functions that read a part of Serialize's bytes give what the subtree
\* holds, and an error exactly if the stream ends before that part does.
THEOREM PartialReadsAlwaysAgree == Spec => []PartialReadsAgree
<1>1. IInv => PartialReadsAgree
  BY NodesOfPrefix, ConflictsOfPrefix DEF PartialReadsAgree
<1> QED BY <1>1, Invariance, PTL

-----------------------------------------------------------------------------
(* The fee total.                                                          *)

\* The fees of the nodes in list, and what FeesMatch compares the total with.
feesOf(list) == [i \in 1 .. Len(list) |-> list[i].Fee]
feeSum(list) == MapThenSumSet(LAMBDA i : list[i].Fee, DOMAIN list)

\* Adding up the fees in whatever order is adding them up from the first node on.
LEMMA FeeSumIsTotal ==
  ASSUME NEW list \in Seq(Inputs)
  PROVE  /\ feeSum(list) = total(feesOf(list), Len(list))
         /\ \A i \in 1 .. Len(list) : /\ feesOf(list)[i] = list[i].Fee
                                      /\ feesOf(list)[i] \in Int
<1> DEFINE n == Len(list)
           f == feesOf(list)
           c(s) == CHOOSE x \in s : TRUE
           Q(h) == h = [s \in SUBSET (DOMAIN list) |->
                          IF s = {} THEN 0 ELSE list[c(s)].Fee + h[s \ {c(s)}]]
           iter == CHOOSE h : Q(h)
<1>1. n \in Nat /\ DOMAIN list = 1 .. n
  OBVIOUS
<1>2. \A i \in 1 .. n : f[i] = list[i].Fee /\ f[i] \in Int
  <2>1. \A i \in 1 .. n : list[i] \in Inputs
    OBVIOUS
  <2> QED BY <2>1, InputFacts DEF feesOf
<1>3. feeSum(list) = iter[DOMAIN list]
  BY DEF feeSum, MapThenSumSet, MapThenFoldSet
<1> HIDE DEF f
<1>4. \A h : Q(h) <=> IsFold(h, f, n)
  <2> SUFFICES ASSUME NEW h PROVE Q(h) <=> IsFold(h, f, n)
    OBVIOUS
  <2> DEFINE S == SUBSET (1 .. n)
  <2>1. \A s \in S : (IF s = {} THEN 0 ELSE list[c(s)].Fee + h[s \ {c(s)}])
                       = IF s = {} THEN 0 ELSE f[c(s)] + h[s \ {c(s)}]
    <3> SUFFICES ASSUME NEW s \in S, s # {} PROVE list[c(s)].Fee = f[c(s)]
      OBVIOUS
    <3>1. c(s) \in 1 .. n
      OBVIOUS
    <3> HIDE DEF c, n
    <3> QED BY <3>1, <1>2
  <2>2. [s \in S |-> IF s = {} THEN 0 ELSE list[c(s)].Fee + h[s \ {c(s)}]]
          = [s \in S |-> IF s = {} THEN 0 ELSE f[c(s)] + h[s \ {c(s)}]]
    <3> HIDE DEF c, S
    <3> QED BY <2>1
  <2>3. IsFold(h, f, n) <=> h = [s \in S |-> IF s = {} THEN 0 ELSE f[c(s)] + h[s \ {c(s)}]]
    BY DEF IsFold
  <2>4. Q(h) <=> h = [s \in S |-> IF s = {} THEN 0 ELSE list[c(s)].Fee + h[s \ {c(s)}]]
    BY <1>1
  <2> HIDE DEF Q, c, S
  <2> QED BY <2>2, <2>3, <2>4
<1> HIDE DEF Q, n
<1>5. (\E h : IsFold(h, f, n)) /\ \A h : IsFold(h, f, n) => h[1 .. n] = total(f, n)
  BY <1>1, <1>2, FoldIsTotal
<1>6. Q(iter)
  BY <1>4, <1>5
<1> HIDE DEF iter
<1>7. feeSum(list) = total(f, n)
  BY <1>1, <1>3, <1>4, <1>5, <1>6
<1> QED BY <1>2, <1>7 DEF f, n

\* One node more at the end.
LEMMA FeeSumAppend ==
  ASSUME NEW s \in Seq(Inputs), NEW t \in Seq(Inputs), Len(t) = Len(s) + 1,
         \A i \in 1 .. Len(s) : t[i] = s[i]
  PROVE  feeSum(t) = feeSum(s) + t[Len(s) + 1].Fee
<1> DEFINE n == Len(s)
           f == feesOf(s)
           g == feesOf(t)
<1>1. n \in Nat /\ Len(t) = n + 1 /\ n + 1 \in 1 .. n + 1
  OBVIOUS
<1>2. feeSum(s) = total(f, n) /\ \A i \in 1 .. n : f[i] = s[i].Fee /\ f[i] \in Int
  BY FeeSumIsTotal
<1>3. feeSum(t) = total(g, n + 1) /\ \A i \in 1 .. n + 1 : g[i] = t[i].Fee /\ g[i] \in Int
  BY <1>1, FeeSumIsTotal
<1>4. \A i \in 1 .. n : g[i] = f[i]
  <2>1. \A i \in 1 .. n : i \in 1 .. n + 1
    BY <1>1
  <2> HIDE DEF f, g
  <2> QED BY <2>1, <1>2, <1>3
<1> HIDE DEF f, g, n
<1>5. total(g, n + 1) = total(f, n) + g[n + 1]
  BY <1>1, <1>2, <1>3, <1>4, TotalOneMore
<1>6. g[n + 1] = t[n + 1].Fee
  BY <1>1, <1>3
<1> QED BY <1>2, <1>3, <1>5, <1>6 DEF n

\* One node less: those behind it move down.
LEMMA FeeSumRemove ==
  ASSUME NEW s \in Seq(Inputs), NEW t \in Seq(Inputs), NEW k \in 0 .. Len(s) - 1,
         Len(t) = Len(s) - 1,
         \A i \in 1 .. Len(t) : t[i] = IF i <= k THEN s[i] ELSE s[i + 1]
  PROVE  feeSum(t) = feeSum(s) - s[k + 1].Fee
<1> DEFINE n == Len(s)
           f == feesOf(s)
           g == feesOf(t)
           x == k + 1
<1>1. n \in Nat /\ Len(t) = n - 1 /\ x \in 1 .. n
  OBVIOUS
<1>2. feeSum(s) = total(f, n) /\ \A i \in 1 .. n : f[i] = s[i].Fee /\ f[i] \in Int
  BY FeeSumIsTotal
<1>3. feeSum(t) = total(g, n - 1) /\ \A i \in 1 .. n - 1 : g[i] = t[i].Fee
  BY <1>1, FeeSumIsTotal
<1>4. ASSUME NEW i \in 1 .. n - 1 PROVE g[i] = IF i < x THEN f[i] ELSE f[i + 1]
  <2>1. i \in 1 .. n /\ i + 1 \in 1 .. n /\ (i <= k <=> i < x)
    BY <1>1
  <2>2. g[i] = t[i].Fee /\ f[i] = s[i].Fee /\ f[i + 1] = s[i + 1].Fee
    BY <2>1, <1>2, <1>3
  <2>3. t[i] = IF i <= k THEN s[i] ELSE s[i + 1]
    BY <1>1
  <2> HIDE DEF f, g, x
  <2> QED BY <2>1, <2>2, <2>3
<1> HIDE DEF f, g, n, x
<1>5. total(g, n - 1) = total(f, n) - f[x]
  BY <1>1, <1>2, <1>4, TotalOneLess
<1>6. f[x] = s[x].Fee
  BY <1>1, <1>2
<1> QED BY <1>2, <1>3, <1>5, <1>6 DEF x

\* A sum of fees is a number.
LEMMA FeeSumType ==
  ASSUME NEW list \in Seq(Inputs) PROVE feeSum(list) \in Int
<1> DEFINE f == feesOf(list)
           n == Len(list)
<1>1. feeSum(list) = total(f, n) /\ \A i \in 1 .. n : f[i] \in Int
  BY FeeSumIsTotal
<1>2. n \in Nat
  OBVIOUS
<1> HIDE DEF f, n
<1>3. PICK a : IsSum(f, n, a)
  BY <1>1, <1>2, SumExists
<1> QED BY <1>1, <1>2, <1>3, TotalIs

\* No nodes, no fees.
LEMMA FeeSumEmpty ==
  ASSUME NEW list \in Seq(Inputs), list = << >> PROVE feeSum(list) = 0
<1> DEFINE f == feesOf(list)
           z == [k \in 0 .. 0 |-> 0]
<1>1. Len(list) = 0 /\ 0 \in Nat
  OBVIOUS
<1>2. feeSum(list) = total(f, 0)
  BY <1>1, FeeSumIsTotal
<1>3. z \in [0 .. 0 -> Int] /\ z[0] = 0
  OBVIOUS
<1> HIDE DEF f, z
<1>4. IsSum(f, 0, z) /\ \A k \in 1 .. 0 : f[k] \in Int
  BY <1>3 DEF IsSum
<1>5. total(f, 0) = z[0]
  BY <1>1, <1>4, TotalIs
<1> QED BY <1>2, <1>3, <1>5

\* Every step but ReplaceRootNode changes the total by what it changes the list.
LEMMA StepKeepsFees ==
  IInv /\ [Next]_vars => (FeesMatch => FeesMatch' \/ last'.op = "ReplaceRootNode")
<1> SUFFICES ASSUME IInv, [Next]_vars, FeesMatch, last'.op # "ReplaceRootNode"
             PROVE  FeesMatch'
  OBVIOUS
<1>0. fees = feeSum(nodes) % Word
  BY DEF FeesMatch, feeSum
<1>1. TypeOK /\ nodes \in Seq(Inputs) /\ Len(nodes) \in Nat /\ feeSum(nodes) \in Int
  BY FeeSumType DEF IInv, TypeOK
<1>a. ASSUME fees' = feeSum(nodes') % Word PROVE FeesMatch'
  BY <1>a DEF FeesMatch, feeSum, MapThenSumSet, MapThenFoldSet
<1>2. ASSUME UNCHANGED <<nodes, fees>> PROVE FeesMatch'
  BY <1>0, <1>a, <1>2
<1>3. ASSUME NEW op, NEW e, Fail(op, e) PROVE FeesMatch'
  BY <1>2, <1>3 DEF Fail, subtree
<1>4. ASSUME NEW node \in Inputs, addNode(node) PROVE FeesMatch'
  <2>1. /\ nodes' \in Seq(Inputs)
        /\ Len(nodes') = Len(nodes) + 1
        /\ \A i \in 1 .. Len(nodes) : nodes'[i] = nodes[i]
        /\ nodes'[Len(nodes) + 1] = node
    BY <1>1, <1>4, AppendFacts DEF addNode
  <2>2. feeSum(nodes') = feeSum(nodes) + node.Fee
    BY <1>1, <2>1, FeeSumAppend
  <2>3. fees' = (fees + node.Fee) % Word /\ node.Fee \in Int
    BY <1>4, InputFacts DEF addNode, add64
  <2>4. ((feeSum(nodes) % Word) + node.Fee) % Word = (feeSum(nodes) + node.Fee) % Word
    BY <1>1, <2>3, SubtreeAssumption, ModAdd
  <2> QED BY <1>0, <1>a, <2>2, <2>3, <2>4
<1>5. ASSUME NEW node \in Inputs,
             AddSubtreeNode(node) \/ AddNode(node) \/ AddSubtreeNodeWithoutLock(node)
      PROVE  FeesMatch'
  BY <1>3, <1>4, <1>5, Zenon
     DEF AddSubtreeNode, AddNode, AddSubtreeNodeWithoutLock
<1>6. ASSUME NEW index \in 0 .. Len(nodes), RemoveNodeAtIndex(index)
      PROVE  FeesMatch'
  <2>1. CASE index < Len(nodes)
    <3>1. ~(index >= Len(nodes)) /\ index \in 0 .. Len(nodes) - 1
      BY <1>1, <2>1
    <3>2. /\ fees' = sub64(fees, nodes[index + 1].Fee)
          /\ nodes' = SubSeq(nodes, 1, index) \o SubSeq(nodes, index + 2, Len(nodes))
      BY <1>6, <3>1, Zenon DEF RemoveNodeAtIndex
    <3>3. /\ nodes' \in Seq(Inputs)
          /\ Len(nodes') = Len(nodes) - 1
          /\ \A i \in 1 .. Len(nodes') :
               nodes'[i] = IF i <= index THEN nodes[i] ELSE nodes[i + 1]
      BY <1>1, <3>1, <3>2, RemoveLemma, Zenon
    <3> DEFINE fee == nodes[index + 1].Fee
               old == feeSum(nodes)
    <3>4. feeSum(nodes') = old - fee
      BY <1>1, <3>1, <3>3, FeeSumRemove
    <3>5. fee \in Nat /\ fees' = (fees - fee) % Word
      <4>1. nodes[index + 1] \in Inputs
        BY <1>1, <3>1
      <4> QED BY <3>2, <4>1, InputFacts DEF sub64
    <3> HIDE DEF fee, old
    <3>6. fees = old % Word /\ old \in Int /\ Word \in Nat \ {0} /\ fees \in Int
      BY <1>0, <1>1, SubtreeAssumption DEF old, TypeOK
    <3> DEFINE less == 0 - fee
    <3>7. less \in Int /\ old - fee = old + less /\ fees - fee = fees + less
      BY <3>5, <3>6
    <3> HIDE DEF less
    <3>8. ((old % Word) + less) % Word = (old + less) % Word
      BY <3>6, <3>7, ModAdd
    <3> QED BY <1>a, <3>4, <3>5, <3>6, <3>7, <3>8
  <2>2. CASE ~(index < Len(nodes))
    BY <1>3, <1>6, <2>2, Zenon DEF RemoveNodeAtIndex
  <2> QED BY <2>1, <2>2
<1>7. ASSUME AddCoinbaseNode PROVE FeesMatch'
  <2>1. CASE Fail("AddCoinbaseNode", "ErrSubtreeNotEmpty")
    BY <1>3, <2>1
  <2>2. CASE nodes = << >> /\ appendNode(coinbaseNode) /\ fees' = 0
    <3>1. /\ nodes' \in Seq(Inputs)
          /\ Len(nodes') = Len(nodes) + 1
          /\ \A i \in 1 .. Len(nodes) : nodes'[i] = nodes[i]
          /\ nodes'[Len(nodes) + 1] = coinbaseNode
      BY <1>1, <2>2, InputFacts, AppendFacts
    <3>2. feeSum(nodes') = feeSum(nodes) + 0
      <4>1. coinbaseNode.Fee = 0
        BY DEF coinbaseNode
      <4> QED BY <1>1, <3>1, <4>1, FeeSumAppend
    <3>3. feeSum(nodes) = 0
      BY <1>1, <2>2, FeeSumEmpty
    <3>4. 0 % Word = 0
      BY SubtreeAssumption
    <3> QED BY <1>a, <2>2, <3>2, <3>3, <3>4
  <2> QED BY <1>7, <2>1, <2>2 DEF AddCoinbaseNode
<1>8. ASSUME NEW hash \in Hashes, AddConflictingNode(hash) PROVE FeesMatch'
  BY <1>2, <1>3, <1>8, Zenon DEF AddConflictingNode
<1>9. ASSUME cacheRoot \/ buildIndex \/ Duplicate PROVE FeesMatch'
  BY <1>2, <1>9 DEF cacheRoot, buildIndex, Duplicate
<1>10. ASSUME Reload PROVE FeesMatch'
  BY <1>2, <1>10, ReloadFacts
<1>11. ASSUME NEW targetHeight \in 0 .. MaxHeight, RootHashPadded(targetHeight)
       PROVE  FeesMatch'
  BY <1>3, <1>9, <1>11, Zenon DEF RootHashPadded
<1>12. ASSUME RootHash \/ Serialize PROVE FeesMatch'
  BY <1>3, <1>9, <1>12, Zenon DEF RootHash, Serialize
<1>13. ASSUME UNCHANGED vars PROVE FeesMatch'
  BY <1>2, <1>13 DEF vars
<1>14. \A node \in Inputs : ~ReplaceRootNode(node)
  BY DEF ReplaceRootNode, returns
<1> QED BY <1>5, <1>6, <1>7, <1>8, <1>9, <1>10, <1>11, <1>12, <1>13, <1>14, Zenon
        DEF Next, NodeIndex, GetNode

\* A fee total that is the sum of the fees of the nodes, modulo the word, stays so
\* through additions, removals at any place, copies and reloads: ReplaceRootNode is
\* the only method after which Serialize can write another.
THEOREM FeesStayRight == Spec => FeesKept
BY StepKeepsFees, Invariance, PTL DEF Spec, FeesKept

\* No other method than ReplaceRootNode is counted as one.
LEMMA ReplacesCounted ==
  ASSUME [Next]_vars, \A node \in Inputs : ~ReplaceRootNode(node)
  PROVE  replaces' = replaces
<1>1. ASSUME NEW op, NEW e, Fail(op, e) PROVE replaces' = replaces
  BY <1>1 DEF Fail, subtree
<1>2. ASSUME NEW node, addNode(node) PROVE replaces' = replaces
  BY <1>2 DEF addNode
<1>3. ASSUME cacheRoot \/ buildIndex \/ Duplicate \/ Reload PROVE replaces' = replaces
  BY <1>3 DEF cacheRoot, buildIndex, Duplicate, Reload, deserialize
<1>4. ASSUME NEW node \in Inputs,
             AddSubtreeNode(node) \/ AddNode(node) \/ AddSubtreeNodeWithoutLock(node)
      PROVE  replaces' = replaces
  BY <1>1, <1>2, <1>4, Zenon DEF AddSubtreeNode, AddNode, AddSubtreeNodeWithoutLock
<1>5. ASSUME NEW index \in 0 .. Len(nodes), RemoveNodeAtIndex(index)
      PROVE  replaces' = replaces
  BY <1>1, <1>5, Zenon DEF RemoveNodeAtIndex
<1>6. ASSUME AddCoinbaseNode PROVE replaces' = replaces
  BY <1>1, <1>6, Zenon DEF AddCoinbaseNode
<1>7. ASSUME NEW hash \in Hashes, AddConflictingNode(hash) \/ GetNode(hash)
      PROVE  replaces' = replaces
  BY <1>1, <1>3, <1>7, Zenon DEF AddConflictingNode, GetNode
<1>8. ASSUME NEW targetHeight \in 0 .. MaxHeight, RootHashPadded(targetHeight)
      PROVE  replaces' = replaces
  BY <1>1, <1>3, <1>8, Zenon DEF RootHashPadded
<1>9. ASSUME UNCHANGED vars PROVE replaces' = replaces
  BY <1>9 DEF vars
<1> QED BY <1>1, <1>3, <1>4, <1>5, <1>6, <1>7, <1>8, <1>9, Zenon
        DEF Next, RootHash, NodeIndex, Serialize

\* As long as ReplaceRootNode was never called, whatever else was, the fee total is
\* the sum of the fees of the nodes, modulo the word.
THEOREM FeesRightUnlessReplaced == Spec => [](replaces = 0 => FeesMatch)
<1>1. Init => FeesMatch
  <2> SUFFICES ASSUME Init PROVE FeesMatch
    OBVIOUS
  <2>1. nodes = << >> /\ nodes \in Seq(Inputs) /\ fees = 0
    BY DEF Init
  <2>2. feeSum(nodes) = 0
    BY <2>1, FeeSumEmpty
  <2>3. 0 % Word = 0
    BY SubtreeAssumption
  <2> QED BY <2>1, <2>2, <2>3 DEF FeesMatch, feeSum
<1>2. IInv /\ [Next]_vars /\ (replaces = 0 => FeesMatch) => (replaces = 0 => FeesMatch)'
  <2> SUFFICES ASSUME IInv, [Next]_vars, replaces = 0 => FeesMatch, replaces' = 0
               PROVE  FeesMatch'
    OBVIOUS
  <2>1. replaces \in Nat
    BY SubtreeAssumption DEF IInv, TypeOK
  <2>2. \A node \in Inputs : ~ReplaceRootNode(node)
    BY <2>1 DEF ReplaceRootNode
  <2>3. FeesMatch
    BY <2>2, ReplacesCounted
  <2>4. CASE UNCHANGED vars
    BY <2>3, <2>4 DEF vars, FeesMatch, MapThenSumSet, MapThenFoldSet
  <2>5. CASE ~UNCHANGED vars
    <3>1. last'.op # "ReplaceRootNode"
      <4>1. \A op, e : op # "ReplaceRootNode" /\ (Fail(op, e) \/ returns(op, e)) =>
              last'.op # "ReplaceRootNode"
        BY DEF Fail, returns
      <4> QED BY <2>2, <2>5, <4>1, Zenon
              DEF Next, AddSubtreeNode, AddNode, AddSubtreeNodeWithoutLock,
                  AddCoinbaseNode, RemoveNodeAtIndex, AddConflictingNode, GetNode,
                  RootHash, RootHashPadded, NodeIndex, Serialize, Duplicate, Reload
    <3> QED BY <2>3, <3>1, StepKeepsFees
  <2> QED BY <2>4, <2>5
<1> QED BY <1>1, <1>2, Invariance, PTL DEF Spec

-----------------------------------------------------------------------------
(* Meta, the array beside the list.  Its invariant says of the list what   *)
(* the methods of Meta use, and of stored bytes that they are those of the *)
(* list they were written for.                                             *)

\* What an entry can be.
Entry == Hashes \cup {NULL, NoParents}

\* The list that Meta points to.
ListOK ==
  /\ nodes \in Seq(Inputs)
  /\ capacity \in Nat
  /\ RootCacheFresh
  /\ nodeIndex = NULL \/ nodeIndex \in [Hashes -> Nat \cup {-1}]

\* Bytes have an entry for every node they were written for, after the first
\* none that is nil, and the root of those nodes.
StoredOK ==
  stored # NULL =>
    /\ stored.entries \in Seq(Entry)
    /\ DOMAIN stored.of = 1 .. Len(stored.entries)
    /\ Len(stored.entries) >= 1
    /\ stored.root = MerkleRoot(stored.of)
    /\ \A i \in 2 .. Len(stored.entries) : stored.entries[i] # NULL

MetaInv == ListOK /\ txInpoints \in Seq(Entry) /\ StoredOK

\* Serialize finds every parent there exactly if no entry it needs is missing.
LEMMA FirstMissingLemma ==
  ASSUME nodes \in Seq(Inputs), nodes # << >>, NEW entries, Len(entries) \in Nat
  PROVE  serializable(entries) <=>
           /\ Len(nodes) <= Len(entries)
           /\ \A i \in 2 .. Len(nodes) : entries[i] # NULL
<1> DEFINE n == Len(nodes)
           l == Len(entries)
           M == {i \in 1 .. n - 1 : i >= l \/ entries[i + 1] = NULL}
           T == {n} \cup M
<1>1. n \in Nat /\ n >= 1 /\ l \in Nat
  OBVIOUS
<1>2. serializable(entries) <=> Min(T) = n /\ n <= l
  BY DEF serializable, firstMissing
<1>3. T \in SUBSET Nat /\ T # {} /\ n \in T
  BY <1>1
<1>4. Min(T) \in T /\ \A y \in T : Min(T) <= y
  <2> HIDE DEF T
  <2> QED BY <1>3, MinLemma
<1>5. Min(T) = n <=> M = {}
  <2> DEFINE m == Min(T)
  <2> HIDE DEF m
  <2>1. m \in T /\ \A y \in T : m <= y
    BY <1>4 DEF m
  <2>2. ASSUME m = n, NEW i \in M PROVE FALSE
    <3>1. m <= i /\ i \in 1 .. n - 1
      BY <2>1
    <3> QED BY <3>1, <2>2, <1>1
  <2>3. ASSUME M = {} PROVE m = n
    BY <2>1, <2>3
  <2>4. m = n <=> M = {}
    BY <2>2, <2>3
  <2> QED BY <2>4 DEF m
<1>6. ASSUME n <= l
      PROVE  M = {} <=> \A i \in 2 .. n : entries[i] # NULL
  <2>1. ASSUME M = {}, NEW i \in 2 .. n PROVE entries[i] # NULL
    <3>1. i - 1 \in 1 .. n - 1 /\ (i - 1) + 1 = i
      BY <1>1
    <3>2. i - 1 \notin M
      BY <2>1
    <3> QED BY <3>1, <3>2
  <2>2. ASSUME \A i \in 2 .. n : entries[i] # NULL, NEW k \in M PROVE FALSE
    <3>1. k \in 1 .. n - 1 /\ (k >= l \/ entries[k + 1] = NULL)
      OBVIOUS
    <3>2. k + 1 \in 2 .. n /\ ~(k >= l)
      BY <3>1, <1>1, <1>6
    <3> QED BY <3>1, <3>2, <2>2
  <2> HIDE DEF M
  <2> QED BY <2>1, <2>2
<1> HIDE DEF M, T
<1>7. serializable(entries) <=> M = {} /\ n <= l
  BY <1>2, <1>5
<1> QED BY <1>6, <1>7

\* What the subtree's own methods do to the list that Meta points to: only
\* RemoveNodeAtIndex moves nodes.
LEMMA ListStep ==
  ASSUME MetaInv, SubtreeNext
  PROVE  /\ ListOK'
         /\ UNCHANGED meta
         /\ last'.op # "ReadMeta"
         /\ \/ last'.op = "RemoveNodeAtIndex"
            \/ nodes' = nodes
            \/ \E node \in Inputs : nodes' = Append(nodes, node)
<1>1. /\ nodes \in Seq(Inputs) /\ capacity \in Nat /\ RootCacheFresh /\ Len(nodes) \in Nat
      /\ nodeIndex = NULL \/ nodeIndex \in [Hashes -> Nat \cup {-1}]
  BY DEF MetaInv, ListOK
<1>2. UNCHANGED meta
  BY DEF SubtreeNext
<1>3. ASSUME UNCHANGED subtree PROVE ListOK' /\ nodes' = nodes
  BY <1>1, <1>3 DEF subtree, ListOK, RootCacheFresh, leafHashes
<1>4. ASSUME NEW node \in Inputs, appendNode(node)
      PROVE  nodes' \in Seq(Inputs) /\ capacity' \in Nat /\ nodes' = Append(nodes, node)
  BY <1>1, <1>4 DEF appendNode, growslice
<1>5. ASSUME rootHash' = NULL PROVE RootCacheFresh'
  BY <1>5 DEF RootCacheFresh
<1>6. ASSUME NEW hash \in Hashes, NEW p \in Nat \cup {-1}, nodeIndex' = indexWith(hash, p)
      PROVE  nodeIndex' = NULL \/ nodeIndex' \in [Hashes -> Nat \cup {-1}]
  BY <1>1, <1>6 DEF indexWith
<1>7. ASSUME NEW node \in Txs, AddSubtreeNode(node)
      PROVE  /\ ListOK' /\ last'.op = "AddSubtreeNode"
             /\ nodes' = nodes \/ \E x \in Inputs : nodes' = Append(nodes, x)
  <2>1. last'.op = "AddSubtreeNode"
    BY <1>7 DEF AddSubtreeNode, Fail, returns
  <2>2. UNCHANGED subtree \/ addNode(node)
    BY <1>7 DEF AddSubtreeNode, Fail
  <2>3. CASE UNCHANGED subtree
    BY <2>1, <2>3, <1>3
  <2>4. CASE addNode(node)
    <3>1. node \in Inputs /\ node.Hash \in Hashes
      BY InputFacts DEF Inputs
    <3>2. appendNode(node) /\ rootHash' = NULL /\ nodeIndex' = indexWith(node.Hash, Len(nodes))
      BY <2>4 DEF addNode
    <3>3. nodes' \in Seq(Inputs) /\ capacity' \in Nat /\ nodes' = Append(nodes, node)
      BY <3>1, <3>2, <1>4
    <3>4. nodeIndex' = NULL \/ nodeIndex' \in [Hashes -> Nat \cup {-1}]
      BY <3>1, <3>2, <1>1, <1>6
    <3> QED BY <2>1, <3>1, <3>2, <3>3, <3>4, <1>5, Zenon DEF ListOK
  <2> QED BY <2>2, <2>3, <2>4
<1>8. ASSUME AddCoinbaseNode
      PROVE  /\ ListOK' /\ last'.op = "AddCoinbaseNode"
             /\ nodes' = nodes \/ \E x \in Inputs : nodes' = Append(nodes, x)
  <2>1. last'.op = "AddCoinbaseNode"
    BY <1>8 DEF AddCoinbaseNode, Fail, returns
  <2>2. \/ UNCHANGED subtree
        \/ appendNode(coinbaseNode) /\ rootHash' = NULL /\ nodeIndex' = nodeIndex
    BY <1>8 DEF AddCoinbaseNode, Fail
  <2>3. CASE UNCHANGED subtree
    BY <2>1, <2>3, <1>3
  <2>4. CASE appendNode(coinbaseNode) /\ rootHash' = NULL /\ nodeIndex' = nodeIndex
    <3>1. coinbaseNode \in Inputs
      BY InputFacts
    <3>2. nodes' \in Seq(Inputs) /\ capacity' \in Nat /\ nodes' = Append(nodes, coinbaseNode)
      BY <2>4, <3>1, <1>4
    <3>3. ListOK'
      BY <2>4, <3>2, <1>1, <1>5 DEF ListOK
    <3> QED BY <2>1, <3>1, <3>2, <3>3
  <2> QED BY <2>2, <2>3, <2>4
<1>9. ASSUME NEW index \in 0 .. Len(nodes) - 1, RemoveNodeAtIndex(index)
      PROVE  ListOK' /\ last'.op = "RemoveNodeAtIndex"
  <2>1. ~(index >= Len(nodes))
    BY <1>1
  <2>2. /\ nodeIndex' = indexWith(nodes[index + 1].Hash, -1)
        /\ nodes' = SubSeq(nodes, 1, index) \o SubSeq(nodes, index + 2, Len(nodes))
        /\ rootHash' = NULL /\ capacity' = capacity
        /\ returns("RemoveNodeAtIndex", "nil")
    BY <1>9, <2>1, Zenon DEF RemoveNodeAtIndex
  <2>3. nodes' \in Seq(Inputs)
    BY <2>2, <1>1, RemoveLemma, Zenon
  <2>4. nodes[index + 1].Hash \in Hashes
    BY <1>1, InputFacts
  <2>5. nodeIndex' = NULL \/ nodeIndex' \in [Hashes -> Nat \cup {-1}]
    BY <2>2, <2>4, <1>6
  <2>6. ListOK'
    BY <2>2, <2>3, <2>5, <1>1, <1>5 DEF ListOK
  <2> QED BY <2>2, <2>6 DEF returns
<1> QED BY <1>2, <1>7, <1>8, <1>9 DEF SubtreeNext

\* RootHash, as the methods of Meta call it.
LEMMA CacheRootStep ==
  ASSUME MetaInv, cacheRoot, nodes # << >>
  PROVE  /\ ListOK' /\ nodes' = nodes
         /\ rootHashValue = MerkleRoot(leafHashes)
<1>1. rootHashValue = MerkleRoot(leafHashes)
  BY DEF MetaInv, ListOK, RootCacheFresh, rootHashValue
<1> QED BY <1>1 DEF MetaInv, ListOK, RootCacheFresh, cacheRoot, leafHashes

\* NodeIndex, as SetTxInpointsFromTx calls it: if the index agrees with the list,
\* the position it gives is that of a node with the hash.
LEMMA BuildIndexStep ==
  ASSUME MetaInv, buildIndex, NEW hash \in Hashes
  PROVE  /\ ListOK' /\ nodes' = nodes
         /\ nodeIndex'[hash] \in Nat \cup {-1}
         /\ IndexExact /\ nodeIndex'[hash] # -1 =>
              /\ nodeIndex'[hash] + 1 \in 1 .. Len(nodes)
              /\ nodes[nodeIndex'[hash] + 1].Hash = hash
<1>1. /\ nodes \in Seq(Inputs) /\ capacity \in Nat /\ RootCacheFresh
      /\ nodeIndex = NULL \/ nodeIndex \in [Hashes -> Nat \cup {-1}]
  BY DEF MetaInv, ListOK
<1>2. nodes' = nodes /\ capacity' = capacity /\ rootHash' = rootHash
  BY DEF buildIndex
<1>3. CASE nodeIndex = NULL
  <2>1. nodeIndex' = [h \in Hashes |-> positionOf(nodes, h)]
    BY <1>3 DEF buildIndex, builtIndex
  <2>2. \A h \in Hashes : positionOf(nodes, h) \in Nat \cup {-1}
    BY <1>1, PositionFacts
  <2>3. nodeIndex' \in [Hashes -> Nat \cup {-1}] /\ nodeIndex'[hash] = positionOf(nodes, hash)
    BY <2>1, <2>2
  <2>4. ListOK'
    BY <1>1, <1>2, <2>3 DEF ListOK, RootCacheFresh, leafHashes
  <2>5. nodeIndex'[hash] # -1 =>
              /\ nodeIndex'[hash] + 1 \in 1 .. Len(nodes)
              /\ nodes[nodeIndex'[hash] + 1].Hash = hash
    BY <1>1, <2>3, PositionHit
  <2> QED BY <1>2, <2>2, <2>3, <2>4, <2>5
<1>4. CASE nodeIndex # NULL
  <2>1. nodeIndex' = nodeIndex /\ nodeIndex \in [Hashes -> Nat \cup {-1}]
    BY <1>1, <1>4 DEF buildIndex, builtIndex
  <2>2. IndexExact => nodeIndex'[hash] = positionOf(nodes, hash)
    BY <1>4, <2>1 DEF IndexExact
  <2>3. ListOK'
    BY <1>1, <1>2, <2>1 DEF ListOK, RootCacheFresh, leafHashes
  <2>4. IndexExact /\ nodeIndex'[hash] # -1 =>
              /\ nodeIndex'[hash] + 1 \in 1 .. Len(nodes)
              /\ nodes[nodeIndex'[hash] + 1].Hash = hash
    BY <1>1, <2>2, PositionHit
  <2> QED BY <1>2, <2>1, <2>3, <2>4
<1> QED BY <1>3, <1>4

\* What one step does, as far as the two properties are concerned.
MetaStepOK ==
  /\ MetaInv'
  /\ Aligned /\ NothingAhead /\ IndexExact =>
       Aligned' \/ last'.op \in {"RemoveNodeAtIndex", "ReadMeta"}
  /\ last'.op = "ReadMeta" =>
       /\ stored # NULL
       /\ last'.err = "nil" =>
            /\ Len(stored.entries) <= capacity
            /\ txInpoints' = readEntries(stored.entries)
            /\ metaRoot' = stored.root

\* A step that leaves the list and the array alone.
LEMMA SameMeta ==
  ASSUME MetaInv, ListOK', nodes' = nodes, txInpoints' = txInpoints, StoredOK',
         last'.op # "ReadMeta"
  PROVE  MetaStepOK
<1>1. Aligned => Aligned'
  BY DEF Aligned
<1> QED BY <1>1 DEF MetaStepOK, MetaInv

\* The subtree's own methods: a node that is added finds nothing in its place.
LEMMA SubtreeStep ==
  ASSUME MetaInv, SubtreeNext
  PROVE  MetaStepOK
<1>1. /\ ListOK' /\ UNCHANGED meta /\ last'.op # "ReadMeta"
      /\ \/ last'.op = "RemoveNodeAtIndex"
         \/ nodes' = nodes
         \/ \E node \in Inputs : nodes' = Append(nodes, node)
  BY ListStep
<1>2. txInpoints' = txInpoints /\ stored' = stored
  BY <1>1 DEF meta
<1>3. MetaInv'
  BY <1>1, <1>2 DEF MetaInv, StoredOK
<1>4. ASSUME Aligned, NothingAhead, NEW node \in Inputs, nodes' = Append(nodes, node)
      PROVE  Aligned'
  <2>1. nodes \in Seq(Inputs) /\ txInpoints \in Seq(Entry)
    BY DEF MetaInv, ListOK
  <2> SUFFICES ASSUME NEW i \in DOMAIN nodes', i \in DOMAIN txInpoints
               PROVE  txInpoints[i] \in {NULL, NoParents, nodes'[i].Hash}
    BY <1>2 DEF Aligned
  <2>2. CASE i \in DOMAIN nodes
    <3>1. nodes'[i] = nodes[i]
      BY <2>1, <2>2, <1>4
    <3> QED BY <2>2, <3>1, <1>4 DEF Aligned
  <2>3. CASE i \notin DOMAIN nodes
    BY <2>3, <1>4 DEF NothingAhead
  <2> QED BY <2>2, <2>3
<1>5. nodes' = nodes /\ Aligned => Aligned'
  BY <1>2 DEF Aligned
<1> QED BY <1>1, <1>3, <1>4, <1>5 DEF MetaStepOK

\* SetTxInpointsFromTx sets the entry of a node with the transaction's hash.
LEMMA SetFromTxStep ==
  ASSUME MetaInv, NEW hash \in Hashes, SetTxInpointsFromTx(hash)
  PROVE  MetaStepOK
<1> DEFINE index == nodeIndex'[hash]
           value == NewTxInpointsFromTx(hash)
<1>1. /\ ListOK' /\ nodes' = nodes /\ index \in Nat \cup {-1}
      /\ IndexExact /\ index # -1 =>
           /\ index + 1 \in 1 .. Len(nodes)
           /\ nodes[index + 1].Hash = hash
  BY BuildIndexStep DEF SetTxInpointsFromTx
<1>2. stored' = stored /\ last'.op = "SetTxInpointsFromTx"
  BY DEF SetTxInpointsFromTx, returns
<1>3. StoredOK'
  BY <1>2 DEF MetaInv, StoredOK
<1>4. \/ txInpoints' = txInpoints
      \/ /\ index \in 0 .. Len(txInpoints) - 1
         /\ txInpoints' = [txInpoints EXCEPT ![index + 1] = value]
  BY DEF SetTxInpointsFromTx
<1>5. value \in Entry /\ value \in {NULL, hash}
  BY DEF NewTxInpointsFromTx, Entry
<1> HIDE DEF index, value
<1>6. CASE txInpoints' = txInpoints
  BY <1>1, <1>2, <1>3, <1>6, SameMeta
<1>7. CASE /\ index \in 0 .. Len(txInpoints) - 1
           /\ txInpoints' = [txInpoints EXCEPT ![index + 1] = value]
  <2>1. txInpoints \in Seq(Entry)
    BY DEF MetaInv
  <2>2. /\ txInpoints' \in Seq(Entry) /\ DOMAIN txInpoints' = DOMAIN txInpoints
        /\ \A i \in DOMAIN txInpoints :
             txInpoints'[i] = IF i = index + 1 THEN value ELSE txInpoints[i]
    BY <1>5, <1>7, <2>1
  <2>3. MetaInv'
    BY <1>1, <1>3, <2>2 DEF MetaInv
  <2>4. ASSUME Aligned, IndexExact PROVE Aligned'
    <3>1. nodes[index + 1].Hash = hash
      BY <1>1, <1>7, <2>4
    <3> SUFFICES ASSUME NEW i \in DOMAIN nodes, i \in DOMAIN txInpoints
                 PROVE  txInpoints'[i] \in {NULL, NoParents, nodes[i].Hash}
      BY <1>1, <2>2 DEF Aligned
    <3>2. CASE i = index + 1
      BY <1>5, <2>2, <3>1, <3>2
    <3>3. CASE i # index + 1
      BY <2>2, <2>4, <3>3 DEF Aligned
    <3> QED BY <3>2, <3>3
  <2> QED BY <1>2, <2>3, <2>4 DEF MetaStepOK
<1> QED BY <1>4, <1>6, <1>7

\* SetTxInpoints, called with what belongs to the node.
LEMMA SetStep ==
  ASSUME MetaInv, NEW idx \in 0 .. Len(txInpoints), NEW value \in valuesFor(idx),
         SetTxInpoints(idx, value)
  PROVE  MetaStepOK
<1>1. nodes \in Seq(Inputs) /\ txInpoints \in Seq(Entry) /\ Len(nodes) \in Nat
  BY DEF MetaInv, ListOK
<1>2. /\ UNCHANGED subtree /\ stored' = stored /\ last'.op = "SetTxInpoints"
  BY DEF SetTxInpoints, returns
<1>3. nodes' = nodes /\ ListOK'
  BY <1>2 DEF subtree, MetaInv, ListOK, RootCacheFresh, leafHashes
<1>4. StoredOK'
  BY <1>2 DEF MetaInv, StoredOK
<1>5. \/ txInpoints' = txInpoints
      \/ /\ idx < Len(txInpoints)
         /\ txInpoints' = [txInpoints EXCEPT ![idx + 1] = value]
  BY DEF SetTxInpoints
<1>6. value \in Entry /\ (idx < Len(nodes) => value \in {NoParents, nodes[idx + 1].Hash})
  <2>1. idx < Len(nodes) => nodes[idx + 1].Hash \in Hashes
    BY <1>1, InputFacts
  <2> QED BY <2>1 DEF valuesFor, Entry
<1>7. CASE txInpoints' = txInpoints
  BY <1>2, <1>3, <1>4, <1>7, SameMeta
<1>8. CASE /\ idx < Len(txInpoints)
           /\ txInpoints' = [txInpoints EXCEPT ![idx + 1] = value]
  <2>1. /\ txInpoints' \in Seq(Entry) /\ DOMAIN txInpoints' = DOMAIN txInpoints
        /\ \A i \in DOMAIN txInpoints :
             txInpoints'[i] = IF i = idx + 1 THEN value ELSE txInpoints[i]
    BY <1>1, <1>6, <1>8
  <2>2. MetaInv'
    BY <1>3, <1>4, <2>1 DEF MetaInv
  <2>3. ASSUME Aligned PROVE Aligned'
    <3> SUFFICES ASSUME NEW i \in DOMAIN nodes, i \in DOMAIN txInpoints
                 PROVE  txInpoints'[i] \in {NULL, NoParents, nodes[i].Hash}
      BY <1>3, <2>1 DEF Aligned
    <3>1. CASE i = idx + 1
      <4>1. idx < Len(nodes)
        BY <1>1, <3>1
      <4> QED BY <1>6, <2>1, <3>1, <4>1
    <3>2. CASE i # idx + 1
      BY <2>1, <2>3, <3>2 DEF Aligned
    <3> QED BY <3>1, <3>2
  <2> QED BY <1>2, <2>2, <2>3 DEF MetaStepOK
<1> QED BY <1>5, <1>7, <1>8

\* Serialize writes an entry for every node, and their root.
LEMMA SerializeStep ==
  ASSUME MetaInv, SerializeMeta
  PROVE  MetaStepOK
<1>1. nodes \in Seq(Inputs) /\ txInpoints \in Seq(Entry) /\ Len(nodes) \in Nat
  BY DEF MetaInv, ListOK
<1>2. last'.op = "SerializeMeta" /\ txInpoints' = txInpoints
  BY DEF SerializeMeta, Fail, returns, meta
<1>3. CASE UNCHANGED <<subtree, stored>>
  <2>1. nodes' = nodes /\ ListOK'
    BY <1>3 DEF subtree, MetaInv, ListOK, RootCacheFresh, leafHashes
  <2>2. StoredOK'
    BY <1>3 DEF MetaInv, StoredOK
  <2> QED BY <2>1, <2>2, <1>2, SameMeta
<1>4. CASE nodes # << >> /\ cacheRoot /\ stored' = stored
  <2>1. nodes' = nodes /\ ListOK'
    BY <1>4, CacheRootStep
  <2>2. StoredOK'
    BY <1>4 DEF MetaInv, StoredOK
  <2> QED BY <2>1, <2>2, <1>2, SameMeta
<1>5. CASE /\ serializable(txInpoints)
           /\ cacheRoot
           /\ stored' = [root |-> rootHashValue, entries |-> entriesWritten, of |-> leafHashes]
  <2>1. nodes # << >>
    BY <1>5 DEF serializable
  <2>2. nodes' = nodes /\ ListOK' /\ rootHashValue = MerkleRoot(leafHashes)
    BY <1>5, <2>1, CacheRootStep
  <2>3. Len(nodes) <= Len(txInpoints) /\ \A i \in 2 .. Len(nodes) : txInpoints[i] # NULL
    BY <1>1, <1>5, <2>1, FirstMissingLemma
  <2> DEFINE e == SubSeq(txInpoints, 1, Len(nodes))
  <2>4. e \in Seq(Entry) /\ Len(e) = Len(nodes) /\ \A i \in 1 .. Len(nodes) : e[i] = txInpoints[i]
    BY <1>1, <2>3
  <2>5. /\ stored'.entries = e /\ stored'.of = leafHashes
        /\ stored'.root = MerkleRoot(leafHashes)
    BY <1>5, <2>2 DEF entriesWritten
  <2>6. DOMAIN leafHashes = 1 .. Len(nodes)
    BY <1>1 DEF leafHashes
  <2> HIDE DEF e
  <2>7. Len(nodes) >= 1
    BY <1>1, <2>1
  <2>8. \A i \in 2 .. Len(nodes) : e[i] # NULL
    <3> SUFFICES ASSUME NEW i \in 2 .. Len(nodes) PROVE e[i] # NULL
      OBVIOUS
    <3>1. i \in 1 .. Len(nodes)
      BY <1>1
    <3> QED BY <3>1, <2>3, <2>4
  <2>9. StoredOK'
    BY <2>4, <2>5, <2>6, <2>7, <2>8 DEF StoredOK
  <2> QED BY <2>2, <2>9, <1>2, SameMeta
<1> QED BY <1>3, <1>4, <1>5 DEF SerializeMeta, Fail, meta

\* Reading replaces the array.
LEMMA ReadStep ==
  ASSUME MetaInv, ReadMeta
  PROVE  MetaStepOK
<1>1. UNCHANGED subtree /\ stored' = stored /\ stored # NULL /\ last'.op = "ReadMeta"
  BY DEF ReadMeta, returns
<1>2. ListOK'
  BY <1>1 DEF subtree, MetaInv, ListOK, RootCacheFresh, leafHashes
<1>3. StoredOK'
  BY <1>1 DEF MetaInv, StoredOK
<1>4. stored.entries \in Seq(Entry) /\ capacity \in Nat /\ txInpoints \in Seq(Entry)
  BY <1>1 DEF MetaInv, StoredOK, ListOK
<1>5. \/ txInpoints' = txInpoints /\ last'.err # "nil"
      \/ /\ Len(stored.entries) <= capacity
         /\ txInpoints' = readEntries(stored.entries)
         /\ metaRoot' = stored.root
  BY DEF ReadMeta, returns
<1>6. Len(stored.entries) <= capacity => readEntries(stored.entries) \in Seq(Entry)
  <2> DEFINE e == stored.entries
             r == [i \in 1 .. capacity |->
                     IF i <= Len(e) /\ e[i] # NoParents THEN e[i] ELSE NULL]
  <2>1. r \in [1 .. capacity -> Entry]
    <3> SUFFICES ASSUME NEW i \in 1 .. capacity, i <= Len(e) PROVE e[i] \in Entry
      BY DEF Entry
    <3> QED BY <1>4
  <2>2. r \in Seq(Entry)
    <3> HIDE DEF r
    <3> QED BY <2>1, <1>4
  <2> QED BY <2>2, Zenon DEF readEntries
<1>7. txInpoints' \in Seq(Entry)
  BY <1>4, <1>5, <1>6
<1>8. MetaInv'
  BY <1>2, <1>3, <1>7 DEF MetaInv
<1> QED BY <1>1, <1>5, <1>8 DEF MetaStepOK

\* A Meta for a copy of the subtree has no entry set.
LEMMA NewMetaStep ==
  ASSUME MetaInv, NewSubtreeMeta
  PROVE  MetaStepOK
<1>1. nodes \in Seq(Inputs) /\ Len(nodes) \in Nat
  BY DEF MetaInv, ListOK
<1>2. /\ nodes' = nodes /\ capacity' = Len(nodes) /\ nodeIndex' = NULL
      /\ rootHash' = rootHash /\ last'.op = "Duplicate" /\ stored' = stored
      /\ txInpoints' = unset(Len(nodes))
  BY DEF NewSubtreeMeta, Duplicate, returns
<1>3. ListOK'
  BY <1>1, <1>2 DEF MetaInv, ListOK, RootCacheFresh, leafHashes
<1>4. StoredOK'
  BY <1>2 DEF MetaInv, StoredOK
<1>5. txInpoints' \in Seq(Entry) /\ \A i \in DOMAIN txInpoints' : txInpoints'[i] = NULL
  BY <1>1, <1>2 DEF unset, Entry
<1>6. Aligned'
  BY <1>5 DEF Aligned
<1> QED BY <1>2, <1>3, <1>4, <1>5, <1>6 DEF MetaStepOK, MetaInv

\* Every method.
LEMMA MetaStep ==
  ASSUME MetaInv, MetaNext
  PROVE  MetaStepOK
BY SubtreeStep, SetFromTxStep, SetStep, SerializeStep, ReadStep, NewMetaStep DEF MetaNext

\* The array of Meta holds entries, and its bytes are those of the list they were
\* written for, whatever has happened to the list since.
THEOREM MetaInvariant == MetaSpec => []MetaInv
<1>1. MetaInit => MetaInv
  <2> SUFFICES ASSUME MetaInit PROVE MetaInv
    OBVIOUS
  <2>1. nodes = << >> /\ nodes \in Seq(Inputs) /\ rootHash = NULL /\ nodeIndex = NULL
        /\ capacity = 2^height /\ height \in Nat /\ stored = NULL
        /\ txInpoints = unset(capacity)
    BY SubtreeAssumption DEF MetaInit, Init
  <2>2. capacity \in Nat
    BY <2>1, PowerType
  <2>3. txInpoints \in Seq(Entry)
    BY <2>1, <2>2 DEF unset, Entry
  <2> QED BY <2>1, <2>2, <2>3 DEF MetaInv, ListOK, StoredOK, RootCacheFresh
<1>2. MetaInv /\ [MetaNext]_metaVars => MetaInv'
  <2> SUFFICES ASSUME MetaInv, [MetaNext]_metaVars PROVE MetaInv'
    OBVIOUS
  <2>1. CASE MetaNext
    BY <2>1, MetaStep DEF MetaStepOK
  <2>2. CASE UNCHANGED metaVars
    BY <2>2 DEF metaVars, MetaInv, ListOK, StoredOK, RootCacheFresh, leafHashes
  <2> QED BY <2>1, <2>2
<1> QED BY <1>1, <1>2, PTL DEF MetaSpec

\* Of all methods of the subtree and of Meta, only RemoveNodeAtIndex and reading
\* can put an entry of the TxInpoints array next to a node that is not its own.
THEOREM EntriesStayAligned == MetaSpec => AlignedKept
<1>1. MetaInv /\ [MetaNext]_metaVars =>
        [Aligned /\ NothingAhead /\ IndexExact =>
           Aligned' \/ last'.op \in {"RemoveNodeAtIndex", "ReadMeta"}]_metaVars
  BY MetaStep DEF MetaStepOK
<1> QED BY <1>1, MetaInvariant, PTL DEF MetaSpec, AlignedKept

\* Reading the bytes of Meta for the list they were written for gives what was
\* written, but that an entry without parents has become one that is not set.
THEOREM MetaReadsBack == MetaSpec => RereadSame
<1> DEFINE A == last'.op = "ReadMeta" /\ last'.err = "nil" /\ leafHashes = stored.of =>
                 /\ \A i \in DOMAIN nodes :
                      \/ txInpoints'[i] = stored.entries[i]
                      \/ txInpoints'[i] = NULL /\ stored.entries[i] = NoParents
                 /\ serializable(txInpoints') <=>
                      \A i \in 2 .. Len(nodes) : stored.entries[i] # NoParents
                 /\ metaRoot' = MerkleRoot(leafHashes)
<1>1. MetaInv /\ MetaNext => A
  <2> SUFFICES ASSUME MetaInv, MetaNext, last'.op = "ReadMeta", last'.err = "nil",
                      leafHashes = stored.of
               PROVE  /\ \A i \in DOMAIN nodes :
                           \/ txInpoints'[i] = stored.entries[i]
                           \/ txInpoints'[i] = NULL /\ stored.entries[i] = NoParents
                      /\ serializable(txInpoints') <=>
                           \A i \in 2 .. Len(nodes) : stored.entries[i] # NoParents
                      /\ metaRoot' = MerkleRoot(leafHashes)
    OBVIOUS
  <2> DEFINE e == stored.entries
             r == txInpoints'
             n == Len(nodes)
  <2>1. /\ stored # NULL /\ Len(e) <= capacity
        /\ r = readEntries(e) /\ metaRoot' = stored.root
    BY MetaStep DEF MetaStepOK
  <2>2. /\ e \in Seq(Entry) /\ DOMAIN leafHashes = 1 .. Len(e) /\ Len(e) >= 1
        /\ stored.root = MerkleRoot(leafHashes)
        /\ \A i \in 2 .. Len(e) : e[i] # NULL
    BY <2>1 DEF MetaInv, StoredOK
  <2>3. nodes \in Seq(Inputs) /\ capacity \in Nat /\ n \in Nat /\ DOMAIN nodes = 1 .. n
    BY DEF MetaInv, ListOK
  <2>4. Len(e) = n /\ n >= 1 /\ nodes # << >> /\ n <= capacity
    <3>1. 1 .. n = 1 .. Len(e) /\ Len(e) \in Nat
      BY <2>2, <2>3 DEF leafHashes
    <3>2. Len(e) \in 1 .. Len(e) /\ n + 1 \notin 1 .. n
      BY <2>2, <2>3, <3>1
    <3>3. Len(e) = n
      BY <2>3, <3>1, <3>2
    <3> QED BY <2>1, <2>2, <2>3, <3>3
  <2>5. r = [i \in 1 .. capacity |-> IF i <= Len(e) /\ e[i] # NoParents THEN e[i] ELSE NULL]
    BY <2>1, Zenon DEF readEntries
  <2> HIDE DEF e, r
  <2>6. \A i \in 1 .. n : r[i] = IF e[i] # NoParents THEN e[i] ELSE NULL
    <3> SUFFICES ASSUME NEW i \in 1 .. n
                 PROVE  r[i] = IF e[i] # NoParents THEN e[i] ELSE NULL
      OBVIOUS
    <3>1. i \in 1 .. capacity /\ i <= Len(e)
      BY <2>3, <2>4
    <3> QED BY <3>1, <2>5
  <2>7. Len(r) = capacity
    <3>1. r \in [1 .. capacity -> {r[i] : i \in 1 .. capacity}]
      BY <2>5
    <3> QED BY <3>1, <2>3
  <2>8. serializable(r) <=> \A i \in 2 .. n : r[i] # NULL
    BY <2>3, <2>4, <2>7, FirstMissingLemma
  <2>9. \A i \in 2 .. n : r[i] # NULL <=> e[i] # NoParents
    <3> SUFFICES ASSUME NEW i \in 2 .. n PROVE r[i] # NULL <=> e[i] # NoParents
      OBVIOUS
    <3>1. i \in 1 .. n
      BY <2>3
    <3> QED BY <3>1, <2>2, <2>4, <2>6
  <2>10. serializable(r) <=> \A i \in 2 .. n : e[i] # NoParents
    BY <2>8, <2>9
  <2>11. \A i \in DOMAIN nodes : r[i] = e[i] \/ (r[i] = NULL /\ e[i] = NoParents)
    <3> SUFFICES ASSUME NEW i \in DOMAIN nodes
                 PROVE  r[i] = e[i] \/ (r[i] = NULL /\ e[i] = NoParents)
      OBVIOUS
    <3>1. r[i] = IF e[i] # NoParents THEN e[i] ELSE NULL
      BY <2>3, <2>6, Zenon
    <3> QED BY <3>1
  <2> QED BY <2>1, <2>2, <2>10, <2>11, Zenon DEF e, r
<1>2. MetaInv /\ [MetaNext]_metaVars => [A]_metaVars
  <2> HIDE DEF A
  <2> QED BY <1>1
<1> QED BY <1>2, MetaInvariant, PTL DEF MetaSpec, RereadSame
=============================================================================
