---------------------------- MODULE SubtreeMeta -----------------------------
(***************************************************************************)
(* Meta of subtree_meta.go on top of a Subtree: the inpoints of the        *)
(* transactions, in an array that is meant to run parallel to the node     *)
(* list but is sized once and never moved.  The node list goes on changing *)
(* under it, by the actions of module Subtree.                             *)
(*                                                                         *)
(* A TxInpoints value is told apart by what Meta tells apart: NULL is one  *)
(* with a nil list of parents (never set, or a transaction without         *)
(* inputs), NoParents one with an empty list that is not nil, and a hash   *)
(* stands for the inpoints of the transaction with that hash.              *)
(***************************************************************************)
EXTENDS Subtree

CONSTANT NoInputs  \* hashes of transactions that have no inputs

ASSUME NoInputsAssumption == NoInputs \subseteq Hashes

VARIABLES
  txInpoints,  \* s.TxInpoints, one value per position
  metaRoot,    \* s.rootHash
  stored       \* the bytes of the last Serialize: root, entries and, for the
               \* properties, the node list they were written for

meta == <<txInpoints, metaRoot, stored>>
metaVars == <<nodes, capacity, treeSize, height, fees, sizeInBytes,
              conflictingNodes, rootHash, nodeIndex, replaces, last,
              txInpoints, metaRoot, stored>>

NoParents == ZeroHash

\* make([]TxInpoints, subtree.Size()), where Size is the capacity of the list.
unset(size) == [i \in 1 .. size |-> NULL]

\* NewTree, then NewSubtreeMeta.
MetaInit ==
  /\ Init
  /\ txInpoints = unset(capacity)
  /\ metaRoot = ZeroHash
  /\ stored = NULL

-----------------------------------------------------------------------------
(* Setting entries.                                                        *)

NewTxInpointsFromTx(hash) == IF hash \in NoInputs THEN NULL ELSE hash

\* Mutant: entries are filled in the order of the calls.
SetTxInpointsFromTxInOrder(hash) ==
  LET free == {i \in DOMAIN txInpoints : txInpoints[i] = NULL}
  IN  /\ buildIndex
      /\ nodeIndex'[hash] # -1
      /\ free # {}
      /\ txInpoints' = [txInpoints EXCEPT ![Min(free)] = NewTxInpointsFromTx(hash)]
      /\ returns("SetTxInpointsFromTx", "nil")
      /\ UNCHANGED <<metaRoot, stored>>

\* Finds the position through the subtree's index and does not compare it with
\* the length of the array.
SetTxInpointsFromTx(hash) ==
  /\ buildIndex
  /\ LET index == nodeIndex'[hash]
     IN  \/ /\ index = -1
            /\ returns("SetTxInpointsFromTx", "ErrNodeNotFound")
            /\ UNCHANGED txInpoints
         \/ /\ index >= Len(txInpoints)
            /\ returns("SetTxInpointsFromTx", "panic")
            /\ UNCHANGED txInpoints
         \/ /\ index \in 0 .. Len(txInpoints) - 1
            /\ txInpoints' = [txInpoints EXCEPT ![index + 1] = NewTxInpointsFromTx(hash)]
            /\ returns("SetTxInpointsFromTx", "nil")
  /\ UNCHANGED <<metaRoot, stored>>

SetTxInpoints(idx, value) ==
  /\ \/ /\ idx >= Len(txInpoints)
        /\ returns("SetTxInpoints", "ErrIndexOutOfRange")
        /\ UNCHANGED txInpoints
     \/ /\ idx < Len(txInpoints)
        /\ txInpoints' = [txInpoints EXCEPT ![idx + 1] = value]
        /\ returns("SetTxInpoints", "nil")
  /\ UNCHANGED <<subtree, metaRoot, stored>>

\* Callers set what belongs to the node at idx: its inpoints, or that it has
\* no parents.  They may also do so past the end of the list.
valuesFor(idx) ==
  {NoParents} \cup (IF idx < Len(nodes) THEN {nodes[idx + 1].Hash} ELSE Hashes)

-----------------------------------------------------------------------------
(* Serialize and reading back.                                             *)

\* The first node after the first whose parents are not there: the entry is
\* nil, or there is no entry.  Len(nodes) if there is none.
firstMissing(entries) ==
  Min({Len(nodes)} \cup
      {i \in 1 .. Len(nodes) - 1 :
         i >= Len(entries) \/ entries[i + 1] = NULL})

serializable(entries) ==
  /\ nodes # << >>
  /\ firstMissing(entries) = Len(nodes)
  /\ Len(nodes) <= Len(entries)

\* serializeTxInpoints: an entry per node, whatever the length of the array.
entriesWritten == SubSeq(txInpoints, 1, Len(nodes))

\* An entry that is nil is an error, one that is not there a panic.  The root
\* of an empty subtree is nil and is dereferenced, and the first entry is only
\* looked for once the root has been taken.
SerializeMeta ==
  \/ /\ serializable(txInpoints)
     /\ cacheRoot
     /\ metaRoot' = rootHashValue
     /\ stored' = [root    |-> rootHashValue,
                   entries |-> entriesWritten,
                   of      |-> leafHashes]
     /\ returns("SerializeMeta", "nil")
     /\ UNCHANGED txInpoints
  \/ /\ nodes = << >>
     /\ Fail("SerializeMeta", "panic")
     /\ UNCHANGED meta
  \/ /\ firstMissing(txInpoints) < Len(nodes)
     /\ Fail("SerializeMeta",
             IF firstMissing(txInpoints) < Len(txInpoints)
             THEN "ErrCannotSerializeSubtreeNotSet" ELSE "panic")
     /\ UNCHANGED meta
  \/ /\ nodes # << >>
     /\ txInpoints = << >>
     /\ firstMissing(txInpoints) = Len(nodes)
     /\ cacheRoot
     /\ metaRoot' = rootHashValue
     /\ returns("SerializeMeta", "panic")
     /\ UNCHANGED <<txInpoints, stored>>

\* Mutant: the first entry, the coinbase's, is taken to be absent.
readEntriesFromOne(entries) ==
  [i \in 1 .. capacity |->
     IF i \in 2 .. Len(entries) THEN entries[i - 1] ELSE NULL]

\* A list of no parents is read back as nil.
readEntries(entries) ==
  [i \in 1 .. capacity |->
     IF i <= Len(entries) /\ entries[i] # NoParents THEN entries[i] ELSE NULL]

\* NewSubtreeMetaFromBytes and NewSubtreeMetaFromReader, of the stored bytes
\* or of a beginning of them; work goes on with the new Meta.  Nothing
\* compares the root with the subtree's, or the number of entries with the
\* length of the array.
ReadMeta ==
  /\ stored # NULL
  /\ \/ returns("ReadMeta", "EOF") /\ UNCHANGED <<txInpoints, metaRoot>>
     \/ /\ Len(stored.entries) > capacity
        /\ returns("ReadMeta", "panic")
        /\ UNCHANGED <<txInpoints, metaRoot>>
     \/ /\ Len(stored.entries) <= capacity
        /\ txInpoints' = readEntries(stored.entries)
        /\ metaRoot' = stored.root
        /\ returns("ReadMeta", "nil")
  /\ UNCHANGED <<subtree, stored>>

\* NewSubtreeMeta for a copy of the subtree, which has no room to spare.
NewSubtreeMeta ==
  /\ Duplicate
  /\ txInpoints' = unset(capacity')
  /\ metaRoot' = ZeroHash
  /\ UNCHANGED stored

-----------------------------------------------------------------------------
\* The subtree's own methods, called while a Meta points to it.
SubtreeNext ==
  /\ \/ \E node \in Txs : AddSubtreeNode(node)
     \/ AddCoinbaseNode
     \/ \E index \in 0 .. Len(nodes) - 1 : RemoveNodeAtIndex(index)
  /\ UNCHANGED meta

MetaNext ==
  \/ SubtreeNext
  \/ \E hash \in Hashes : SetTxInpointsFromTx(hash)
  \/ \E idx \in 0 .. Len(txInpoints) :
       \E value \in valuesFor(idx) : SetTxInpoints(idx, value)
  \/ SerializeMeta
  \/ ReadMeta
  \/ NewSubtreeMeta

MetaSpec == MetaInit /\ [][MetaNext]_metaVars

-----------------------------------------------------------------------------
(* Properties.                                                             *)

\* The entry of a node, if it is set, is that node's.
Aligned ==
  \A i \in DOMAIN nodes \cap DOMAIN txInpoints :
    txInpoints[i] \in {NULL, NoParents, nodes[i].Hash}

\* Nothing is set for positions the list has not reached.
NothingAhead ==
  \A i \in DOMAIN txInpoints \ DOMAIN nodes : txInpoints[i] \in {NULL, NoParents}

\* "the index in that array should match the index of the node in the
\* subtree": of all methods, only RemoveNodeAtIndex and reading old bytes can
\* break the agreement, as long as the subtree's index is exact and no entry
\* is left over from a removed node for an added one to inherit.
AlignedKept ==
  [][Aligned /\ NothingAhead /\ IndexExact =>
       Aligned' \/ last'.op \in {"RemoveNodeAtIndex", "ReadMeta"}]_metaVars

\* What is read back for the list it was written for is what was written, and
\* can be written again, except that "no parents" has become "not set": with
\* such an entry after the first, the Meta that was read cannot be serialized.
RereadSame ==
  [][last'.op = "ReadMeta" /\ last'.err = "nil" /\ leafHashes = stored.of =>
       /\ \A i \in DOMAIN nodes :
            \/ txInpoints'[i] = stored.entries[i]
            \/ txInpoints'[i] = NULL /\ stored.entries[i] = NoParents
       /\ serializable(txInpoints') <=>
            \A i \in 2 .. Len(nodes) : stored.entries[i] # NoParents
       /\ metaRoot' = MerkleRoot(leafHashes)]_metaVars
=============================================================================
