---------------------------- MODULE SubtreeData -----------------------------
(***************************************************************************)
(* Data of subtree_data.go: the transactions of a subtree, in an array     *)
(* parallel to its nodes, and the files they are written to and read from, *)
(* as a whole or in chunks.  The node list is complete and does not change *)
(* (module SubtreeMeta is about arrays beside a list that does).           *)
(*                                                                         *)
(* A transaction is told apart by its hash.  A file is a sequence of       *)
(* transactions that may end inside one; it need not be one this package   *)
(* wrote.  Positions in the code's arrays count from 0, so that the entry  *)
(* of node i is txs[i + 1].                                                *)
(***************************************************************************)
EXTENDS Integers, Sequences, SequencesExt

CONSTANTS
  Txs,          \* hashes of transactions that are not coinbases
  Coinbases,    \* hashes of coinbase transactions
  Placeholder,  \* CoinbasePlaceholder
  NULL,         \* Go's nil
  MaxNodes,     \* bound: nodes of the subtree
  MaxFile       \* bound: transactions of a file not written by this package

ASSUME SubtreeDataAssumption ==
  /\ Txs \cap Coinbases = {}
  /\ {Placeholder, NULL} \cap (Txs \cup Coinbases) = {}
  /\ MaxNodes \in Nat
  /\ MaxFile \in Nat

VARIABLES
  nodes,    \* the hashes of s.Subtree.Nodes
  txs,      \* s.Txs of a Data that is filled and written
  file,     \* the transactions in the file
  cut,      \* the file ends inside another transaction
  written,  \* the index up to which chunks were written to it; -1: none were
  parts,    \* s.Txs of a Data that is filled by reading chunks
  next,     \* the index the next chunk is to be read for; -1: not reading
  pos,      \* how many transactions were read from the file
  err       \* what the last call returned

vars == <<nodes, txs, file, cut, written, parts, next, pos, err>>

anyTx == Txs \cup Coinbases

empty(size) == [i \in 1 .. size |-> NULL]

\* The first node is the placeholder: its transaction is not in the file.
placeholderFirst == nodes # << >> /\ nodes[1] = Placeholder

\* A Data from NewSubtreeData, whose array may be longer than the list, and a
\* file from elsewhere.
Init ==
  /\ nodes \in {l \in UNION {[1 .. n -> anyTx \cup {Placeholder}] : n \in 0 .. MaxNodes} :
                  \A i \in 2 .. Len(l) : l[i] \in Txs}
  /\ \E size \in {Len(nodes), Len(nodes) + 1} : txs = empty(size)
  /\ file \in UNION {[1 .. n -> anyTx] : n \in 0 .. MaxFile}
  /\ cut \in BOOLEAN
  /\ written = -1
  /\ parts = << >>
  /\ next = -1
  /\ pos = 0
  /\ err = "nil"

fileVars == <<file, cut, written>>
readVars == <<parts, next, pos>>

-----------------------------------------------------------------------------
(* Filling and writing.                                                    *)

\* The hash is compared with the node's, except for the coinbase.
AddTx(tx, index) ==
  /\ \/ /\ \/ index = 0 /\ tx \in Coinbases /\ placeholderFirst
           \/ nodes[index + 1] = tx
        /\ txs' = [txs EXCEPT ![index + 1] = tx]
        /\ err' = "nil"
     \/ /\ ~(index = 0 /\ tx \in Coinbases /\ placeholderFirst)
        /\ nodes[index + 1] # tx
        /\ err' = "ErrTxHashMismatch"
        /\ UNCHANGED txs
  /\ UNCHANGED <<nodes, fileVars, readVars>>

txStartIndex == IF placeholderFirst THEN 1 ELSE 0

\* What Serialize returns.  The check for missing transactions passes over
\* index 0, and the loop that follows dereferences it.
serializeErr ==
  CASE nodes = << >> -> "panic"
    [] nodes # << >> /\ \E i \in 2 .. Len(nodes) : txs[i] = NULL -> "ErrSubtreeLengthMismatch"
    [] OTHER -> IF ~placeholderFirst /\ txs[1] = NULL THEN "panic" ELSE "nil"

\* Mutant: the transaction at index 0 is written whatever the first node is.
serializedAll == SelectSeq(SubSeq(txs, 1, Len(nodes)), LAMBDA tx : tx # NULL)

serialized == SubSeq(txs, txStartIndex + 1, Len(nodes))

Serialize ==
  /\ err' = serializeErr
  /\ \/ /\ serializeErr = "nil"
        /\ file' = serialized
        /\ cut' = FALSE
        /\ written' = -1
        /\ next' = -1
        /\ parts' = << >>
        /\ pos' = 0
     \/ serializeErr # "nil" /\ UNCHANGED <<fileVars, readVars>>
  /\ UNCHANGED <<nodes, txs>>

\* A new file, to be written in chunks.
CreateFile ==
  /\ file' = << >>
  /\ cut' = FALSE
  /\ written' = 0
  /\ parts' = << >>
  /\ next' = -1
  /\ pos' = 0
  /\ err' = "nil"
  /\ UNCHANGED <<nodes, txs>>

\* The first index from startIdx on at which WriteTransactionsToWriter finds
\* no transaction; endIdx if there is none.
firstNil(startIdx, endIdx) ==
  LET missing == {i \in startIdx .. endIdx - 1 :
                    txs[i + 1] = NULL /\ ~(i = 0 /\ placeholderFirst)}
  IN  Min(missing \cup {endIdx})

\* What is written before it.
range(startIdx, endIdx) ==
  SubSeq(txs, IF startIdx = 0 THEN txStartIndex + 1 ELSE startIdx + 1, endIdx)

\* The writer fails after some of the transactions, perhaps inside the next.
writeFails(chunk) ==
  \E n \in 0 .. Len(chunk) - 1 :
    /\ file' = file \o SubSeq(chunk, 1, n)
    /\ cut' \in BOOLEAN
    /\ written' = -1
    /\ err' = "ErrTransactionWrite"

\* Stops with an error at a missing transaction; what was written stays.
WriteTransactionsToWriter(endIdx) ==
  LET to == firstNil(written, endIdx)
  IN  /\ written \in 0 .. endIdx - 1
      /\ nodes # << >>
      /\ \/ /\ file' = file \o range(written, to)
            /\ written' = IF to = endIdx THEN endIdx ELSE -1
            /\ err' = IF to = endIdx THEN "nil" ELSE "ErrTransactionNil"
            /\ UNCHANGED cut
         \/ writeFails(range(written, to))
      /\ UNCHANGED <<nodes, txs, readVars>>

\* The transactions of s that are not missing, in order.
present(s) ==
  LET upTo[k \in 0 .. Len(s)] ==
        IF k = 0 THEN << >>
        ELSE IF s[k] = NULL THEN upTo[k - 1] ELSE Append(upTo[k - 1], s[k])
  IN  upTo[Len(s)]

\* Is given the transactions themselves; leaves out the missing ones, and
\* knows no placeholder.
WriteTransactionChunk(endIdx) ==
  LET chunk == present(SubSeq(txs, written + 1, endIdx))
  IN  /\ written \in 0 .. endIdx - 1
      /\ \/ file' = file \o chunk /\ written' = endIdx /\ err' = "nil" /\ UNCHANGED cut
         \/ writeFails(chunk)
      /\ UNCHANGED <<nodes, txs, readVars>>

-----------------------------------------------------------------------------
(* Reading.  bt.Tx.ReadFrom (not in this repository) gives the next        *)
(* transaction of the file, or says that there is none; where the file     *)
(* ends inside a transaction it may say either that or that reading failed.*)

\* Mutant: the hash is not compared with the node's.
readOneUnchecked(s, tx) ==
  CASE s.err # "nil" -> s
    [] s.err = "nil" /\ s.txIndex = 1 /\ tx \in Coinbases -> [s EXCEPT !.txs[1] = tx]
    [] OTHER ->
         IF s.txIndex >= Len(nodes) THEN [s EXCEPT !.err = "ErrTxIndexOutOfBounds"]
         ELSE [s EXCEPT !.txs[s.txIndex + 1] = tx, !.txIndex = @ + 1]

\* One transaction in the loop of serializeFromReader.  A coinbase met while
\* the index is 1 goes to the front, whatever the first node is, and the index
\* stays 1.
readOne(s, tx) ==
  CASE s.err # "nil" -> s
    [] s.err = "nil" /\ s.txIndex = 1 /\ tx \in Coinbases -> [s EXCEPT !.txs[1] = tx]
    [] OTHER ->
         IF s.txIndex >= Len(nodes) THEN [s EXCEPT !.err = "ErrTxIndexOutOfBounds"]
         ELSE IF nodes[s.txIndex + 1] # tx THEN [s EXCEPT !.err = "ErrTxHashMismatch"]
         ELSE [s EXCEPT !.txs[s.txIndex + 1] = tx, !.txIndex = @ + 1]

\* serializeFromReader, up to the end of the file.
serializeFromReader(f) ==
  LET loop[k \in 0 .. Len(f)] ==
        IF k = 0
        THEN [txIndex |-> txStartIndex, txs |-> empty(Len(nodes)), err |-> "nil"]
        ELSE readOne(loop[k - 1], f[k])
  IN  IF nodes = << >>
      THEN [txIndex |-> 0, txs |-> << >>, err |-> "ErrSubtreeNodesEmpty"]
      ELSE loop[Len(f)]

\* NewSubtreeDataFromBytes and NewSubtreeDataFromReader; work goes on with the
\* new Data.  A file that ends early is no error.
Read ==
  LET s == serializeFromReader(file)
  IN  /\ \/ s.err # "nil" /\ err' = s.err /\ UNCHANGED txs
         \/ s.err = "nil" /\ cut /\ err' = "ErrTransactionRead" /\ UNCHANGED txs
         \/ s.err = "nil" /\ err' = "nil" /\ txs' = s.txs
      /\ UNCHANGED <<nodes, fileVars, readVars>>

\* NewSubtreeData, to be filled by reading the file from its beginning; a
\* file is not read while it is still written.
OpenFile ==
  /\ parts' = empty(Len(nodes))
  /\ next' = 0
  /\ pos' = 0
  /\ err' = "nil"
  /\ written' = -1
  /\ UNCHANGED <<nodes, txs, file, cut>>

\* The first index that has a transaction in the file, from next on.
first == IF next = 0 THEN txStartIndex ELSE next

\* How many transactions of a chunk up to endIdx are read and agree with their
\* nodes before one does not or the file ends.
accepted(endIdx) ==
  LET stops == {i \in first .. endIdx - 1 :
                  LET k == pos + i - first + 1
                  IN  k > Len(file) \/ file[k] # nodes[i + 1]}
  IN  Min(stops \cup {Max({first, endIdx})}) - first

\* Mutant: the place of the placeholder is not left free.
storedLow(endIdx) ==
  [i \in DOMAIN parts |->
     IF i - 1 \in next .. next + accepted(endIdx) - 1
     THEN file[pos + i - next] ELSE parts[i]]

\* parts with those transactions in their places.
storedParts(endIdx) ==
  [i \in DOMAIN parts |->
     IF i - 1 \in first .. first + accepted(endIdx) - 1
     THEN file[pos + i - first] ELSE parts[i]]

\* The chunk is complete; or the file ends first, which is no error either; or
\* a transaction is cut off or has another hash, and reading ends.
chunkRead(endIdx) ==
  LET n == accepted(endIdx)
  IN  /\ next \in 0 .. endIdx - 1
      /\ parts' = storedParts(endIdx)
      /\ \/ first + n >= endIdx /\ err' = "nil" /\ pos' = pos + n /\ next' = endIdx
         \/ /\ first + n < endIdx
            /\ pos + n >= Len(file)
            /\ \/ err' = "nil" /\ next' = endIdx
               \/ cut /\ pos + n = Len(file) /\ err' = "ErrTransactionRead" /\ next' = -1
            /\ pos' = IF cut THEN Len(file) + 1 ELSE Len(file)
         \/ /\ first + n < endIdx
            /\ pos + n < Len(file)
            /\ err' = "ErrTxHashMismatch"
            /\ next' = -1
            /\ pos' = pos + n + 1
      /\ UNCHANGED <<nodes, txs, fileVars>>

\* ReadTransactionsFromReader(r, next, endIdx)
ReadTransactionsFromReader(endIdx) == chunkRead(endIdx)

\* ReadTransactionChunk(r, subtree, next, count), whose result the caller puts
\* in its place.  A count that goes past the list is cut down.
ReadTransactionChunk(count) == chunkRead(Min({next + count, Len(nodes)}))

-----------------------------------------------------------------------------
Next ==
  \/ \E tx \in anyTx : \E index \in 0 .. Len(nodes) - 1 : AddTx(tx, index)
  \/ Serialize
  \/ CreateFile
  \/ \E endIdx \in 1 .. Len(txs) : WriteTransactionsToWriter(endIdx)
  \/ \E endIdx \in 1 .. Len(txs) : WriteTransactionChunk(endIdx)
  \/ Read
  \/ OpenFile
  \/ \E endIdx \in 1 .. Len(nodes) : ReadTransactionsFromReader(endIdx)
  \/ \E count \in 1 .. Len(nodes) + 1 : ReadTransactionChunk(count)

Spec == Init /\ [][Next]_vars

-----------------------------------------------------------------------------
(* Properties.                                                             *)

\* Whatever the files hold and wherever they end, an entry that is set is the
\* transaction of its node, except that a coinbase may stand in front; read
\* in chunks not even that.
TxsMatchNodes ==
  /\ \A i \in DOMAIN txs :
       \/ txs[i] = NULL
       \/ i \in DOMAIN nodes /\ txs[i] = nodes[i]
       \/ i = 1 /\ txs[i] \in Coinbases
  /\ \A i \in DOMAIN parts : parts[i] \in {NULL, nodes[i]}

\* What Serialize returns without an error reads back as the same Data (but
\* for the coinbase of a placeholder, which is not written), and writing it as
\* two chunks, cut anywhere, makes the same file.
WholeRoundTrip ==
  serializeErr = "nil" /\ (placeholderFirst \/ txs[1] = nodes[1]) =>
    LET s == serializeFromReader(serialized)
    IN  /\ s.err = "nil"
        /\ \A i \in DOMAIN nodes :
             s.txs[i] = IF i = 1 /\ placeholderFirst THEN NULL ELSE txs[i]
        /\ \A k \in 0 .. Len(nodes) :
             range(0, k) \o range(k, Len(nodes)) = serialized

\* A file that was read in chunks to its end, without an error and whatever
\* the boundaries of the chunks, is accepted by NewSubtreeDataFromReader, with
\* the same transactions in the same places.
ChunksAddUp ==
  nodes # << >> /\ next = Len(nodes) /\ pos >= Len(file) =>
    LET s == serializeFromReader(file)
    IN  s.err = "nil" /\ s.txs = parts
=============================================================================
