------------------------------ MODULE Inpoints ------------------------------
(***************************************************************************)
(* TxInpoints of inpoints.go: the deduplicated parents of a transaction,   *)
(* and one packed array with, per parent, the number of outputs spent and  *)
(* then those outputs.  The object is built by appendInput, one input at a *)
(* time, and may then be serialized and read back any number of times.     *)
(***************************************************************************)
EXTENDS Integers, FiniteSets, SequencesExt

CONSTANTS
  Parents,   \* hashes of parent transactions
  Vouts,     \* output indexes
  MaxInputs  \* bound: transactions have 0 .. MaxInputs inputs

ASSUME InpointsAssumption ==
  /\ Vouts \subseteq Nat
  /\ MaxInputs \in Nat

VARIABLES
  inputs,          \* the inputs of the transaction, as <<hash, vout>>
  done,            \* how many of them have been appended
  parentTxHashes,  \* p.ParentTxHashes
  hashesNil,       \* p.ParentTxHashes == nil
  voutIdxs         \* p.voutIdxs

vars == <<inputs, done, parentTxHashes, hashesNil, voutIdxs>>

\* NewTxInpoints: empty and not nil.  newSizedFromInputs: nil for no inputs.
Init ==
  /\ \E n \in 0 .. MaxInputs : inputs \in [1 .. n -> Parents \X Vouts]
  /\ done = 0
  /\ parentTxHashes = << >>
  /\ hashesNil \in IF inputs = << >> THEN BOOLEAN ELSE {FALSE}
  /\ voutIdxs = << >>

-----------------------------------------------------------------------------
(* The packed layout.                                                      *)

\* Where the count word of parent i (from 0) is, having walked over the runs
\* of the parents before it; for i = len(parents), where the array ends.
runStart(i) ==
  LET pos[j \in 0 .. i] ==
        IF j = 0 THEN 0 ELSE pos[j - 1] + 1 + voutIdxs[pos[j - 1] + 1]
  IN  pos[i]

\* Mutant: the slice begins at the count word.
voutSliceEarly(i) ==
  LET pos == runStart(i)
  IN  SubSeq(voutIdxs, pos + 1, pos + voutIdxs[pos + 1])

\* p.voutIdxs[pos+1 : pos+1+count]
voutSliceForParent(i) ==
  LET pos == runStart(i)
  IN  SubSeq(voutIdxs, pos + 2, pos + 1 + voutIdxs[pos + 1])

GetTxInpoints ==
  FlattenSeq([i \in DOMAIN parentTxHashes |->
    LET run == voutSliceForParent(i - 1)
    IN  [k \in DOMAIN run |-> <<parentTxHashes[i], run[k]>>]])

nrInputs ==
  IF parentTxHashes = << >> THEN 0 ELSE Len(voutIdxs) - Len(parentTxHashes)

-----------------------------------------------------------------------------
(* Construction.                                                           *)

\* Mutant: a parent is never found.
indexOfNever(hash) == -1

\* slices.Index(p.ParentTxHashes, hash)
indexOf(hash) ==
  IF Contains(parentTxHashes, hash)
  THEN (CHOOSE i \in DOMAIN parentTxHashes : parentTxHashes[i] = hash) - 1
  ELSE -1

\* Mutant: the new output goes to the front of the run.
insertAtFront(pos) == pos + 1

\* The position after the run whose count word is at pos.
insertAt(pos) == pos + 1 + voutIdxs[pos + 1]

\* Mutant: the count word is left as it was.
withVoutUncounted(pos, vout) ==
  [k \in 1 .. Len(voutIdxs) + 1 |->
     CASE k = insertAt(pos) + 1 -> vout
       [] k > insertAt(pos) + 1 -> voutIdxs[k - 1]
       [] OTHER                 -> voutIdxs[k]]

\* The array with vout added to the run at pos: the words from insertAt on
\* move up by one, and the count grows by one.
withVout(pos, vout) ==
  [k \in 1 .. Len(voutIdxs) + 1 |->
     CASE k = insertAt(pos) + 1 -> vout
       [] k > insertAt(pos) + 1 -> voutIdxs[k - 1]
       [] k = pos + 1           -> voutIdxs[k] + 1
       [] OTHER                 -> voutIdxs[k]]

\* Mutant: the run is written twice over for a parent that is known.
appendKnownTwice(hash, vout) ==
  LET idx == indexOf(hash)
  IN  \/ /\ idx = -1
         /\ parentTxHashes' = Append(parentTxHashes, hash)
         /\ voutIdxs' = voutIdxs \o <<1, vout>>
      \/ /\ idx # -1
         /\ voutIdxs' = withVout(runStart(idx), vout) \o <<1, vout>>
         /\ UNCHANGED parentTxHashes

appendInput(hash, vout) ==
  LET idx == indexOf(hash)
  IN  \/ /\ idx = -1
         /\ parentTxHashes' = Append(parentTxHashes, hash)
         /\ voutIdxs' = voutIdxs \o <<1, vout>>
      \/ /\ idx # -1
         /\ voutIdxs' = withVout(runStart(idx), vout)
         /\ UNCHANGED parentTxHashes

\* The loop of newSizedFromInputs.
newSizedFromInputs ==
  /\ done < Len(inputs)
  /\ appendInput(inputs[done + 1][1], inputs[done + 1][2])
  /\ done' = done + 1
  /\ UNCHANGED <<inputs, hashesNil>>

-----------------------------------------------------------------------------
(* Serialization.                                                          *)

\* ErrParentTxHashesMismatch
mismatch ==
  \/ parentTxHashes = << >> /\ voutIdxs # << >>
  \/ parentTxHashes # << >> /\ Len(voutIdxs) < Len(parentTxHashes)

\* The fields Serialize writes: a hash or a uint32 is one field.
serialized == <<Len(parentTxHashes)>> \o parentTxHashes \o voutIdxs

\* Mutant: a run that is cut short is taken as it is.
runEndUnchecked(b, at) ==
  IF at # -1 /\ at < Len(b) THEN Min({Len(b), at + 1 + b[at + 1]}) ELSE -1

\* Where the run that begins after field at of b ends, or -1 if b ends first.
runEnd(b, at) ==
  IF at # -1 /\ at < Len(b) /\ at + 1 + b[at + 1] <= Len(b)
  THEN at + 1 + b[at + 1]
  ELSE -1

\* deserializeFromReader: how many fields were consumed and what they were,
\* or that the reader ended too soon.
deserialize(b) ==
  LET parentCount == b[1]
      end[i \in 0 .. parentCount] ==
        IF i = 0 THEN 1 + parentCount ELSE runEnd(b, end[i - 1])
      eof == [ok |-> FALSE]
  IN  IF b = << >> THEN eof
      ELSE IF parentCount = 0
      THEN [ok |-> TRUE, used |-> 1, hashes |-> << >>, idxs |-> << >>]
      ELSE IF Len(b) < 1 + parentCount \/ end[parentCount] = -1 THEN eof
      ELSE [ok |-> TRUE, used |-> end[parentCount],
            hashes |-> SubSeq(b, 2, 1 + parentCount),
            idxs |-> SubSeq(b, 2 + parentCount, end[parentCount])]

\* Work goes on with what NewTxInpointsFromBytes makes of Serialize's bytes.
Reload ==
  LET p == deserialize(serialized)
  IN  /\ done = Len(inputs)
      /\ ~mismatch
      /\ p.ok
      /\ parentTxHashes' = p.hashes
      /\ hashesNil' = (p.hashes = << >>)
      /\ voutIdxs' = p.idxs
      /\ UNCHANGED <<inputs, done>>

Next == newSizedFromInputs \/ Reload

Spec == Init /\ [][Next]_vars

-----------------------------------------------------------------------------
(* Properties.                                                             *)

\* The fields have their types; no parent is listed twice.
TypeOK ==
  /\ done \in 0 .. Len(inputs)
  /\ parentTxHashes \in Seq(Parents)
  /\ IsInjective(parentTxHashes)
  /\ hashesNil \in BOOLEAN
  /\ voutIdxs \in Seq(Nat)

\* The invariant stated with voutIdxs: walking over as many runs as there are
\* parents ends where the array ends, and no run is empty.
RunsMatchParents ==
  /\ runStart(Len(parentTxHashes)) = Len(voutIdxs)
  /\ \A i \in 0 .. Len(parentTxHashes) - 1 : voutIdxs[runStart(i) + 1] >= 1

\* The buffers of newSizedFromInputs are never outgrown: n hashes and 2n words
\* hold n inputs, whichever of them share a parent.
NeverGrows ==
  [][newSizedFromInputs =>
       /\ Len(parentTxHashes') <= Len(inputs)
       /\ Len(voutIdxs') <= 2 * Len(inputs)]_vars

\* Every input comes back from GetTxInpoints as often as it was appended, and
\* the number it sizes its result with is the number it returns.
NothingLost ==
  LET occurrences(s, e) == Cardinality({i \in DOMAIN s : s[i] = e})
  IN  /\ nrInputs = Len(GetTxInpoints)
      /\ \A e \in Parents \X Vouts :
           occurrences(GetTxInpoints, e) = occurrences(SubSeq(inputs, 1, done), e)

\* Meta writes the inpoints of all nodes one after the other and reads them
\* back the same way: reading consumes exactly what was written, whatever
\* follows, and anything less is an error.
SelfDelimiting ==
  LET n == Len(serialized)
      p == deserialize(serialized \o serialized)
  IN  /\ p.ok
      /\ p.used = n
      /\ p.hashes = parentTxHashes
      /\ p.idxs = voutIdxs
      /\ \A k \in 0 .. n - 1 : ~deserialize(SubSeq(serialized, 1, k)).ok

\* The layout implements the map from parents to outputs spent.
Abstract == INSTANCE InpointMap WITH
  order <- parentTxHashes,
  spent <- [hash \in ToSet(parentTxHashes) |-> voutSliceForParent(indexOf(hash))]

ImplementsInpointMap == Abstract!Spec
=============================================================================
