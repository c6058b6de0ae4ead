------------------------------ MODULE NodeList ------------------------------
(***************************************************************************)
(* What the methods of Subtree that take the lock promise about the node   *)
(* list, to any number of goroutines: each takes effect at once and as a   *)
(* whole, and the list never outgrows the tree.                            *)
(***************************************************************************)
EXTENDS Naturals, Sequences

CONSTANTS Hashes, TreeSize

VARIABLE list

Init == list \in UNION {[1 .. n -> Hashes] : n \in 0 .. TreeSize}

Add(hash) == Len(list) < TreeSize /\ list' = Append(list, hash)

Remove(index) ==
  list' = SubSeq(list, 1, index) \o SubSeq(list, index + 2, Len(list))

Next ==
  \/ \E hash \in Hashes : Add(hash)
  \/ \E index \in 0 .. Len(list) - 1 : Remove(index)

Spec == Init /\ [][Next]_list
=============================================================================
