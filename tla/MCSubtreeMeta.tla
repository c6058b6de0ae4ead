--------------------------- MODULE MCSubtreeMeta ----------------------------
(***************************************************************************)
(* Two transactions, of which the second has no inputs.                    *)
(***************************************************************************)
EXTENDS SubtreeMeta

MCTxs == {[Hash |-> <<2>>, Fee |-> 0, SizeInBytes |-> 0],
          [Hash |-> <<3>>, Fee |-> 0, SizeInBytes |-> 0]}
MCNoInputs == {<<3>>}
MCView == <<subtree, meta>>
=============================================================================
