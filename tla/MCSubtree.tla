----------------------------- MODULE MCSubtree ------------------------------
(***************************************************************************)
(* Two transactions with different fees and sizes.                         *)
(***************************************************************************)
EXTENDS Subtree

MCTxs == {[Hash |-> <<2>>, Fee |-> 1, SizeInBytes |-> 1],
          [Hash |-> <<3>>, Fee |-> 2, SizeInBytes |-> 1]}
=============================================================================
