--------------------------- MODULE MCBlockMerkle ----------------------------
(***************************************************************************)
(* Two transaction hashes, so that equal and different leaves meet in every *)
(* position, and up to nine leaves: one more than a full tree of height 3. *)
(***************************************************************************)
EXTENDS BlockMerkle

MCTxHashes == {<<2>>, <<3>>}
=============================================================================
