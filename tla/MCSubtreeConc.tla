--------------------------- MODULE MCSubtreeConc ----------------------------
(***************************************************************************)
(* Two transactions; the torn hash is a term no list of them has as root.  *)
(***************************************************************************)
EXTENDS SubtreeConc

MCHashes == {<<2>>, <<3>>}
MCTorn == <<9>>
=============================================================================
