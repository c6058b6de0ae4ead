-------------------------- MODULE MCSubtreeReader ---------------------------
(***************************************************************************)
(* A stream of one node and one conflicting node, and one of two nodes.    *)
(* The view leaves out what is remembered of arrays that nothing refers to *)
(* and of files that are not mapped yet (it is overwritten when they are   *)
(* given out or mapped), and what only mapped arrays have of others.       *)
(***************************************************************************)
EXTENDS SubtreeReader, TLC

CONSTANTS f1, f2

MCLeaves == f1 :> 1 @@ f2 :> 2
MCConflicts == f1 :> 1 @@ f2 :> 0

MCView ==
  LET held == {a \in Arrays \ fds : ~unused(a)}
      heldMapped == held \cap mapped
  IN  <<st, whole, job, [a \in held |-> content[a]], heldMapped, pool,
        released \cap heldMapped, files, fds, maps, closed \cap heldMapped>>

MCSymmetry == Permutations(Subtrees)
=============================================================================
