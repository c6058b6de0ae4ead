----------------------------- MODULE InpointMap -----------------------------
(***************************************************************************)
(* What a TxInpoints stands for, without its layout: the parents of a      *)
(* transaction in the order in which its inputs first name them, and for   *)
(* each the outputs spent, in the order of the inputs.                     *)
(***************************************************************************)
EXTENDS Sequences

CONSTANTS
  Parents,  \* hashes of parent transactions
  Vouts     \* output indexes

VARIABLES
  order,  \* the parents, each once
  spent   \* the outputs spent of each of them

vars == <<order, spent>>

Init ==
  /\ order = << >>
  /\ spent = [hash \in {} |-> << >>]

\* One more input: output vout of transaction hash.
Spend(hash, vout) ==
  LET known == hash \in DOMAIN spent
  IN  /\ order' = IF known THEN order ELSE Append(order, hash)
      /\ spent' = [p \in DOMAIN spent \cup {hash} |->
                     IF p # hash THEN spent[p]
                     ELSE IF known THEN Append(spent[hash], vout)
                     ELSE <<vout>>]

Next == \E hash \in Parents, vout \in Vouts : Spend(hash, vout)

Spec == Init /\ [][Next]_vars
=============================================================================
