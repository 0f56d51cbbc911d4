-------------------------- MODULE MCTransactionFlow --------------------------
(***************************************************************************)
(* An instance of TransactionFlow for TLC: one is delayed by a slot and    *)
(* cancels a deferred transaction sent; two starts a nested transaction    *)
(* inner, which sends it, and sent sends itself again when it runs.  After *)
(* one has run inner fails, and two with it; after sent has run one fails. *)
(* In the first slot two still expires too far in the future; a delayed    *)
(* one that nobody runs expires in the last.                               *)
(***************************************************************************)
EXTENDS TransactionFlow

CONSTANTS one, two, inner, sent

Programs ==
    [p \in {one, two, inner, sent} |->
        CASE p = one -> [op |-> "cancel", prog |-> sent]
          [] p = two -> [op |-> "nest", prog |-> inner]
          [] p = inner -> [op |-> "defer", prog |-> sent]
          [] p = sent -> [op |-> "replace", prog |-> sent]]

Delays == [t \in {one, two} |-> IF t = one THEN 1 ELSE 0]
Lifetimes == [t \in {one, two} |-> IF t = one THEN 2 ELSE 3]
Enemies == {<<one, inner>>, <<sent, one>>}
=============================================================================
