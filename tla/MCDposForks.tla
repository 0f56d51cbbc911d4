---------------------------- MODULE MCDposForks -----------------------------
(***************************************************************************)
(* Four producers: one on the side of the node, three on the other.        *)
(***************************************************************************)
EXTENDS DposForks

CONSTANTS P1, P2, P3, P4

FourProducers == <<P1, P2, P3, P4>>
=============================================================================
