-------------------------- MODULE MCProductionLoop --------------------------
(***************************************************************************)
(* An instance of ProductionLoop for TLC: a schedule of two producers of   *)
(* this node and one of another.                                           *)
(***************************************************************************)
EXTENDS ProductionLoop

CONSTANTS me, too, other

ThreeInTurn == <<me, too, other>>
=============================================================================
