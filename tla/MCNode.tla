------------------------------- MODULE MCNode -------------------------------
(***************************************************************************)
(* Small instances of a node: of two transactions the second spends what   *)
(* the first one pays; a single one is an issue, which cannot be applied a *)
(* second time.                                                            *)
(***************************************************************************)
EXTENDS Node

MCNeeds == [t \in Trx |-> IF t = 2 THEN {1} ELSE {}]
MCClashes == [t \in Trx |-> IF NumTrx = 1 THEN {t} ELSE {}]
=============================================================================
