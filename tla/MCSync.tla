------------------------------- MODULE MCSync -------------------------------
(***************************************************************************)
(* A small instance of nodes that keep the same chain.                     *)
(***************************************************************************)
EXTENDS Sync

CONSTANTS a, b

MCTwo == {<<a, b>>}
=============================================================================
