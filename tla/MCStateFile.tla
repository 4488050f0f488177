----------------------------- MODULE MCStateFile -----------------------------
(***************************************************************************)
(* Small instances of the state database's file: a name with an account in *)
(* its own stock, alone or next to a second name.                          *)
(***************************************************************************)
EXTENDS StateFile

CONSTANTS n1, n2

MCAccount == {<<n1, n1>>}
=============================================================================
