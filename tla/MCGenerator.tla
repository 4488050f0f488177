----------------------------- MODULE MCGenerator -----------------------------
(***************************************************************************)
(* Small instances of the hand-over of candidate blocks.                   *)
(***************************************************************************)
EXTENDS Generator
=============================================================================
