---------------------------- MODULE MCBlockChain ----------------------------
(***************************************************************************)
(* Small instances of block validation.                                    *)
(***************************************************************************)
EXTENDS BlockChain
=============================================================================
