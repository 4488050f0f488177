------------------------------ MODULE MCWallet ------------------------------
(***************************************************************************)
(* A small instance of the wallet: one name besides the addresses of two   *)
(* keys.                                                                   *)
(***************************************************************************)
EXTENDS Wallet

CONSTANTS gold, addr1, addr2, k1, k2

MCEncodeAddress == [k \in Key |-> IF k = k1 THEN addr1 ELSE addr2]
=============================================================================
