--------------------------- MODULE MCStateDatabase ---------------------------
(***************************************************************************)
(* A small instance of the state database: one stock name and the          *)
(* addresses of two key holders.                                           *)
(***************************************************************************)
EXTENDS StateDatabase

CONSTANTS gold, addr1, addr2, k1, k2

MCEncodeAddress == [k \in Key |-> IF k = k1 THEN addr1 ELSE addr2]
=============================================================================
