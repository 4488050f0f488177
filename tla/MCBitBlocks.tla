---------------------------- MODULE MCBitBlocks ----------------------------
(***************************************************************************)
(* Small instances of the block store.  A megabyte is 4, the 8 bytes of    *)
(* blowfish are 2 and size_t has 4 bits.                                   *)
(***************************************************************************)
EXTENDS BitBlocks

CONSTANTS p1, p2, two, one, odd, j1, j2

\* A file of a full and a short block, one of a short block, and one that ends
\* within a pad.
MCSize == two :> 6 @@ one :> 2 @@ odd :> 3
MCHolds == p1 :> {two} @@ p2 :> {two, one}
=============================================================================
