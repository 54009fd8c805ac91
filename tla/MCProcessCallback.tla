------------------------- MODULE MCProcessCallback -------------------------
(***************************************************************************)
(* Small instances of ProcessCallback for TLC: two channels, one buffer    *)
(* that fits, one whose second channel is unmapped, one whose second       *)
(* channel is too small and one with a bad header.                         *)
(***************************************************************************)
EXTENDS ProcessCallback, TLC

CONSTANTS b1, b2, b3, b4

MCCapacity ==
    b1 :> <<2, 2>> @@ b2 :> <<2, 0>> @@ b3 :> <<2, 1>> @@ b4 :> <<2, 2>>

=============================================================================
