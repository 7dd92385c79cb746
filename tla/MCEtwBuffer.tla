----------------------------- MODULE MCEtwBuffer -----------------------------
(***************************************************************************)
(* EtwBuffer with a size_type of 4 bits and items of 2 bytes, so that      *)
(* MaxCapacity is 6: growth meets every branch of the loop within a few    *)
(* calls.  Three heap blocks are one more than a correct Buffer ever       *)
(* holds.                                                                  *)
(***************************************************************************)
EXTENDS EtwBuffer
=============================================================================
