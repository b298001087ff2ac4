----------------------------- MODULE MCMemQueue -----------------------------
(***************************************************************************)
(* A ring of a few bytes, small enough for the writer to lap the reader.   *)
(* The room left at the end takes every value from 0 up, so it is met both *)
(* with space for a filler header and without.                             *)
(***************************************************************************)
EXTENDS MemQueueInv

MCLens == {2, 3, 5}
=============================================================================
