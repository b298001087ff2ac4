---------------------------- MODULE MCTransmit ----------------------------
(***************************************************************************)
(* Transmit.tla with a socket and a buffer of a few bytes: a message may   *)
(* be taken whole or in part, wait, or exceed the limit.                   *)
(***************************************************************************)
EXTENDS TransmitInv

MCLens == {1, 3}
=============================================================================
