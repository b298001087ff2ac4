----------------------------- MODULE MCReceive -----------------------------
(***************************************************************************)
(* Receive.tla with a buffer of a few bytes, which messages can fill to    *)
(* the last one, overrun, or leave with half a message or half a header.   *)
(***************************************************************************)
EXTENDS ReceiveInv

MCLens == {2, 3}
=============================================================================
