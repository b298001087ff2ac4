---------------------------- MODULE MCServices ----------------------------
(***************************************************************************)
(* Services.tla with few processes and datagrams.                          *)
(***************************************************************************)
EXTENDS ServicesInv
=============================================================================
