----------------------------- MODULE MCSession -----------------------------
(***************************************************************************)
(* Session.tla on a small number of connections.                           *)
(***************************************************************************)
EXTENDS SessionInv, TLC

\* Connections are interchangeable: none is named in Session.tla.
ConnSymmetry == Permutations(Conns)
=============================================================================
