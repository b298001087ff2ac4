---------------------------- MODULE MCLifecycle ----------------------------
(***************************************************************************)
(* Lifecycle.tla with two slots and a few processes, enough for a restart  *)
(* inside either handler and for two deaths behind one signal.             *)
(***************************************************************************)
EXTENDS LifecycleInv
=============================================================================
