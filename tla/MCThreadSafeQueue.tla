-------------------------- MODULE MCThreadSafeQueue --------------------------
(*****************************************************************************)
(* Small instances of ThreadSafeQueue for TLC.                              *)
(*****************************************************************************)
EXTENDS ThreadSafeQueue
==============================================================================
