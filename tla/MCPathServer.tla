---------------------------- MODULE MCPathServer -----------------------------
(*****************************************************************************)
(* Small instances of PathServer for TLC.                                   *)
(*****************************************************************************)
EXTENDS PathServer
==============================================================================
