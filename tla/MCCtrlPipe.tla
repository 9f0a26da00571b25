----------------------------- MODULE MCCtrlPipe -----------------------------
(***************************************************************************)
(* CtrlPipe with bytes of eight values and three commands: exit, with an   *)
(* empty structure, close, and open, whose structure precedes a host name. *)
(***************************************************************************)
EXTENDS CtrlPipe

Exit  == 0
Close == 1
Open  == 2
Structures == (Exit :> 0) @@ (Close :> 2) @@ (Open :> 3)
=============================================================================
