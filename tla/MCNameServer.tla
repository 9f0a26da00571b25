---------------------------- MODULE MCNameServer ----------------------------
(***************************************************************************)
(* NameServer with process ids of one digit and of two.                    *)
(***************************************************************************)
EXTENDS NameServer

PidSet == {<<1>>, <<2>>, <<1, 2>>}
=============================================================================
