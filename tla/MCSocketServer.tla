--------------------------- MODULE MCSocketServer ---------------------------
(***************************************************************************)
(* Small instances of SocketServer for TLC.                                *)
(***************************************************************************)
EXTENDS SocketServer, TLC

\* Threads and descriptors are interchangeable (safety runs only).
Symmetry == Permutations(Threads) \cup Permutations(FDs)
=============================================================================
