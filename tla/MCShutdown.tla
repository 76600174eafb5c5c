----------------------------- MODULE MCShutdown -----------------------------
(***************************************************************************)
(* A start, and two signals at any point from then on.                     *)
(***************************************************************************)
EXTENDS Shutdown
=============================================================================
