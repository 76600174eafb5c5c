--------------------------- MODULE MCPersistence ---------------------------
(***************************************************************************)
(* Model checking of Persistence: the bound is a plain number.             *)
(***************************************************************************)
EXTENDS Persistence
=============================================================================
