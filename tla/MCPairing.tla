----------------------------- MODULE MCPairing -----------------------------
(***************************************************************************)
(* Model checking of Pairing: the bounds are plain numbers.                *)
(***************************************************************************)
EXTENDS Pairing
=============================================================================
