------------------------------- MODULE MCApp -------------------------------
(***************************************************************************)
(* Two calls of updateUi that may overlap, saveState for the functions     *)
(* that make one request, a pairing, the discovery switch and a reset.     *)
(***************************************************************************)
EXTENDS App

MCPolls    == {"updateUi1", "updateUi2"}
MCRequests == {"saveState"}
=============================================================================
