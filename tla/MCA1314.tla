------------------------------ MODULE MCA1314 ------------------------------
(***************************************************************************)
(* Model checking of A1314, with the keys of MCA1644.                      *)
(***************************************************************************)
EXTENDS A1314

MCKeys     == {"Left", "F8"}
MCMods     == {"LCtrl", "LAlt"}
MCSpecials == {"Eject", "Fn"}
=============================================================================
