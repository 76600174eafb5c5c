------------------------------ MODULE MCA1644 ------------------------------
(***************************************************************************)
(* Model checking of A1644: one key that Fn translates and one that it     *)
(* turns into a media key, LCtrl and one more modifier.                     *)
(***************************************************************************)
EXTENDS A1644

MCKeys     == {"Left", "F8"}
MCMods     == {"LCtrl", "LAlt"}
MCSpecials == {"Eject", "Fn"}
=============================================================================
