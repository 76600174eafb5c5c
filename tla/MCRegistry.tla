----------------------------- MODULE MCRegistry -----------------------------
(***************************************************************************)
(* Model checking of Registry: the adapter on the board, another one that  *)
(* may be plugged in, and the devices they have found.                     *)
(***************************************************************************)
EXTENDS Registry

MCAdapters  == {"hci0", "hci1"}
MCDevices   == {"kb1", "kb2", "kb3"}
MCAdapterOf == [d \in MCDevices |-> IF d = "kb3" THEN "hci1" ELSE "hci0"]
=============================================================================
