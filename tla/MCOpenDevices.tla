--------------------------- MODULE MCOpenDevices ---------------------------
(***************************************************************************)
(* Model checking of OpenDevices: an Apple keyboard, which the requests    *)
(* are about, and another one.                                             *)
(***************************************************************************)
EXTENDS OpenDevices

MCDevs    == {"kb1", "kb2"}
MCReqDevs == {"kb1"}
MCApple   == {"kb1"}
MCDocs    == {"doc"}
MCReqDocs == {"doc", Bad}

\* Bounds on the files at the beginning: the second keyboard has its settings only.
MCInit ==
    /\ Init
    /\ \A k \in Filter : /\ file[k]["kb1"] = "doc"
                         /\ file[k]["kb2"] = IF k = 0 THEN "doc" ELSE NoFile

MCSpec     == MCInit /\ [][Next]_vars
MCFairSpec == MCSpec /\ Fairness
=============================================================================
