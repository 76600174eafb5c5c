---------------------------- MODULE PairingSpec ----------------------------
(***************************************************************************)
(* What the pairing functions of bluetooth/bt.cpp promise to those who     *)
(* call them: bluetoothd gets one Pair call at a time, and a web request   *)
(* is answered with a message that bluetoothd has sent about the pairing   *)
(* the request is about.  Locks, flags and threads are those of Pairing,   *)
(* which implements this specification.                                    *)
(***************************************************************************)
EXTENDS Naturals

VARIABLES
    n,              \* how many pairings have been begun
    open,           \* those of them that bluetoothd has not brought to an end
    serving,        \* the request that is served: "begin", which has not sent its Pair
                    \* call, "waiting", which has, "end", or "none"
    answer          \* what the last request was answered

vars == <<n, open, serving, answer>>

\* A message is about a pairing and is either the reply that ends it or a request of
\* the agent.  One that is copied while it is written is about nothing.
About(m, pairings) == m.status = "Torn" \/ m.of \in pairings

\* The end of a pairing is told when it has ended.
Told(m) == m.status # "Torn" /\ m.final => m.of \notin open

Init ==
    /\ n = 0 /\ open = {}
    /\ serving = "none"
    /\ answer.to = "none"

Asked ==
    /\ serving = "none" /\ serving' \in {"begin", "end"}
    /\ UNCHANGED <<n, open, answer>>

\* The Pair call is sent when bluetoothd has no other.
Begun ==
    /\ serving = "begin" /\ serving' = "waiting"
    /\ open = {} /\ open' = {n + 1}
    /\ n' = n + 1
    /\ UNCHANGED answer

\* bluetoothd replies to the Pair call.
Ended ==
    /\ open # {} /\ open' = {}
    /\ UNCHANGED <<n, serving, answer>>

Answers(to) ==
    /\ serving' = "none"
    /\ answer'.to = to /\ answer'.during = n
    /\ UNCHANGED <<n, open>>

\* A request to begin fails before its Pair call, or times out after it.
BeginFailed ==
    /\ Answers("begin")
    /\ \/ serving = "begin" /\ answer'.why \notin {"reply", "Pairing operation Timed-out"}
       \/ serving = "waiting" /\ answer'.why = "Pairing operation Timed-out"

\* It is answered with a message about its pairing, or with the reply to the one
\* before, which was on its way.
BeginAnswered ==
    /\ Answers("begin") /\ answer'.why = "reply"
    /\ serving = "waiting"
    /\ \/ About(answer'.msg, {n})
       \/ About(answer'.msg, {n - 1}) /\ answer'.msg.final
    /\ Told(answer'.msg)

EndFailed ==
    /\ Answers("end") /\ answer'.why = "Pairing operation Timed-out"
    /\ serving = "end"

\* A request to end takes what there is, about whatever pairing, but none that never
\* was.
EndAnswered ==
    /\ Answers("end") /\ answer'.why = "reply"
    /\ serving = "end"
    /\ About(answer'.msg, 1 .. n) /\ Told(answer'.msg)

Next == Asked \/ Begun \/ Ended \/ BeginFailed \/ BeginAnswered \/ EndFailed \/ EndAnswered

Spec == Init /\ [][Next]_vars
=============================================================================
