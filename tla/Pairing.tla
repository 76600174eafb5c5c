------------------------------ MODULE Pairing ------------------------------
(***************************************************************************)
(* The pairing protocol of bluetooth/bt.cpp: the web thread runs           *)
(* BeginPairDevice and EndPairDevice, the bluetooth thread runs            *)
(* OnAgentNotify (called by the agent's methods, bluetooth/agent.cpp) and  *)
(* OnPairDeviceReply.  They share g_bIsPairing, under g_mutex, and         *)
(* g_pairingReplyMessage and g_bHasPairingReplyMessage, under no lock: a   *)
(* step here is one access to one of them.                                 *)
(*                                                                         *)
(* Crow runs one worker thread, so that one request is served at a time    *)
(* (crow_all.h, external).  bluetoothd (external) answers each Pair call   *)
(* once, asks its agent nothing about a call it has answered, and D-Bus    *)
(* keeps its messages in order: a message is sent when it is dispatched.   *)
(***************************************************************************)
EXTENDS Integers

CONSTANTS
    MaxAttempts,    \* bound on the Pair calls
    BeginPolls,     \* rounds of the polling loop of BeginPairDevice (100)
    EndPolls        \* rounds of the polling loop of EndPairDevice (300)

ASSUME MaxAttemptsAssumption == MaxAttempts \in Nat
ASSUME PollsAssumption == BeginPolls \in Nat \ {0} /\ EndPolls \in Nat \ {0}

VARIABLES
    g_bIsPairing,
    g_bHasPairingReplyMessage,
    g_pairingReplyMessage,
    web,            \* where the web thread is
    count,          \* its polling counter
    bt,             \* where the bluetooth thread is
    incoming,       \* the message the bluetooth thread is handling
    attempt,        \* the number of Pair calls sent
    calls,          \* the Pair calls whose reply has not been dispatched
    answer          \* what the last request was answered

flags   == <<g_bIsPairing, g_bHasPairingReplyMessage, g_pairingReplyMessage>>
bluez   == <<attempt, calls>>
webVars == <<web, count, answer>>
btVars  == <<bt, incoming>>
vars    == <<flags, bluez, webVars, btVars>>

\* A ReplyMessage, with what the code does not keep: which Pair call it is
\* about, and whether it is that call's reply or an agent request.
Statuses == {"Fail", "Success", "PinCode"}
Messages == [status : Statuses, of : Nat, final : BOOLEAN]
NoMessage == [status |-> "Fail", of |-> 0, final |-> TRUE]

\* What OnAgentNotify (a code, or nothing to show) and OnPairDeviceReply
\* (an error or not) make of a message about call a.
AgentMessages(a) == [status : {"PinCode", "Success"}, of : {a}, final : {FALSE}]
PairReplies(a)   == [status : {"Fail", "Success"}, of : {a}, final : {TRUE}]

\* The copy of a string that the other thread is assigning.
Torn == [status |-> "Torn", of |-> 0, final |-> FALSE]

NoAnswer == [to |-> "none", during |-> 0, why |-> "none", msg |-> NoMessage]

\* An answer without a ReplyMessage: an exception or a time-out.
Failure(to, why) == [to |-> to, during |-> attempt, why |-> why, msg |-> NoMessage]
Reply(to, m)     == [to |-> to, during |-> attempt, why |-> "reply", msg |-> m]

Init ==
    /\ g_bIsPairing = FALSE
    /\ g_bHasPairingReplyMessage = FALSE
    /\ g_pairingReplyMessage = NoMessage
    /\ web = "idle" /\ bt = "idle"
    /\ count = 0
    /\ incoming = NoMessage
    /\ attempt = 0 /\ calls = {}
    /\ answer = NoAnswer

WebGoto(from, to) == web = from /\ web' = to
BtGoto(from, to)  == bt = from /\ bt' = to

-----------------------------------------------------------------------------
(* The web thread: BeginPairDevice.                                        *)

BeginPairDevice ==
    /\ attempt < MaxAttempts
    /\ WebGoto("idle", "beginLock")
    /\ UNCHANGED <<flags, bluez, count, answer, btVars>>

BeginRefused ==
    /\ g_bIsPairing
    /\ WebGoto("beginLock", "idle")
    /\ answer' = Failure("begin", "Already pairing with a device")
    /\ UNCHANGED <<flags, bluez, count, btVars>>

BeginLocked ==
    /\ ~g_bIsPairing
    /\ WebGoto("beginLock", "beginFind")
    /\ g_bIsPairing' = TRUE
    /\ UNCHANGED <<g_bHasPairingReplyMessage, g_pairingReplyMessage, bluez, count, answer, btVars>>

\* No address, or no such device.
BeginNotAvailable ==
    /\ WebGoto("beginFind", "idle")
    /\ answer' = Failure("begin", "Device not available")
    /\ UNCHANGED <<flags, bluez, count, btVars>>

\* Mutant of BeginFound: a message of the pairing before is left there.
BeginFoundKeeps ==
    /\ WebGoto("beginFind", "beginCall")
    /\ UNCHANGED <<flags, bluez, count, answer, btVars>>

BeginFound ==
    /\ WebGoto("beginFind", "beginCall")
    /\ g_bHasPairingReplyMessage' = FALSE
    /\ UNCHANGED <<g_bIsPairing, g_pairingReplyMessage, bluez, count, answer, btVars>>

BeginNotSent ==
    /\ WebGoto("beginCall", "idle")
    /\ answer' = Failure("begin", "Failed to pair")
    /\ UNCHANGED <<flags, bluez, count, btVars>>

BeginSent ==
    /\ WebGoto("beginCall", "beginPoll")
    /\ attempt' = attempt + 1
    /\ calls' = calls \cup {attempt + 1}
    /\ count' = 0
    /\ UNCHANGED <<flags, answer, btVars>>

\* Mutants of PollAgain: the loop counts down; the loop has no bound.
PollAgainDown(at, polls) ==
    /\ WebGoto(at, at)
    /\ ~g_bHasPairingReplyMessage /\ count + 1 < polls
    /\ count' = count - 1
    /\ UNCHANGED <<flags, bluez, answer, btVars>>

PollForEver(at, polls) ==
    /\ WebGoto(at, at)
    /\ ~g_bHasPairingReplyMessage
    /\ count' = IF count + 1 < polls THEN count + 1 ELSE 0
    /\ UNCHANGED <<flags, bluez, answer, btVars>>

\* The polling loop: "while (!g_bHasPairingReplyMessage && ++count < 100)".
PollAgain(at, polls) ==
    /\ WebGoto(at, at)
    /\ ~g_bHasPairingReplyMessage /\ count + 1 < polls
    /\ count' = count + 1
    /\ UNCHANGED <<flags, bluez, answer, btVars>>

PollDone(at, to, polls) ==
    /\ WebGoto(at, to)
    /\ g_bHasPairingReplyMessage \/ count + 1 >= polls
    /\ UNCHANGED <<flags, bluez, count, answer, btVars>>

BeginPollsAgain == PollAgain("beginPoll", BeginPolls)
BeginPolled     == PollDone("beginPoll", "beginTest", BeginPolls)

\* "if (g_bHasPairingReplyMessage)", and the assignment in the branch taken.
BeginTakes ==
    /\ g_bHasPairingReplyMessage
    /\ WebGoto("beginTest", "beginTake")
    /\ UNCHANGED <<flags, bluez, count, answer, btVars>>

BeginClears ==
    /\ WebGoto("beginTake", "beginCopy")
    /\ g_bHasPairingReplyMessage' = FALSE
    /\ UNCHANGED <<g_bIsPairing, g_pairingReplyMessage, bluez, count, answer, btVars>>

BeginGivesUp ==
    /\ ~g_bHasPairingReplyMessage
    /\ WebGoto("beginTest", "beginGiveUp")
    /\ UNCHANGED <<flags, bluez, count, answer, btVars>>

\* Mutant of BeginTimesOut: the time-out ends the pairing for the flag alone,
\* without cancelling the Pair call.
BeginTimesOutFreesFlag ==
    /\ WebGoto("beginGiveUp", "idle")
    /\ g_bHasPairingReplyMessage' = FALSE
    /\ g_bIsPairing' = FALSE
    /\ answer' = Failure("begin", "Pairing operation Timed-out")
    /\ UNCHANGED <<g_pairingReplyMessage, bluez, count, btVars>>

BeginTimesOut ==
    /\ WebGoto("beginGiveUp", "idle")
    /\ g_bHasPairingReplyMessage' = FALSE
    /\ answer' = Failure("begin", "Pairing operation Timed-out")
    /\ UNCHANGED <<g_bIsPairing, g_pairingReplyMessage, bluez, count, btVars>>

\* What a copy of g_pairingReplyMessage may yield: while the bluetooth thread
\* assigns it, the old one, the new one or neither.
Copies == {g_pairingReplyMessage} \cup
          (IF bt \in {"notifyAssign", "replyAssign"} THEN {incoming, Torn} ELSE {})

BeginReturns ==
    /\ WebGoto("beginCopy", "idle")
    /\ \E m \in Copies : answer' = Reply("begin", m)
    /\ UNCHANGED <<flags, bluez, count, btVars>>

-----------------------------------------------------------------------------
(* The web thread: EndPairDevice, which leaves the flag as it is.          *)

EndPairDevice ==
    /\ WebGoto("idle", "endPoll")
    /\ count' = 0
    /\ UNCHANGED <<flags, bluez, answer, btVars>>

EndPollsAgain == PollAgain("endPoll", EndPolls)
EndPolled     == PollDone("endPoll", "endTest", EndPolls)

\* Mutant of EndTakes: the flag is not tested again behind the loop.
EndTakesUntested ==
    /\ WebGoto("endTest", "endCopy")
    /\ UNCHANGED <<flags, bluez, count, answer, btVars>>

EndTakes ==
    /\ g_bHasPairingReplyMessage
    /\ WebGoto("endTest", "endCopy")
    /\ UNCHANGED <<flags, bluez, count, answer, btVars>>

EndTimesOut ==
    /\ ~g_bHasPairingReplyMessage
    /\ WebGoto("endTest", "idle")
    /\ answer' = Failure("end", "Pairing operation Timed-out")
    /\ UNCHANGED <<flags, bluez, count, btVars>>

EndReturns ==
    /\ WebGoto("endCopy", "idle")
    /\ \E m \in Copies : answer' = Reply("end", m)
    /\ UNCHANGED <<flags, bluez, count, btVars>>

-----------------------------------------------------------------------------
(* The bluetooth thread.                                                   *)

\* An agent method (DisplayPasskey, DisplayPinCode, RequestConfirmation) calls
\* OnAgentNotify.
OnAgentNotify ==
    /\ BtGoto("idle", "notifyTest")
    /\ \E a \in calls : incoming' \in AgentMessages(a)
    /\ UNCHANGED <<flags, bluez, webVars>>

\* "if (!g_bIsPairing) return".
NotifyTested ==
    /\ BtGoto("notifyTest", IF g_bIsPairing THEN "notifyAssign" ELSE "idle")
    /\ UNCHANGED <<flags, bluez, webVars, incoming>>

\* The reply to a Pair call: an error, also the one D-Bus makes after 300
\* seconds, or none.
OnPairDeviceReply ==
    /\ BtGoto("idle", "replyLock")
    /\ \E a \in calls : incoming' \in PairReplies(a) /\ calls' = calls \ {a}
    /\ UNCHANGED <<flags, attempt, webVars>>

\* Mutant of ReplyLocked: the flag is not reset.
ReplyLockedKeepsFlag ==
    /\ BtGoto("replyLock", IF g_bIsPairing THEN "replyAssign" ELSE "idle")
    /\ UNCHANGED <<flags, bluez, webVars, incoming>>

\* Under the lock: the return when no pairing is going on, or the end of it.
ReplyLocked ==
    /\ BtGoto("replyLock", IF g_bIsPairing THEN "replyAssign" ELSE "idle")
    /\ g_bIsPairing' = FALSE
    /\ UNCHANGED <<g_bHasPairingReplyMessage, g_pairingReplyMessage, bluez, webVars, incoming>>

\* Both assign the message, then set the flag.
Assign(from, to) ==
    /\ BtGoto(from, to)
    /\ g_pairingReplyMessage' = incoming
    /\ UNCHANGED <<g_bIsPairing, g_bHasPairingReplyMessage, bluez, webVars, incoming>>

Publish(from) ==
    /\ BtGoto(from, "idle")
    /\ g_bHasPairingReplyMessage' = TRUE
    /\ UNCHANGED <<g_bIsPairing, g_pairingReplyMessage, bluez, webVars, incoming>>

NotifyAssigns   == Assign("notifyAssign", "notifyPublish")
NotifyPublishes == Publish("notifyPublish")
ReplyAssigns    == Assign("replyAssign", "replyPublish")
ReplyPublishes  == Publish("replyPublish")

-----------------------------------------------------------------------------
\* The handlers once a request has come in.
WebStep ==
    \/ BeginRefused \/ BeginLocked \/ BeginNotAvailable \/ BeginFound
    \/ BeginNotSent \/ BeginSent \/ BeginPollsAgain \/ BeginPolled
    \/ BeginTakes \/ BeginClears \/ BeginReturns
    \/ BeginGivesUp \/ BeginTimesOut
    \/ EndPollsAgain \/ EndPolled \/ EndTakes \/ EndTimesOut \/ EndReturns

Request == BeginPairDevice \/ EndPairDevice

\* The bluetooth thread in a callback.
BtStep ==
    \/ NotifyTested \/ NotifyAssigns \/ NotifyPublishes
    \/ ReplyLocked \/ ReplyAssigns \/ ReplyPublishes

Next == Request \/ WebStep \/ OnAgentNotify \/ BtStep \/ OnPairDeviceReply

Spec == Init /\ [][Next]_vars

\* Both threads run, the polling loops are bounded, and every Pair call is
\* answered, if only by the D-Bus time-out; nobody has to send a request, and
\* no agent request has to come.
Fairness == WF_vars(WebStep) /\ WF_vars(BtStep) /\ SF_vars(OnPairDeviceReply)

FairSpec == Spec /\ Fairness

-----------------------------------------------------------------------------
(* Properties.                                                             *)

WebAt == {"idle", "beginLock", "beginFind", "beginCall", "beginPoll", "beginTest",
          "beginTake", "beginCopy", "beginGiveUp", "endPoll", "endTest", "endCopy"}
BtAt  == {"idle", "notifyTest", "notifyAssign", "notifyPublish",
          "replyLock", "replyAssign", "replyPublish"}

Reasons == {"none", "reply", "Already pairing with a device", "Device not available",
            "Failed to pair", "Pairing operation Timed-out"}
Answers == [to : {"none", "begin", "end"}, during : Nat, why : Reasons,
            msg : Messages \cup {Torn}]

TypeOK ==
    /\ g_bIsPairing \in BOOLEAN
    /\ g_bHasPairingReplyMessage \in BOOLEAN
    /\ g_pairingReplyMessage \in Messages
    /\ web \in WebAt /\ bt \in BtAt
    /\ count \in Nat
    /\ incoming \in Messages
    /\ attempt \in Nat
    /\ calls \in SUBSET Nat
    /\ answer \in Answers

\* The Pair calls whose reply has not taken the lock.
Outstanding == calls \cup {a \in {incoming.of} : bt = "replyLock"}

\* g_bIsPairing does what it is for: one pairing at a time.  While a Pair call is
\* outstanding it is the last one sent and the flag refuses the next.
OnePairingAtATime ==
    \A a \in Outstanding : a = attempt /\ g_bIsPairing /\ web # "beginCall"

\* A pin code shown for a pairing is that pairing's; a final reply shown for it is
\* its own, or that of the pairing before it and no older: the reply handler
\* gives the lock up before it publishes, once.
BeginAnswerOrigin ==
    answer.to = "begin" /\ answer.why = "reply" /\ answer.msg # Torn =>
        \/ answer.msg.of = answer.during
        \/ answer.msg.final /\ answer.msg.of = answer.during - 1

InNotify == bt \in {"notifyTest", "notifyAssign", "notifyPublish"}
InReply  == bt \in {"replyAssign", "replyPublish"}

\* Where the reply to the pairing before this one may still be published from.
Fresh(m) == m.of = attempt \/ (m.final /\ m.of = attempt - 1)

\* Between the lock and the Pair call no pairing is outstanding.
BeginExclusive ==
    web \in {"beginFind", "beginCall"} => g_bIsPairing /\ Outstanding = {} /\ ~InNotify

\* What the bluetooth thread handles is about the last call, or it is the reply
\* to the call before, held between the lock and its publication.
IncomingOrigin ==
    /\ InNotify => ~incoming.final /\ incoming.of = attempt /\ incoming.of \in calls
    /\ bt = "replyLock" => incoming.final /\ incoming.of \notin calls
    /\ InReply => /\ incoming.final
                  /\ \/ incoming.of = attempt /\ calls = {}
                     \/ /\ incoming.of = attempt - 1
                        /\ g_bIsPairing /\ web \notin {"beginFind", "beginCall"}
    /\ bt \in {"notifyPublish", "replyPublish"} => g_pairingReplyMessage = incoming

\* What BeginPairDevice may find in g_pairingReplyMessage once it has cleared the
\* flag: nothing that was published before.
PublishedOrigin ==
    /\ web = "beginCall" /\ g_bHasPairingReplyMessage =>
          g_pairingReplyMessage.final /\ g_pairingReplyMessage.of = attempt
    /\ web \in {"beginPoll", "beginTest"} /\ g_bHasPairingReplyMessage =>
          Fresh(g_pairingReplyMessage)
    /\ web \in {"beginTake", "beginCopy"} => Fresh(g_pairingReplyMessage)

\* The inductive invariant.
IInv ==
    /\ TypeOK
    /\ OnePairingAtATime /\ BeginExclusive
    /\ IncomingOrigin /\ PublishedOrigin
    /\ BeginAnswerOrigin

\* No request waits for ever: the one worker thread comes back to the others.
RequestsAnswered == web # "idle" ~> web = "idle"

\* A pairing whose Pair call was sent is over some time and lets the next one begin.
PairingEnds == calls # {} ~> ~g_bIsPairing

-----------------------------------------------------------------------------
(* What the functions promise: PairingSpec.                                *)

Serving == CASE web = "idle" -> "none"
             [] web \in {"beginLock", "beginFind", "beginCall"} -> "begin"
             [] web \in {"beginPoll", "beginTest", "beginTake", "beginCopy", "beginGiveUp"} ->
                  "waiting"
             [] OTHER -> "end"

Promise == INSTANCE PairingSpec WITH n <- attempt, open <- Outstanding, serving <- Serving

\* Seen from bluetoothd and from the user, two threads that poll and publish through
\* a flag without a lock are one exchange at a time: a Pair call goes out when the one
\* before has ended, an answer is about a pairing there was, and that a pairing is
\* over is not told before it is (bt.cpp:338-445).
PairingAsPromised == Promise!Spec

\* For it: a message that is or was published is about a pairing there was, and if it
\* is a reply, about one that is over.
SlotKnown ==
    /\ \A a \in calls : a \in 1 .. attempt
    /\ bt # "idle" => incoming.of \in 1 .. attempt
    /\ g_pairingReplyMessage.of \in 0 .. attempt
    /\ g_pairingReplyMessage.final => g_pairingReplyMessage.of \notin Outstanding
    /\ g_bHasPairingReplyMessage \/ web \in {"endCopy", "beginTake", "beginCopy"} =>
          g_pairingReplyMessage.of >= 1

-----------------------------------------------------------------------------
(* What messages and comments say, which the code does not do.             *)

\* bt.cpp:380: "Already pairing with a device" is said only while a pairing is
\* going on.
RefusedOnlyWhilePairing ==
    [][BeginRefused => Outstanding # {}]_vars
=============================================================================
