-------------------------------- MODULE App --------------------------------
(***************************************************************************)
(* The user interface in the browser: raspikey-ui-vue/src/App.vue and its  *)
(* one modal dialogue (components/ModalDialog.vue).  Its functions are     *)
(* asynchronous: each runs up to an await, for an answer of the server or  *)
(* a click in the dialogue, and others run in between.                     *)
(*                                                                         *)
(* The server (external) takes the requests that are under way in any      *)
(* order.  The overlay of an open dialogue (vue-material, external) keeps  *)
(* the user from everything behind it; Escape and a click beside it close  *)
(* it.  Only the answers that depend on the state of the server, or change *)
(* it, are kept while they are on their way.                               *)
(***************************************************************************)
CONSTANTS
    Polls,          \* bound: the calls of updateUi under way at a time
    Requests        \* functions that make one request and show an error, if any:
                    \* saveState, setSettings, uploadKeymap, deleteKeymap, downloadKeymap

Others    == {"pairDevice", "changeDiscovery", "resetState"}
Flows     == Polls \cup Requests \cup Others
Switchers == Polls \cup {"changeDiscovery"}

ASSUME FlowsAssumption ==
    /\ Polls \cap (Requests \cup Others) = {} /\ Requests \cap Others = {}
    /\ {"closed", "none"} \cap Flows = {}

VARIABLES
    busy, connected, discovery,     \* the data of App.vue
    showDialog,         \* whose text the dialogue shows, or "closed"
    promiseResolve,     \* whose promise a click resolves, or "none"
    at,                 \* what each function awaits, or "none"; bound: one call of each
    got,                \* the answer that is on its way to getDiscovery, setDiscovery
    wanted,             \* what changeDiscovery has asked for
    server,             \* is discovery on, at the server?
    confirmed           \* history: OK was clicked under the warning of resetState

dialog == <<showDialog, promiseResolve>>
switch == <<got, wanted, server>>
vars   == <<busy, connected, discovery, dialog, at, switch, confirmed>>

Flip(v) == IF v = "on" THEN "off" ELSE "on"

Init ==
    /\ busy = FALSE /\ connected = FALSE
    /\ discovery = "off" /\ wanted = "off"
    /\ server \in {"on", "off"}
    /\ showDialog = "closed" /\ promiseResolve = "none"
    /\ at = [f \in Flows |-> "none"]
    /\ got = [f \in Switchers |-> "none"]
    /\ confirmed = FALSE

Awaits(f, step) == at' = [at EXCEPT ![f] = step]

\* The call of updateUi at the end of pairDevice, if the bound leaves room for it.
UpdateUiToo(steps) ==
    LET free == {p \in Polls : steps[p] = "none"}
    IN  IF free = {} THEN steps ELSE [steps EXCEPT ![CHOOSE p \in free : TRUE] = "getInfo"]

-----------------------------------------------------------------------------
(* ModalDialog.vue.                                                        *)

\* Mutant of ShowModal: a promise that is there already is kept.
ShowModalKeepsPromise(f, step) ==
    /\ showDialog' = f
    /\ promiseResolve' = IF showDialog = "closed" THEN f ELSE promiseResolve
    /\ Awaits(f, step)

\* Another text and another promise take the place of those that are there.
ShowModal(f, step) ==
    /\ showDialog' = f
    /\ promiseResolve' = f
    /\ Awaits(f, step)

\* The warning of resetState has a second button.
Buttons ==
    IF at[showDialog] = "warning" THEN {"Ok", "Cancel"} ELSE {"Ok"}

\* How a function goes on after the click it awaits.
AfterClick(step, button) ==
    CASE step = "pinCode"                   -> "endPairDevice"
      [] step = "warning" /\ button = "Ok"  -> "deleteData"
      [] OTHER                              -> "none"

\* The function runs on to its next await, or its end, before anything else does;
\* pairDevice ends with its finally block.
Click ==
    /\ showDialog # "closed"
    /\ showDialog' = "closed" /\ promiseResolve' = "none"
    /\ \E button \in Buttons :
          LET f     == promiseResolve
              steps == [at EXCEPT ![f] = AfterClick(@, button)]
          IN  /\ IF f = "pairDevice" /\ at[f] = "told"
                   THEN busy' = FALSE /\ at' = UpdateUiToo(steps)
                   ELSE at' = steps /\ UNCHANGED busy
              /\ confirmed' = IF at[showDialog] = "warning" THEN button = "Ok" ELSE confirmed
    /\ UNCHANGED <<connected, discovery, switch>>

\* Closed without a button: no promise is resolved.
Dismiss ==
    /\ showDialog # "closed"
    /\ showDialog' = "closed" /\ promiseResolve' = "none"
    /\ UNCHANGED <<busy, connected, discovery, at, switch, confirmed>>

\* A function that waits for a click in a dialogue that is not there any more.
Lost(f) == at[f] \in {"told", "pinCode", "warning"} /\ showDialog # f

-----------------------------------------------------------------------------
(* updateUi, every five seconds.                                           *)

\* The early return is the guard; at is not "none" for a call under way.
UpdateUi(p) ==
    /\ ~busy
    /\ at[p] = "none"
    /\ Awaits(p, "getInfo")
    /\ UNCHANGED <<busy, connected, discovery, dialog, switch, confirmed>>

InfoGot(p) ==
    /\ at[p] = "getInfo"
    /\ Awaits(p, "getDiscovery")
    /\ UNCHANGED <<busy, connected, discovery, dialog, switch, confirmed>>

\* Mutant of DiscoveryGot: the answer is not awaited.
DiscoveryGotAtOnce(p) ==
    /\ at[p] = "getDiscovery"
    /\ discovery' = got[p]
    /\ got' = [got EXCEPT ![p] = "none"]
    /\ Awaits(p, "getDevices")
    /\ UNCHANGED <<busy, connected, dialog, wanted, server, confirmed>>

\* Mutant of DiscoveryGot: the answer does not reach the switch.
DiscoveryGotNot(p) ==
    /\ at[p] = "getDiscovery" /\ got[p] # "none"
    /\ got' = [got EXCEPT ![p] = "none"]
    /\ Awaits(p, "getDevices")
    /\ UNCHANGED <<busy, connected, discovery, dialog, wanted, server, confirmed>>

DiscoveryGot(p) ==
    /\ at[p] = "getDiscovery" /\ got[p] # "none"
    /\ discovery' = got[p]
    /\ got' = [got EXCEPT ![p] = "none"]
    /\ Awaits(p, "getDevices")
    /\ UNCHANGED <<busy, connected, dialog, wanted, server, confirmed>>

\* Any of its requests may fail.
UpdateUiEnds(p) ==
    /\ \/ at[p] = "getDevices" /\ connected' = TRUE
       \/ at[p] # "none" /\ connected' = FALSE
    /\ got' = [got EXCEPT ![p] = "none"]
    /\ Awaits(p, "none")
    /\ UNCHANGED <<busy, discovery, dialog, wanted, server, confirmed>>

PollStep(p) == InfoGot(p) \/ DiscoveryGot(p) \/ UpdateUiEnds(p)

-----------------------------------------------------------------------------
(* What the user starts, with no dialogue in front of it.  A function that *)
(* is lost waits for ever, and the next call takes its place here.         *)

Clickable(f) == showDialog = "closed" /\ (at[f] = "none" \/ Lost(f))

\* Neither these nor a reset wait for busy.
RequestClicked(f) ==
    /\ Clickable(f) /\ connected
    /\ Awaits(f, "request")
    /\ UNCHANGED <<busy, connected, discovery, dialog, switch, confirmed>>

RequestStep(f) ==
    /\ at[f] = "request"
    /\ \/ Awaits(f, "none") /\ UNCHANGED dialog
       \/ ShowModal(f, "told")
    /\ UNCHANGED <<busy, connected, discovery, switch, confirmed>>

ResetState ==
    /\ Clickable("resetState") /\ connected
    /\ ShowModal("resetState", "warning")
    /\ confirmed' = FALSE
    /\ UNCHANGED <<busy, connected, discovery, switch>>

ResetStep ==
    /\ at["resetState"] = "deleteData"
    /\ \/ Awaits("resetState", "none") /\ UNCHANGED dialog
       \/ ShowModal("resetState", "told")
    /\ confirmed' = FALSE
    /\ UNCHANGED <<busy, connected, discovery, switch>>

\* The switch has changed when changeDiscovery is called.
ChangeDiscovery ==
    /\ Clickable("changeDiscovery") /\ ~busy
    /\ busy' = TRUE
    /\ discovery' = Flip(discovery) /\ wanted' = Flip(discovery)
    /\ Awaits("changeDiscovery", "setDiscovery")
    /\ UNCHANGED <<connected, dialog, got, server, confirmed>>

\* Mutant of ChangeDiscoveryEnds: busy is reset on success only.
ChangeDiscoveryEndsBusy ==
    /\ got["changeDiscovery"] # "none"
    /\ IF got["changeDiscovery"] = "fail"
         THEN discovery' = Flip(discovery) /\ UNCHANGED busy
         ELSE busy' = FALSE /\ UNCHANGED discovery
    /\ got' = [got EXCEPT !["changeDiscovery"] = "none"] /\ wanted' = "off"
    /\ Awaits("changeDiscovery", "none")
    /\ UNCHANGED <<connected, dialog, server, confirmed>>

\* After a failure the switch is turned back, from whatever it shows by then.
ChangeDiscoveryEnds ==
    /\ got["changeDiscovery"] # "none"
    /\ discovery' = IF got["changeDiscovery"] = "fail" THEN Flip(discovery) ELSE discovery
    /\ busy' = FALSE
    /\ got' = [got EXCEPT !["changeDiscovery"] = "none"] /\ wanted' = "off"
    /\ Awaits("changeDiscovery", "none")
    /\ UNCHANGED <<connected, dialog, server, confirmed>>

-----------------------------------------------------------------------------
(* pairDevice.                                                             *)

\* Mutant of PairDevice: the button is not disabled by busy.
PairDeviceAnyTime ==
    /\ Clickable("pairDevice") /\ connected
    /\ busy' = TRUE
    /\ Awaits("pairDevice", "beginPairDevice")
    /\ UNCHANGED <<connected, discovery, dialog, switch, confirmed>>

PairDevice ==
    /\ Clickable("pairDevice") /\ connected /\ ~busy
    /\ busy' = TRUE
    /\ Awaits("pairDevice", "beginPairDevice")
    /\ UNCHANGED <<connected, discovery, dialog, switch, confirmed>>

PairGoes(step, next) == at["pairDevice"] = step /\ Awaits("pairDevice", next) /\ UNCHANGED dialog
PairTells(step, next) == at["pairDevice"] = step /\ ShowModal("pairDevice", next)

\* Any request may fail; the wait of a second is part of the one after it.
PairStep ==
    /\ \/ PairTells("beginPairDevice", "pinCode")
       \/ PairGoes("beginPairDevice", "endPairDevice")
       \/ PairGoes("endPairDevice", "connectDevice")
       \/ PairGoes("connectDevice", "trustDevice")
       \/ \E step \in {"beginPairDevice", "endPairDevice", "connectDevice", "trustDevice"} :
             PairTells(step, "told")
    /\ UNCHANGED <<busy, connected, discovery, switch, confirmed>>

-----------------------------------------------------------------------------
(* The server, and whoever else uses it.                                   *)

AnswerDiscovery(p) ==
    /\ at[p] = "getDiscovery" /\ got[p] = "none"
    /\ got' = [got EXCEPT ![p] = server]
    /\ UNCHANGED <<busy, connected, discovery, dialog, at, wanted, server, confirmed>>

\* A request that fails may have been done all the same.
AnswerSwitch ==
    /\ at["changeDiscovery"] = "setDiscovery" /\ got["changeDiscovery"] = "none"
    /\ \/ got' = [got EXCEPT !["changeDiscovery"] = "ok"] /\ server' = wanted
       \/ got' = [got EXCEPT !["changeDiscovery"] = "fail"] /\ server' \in {server, wanted}
    /\ UNCHANGED <<busy, connected, discovery, dialog, at, wanted, confirmed>>

OtherClient ==
    /\ server' = Flip(server)
    /\ UNCHANGED <<busy, connected, discovery, dialog, at, got, wanted, confirmed>>

Next ==
    \/ \E p \in Polls : UpdateUi(p) \/ PollStep(p) \/ AnswerDiscovery(p)
    \/ \E f \in Requests : RequestClicked(f) \/ RequestStep(f)
    \/ ResetState \/ ResetStep
    \/ ChangeDiscovery \/ AnswerSwitch \/ ChangeDiscoveryEnds
    \/ PairDevice \/ PairStep
    \/ Click \/ Dismiss
    \/ OtherClient

\* The timer goes on, the server answers every request, and what is answered is
\* handled.  The user need not do anything.
Fairness ==
    /\ \A p \in Polls :
          SF_vars(UpdateUi(p)) /\ WF_vars(PollStep(p)) /\ WF_vars(AnswerDiscovery(p))
    /\ \A f \in Requests : WF_vars(RequestStep(f))
    /\ WF_vars(ResetStep)
    /\ WF_vars(AnswerSwitch) /\ WF_vars(ChangeDiscoveryEnds)
    /\ WF_vars(PairStep)

Spec == Init /\ [][Next]_vars /\ Fairness

-----------------------------------------------------------------------------
(* Properties.                                                             *)

Steps == {"none", "getInfo", "getDiscovery", "getDevices", "request", "told", "warning",
          "deleteData", "setDiscovery", "beginPairDevice", "pinCode", "endPairDevice",
          "connectDevice", "trustDevice"}

\* The variables keep their types: what the switch shows is an answer, never the lack
\* of one (App.vue:151).
TypeOK ==
    /\ busy \in BOOLEAN /\ connected \in BOOLEAN /\ confirmed \in BOOLEAN
    /\ discovery \in {"on", "off"} /\ wanted \in {"on", "off"} /\ server \in {"on", "off"}
    /\ showDialog \in Flows \cup {"closed"} /\ promiseResolve \in Flows \cup {"none"}
    /\ at \in [Flows -> Steps]
    /\ got \in [Switchers -> {"none", "ok", "fail", "on", "off"}]

Pairing   == at["pairDevice"] # "none"
Switching == at["changeDiscovery"] # "none"

\* busy is shared by two functions that know nothing of each other, each of which
\* resets it when it ends: it is set while one of them is under way, and both never
\* are (App.vue:130, :172).
BusyIsOne == (busy <=> Pairing \/ Switching) /\ ~(Pairing /\ Switching)

\* RaspiKey is reset only when OK was clicked under the warning, though other texts
\* may have taken its place, or closed with it (App.vue:115, ModalDialog.vue:41).
ResetConfirmed == at["resetState"] = "deleteData" => confirmed

\* The interface stays busy no longer than its requests take, up to a dialogue that
\* the user may leave open; only a pairing whose dialogue was dismissed, or replaced
\* by another text, keeps it busy for ever (App.vue:129-138, :171-196).
BusyEnds == busy ~> ~busy \/ showDialog = "pairDevice" \/ Lost("pairDevice")

\* A switch that shows something else than the server has gets right again, whatever
\* old answers come late, as long as the server answers the polling and no pairing
\* holds it up (App.vue:127-166).
SwitchFollows == discovery # server ~> discovery = server \/ ~connected \/ Pairing
=============================================================================
