----------------------------- MODULE App_proofs -----------------------------
(***************************************************************************)
(* Proofs about App, for any number of calls of updateUi and any functions *)
(* that make one request.                                                  *)
(***************************************************************************)
EXTENDS App, Integers, TLAPS

\* What a function may wait for.
StepsOf(f) ==
    CASE f \in Polls          -> {"none", "getInfo", "getDiscovery", "getDevices"}
      [] f \in Requests       -> {"none", "request", "told"}
      [] f = "resetState"     -> {"none", "warning", "deleteData", "told"}
      [] f = "changeDiscovery" -> {"none", "setDiscovery"}
      [] OTHER                -> {"none", "beginPairDevice", "pinCode", "endPairDevice",
                                  "connectDevice", "trustDevice", "told"}

Awaiting == {"told", "pinCode", "warning"}

\* An open dialogue shows the text of the function whose promise a click resolves,
\* and that function waits for the click.
DialogOfWaiting ==
    showDialog # "closed" => promiseResolve = showDialog /\ at[showDialog] \in Awaiting

\* An answer is on its way to changeDiscovery only while it is waited for.
AnswerAwaited == got["changeDiscovery"] # "none" => Switching

\* What updateUi is answered is a state of the server.
AnswerIsState == \A p \in Polls : got[p] \in {"none", "on", "off"}

\* The inductive invariant.
IInv ==
    /\ TypeOK
    /\ \A f \in Flows : at[f] \in StepsOf(f)
    /\ DialogOfWaiting
    /\ AnswerAwaited
    /\ AnswerIsState
    /\ BusyIsOne
    /\ ResetConfirmed

-----------------------------------------------------------------------------
(* Which function is which.                                                *)

LEMMA FlowsApart ==
    /\ \A f \in Polls : f \notin Requests \cup Others
    /\ \A f \in Requests : f \notin Others
    /\ "closed" \notin Flows /\ "none" \notin Flows
    /\ {"pairDevice", "changeDiscovery", "resetState"} \subseteq Flows
    /\ "changeDiscovery" \in Switchers /\ Switchers \subseteq Flows
BY FlowsAssumption DEF Flows, Others, Switchers

LEMMA StepsOfEach ==
    /\ \A f \in Polls : StepsOf(f) = {"none", "getInfo", "getDiscovery", "getDevices"}
    /\ \A f \in Requests : StepsOf(f) = {"none", "request", "told"}
    /\ StepsOf("resetState") = {"none", "warning", "deleteData", "told"}
    /\ StepsOf("changeDiscovery") = {"none", "setDiscovery"}
    /\ StepsOf("pairDevice") = {"none", "beginPairDevice", "pinCode", "endPairDevice",
                                "connectDevice", "trustDevice", "told"}
BY FlowsApart DEF StepsOf, Others

LEMMA StepsTyped == \A f \in Flows : StepsOf(f) \subseteq Steps
BY StepsOfEach DEF Flows, Others, Steps

\* A function that goes on to a step of its own, and no other function moves.
LEMMA GoesOn ==
    ASSUME IInv, NEW f \in Flows, NEW step \in StepsOf(f), Awaits(f, step)
    PROVE  /\ at' \in [Flows -> Steps] /\ at'[f] = step
           /\ \A g \in Flows : at'[g] \in StepsOf(g)
           /\ \A g \in Flows : g # f => at'[g] = at[g]
BY StepsTyped DEF IInv, TypeOK, Awaits

\* The other variables of TypeOK.
DataOK ==
    /\ busy \in BOOLEAN /\ connected \in BOOLEAN /\ confirmed \in BOOLEAN
    /\ discovery \in {"on", "off"} /\ wanted \in {"on", "off"} /\ server \in {"on", "off"}
    /\ showDialog \in Flows \cup {"closed"} /\ promiseResolve \in Flows \cup {"none"}
    /\ got \in [Switchers -> {"none", "ok", "fail", "on", "off"}]

-----------------------------------------------------------------------------
(* Steps that leave busy, and who holds it, alone.                         *)

\* A call of updateUi has no part in the invariant.
LEMMA PollKeeps ==
    ASSUME IInv, NEW p \in Polls, NEW step \in StepsOf(p), Awaits(p, step), DataOK',
           UNCHANGED <<busy, dialog, confirmed>>, UNCHANGED got["changeDiscovery"],
           AnswerIsState'
    PROVE  IInv'
<1>1. p \in Flows /\ p \notin Requests \cup Others
  BY FlowsApart DEF Flows
<1>2. /\ at' \in [Flows -> Steps] /\ \A g \in Flows : at'[g] \in StepsOf(g)
      /\ \A g \in Flows : g # p => at'[g] = at[g]
  BY <1>1, GoesOn
<1>3. \A f \in Others : at'[f] = at[f]
  BY <1>1, <1>2 DEF Flows
<1>4. DialogOfWaiting'
  <2>1. showDialog # "closed" => showDialog \in Flows /\ showDialog # p
    <3>1. at[p] \notin Awaiting
      BY <1>1, StepsOfEach DEF IInv, Awaiting
    <3> QED BY <3>1 DEF IInv, TypeOK, DialogOfWaiting
  <2> QED BY <1>2, <2>1 DEF IInv, DialogOfWaiting, dialog
<1> QED BY <1>2, <1>3, <1>4 DEF IInv, TypeOK, DataOK, AnswerAwaited, BusyIsOne,
           ResetConfirmed, Pairing, Switching, Others

\* A function of the user's other than changeDiscovery and pairDevice goes on,
\* with a dialogue or without one.
LEMMA UserKeeps ==
    ASSUME IInv, NEW f \in Requests \cup {"resetState"}, NEW step \in StepsOf(f),
           UNCHANGED <<busy, connected, discovery, switch>>, confirmed' \in BOOLEAN,
           \/ /\ Awaits(f, step) /\ UNCHANGED dialog
              /\ showDialog # f
           \/ ShowModal(f, step) /\ step \in Awaiting,
           ResetConfirmed'
    PROVE  IInv'
<1>1. f \in Flows /\ f \notin {"pairDevice", "changeDiscovery"}
  BY FlowsApart DEF Flows, Others
<1>2. Awaits(f, step)
  BY DEF ShowModal
<1>3. /\ at' \in [Flows -> Steps] /\ \A g \in Flows : at'[g] \in StepsOf(g)
      /\ at'[f] = step /\ \A g \in Flows : g # f => at'[g] = at[g]
  BY <1>1, <1>2, GoesOn
<1>4. at'["pairDevice"] = at["pairDevice"] /\ at'["changeDiscovery"] = at["changeDiscovery"]
  BY <1>1, <1>3, FlowsApart
<1>5. DialogOfWaiting'
  <2>1. CASE UNCHANGED dialog /\ showDialog # f
    BY <1>3, <2>1 DEF IInv, TypeOK, DialogOfWaiting, dialog
  <2>2. CASE ShowModal(f, step) /\ step \in Awaiting
    BY <1>3, <2>2 DEF ShowModal, DialogOfWaiting
  <2> QED BY <2>1, <2>2
<1>6. showDialog' \in Flows \cup {"closed"} /\ promiseResolve' \in Flows \cup {"none"}
  BY <1>1 DEF ShowModal, dialog, IInv, TypeOK
<1>7. TypeOK'
  BY <1>3, <1>6 DEF IInv, TypeOK, switch
<1> QED BY <1>3, <1>4, <1>5, <1>7 DEF IInv, AnswerAwaited, AnswerIsState, BusyIsOne, Pairing,
           Switching, switch

\* The requests and the reset.
LEMMA RequestsKeep ==
    IInv /\ ((\E f \in Requests : RequestClicked(f) \/ RequestStep(f)) \/ ResetState \/ ResetStep)
        => IInv'
<1> SUFFICES ASSUME IInv,
                    (\E f \in Requests : RequestClicked(f) \/ RequestStep(f))
                        \/ ResetState \/ ResetStep
             PROVE  IInv'
  OBVIOUS
<1>1. \A f \in Flows : showDialog = f => at[f] \in Awaiting
  BY FlowsApart DEF IInv, DialogOfWaiting
<1>2. ASSUME NEW f \in Requests, RequestClicked(f) \/ RequestStep(f) PROVE IInv'
  <2>1. f \in Flows /\ f # "resetState" /\ "resetState" \in Flows
    BY FlowsApart DEF Flows, Others
  <2>2. "request" \in StepsOf(f) /\ "none" \in StepsOf(f) /\ "told" \in StepsOf(f)
    BY StepsOfEach
  <2>3. ASSUME NEW step \in StepsOf(f), Awaits(f, step), UNCHANGED confirmed
        PROVE  ResetConfirmed'
    <3>1. at'["resetState"] = at["resetState"]
      BY <2>1, <2>3, GoesOn
    <3> QED BY <2>3, <3>1 DEF IInv, ResetConfirmed
  <2>4. confirmed \in BOOLEAN
    BY DEF IInv, TypeOK
  <2>5. CASE RequestClicked(f)
    <3>1. showDialog # f
      BY <2>1, <2>5, FlowsApart DEF RequestClicked, Clickable
    <3> QED BY <2>2, <2>3, <2>4, <2>5, <3>1, UserKeeps DEF RequestClicked
  <2>6. CASE RequestStep(f)
    <3>1. showDialog # f
      BY <1>1, <2>1, <2>6 DEF RequestStep, Awaiting
    <3>2. CASE Awaits(f, "none") /\ UNCHANGED dialog
      BY <2>2, <2>3, <2>4, <2>6, <3>1, <3>2, UserKeeps DEF RequestStep
    <3>3. CASE ShowModal(f, "told")
      <4>1. Awaits(f, "told") /\ "told" \in Awaiting
        BY <3>3 DEF ShowModal, Awaiting
      <4> QED BY <2>2, <2>3, <2>4, <2>6, <3>3, <4>1, UserKeeps DEF RequestStep
    <3> QED BY <2>6, <3>2, <3>3 DEF RequestStep
  <2> QED BY <1>2, <2>5, <2>6
<1>3. "resetState" \in Flows
  BY FlowsApart
<1>4. {"none", "warning", "told"} \subseteq StepsOf("resetState") /\ {"warning", "told"} \subseteq Awaiting
  BY StepsOfEach DEF Awaiting
<1>5. ASSUME NEW step \in {"none", "warning", "told"}, Awaits("resetState", step)
      PROVE  ResetConfirmed'
  <2>1. at'["resetState"] = step
    BY <1>3, <1>4, <1>5, GoesOn
  <2> QED BY <1>5, <2>1 DEF ResetConfirmed
<1>6. CASE ResetState
  <2>1. ShowModal("resetState", "warning") /\ Awaits("resetState", "warning")
    BY <1>6 DEF ResetState, ShowModal
  <2> QED BY <1>4, <1>5, <1>6, <2>1, UserKeeps DEF ResetState
<1>7. CASE ResetStep
  <2>1. showDialog # "resetState"
    BY <1>1, <1>3, <1>7 DEF ResetStep, Awaiting
  <2>2. CASE Awaits("resetState", "none") /\ UNCHANGED dialog
    BY <1>4, <1>5, <1>7, <2>1, <2>2, UserKeeps DEF ResetStep
  <2>3. CASE ShowModal("resetState", "told")
    <3>1. Awaits("resetState", "told")
      BY <2>3 DEF ShowModal
    <3> QED BY <1>4, <1>5, <1>7, <2>3, <3>1, UserKeeps DEF ResetStep
  <2> QED BY <1>7, <2>2, <2>3 DEF ResetStep
<1> QED BY <1>2, <1>6, <1>7

LEMMA PollsKeep ==
    IInv /\ (\E p \in Polls : UpdateUi(p) \/ PollStep(p) \/ AnswerDiscovery(p)) => IInv'
<1> SUFFICES ASSUME IInv, NEW p \in Polls, UpdateUi(p) \/ PollStep(p) \/ AnswerDiscovery(p)
             PROVE  IInv'
  OBVIOUS
<1>1. /\ p \in Switchers /\ p # "changeDiscovery"
      /\ StepsOf(p) = {"none", "getInfo", "getDiscovery", "getDevices"}
  BY FlowsApart, StepsOfEach DEF Switchers, Others
<1>2. DataOK /\ AnswerIsState
  BY DEF IInv, TypeOK, DataOK
<1>3. CASE UpdateUi(p)
  BY <1>1, <1>2, <1>3, PollKeeps DEF UpdateUi, AnswerIsState, DataOK, dialog, switch
<1>4. CASE InfoGot(p)
  BY <1>1, <1>2, <1>4, PollKeeps DEF InfoGot, AnswerIsState, DataOK, dialog, switch
<1>5. ASSUME got' = [got EXCEPT ![p] = "none"]
      PROVE  /\ got' \in [Switchers -> {"none", "ok", "fail", "on", "off"}]
             /\ got'["changeDiscovery"] = got["changeDiscovery"]
             /\ AnswerIsState'
  BY <1>1, <1>2, <1>5, FlowsApart DEF DataOK, AnswerIsState, Switchers
<1>6. CASE DiscoveryGot(p)
  <2>1. got[p] \in {"on", "off"}
    BY <1>2, <1>6 DEF DiscoveryGot, AnswerIsState
  <2> QED BY <1>1, <1>2, <1>5, <1>6, <2>1, PollKeeps DEF DiscoveryGot, DataOK, dialog
<1>7. CASE UpdateUiEnds(p)
  BY <1>1, <1>2, <1>5, <1>7, PollKeeps DEF UpdateUiEnds, DataOK, dialog
<1>8. CASE AnswerDiscovery(p)
  <2>1. got'["changeDiscovery"] = got["changeDiscovery"]
    BY <1>1, <1>2, <1>8, FlowsApart DEF AnswerDiscovery, DataOK
  <2>2. got' \in [Switchers -> {"none", "ok", "fail", "on", "off"}]
    BY <1>2, <1>8 DEF AnswerDiscovery, DataOK
  <2>3. AnswerIsState'
    BY <1>2, <1>8 DEF AnswerDiscovery, AnswerIsState, DataOK, Switchers
  <2> QED BY <1>8, <2>1, <2>2, <2>3 DEF AnswerDiscovery, IInv, TypeOK, DialogOfWaiting, dialog,
             AnswerAwaited, BusyIsOne, ResetConfirmed, Pairing, Switching
<1> QED BY <1>3, <1>4, <1>6, <1>7, <1>8 DEF PollStep

-----------------------------------------------------------------------------
(* The two functions that share busy.                                      *)

\* What changeDiscovery does is its own: it has no dialogue.
LEMMA SwitchKeeps ==
    IInv /\ (ChangeDiscovery \/ AnswerSwitch \/ ChangeDiscoveryEnds) => IInv'
<1> SUFFICES ASSUME IInv, ChangeDiscovery \/ AnswerSwitch \/ ChangeDiscoveryEnds PROVE IInv'
  OBVIOUS
<1>1. /\ "changeDiscovery" \in Flows \cap Switchers
      /\ {"pairDevice", "resetState"} \subseteq Flows
      /\ StepsOf("changeDiscovery") = {"none", "setDiscovery"}
      /\ \A p \in Polls : p # "changeDiscovery" /\ p \in Switchers
  BY FlowsApart, StepsOfEach DEF Others, Switchers
<1>2. \A v : Flip(v) \in {"on", "off"}
  BY DEF Flip
<1>3. showDialog # "changeDiscovery"
  BY <1>1, FlowsApart DEF IInv, DialogOfWaiting, Awaiting
<1>4. ASSUME NEW step \in {"none", "setDiscovery"}, Awaits("changeDiscovery", step),
             UNCHANGED <<dialog, confirmed>>
      PROVE  /\ at' \in [Flows -> Steps] /\ \A g \in Flows : at'[g] \in StepsOf(g)
             /\ at'["changeDiscovery"] = step
             /\ at'["pairDevice"] = at["pairDevice"]
             /\ DialogOfWaiting' /\ ResetConfirmed'
  <2>1. /\ at' \in [Flows -> Steps] /\ \A g \in Flows : at'[g] \in StepsOf(g)
        /\ at'["changeDiscovery"] = step
        /\ \A g \in Flows : g # "changeDiscovery" => at'[g] = at[g]
    BY <1>1, <1>4, GoesOn
  <2> QED BY <1>1, <1>3, <1>4, <2>1 DEF IInv, TypeOK, DialogOfWaiting, ResetConfirmed, dialog
<1>5. CASE ChangeDiscovery
  <2>1. TypeOK'
    BY <1>2, <1>4, <1>5 DEF ChangeDiscovery, IInv, TypeOK, dialog
  <2> QED BY <1>4, <1>5, <2>1 DEF ChangeDiscovery, IInv, AnswerAwaited, AnswerIsState,
             BusyIsOne, Pairing, Switching
<1>6. CASE AnswerSwitch
  <2>1. got' \in [Switchers -> {"none", "ok", "fail", "on", "off"}] /\ AnswerIsState'
    BY <1>1, <1>6 DEF AnswerSwitch, IInv, TypeOK, AnswerIsState
  <2>2. server' \in {"on", "off"}
    BY <1>6 DEF AnswerSwitch, IInv, TypeOK
  <2>3. Switching'
    BY <1>6 DEF AnswerSwitch, Switching
  <2> QED BY <1>6, <2>1, <2>2, <2>3 DEF AnswerSwitch, IInv, TypeOK, DialogOfWaiting, dialog,
             AnswerAwaited, BusyIsOne, ResetConfirmed, Pairing, Switching
<1>7. CASE ChangeDiscoveryEnds
  <2>1. Switching
    BY <1>7 DEF ChangeDiscoveryEnds, IInv, AnswerAwaited
  <2>2. /\ got' \in [Switchers -> {"none", "ok", "fail", "on", "off"}]
        /\ got'["changeDiscovery"] = "none" /\ AnswerIsState'
    BY <1>1, <1>7 DEF ChangeDiscoveryEnds, IInv, TypeOK, AnswerIsState
  <2>3. discovery' \in {"on", "off"}
    BY <1>2, <1>7 DEF ChangeDiscoveryEnds, IInv, TypeOK
  <2>4. TypeOK'
    BY <1>4, <1>7, <2>2, <2>3 DEF ChangeDiscoveryEnds, IInv, TypeOK, dialog
  <2> QED BY <1>4, <1>7, <2>1, <2>2, <2>4 DEF ChangeDiscoveryEnds, IInv, AnswerAwaited,
             BusyIsOne, Pairing, Switching
<1> QED BY <1>5, <1>6, <1>7

\* A pairing goes on, with a dialogue or without one, and does not end.
LEMMA PairKeeps ==
    IInv /\ (PairDevice \/ PairStep) => IInv'
<1> SUFFICES ASSUME IInv, PairDevice \/ PairStep PROVE IInv'
  OBVIOUS
<1>1. /\ {"pairDevice", "changeDiscovery", "resetState"} \subseteq Flows
      /\ StepsOf("pairDevice") = {"none", "beginPairDevice", "pinCode", "endPairDevice",
                                  "connectDevice", "trustDevice", "told"}
  BY FlowsApart, StepsOfEach
<1>2. ASSUME NEW step \in StepsOf("pairDevice") \ {"none"}, Awaits("pairDevice", step),
             \/ UNCHANGED dialog /\ showDialog # "pairDevice"
             \/ ShowModal("pairDevice", step) /\ step \in Awaiting,
             UNCHANGED <<connected, discovery, switch, confirmed>>, busy' = TRUE, ~Switching
      PROVE  IInv'
  <2>1. /\ at' \in [Flows -> Steps] /\ \A g \in Flows : at'[g] \in StepsOf(g)
        /\ at'["pairDevice"] = step
        /\ \A g \in Flows : g # "pairDevice" => at'[g] = at[g]
    BY <1>1, <1>2, GoesOn
  <2>2. DialogOfWaiting'
    <3>1. CASE UNCHANGED dialog /\ showDialog # "pairDevice"
      BY <2>1, <3>1 DEF IInv, TypeOK, DialogOfWaiting, dialog
    <3>2. CASE ShowModal("pairDevice", step) /\ step \in Awaiting
      BY <2>1, <3>2 DEF ShowModal, DialogOfWaiting
    <3> QED BY <1>2, <3>1, <3>2
  <2>3. showDialog' \in Flows \cup {"closed"} /\ promiseResolve' \in Flows \cup {"none"}
    BY <1>1, <1>2 DEF ShowModal, dialog, IInv, TypeOK
  <2>4. TypeOK'
    BY <1>2, <2>1, <2>3 DEF IInv, TypeOK, switch
  <2> QED BY <1>1, <1>2, <2>1, <2>2, <2>4 DEF IInv, AnswerAwaited, AnswerIsState, BusyIsOne,
             ResetConfirmed, Pairing, Switching, switch
<1>3. showDialog = "pairDevice" => at["pairDevice"] \in {"told", "pinCode"}
  BY <1>1, FlowsApart DEF IInv, DialogOfWaiting, Awaiting
<1>4. CASE PairDevice
  <2>1. showDialog # "pairDevice" /\ ~Switching
    BY <1>1, <1>4, FlowsApart DEF PairDevice, Clickable, IInv, BusyIsOne
  <2> QED BY <1>1, <1>2, <1>4, <2>1 DEF PairDevice
<1>5. CASE PairStep
  <2>1. at["pairDevice"] \in {"beginPairDevice", "endPairDevice", "connectDevice", "trustDevice"}
    BY <1>5 DEF PairStep, PairTells, PairGoes
  <2>2. busy' = TRUE /\ ~Switching /\ showDialog # "pairDevice"
    BY <1>3, <1>5, <2>1 DEF PairStep, IInv, TypeOK, BusyIsOne, Pairing
  <2>3. PICK step \in StepsOf("pairDevice") \ {"none"} :
           /\ Awaits("pairDevice", step)
           /\ \/ UNCHANGED dialog
              \/ ShowModal("pairDevice", step) /\ step \in Awaiting
    BY <1>1, <1>5 DEF PairStep, PairTells, PairGoes, ShowModal, Awaiting
  <2> QED BY <1>2, <1>5, <2>2, <2>3 DEF PairStep
<1> QED BY <1>4, <1>5

-----------------------------------------------------------------------------
(* The dialogue closes.                                                    *)

\* updateUi at the end of a pairing takes a call that is free.
LEMMA UpdateUiTooType ==
    ASSUME NEW steps \in [Flows -> Steps], \A f \in Flows : steps[f] \in StepsOf(f)
    PROVE  /\ UpdateUiToo(steps) \in [Flows -> Steps]
           /\ \A f \in Flows : UpdateUiToo(steps)[f] \in StepsOf(f)
           /\ \A f \in Flows : f \notin Polls => UpdateUiToo(steps)[f] = steps[f]
<1> DEFINE free == {p \in Polls : steps[p] = "none"}
           one  == CHOOSE p \in free : TRUE
<1>1. CASE free = {}
  BY <1>1 DEF UpdateUiToo
<1>2. CASE free # {}
  <2>1. one \in free
    BY <1>2
  <2>2. one \in Polls /\ one \in Flows
    BY <2>1 DEF Flows
  <2>3. UpdateUiToo(steps) = [steps EXCEPT ![one] = "getInfo"]
    BY <1>2 DEF UpdateUiToo
  <2> HIDE DEF one
  <2>4. "getInfo" \in Steps /\ "getInfo" \in StepsOf(one)
    BY <2>2, StepsOfEach DEF Steps
  <2> QED BY <2>2, <2>3, <2>4
<1> QED BY <1>1, <1>2

\* The click resolves the promise of the function whose text was read, so that it
\* goes on where it was told to.
LEMMA ClickKeeps == IInv /\ Click => IInv'
<1> SUFFICES ASSUME IInv, Click PROVE IInv'
  OBVIOUS
<1> DEFINE f == showDialog
<1>1. /\ f \in Flows /\ f # "closed" /\ promiseResolve = f /\ at[f] \in Awaiting
      /\ showDialog' = "closed" /\ promiseResolve' = "none"
      /\ UNCHANGED <<connected, discovery, switch>>
  BY DEF Click, IInv, TypeOK, DialogOfWaiting
<1>2. PICK button \in Buttons :
         LET steps == [at EXCEPT ![f] = AfterClick(@, button)]
         IN  /\ IF f = "pairDevice" /\ at[f] = "told"
                  THEN busy' = FALSE /\ at' = UpdateUiToo(steps)
                  ELSE at' = steps /\ UNCHANGED busy
             /\ confirmed' = IF at[f] = "warning" THEN button = "Ok" ELSE confirmed
  BY <1>1 DEF Click
<1> DEFINE next  == AfterClick(at[f], button)
           steps == [at EXCEPT ![f] = next]
<1>3. /\ {"pairDevice", "changeDiscovery", "resetState"} \subseteq Flows
      /\ \A g \in Others : g \notin Polls
  BY FlowsApart
<1>4. /\ f \notin Polls /\ f # "changeDiscovery"
      /\ at[f] = "pinCode" => f = "pairDevice"
      /\ at[f] = "warning" => f = "resetState"
  BY <1>1, StepsOfEach DEF IInv, Awaiting, Flows, Others
<1>5. /\ at[f] = "told" => next = "none"
      /\ at[f] = "pinCode" => next = "endPairDevice"
      /\ at[f] = "warning" => next = IF button = "Ok" THEN "deleteData" ELSE "none"
  BY DEF AfterClick
<1> HIDE DEF next
<1>6. next \in StepsOf(f)
  BY <1>1, <1>4, <1>5, StepsOfEach DEF Awaiting, Flows, Others
<1>7. /\ steps \in [Flows -> Steps] /\ steps[f] = next
      /\ \A g \in Flows : steps[g] \in StepsOf(g)
      /\ \A g \in Flows : g # f => steps[g] = at[g]
  BY <1>1, <1>6, StepsTyped DEF IInv, TypeOK
<1> HIDE DEF steps
<1>8. /\ at' \in [Flows -> Steps] /\ \A g \in Flows : at'[g] \in StepsOf(g)
      /\ \A g \in Others : at'[g] = steps[g]
  <2>1. at' = steps \/ at' = UpdateUiToo(steps)
    BY <1>2 DEF steps, next
  <2> QED BY <1>3, <1>7, <2>1, UpdateUiTooType DEF Flows
<1>9. confirmed' = IF at[f] = "warning" THEN button = "Ok" ELSE confirmed
  BY <1>2
<1>10. ResetConfirmed'
  <2>1. CASE f = "resetState"
    BY <1>1, <1>3, <1>4, <1>5, <1>7, <1>8, <1>9, <2>1
       DEF ResetConfirmed, Awaiting, Others
  <2>2. CASE f # "resetState"
    BY <1>3, <1>4, <1>7, <1>8, <1>9, <2>2 DEF IInv, ResetConfirmed, Others
  <2> QED BY <2>1, <2>2
<1>11. BusyIsOne'
  <2>1. at'["changeDiscovery"] = at["changeDiscovery"] /\ at'["pairDevice"] = steps["pairDevice"]
    BY <1>3, <1>4, <1>7, <1>8 DEF Others
  <2>2. CASE f = "pairDevice" /\ at[f] = "told"
    BY <1>2, <1>5, <1>7, <2>1, <2>2 DEF IInv, BusyIsOne, Pairing, Switching
  <2>3. CASE f = "pairDevice" /\ at[f] # "told"
    BY <1>1, <1>2, <1>4, <1>5, <1>7, <2>1, <2>3
       DEF IInv, BusyIsOne, Pairing, Switching, Awaiting
  <2>4. CASE f # "pairDevice"
    BY <1>2, <1>3, <1>7, <2>1, <2>4 DEF IInv, BusyIsOne, Pairing, Switching
  <2> QED BY <2>2, <2>3, <2>4
<1>12. busy' \in BOOLEAN /\ confirmed' \in BOOLEAN
  <2>1. (button = "Ok") \in BOOLEAN
    OBVIOUS
  <2> QED BY <1>2, <1>9, <2>1 DEF IInv, TypeOK
<1>13. TypeOK'
  BY <1>1, <1>8, <1>12 DEF IInv, TypeOK, switch
<1>14. AnswerAwaited'
  BY <1>1, <1>3, <1>4, <1>7, <1>8 DEF IInv, AnswerAwaited, Switching, switch, Others
<1> QED BY <1>1, <1>8, <1>10, <1>11, <1>13, <1>14
       DEF IInv, DialogOfWaiting, AnswerIsState, switch

\* The inductive invariant holds of every behaviour of the interface.
LEMMA Invariance == Spec => []IInv
<1>1. Init => IInv
  <2> SUFFICES ASSUME Init PROVE IInv
    OBVIOUS
  <2>1. \A f \in Flows : "none" \in StepsOf(f)
    BY StepsOfEach DEF Flows, Others
  <2>2. "none" \in Steps
    BY DEF Steps
  <2> QED BY <2>1, <2>2, FlowsApart DEF Init, IInv, TypeOK, DialogOfWaiting, AnswerAwaited,
             AnswerIsState, BusyIsOne, ResetConfirmed, Pairing, Switching, Switchers
<1>2. IInv /\ [Next]_vars => IInv'
  <2> SUFFICES ASSUME IInv, [Next]_vars PROVE IInv'
    OBVIOUS
  <2> USE DEF IInv, TypeOK, DialogOfWaiting, AnswerAwaited, AnswerIsState, BusyIsOne,
              ResetConfirmed, Pairing, Switching
  <2>1. CASE Dismiss
    BY <2>1 DEF Dismiss, switch
  <2>2. CASE OtherClient
    BY <2>2 DEF OtherClient, dialog, Flip
  <2>3. CASE UNCHANGED vars
    BY <2>3 DEF vars, dialog, switch
  <2> QED BY <2>1, <2>2, <2>3, PollsKeep, RequestsKeep, SwitchKeeps, PairKeeps, ClickKeeps
         DEF Next
<1> QED BY <1>1, <1>2, PTL DEF Spec

-----------------------------------------------------------------------------
(* How long busy lasts: a rank of the function that has set it.            *)

\* The steps that a pairing has left, each an answer of the server or a click.
PairLeft ==
    CASE at["pairDevice"] = "beginPairDevice" -> 6
      [] at["pairDevice"] = "pinCode"         -> 5
      [] at["pairDevice"] = "endPairDevice"   -> 4
      [] at["pairDevice"] = "connectDevice"   -> 3
      [] at["pairDevice"] = "trustDevice"     -> 2
      [] at["pairDevice"] = "told"            -> 1
      [] OTHER                                -> 0

\* Those that changeDiscovery has left: the answer, and what is done with it.
SwitchLeft == IF ~Switching THEN 0 ELSE IF got["changeDiscovery"] = "none" THEN 2 ELSE 1

\* A click that pairDevice waits for.
PairClick == Click /\ promiseResolve = "pairDevice"

Counts ==
    /\ PairStep \/ PairClick                 => PairLeft' < PairLeft
    /\ AnswerSwitch \/ ChangeDiscoveryEnds   => SwitchLeft' < SwitchLeft
    /\ Pairing                               => PairLeft' <= PairLeft
    /\ Switching                             => SwitchLeft' <= SwitchLeft

Locations == {"none", "beginPairDevice", "pinCode", "endPairDevice", "connectDevice",
              "trustDevice", "told"}

LEMMA PairLeftTyped ==
    ASSUME at["pairDevice"] \in Locations
    PROVE  PairLeft \in 0..6 /\ (PairLeft = 0 <=> ~Pairing)
BY DEF PairLeft, Pairing, Locations

LEMMA RankTyped ==
    ASSUME IInv
    PROVE  /\ at["pairDevice"] \in Locations /\ "pairDevice" \in Flows
           /\ PairLeft \in 0..6 /\ (PairLeft = 0 <=> ~Pairing)
           /\ SwitchLeft \in 0..2 /\ (SwitchLeft = 0 <=> ~Switching)
<1>1. at["pairDevice"] \in Locations /\ "pairDevice" \in Flows
  BY FlowsApart, StepsOfEach DEF IInv, Locations
<1>2. SwitchLeft \in 0..2 /\ (SwitchLeft = 0 <=> ~Switching)
  BY DEF SwitchLeft
<1> QED BY <1>1, <1>2, PairLeftTyped

\* Where a pairing may go next.
PairGoesOn ==
    \/ at["pairDevice"] = "beginPairDevice" /\ at'["pairDevice"] \in {"pinCode", "endPairDevice", "told"}
    \/ at["pairDevice"] = "pinCode"         /\ at'["pairDevice"] = "endPairDevice"
    \/ at["pairDevice"] = "endPairDevice"   /\ at'["pairDevice"] \in {"connectDevice", "told"}
    \/ at["pairDevice"] = "connectDevice"   /\ at'["pairDevice"] \in {"trustDevice", "told"}
    \/ at["pairDevice"] = "trustDevice"     /\ at'["pairDevice"] = "told"
    \/ at["pairDevice"] = "told"            /\ at'["pairDevice"] = "none"

LEMMA PairGoesDown ==
    ASSUME PairGoesOn
    PROVE  PairLeft' < PairLeft
BY DEF PairGoesOn, PairLeft

\* A click moves the function that waits for it, and at most a poll besides.
LEMMA ClickSteps ==
    ASSUME IInv, Click
    PROVE  /\ promiseResolve \in Flows \ (Polls \cup {"changeDiscovery"})
           /\ at[promiseResolve] \in Awaiting
           /\ \E button \in Buttons : at'[promiseResolve] = AfterClick(at[promiseResolve], button)
           /\ \A g \in Flows \ Polls : g # promiseResolve => at'[g] = at[g]
<1> DEFINE f == promiseResolve
<1>1. f \in Flows /\ at[f] \in Awaiting /\ at \in [Flows -> Steps]
  BY DEF Click, IInv, TypeOK, DialogOfWaiting
<1>2. f \notin Polls /\ f # "changeDiscovery"
  BY <1>1, StepsOfEach, FlowsApart DEF IInv, Awaiting
<1>3. PICK button \in Buttons :
         LET steps == [at EXCEPT ![f] = AfterClick(@, button)]
         IN  IF f = "pairDevice" /\ at[f] = "told"
               THEN at' = UpdateUiToo(steps)
               ELSE at' = steps
  BY DEF Click
<1> DEFINE next  == AfterClick(at[f], button)
           steps == [at EXCEPT ![f] = next]
<1>4. CASE f = "pairDevice" /\ at[f] = "told"
  <2>1. next = "none" /\ at' = UpdateUiToo(steps)
    BY <1>3, <1>4 DEF AfterClick
  <2> HIDE DEF next
  <2>2. /\ steps \in [Flows -> Steps] /\ steps[f] = next
        /\ \A g \in Flows : steps[g] \in StepsOf(g)
        /\ \A g \in Flows : g # f => steps[g] = at[g]
    BY <1>1, <1>4, <2>1, StepsOfEach, StepsTyped DEF IInv
  <2> HIDE DEF steps
  <2>3. /\ at'[f] = next
        /\ \A g \in Flows \ Polls : g # f => at'[g] = at[g]
    BY <1>1, <1>2, <2>1, <2>2, UpdateUiTooType
  <2> QED BY <1>1, <1>2, <2>3 DEF next
<1>5. CASE ~(f = "pairDevice" /\ at[f] = "told")
  <2>1. at' = steps
    BY <1>3, <1>5
  <2> HIDE DEF next
  <2>2. at'[f] = next /\ \A g \in Flows : g # f => at'[g] = at[g]
    BY <1>1, <2>1
  <2> QED BY <1>1, <1>2, <2>2 DEF next
<1> QED BY <1>4, <1>5

\* Its steps are these, and only the button starts it, which busy disables.
LEMMA PairSteps ==
    ASSUME IInv, [Next]_vars
    PROVE  /\ PairStep \/ PairClick => PairGoesOn
           /\ \/ PairGoesOn
              \/ at'["pairDevice"] = at["pairDevice"]
              \/ ~Pairing
<1>1. /\ at \in [Flows -> Steps] /\ "pairDevice" \in Flows
      /\ \A f \in Polls \cup Requests : f \in Flows /\ f # "pairDevice"
      /\ {"resetState", "changeDiscovery"} \subseteq Flows
  BY FlowsApart DEF IInv, TypeOK, Flows, Others
<1>2. PairStep => PairGoesOn
  BY <1>1 DEF PairStep, PairTells, PairGoes, ShowModal, Awaits, PairGoesOn
<1>3. PairClick => PairGoesOn
  <2> SUFFICES ASSUME PairClick PROVE PairGoesOn
    OBVIOUS
  <2>1. at["pairDevice"] \in {"told", "pinCode"}
    BY <1>1, ClickSteps, StepsOfEach DEF PairClick, IInv, Awaiting
  <2>2. at'["pairDevice"] = IF at["pairDevice"] = "told" THEN "none" ELSE "endPairDevice"
    BY <2>1, ClickSteps DEF PairClick, AfterClick
  <2> QED BY <2>1, <2>2 DEF PairGoesOn
<1> SUFFICES PairGoesOn \/ at'["pairDevice"] = at["pairDevice"] \/ ~Pairing
  BY <1>2, <1>3
<1>4. CASE Click /\ promiseResolve # "pairDevice"
  BY <1>1, <1>4, ClickSteps
<1>5. CASE PairDevice
  BY <1>5 DEF PairDevice, IInv, BusyIsOne
<1>6. CASE \E p \in Polls : UpdateUi(p) \/ PollStep(p) \/ AnswerDiscovery(p)
  BY <1>1, <1>6 DEF UpdateUi, PollStep, InfoGot, DiscoveryGot, UpdateUiEnds, AnswerDiscovery, Awaits
<1>7. CASE \E f \in Requests : RequestClicked(f) \/ RequestStep(f)
  BY <1>1, <1>7 DEF RequestClicked, RequestStep, ShowModal, Awaits
<1>8. CASE ResetState \/ ResetStep
  BY <1>1, <1>8 DEF ResetState, ResetStep, ShowModal, Awaits
<1>9. CASE ChangeDiscovery \/ AnswerSwitch \/ ChangeDiscoveryEnds
  BY <1>1, <1>9 DEF ChangeDiscovery, AnswerSwitch, ChangeDiscoveryEnds, Awaits
<1>10. CASE Dismiss \/ OtherClient \/ UNCHANGED vars
  BY <1>10 DEF Dismiss, OtherClient, vars
<1> QED BY <1>2, <1>3, <1>4, <1>5, <1>6, <1>7, <1>8, <1>9, <1>10 DEF Next, PairClick

\* changeDiscovery waits for one answer, which comes once.
LEMMA SwitchSteps ==
    ASSUME IInv, [Next]_vars
    PROVE  /\ AnswerSwitch => SwitchLeft = 2 /\ SwitchLeft' = 1
           /\ ChangeDiscoveryEnds => SwitchLeft = 1 /\ SwitchLeft' = 0
           /\ Switching => SwitchLeft' <= SwitchLeft
<1>1. /\ at \in [Flows -> Steps] /\ "changeDiscovery" \in Flows
      /\ got \in [Switchers -> {"none", "ok", "fail", "on", "off"}]
      /\ \A p \in Polls : p \in Switchers /\ p # "changeDiscovery" /\ p \in Flows
      /\ \A f \in Requests \cup {"resetState", "pairDevice"} : f \in Flows /\ f # "changeDiscovery"
      /\ "changeDiscovery" \in Switchers
  BY FlowsApart DEF IInv, TypeOK, Flows, Others, Switchers
<1>2. AnswerSwitch => SwitchLeft = 2 /\ SwitchLeft' = 1
  BY <1>1 DEF AnswerSwitch, SwitchLeft, Switching
<1>3. ChangeDiscoveryEnds => SwitchLeft = 1 /\ SwitchLeft' = 0
  BY <1>1 DEF ChangeDiscoveryEnds, Awaits, SwitchLeft, Switching, IInv, AnswerAwaited
<1> SUFFICES ASSUME Switching PROVE SwitchLeft' <= SwitchLeft
  BY <1>2, <1>3
<1>4. CASE ChangeDiscovery
  BY <1>4 DEF ChangeDiscovery, IInv, BusyIsOne
<1>5. ASSUME \/ at'["changeDiscovery"] = at["changeDiscovery"]
             \/ at'["changeDiscovery"] = "none",
             got'["changeDiscovery"] = got["changeDiscovery"]
      PROVE  SwitchLeft' <= SwitchLeft
  BY <1>5 DEF SwitchLeft, Switching
<1>6. CASE Click
  <2>1. at'["changeDiscovery"] = at["changeDiscovery"]
    BY <1>1, <1>6, ClickSteps
  <2>2. got' = got
    BY <1>6 DEF Click, switch
  <2> QED BY <1>5, <2>1, <2>2
<1>7. CASE \E p \in Polls : UpdateUi(p) \/ PollStep(p) \/ AnswerDiscovery(p)
  BY <1>1, <1>5, <1>7 DEF UpdateUi, PollStep, InfoGot, DiscoveryGot, UpdateUiEnds,
     AnswerDiscovery, Awaits, switch
<1>8. CASE \E f \in Requests : RequestClicked(f) \/ RequestStep(f)
  BY <1>1, <1>5, <1>8 DEF RequestClicked, RequestStep, ShowModal, Awaits, switch
<1>9. CASE ResetState \/ ResetStep \/ PairDevice \/ PairStep
  BY <1>1, <1>5, <1>9 DEF ResetState, ResetStep, PairDevice, PairStep, PairTells, PairGoes,
     ShowModal, Awaits, switch
<1>10. CASE Dismiss \/ OtherClient \/ UNCHANGED vars
  BY <1>5, <1>10 DEF Dismiss, OtherClient, vars, switch
<1> QED BY <1>2, <1>3, <1>4, <1>6, <1>7, <1>8, <1>9, <1>10 DEF Next

-----------------------------------------------------------------------------
(* Theorems.                                                               *)

\* The switch shows an answer, never the lack of one, and each function waits only
\* for what it has asked for, in whatever order answers, clicks and timers come.
THEOREM TypeCorrect == Spec => []TypeOK
<1>1. IInv => TypeOK
  BY DEF IInv
<1> QED BY <1>1, Invariance, PTL

\* busy, which two functions set and reset, is never reset by one under the other.
THEOREM BusyCorrect == Spec => []BusyIsOne
<1>1. IInv => BusyIsOne
  BY DEF IInv
<1> QED BY <1>1, Invariance, PTL

\* Whatever other texts take the place of the warning, RaspiKey is reset only on a
\* click of OK under it.
THEOREM ResetCorrect == Spec => []ResetConfirmed
<1>1. IInv => ResetConfirmed
  BY DEF IInv
<1> QED BY <1>1, Invariance, PTL

\* What sets busy ends: a pairing has at most six steps, changeDiscovery two, each an
\* answer or a click that takes one of them away, and nothing that the user, the
\* polling or another client does meanwhile adds one.  So only an answer, or a click,
\* that never comes keeps the interface busy (App.vue:129-138, :171-196).
THEOREM BusyIsBounded ==
    Spec => /\ [](PairLeft \in 0..6 /\ (PairLeft = 0 <=> ~Pairing))
            /\ [](SwitchLeft \in 0..2 /\ (SwitchLeft = 0 <=> ~Switching))
            /\ [][Counts]_vars
<1>1. IInv => /\ PairLeft \in 0..6 /\ (PairLeft = 0 <=> ~Pairing)
              /\ SwitchLeft \in 0..2 /\ (SwitchLeft = 0 <=> ~Switching)
  BY RankTyped
<1>2. IInv /\ [Next]_vars => [Counts]_vars
  <2> SUFFICES ASSUME IInv, [Next]_vars PROVE Counts
    OBVIOUS
  <2>1. at'["pairDevice"] = at["pairDevice"] => PairLeft' = PairLeft
    BY DEF PairLeft
  <2>2. PairGoesOn => PairLeft' < PairLeft
    BY PairGoesDown
  <2>3. PairLeft \in 0..6
    BY RankTyped
  <2>4. PairStep \/ PairClick => PairLeft' < PairLeft
    BY <2>2, PairSteps
  <2>5. Pairing => PairLeft' <= PairLeft
    <3>1. CASE PairGoesOn
      <4>1. PairLeft' \in 0..6
        BY <3>1 DEF PairGoesOn, PairLeft
      <4> QED BY <2>2, <2>3, <3>1, <4>1
    <3>2. CASE at'["pairDevice"] = at["pairDevice"]
      BY <2>1, <2>3, <3>2
    <3> QED BY <3>1, <3>2, PairSteps
  <2>6. AnswerSwitch \/ ChangeDiscoveryEnds => SwitchLeft' < SwitchLeft
    BY SwitchSteps
  <2>7. Switching => SwitchLeft' <= SwitchLeft
    BY SwitchSteps
  <2> QED BY <2>4, <2>5, <2>6, <2>7 DEF Counts
<1> QED BY <1>1, <1>2, Invariance, PTL DEF Spec

=============================================================================
