--------------------------- MODULE Registry_proofs ---------------------------
(***************************************************************************)
(* Proofs about Registry, for any adapters and devices.                    *)
(***************************************************************************)
EXTENDS Registry, TLAPS

USE ProxiesAssumption, AdapterOfAssumption DEF Proxies, lists, agent, vars

\* Everything is empty at first.
LEMMA InitInv == Init => IInv
BY DEF Init, IInv, TypeOK, ListsSound, DevicesListed, AgentGivenOnce

\* A device that is announced or withdrawn keeps the invariant.
LEMMA DeviceKeeps ==
    ASSUME IInv, NEW d \in Devices, DeviceAdded(d) \/ DeviceRemoved(d)
    PROVE  IInv'
<1> USE DEF IInv, TypeOK, ListsSound, DevicesListed, AgentGivenOnce, IsChild
<1>1. CASE DeviceAdded(d)
  BY <1>1 DEF DeviceAdded, Announce
<1>2. CASE DeviceRemoved(d)
  BY <1>2 DEF DeviceRemoved, Withdraw
<1> QED BY <1>1, <1>2

\* An adapter that is announced keeps the invariant: when it becomes the default,
\* no device of it is there yet to be listed.
LEMMA AdapterAddedKeeps ==
    ASSUME IInv, NEW a \in Adapters, AdapterAdded(a)
    PROVE  IInv'
<1> USE DEF IInv, TypeOK, AgentGivenOnce, IsChild
<1>1. TypeOK'
  BY DEF AdapterAdded, Announce, AgentRegister
<1>2. ListsSound'
  BY DEF AdapterAdded, Announce, ListsSound
<1>3. DevicesListed' /\ (ordered => \A d \in Devices \cap proxies : AdapterOf[d] \in proxies)'
  BY DEF AdapterAdded, Announce, DevicesListed
<1>4. /\ (hasAgent \/ forgotten \/ call # "none" => agentObject)'
      /\ (call \in {"sent", "failed"} => ~hasAgent /\ ~forgotten /\ ~g_AgentRegistered)'
      /\ AgentGivenOnce' /\ (forgotten => g_AgentRegistered \/ call = "accepted")'
  BY DEF AdapterAdded, Announce, AgentRegister
<1> QED BY <1>1, <1>2, <1>3, <1>4

\* An adapter that is withdrawn keeps the invariant.
LEMMA AdapterRemovedKeeps ==
    ASSUME IInv, NEW a \in Adapters, AdapterRemoved(a)
    PROVE  IInv'
<1> USE DEF IInv, TypeOK, AgentGivenOnce, IsChild, AdapterRemoved, Withdraw
<1>1. TypeOK' /\ ListsSound'
  BY DEF ListsSound
<1>2. DevicesListed' /\ (ordered => \A d \in Devices \cap proxies : AdapterOf[d] \in proxies)'
  BY DEF DevicesListed
<1> QED BY <1>1, <1>2

\* The agent manager and the replies to RegisterAgent keep the invariant.
LEMMA AgentKeeps ==
    ASSUME IInv, ManagerAdded \/ ManagerRemoved \/ AnswerRegisterAgent
                 \/ RegisterAgentSucceeded \/ RegisterAgentFailed
    PROVE  IInv'
<1> USE DEF IInv, TypeOK, ListsSound, DevicesListed, AgentGivenOnce, IsChild
<1>1. CASE ManagerAdded
  BY <1>1 DEF ManagerAdded, Announce
<1>2. CASE ManagerRemoved
  BY <1>2 DEF ManagerRemoved, Withdraw
<1>3. CASE AnswerRegisterAgent
  BY <1>3 DEF AnswerRegisterAgent
<1>4. CASE RegisterAgentSucceeded
  BY <1>4 DEF RegisterAgentSucceeded
<1>5. CASE RegisterAgentFailed
  BY <1>5 DEF RegisterAgentFailed
<1> QED BY <1>1, <1>2, <1>3, <1>4, <1>5

\* So does a restart of bluetoothd.
LEMMA BluetoothdKeeps ==
    ASSUME IInv, BluetoothdStarts \/ BluetoothdStops
    PROVE  IInv'
<1> USE DEF IInv, TypeOK, ListsSound, DevicesListed, AgentGivenOnce, IsChild
<1>1. CASE BluetoothdStarts
  BY <1>1 DEF BluetoothdStarts
<1>2. CASE BluetoothdStops
  BY <1>2 DEF BluetoothdStops
<1> QED BY <1>1, <1>2

\* The inductive invariant holds whatever bluetoothd announces and withdraws.
LEMMA Invariance == Spec => []IInv
<1>1. IInv /\ [Next]_vars => IInv'
  <2> SUFFICES ASSUME IInv, [Next]_vars PROVE IInv'
    OBVIOUS
  <2>1. CASE Next
    BY <2>1, DeviceKeeps, AdapterAddedKeeps, AdapterRemovedKeeps, AgentKeeps,
       BluetoothdKeeps DEF Next
  <2>2. CASE UNCHANGED vars
    BY <2>2 DEF IInv, TypeOK, ListsSound, DevicesListed, AgentGivenOnce, IsChild
  <2> QED BY <2>1, <2>2
<1> QED BY <1>1, InitInv, PTL DEF Spec

\* The variables keep their types in every run.
THEOREM TypeCorrect == Spec => []TypeOK
<1>1. IInv => TypeOK
  BY DEF IInv
<1> QED BY <1>1, Invariance, PTL

\* No list or pointer holds a proxy that gdbus has freed, and the devices listed are
\* those of the default adapter, for any adapters, devices and orders.
THEOREM ListsAreSound == Spec => []ListsSound
<1>1. IInv => ListsSound
  BY DEF IInv
<1> QED BY <1>1, Invariance, PTL

\* No device of the default adapter is missing from the list while adapters are
\* announced before their devices and withdrawn after them.
THEOREM DevicesAreListed == Spec => []DevicesListed
<1>1. IInv => DevicesListed
  BY DEF IInv
<1> QED BY <1>1, Invariance, PTL

\* The object that bluetoothd calls for a pairing is there as long as bluetoothd has
\* the agent.
THEOREM AgentObjectIsKept == Spec => []AgentObjectKept
<1>1. IInv => AgentObjectKept
  BY DEF IInv, AgentObjectKept
<1> QED BY <1>1, Invariance, PTL

\* The agent is the running bluetoothd's exactly if it was accepted and no bluetoothd
\* that had it has gone: the flag alone does not say so.
THEOREM AgentIsGivenOnce == Spec => []AgentGivenOnce
<1>1. IInv => AgentGivenOnce
  BY DEF IInv
<1> QED BY <1>1, Invariance, PTL

=============================================================================
