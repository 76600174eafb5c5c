------------------------------ MODULE Registry ------------------------------
(***************************************************************************)
(* What the bluetooth thread knows of bluetoothd: the adapter and device   *)
(* lists of bluetooth/bt.cpp, kept by OnProxyAdded, OnProxyRemoved and     *)
(* OnDisconnect, and the registration of the pairing agent with it         *)
(* (bluetooth/agent.cpp), which OnProxyAdded starts.                       *)
(*                                                                         *)
(* bluetoothd and gdbus (external) announce and withdraw the proxies one   *)
(* by one, withdraw all of them when bluetoothd goes, and answer each      *)
(* RegisterAgent call, with an error if bluetoothd has gone.  The bus      *)
(* delivers what one bluetoothd had to say before the next one starts.     *)
(***************************************************************************)
CONSTANTS
    Adapters,
    Devices,
    AdapterOf       \* the Adapter property of a device

Manager == "AgentManager1"
NoProxy == "nullptr"

ASSUME ProxiesAssumption ==
    /\ Adapters \cap Devices = {}
    /\ {Manager, NoProxy} \cap (Adapters \cup Devices) = {}
ASSUME AdapterOfAssumption == AdapterOf \in [Devices -> Adapters]

Proxies == Adapters \cup Devices \cup {Manager}

VARIABLES
    g_ctrlList,         \* as a set: no order is looked at
    g_devList,
    g_defaultCtrl,
    g_agentManager,
    g_AgentRegistered,
    agentObject,        \* is the agent's interface registered on the bus?
    proxies,            \* the proxies gdbus has
    bluetoothd,         \* does it run?
    call,               \* the RegisterAgent call: none, sent, or how it was answered
    hasAgent,           \* has the running bluetoothd accepted the agent?
    forgotten,          \* history: a bluetoothd that had the agent has gone
    ordered             \* so far parents were announced first and withdrawn last

lists   == <<g_ctrlList, g_devList, g_defaultCtrl, g_agentManager>>
agent   == <<g_AgentRegistered, agentObject, call, hasAgent, forgotten>>
vars    == <<lists, agent, proxies, bluetoothd, ordered>>

Init ==
    /\ g_ctrlList = {} /\ g_devList = {}
    /\ g_defaultCtrl = NoProxy /\ g_agentManager = NoProxy
    /\ g_AgentRegistered = FALSE /\ agentObject = FALSE
    /\ call = "none" /\ hasAgent = FALSE /\ forgotten = FALSE
    /\ proxies = {} /\ bluetoothd = FALSE
    /\ ordered = TRUE

-----------------------------------------------------------------------------
(* Agent registration.                                                     *)

\* Mutant of AgentRegister: the call is made though the object is there already.
AgentRegisterAgain ==
    /\ agentObject' = (agentObject \/ ~g_AgentRegistered)
    /\ \E sent \in BOOLEAN :
          call' = IF ~g_AgentRegistered /\ sent THEN "sent" ELSE call
    /\ UNCHANGED <<g_AgentRegistered, hasAgent, forgotten>>

\* Nothing is done if the flag is set, or the object is there already; otherwise
\* the object is registered and the call made, which may fail.
AgentRegister ==
    /\ agentObject' = (agentObject \/ ~g_AgentRegistered)
    /\ \E sent \in BOOLEAN :
          call' = IF ~g_AgentRegistered /\ ~agentObject /\ sent THEN "sent" ELSE call
    /\ UNCHANGED <<g_AgentRegistered, hasAgent, forgotten>>

\* bluetoothd takes the agent, or does not.
AnswerRegisterAgent ==
    /\ bluetoothd /\ call = "sent"
    /\ \E accepted \in BOOLEAN :
          /\ call' = IF accepted THEN "accepted" ELSE "failed"
          /\ hasAgent' = (hasAgent \/ accepted)
    /\ UNCHANGED <<lists, g_AgentRegistered, agentObject, forgotten, proxies, bluetoothd, ordered>>

RegisterAgentSucceeded ==
    /\ call = "accepted"
    /\ call' = "none"
    /\ g_AgentRegistered' = TRUE
    /\ UNCHANGED <<lists, agentObject, hasAgent, forgotten, proxies, bluetoothd, ordered>>

\* Mutant of RegisterAgentFailed: the object stays registered.
RegisterAgentFailedKeepsObject ==
    /\ call = "failed"
    /\ call' = "none"
    /\ UNCHANGED <<lists, g_AgentRegistered, agentObject, hasAgent, forgotten, proxies,
                   bluetoothd, ordered>>

\* Mutant of RegisterAgentFailed: it runs on after the error is handled.
RegisterAgentFailedRunsOn ==
    /\ call = "failed"
    /\ call' = "none"
    /\ agentObject' = FALSE
    /\ g_AgentRegistered' = TRUE
    /\ UNCHANGED <<lists, hasAgent, forgotten, proxies, bluetoothd, ordered>>

RegisterAgentFailed ==
    /\ call = "failed"
    /\ call' = "none"
    /\ agentObject' = FALSE
    /\ UNCHANGED <<lists, g_AgentRegistered, hasAgent, forgotten, proxies, bluetoothd, ordered>>

-----------------------------------------------------------------------------
(* The handlers of proxies.                                                *)

Announce(p) ==
    /\ bluetoothd
    /\ p \in Proxies \ proxies
    /\ proxies' = proxies \cup {p}
    /\ UNCHANGED bluetoothd

Withdraw(p) ==
    /\ bluetoothd
    /\ p \in proxies
    /\ proxies' = proxies \ {p}
    /\ UNCHANGED <<agent, bluetoothd>>

IsChild(d) == AdapterOf[d] = g_defaultCtrl

DeviceAdded(d) ==
    /\ Announce(d)
    /\ g_devList' = IF IsChild(d) THEN g_devList \cup {d} ELSE g_devList
    /\ ordered' = (ordered /\ AdapterOf[d] \in proxies)
    /\ UNCHANGED <<g_ctrlList, g_defaultCtrl, g_agentManager, agent>>

\* Mutant of AdapterAdded: the adapter is appended to the wrong list.
AdapterAddedLists(a) ==
    /\ Announce(a)
    /\ g_devList' = g_devList \cup {a}
    /\ g_defaultCtrl' = IF g_defaultCtrl = NoProxy THEN a ELSE g_defaultCtrl
    /\ UNCHANGED <<g_ctrlList, g_agentManager, agent, ordered>>

\* The first adapter becomes the default one, and the agent is registered if the
\* agent manager is known.
AdapterAdded(a) ==
    /\ Announce(a)
    /\ g_ctrlList' = g_ctrlList \cup {a}
    /\ g_defaultCtrl' = IF g_defaultCtrl = NoProxy THEN a ELSE g_defaultCtrl
    /\ IF g_defaultCtrl = NoProxy /\ g_agentManager # NoProxy
         THEN AgentRegister ELSE UNCHANGED agent
    /\ ordered' = (ordered /\ Manager \in proxies)
    /\ UNCHANGED <<g_devList, g_agentManager>>

ManagerAdded ==
    /\ Announce(Manager)
    /\ g_agentManager' = IF g_agentManager = NoProxy THEN Manager ELSE g_agentManager
    /\ UNCHANGED <<g_ctrlList, g_devList, g_defaultCtrl, agent, ordered>>

\* Mutant of DeviceRemoved: the condition is inverted.
DeviceRemovedKeeps(d) ==
    /\ Withdraw(d)
    /\ g_devList' = IF IsChild(d) THEN g_devList ELSE g_devList \ {d}
    /\ UNCHANGED <<g_ctrlList, g_defaultCtrl, g_agentManager, ordered>>

DeviceRemoved(d) ==
    /\ Withdraw(d)
    /\ g_devList' = IF IsChild(d) THEN g_devList \ {d} ELSE g_devList
    /\ UNCHANGED <<g_ctrlList, g_defaultCtrl, g_agentManager, ordered>>

\* Mutant of AdapterRemoved: any adapter takes the device list with it.
AdapterRemovedClears(a) ==
    /\ Withdraw(a)
    /\ g_ctrlList' = g_ctrlList \ {a}
    /\ g_defaultCtrl' = IF g_defaultCtrl = a THEN NoProxy ELSE g_defaultCtrl
    /\ g_devList' = {}
    /\ ordered' = (ordered /\ \A d \in Devices \cap proxies : AdapterOf[d] # a)
    /\ UNCHANGED g_agentManager

\* The default adapter takes the device list with it; no other one becomes the
\* default.
AdapterRemoved(a) ==
    /\ Withdraw(a)
    /\ g_ctrlList' = g_ctrlList \ {a}
    /\ g_defaultCtrl' = IF g_defaultCtrl = a THEN NoProxy ELSE g_defaultCtrl
    /\ g_devList' = IF g_defaultCtrl = a THEN {} ELSE g_devList
    /\ ordered' = (ordered /\ \A d \in Devices \cap proxies : AdapterOf[d] # a)
    /\ UNCHANGED g_agentManager

ManagerRemoved ==
    /\ Withdraw(Manager)
    /\ g_agentManager' = IF g_agentManager = Manager THEN NoProxy ELSE g_agentManager
    /\ ordered' = (ordered /\ Adapters \cap proxies = {})
    /\ UNCHANGED <<g_ctrlList, g_devList, g_defaultCtrl>>

-----------------------------------------------------------------------------
(* bluetoothd comes and goes.                                              *)

\* OnConnect only logs.  Nothing of the last bluetoothd is left to be handled.
BluetoothdStarts ==
    /\ ~bluetoothd /\ proxies = {} /\ call = "none"
    /\ bluetoothd' = TRUE
    /\ UNCHANGED <<lists, agent, proxies, ordered>>

\* gdbus withdraws every proxy, the agent manager's included, then OnDisconnect
\* empties the lists; the flag of the agent is not touched.
BluetoothdStops ==
    /\ bluetoothd
    /\ bluetoothd' = FALSE
    /\ proxies' = {}
    /\ g_ctrlList' = {} /\ g_devList' = {}
    /\ g_defaultCtrl' = NoProxy
    /\ g_agentManager' = IF g_agentManager \in proxies THEN NoProxy ELSE g_agentManager
    /\ call' = IF call = "sent" THEN "failed" ELSE call
    /\ hasAgent' = FALSE /\ forgotten' = (forgotten \/ hasAgent)
    /\ ordered' = TRUE
    /\ UNCHANGED <<g_AgentRegistered, agentObject>>

Next ==
    \/ \E d \in Devices : DeviceAdded(d) \/ DeviceRemoved(d)
    \/ \E a \in Adapters : AdapterAdded(a) \/ AdapterRemoved(a)
    \/ ManagerAdded \/ ManagerRemoved
    \/ AnswerRegisterAgent \/ RegisterAgentSucceeded \/ RegisterAgentFailed
    \/ BluetoothdStarts \/ BluetoothdStops

Spec == Init /\ [][Next]_vars

-----------------------------------------------------------------------------
(* Properties.                                                             *)

\* The variables keep their types.
TypeOK ==
    /\ g_ctrlList \in SUBSET Adapters /\ g_devList \in SUBSET Devices
    /\ g_defaultCtrl \in Adapters \cup {NoProxy}
    /\ g_agentManager \in {Manager, NoProxy}
    /\ proxies \in SUBSET Proxies
    /\ call \in {"none", "sent", "accepted", "failed"}
    /\ {g_AgentRegistered, agentObject, hasAgent, forgotten, bluetoothd, ordered} \subseteq BOOLEAN

\* The web thread dereferences what the lists and pointers hold (bt.cpp:59, :229):
\* in whatever order proxies are announced and withdrawn, and however often
\* bluetoothd is restarted, none of them is of a proxy that has been freed, and
\* the devices listed are those of the default adapter.
ListsSound ==
    /\ g_devList \cup g_ctrlList \subseteq proxies
    /\ g_defaultCtrl \in g_ctrlList \cup {NoProxy}
    /\ g_agentManager \in proxies \cup {NoProxy}
    /\ \A d \in g_devList : IsChild(d)

\* As long as parents are announced first and withdrawn last, every device of the
\* default adapter is listed, also when the default adapter changes.
DevicesListed ==
    ordered => \A d \in Devices \cap proxies : IsChild(d) => d \in g_devList

\* bluetoothd never has an agent whose object is gone, though the reply to a failed
\* registration removes it (agent.cpp:156) and adapters may come and go between a
\* call and its reply.
AgentObjectKept == hasAgent => agentObject

\* What "Agent is already registered" is worth (agent.cpp:163): a bluetoothd has the
\* agent exactly if it has been accepted, until the one that accepted it goes; from
\* then on it is taken for registered for ever, and no later bluetoothd gets it.
AgentGivenOnce ==
    hasAgent <=> (g_AgentRegistered \/ call = "accepted") /\ ~forgotten

\* The inductive invariant: there is one call at a time, made for the object that is
\* there, and the reply that removes the object is not from a bluetoothd that has
\* the agent; what is taken for registered has an object, which nothing removes.
IInv ==
    /\ TypeOK
    /\ ListsSound
    /\ DevicesListed
    /\ ordered => \A d \in Devices \cap proxies : AdapterOf[d] \in proxies
    /\ hasAgent \/ forgotten \/ call # "none" => agentObject
    /\ call \in {"sent", "failed"} => ~hasAgent /\ ~forgotten /\ ~g_AgentRegistered
    /\ AgentGivenOnce
    /\ forgotten => g_AgentRegistered \/ call = "accepted"

=============================================================================
