# RaspiKey: a verification project

RaspiKey turns a Raspberry Pi Zero W into an adapter between a Bluetooth keyboard
and a USB port: it pairs with the keyboard, reads its HID input reports, rewrites
them (Fn key of Apple keyboards, media keys, key maps) and writes them to a USB
gadget that the host takes for a keyboard. A web interface pairs keyboards and
changes settings and key maps while reports flow.

This directory holds TLA+ models of that program, the TLC runs that check them on
small instances, and TLAPS proofs for instances of any size. Paths below are
relative to `src/`; `raspikey/` is the C++ program.

- [Inventory](#inventory)
- [Modules](#modules)
- [Runs](#runs)
- [Fairness](#fairness)
- [Proofs](#proofs)
- [Assumptions](#assumptions)
- [Known deviations](#known-deviations)
- [Not modelled](#not-modelled)
- [Plan](#plan)

## Inventory

### Threads

| thread | code | what it does |
|---|---|---|
| main | `raspikey/Main.cpp` `OpenDevicesLoop`, `ForwardingLoop` | opens devices, owns the filters, forwards reports; signal handlers run here |
| web | `raspikey/WebApiServer.cpp`, Crow with one worker | serves the REST interface one request at a time |
| bluetooth | `raspikey/bluetooth/bt.cpp` `MainThread` | a glib loop that dispatches the D-Bus callbacks |

They share globals with hardly a lock: `g_pReportFilters` and what the filters
hold (main, web), `g_bIsPairing` and the pairing message (web, bluetooth), the
adapter and device lists (web, bluetooth), `g_ExitRequested` (main, signal
handler).

### Components

| component | state | operations | what makes it correct |
|---|---|---|---|
| A1644 filter, `A1644.cpp` | `m_Settings`, `m_FakeFnActive`, `m_MultimediaKeyActive` | `ProcessInputReport`, `SetSettings` | what the user releases comes up at the host; the media flag says what the host has |
| A1314 filter, `A1314.cpp` | `m_a1644rep`, on top of A1644 | merges two kinds of report, has A1644 process a copy | the merged report is the keyboard, whatever the order |
| Key map filter, `KeyMapReportFilter.cpp` | `m_keyMap` | rewrites one slot and the modifiers of a report; `SetSettings` clears, parses, fills | a released key comes up; a mapped key works in any company |
| Generic filter, `GenericReportFilter.cpp` | none | passes everything | - |
| Device sessions, `Main.cpp` | `g_pReportFilters`, descriptors, `g_ExitRequested`, files in `/data` | open, create filters, load, forward, close, delete; `Set/Get/DeleteKeyMap`, `SetSettings` | no filter is used that is not there, nothing leaks, settings come back, a keyboard is served again, an exit ends |
| Pairing, `bluetooth/bt.cpp`, `agent.cpp` | `g_bIsPairing`, `g_bHasPairingReplyMessage`, `g_pairingReplyMessage` | `BeginPairDevice`, `EndPairDevice`, `OnAgentNotify`, `OnPairDeviceReply` | one pairing at a time; an answer is about the pairing that was asked for; requests and pairings end |
| Device registry, `bluetooth/bt.cpp` | `g_ctrlList`, `g_devList`, `g_defaultCtrl`, `g_agentManager` | `OnProxyAdded`, `OnProxyRemoved`, `OnDisconnect`; the lists are read by web requests | a listed proxy exists; a known device is listed |
| Agent, `bluetooth/agent.cpp` | `g_AgentRegistered`, `g_PendingMessage` | `AgentRegister`, `RegisterAgentReply`, ... | a bluetoothd that has the agent can reach its object; the flag says what it says |
| Start and stop, `Main.cpp`, `WebApiServer.cpp` | thread pointers, `g_ExitRequested`, the lock of the log | `Start`, `Stop`, `SignalHandler`, both `MainThread`s | a stop comes to an end, after which no thread is left |
| Persistence, `WebApiServer.cpp`, `setup/setup` | `/data` (tmpfs), its copy on `/boot` | save-data, delete-data, restoration at boot | what was answered as saved is restored whole |
| Logger, `Logger.cpp` | the log stream and its count | rotation | logging goes on |
| User interface, `raspikey-ui-vue` | `busy`, `connected`, `discovery`, the one dialogue and its promise | `updateUi`, `pairDevice`, `changeDiscovery`, `resetState`, `saveState`, ... | busy ends, no answer is taken for another's, what is shown follows the server |
| gdbus, Crow | proxies; the acceptor and the worker | vendored: announce and withdraw, run and stop | - |
| JSON, fifo_map | - | vendored | - |

### Interaction

Reports go keyboard -> hidraw -> filter 0 (A1644, A1314 or generic) -> filter 1
(key map) -> gadget -> host. The web thread calls into the same two filter objects
through the global array and writes `/data`; the next session reads the files
back. Pairing is a conversation of three: the web thread sends `Pair` and polls,
bluetoothd calls the agent and replies, the bluetooth thread leaves a message in a
slot of one. systemd restarts the program when it dies (`Restart=always`).

### What is hard here

The hazards are listed one by one, with their lines, in `PROJECT.json`. In short:

- *Sequences of reports*: a report may be swallowed (a change of Fn) or replaced
  (a media break), and what it carried besides is lost. A stuck key needs several
  reports to show.
- *Settings that change between two reports*, with keys held that were sent under
  the old ones.
- *Two threads and one flag*: the pairing lock is released before the message is
  published, the flag that announces a message is cleared by whoever sees it first,
  and three exceptions leave the lock taken.
- *Pointers across sessions*: the filters are null before the first keyboard and
  dangling between two.
- *Crashes between truncating and writing a file*, and power cuts at any command of a
  save: the user is told to unplug the device.
- *A signal handler that joins threads*, on a thread that may hold the lock those
  threads wait for.
- *Asynchronous functions over one dialogue and one flag* in the browser.
- *Everything that must end*: polling loops on the only web worker, pairings,
  sessions, exits.

## Modules

| module | models | its state |
|---|---|---|
| `A1644` | `A1644.cpp`, the input direction of `ForwardingLoop`, and the USB host | the keys held, the three members, what the host takes to be pressed |
| `A1314` | `A1314.cpp`; extends `A1644` as the class does | the keys held (`held`), the merged report (`kb`), the state of A1644 |
| `Pairing` | the pairing functions of `bt.cpp`, called by `WebApiServer.cpp` and `agent.cpp` | the three globals, the place of both threads, the Pair calls under way |
| `OpenDevices` | `OpenDevicesLoop`, `OpenKbDevice`, `ForwardingLoop`, the filter requests, the files, systemd | the place of both threads, the descriptors, the filter array, what the filters are set to, the files |
| `Registry` | the proxy handlers of `bt.cpp`, the agent's registration in `agent.cpp`, bluetoothd | the lists and pointers, the flag and the object of the agent, the proxies there are, the call under way |
| `KeyMap` | `KeyMapReportFilter.cpp` behind the generic filter, and the USB host | the last report, the map, what the host has |
| `Persistence` | save-data and delete-data of `WebApiServer.cpp`, `setup/setup/raspikey_datafs.service`, the card | `/data`, the archive as the system and as the card has it, how `/boot` is mounted, the command under way |
| `Shutdown` | `StartServices`, `SignalHandler`, `StopAllServices`, `Start`, `Stop` and `MainThread` of both services, the lock of `Logger.cpp` | the place of four actors, the thread pointers, who has and who waits for the lock |
| `PairingSpec` | the exchange that `Pairing` implements | pairings begun and open, the request served, the answer |
| `App` | `raspikey-ui-vue/src/App.vue`, `components/ModalDialog.vue`, the server and another client | the data of the page, the dialogue and its promise, what each function awaits, the server's discovery |
| `A1644_proofs`, `Pairing_proofs`, `OpenDevices_proofs`, `Registry_proofs`, `KeyMap_proofs`, `Persistence_proofs`, `Shutdown_proofs`, `App_proofs` | theorems about the module of that name; about `A1314` in `A1644_proofs`, about `PairingSpec` in `Pairing_proofs` | |
| `MCA1644`, `MCA1314`, `MCPairing`, `MCOpenDevices`, `MCRegistry`, `MCKeyMap`, `MCPersistence`, `MCShutdown`, `MCApp` | the small instances | |

**A1644.** A report is a record: the report id, the set of modifier bits, the key
slots, the set of bits of the special byte. The statements of `ProcessInputReport`
up to the media break are functions of the report (`SpecialKeys`, `SwapAltCmd`);
from there each way through the function is an action (`SuppressFnChange`,
`MediaBreak`, `MediaKey`, `IgnoreFnCombination`, `TranslateFnCombination`,
`PlainKeys`), in which the report that is left is written to the host. The host
keeps the last keyboard report and the last media report, which is what a boot
keyboard and a consumer control do. `out`, `calm` are history variables, read by
properties only: `calm` says that until now every report showed one key pressed or
released and that settings were changed only with no key held.

**A1314.** Has no translation of its own: it stores a report of nine bytes or of
two into `m_a1644rep` and lets A1644 process a copy. The module extends `A1644` as
`class A1314 : public A1644` does: `kb`, the report class A1644 is given, is
`m_a1644rep`, and `held` is what the user holds; what is its own beside those of
`A1644` is named `A1314Init`, `A1314Next`, `HeldKeysUp`, ....

**Pairing.** A step is one access to a shared variable, so that all interleavings
of the two threads are there; the lock is held in one step (`BeginLocked`,
`ReplyLocked`). A message carries, besides its status, the Pair call it is about
and whether it is the reply to that call: the code does not keep this, the
properties need it. Copying a message while the other thread assigns it may yield
the old, the new or a torn one (`Copies`). Failures of `BeginPairDevice` after it
has set the flag are `BeginNotAvailable` and `BeginNotSent`. That a message is
dropped because no pairing is going on (`NotifyTested`, `ReplyLocked`) never comes up
under the assumptions on bluetoothd below: it follows from `OnePairingAtATime`.

**PairingSpec.** The same, seen from bluetoothd and from the user: no flags, no slot, no
threads, no polling. A Pair call is sent when none is open; a request is answered with a
message about a pairing, or fails; that a pairing is over is not told before it is. Two
things of the code had to be admitted, and show what the flags cost: begin-pair may be
answered with the reply to the pairing before (`BeginAnswered`), and end-pair with a
message about any pairing there was (`EndAnswered`). `Pairing` implements it with
`n <- attempt`, `open <- Outstanding` and `serving <- Serving`, which is read off the place of the
web thread: `PairingAsPromised == Promise!Spec`.

**OpenDevices.** The main thread goes through `OpenDevicesLoop` statement by statement:
`OpenKbDevice` is `OpenEvent`, `Grab` and `OpenHidraw`, between which the keyboard may go
and another come; `ForwardingLoop` waits at "forward" and writes at "write", and an exit
releases the keys at "break". A web request is read (`Deref`: the pointer is fetched),
clears the map (`ClearKeyMap`), parses (`ParseFails`, `ParseSet`), truncates and writes the
file (`TruncateFile`, `WriteFile`), or removes it first (`DeleteFile`), each a step of its
own; what is done with the file may fail, which is not told. Requests come without end.
The process may die at any step of either thread (`ProcessDies`). Use of a null pointer
kills it; use of a dangling one, or of the map while the other thread changes it, kills it
or goes unnoticed (`Crash`, which leaves the request to be blamed). A dangling filter may
be that of any keyboard (`FilterFor`). The signal handler interrupts the main thread
wherever it is (`SignalHandler`); until it returns (`handling`, `HandlerReturns`) that
thread stands still. What the handler waits for meanwhile, and that it may wait for ever,
is what `Shutdown` is about. A document is valid, bad or empty; its content does not matter
here.

Three variables are history, or tell what no code looks at: `touched`, a request was served
since the filters were made; `asked`, what the last request has made of each file, or that
it was cut off or failed before it had (`Unsure`); `gone`, the descriptors whose keyboard
has gone since they were opened.

**Registry.** The handlers of the bluetooth thread, one action each: proxies announced
and withdrawn (`DeviceAdded`, `AdapterRemoved`, ...), the reply to RegisterAgent, and
`OnDisconnect`, which follows the withdrawal of every proxy in one go
(`BluetoothdStops`). `AdapterAdded` includes the registration of the agent that it
starts. The handlers run to their end, so an action is a handler. What is outside is
`proxies`, `bluetoothd`, `call` and `hasAgent`. `ordered` is a history variable: since
bluetoothd started, a device was announced after its adapter, an adapter after the agent
manager, and they were withdrawn in the opposite order. The lists are sets: no code
looks at their order. `forgotten` is a history variable, too: a bluetoothd that had the
agent has gone.

**KeyMap.** A report is the modifier byte and the slots; keys and codes are names. A
mapping is a record of two modifier sets and two codes. `imod` and `omod` may be null,
which the code stores as 0xff: all bits. `ikey` and `okey` may be any byte, 0 and the 0xff
of a null included (`KeyCodes`): the parser takes them, and what is left of "0x100" as
well. `ProcessInputReport` is a function of the map and the report, built from what the
loops look for (`IsFirstMatch`, `IsFirstSlot`); an empty slot is compared like any other,
so that a mapping of the key 0 applies to it. `SetSettings` puts in a prefix of a map, which
is what is left of a document with a malformed entry. `applied` is a history variable: the
map that the host's report has gone through. `KeyByKey` is the reference definition: every
code turned into its own, with no loop and no slots.

**Persistence.** A request is a shell command of parts joined by `&&`; each part is an
action that goes on or fails (`SaveRemounts`, `SaveArchives`, ...). The archive exists
twice: as the running system sees it and as it is on the card, which the kernel writes
when it likes (`WriteBack`) and a remount has to. What is in `/data` is a number that
grows, which is all that "no less than what was saved" needs. A cut of the power leaves
on the card what was there, what is cached, or a part of it (`Written`).

**Shutdown.** Four actors: the main thread, the signal handler that interrupts it, the
bluetooth thread and the web thread. A call that logs waits for `m_logMutex`
(`TakesLock`); a handler that has interrupted the holder waits for ever. The pointer to
a thread is read twice, once to test it and once to join (`QuitBt`, `JoinBt`), and the
thread resets it when it ends; the use of one that is null is `Crash`. A second signal
is modelled once the handler of the first has returned. What the server does is the code of
`raspikey/crow_all.h` as `WebApiServer.cpp` uses it; its own handling of signals is
disabled there. Two things that could also block are assumed away, see
[Assumptions](#assumptions).

**App.** A function runs from one `await` to the next without interruption, so that an
action is what lies in between, and a click includes what the function does after it.
`at` is the await each function is in. Answers that depend on the server's state are on
their way for a step (`AnswerDiscovery`, `AnswerSwitch`, then `DiscoveryGot`,
`ChangeDiscoveryEnds`); the others are taken when they are given. `Lost` names the
functions that wait for a click in a dialogue that was dismissed or replaced. Functions of
one request (`saveState`, `setSettings` and the key map functions) have one shape
(`RequestStep`). The wait of a second in `pairDevice` is not a step of its own.

## Runs

All constants are in the `.cfg` files; no definition is replaced. Deadlock is
checked in every run but `MCShutdown`, whose system is meant to stop.

| run | states | shows |
|---|---|---|
| `MCA1644` | 127,756 | `TypeOK`, `MediaFlagMatchesHost`, `MediaReleasedWithKeys`, `KeysUpUnlessBehindBreak` |
| `MCA1314` | 128,356 | `ReportIsKeyboard` and the two release properties (`HeldMediaReleased`, `HeldKeysUp`), over the keyboard of two reports |
| `MCPairing` | 44,725 | `TypeOK`, `OnePairingAtATime`, `BeginAnswerOrigin`, `RequestsAnswered`, `PairingEnds`, `PairingAsPromised` |
| `MCOpenDevices` | 295,545 | `TypeOK`, `SessionsClean`, `SettingsRestored`, `KeyboardServed`, `ExitEnds` |
| `MCRegistry` | 1,391 | `TypeOK`, `ListsSound`, `DevicesListed`, `AgentObjectKept`, `AgentGivenOnce` |
| `MCKeyMap` | 15,488 | `TypeOK`, `KeysUpWithKeyboard`, `MappedKeyWorks` |
| `MCPersistence` | 38,397 | `TypeOK`, `SavedComesBack`, `BootWritableOnlyByJob`, `BluetoothDownOnlyForReset`, `BluetoothComesBack` |
| `MCShutdown` | 788 | `TypeOK`, `JoinedBeforeExit`, `JoinsWithoutLock`, `StopEnds` |
| `MCApp` | 64,008 | `TypeOK`, `BusyIsOne`, `ResetConfirmed`, `BusyEnds`, `SwitchFollows` |
| `MCA1644_fn`, `MCPairing_wedge`, `MCOpenDevices_valid` | - | what a comment or a document says and the code does not do, see [Known deviations](#known-deviations) |

**Bounds of the filters.** Two ordinary keys: Left, which Fn turns into another key,
and F8, which Fn turns into a media key: the two kinds of entry of the table; keys
outside the table take the default branch, which Eject's Del and an empty Key1 take
here. Two modifiers: LCtrl, which acts as Fn, and LAlt, which is swapped. Eject and
Fn. Two slots: only Key1 is looked at by the code, the second slot is what a key
can hide behind. All four settings, changed at any time, and any report after any
other: `calm` narrows the two release properties, not the model, and
`MediaFlagMatchesHost` holds without it. It is needed: a report in which two keys
change together with Fn is swallowed whole, and the second key stays down.

**Bounds of Pairing.** Four Pair calls (`MaxAttempts`): an answer can be about the
pairing before the current one and never about an older one, which takes three to
tell apart. Polling loops of 100 and 300 rounds become two: the loop can end by the
flag, by the count, and go round once more; the code does not look at the count
otherwise. The number of requests is not bounded: `EndPairDevice` may be called any
number of times.

**Bounds of OpenDevices.** Two keyboards, an Apple one and a generic one, since they
differ in what `SetSettings` does; one valid document, and a bad one. Requests are about the
Apple keyboard (`ReqDevs`): the other one is there to be exchanged for it, and to have
settings that must not end up with it. `Init` leaves the files arbitrary; the run begins
with documents for the Apple keyboard and settings only for the other (`MCInit`), and
requests, failures and deaths bring about missing, truncated and written files from there.
The theorems have no such bound. Requests, connections, disconnections, deaths and exits
are not bounded.

**Bounds of Registry.** Two adapters, since the code tells the default one from the
others, and three devices, two of one adapter and one of the other. Nothing else is
bounded: proxies come and go and bluetoothd is restarted without end.

**Bounds of KeyMap.** Three keys in three slots, so that a mapped key stands before,
between and behind others; three modifiers. The map of `keymaps/de-keymap.json`, which
swaps two keys, a map in which modifiers decide and two mappings compete for a key, one
that turns a key off and has nulls in place of keys, and one with a mapping of the key 0
ahead of another; each replaced by any prefix of any other at any time.

**Bounds of Persistence.** `/data` changes up to three times (`MaxState`) between two
boots: before the save, during it, and after. Requests, failures, deaths, cuts and boots
are not bounded.

**Bounds of Shutdown.** Two signals: the second finds the services stopped, or the main
thread on its way out. What a thread logs is not bounded.

**Bounds of App.** Two calls of `updateUi` under way (the timer does not wait for the one
before), one call of every other function, `saveState` for those of one request. Failures,
clicks, dismissals and other clients are not bounded.

Every property of these runs has a mutant of the code that breaks it: a plausible bug,
written next to the definition it mutates, for which TLC finds the violation. So
none of them holds by the shape of the model.

## Fairness

- `Pairing`: `WF(WebStep)` and `WF(BtStep)`: both threads are scheduled, and neither
  waits for anything inside a handler, the polling loop included (it sleeps, and its
  bound ends it). `SF(OnPairDeviceReply)`: a Pair call is answered, by bluetoothd or
  by libdbus after its time-out; strong, since agent requests may come in between. No
  fairness for requests and agent methods: nobody has to call them.
- `OpenDevices`: `WF(MainStep)`, `WF(WebStep)`: the threads run (what is in them waits in a
  `sleep` or a `select` of a second only). `WF(Restart)`: systemd. `WF(Crash /\ NullCall)`:
  a call through a null pointer does not come back. `SF(OpenEvent)`, `SF(Grab)`,
  `SF(OpenHidraw)`, `SF(OpenHidgDevice)`: a device that is there can be opened sooner or
  later, though any one attempt may fail. None for reports, for the writes to the host
  (`ForwardStep`), which block while it does not read, for the handler, `Connect`,
  `Disconnect`, or a death by anything else. So `KeyboardServed` excepts a process that dies
  again and again and a write that never returns, and `ExitEnds` such a write and a
  handler that does not return.
- `Persistence`: `WF(JobStep)`: a command ends, with success or not. `WF(Reboot)`,
  `WF(Boot)`: a reboot that was started happens, and a system that is switched on boots.
- `Shutdown`: `SF(TakesLock)`: who waits for the lock gets it if it becomes free again
  and again, which the mutex of Linux does in practice; `WF` of everything that only needs
  its thread to be scheduled; `SF(LeaveLoop)`, since the main loop comes by its test
  between two log messages, if what it writes to the host in between returns. That the lock is released supposes that a write to the log file
  ends. None for signals, callbacks and requests.
- `App`: `SF(UpdateUi)`: the timer goes on and finds `busy` reset if it is reset again and
  again. `WF` of every answer and of what handles it: a server that does not answer has its
  connection closed at last, which is a failure. None for the user: no click, no dismissal.

## Proofs

Checked by TLAPS, for every value of the constants that satisfies the named
assumptions.

**`A1644_proofs`**: `TypeCorrect`, `MediaFlagCorrect`, `MediaReleaseCorrect`,
`KeysReleaseCorrect`. For any number of slots, any keys and modifiers. The
assumptions are that keys, modifiers and special keys are different things
(`DisjointAssumption`), that modifiers are those of the byte and LCtrl is one
(`ModsAssumption`), and at least one slot. `IInv` adds `FakeFnFollowsLCtrl` to the
properties: the early return of the swap block swallows a report exactly when the flag
and LCtrl differ, so without knowing that the flag *is* LCtrl as last reported one cannot
tell that a release which is swallowed was that of LCtrl. After a change of settings
the flag may be off until the first report, and then nothing is held (`calm`).
Release then follows by cases of the action: a report with nothing held is either a
change of LCtrl alone, when nothing else was held before; a media break; or written
as it is. Lemmas state what `SpecialKeys`, `SwapAltCmd` and `FnTranslate` do to an
empty report, and that packed slots are empty from the first empty one on, which is
why a test of Key1 says something about all of them.

Two theorems are about single reports. `AltCmdSwap` says what the swap does to every set of
modifiers, on each side: an exchange, but where Alt and Cmd are both held. `OrdinaryReportsPass`
says what becomes of a report that shows no Fn, without the swap, after any history. While
`m_FakeFnActive` is FALSE the host gets the keys of the report, all of them and no other,
and no media key. While it is TRUE a report with a key or a modifier gets what Fn would make
of it (`PassesWithFn`), and only the empty one passes. The flag is set by nothing but a report
with Fn down and reset by nothing but one under the swap: once it is left set, as
`MCA1644_fn` shows, every report is treated so for good.

The same module holds what is proved of **A1314**: `MergedReportCorrect`,
`MergedMediaReleaseCorrect`, `MergedKeysReleaseCorrect`. The lemmas about one report are stated
for `MergedReports`, a report id of 0 included, so that they serve both classes. The
inductive invariant, `A1314IInv`, is that of `A1644` of the merged report, that the merged report
is the keyboard, and one thing more: while the report id is still 0, no key has been reported
and the host is as it was. Until then the gadget is sent a report id the host does not know
(`UndeclaredKeepsHost`), and what was let go in such a report would never come up.

**`Pairing_proofs`**: `TypeCorrect`, `PairingExclusive`, `AnswerOrigin`, `PairingImplements`,
`RequestsAreBounded`. For any bounds on attempts and polls. `IInv` adds where a message can
come from at each place of the two threads: between the lock and the Pair call nothing is
outstanding (`BeginExclusive`); what the bluetooth thread holds is about the last call, or is
the reply to the call before, taken out of the lock and not yet published (`IncomingOrigin`);
what `BeginPairDevice` may find after it has cleared the flag is one of the two
(`PublishedOrigin`). The last is the window between `g_bIsPairing = false` and the
publication; the theorem says that it is one message wide. `PairingImplements` is the
refinement: every step of `Pairing` is a step of `PairingSpec` or leaves its variables alone.
It needs `SlotKnown` besides: what is in the slot, or about to be, is about a pairing there
was, and if it is a reply, about one that is over.

**`OpenDevices_proofs`**: `TypeCorrect`, `SessionsAreClean`, `SettingsAreRestored`,
`ExitIsBounded`. For any keyboards, documents and requests, and any files at first. `IInv`
adds which descriptors are open at each place where something may fail (`FdsOf`), which the
failing branches rely on when they close one of one or two of three; and that a keyboard
whose event device is open and has not gone is the one connected. The web thread never
writes the filter array, so that its steps are one lemma, and so are those of the
environment (`OthersLeaveMain`). `TypeOK` needs that the main thread has a keyboard while
it has one open (`Serving`), since the files are read by its name. `SettingsRestored` follows
from two invariants. `LoadedInv`: as long as no request has been taken since the filters
were made, and none is being served, each place of the main thread has loaded what the
files say so far, or holds the text of the next one. `AskedInv`: a file is what the last
request has made it, unless that was cut off, wherever the process died.

**`Registry_proofs`**: `TypeCorrect`, `ListsAreSound`, `DevicesAreListed`, `AgentObjectIsKept`,
`AgentIsGivenOnce`. For any adapters and devices. `IInv` adds that while the order is kept
the adapters of announced devices are there, without which a new default adapter could
already have devices that nothing lists; that there is one registration call at a time,
made for the object that is there, so that the reply which removes the object is never
about one that bluetoothd has accepted; and that what was forgotten keeps its object,
which is why it is never registered again.

**`KeyMap_proofs`**: `TypeCorrect`, `KeysUpCorrect`, `MappedKeyCorrect`. For any keys,
modifiers and slots, and any maps the parser takes (`MapsAssumption`). The lemmas say that
a report without keys matches no mapping but one of the key 0 (`NoKeyNoMatch`: of any
report, so also of one that comes out of the A1644 filter), that of the slots that hold a
code there is a first (`LeastNumber`), that the first match is the only one, and that packed
slots hold a key once, so that the slot that is rewritten is the only one of its key.
`KeysUpWithKeyboard` has the mapping of the key 0 for its exception; `MappedKeyWorks`
has none: the key 0 in an empty slot counts as one of those that are mapped.

**`Persistence_proofs`**: `TypeCorrect`, `SavedIsRestored`, `BootIsReadOnly`,
`BluetoothDownCorrect`, `BluetoothReturns`. For any number of changes. `IInv` adds
`CardKeepsPromise`: while no request has touched the archive since the last answer of 200, the
card has what was promised and the kernel holds nothing back, so that a cut of the power has
one outcome; and `JobPrepared`: what the commands that are done have left for the last one,
whose success is the promise.

**`Shutdown_proofs`**: `TypeCorrect`, `JoinedCorrect`, `JoinsCorrect`, `StopWaitsForRunning`,
`StopIsBounded`. For any number of signals. `IInv` adds how far each thread must be at each
place of the handler (`Progress`) and that a handler which interrupted the holder of the lock
can only wait (`HandlerWaits`).

**`App_proofs`**: `TypeCorrect`, `BusyCorrect`, `ResetCorrect`, `BusyIsBounded`. For any
number of calls of `updateUi` and any functions that make one request. `IInv` adds what each
function may wait for (`StepsOf`), that the promise a click resolves is that of the text
shown, whose function waits for it (`DialogOfWaiting`), and that an answer reaches
`changeDiscovery` only while it is awaited (`AnswerAwaited`): without it `busy` could be reset
under a pairing.

**Towards liveness.** A leads-to under fairness is out of the reach of TLAPS, but the
half of it which is safety is not: a rank that every step of those who must act lowers, that
nothing raises, and that is 0 when what was to happen has happened.

| theorem | rank | is the safety half of |
|---|---|---|
| `RequestsAreBounded` | the steps left to the web thread (at most `BeginPolls` + 7, or `EndPolls` + 3) and to a callback (3); the other thread does not change it | `RequestsAnswered` |
| `ExitIsBounded` | the places of the main thread up to its end, at most 15, once an exit is requested; the death of the process apart | `ExitEnds` |
| `StopIsBounded` | what the handler, and each thread that has been told to end, have left to do, the message they may log included | `StopEnds` |
| `BluetoothReturns` | the command, the reboot and the boot that are due while bluetoothd is down | `BluetoothComesBack` |
| `BusyIsBounded` | the answers and clicks a pairing (6) or a switch of discovery (2) still needs | `BusyEnds` |

`StopWaitsForRunning` adds to the third whom the handler waits for: a thread that is on its
way and gets the lock of the log, but for the telling that was lost. What these do not
say is that the next step is taken: that is fairness and `ENABLED`, and stays with TLC. The
ranks of `Pairing` need that the counter of a polling loop stays below its bound (`CountOK`),
those of `Shutdown` that no thread is told to end before it was started (`Told`).

Only model-checked: the liveness properties themselves (`RequestsAnswered`, `PairingEnds`,
`KeyboardServed`, `ExitEnds`, `BluetoothComesBack`, `StopEnds`, `BusyEnds`,
`SwitchFollows`). `PairingEnds`, `KeyboardServed` and `SwitchFollows` have no rank: a pairing
ends when bluetoothd answers, an attempt to open a device may fail any number of times, and
late answers may come first again and again. Every invariant of the runs is proved.

## Assumptions

About what is not in the repository, or not executed by a model:

- A keyboard fills the key slots from Key1 on and lists a key once; which keys go in
  which slot is arbitrary otherwise. A roll-over report is not modelled.
- An A1314 keyboard reports ordinary keys and modifiers in one report, Eject and Fn in
  the other; a report of any other length has the filter process the last one again.
- The host shows the last report of each id the gadget declares
  (`setup/setup/raspikey_usb`) and ignores other ids.
- Crow runs one worker: one request at a time.
- bluetoothd replies to a Pair call once and asks the agent nothing about it after that;
  D-Bus delivers in order. So a message is taken out of the queue when it is handled and
  the queue itself is not modelled.
- gdbus (`raspikey/gdbus/client.c`) announces a proxy once and withdraws it before it frees it; when bluetoothd goes,
  it withdraws them all and then calls `OnDisconnect`. The replies and announcements of
  one bluetoothd are handled before those of the next: D-Bus delivers in order.
- That bluetoothd announces an adapter before its devices and its manager before the adapters,
  and withdraws them the other way round, is assumed by `DevicesListed` only (`ordered`).
- A process that dies leaves the files in `/data` (a tmpfs) as they are; a reboot
  empties it (`Persistence`).
- A command that reports success has done what it says; a remount to read-only has written
  the cache to the card; a card written to while the power is cut is damaged in the archive
  only, not in its file system. `/var/log` and the rest of the system are read-only or
  in memory (`setup/setup/readonly-convert.sh`).
- A signal goes to the main thread; `g_main_loop_quit` of a loop that does not run yet has no
  effect; `Server::stop` of Crow stops the workers there are.
- `Shutdown` supposes two things of the main thread: that the signal does not come while it
  is in the allocator, for the handler allocates what it logs (`Logger.cpp:76`, `:98`) and
  would wait for a lock of its own thread; and that a write to the host returns
  (`Main.cpp:269`), for a host that does not read keeps it, and the exit is not seen. That
  the exceptions of `StopEnds` are the only ones holds under these two. `OpenDevices`
  does not suppose the second.
- The overlay of md-dialog keeps clicks from what is behind it; Escape and a click beside it
  close it without an event that the page handles.
- Undefined behaviour kills the process or goes unnoticed, it does not corrupt other
  state.

## Known deviations

Three runs end in a counterexample. Each checks what a sentence of the repository says:

- `MCA1644_fn`: without SwapFnCtrl nothing resets `m_FakeFnActive`; after the first
  press of Fn, F7 to F12 are media keys without it (`A1644.cpp:65`), and other reports are
  treated as if it were held (`OrdinaryReportsPass`).
- `MCPairing_wedge`: begin-pair for a device that is not available leaves `g_bIsPairing`
  set, and all later ones are refused until a restart (`bt.cpp:381`), as after each of the
  three exceptions thrown with the flag set (`bt.cpp:387`, `:392`, `:397`). This is why
  `PairingEnds` speaks of pairings whose Pair call was sent.
- `MCOpenDevices_valid`: a valid POST to /settings or /keymap before the first keyboard,
  or between two, brings the process down (`Main.cpp:438`).

Others are in the models, and the properties are stated around them:

- With a media key held, press and release another key: the media break is sent for the
  other one, whose own report is never written (`A1644.cpp:96`): the exception of
  `KeysUpUnlessBehindBreak`.
- The reply to a pairing can be handed to the next (`bt.cpp:348`): the second disjunct of
  `BeginAnswered` in `PairingSpec`, and of `BeginAnswerOrigin`.
- When bluetoothd is restarted the agent counts as registered though the new one does not
  have it, nor ever gets it, and pairing goes on without pin codes (`agent.cpp:163`):
  `forgotten` in `AgentGivenOnce`. "Agent is already registered" is then not so. delete-data
  stops bluetoothd, but reboots.
- A mapping of the key 0 ("0x00", or "0x100", of which the last byte is taken) is accepted
  (`KeyMapReportFilter.cpp:18`) and applies to empty slots (`:68`): the host has its key with
  none held, and the mappings behind it are not reached: the exception of
  `KeysUpWithKeyboard`. A null in place of a key is 0xff, and is written to the host (`:73`).
- When keyboards are exchanged between the opening of the two devices the filters of one
  serve the reports of the other (`Main.cpp:346`): `gone` in `SettingsRestored`.
- A request whose file could not be written or removed is answered as a success
  (`Globals.cpp:152`, `Main.cpp:393`): the settings are not there next time. `Unsure` in
  `SettingsRestored`.
- With two mapped keys held the second comes out as itself, and changes when the first is
  released (`KeyMapReportFilter.cpp:75`): `MappedKeyWorks` speaks of one. The German key map
  (`keymaps/de-keymap.json`) swaps two keys.
- save-data writes over the archive in place: a failure or a cut of the power while it does
  loses the earlier one, too (`WebApiServer.cpp:102`); `touched` in `SavedComesBack`. README.md
  has the device unplugged at any time. A request that fails leaves `/boot` writable, and a
  delete-data that fails after it has stopped bluetooth leaves it stopped.
- A stop hangs when the signal comes while the main thread writes to the log
  (`SelfLocked`, at any time), before the bluetooth loop runs (`LostQuit`) or before Crow
  has its worker (`LostStop`): the exceptions of `StopEnds`. It crashes when a thread has
  reset its pointer between the test and the join, and on a second signal after the first
  was handled (`WebApiServer.cpp:51`). systemd kills what hangs after 90 seconds.
- A pairing whose dialogue is closed with Escape, or replaced by the error of a save that
  was under way, waits for ever and leaves the page busy until it is loaded anew
  (`App.vue:178`): `Lost` in `BusyEnds`. A failed switch of discovery is turned back from what
  a polling has shown meanwhile, and may be wrong until the next one (`App.vue:134`):
  `SwitchFollows` is a leads-to.
- Alt and Cmd held together become Cmd alone (`SwapPair`); a special report before the first
  report of keys goes out with report id 0 (`A1314Init`); begin-pair may take the reply
  that end-pair then waits for (`BeginClears`); the agent is never registered if the agent
  manager is announced after the adapter (`ManagerAdded`); a key map that does not parse has
  emptied the one in use (`ClearKeyMap`); no other adapter takes the place of the default one
  (`AdapterRemoved`).

## Not modelled

- The walk of a web request through the device list while the bluetooth thread changes it
  (`bt.cpp:229`): neither a lock nor an order protects it, so that there is nothing a
  property could claim of it but that it may meet a freed proxy.
- The rotation of the log: one step under the lock that `Shutdown` models.
- `removeDevice` and `deviceDetails` of the page: requests like the others, which do not
  catch their errors. The cards, and the list of devices.
- `AgentUnregister` and `AgentDefault`: nothing calls them.
- The output direction (LED reports): it keeps no state.
- Static files, version and log pages, battery level; connecting, trusting, removing and
  discovery on the server's side: input and output only, or blocking calls handed on to
  bluetoothd. Formatting and logging everywhere.
- gdbus and Crow but for what the program sees of them: proxies announced and withdrawn
  (`Registry`), the start, the work and the stop of the server (`Shutdown`). The JSON library
  and fifo_map.
  They are about 36,000 of the 39,000 lines of the repository's code (`raspikey/json.hpp`
  alone is 20,000), so that the share of all lines which the models cover stays small; of
  the program's own code it is most.
- Installation scripts, which run once.

## Plan

Done, in this order: `A1644` and its proofs (what every key press goes through),
`A1314`, `Pairing` and its proofs (the hardest interleaving), `OpenDevices` and its
proof (what ties the program together), `Registry` and its proofs (what pairing starts
from); then `KeyMap`, `Persistence` and `Shutdown` with their proofs, `PairingSpec` with the
refinement, and `App` with its proofs; then the theorems about `A1314`, about single reports,
and the ranks behind the liveness properties.

Left:

1. The sessions of `OpenDevices` composed with the reports of `A1644`: a keyboard that goes
   with a media key down (`A1644.cpp:98`).
2. Theorems: what the two filters in a row promise together, the key map behind A1644 (the
   lemma `NoKeyNoMatch` of `KeyMap_proofs`, which holds unless the key 0 is mapped, is the
   step from one to the other).
