---------------------------- MODULE OpenDevices ----------------------------
(***************************************************************************)
(* The life of the two report filters (raspikey/Main.cpp): the main thread *)
(* runs OpenDevicesLoop, which opens the devices of a connected keyboard,  *)
(* creates the keyboard filter (0) and the key map filter (1), loads their *)
(* files, forwards reports until the keyboard goes, and deletes them.  The *)
(* web thread serves /keymap and /settings, which use the same pointers    *)
(* without a lock and write the same files.  systemd restarts the process  *)
(* when it dies (setup/raspikey.service).                                  *)
(*                                                                         *)
(* A read or write through a null pointer kills the process.  Through a    *)
(* dangling one, or while the other thread changes the same container, it  *)
(* is undefined: it kills the process or goes unnoticed.  Besides, the      *)
(* process may be killed at any step.                                      *)
(***************************************************************************)
EXTENDS Integers

CONSTANTS
    Devs,           \* keyboard addresses
    Apple,          \* those with an Apple filter, the others have the generic one
    Docs,           \* valid documents, for settings and for key maps
    ReqDevs,        \* bounds: the keyboards that requests are about,
    ReqDocs         \* and the documents they bring

Default == "default"    \* what a filter does without settings; an empty key map
Bad     == "bad"        \* a document that does not parse
Empty   == "empty"      \* an empty document, and the file just truncated
NoFile  == "noFile"
NoDev   == "noDev"
Unsure  == "unsure"     \* no document: it was cut off before the file was written

ASSUME DevsAssumption == Apple \subseteq Devs /\ NoDev \notin Devs
ASSUME DocsAssumption == Docs \cap {Default, Bad, Empty, NoFile, Unsure} = {}
ASSUME ReqAssumption == ReqDevs \subseteq Devs /\ ReqDocs \subseteq Docs \cup {Bad, Empty}

Filter   == {0, 1}
Contents == Docs \cup {Bad, Empty}

VARIABLES
    main,           \* where the main thread is
    devId,          \* the keyboard whose event device it has opened
    fds,            \* its open file descriptors
    gone,           \* those of a keyboard that has gone since
    text,           \* the file contents it has read and not yet used
    g_pReportFilters,
    settings,       \* what the live filters are set to
    web,            \* where the web thread is
    req,            \* the request it serves
    this,           \* the filter object it uses
    file,           \* the settings and key map files of each keyboard
    asked,          \* what the last request that changed them has made them
    present,        \* the keyboard connected
    g_ExitRequested,
    handling,       \* the signal handler has interrupted the main thread
    crashed,
    touched         \* a request has been served since the filters were made

mainVars == <<main, devId, fds, gone, text>>
webVars  == <<web, req, this>>
filters  == <<g_pReportFilters, settings>>
files    == <<file, asked>>
signal   == <<g_ExitRequested, handling>>
vars     == <<mainVars, webVars, filters, files, present, signal, crashed, touched>>

\* What a filter for keyboard d that was at s is set to by a document, and
\* whether it takes it: A1644::SetSettings parses first and changes nothing if
\* that fails, GenericReportFilter::SetSettings ignores it, and
\* KeyMapReportFilter::SetSettings, here once it has cleared the map, takes an
\* empty document for an empty map.
Accepts(k, d, doc) == \/ doc \in Docs
                      \/ k = 0 /\ d \notin Apple
                      \/ k = 1 /\ doc = Empty

\* Mutant of Applied: what does not parse is kept as it is.
AppliedUnparsed(k, d, doc, s) == IF k = 1 \/ d \in Apple THEN doc ELSE s

Applied(k, d, doc, s) == IF doc \in Docs /\ (k = 1 \/ d \in Apple) THEN doc ELSE s

NoRequest == [op |-> "none", k |-> 0, dev |-> NoDev, doc |-> Empty]

Init ==
    /\ main = "top" /\ devId = NoDev /\ fds = {} /\ gone = {} /\ text = Empty
    /\ g_pReportFilters = [k \in Filter |-> "null"]
    /\ settings = [k \in Filter |-> Default]
    /\ web = "idle" /\ req = NoRequest /\ this = "null"
    /\ file \in [Filter -> [Devs -> {NoFile} \cup Contents]]
    /\ asked = file
    /\ present = NoDev
    /\ g_ExitRequested = FALSE /\ handling = FALSE
    /\ crashed = FALSE /\ touched = FALSE

\* The main thread goes on only when the handler that interrupts it is done.
MainGoto(from, to) == ~crashed /\ ~handling /\ main = from /\ main' = to
WebGoto(from, to)  == ~crashed /\ web = from /\ web' = to

\* Where the main thread is using one filter, or both.
UsingKb   == main \in {"readSettings", "loadSettings", "newMap"}
UsingBoth == main \in {"readKeyMap", "loadKeyMap", "forward", "write", "break", "close", "delete"}

Opens(d)  == fds' = fds \cup {d} /\ UNCHANGED gone
Closes(d) == fds' = fds \ d /\ gone' = gone \ d

-----------------------------------------------------------------------------
(* The main thread: OpenDevicesLoop.                                       *)

LoopTest ==
    /\ MainGoto("top", IF g_ExitRequested THEN "ended" ELSE "openEvent")
    /\ UNCHANGED <<devId, fds, gone, text, webVars, filters, files, present, signal, crashed, touched>>

\* OpenKbDevice: the event device, which tells the name and the address, and which
\* is grabbed; then the hidraw device, of the keyboard that is there by then.
OpenEvent ==
    /\ present # NoDev
    /\ MainGoto("openEvent", "grab")
    /\ devId' = present
    /\ Opens("event")
    /\ UNCHANGED <<text, webVars, filters, files, present, signal, crashed, touched>>

\* The event device of a keyboard that has gone is not grabbed.
Grab ==
    /\ "event" \notin gone
    /\ MainGoto("grab", "openHidraw")
    /\ UNCHANGED <<devId, fds, gone, text, webVars, filters, files, present, signal, crashed, touched>>

OpenHidraw ==
    /\ present # NoDev
    /\ MainGoto("openHidraw", "openHidg")
    /\ Opens("hidraw")
    /\ UNCHANGED <<devId, text, webVars, filters, files, present, signal, crashed, touched>>

\* Each of these steps may fail; what has been opened is closed.
OpenKbFails ==
    /\ \E step \in {"openEvent", "grab", "openHidraw"} : MainGoto(step, "top")
    /\ Closes({"event"}) /\ devId' = NoDev
    /\ UNCHANGED <<text, webVars, filters, files, present, signal, crashed, touched>>

OpenHidgDevice ==
    /\ MainGoto("openHidg", "newKb")
    /\ Opens("hidg")
    /\ UNCHANGED <<devId, text, webVars, filters, files, present, signal, crashed, touched>>

\* Mutant of OpenHidgFails: the keyboard's descriptors are left open.
OpenHidgFailsLeaks ==
    /\ MainGoto("openHidg", "top")
    /\ UNCHANGED <<devId, fds, gone, text, webVars, filters, files, present, signal, crashed, touched>>

OpenHidgFails ==
    /\ MainGoto("openHidg", "top")
    /\ Closes({"event", "hidraw"}) /\ devId' = NoDev
    /\ UNCHANGED <<text, webVars, filters, files, present, signal, crashed, touched>>

\* Mutant of NewFilter: the filter keeps what the last one was set to.
NewFilterKeeps(k, from, to) ==
    /\ MainGoto(from, to)
    /\ g_pReportFilters' = [g_pReportFilters EXCEPT ![k] = "live"]
    /\ UNCHANGED <<devId, fds, gone, text, webVars, settings, files, present, signal, crashed>>

NewFilter(k, from, to) ==
    /\ MainGoto(from, to)
    /\ g_pReportFilters' = [g_pReportFilters EXCEPT ![k] = "live"]
    /\ settings' = [settings EXCEPT ![k] = Default]
    /\ UNCHANGED <<devId, fds, gone, text, webVars, files, present, signal, crashed>>

NewKbFilter     == NewFilter(0, "newKb", "readSettings") /\ touched' = (web # "idle")
NewKeyMapFilter == NewFilter(1, "newMap", "readKeyMap") /\ UNCHANGED touched

\* FileReadAllText, with nothing to do if there is no file.
ReadFile(k, from, found, none) ==
    /\ MainGoto(from, IF file[k][devId] = NoFile THEN none ELSE found)
    /\ text' = IF file[k][devId] = NoFile THEN text ELSE file[k][devId]
    /\ UNCHANGED <<devId, fds, gone, webVars, filters, files, present, signal, crashed, touched>>

ReadSettings == ReadFile(0, "readSettings", "loadSettings", "newMap")
ReadKeyMap   == ReadFile(1, "readKeyMap", "loadKeyMap", "forward")

\* SetSettings on the new filter; an exception is caught and logged.
LoadFile(k, from, to) ==
    /\ MainGoto(from, to)
    /\ settings' = [settings EXCEPT ![k] =
                       Applied(k, devId, text, IF k = 1 THEN Default ELSE @)]
    /\ text' = Empty
    /\ UNCHANGED <<devId, fds, gone, webVars, g_pReportFilters, files, present, signal,
                   crashed, touched>>

LoadSettings == LoadFile(0, "loadSettings", "newMap")
LoadKeyMap   == LoadFile(1, "loadKeyMap", "forward")

\* ForwardingLoop at its test and in select: a report has come, from the keyboard
\* or from the host, has been through the filters and is about to be written.
ForwardReport ==
    /\ ~g_ExitRequested /\ "hidraw" \notin gone
    /\ MainGoto("forward", "write")
    /\ UNCHANGED <<devId, fds, gone, text, webVars, filters, files, present, signal, crashed, touched>>

\* The write returns, when the host has taken what was written before.
ReportWritten ==
    /\ MainGoto("write", "forward")
    /\ UNCHANGED <<devId, fds, gone, text, webVars, filters, files, present, signal, crashed, touched>>

\* ForwardingLoop returns, whatever the reason.
LeaveForwarding(from) ==
    /\ MainGoto(from, IF g_ExitRequested THEN "break" ELSE "close")
    /\ UNCHANGED <<devId, fds, gone, text, webVars, filters, files, present, signal, crashed, touched>>

\* Mutants of ForwardingEnds: a failed read goes on; an exit is only seen then.
ForwardingEndsOnExit == g_ExitRequested /\ LeaveForwarding("forward")
ForwardingEndsOnGone == "hidraw" \in gone /\ LeaveForwarding("forward")

\* A read of a device that has gone fails, or an exit is requested.
ForwardingEnds == ("hidraw" \in gone \/ g_ExitRequested) /\ LeaveForwarding("forward")

\* Any other read, or a write, fails: the host has been switched off, say.
ForwardingFails == LeaveForwarding("forward") \/ LeaveForwarding("write")

\* Before an exit all keys are released at the host: the write returns, or fails.
WriteBreak ==
    /\ MainGoto("break", "close")
    /\ UNCHANGED <<devId, fds, gone, text, webVars, filters, files, present, signal, crashed, touched>>

CloseDevices ==
    /\ MainGoto("close", "delete")
    /\ Closes({"event", "hidraw", "hidg"})
    /\ UNCHANGED <<devId, text, webVars, filters, files, present, signal, crashed, touched>>

\* The filters are deleted, the pointers are left; the web thread may be in one.
DeleteFilters ==
    /\ MainGoto("delete", "top")
    /\ g_pReportFilters' = [k \in Filter |->
                              IF g_pReportFilters[k] = "null" THEN "null" ELSE "dangling"]
    /\ this' = IF this = "live" THEN "dangling" ELSE this
    /\ devId' = NoDev /\ touched' = FALSE
    /\ UNCHANGED <<fds, gone, text, web, req, settings, files, present, signal, crashed>>

\* The steps that end by themselves.
MainStep ==
    \/ LoopTest \/ OpenEvent \/ Grab \/ OpenHidraw \/ OpenKbFails
    \/ OpenHidgDevice \/ OpenHidgFails
    \/ NewKbFilter \/ ReadSettings \/ LoadSettings
    \/ NewKeyMapFilter \/ ReadKeyMap \/ LoadKeyMap
    \/ ForwardingEnds \/ CloseDevices \/ DeleteFilters

\* Those that depend on the keyboard and the host.
ForwardStep == ForwardReport \/ ReportWritten \/ ForwardingFails \/ WriteBreak

-----------------------------------------------------------------------------
(* The web thread: SetSettings and SetKeyMap, DeleteKeyMap, GetKeyMap.     *)

\* The server takes requests until the handler has stopped it.
Request(op, k, d, doc, to) ==
    /\ g_ExitRequested => handling
    /\ WebGoto("idle", to)
    /\ req' = [op |-> op, k |-> k, dev |-> d, doc |-> doc]
    /\ touched' = (UsingKb \/ UsingBoth)
    /\ UNCHANGED <<mainVars, this, filters, files, present, signal, crashed>>

SetRequest    == \E k \in Filter, d \in ReqDevs, doc \in ReqDocs :
                    Request("set", k, d, doc, "deref")
DeleteRequest == \E d \in ReqDevs : Request("delete", 1, d, Empty, "remove")
GetRequest    == \E k \in Filter, d \in ReqDevs : Request("get", k, d, Empty, "deref")

\* The file is removed, or that fails and is not told.
DeleteFile ==
    /\ WebGoto("remove", "deref")
    /\ \/ /\ file' = [file EXCEPT ![1][req.dev] = NoFile]
          /\ asked' = [asked EXCEPT ![1][req.dev] = NoFile]
       \/ UNCHANGED files
    /\ UNCHANGED <<mainVars, req, this, filters, present, signal, crashed, touched>>

\* The pointer is read, and the function of the object it points to called.
Deref ==
    /\ g_pReportFilters[req.k] # "null"
    /\ WebGoto("deref", IF req.op = "get" THEN "get" ELSE "clear")
    /\ this' = g_pReportFilters[req.k]
    /\ UNCHANGED <<mainVars, req, filters, files, present, signal, crashed, touched>>

\* The request is answered, with success or with an error.
Answer(from) ==
    /\ WebGoto(from, "idle")
    /\ this' = "null" /\ req' = NoRequest
    /\ UNCHANGED <<mainVars, present, signal, crashed, touched>>

GetSettings == Answer("get") /\ UNCHANGED <<filters, files>>

\* What the web thread makes of the live filter: nothing if its object is not it.
SetLive(s) == settings' = IF this = "live" THEN [settings EXCEPT ![req.k] = s] ELSE settings

\* m_keyMap.clear().
ClearKeyMap ==
    /\ WebGoto("clear", "parse")
    /\ SetLive(IF req.k = 1 THEN Default ELSE settings[0])
    /\ UNCHANGED <<mainVars, req, this, g_pReportFilters, files, present, signal, crashed, touched>>

\* The keyboard whose filter is used; a deleted filter may be any.
FilterFor == IF this = "live" THEN {devId} ELSE Devs

ParseFails ==
    /\ \E d \in FilterFor : ~Accepts(req.k, d, req.doc)
    /\ Answer("parse")
    /\ UNCHANGED <<filters, files>>

ParseSet ==
    /\ \E d \in FilterFor : Accepts(req.k, d, req.doc)
    /\ req.op = "set"
    /\ WebGoto("parse", "truncate")
    /\ SetLive(Applied(req.k, devId, req.doc, settings[req.k]))
    /\ this' = "null"
    /\ UNCHANGED <<mainVars, req, g_pReportFilters, files, present, signal, crashed, touched>>

ParseDelete ==
    /\ req.op = "delete"
    /\ Answer("parse")
    /\ UNCHANGED <<filters, files>>

\* FileWriteAllText: open with truncation, then write; a failed write goes
\* unnoticed.
TruncateFile ==
    /\ WebGoto("truncate", "write")
    /\ file' = [file EXCEPT ![req.k][req.dev] = Empty]
    /\ asked' = [asked EXCEPT ![req.k][req.dev] = Unsure]
    /\ UNCHANGED <<mainVars, req, this, filters, present, signal, crashed, touched>>

TruncateFails ==
    /\ Answer("truncate")
    /\ UNCHANGED <<filters, files>>

WriteFile ==
    /\ Answer("write")
    /\ \E written \in {req.doc, Empty} :
          /\ file' = [file EXCEPT ![req.k][req.dev] = written]
          /\ asked' = [asked EXCEPT ![req.k][req.dev] =
                          IF written = req.doc THEN written ELSE Unsure]
    /\ UNCHANGED filters

WebStep ==
    \/ DeleteFile \/ Deref \/ GetSettings \/ ClearKeyMap
    \/ ParseFails \/ ParseSet \/ ParseDelete
    \/ TruncateFile \/ TruncateFails \/ WriteFile

-----------------------------------------------------------------------------
(* Death and restart, and the environment.                                 *)

\* The web thread calls through a null pointer.
NullCall == web = "deref" /\ g_pReportFilters[req.k] = "null"

\* It uses an object that is deleted.
UseAfterFree == web \in {"get", "clear", "parse"} /\ this = "dangling"

\* It changes m_keyMap while ForwardingLoop goes through it, or LoadKeyMap fills it,
\* or it goes through it itself meanwhile.
KeyMapRace ==
    /\ this = "live" /\ req.k = 1
    /\ \/ web \in {"clear", "parse"} /\ main \in {"forward", "loadKeyMap"}
       \/ web = "get" /\ main = "loadKeyMap"

\* The process dies, and everything with it but the files.
Die ==
    /\ crashed' = TRUE
    /\ main' = "top" /\ devId' = NoDev /\ fds' = {} /\ gone' = {} /\ text' = Empty
    /\ g_pReportFilters' = [k \in Filter |-> "null"]
    /\ settings' = [k \in Filter |-> Default]
    /\ web' = "idle" /\ this' = "null"
    /\ g_ExitRequested' = FALSE /\ handling' = FALSE /\ touched' = FALSE
    /\ UNCHANGED <<files, present>>

\* By its own fault, which leaves the request to be blamed.
Crash ==
    /\ ~crashed
    /\ NullCall \/ UseAfterFree \/ KeyMapRace
    /\ Die
    /\ UNCHANGED req

\* By any other: it is killed, or aborts in some other thread, at any step of any
\* thread; or it has ended and systemd starts it again.
ProcessDies ==
    /\ ~crashed
    /\ Die
    /\ req' = NoRequest

\* Restart=always.
Restart ==
    /\ crashed
    /\ crashed' = FALSE
    /\ req' = NoRequest
    /\ UNCHANGED <<mainVars, web, this, filters, files, present, signal, touched>>

Connect ==
    /\ present = NoDev
    /\ present' \in Devs
    /\ UNCHANGED <<mainVars, webVars, filters, files, signal, crashed, touched>>

\* The descriptors of a keyboard that has gone do not come back with it.
Disconnect ==
    /\ present # NoDev
    /\ present' = NoDev
    /\ gone' = fds \cap {"event", "hidraw"}
    /\ UNCHANGED <<main, devId, fds, text, webVars, filters, files, signal, crashed, touched>>

\* SIGINT or SIGTERM, the first of them: the handler runs on the main thread,
\* wherever that is, and sets the flag.
SignalHandler ==
    /\ ~crashed /\ ~g_ExitRequested
    /\ g_ExitRequested' = TRUE /\ handling' = TRUE
    /\ UNCHANGED <<mainVars, webVars, filters, files, present, crashed, touched>>

\* StopAllServices has stopped the bluetooth and the web server and waited for their
\* threads; Shutdown says when it comes to this.
HandlerReturns ==
    /\ ~crashed /\ handling
    /\ web = "idle"
    /\ handling' = FALSE
    /\ UNCHANGED <<mainVars, webVars, filters, files, present, g_ExitRequested, crashed, touched>>

Next ==
    \/ MainStep \/ ForwardStep
    \/ SetRequest \/ DeleteRequest \/ GetRequest \/ WebStep
    \/ Crash \/ ProcessDies \/ Restart
    \/ Connect \/ Disconnect \/ SignalHandler \/ HandlerReturns

Spec == Init /\ [][Next]_vars

\* Both threads run, systemd restarts the process, a web thread stuck at a null
\* pointer dies, and devices that are there can be opened sooner or later.  Nobody
\* need send or take a report, and nothing is said of how long a write takes, nor
\* the signal handler.
Fairness ==
    /\ WF_vars(MainStep) /\ WF_vars(WebStep) /\ WF_vars(Restart)
    /\ WF_vars(Crash /\ NullCall)
    /\ SF_vars(OpenEvent) /\ SF_vars(Grab) /\ SF_vars(OpenHidraw) /\ SF_vars(OpenHidgDevice)

FairSpec == Spec /\ Fairness

-----------------------------------------------------------------------------
(* Properties.                                                             *)

TypeOK ==
    /\ main \in {"top", "openEvent", "grab", "openHidraw", "openHidg", "newKb",
                 "readSettings", "loadSettings", "newMap", "readKeyMap", "loadKeyMap",
                 "forward", "write", "break", "close", "delete", "ended"}
    /\ web \in {"idle", "remove", "deref", "get", "clear", "parse", "truncate", "write"}
    /\ devId \in Devs \cup {NoDev} /\ present \in Devs \cup {NoDev}
    /\ fds \in SUBSET {"event", "hidraw", "hidg"} /\ gone \in SUBSET {"event", "hidraw"}
    /\ text \in Contents
    /\ g_pReportFilters \in [Filter -> {"null", "live", "dangling"}]
    /\ settings \in [Filter -> Docs \cup {Default}]
    /\ this \in {"null", "live", "dangling"}
    /\ req \in [op : {"none", "set", "delete", "get"}, k : Filter,
                dev : Devs \cup {NoDev}, doc : Contents]
    /\ file \in [Filter -> [Devs -> Contents \cup {NoFile}]]
    /\ asked \in [Filter -> [Devs -> Contents \cup {NoFile, Unsure}]]
    /\ {g_ExitRequested, handling, crashed, touched} \subseteq BOOLEAN

\* The main thread uses the filters only between their creation and their
\* deletion, and creates none over a live one, through disconnections, exits and
\* crashes; whatever it has opened is closed when it starts over.
SessionsClean ==
    /\ UsingKb => g_pReportFilters[0] = "live" /\ g_pReportFilters[1] # "live"
    /\ UsingBoth => \A k \in Filter : g_pReportFilters[k] = "live"
    /\ ~UsingKb /\ ~UsingBoth => \A k \in Filter : g_pReportFilters[k] # "live"
    /\ main \in {"top", "openEvent", "delete", "ended"} => fds = {}

\* Which descriptors there are, at each place where some are open.
FdsOf == [grab |-> {"event"}, openHidraw |-> {"event"}, openHidg |-> {"event", "hidraw"}]

\* The inductive invariant: with it goes which descriptors there are to close, and
\* that a keyboard both of whose devices are open and have not gone is connected.
IInv ==
    /\ g_pReportFilters \in [Filter -> {"null", "live", "dangling"}]
    /\ gone \subseteq fds
    /\ main \in DOMAIN FdsOf => fds = FdsOf[main]
    /\ main \in {"newKb", "close"} \/ UsingKb \/ (UsingBoth /\ main # "delete") =>
          fds = {"event", "hidraw", "hidg"}
    /\ "event" \in fds \ gone => devId = present /\ present # NoDev
    /\ SessionsClean

\* A keyboard gets back, whenever it is connected, the settings and the key map that
\* the last request to write or to remove their files has given it: not what another
\* keyboard was set to, nor what a request was refused with, and however often the
\* keyboard went and the process died since, between the truncation of another file
\* and the writing of it, say.  The exceptions: that request itself was cut off before
\* its document was written, or could not write it (Unsure); a request was taken since
\* the filters were made (touched); keyboards were exchanged between the opening of the
\* two devices (gone).
SettingsRestored ==
    main \in {"forward", "write"} /\ gone = {} /\ ~touched =>
        \A k \in Filter : asked[k][present] # Unsure =>
            settings[k] = Applied(k, present, asked[k][present], Default)

\* A keyboard that stays connected is served again and again, however often its
\* devices failed to open, ForwardingLoop failed, keyboards were exchanged and the
\* process died before, unless the user ends the program, the process dies again and
\* again, or a write to the host never returns.
KeyboardServed ==
    <>[](present # NoDev /\ ~g_ExitRequested /\ ~crashed) /\ []<>(main # "write")
        => []<>(main = "forward" /\ "hidraw" \notin gone)

\* A requested exit is not forgotten, wherever the main thread was interrupted: when
\* the handler has returned the program ends, or dies and is restarted, unless it
\* hangs in a write to the host.
ExitEnds == []<>(main \in {"ended", "write", "break"} \/ ~g_ExitRequested \/ handling)

-----------------------------------------------------------------------------
(* What comments say, which the code does not do.                          *)

\* Main.cpp:411 and :435: setting a key map or settings "will fail if the data is
\* invalid"; with valid data it does not bring the process down.
ValidDataAccepted == crashed => ~(req.op = "set" /\ req.doc \in Docs)

=============================================================================
