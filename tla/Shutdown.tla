------------------------------ MODULE Shutdown ------------------------------
(***************************************************************************)
(* How the services are started and stopped: StartServices, SignalHandler  *)
(* and StopAllServices of raspikey/Main.cpp, which runs both on the main   *)
(* thread, the Start, Stop and MainThread of raspikey/WebApiServer.cpp and *)
(* of raspikey/bluetooth/bt.cpp, and the lock of raspikey/Logger.cpp that  *)
(* all of them take when they log.                                         *)
(*                                                                         *)
(* A signal goes to the main thread and is handled wherever that thread    *)
(* is.  A second signal is modelled from when the first one's handler has  *)
(* returned; one that comes during it would be handled by another thread.  *)
(*                                                                         *)
(* Of what can be waited for there are the lock of the log and the joins.  *)
(* Two more are assumed away: that the handler, which allocates memory for *)
(* what it logs (Logger.cpp:76, :98), may have interrupted the main thread *)
(* in the allocator; and that OpenDevicesLoop may never come back from a   *)
(* write to a host that does not read (Main.cpp:269).                      *)
(***************************************************************************)
EXTENDS Naturals

CONSTANTS MaxSignals        \* bound: how many signals come

ASSUME MaxSignalsAssumption == MaxSignals \in Nat \ {0}

\* Who may hold the lock of the log; the handler apart from the thread that it
\* has interrupted, whose lock it cannot take over.
Loggers == {"main", "handler", "bt", "web"}

VARIABLES
    main,               \* where the main thread is, when it is not interrupted
    handler,            \* where the signal handler is, or "none"
    g_ExitRequested,
    bt,                 \* where the bluetooth thread is
    g_pMainThread,      \* is the pointer to it set?
    quit,               \* has the running loop been told to quit?
    web,                \* where the thread of the web server is
    m_pMainThread,      \* is the pointer to it set?
    stopped,            \* what of the server has been stopped
    busy,               \* does the worker serve a request?
    log,                \* who holds m_logMutex, and who waits for it
    signals             \* how many signals have come

btVars  == <<bt, g_pMainThread, quit>>
webVars == <<web, m_pMainThread, stopped, busy>>
vars    == <<main, handler, g_ExitRequested, btVars, webVars, log, signals>>

Init ==
    /\ main = "startWeb" /\ handler = "none"
    /\ g_ExitRequested = FALSE
    /\ bt = "none" /\ g_pMainThread = FALSE /\ quit = FALSE
    /\ web = "none" /\ m_pMainThread = FALSE /\ stopped = {} /\ busy = FALSE
    /\ log = [l \in Loggers |-> "no"]
    /\ signals = 0

Alive == main \notin {"gone", "crashed"}

-----------------------------------------------------------------------------
(* Logger::FileLog, which holds the lock while it writes.                  *)

Logs(l) == log' = [log EXCEPT ![l] = "waits"]

\* The main thread goes on only when its handler is done.
Runs(l) == Alive /\ (l = "main" => handler = "none")

\* Mutant of TakesLock: the lock is not waited for.
TakesLockTaken(l) ==
    /\ Runs(l) /\ log[l] = "waits"
    /\ log' = [log EXCEPT ![l] = "holds"]
    /\ UNCHANGED <<main, handler, g_ExitRequested, btVars, webVars, signals>>

TakesLock(l) ==
    /\ Runs(l) /\ log[l] = "waits"
    /\ \A k \in Loggers : log[k] # "holds"
    /\ log' = [log EXCEPT ![l] = "holds"]
    /\ UNCHANGED <<main, handler, g_ExitRequested, btVars, webVars, signals>>

ReleasesLock(l) ==
    /\ Runs(l) /\ log[l] = "holds"
    /\ log' = [log EXCEPT ![l] = "no"]
    /\ UNCHANGED <<main, handler, g_ExitRequested, btVars, webVars, signals>>

-----------------------------------------------------------------------------
(* The main thread.                                                        *)

MainGoes(from, to) ==
    /\ Runs("main") /\ log["main"] = "no"
    /\ main = from /\ main' = to
    /\ UNCHANGED <<handler, g_ExitRequested, signals>>

StartWeb ==
    /\ MainGoes("startWeb", "startBt")
    /\ web' = "created" /\ m_pMainThread' = TRUE
    /\ UNCHANGED <<btVars, stopped, busy, log>>

\* The thread is created, or the program is left.
StartBt ==
    \/ /\ MainGoes("startBt", "setHandlers")
       /\ bt' = "created" /\ g_pMainThread' = TRUE
       /\ UNCHANGED <<quit, webVars, log>>
    \/ /\ MainGoes("startBt", "failed")
       /\ UNCHANGED <<btVars, webVars>>
       /\ Logs("main")

SetHandlers == MainGoes("setHandlers", "loop") /\ UNCHANGED <<btVars, webVars, log>>

\* OpenDevicesLoop, of which only the flag and the lock matter here.
LoopLogs ==
    /\ MainGoes("loop", "loop")
    /\ Logs("main")
    /\ UNCHANGED <<btVars, webVars>>

\* Mutant of LeaveLoop: the main loop does not look at the flag.
LeaveLoopNever == FALSE

\* OpenDevicesLoop comes to one of its tests of the flag; that no write to the host
\* keeps it from there is assumed by the fairness.
LeaveLoop ==
    /\ g_ExitRequested
    /\ MainGoes("loop", "left")
    /\ UNCHANGED <<btVars, webVars, log>>

\* main returns and the static objects go, the web server and the log among them.
Exit ==
    /\ MainGoes("left", "gone") \/ MainGoes("failed", "gone")
    /\ UNCHANGED <<btVars, webVars, log>>

-----------------------------------------------------------------------------
(* SignalHandler and StopAllServices, on the main thread.                  *)

\* Before the handlers are set SIGTERM ends the process.
SignalKills ==
    /\ main \in {"startWeb", "startBt", "setHandlers", "failed"}
    /\ signals < MaxSignals /\ signals' = signals + 1
    /\ main' = "gone"
    /\ UNCHANGED <<handler, g_ExitRequested, btVars, webVars, log>>

\* Mutant of Signal: the handler does not log.
SignalSilent ==
    /\ Runs("main") /\ main \in {"loop", "left"}
    /\ signals < MaxSignals /\ signals' = signals + 1
    /\ handler' = "quitBt" /\ g_ExitRequested' = TRUE
    /\ UNCHANGED <<main, btVars, webVars, log>>

\* What the handler does first is to log, wherever the main thread was: to make the
\* line, which takes memory and is assumed to succeed, and to wait for the lock.
Signal ==
    /\ Runs("main") /\ main \in {"loop", "left"}
    /\ signals < MaxSignals /\ signals' = signals + 1
    /\ handler' = "log"
    /\ Logs("handler")
    /\ UNCHANGED <<main, g_ExitRequested, btVars, webVars>>

HandlerGoes(from, to) ==
    /\ Alive
    /\ handler = from /\ handler' = to
    /\ UNCHANGED <<main, log, signals>>

StopServices ==
    /\ log["handler"] = "no"
    /\ HandlerGoes("log", "quitBt")
    /\ g_ExitRequested' = TRUE
    /\ UNCHANGED <<btVars, webVars>>

\* bluetooth::Stop up to the join.  A loop that does not run yet cannot be told to
\* quit: there is none, or running it forgets.
QuitBt ==
    /\ HandlerGoes("quitBt", IF g_pMainThread THEN "joinBt" ELSE "stopWeb")
    /\ quit' = (g_pMainThread /\ bt = "running")
    /\ UNCHANGED <<g_ExitRequested, bt, g_pMainThread, webVars>>

\* The pointer is read again for the join; the thread may have reset it by then.
JoinBt ==
    /\ g_pMainThread
    /\ HandlerGoes("joinBt", "inJoinBt")
    /\ UNCHANGED <<g_ExitRequested, btVars, webVars>>

\* Mutant of BtJoined: the thread is not waited for.
BtDetached ==
    /\ HandlerGoes("inJoinBt", "stopWeb")
    /\ g_pMainThread' = FALSE
    /\ UNCHANGED <<g_ExitRequested, bt, quit, webVars>>

BtJoined ==
    /\ bt = "ended"
    /\ HandlerGoes("inJoinBt", "stopWeb")
    /\ g_pMainThread' = FALSE
    /\ UNCHANGED <<g_ExitRequested, bt, quit, webVars>>

\* Server::stop stops what there is: the worker is not there before it is made.
StopWeb ==
    /\ web \notin {"none", "created"}
    /\ HandlerGoes("stopWeb", "joinWeb")
    /\ stopped' = IF web = "made" THEN {"acceptor"} ELSE {"acceptor", "worker"}
    /\ UNCHANGED <<g_ExitRequested, btVars, web, m_pMainThread, busy>>

JoinWeb ==
    /\ m_pMainThread
    /\ HandlerGoes("joinWeb", "inJoinWeb")
    /\ UNCHANGED <<g_ExitRequested, btVars, webVars>>

WebJoined ==
    /\ web = "ended"
    /\ HandlerGoes("inJoinWeb", "none")
    /\ m_pMainThread' = FALSE
    /\ UNCHANGED <<g_ExitRequested, btVars, web, stopped, busy>>

\* A null pointer is used: of a thread that has reset it, or of the server that
\* Crow has not made yet.
NullUse ==
    \/ handler = "joinBt" /\ ~g_pMainThread
    \/ handler = "stopWeb" /\ web \in {"none", "created"}
    \/ handler = "joinWeb" /\ ~m_pMainThread

Crash ==
    /\ Alive /\ NullUse
    /\ main' = "crashed"
    /\ UNCHANGED <<handler, g_ExitRequested, btVars, webVars, log, signals>>

HandlerStep == StopServices \/ QuitBt \/ JoinBt \/ BtJoined
                 \/ StopWeb \/ JoinWeb \/ WebJoined \/ Crash

-----------------------------------------------------------------------------
(* The bluetooth thread: bluetooth::MainThread.                            *)

BtGoes(from, to) ==
    /\ Alive /\ log["bt"] = "no"
    /\ bt = from /\ bt' = to
    /\ UNCHANGED <<main, handler, g_ExitRequested, quit, webVars, signals>>

\* The loop is made and the bus set up, then the loop runs.
BtSetUp == BtGoes("created", "made") /\ UNCHANGED <<g_pMainThread, log>>
BtRuns  == BtGoes("made", "running") /\ UNCHANGED <<g_pMainThread, log>>

\* A callback, which logs.
BtCallback ==
    /\ ~quit
    /\ BtGoes("running", "running")
    /\ Logs("bt")
    /\ UNCHANGED g_pMainThread

\* The client goes, and OnProxyRemoved logs every proxy: once stands for all.
BtLeavesLoop ==
    /\ quit
    /\ BtGoes("running", "tearDown")
    /\ \/ Logs("bt")
       \/ UNCHANGED log
    /\ UNCHANGED g_pMainThread

BtEnds ==
    /\ BtGoes("tearDown", "ended")
    /\ g_pMainThread' = FALSE
    /\ UNCHANGED log

BtStep == BtSetUp \/ BtRuns \/ BtLeavesLoop \/ BtEnds

-----------------------------------------------------------------------------
(* The thread of the web server, and Crow's worker.                        *)

WebGoes(from, to) ==
    /\ Alive
    /\ web = from /\ web' = to
    /\ UNCHANGED <<main, handler, g_ExitRequested, btVars, stopped, log, signals>>

\* Crow makes the server, then its worker.
WebMakesServer == WebGoes("created", "made") /\ UNCHANGED <<m_pMainThread, busy>>
WebMakesWorker == WebGoes("made", "up") /\ UNCHANGED <<m_pMainThread, busy>>

Request ==
    /\ Alive /\ web = "up" /\ "worker" \notin stopped
    /\ ~busy /\ busy' = TRUE
    /\ Logs("web") \/ UNCHANGED log
    /\ UNCHANGED <<main, handler, g_ExitRequested, btVars, web, m_pMainThread, stopped, signals>>

Answer ==
    /\ Alive /\ busy /\ log["web"] = "no"
    /\ busy' = FALSE
    /\ UNCHANGED <<main, handler, g_ExitRequested, btVars, web, m_pMainThread, stopped,
                   log, signals>>

\* A worker that has been stopped ends with the request that it serves.
WebEnds ==
    /\ "worker" \in stopped /\ ~busy
    /\ WebGoes("up", "ended")
    /\ m_pMainThread' = FALSE
    /\ UNCHANGED busy

WebStep == WebMakesServer \/ WebMakesWorker \/ Answer \/ WebEnds

-----------------------------------------------------------------------------
Next ==
    \/ \E l \in Loggers : TakesLock(l) \/ ReleasesLock(l)
    \/ StartWeb \/ StartBt \/ SetHandlers \/ LoopLogs \/ LeaveLoop \/ Exit
    \/ SignalKills \/ Signal \/ HandlerStep
    \/ BtCallback \/ BtStep
    \/ Request \/ WebStep

\* The threads run, requests are answered, writes to the host return, and who waits for
\* the log gets it when it becomes free again and again.
Fairness ==
    /\ \A l \in Loggers : SF_vars(TakesLock(l)) /\ WF_vars(ReleasesLock(l))
    /\ SF_vars(LeaveLoop) /\ WF_vars(Exit) /\ WF_vars(HandlerStep)
    /\ WF_vars(BtStep) /\ WF_vars(WebStep)

Spec == Init /\ [][Next]_vars /\ Fairness

-----------------------------------------------------------------------------
(* Properties.                                                             *)

LockOK == /\ log \in [Loggers -> {"no", "waits", "holds"}]
          /\ \A k, l \in Loggers : log[k] = "holds" /\ log[l] = "holds" => k = l

\* The variables keep their types, and one holds the lock at a time.
TypeOK ==
    /\ main \in {"startWeb", "startBt", "setHandlers", "failed", "loop", "left", "gone",
                 "crashed"}
    /\ handler \in {"none", "log", "quitBt", "joinBt", "inJoinBt", "stopWeb", "joinWeb",
                    "inJoinWeb"}
    /\ g_ExitRequested \in BOOLEAN /\ quit \in BOOLEAN /\ busy \in BOOLEAN
    /\ g_pMainThread \in BOOLEAN /\ m_pMainThread \in BOOLEAN
    /\ bt \in {"none", "created", "made", "running", "tearDown", "ended"}
    /\ web \in {"none", "created", "made", "up", "ended"}
    /\ stopped \subseteq {"acceptor", "worker"}
    /\ LockOK
    /\ signals \in 0 .. MaxSignals

\* When the main loop has been left for an exit, and the static objects are about to
\* go (Main.cpp:30, Logger.cpp:17), no thread is left that could use them.
JoinedBeforeExit == main = "left" => bt = "ended" /\ web = "ended"

\* The thread that the handler joins never waits for the main thread: whatever was
\* interrupted, the main thread does not hold the lock of the log once it has come
\* to a join (Main.cpp:79, WebApiServer.cpp:51, bt.cpp:756).
JoinsWithoutLock == handler \notin {"none", "log"} => log["main"] # "holds"

\* The signal came while the main thread was writing to the log.
SelfLocked == handler = "log" /\ log["main"] = "holds"

\* It came before the loop of the bluetooth thread ran.
LostQuit == handler \in {"joinBt", "inJoinBt"} /\ ~quit

\* It came before Crow had made its worker.
LostStop == handler \in {"joinWeb", "inJoinWeb"} /\ "worker" \notin stopped

\* A stop comes to an end, if not the one intended, whatever the other threads do and
\* whichever of them has the lock, except in the three ways above, of which the first
\* can happen at any time.  They are the only ones as far as the lock of the log, the
\* joins and the tests of the flag go: that memory can be had in the handler is assumed.
StopEnds == handler # "none" ~> ~Alive \/ SelfLocked \/ LostQuit \/ LostStop

-----------------------------------------------------------------------------
(* The inductive invariant.                                                *)

\* How far the threads are when the main thread and its handler are there.
Progress ==
    /\ main \in {"startWeb", "startBt", "setHandlers", "failed"} =>
          handler = "none" /\ ~g_ExitRequested
    /\ main \in {"setHandlers", "loop"} /\ ~g_pMainThread => bt = "ended"
    /\ handler \in {"stopWeb", "joinWeb", "inJoinWeb"} => bt = "ended"
    /\ g_ExitRequested /\ handler \in {"none", "log"} => bt = "ended" /\ web = "ended"

\* A handler that has interrupted the holder of the lock waits for it, and nobody
\* but the main thread itself could give it back.
HandlerWaits ==
    /\ log["handler"] # "no" => handler = "log"
    /\ handler = "log" /\ log["main"] = "holds" => log["handler"] = "waits"

IInv == /\ TypeOK
        /\ Progress
        /\ HandlerWaits
        /\ JoinedBeforeExit
        /\ JoinsWithoutLock
=============================================================================
