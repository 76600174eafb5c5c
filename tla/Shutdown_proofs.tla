--------------------------- MODULE Shutdown_proofs ---------------------------
(***************************************************************************)
(* Proofs about Shutdown, for any number of signals.                       *)
(***************************************************************************)
EXTENDS Shutdown, TLAPS

USE MaxSignalsAssumption DEF vars, btVars, webVars, Loggers

\* The program starts with no thread but its own.
LEMMA InitInvariant == Init => IInv
<1> SUFFICES ASSUME Init PROVE IInv
  OBVIOUS
<1> USE DEF Init
<1>1. \A l \in Loggers : log[l] = "no"
  OBVIOUS
<1>2. TypeOK
  <2>1. log \in [Loggers -> {"no", "waits", "holds"}]
    OBVIOUS
  <2>2. \A k, l \in Loggers : log[k] = "holds" /\ log[l] = "holds" => k = l
    BY <1>1
  <2>3. main = "startWeb" /\ handler = "none" /\ stopped = {} /\ signals \in 0 .. MaxSignals
    OBVIOUS
  <2> QED BY <2>1, <2>2, <2>3 DEF TypeOK, LockOK
<1>3. HandlerWaits /\ JoinsWithoutLock
  BY <1>1 DEF HandlerWaits, JoinsWithoutLock
<1>4. Progress /\ JoinedBeforeExit
  BY DEF Progress, JoinedBeforeExit
<1> QED BY <1>2, <1>3, <1>4 DEF IInv

\* The lock goes from one to another.  A handler does not get what the thread holds
\* that it has interrupted, and that thread does not move.
LEMMA LockKeepsInvariant ==
    ASSUME IInv, NEW l \in Loggers, TakesLock(l) \/ ReleasesLock(l)
    PROVE  IInv'
<1> USE DEF IInv, Runs
<1>1. UNCHANGED <<main, handler, g_ExitRequested, btVars, webVars, signals>>
  BY DEF TakesLock, ReleasesLock
<1>2. TypeOK'
  BY <1>1 DEF TypeOK, LockOK, TakesLock, ReleasesLock
<1>3. Progress' /\ JoinedBeforeExit'
  BY <1>1 DEF Progress, JoinedBeforeExit
<1>4. HandlerWaits'
  BY <1>1 DEF TypeOK, LockOK, HandlerWaits, TakesLock, ReleasesLock
<1>5. JoinsWithoutLock'
  BY <1>1 DEF TypeOK, LockOK, JoinsWithoutLock, TakesLock, ReleasesLock
<1> QED BY <1>2, <1>3, <1>4, <1>5

\* The main thread, which is at rest when it holds or wants the lock.
LEMMA MainKeepsInvariant ==
    ASSUME IInv, \/ StartWeb \/ StartBt \/ SetHandlers \/ LoopLogs \/ LeaveLoop \/ Exit
                 \/ SignalKills \/ Signal
    PROVE  IInv'
<1> USE DEF IInv, MainGoes, Runs, Alive, Logs
<1>1. CASE StartWeb
  BY <1>1 DEF StartWeb, TypeOK, LockOK, Progress, HandlerWaits, JoinedBeforeExit,
              JoinsWithoutLock
<1>2. CASE StartBt
  <2> USE <1>2 DEF StartBt
  <2>1. TypeOK'
    <3>1. LockOK'
      BY DEF TypeOK, LockOK, Logs
    <3> QED BY <3>1 DEF TypeOK
  <2>2. Progress' /\ JoinedBeforeExit'
    BY DEF TypeOK, LockOK, Progress, HandlerWaits, JoinedBeforeExit
  <2>3. HandlerWaits' /\ JoinsWithoutLock'
    BY DEF TypeOK, LockOK, Progress, HandlerWaits, JoinsWithoutLock
  <2> QED BY <2>1, <2>2, <2>3
<1>3. CASE SetHandlers
  <2> USE <1>3 DEF SetHandlers
  <2>1. TypeOK'
    <3>1. LockOK'
      BY DEF TypeOK, LockOK, Logs
    <3> QED BY <3>1 DEF TypeOK
  <2>2. Progress' /\ JoinedBeforeExit'
    BY DEF TypeOK, LockOK, Progress, HandlerWaits, JoinedBeforeExit
  <2>3. HandlerWaits' /\ JoinsWithoutLock'
    BY DEF TypeOK, LockOK, Progress, HandlerWaits, JoinsWithoutLock
  <2> QED BY <2>1, <2>2, <2>3
<1>4. CASE LoopLogs
  BY <1>4 DEF LoopLogs, TypeOK, LockOK, Progress, HandlerWaits, JoinedBeforeExit,
              JoinsWithoutLock
<1>5. CASE LeaveLoop
  BY <1>5 DEF LeaveLoop, TypeOK, LockOK, Progress, HandlerWaits, JoinedBeforeExit,
              JoinsWithoutLock
<1>6. CASE Exit
  BY <1>6 DEF Exit, TypeOK, LockOK, Progress, HandlerWaits, JoinedBeforeExit,
              JoinsWithoutLock
<1>7. CASE SignalKills
  BY <1>7 DEF SignalKills, TypeOK, LockOK, Progress, HandlerWaits, JoinedBeforeExit,
              JoinsWithoutLock
<1>8. CASE Signal
  BY <1>8 DEF Signal, TypeOK, LockOK, Progress, HandlerWaits, JoinedBeforeExit,
              JoinsWithoutLock
<1> QED BY <1>1, <1>2, <1>3, <1>4, <1>5, <1>6, <1>7, <1>8

\* The handler.  It leaves the log with the lock free of the main thread, and comes
\* behind a join, or past one, only when the thread has ended.
LEMMA HandlerKeepsInvariant ==
    ASSUME IInv, HandlerStep
    PROVE  IInv'
<1> USE DEF IInv, HandlerGoes, Alive
<1>1. CASE StopServices
  BY <1>1 DEF StopServices, TypeOK, LockOK, Progress, HandlerWaits, JoinedBeforeExit,
              JoinsWithoutLock
<1>2. CASE QuitBt
  BY <1>2 DEF QuitBt, TypeOK, LockOK, Progress, HandlerWaits, JoinedBeforeExit,
              JoinsWithoutLock
<1>3. CASE JoinBt
  BY <1>3 DEF JoinBt, TypeOK, LockOK, Progress, HandlerWaits, JoinedBeforeExit,
              JoinsWithoutLock
<1>4. CASE BtJoined
  BY <1>4 DEF BtJoined, TypeOK, LockOK, Progress, HandlerWaits, JoinedBeforeExit,
              JoinsWithoutLock
<1>5. CASE StopWeb
  BY <1>5 DEF StopWeb, TypeOK, LockOK, Progress, HandlerWaits, JoinedBeforeExit,
              JoinsWithoutLock
<1>6. CASE JoinWeb
  BY <1>6 DEF JoinWeb, TypeOK, LockOK, Progress, HandlerWaits, JoinedBeforeExit,
              JoinsWithoutLock
<1>7. CASE WebJoined
  BY <1>7 DEF WebJoined, TypeOK, LockOK, Progress, HandlerWaits, JoinedBeforeExit,
              JoinsWithoutLock
<1>8. CASE Crash
  BY <1>8 DEF Crash, TypeOK, LockOK, Progress, HandlerWaits, JoinedBeforeExit,
              JoinsWithoutLock
<1> QED BY <1>1, <1>2, <1>3, <1>4, <1>5, <1>6, <1>7, <1>8 DEF HandlerStep

\* The bluetooth thread, which resets its pointer only as it ends.
LEMMA BtKeepsInvariant ==
    ASSUME IInv, BtCallback \/ BtStep
    PROVE  IInv'
<1> USE DEF IInv, BtGoes, Logs
<1>1. CASE BtCallback
  BY <1>1 DEF BtCallback, TypeOK, LockOK, Progress, HandlerWaits, JoinedBeforeExit,
              JoinsWithoutLock
<1>2. CASE BtSetUp
  BY <1>2 DEF BtSetUp, TypeOK, LockOK, Progress, HandlerWaits, JoinedBeforeExit,
              JoinsWithoutLock
<1>3. CASE BtRuns
  BY <1>3 DEF BtRuns, TypeOK, LockOK, Progress, HandlerWaits, JoinedBeforeExit,
              JoinsWithoutLock
<1>4. CASE BtLeavesLoop
  BY <1>4 DEF BtLeavesLoop, TypeOK, LockOK, Progress, HandlerWaits, JoinedBeforeExit,
              JoinsWithoutLock
<1>5. CASE BtEnds
  <2> USE <1>5 DEF BtEnds
  <2>1. TypeOK'
    <3>1. LockOK'
      BY DEF TypeOK, LockOK, Logs
    <3> QED BY <3>1 DEF TypeOK
  <2>2. Progress' /\ JoinedBeforeExit'
    BY DEF TypeOK, LockOK, Progress, HandlerWaits, JoinedBeforeExit
  <2>3. HandlerWaits' /\ JoinsWithoutLock'
    BY DEF TypeOK, LockOK, Progress, HandlerWaits, JoinsWithoutLock
  <2> QED BY <2>1, <2>2, <2>3
<1> QED BY <1>1, <1>2, <1>3, <1>4, <1>5 DEF BtStep

\* The web server.
LEMMA WebKeepsInvariant ==
    ASSUME IInv, Request \/ WebStep
    PROVE  IInv'
<1> USE DEF IInv, WebGoes, Logs
<1>1. CASE Request
  BY <1>1 DEF Request, TypeOK, LockOK, Progress, HandlerWaits, JoinedBeforeExit,
              JoinsWithoutLock
<1>2. CASE WebMakesServer
  BY <1>2 DEF WebMakesServer, TypeOK, LockOK, Progress, HandlerWaits, JoinedBeforeExit,
              JoinsWithoutLock
<1>3. CASE WebMakesWorker
  BY <1>3 DEF WebMakesWorker, TypeOK, LockOK, Progress, HandlerWaits, JoinedBeforeExit,
              JoinsWithoutLock
<1>4. CASE Answer
  <2> USE <1>4 DEF Answer
  <2>1. TypeOK'
    <3>1. LockOK'
      BY DEF TypeOK, LockOK, Logs
    <3>2. busy' \in BOOLEAN
      OBVIOUS
    <3>3. /\ main' = main /\ handler' = handler /\ g_ExitRequested' = g_ExitRequested
          /\ bt' = bt /\ g_pMainThread' = g_pMainThread /\ quit' = quit
          /\ web' = web /\ m_pMainThread' = m_pMainThread /\ stopped' = stopped
          /\ signals' = signals
      OBVIOUS
    <3> HIDE <1>4 DEF Answer
    <3> QED BY <3>1, <3>2, <3>3 DEF TypeOK
  <2>2. Progress' /\ JoinedBeforeExit'
    BY DEF TypeOK, LockOK, Progress, HandlerWaits, JoinedBeforeExit
  <2>3. HandlerWaits' /\ JoinsWithoutLock'
    BY DEF TypeOK, LockOK, Progress, HandlerWaits, JoinsWithoutLock
  <2> QED BY <2>1, <2>2, <2>3
<1>5. CASE WebEnds
  BY <1>5 DEF WebEnds, TypeOK, LockOK, Progress, HandlerWaits, JoinedBeforeExit,
              JoinsWithoutLock
<1> QED BY <1>1, <1>2, <1>3, <1>4, <1>5 DEF WebStep

LEMMA StepInvariant == IInv /\ [Next]_vars => IInv'
<1> SUFFICES ASSUME IInv, [Next]_vars PROVE IInv'
  OBVIOUS
<1>1. CASE UNCHANGED vars
  BY <1>1 DEF IInv, TypeOK, LockOK, Progress, HandlerWaits, JoinedBeforeExit, JoinsWithoutLock
<1>2. CASE \E l \in Loggers : TakesLock(l) \/ ReleasesLock(l)
  BY <1>2, LockKeepsInvariant
<1>3. CASE \/ StartWeb \/ StartBt \/ SetHandlers \/ LoopLogs \/ LeaveLoop \/ Exit
           \/ SignalKills \/ Signal
  BY <1>3, MainKeepsInvariant
<1>4. CASE HandlerStep
  BY <1>4, HandlerKeepsInvariant
<1>5. CASE BtCallback \/ BtStep
  BY <1>5, BtKeepsInvariant
<1>6. CASE Request \/ WebStep
  BY <1>6, WebKeepsInvariant
<1> QED BY <1>1, <1>2, <1>3, <1>4, <1>5, <1>6 DEF Next

THEOREM Invariance == Spec => []IInv
<1>1. Init => IInv
  BY InitInvariant
<1>2. IInv /\ [Next]_vars => IInv'
  BY StepInvariant
<1> QED BY <1>1, <1>2, PTL DEF Spec

-----------------------------------------------------------------------------

\* The threads, the handler and the lock keep their types, and one holds the lock at
\* a time (Logger.cpp:56).
THEOREM TypeCorrect == Spec => []TypeOK
BY Invariance, PTL DEF IInv

\* However many signals come, wherever they come, no thread runs when the static
\* objects go after an exit (Main.cpp:213).
THEOREM JoinedCorrect == Spec => []JoinedBeforeExit
BY Invariance, PTL DEF IInv

\* However many signals come, a thread that is being joined never waits for a lock
\* that the main thread holds (Main.cpp:75).
THEOREM JoinsCorrect == Spec => []JoinsWithoutLock
BY Invariance, PTL DEF IInv

-----------------------------------------------------------------------------
(* Why a stop comes to an end: how many steps are left to those who take    *)
(* part in it, and whom they wait for.                                     *)

\* A thread that has been told to end was running, and nobody is told before the
\* main loop.
Told == /\ quit => bt \in {"running", "tearDown", "ended"}
        /\ "worker" \in stopped => web \in {"up", "ended"}
        /\ main \in {"startWeb", "startBt", "setHandlers", "failed"} =>
              ~quit /\ "worker" \notin stopped

\* The steps left to the handler, and to the two threads that it joins, with the
\* message that each may have to log before it goes on.
LogSteps     == [no |-> 0, holds |-> 1, waits |-> 2]
HandlerSteps == [none |-> 0, inJoinWeb |-> 1, joinWeb |-> 2, stopWeb |-> 3, inJoinBt |-> 4,
                 joinBt |-> 5, quitBt |-> 6, log |-> 7]
BtSteps      == [ended |-> 0, tearDown |-> 1, running |-> 2, made |-> 3, created |-> 4,
                 none |-> 5]
WebSteps     == [ended |-> 0, up |-> 1, made |-> 2, created |-> 3, none |-> 4]

HandlerLeft == HandlerSteps[handler]
BtLeft      == 3 * BtSteps[bt] + LogSteps[log["bt"]]
WebLeft     == WebSteps[web] + (IF busy THEN 1 ELSE 0) + LogSteps[log["web"]]

Locking(l) == TakesLock(l) \/ ReleasesLock(l)
MainStep   == \/ StartWeb \/ StartBt \/ SetHandlers \/ LoopLogs \/ LeaveLoop \/ Exit
              \/ SignalKills \/ Signal

\* What one step does to the steps that are left.
Counts ==
    /\ HandlerStep => HandlerLeft' < HandlerLeft \/ ~Alive'
    /\ handler # "none" /\ ~HandlerStep => HandlerLeft' = HandlerLeft
    /\ BtStep \/ Locking("bt") => BtLeft' < BtLeft
    /\ quit => BtLeft' <= BtLeft
    /\ WebStep \/ Locking("web") => WebLeft' < WebLeft
    /\ "worker" \in stopped => WebLeft' <= WebLeft

\* How many steps there can be left, from every state.
LEMMA StepsLeft ==
    IInv => /\ HandlerLeft \in 0 .. 7 /\ BtLeft \in 0 .. 17 /\ WebLeft \in 0 .. 7
            /\ BtSteps[bt] \in 0 .. 5 /\ WebSteps[web] + (IF busy THEN 1 ELSE 0) \in 0 .. 5
            /\ LogSteps[log["bt"]] \in 0 .. 2 /\ LogSteps[log["web"]] \in 0 .. 2
<1> SUFFICES ASSUME IInv
             PROVE  /\ HandlerLeft \in 0 .. 7 /\ BtLeft \in 0 .. 17 /\ WebLeft \in 0 .. 7
                    /\ BtSteps[bt] \in 0 .. 5
                    /\ WebSteps[web] + (IF busy THEN 1 ELSE 0) \in 0 .. 5
                    /\ LogSteps[log["bt"]] \in 0 .. 2 /\ LogSteps[log["web"]] \in 0 .. 2
  OBVIOUS
<1>1. log["bt"] \in {"no", "waits", "holds"} /\ log["web"] \in {"no", "waits", "holds"}
  BY DEF IInv, TypeOK, LockOK
<1>2. LogSteps[log["bt"]] \in 0 .. 2 /\ LogSteps[log["web"]] \in 0 .. 2
  BY <1>1 DEF LogSteps
<1>3. HandlerSteps[handler] \in 0 .. 7 /\ BtSteps[bt] \in 0 .. 5 /\ WebSteps[web] \in 0 .. 4
  BY DEF IInv, TypeOK, HandlerSteps, BtSteps, WebSteps
<1> QED BY <1>2, <1>3 DEF HandlerLeft, BtLeft, WebLeft

\* The steps of each, as seen by the counts of the others.
LEMMA LockingCounts ==
    ASSUME IInv, NEW l \in Loggers, Locking(l)
    PROVE  /\ UNCHANGED <<main, handler, bt, web, busy, stopped, quit>>
           /\ \A k \in Loggers \ {l} : log'[k] = log[k]
           /\ LogSteps[log'[l]] \in Nat /\ LogSteps[log'[l]] < LogSteps[log[l]]
<1>1. log \in [Loggers -> {"no", "waits", "holds"}]
  BY DEF IInv, TypeOK, LockOK
<1> QED BY <1>1 DEF Locking, TakesLock, ReleasesLock, LogSteps

LEMMA LockOfBtCounts == IInv /\ Locking("bt") => BtLeft' < BtLeft
<1> SUFFICES ASSUME IInv, Locking("bt") PROVE BtLeft' < BtLeft
  OBVIOUS
<1>1. /\ UNCHANGED bt
      /\ LogSteps[log'["bt"]] \in Nat /\ LogSteps[log'["bt"]] < LogSteps[log["bt"]]
  BY LockingCounts
<1>2. BtSteps[bt] \in 0 .. 5 /\ LogSteps[log["bt"]] \in 0 .. 2
  BY StepsLeft
<1> QED BY <1>1, <1>2 DEF BtLeft

LEMMA LockOfWebCounts == IInv /\ Locking("web") => WebLeft' < WebLeft
<1> SUFFICES ASSUME IInv, Locking("web") PROVE WebLeft' < WebLeft
  OBVIOUS
<1>1. /\ UNCHANGED <<web, busy>>
      /\ LogSteps[log'["web"]] \in Nat /\ LogSteps[log'["web"]] < LogSteps[log["web"]]
  BY LockingCounts
<1>2. WebSteps[web] + (IF busy THEN 1 ELSE 0) \in 0 .. 5 /\ LogSteps[log["web"]] \in 0 .. 2
  BY StepsLeft
<1> QED BY <1>1, <1>2 DEF WebLeft

LEMMA HandlerCounts ==
    ASSUME IInv, HandlerStep
    PROVE  /\ handler # "none" /\ UNCHANGED <<bt, web, busy, log>>
           /\ HandlerLeft' < HandlerLeft \/ ~Alive'
           /\ quit' => quit \/ bt = "running"
           /\ "worker" \in stopped' => "worker" \in stopped \/ web \in {"up", "ended"}
<1> USE DEF HandlerLeft, HandlerSteps, HandlerGoes
<1>1. CASE StopServices \/ JoinBt \/ BtJoined
  BY <1>1 DEF StopServices, JoinBt, BtJoined
<1>2. CASE QuitBt
  <2>1. /\ handler = "quitBt" /\ handler' \in {"joinBt", "stopWeb"}
        /\ UNCHANGED <<bt, web, busy, log, stopped>>
    BY <1>2 DEF QuitBt
  <2>2. quit' => bt = "running"
    BY <1>2 DEF QuitBt
  <2> QED BY <2>1, <2>2
<1>3. CASE StopWeb
  <2>1. web \in {"none", "created", "made", "up", "ended"}
    BY DEF IInv, TypeOK
  <2> QED BY <1>3, <2>1 DEF StopWeb
<1>4. CASE JoinWeb \/ WebJoined
  BY <1>4 DEF JoinWeb, WebJoined
<1>5. CASE Crash
  BY <1>5 DEF Crash, NullUse, Alive
<1> QED BY <1>1, <1>2, <1>3, <1>4, <1>5 DEF HandlerStep

LEMMA MainCounts ==
    ASSUME IInv, Told, MainStep
    PROVE  /\ handler # "none" => UNCHANGED handler
           /\ quit => UNCHANGED bt
           /\ "worker" \in stopped => UNCHANGED web
           /\ UNCHANGED <<busy, quit, stopped>>
           /\ log'["bt"] = log["bt"] /\ log'["web"] = log["web"]
           /\ main' \in {"startWeb", "startBt", "setHandlers", "failed"} =>
                 main \in {"startWeb", "startBt", "setHandlers", "failed"}
<1> USE DEF MainGoes, Runs, Logs
<1>0. log \in [Loggers -> {"no", "waits", "holds"}]
  BY DEF IInv, TypeOK, LockOK
<1>1. CASE StartWeb
  BY <1>1 DEF StartWeb, Told
<1>2. CASE StartBt
  BY <1>0, <1>2 DEF StartBt, Told
<1>3. CASE SetHandlers \/ LoopLogs \/ LeaveLoop \/ Exit
  BY <1>0, <1>3 DEF SetHandlers, LoopLogs, LeaveLoop, Exit
<1>4. CASE SignalKills \/ Signal
  BY <1>0, <1>4 DEF SignalKills, Signal
<1> QED BY <1>1, <1>2, <1>3, <1>4 DEF MainStep

LEMMA BtCounts ==
    ASSUME IInv, BtStep \/ BtCallback
    PROVE  /\ UNCHANGED <<main, handler, web, busy, stopped, quit>>
           /\ log'["web"] = log["web"]
           /\ BtStep => BtLeft' < BtLeft
           /\ BtCallback => ~quit
           /\ bt = "running" => bt' \in {"running", "tearDown"}
           /\ bt = "tearDown" => bt' = "ended"
           /\ bt # "ended"
<1> USE DEF BtGoes, Logs, BtLeft, BtSteps, LogSteps
<1>0. log \in [Loggers -> {"no", "waits", "holds"}]
  BY DEF IInv, TypeOK, LockOK
<1>1. CASE BtSetUp \/ BtRuns
  BY <1>0, <1>1 DEF BtSetUp, BtRuns, BtCallback
<1>2. CASE BtLeavesLoop
  BY <1>0, <1>2 DEF BtLeavesLoop, BtCallback
<1>3. CASE BtEnds
  BY <1>0, <1>3 DEF BtEnds, BtCallback
<1>4. CASE BtCallback
  BY <1>0, <1>4 DEF BtCallback, BtStep, BtSetUp, BtRuns, BtLeavesLoop, BtEnds
<1> QED BY <1>1, <1>2, <1>3, <1>4 DEF BtStep

LEMMA WebCounts ==
    ASSUME IInv, WebStep \/ Request
    PROVE  /\ UNCHANGED <<main, handler, bt, stopped, quit>>
           /\ log'["bt"] = log["bt"]
           /\ WebStep => WebLeft' < WebLeft
           /\ Request => "worker" \notin stopped
           /\ web \in {"up", "ended"} => web' \in {"up", "ended"}
<1> USE DEF WebGoes, Logs, WebLeft, WebSteps, LogSteps
<1>0. /\ log \in [Loggers -> {"no", "waits", "holds"}]
      /\ busy \in BOOLEAN /\ web \in {"none", "created", "made", "up", "ended"}
  BY DEF IInv, TypeOK, LockOK
<1>1. CASE WebMakesServer \/ WebMakesWorker
  BY <1>0, <1>1 DEF WebMakesServer, WebMakesWorker, Request
<1>2. CASE Answer
  BY <1>0, <1>2 DEF Answer, Request
<1>3. CASE WebEnds
  BY <1>0, <1>3 DEF WebEnds, Request
<1>4. CASE Request
  BY <1>0, <1>4 DEF Request, WebStep, WebMakesServer, WebMakesWorker, Answer, WebEnds
<1> QED BY <1>1, <1>2, <1>3, <1>4 DEF WebStep

LEMMA StepsLeftThen ==
    ASSUME IInv, [Next]_vars
    PROVE  BtLeft' \in 0 .. 17 /\ WebLeft' \in 0 .. 7
<1>1. IInv'
  BY StepInvariant
<1>2. (IInv => BtLeft \in 0 .. 17 /\ WebLeft \in 0 .. 7)'
  BY StepsLeft, PTL
<1> QED BY <1>1, <1>2

LEMMA ToldInvariance == Spec => []Told
<1>1. Init => Told
  BY DEF Init, Told
<1>2. IInv /\ Told /\ [Next]_vars => Told'
  <2> SUFFICES ASSUME IInv, Told, [Next]_vars PROVE Told'
    OBVIOUS
  <2> DEFINE early == {"startWeb", "startBt", "setHandlers", "failed"}
  <2>1. CASE \E l \in Loggers : Locking(l)
    BY <2>1, LockingCounts DEF Told
  <2>2. CASE MainStep
    BY <2>2, MainCounts DEF Told
  <2>3. CASE HandlerStep
    <3>1. main \notin early /\ (main' = main \/ main' = "crashed")
      BY <2>3, HandlerCounts DEF IInv, Progress, HandlerStep, StopServices, QuitBt, JoinBt,
           BtJoined, StopWeb, JoinWeb, WebJoined, Crash, HandlerGoes
    <3> QED BY <2>3, <3>1, HandlerCounts DEF Told
  <2>4. CASE BtStep \/ BtCallback
    BY <2>4, BtCounts DEF Told
  <2>5. CASE WebStep \/ Request
    BY <2>5, WebCounts DEF Told
  <2>6. CASE UNCHANGED vars
    BY <2>6 DEF Told
  <2> QED BY <2>1, <2>2, <2>3, <2>4, <2>5, <2>6 DEF Next, MainStep, Locking
<1> QED BY <1>1, <1>2, Invariance, PTL DEF Spec

\* While a signal is handled, whatever other threads do (Main.cpp:75-97): whom the handler
\* joins has been told to end and is on its way, unless the telling was lost; who has
\* the lock of the log then is neither the main thread nor the handler, so that it
\* gives it back.
WaitsForRunning ==
    /\ handler \in {"joinBt", "inJoinBt"} => LostQuit \/ bt \in {"running", "tearDown", "ended"}
    /\ handler \in {"joinWeb", "inJoinWeb"} => LostStop \/ web \in {"up", "ended"}
    /\ handler \notin {"none", "log"} => log["main"] # "holds" /\ log["handler"] = "no"

THEOREM StopWaitsForRunning == Spec => []WaitsForRunning
<1>1. IInv /\ Told => WaitsForRunning
  BY DEF IInv, TypeOK, HandlerWaits, JoinsWithoutLock, Told, LostQuit, LostStop,
         WaitsForRunning
<1> QED BY <1>1, Invariance, ToldInvariance, PTL

\* However many signals come: a handler has at most seven steps to its end or to a
\* crash, and nobody gives it one back; a thread that has been told to end has ever
\* fewer steps and messages to log before it does, whatever the others do.  So no stop
\* goes round in circles: with the fairness of the threads, and the theorem before,
\* it ends but in the three ways that StopEnds names.
THEOREM StopIsBounded ==
    Spec => /\ [](HandlerLeft \in 0 .. 7 /\ BtLeft \in 0 .. 17 /\ WebLeft \in 0 .. 7)
            /\ [][Counts]_vars
<1>1. IInv => HandlerLeft \in 0 .. 7 /\ BtLeft \in 0 .. 17 /\ WebLeft \in 0 .. 7
  BY StepsLeft
<1>2. IInv /\ Told /\ [Next]_vars => [Counts]_vars
  <2> SUFFICES ASSUME IInv, Told, Next PROVE Counts
    OBVIOUS
  <2>1. \/ \E l \in Loggers : Locking(l)
        \/ MainStep \/ HandlerStep \/ BtStep \/ BtCallback \/ WebStep \/ Request
    BY DEF Next, MainStep, Locking
  <2>2. HandlerStep => HandlerLeft' < HandlerLeft \/ ~Alive'
    BY HandlerCounts
  <2>3. handler # "none" /\ ~HandlerStep => HandlerLeft' = HandlerLeft
    <3>1. handler # "none" /\ ~HandlerStep => UNCHANGED handler
      BY <2>1, LockingCounts, MainCounts, BtCounts, WebCounts
    <3> QED BY <3>1 DEF HandlerLeft
  <2>4. BtStep \/ Locking("bt") => BtLeft' < BtLeft
    BY BtCounts, LockOfBtCounts
  <2>5. WebStep \/ Locking("web") => WebLeft' < WebLeft
    BY WebCounts, LockOfWebCounts
  <2>6. quit => BtLeft' <= BtLeft
    <3>1. ASSUME quit, ~(BtStep \/ Locking("bt"))
          PROVE  UNCHANGED bt /\ log'["bt"] = log["bt"]
      <4>1. CASE \E l \in Loggers : Locking(l)
        BY <3>1, <4>1, LockingCounts
      <4>2. CASE HandlerStep
        BY <4>2, HandlerCounts
      <4>3. CASE MainStep
        BY <3>1, <4>3, MainCounts
      <4>4. CASE WebStep \/ Request
        BY <4>4, WebCounts
      <4> QED BY <2>1, <3>1, <4>1, <4>2, <4>3, <4>4, BtCounts
    <3>2. quit /\ ~(BtStep \/ Locking("bt")) => BtLeft' = BtLeft
      BY <3>1 DEF BtLeft
    <3>3. BtLeft \in 0 .. 17 /\ BtLeft' \in 0 .. 17
      BY StepsLeft, StepsLeftThen
    <3>4. CASE BtStep \/ Locking("bt")
      BY <2>4, <3>3, <3>4
    <3>5. CASE ~(BtStep \/ Locking("bt"))
      BY <3>2, <3>3, <3>5
    <3> QED BY <3>4, <3>5
  <2>7. "worker" \in stopped => WebLeft' <= WebLeft
    <3>1. ASSUME "worker" \in stopped, ~(WebStep \/ Locking("web"))
          PROVE  UNCHANGED <<web, busy>> /\ log'["web"] = log["web"]
      <4>1. CASE \E l \in Loggers : Locking(l)
        BY <3>1, <4>1, LockingCounts
      <4>2. CASE HandlerStep
        BY <4>2, HandlerCounts
      <4>3. CASE MainStep
        BY <3>1, <4>3, MainCounts
      <4>4. CASE BtStep \/ BtCallback
        BY <4>4, BtCounts
      <4> QED BY <2>1, <3>1, <4>1, <4>2, <4>3, <4>4, WebCounts
    <3>2. "worker" \in stopped /\ ~(WebStep \/ Locking("web")) => WebLeft' = WebLeft
      BY <3>1 DEF WebLeft
    <3>3. WebLeft \in 0 .. 7 /\ WebLeft' \in 0 .. 7
      BY StepsLeft, StepsLeftThen
    <3>4. CASE WebStep \/ Locking("web")
      BY <2>5, <3>3, <3>4
    <3>5. CASE ~(WebStep \/ Locking("web"))
      BY <3>2, <3>3, <3>5
    <3> QED BY <3>4, <3>5
  <2> QED BY <2>2, <2>3, <2>4, <2>5, <2>6, <2>7 DEF Counts
<1> QED BY <1>1, <1>2, Invariance, ToldInvariance, PTL DEF Spec

=============================================================================
