------------------------- MODULE OpenDevices_proofs -------------------------
(***************************************************************************)
(* Proofs about OpenDevices, for any keyboards, documents and requests.    *)
(***************************************************************************)
EXTENDS OpenDevices, TLAPS

\* What is neither a step of the main thread nor its death.
Other == \/ SetRequest \/ DeleteRequest \/ GetRequest \/ WebStep \/ Restart
         \/ Connect \/ Disconnect \/ SignalHandler \/ HandlerReturns \/ UNCHANGED vars

\* All of it leaves the main thread where it is, and its descriptors; only a keyboard
\* that goes has a say in which of them still work.
LEMMA OthersLeaveMain ==
    ASSUME Other
    PROVE  /\ UNCHANGED <<main, devId, fds, text, g_pReportFilters>>
           /\ ~Disconnect => UNCHANGED gone
<1> USE DEF mainVars, filters
<1>1. CASE SetRequest \/ DeleteRequest \/ GetRequest
  BY <1>1 DEF SetRequest, DeleteRequest, GetRequest, Request
<1>2. CASE WebStep
  BY <1>2 DEF WebStep, DeleteFile, Deref, GetSettings, ClearKeyMap, ParseFails, ParseSet,
              ParseDelete, TruncateFile, TruncateFails, WriteFile, Answer
<1>3. CASE Restart \/ Connect \/ Disconnect \/ SignalHandler \/ HandlerReturns
           \/ UNCHANGED vars
  BY <1>3 DEF Restart, Connect, Disconnect, SignalHandler, HandlerReturns, vars
<1> QED BY <1>1, <1>2, <1>3 DEF Other

\* All of it but a keyboard that comes or goes leaves which one is there.
LEMMA OthersLeavePresent == Other /\ ~Connect /\ ~Disconnect => UNCHANGED present
<1> SUFFICES ASSUME Other, ~Connect, ~Disconnect PROVE UNCHANGED present
  OBVIOUS
<1>1. CASE SetRequest \/ DeleteRequest \/ GetRequest
  BY <1>1 DEF SetRequest, DeleteRequest, GetRequest, Request
<1>2. CASE WebStep
  BY <1>2 DEF WebStep, DeleteFile, Deref, GetSettings, ClearKeyMap, ParseFails, ParseSet,
              ParseDelete, TruncateFile, TruncateFails, WriteFile, Answer
<1>3. CASE Restart \/ SignalHandler \/ HandlerReturns \/ UNCHANGED vars
  BY <1>3 DEF Restart, SignalHandler, HandlerReturns, vars
<1> QED BY <1>1, <1>2, <1>3 DEF Other

\* Every step of the main thread keeps the invariant.
LEMMA MainKeepsSession == IInv /\ (MainStep \/ ForwardStep) => IInv'
<1> SUFFICES ASSUME IInv, MainStep \/ ForwardStep PROVE IInv'
  OBVIOUS
<1> USE DEF IInv, SessionsClean, UsingKb, UsingBoth, MainGoto, FdsOf, Opens, Closes,
            Filter, mainVars, filters
<1>1. CASE LoopTest
  BY <1>1 DEF LoopTest
<1>2. CASE OpenEvent
  BY <1>2 DEF OpenEvent
<1>3. CASE Grab
  BY <1>3 DEF Grab
<1>4. CASE OpenHidraw
  BY <1>4 DEF OpenHidraw
<1>5. CASE OpenKbFails
  BY <1>5 DEF OpenKbFails
<1>6. CASE OpenHidgDevice
  BY <1>6 DEF OpenHidgDevice
<1>7. CASE OpenHidgFails
  BY <1>7 DEF OpenHidgFails
<1>8. CASE NewKbFilter
  BY <1>8 DEF NewKbFilter, NewFilter
<1>9. CASE ReadSettings
  BY <1>9 DEF ReadSettings, ReadFile
<1>10. CASE LoadSettings
  BY <1>10 DEF LoadSettings, LoadFile
<1>11. CASE NewKeyMapFilter
  BY <1>11 DEF NewKeyMapFilter, NewFilter
<1>12. CASE ReadKeyMap
  BY <1>12 DEF ReadKeyMap, ReadFile
<1>13. CASE LoadKeyMap
  BY <1>13 DEF LoadKeyMap, LoadFile
<1>14. CASE ForwardReport \/ ReportWritten
  BY <1>14 DEF ForwardReport, ReportWritten
<1>15. CASE ForwardingEnds \/ ForwardingFails
  BY <1>15 DEF ForwardingEnds, ForwardingFails, LeaveForwarding
<1>16. CASE WriteBreak
  BY <1>16 DEF WriteBreak
<1>17. CASE CloseDevices
  BY <1>17 DEF CloseDevices
<1>18. CASE DeleteFilters
  BY <1>18 DEF DeleteFilters
<1> QED
  BY <1>1, <1>2, <1>3, <1>4, <1>5, <1>6, <1>7, <1>8, <1>9, <1>10, <1>11, <1>12,
     <1>13, <1>14, <1>15, <1>16, <1>17, <1>18 DEF MainStep, ForwardStep

\* So does everything else: a keyboard that comes finds none of its devices open.
LEMMA OthersKeepSession == IInv /\ Other => IInv'
<1> SUFFICES ASSUME IInv, Other PROVE IInv'
  OBVIOUS
<1> USE DEF IInv, SessionsClean, UsingKb, UsingBoth, FdsOf
<1>1. UNCHANGED <<main, devId, fds, g_pReportFilters>> /\ (~Disconnect => UNCHANGED gone)
  BY OthersLeaveMain
<1>2. CASE Connect
  <2>1. present = NoDev /\ ~("event" \in fds \ gone) /\ UNCHANGED gone
    BY <1>2 DEF Connect, mainVars
  <2> QED BY <1>1, <2>1
<1>3. CASE Disconnect
  <2>1. gone' = fds \cap {"event", "hidraw"}
    BY <1>3 DEF Disconnect
  <2>2. gone' \subseteq fds /\ "event" \notin fds \ gone'
    BY <2>1
  <2> QED BY <1>1, <2>2
<1>4. CASE ~Connect /\ ~Disconnect
  BY <1>1, <1>4, OthersLeavePresent
<1> QED BY <1>2, <1>3, <1>4

\* In every state of every execution the invariant holds.
LEMMA InvCorrect == Spec => []IInv
<1>1. Init => IInv
  BY DEF Init, IInv, SessionsClean, UsingKb, UsingBoth, FdsOf, Filter
<1>2. IInv /\ [Next]_vars => IInv'
  <2> SUFFICES ASSUME IInv, [Next]_vars PROVE IInv'
    OBVIOUS
  <2>1. CASE Crash \/ ProcessDies
    BY <2>1 DEF Crash, ProcessDies, Die, IInv, SessionsClean, UsingKb, UsingBoth, FdsOf, Filter
  <2> QED BY <2>1, MainKeepsSession, OthersKeepSession DEF Next, Other
<1> QED BY <1>1, <1>2, PTL DEF Spec

\* The main thread never uses a filter that is not there, never makes one over
\* another, and closes what it opens, whatever the web thread does meanwhile and
\* whenever the keyboard goes or the process dies.
THEOREM SessionsAreClean == Spec => []SessionsClean
<1>1. IInv => SessionsClean
  BY DEF IInv
<1> QED BY <1>1, InvCorrect, PTL

-----------------------------------------------------------------------------
(* Types.                                                                  *)

\* What a document makes of a filter is a document, or nothing.
LEMMA AppliedType ==
    ASSUME NEW k, NEW d, NEW doc, NEW s \in Docs \cup {Default}
    PROVE  Applied(k, d, doc, s) \in Docs \cup {Default}
BY DEF Applied

\* A request, and what is left when there is none.
Requested == [op : {"none", "set", "delete", "get"}, k : Filter,
              dev : Devs \cup {NoDev}, doc : Contents]

LEMMA NoRequestType == NoRequest \in Requested
BY DEF NoRequest, Requested, Contents, Filter

\* The main thread has a keyboard from OpenEvent on.
Serving == main \notin {"top", "openEvent", "ended"} => devId \in Devs

\* Every step of the main thread keeps the types; the file it reads is one of
\* the keyboard it serves.
LEMMA MainType == TypeOK /\ Serving /\ (MainStep \/ ForwardStep) => TypeOK'
<1> SUFFICES ASSUME TypeOK, Serving, MainStep \/ ForwardStep PROVE TypeOK'
  OBVIOUS
<1> USE DEF TypeOK, MainGoto, Opens, Closes, mainVars, webVars, filters, files, signal
<1>1. CASE LoopTest
  BY <1>1 DEF LoopTest
<1>2. CASE OpenEvent
  BY <1>2 DEF OpenEvent
<1>3. CASE Grab \/ OpenHidraw
  BY <1>3 DEF Grab, OpenHidraw
<1>4. CASE OpenKbFails
  BY <1>4 DEF OpenKbFails
<1>5. CASE OpenHidgDevice \/ OpenHidgFails
  BY <1>5 DEF OpenHidgDevice, OpenHidgFails
<1>6. ASSUME NEW k \in Filter, NEW from, NEW to,
             to \in {"readSettings", "readKeyMap"}, NewFilter(k, from, to),
             touched' \in BOOLEAN
      PROVE  TypeOK'
  BY <1>6 DEF NewFilter
<1>7. CASE NewKbFilter
  BY <1>6, <1>7 DEF NewKbFilter, Filter
<1>8. CASE NewKeyMapFilter
  BY <1>6, <1>8 DEF NewKeyMapFilter, Filter
<1>9. ASSUME NEW k \in Filter, NEW from, NEW found, NEW none,
             devId \in Devs,
             found \in {"loadSettings", "loadKeyMap"}, none \in {"newMap", "forward"},
             ReadFile(k, from, found, none)
      PROVE  TypeOK'
  <2>1. file[k][devId] \in Contents \cup {NoFile}
    BY <1>9
  <2> QED BY <1>9, <2>1 DEF ReadFile
<1>10. CASE ReadSettings
  BY <1>9, <1>10 DEF ReadSettings, ReadFile, Filter, Serving
<1>11. CASE ReadKeyMap
  BY <1>9, <1>11 DEF ReadKeyMap, ReadFile, Filter, Serving
<1>12. ASSUME NEW k \in Filter, NEW from, NEW to, to \in {"newMap", "forward"},
              LoadFile(k, from, to)
       PROVE  TypeOK'
  <2>1. \A s \in Docs \cup {Default} : Applied(k, devId, text, s) \in Docs \cup {Default}
    BY AppliedType
  <2>2. settings' \in [Filter -> Docs \cup {Default}]
    BY <1>12, <2>1 DEF LoadFile
  <2>3. Empty \in Contents
    BY DEF Contents
  <2> QED BY <1>12, <2>2, <2>3 DEF LoadFile
<1>13. CASE LoadSettings
  BY <1>12, <1>13 DEF LoadSettings, Filter
<1>14. CASE LoadKeyMap
  BY <1>12, <1>14 DEF LoadKeyMap, Filter
<1>15. CASE ForwardingEnds \/ ForwardingFails
  BY <1>15 DEF ForwardingEnds, ForwardingFails, LeaveForwarding
<1>16. CASE ForwardReport \/ ReportWritten \/ WriteBreak
  BY <1>16 DEF ForwardReport, ReportWritten, WriteBreak
<1>17. CASE CloseDevices
  BY <1>17 DEF CloseDevices
<1>18. CASE DeleteFilters
  BY <1>18 DEF DeleteFilters
<1> QED
  BY <1>1, <1>2, <1>3, <1>4, <1>5, <1>7, <1>8, <1>10, <1>11,
     <1>13, <1>14, <1>15, <1>16, <1>17, <1>18 DEF MainStep, ForwardStep

\* The fields of the request being served.
LEMMA RequestFields ==
    ASSUME TypeOK
    PROVE  /\ req.k \in Filter /\ req.dev \in Devs \cup {NoDev} /\ req.doc \in Contents
           /\ req.op \in {"none", "set", "delete", "get"}
BY DEF TypeOK

\* Every step of the web thread keeps the types.
LEMMA WebType == TypeOK /\ WebStep => TypeOK'
<1> SUFFICES ASSUME TypeOK, WebStep PROVE TypeOK'
  OBVIOUS
<1> USE DEF TypeOK, WebGoto, mainVars, webVars, filters, files, signal
<1> DEFINE FilesType == [Filter -> [Devs -> Contents \cup {NoFile}]]
           AskedType == [Filter -> [Devs -> Contents \cup {NoFile, Unsure}]]
<1>1. ASSUME NEW from, Answer(from), UNCHANGED filters,
             file' \in FilesType, asked' \in AskedType
      PROVE  TypeOK'
  BY <1>1, NoRequestType DEF Answer, Requested
<1>2. \A doc \in Contents \cup {NoFile}, k \in Filter, d \in Devs \cup {NoDev} :
         [file EXCEPT ![k][d] = doc] \in FilesType
  OBVIOUS
<1>3. \A doc \in Contents \cup {NoFile, Unsure}, k \in Filter, d \in Devs \cup {NoDev} :
         [asked EXCEPT ![k][d] = doc] \in AskedType
  OBVIOUS
<1>4. \A s \in Docs \cup {Default} :
         SetLive(s) => settings' \in [Filter -> Docs \cup {Default}]
  BY DEF SetLive
<1>5. CASE DeleteFile
  <2>1. 1 \in Filter
    BY DEF Filter
  <2>2. /\ [file EXCEPT ![1][req.dev] = NoFile] \in FilesType
        /\ [asked EXCEPT ![1][req.dev] = NoFile] \in AskedType
    BY <1>2, <1>3, <2>1, RequestFields
  <2>3. file' \in FilesType /\ asked' \in AskedType
    BY <1>5, <2>2 DEF DeleteFile
  <2> QED BY <1>5, <2>3 DEF DeleteFile
<1>6. CASE Deref
  <2>1. g_pReportFilters[req.k] \in {"null", "live", "dangling"}
    BY RequestFields
  <2> QED BY <1>6, <2>1 DEF Deref
<1>7. CASE GetSettings \/ ParseFails \/ ParseDelete \/ TruncateFails
  BY <1>1, <1>7 DEF GetSettings, ParseFails, ParseDelete, TruncateFails
<1>8. CASE ClearKeyMap
  <2>1. (IF req.k = 1 THEN Default ELSE settings[0]) \in Docs \cup {Default}
    BY DEF Filter
  <2> QED BY <1>4, <1>8, <2>1 DEF ClearKeyMap
<1>9. CASE ParseSet
  <2>1. Applied(req.k, devId, req.doc, settings[req.k]) \in Docs \cup {Default}
    BY AppliedType, RequestFields
  <2> QED BY <1>4, <1>9, <2>1 DEF ParseSet
<1>10. CASE TruncateFile
  <2>1. file' \in FilesType /\ asked' \in AskedType
    BY <1>2, <1>3, <1>10, RequestFields DEF TruncateFile, Contents
  <2> QED BY <1>10, <2>1 DEF TruncateFile
<1>11. CASE WriteFile
  <2>1. PICK written \in {req.doc, Empty} :
           /\ file' = [file EXCEPT ![req.k][req.dev] = written]
           /\ asked' = [asked EXCEPT ![req.k][req.dev] =
                           IF written = req.doc THEN written ELSE Unsure]
    BY <1>11 DEF WriteFile
  <2>2. written \in Contents
    BY <2>1, RequestFields DEF Contents
  <2>3. file' \in FilesType /\ asked' \in AskedType
    BY <1>2, <1>3, <2>1, <2>2, RequestFields
  <2> QED BY <1>1, <1>11, <2>3 DEF WriteFile
<1> QED BY <1>5, <1>6, <1>7, <1>8, <1>9, <1>10, <1>11 DEF WebStep

\* A request, a death, a restart and the world keep the types.
LEMMA OtherType ==
    TypeOK /\ ((Other /\ ~WebStep) \/ Crash \/ ProcessDies) => TypeOK'
<1> SUFFICES ASSUME TypeOK, (Other /\ ~WebStep) \/ Crash \/ ProcessDies
             PROVE  TypeOK'
  OBVIOUS
<1> USE DEF TypeOK, mainVars, webVars, filters, files, signal
<1>1. ASSUME NEW op \in {"set", "delete", "get"}, NEW k \in Filter, NEW d \in Devs,
             NEW doc \in Contents, NEW to \in {"deref", "remove"}, Request(op, k, d, doc, to)
      PROVE  TypeOK'
  BY <1>1 DEF Request, WebGoto
<1>2. Empty \in Contents /\ 1 \in Filter /\ ReqDevs \subseteq Devs /\ ReqDocs \subseteq Contents
  BY ReqAssumption DEF Contents, Filter
<1>3. CASE SetRequest
  BY <1>1, <1>2, <1>3 DEF SetRequest
<1>4. CASE DeleteRequest
  BY <1>1, <1>2, <1>4 DEF DeleteRequest
<1>5. CASE GetRequest
  BY <1>1, <1>2, <1>5 DEF GetRequest
<1>6. CASE Crash
  BY <1>2, <1>6 DEF Crash, Die
<1>7. CASE ProcessDies
  <2>1. req' \in Requested
    BY <1>7, NoRequestType DEF ProcessDies
  <2> QED BY <1>2, <1>7, <2>1 DEF ProcessDies, Die, Requested
<1>8. CASE Restart
  <2>1. req' \in Requested
    BY <1>8, NoRequestType DEF Restart
  <2> QED BY <1>8, <2>1 DEF Restart, Requested
<1>9. CASE Connect \/ Disconnect
  BY <1>9 DEF Connect, Disconnect
<1>10. CASE SignalHandler \/ HandlerReturns
  BY <1>10 DEF SignalHandler, HandlerReturns
<1>11. CASE UNCHANGED vars
  BY <1>11 DEF vars
<1> QED BY <1>3, <1>4, <1>5, <1>6, <1>7, <1>8, <1>9, <1>10, <1>11 DEF Other

\* Only the main thread changes the keyboard it serves.
LEMMA ServingKept == TypeOK /\ Serving /\ [Next]_vars => Serving'
<1> SUFFICES ASSUME TypeOK, Serving, [Next]_vars PROVE Serving'
  OBVIOUS
<1> USE DEF Serving, mainVars, MainGoto
<1>1. CASE OpenEvent
  BY <1>1 DEF OpenEvent, TypeOK
<1>2. CASE OpenKbFails \/ OpenHidgFails \/ DeleteFilters
  BY <1>2 DEF OpenKbFails, OpenHidgFails, DeleteFilters
<1>3. CASE \/ LoopTest \/ Grab \/ OpenHidraw \/ OpenHidgDevice \/ CloseDevices
           \/ NewKbFilter \/ NewKeyMapFilter \/ ReadSettings \/ ReadKeyMap
           \/ LoadSettings \/ LoadKeyMap
  BY <1>3 DEF LoopTest, Grab, OpenHidraw, OpenHidgDevice, CloseDevices, NewKbFilter,
       NewKeyMapFilter, NewFilter, ReadSettings, ReadKeyMap, ReadFile, LoadSettings,
       LoadKeyMap, LoadFile
<1>4. CASE ForwardingEnds \/ ForwardStep
  BY <1>4 DEF ForwardingEnds, ForwardStep, ForwardReport, ReportWritten, ForwardingFails,
       LeaveForwarding, WriteBreak
<1>5. CASE Crash \/ ProcessDies
  BY <1>5 DEF Crash, ProcessDies, Die
<1>6. CASE Other
  BY <1>6, OthersLeaveMain
<1> QED BY <1>1, <1>2, <1>3, <1>4, <1>5, <1>6 DEF Next, MainStep, Other

\* Every variable keeps its type: through interleavings, failures and crashes no
\* pointer, document or descriptor comes out that no code path makes.
THEOREM TypeCorrect == Spec => []TypeOK
<1>1. Init => TypeOK /\ Serving
  <2> SUFFICES ASSUME Init PROVE TypeOK /\ Serving
    OBVIOUS
  <2>1. Empty \in Contents
    BY DEF Contents
  <2>2. /\ file \in [Filter -> [Devs -> Contents \cup {NoFile}]]
        /\ asked \in [Filter -> [Devs -> Contents \cup {NoFile, Unsure}]]
    BY DEF Init
  <2> QED BY <2>1, <2>2, NoRequestType DEF Init, TypeOK, Serving, Requested
<1>2. TypeOK /\ Serving /\ [Next]_vars => TypeOK' /\ Serving'
  BY MainType, WebType, OtherType, ServingKept DEF Next, Other
<1> QED BY <1>1, <1>2, PTL DEF Spec

-----------------------------------------------------------------------------
(* Settings that come back.                                                *)

\* What the files say of keyboard d.
FromFile(k, d) == Applied(k, d, file[k][d], Default)

\* As long as no request has been taken since the filters were made, none is being
\* served, and what the files say is what has been loaded so far, or is about to be.
LoadedInv == (UsingKb \/ UsingBoth) /\ ~touched =>
    /\ web = "idle"
    /\ main \in {"readSettings", "loadSettings"} => settings[0] = Default
    /\ main = "loadSettings" => text = file[0][devId]
    /\ main = "newMap" \/ UsingBoth => settings[0] = FromFile(0, devId)
    /\ main = "readKeyMap" => settings[1] = Default
    /\ main = "loadKeyMap" => text = file[1][devId]
    /\ main \in {"forward", "write"} => settings[1] = FromFile(1, devId)

\* A file is what the last request has made it, unless that was cut off.
AskedInv == \A k \in Filter, d \in Devs : asked[k][d] # Unsure => file[k][d] = asked[k][d]

\* The main thread loads what the files say.
LEMMA MainLoads == TypeOK /\ LoadedInv /\ (MainStep \/ ForwardStep) => LoadedInv'
<1> SUFFICES ASSUME TypeOK, LoadedInv, MainStep \/ ForwardStep PROVE LoadedInv'
  OBVIOUS
<1> USE DEF LoadedInv, UsingKb, UsingBoth, FromFile, MainGoto, mainVars, webVars, filters,
            files, Filter
<1>1. CASE \/ LoopTest \/ OpenEvent \/ Grab \/ OpenHidraw \/ OpenKbFails
           \/ OpenHidgDevice \/ OpenHidgFails \/ DeleteFilters
  BY <1>1 DEF LoopTest, OpenEvent, Grab, OpenHidraw, OpenKbFails, OpenHidgDevice,
       OpenHidgFails, DeleteFilters
<1>2. CASE \/ ForwardReport \/ ReportWritten \/ ForwardingEnds \/ ForwardingFails
           \/ WriteBreak \/ CloseDevices
  BY <1>2 DEF ForwardReport, ReportWritten, ForwardingEnds, ForwardingFails,
       LeaveForwarding, WriteBreak, CloseDevices
<1>3. settings \in [Filter -> Docs \cup {Default}] /\ NoFile \notin Docs
  BY DocsAssumption DEF TypeOK
<1>4. CASE NewKbFilter
  BY <1>3, <1>4 DEF NewKbFilter, NewFilter
<1>5. CASE ReadSettings
  BY <1>3, <1>5 DEF ReadSettings, ReadFile, Applied
<1>6. CASE LoadSettings
  BY <1>3, <1>6 DEF LoadSettings, LoadFile
<1>7. CASE NewKeyMapFilter
  BY <1>3, <1>7 DEF NewKeyMapFilter, NewFilter
<1>8. CASE ReadKeyMap
  BY <1>3, <1>8 DEF ReadKeyMap, ReadFile, Applied
<1>9. CASE LoadKeyMap
  BY <1>3, <1>9 DEF LoadKeyMap, LoadFile
<1> QED BY <1>1, <1>2, <1>4, <1>5, <1>6, <1>7, <1>8, <1>9 DEF MainStep, ForwardStep

\* A request that is taken or being served has no say in it: it sets touched, or has
\* set it before, or was there before the filters were.
LEMMA OthersLeaveLoaded == LoadedInv /\ Other => LoadedInv'
<1> SUFFICES ASSUME LoadedInv, Other PROVE LoadedInv'
  OBVIOUS
<1> USE DEF LoadedInv, UsingKb, UsingBoth
<1>1. UNCHANGED <<main, devId, text>>
  BY OthersLeaveMain
<1>2. CASE SetRequest \/ DeleteRequest \/ GetRequest
  <2>1. touched' = (UsingKb \/ UsingBoth)
    BY <1>2 DEF SetRequest, DeleteRequest, GetRequest, Request
  <2> QED BY <1>1, <2>1
<1>3. CASE WebStep
  <2>1. web # "idle" /\ UNCHANGED touched
    BY <1>3 DEF WebStep, DeleteFile, Deref, GetSettings, ClearKeyMap, ParseFails, ParseSet,
                ParseDelete, TruncateFile, TruncateFails, WriteFile, Answer, WebGoto
  <2> QED BY <1>1, <2>1
<1>4. CASE Restart \/ Connect \/ Disconnect \/ SignalHandler \/ HandlerReturns
           \/ UNCHANGED vars
  <2>1. UNCHANGED <<web, settings, file, touched>>
    BY <1>4 DEF Restart, Connect, Disconnect, SignalHandler, HandlerReturns, vars, webVars,
                filters, files
  <2> QED BY <1>1, <2>1 DEF FromFile
<1> QED BY <1>2, <1>3, <1>4 DEF Other

\* Whoever dies or fails between two steps of a request leaves its file as it was asked
\* to be, or marked as cut off.
LEMMA StepKeepsAsked == TypeOK /\ AskedInv /\ [Next]_vars => AskedInv'
<1> SUFFICES ASSUME TypeOK, AskedInv, [Next]_vars PROVE AskedInv'
  OBVIOUS
<1> USE DEF AskedInv, files
<1>1. CASE UNCHANGED files
  BY <1>1
<1>2. ASSUME NEW k \in Filter, NEW d \in Devs \cup {NoDev}, NEW made, NEW said,
             said \in {made, Unsure},
             file' = [file EXCEPT ![k][d] = made], asked' = [asked EXCEPT ![k][d] = said]
      PROVE  AskedInv'
  BY <1>2 DEF TypeOK
<1>3. CASE DeleteFile
  <2>1. 1 \in Filter
    BY DEF Filter
  <2> QED BY <1>1, <1>2, <1>3, <2>1, RequestFields DEF DeleteFile
<1>4. CASE TruncateFile
  BY <1>2, <1>4, RequestFields DEF TruncateFile
<1>5. CASE WriteFile
  <2>1. PICK written \in {req.doc, Empty} :
           /\ file' = [file EXCEPT ![req.k][req.dev] = written]
           /\ asked' = [asked EXCEPT ![req.k][req.dev] =
                           IF written = req.doc THEN written ELSE Unsure]
    BY <1>5 DEF WriteFile
  <2> QED BY <1>2, <2>1, RequestFields
<1>6. CASE WebStep /\ ~DeleteFile /\ ~TruncateFile /\ ~WriteFile
  BY <1>1, <1>6 DEF WebStep, Deref, GetSettings, ClearKeyMap, ParseFails, ParseSet,
                    ParseDelete, TruncateFails
<1>7. CASE MainStep
  BY <1>1, <1>7 DEF MainStep, LoopTest, OpenEvent, Grab, OpenHidraw, OpenKbFails,
       OpenHidgDevice, OpenHidgFails, NewKbFilter, NewKeyMapFilter, NewFilter, ReadSettings,
       ReadKeyMap, ReadFile, LoadSettings, LoadKeyMap, LoadFile, ForwardingEnds,
       LeaveForwarding, CloseDevices, DeleteFilters
<1>8. CASE ForwardStep \/ Crash \/ ProcessDies
  BY <1>1, <1>8 DEF ForwardStep, ForwardReport, ReportWritten, ForwardingFails,
       LeaveForwarding, WriteBreak, Crash, ProcessDies, Die
<1>9. CASE Other /\ ~WebStep
  BY <1>1, <1>9 DEF Other, SetRequest, DeleteRequest, GetRequest, Request, Restart,
       Connect, Disconnect, SignalHandler, HandlerReturns, vars
<1> QED BY <1>3, <1>4, <1>5, <1>6, <1>7, <1>8, <1>9 DEF Next, Other

\* A keyboard gets its settings and its key map back, whatever request about its files,
\* or about another keyboard's, was served, refused or cut off by the death of the
\* process, between truncating a file and writing it too, as long as the last one about
\* its own got to its end.
THEOREM SettingsAreRestored == Spec => []SettingsRestored
<1>1. Init => LoadedInv /\ AskedInv
  BY DEF Init, LoadedInv, AskedInv, UsingKb, UsingBoth
<1>2. TypeOK /\ LoadedInv /\ [Next]_vars => LoadedInv'
  <2> SUFFICES ASSUME TypeOK, LoadedInv, [Next]_vars PROVE LoadedInv'
    OBVIOUS
  <2>1. CASE Crash \/ ProcessDies
    BY <2>1 DEF Crash, ProcessDies, Die, LoadedInv, UsingKb, UsingBoth
  <2> QED BY <2>1, MainLoads, OthersLeaveLoaded DEF Next, Other
<1>3. TypeOK /\ IInv /\ LoadedInv /\ AskedInv => SettingsRestored
  <2> SUFFICES ASSUME IInv, LoadedInv, AskedInv, NEW k \in Filter,
                      main \in {"forward", "write"}, gone = {}, ~touched,
                      asked[k][present] # Unsure, present \in Devs \cup {NoDev}
               PROVE  settings[k] = Applied(k, present, asked[k][present], Default)
    BY DEF SettingsRestored, TypeOK
  <2>1. devId = present /\ present \in Devs
    BY DEF IInv, UsingBoth
  <2>2. settings[k] = FromFile(k, present)
    BY <2>1 DEF LoadedInv, UsingBoth, Filter
  <2>3. file[k][present] = asked[k][present]
    BY <2>1 DEF AskedInv
  <2> QED BY <2>2, <2>3 DEF FromFile
<1> QED BY <1>1, <1>2, <1>3, TypeCorrect, InvCorrect, StepKeepsAsked, PTL DEF Spec

-----------------------------------------------------------------------------
(* Why a requested exit is answered: how many steps the main thread has     *)
(* left.                                                                   *)

MainSteps == [ended |-> 0, top |-> 1, delete |-> 2, close |-> 3, break |-> 4,
              forward |-> 5, write |-> 6, loadKeyMap |-> 6, readKeyMap |-> 7,
              newMap |-> 8, loadSettings |-> 9, readSettings |-> 10, newKb |-> 11,
              openHidg |-> 12, openHidraw |-> 13, grab |-> 14, openEvent |-> 15]
MainLeft  == MainSteps[main]

\* Every step of the main thread, a report that is written included, leaves fewer.
LEMMA MainStepCounts ==
    ASSUME g_ExitRequested, MainStep \/ ForwardStep
    PROVE  MainLeft' < MainLeft
<1> USE DEF MainLeft, MainSteps, MainGoto
<1>1. CASE LoopTest
  BY <1>1 DEF LoopTest
<1>2. CASE OpenEvent \/ Grab \/ OpenHidraw \/ OpenHidgDevice \/ OpenHidgFails
  <2>1. \/ main = "openEvent" /\ main' = "grab"
        \/ main = "grab" /\ main' = "openHidraw"
        \/ main = "openHidraw" /\ main' = "openHidg"
        \/ main = "openHidg" /\ main' \in {"newKb", "top"}
    BY <1>2 DEF OpenEvent, Grab, OpenHidraw, OpenHidgDevice, OpenHidgFails
  <2> QED BY <2>1
<1>3. CASE OpenKbFails
  <2>1. main \in {"openEvent", "grab", "openHidraw"} /\ main' = "top"
    BY <1>3 DEF OpenKbFails
  <2> QED BY <2>1
<1>4. CASE NewKbFilter \/ NewKeyMapFilter
  BY <1>4 DEF NewKbFilter, NewKeyMapFilter, NewFilter
<1>5. CASE ReadSettings
  BY <1>5 DEF ReadSettings, ReadFile
<1>6. CASE ReadKeyMap
  BY <1>6 DEF ReadKeyMap, ReadFile
<1>7. CASE LoadSettings \/ LoadKeyMap
  BY <1>7 DEF LoadSettings, LoadKeyMap, LoadFile
<1>8. CASE ForwardingEnds \/ ForwardStep
  <2>1. \/ main \in {"forward", "write"} /\ main' = "break"
        \/ main = "write" /\ main' = "forward"
        \/ main = "break" /\ main' = "close"
    BY <1>8 DEF ForwardingEnds, ForwardStep, ForwardReport, ReportWritten, ForwardingFails,
         LeaveForwarding, WriteBreak
  <2> QED BY <2>1
<1>9. CASE CloseDevices \/ DeleteFilters
  BY <1>9 DEF CloseDevices, DeleteFilters
<1> QED BY <1>1, <1>2, <1>3, <1>4, <1>5, <1>6, <1>7, <1>8, <1>9 DEF MainStep

\* From wherever the main thread is interrupted by the request for an exit, opening
\* devices, reading files, forwarding or writing, it is at most fifteen steps from its
\* end: each of its steps is one less, whether what it does works or fails, and no web
\* request, no keyboard that comes or goes and no handler gives one back or takes the
\* request for the exit away; the death of the process does, and it alone
\* (Main.cpp:115, :226).  That each step ends is not said: a write to the host may not.
THEOREM ExitIsBounded ==
    Spec => /\ [](MainLeft \in 0 .. 15 /\ (MainLeft = 0 <=> main = "ended"))
            /\ [][g_ExitRequested /\ ~Crash /\ ~ProcessDies =>
                    /\ g_ExitRequested'
                    /\ MainStep \/ ForwardStep => MainLeft' < MainLeft
                    /\ ~MainStep /\ ~ForwardStep => MainLeft' = MainLeft]_vars
<1>1. TypeOK => MainLeft \in 0 .. 15 /\ (MainLeft = 0 <=> main = "ended")
  BY DEF TypeOK, MainLeft, MainSteps
<1>2. [Next]_vars => [g_ExitRequested /\ ~Crash /\ ~ProcessDies =>
                        /\ g_ExitRequested'
                        /\ MainStep \/ ForwardStep => MainLeft' < MainLeft
                        /\ ~MainStep /\ ~ForwardStep => MainLeft' = MainLeft]_vars
  <2> SUFFICES ASSUME Next, g_ExitRequested, ~Crash, ~ProcessDies
               PROVE  /\ g_ExitRequested'
                      /\ ~MainStep /\ ~ForwardStep => MainLeft' = MainLeft
    BY MainStepCounts
  <2> USE DEF signal
  <2>1. CASE MainStep
    BY <2>1 DEF MainStep, LoopTest, OpenEvent, Grab, OpenHidraw, OpenKbFails,
         OpenHidgDevice, OpenHidgFails, NewKbFilter, NewKeyMapFilter, NewFilter, ReadSettings,
         ReadKeyMap, ReadFile, LoadSettings, LoadKeyMap, LoadFile, ForwardingEnds,
         LeaveForwarding, CloseDevices, DeleteFilters
  <2>2. CASE ForwardStep
    BY <2>2 DEF ForwardStep, ForwardReport, ReportWritten, ForwardingFails, LeaveForwarding,
         WriteBreak
  <2>3. CASE Other
    <3>1. UNCHANGED main
      BY <2>3, OthersLeaveMain
    <3>2. g_ExitRequested'
      BY <2>3 DEF Other, SetRequest, DeleteRequest, GetRequest, Request, WebStep, DeleteFile,
           Deref, GetSettings, ClearKeyMap, ParseFails, ParseSet, ParseDelete, TruncateFile,
           TruncateFails, WriteFile, Answer, Restart, Connect, Disconnect, SignalHandler,
           HandlerReturns, vars
    <3> QED BY <3>1, <3>2 DEF MainLeft
  <2> QED BY <2>1, <2>2, <2>3 DEF Next, Other
<1> QED BY <1>1, <1>2, TypeCorrect, PTL DEF Spec

=============================================================================
