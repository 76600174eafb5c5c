------------------------- MODULE Persistence_proofs -------------------------
(***************************************************************************)
(* Proofs about Persistence, for any number of changes to /data.           *)
(***************************************************************************)
EXTENDS Persistence, TLAPS

LEMMA ArchiveTypes ==
    /\ NoArchive \in Archives
    /\ \A s \in States : Whole(s) \in Archives /\ Broken(s) \in Archives
    /\ \A a \in Archives : Partly(a) \in Archives
<1> QED BY MaxStateAssumption DEF NoArchive, Archives, Whole, Broken, Partly, States

\* What a power cut may leave is an archive, and the one on the card when nothing
\* is left to be written.
LEMMA WrittenArchives ==
    ASSUME TypeOK
    PROVE  /\ Written \subseteq Archives
           /\ archive = disk => Written = {disk}
<1> QED BY ArchiveTypes DEF TypeOK, Written

LEMMA InitInvariant == Init => IInv
<1> SUFFICES ASSUME Init PROVE IInv
  OBVIOUS
<1>1. 0 \in States
  BY MaxStateAssumption DEF States
<1>2. TypeOK
  BY <1>1, ArchiveTypes DEF Init, TypeOK
<1> QED BY <1>2 DEF Init, IInv, CardKeepsPromise, JobPrepared, BootWritableOnlyByJob,
                    BluetoothDownOnlyForReset, NoArchive

\* A request that breaks off leaves the card as it is, or an archive that has been
\* touched, and is a failure on record.
LEMMA FailsKeepsInvariant ==
    ASSUME IInv, NEW step \in SaveSteps \cup DeleteSteps, Fails(step),
           UNCHANGED <<disk, boot>>, archive' \in Archives,
           archive' = archive \/ touched,
           bluetoothd' = bluetoothd \/ (bluetoothd' = FALSE /\ step = "delete-stop")
    PROVE  IInv'
<1>1. /\ on /\ on' /\ job = step /\ job' = "idle"
      /\ failed' = failed \cup {Kind(step)}
      /\ UNCHANGED <<data, rebooting, asked, acked, touched>>
  BY DEF Fails, IInv, TypeOK
<1>2. Kind(step) \in {"save", "delete"}
  BY DEF Kind
<1>3. bluetoothd' \in BOOLEAN
  BY DEF IInv, TypeOK
<1>4. TypeOK'
  BY <1>1, <1>2, <1>3 DEF IInv, TypeOK
<1>5. CardKeepsPromise'
  BY <1>1 DEF IInv, CardKeepsPromise
<1>6. JobPrepared' /\ BootWritableOnlyByJob'
  BY <1>1 DEF JobPrepared, BootWritableOnlyByJob
<1>7. BluetoothDownOnlyForReset'
  <2>1. job # "delete-clear" \/ "delete" \in failed'
    BY <1>1 DEF Kind, SaveSteps
  <2>2. step = "delete-stop" => "delete" \in failed'
    BY <1>1 DEF Kind, SaveSteps
  <2> QED BY <1>1, <2>1, <2>2 DEF IInv, BluetoothDownOnlyForReset
<1> QED BY <1>4, <1>5, <1>6, <1>7 DEF IInv

\* The commands of save-data: tar leaves a whole archive no older than the request,
\* and the remount that ends in a 200 writes it to the card.
LEMMA SaveKeepsInvariant ==
    ASSUME IInv, SaveRemounts \/ SaveArchives \/ SaveSyncs
    PROVE  IInv'
<1> USE DEF SaveSteps, DeleteSteps
<1>1. CASE SaveRemounts
  <2>1. CASE Fails("save-rw") /\ UNCHANGED <<disks, bluetoothd>>
    BY <2>1, FailsKeepsInvariant DEF disks, IInv, TypeOK
  <2>2. CASE /\ Continues("save-rw", "save-tar")
             /\ boot' = "rw" /\ archive' = Broken(data) /\ touched' = TRUE
             /\ UNCHANGED <<disk, data, bluetoothd>>
    <3>1. archive' \in Archives
      BY <2>2, ArchiveTypes DEF IInv, TypeOK
    <3>2. TypeOK'
      BY <2>2, <3>1 DEF IInv, TypeOK, Continues
    <3>3. CardKeepsPromise' /\ JobPrepared' /\ BootWritableOnlyByJob'
      BY <2>2 DEF Continues, CardKeepsPromise, JobPrepared, BootWritableOnlyByJob
    <3>4. BluetoothDownOnlyForReset'
      BY <2>2 DEF Continues, IInv, BluetoothDownOnlyForReset
    <3> QED BY <3>2, <3>3, <3>4 DEF IInv
  <2> QED BY <1>1, <2>1, <2>2 DEF SaveRemounts
<1>2. CASE SaveArchives
  <2>1. \A s \in asked .. data : s \in States /\ s >= asked
    <3>1. asked \in States /\ data \in States
      BY DEF IInv, TypeOK
    <3> QED BY <3>1, MaxStateAssumption DEF States
  <2>2. CASE /\ Fails("save-tar")
             /\ \E s \in asked .. data : archive' \in {Whole(s), Broken(s)}
             /\ UNCHANGED <<disk, boot, bluetoothd>>
    <3>1. archive' \in Archives /\ touched
      BY <2>1, <2>2, ArchiveTypes DEF IInv, JobPrepared, Fails
    <3> QED BY <2>2, <3>1, FailsKeepsInvariant
  <2>3. CASE /\ Continues("save-tar", "save-ro")
             /\ \E s \in asked .. data : archive' = Whole(s)
             /\ UNCHANGED <<disk, boot, data, bluetoothd, touched>>
    <3>1. PICK s \in asked .. data : archive' = Whole(s)
      BY <2>3
    <3>2. /\ archive' \in Archives /\ touched
          /\ archive'.there /\ archive'.whole /\ archive'.state >= asked
      BY <2>1, <2>3, <3>1, ArchiveTypes DEF Whole, IInv, JobPrepared, Continues
    <3>3. TypeOK'
      BY <2>3, <3>2 DEF IInv, TypeOK, Continues
    <3>4. CardKeepsPromise' /\ JobPrepared' /\ BootWritableOnlyByJob'
      BY <2>3, <3>2 DEF Continues, CardKeepsPromise, JobPrepared, BootWritableOnlyByJob
    <3>5. BluetoothDownOnlyForReset'
      BY <2>3 DEF Continues, IInv, BluetoothDownOnlyForReset
    <3> QED BY <3>3, <3>4, <3>5 DEF IInv
  <2> QED BY <1>2, <2>2, <2>3 DEF SaveArchives
<1>3. CASE SaveSyncs
  <2>1. CASE Fails("save-ro") /\ UNCHANGED <<disks, bluetoothd>>
    BY <2>1, FailsKeepsInvariant DEF disks, IInv, TypeOK
  <2>2. CASE /\ Succeeds("save-ro", Whole(asked))
             /\ boot' = "ro" /\ disk' = archive
             /\ UNCHANGED <<archive, data, bluetoothd, rebooting>>
    <3>1. TypeOK'
      BY <2>2, ArchiveTypes DEF IInv, TypeOK, Succeeds
    <3>2. CardKeepsPromise'
      BY <2>2 DEF Succeeds, Whole, IInv, JobPrepared, CardKeepsPromise
    <3>3. JobPrepared' /\ BootWritableOnlyByJob'
      BY <2>2 DEF Succeeds, JobPrepared, BootWritableOnlyByJob
    <3>4. BluetoothDownOnlyForReset'
      BY <2>2 DEF Succeeds, Kind, IInv, BluetoothDownOnlyForReset
    <3> QED BY <3>1, <3>2, <3>3, <3>4 DEF IInv
  <2> QED BY <1>3, <2>1, <2>2 DEF SaveSyncs
<1> QED BY <1>1, <1>2, <1>3

\* The commands of delete-data: when the 200 is given no archive is on the card.
LEMMA DeleteKeepsInvariant ==
    ASSUME IInv,
           DeleteRemounts \/ DeleteRemoves \/ DeleteSyncs \/ DeleteStops \/ DeleteClears
    PROVE  IInv'
<1> USE DEF SaveSteps, DeleteSteps
<1>1. ASSUME NEW step \in DeleteSteps, Fails(step) /\ UNCHANGED <<disks, bluetoothd>>
      PROVE  IInv'
  BY <1>1, FailsKeepsInvariant DEF disks, IInv, TypeOK
<1>2. CASE DeleteRemounts
  <2>1. CASE /\ Continues("delete-rw", "delete-rm")
             /\ boot' = "rw"
             /\ UNCHANGED <<archive, disk, data, bluetoothd, touched>>
    <3>1. TypeOK' /\ CardKeepsPromise'
      BY <2>1 DEF IInv, TypeOK, Continues, CardKeepsPromise
    <3>2. JobPrepared' /\ BootWritableOnlyByJob' /\ BluetoothDownOnlyForReset'
      BY <2>1 DEF Continues, IInv, JobPrepared, BootWritableOnlyByJob,
                  BluetoothDownOnlyForReset
    <3> QED BY <3>1, <3>2 DEF IInv
  <2> QED BY <1>1, <1>2, <2>1 DEF DeleteRemounts
<1>3. CASE DeleteRemoves
  <2>1. CASE /\ Continues("delete-rm", "delete-ro")
             /\ archive' = NoArchive /\ touched' = TRUE
             /\ UNCHANGED <<disk, boot, data, bluetoothd>>
    <3>1. TypeOK'
      BY <2>1, ArchiveTypes DEF IInv, TypeOK, Continues
    <3>2. CardKeepsPromise' /\ JobPrepared' /\ BootWritableOnlyByJob'
      BY <2>1 DEF Continues, CardKeepsPromise, JobPrepared, BootWritableOnlyByJob
    <3>3. BluetoothDownOnlyForReset'
      BY <2>1 DEF Continues, IInv, BluetoothDownOnlyForReset
    <3> QED BY <3>1, <3>2, <3>3 DEF IInv
  <2> QED BY <1>1, <1>3, <2>1 DEF DeleteRemoves
<1>4. CASE DeleteSyncs
  <2>1. CASE /\ Continues("delete-ro", "delete-stop")
             /\ boot' = "ro" /\ disk' = archive
             /\ UNCHANGED <<archive, data, bluetoothd, touched>>
    <3>1. TypeOK'
      BY <2>1 DEF IInv, TypeOK, Continues
    <3>2. CardKeepsPromise' /\ JobPrepared' /\ BootWritableOnlyByJob'
      BY <2>1 DEF Continues, IInv, CardKeepsPromise, JobPrepared, BootWritableOnlyByJob
    <3>3. BluetoothDownOnlyForReset'
      BY <2>1 DEF Continues, IInv, BluetoothDownOnlyForReset
    <3> QED BY <3>1, <3>2, <3>3 DEF IInv
  <2> QED BY <1>1, <1>4, <2>1 DEF DeleteSyncs
<1>5. CASE DeleteStops
  <2>1. CASE /\ Continues("delete-stop", "delete-clear")
             /\ bluetoothd' = FALSE
             /\ UNCHANGED <<disks, data, touched>>
    <3>1. TypeOK' /\ CardKeepsPromise'
      BY <2>1 DEF IInv, TypeOK, Continues, CardKeepsPromise, disks
    <3>2. JobPrepared' /\ BootWritableOnlyByJob' /\ BluetoothDownOnlyForReset'
      BY <2>1 DEF Continues, IInv, JobPrepared, BootWritableOnlyByJob,
                  BluetoothDownOnlyForReset, disks
    <3> QED BY <3>1, <3>2 DEF IInv
  <2>2. CASE /\ Fails("delete-stop") /\ UNCHANGED disks
             /\ bluetoothd' \in {bluetoothd, FALSE}
    BY <2>2, FailsKeepsInvariant DEF disks, IInv, TypeOK
  <2> QED BY <1>5, <2>1, <2>2 DEF DeleteStops
<1>6. CASE DeleteClears
  <2>1. CASE /\ Succeeds("delete-clear", NoArchive)
             /\ data' = 0 /\ rebooting' = TRUE
             /\ UNCHANGED <<disks, bluetoothd>>
    <3>1. 0 \in States
      BY MaxStateAssumption DEF States
    <3>2. TypeOK'
      BY <2>1, <3>1, ArchiveTypes DEF IInv, TypeOK, Succeeds, disks
    <3>3. archive = NoArchive /\ disk = NoArchive /\ boot = "ro"
      BY <2>1 DEF Succeeds, IInv, JobPrepared
    <3>4. CardKeepsPromise' /\ JobPrepared' /\ BootWritableOnlyByJob'
      BY <2>1, <3>3 DEF Succeeds, NoArchive, CardKeepsPromise, JobPrepared,
                        BootWritableOnlyByJob, disks
    <3>5. BluetoothDownOnlyForReset'
      BY <2>1 DEF BluetoothDownOnlyForReset
    <3> QED BY <3>2, <3>4, <3>5 DEF IInv
  <2> QED BY <1>1, <1>6, <2>1 DEF DeleteClears
<1> QED BY <1>2, <1>3, <1>4, <1>5, <1>6

\* Nothing of what happens to the system touches an archive that is on the card.
LEMMA SystemKeepsInvariant ==
    ASSUME IInv, WriteBack \/ ProcessDies \/ PowerCut \/ Reboot \/ Boot
    PROVE  IInv'
<1> USE DEF SaveSteps, DeleteSteps
<1>1. CASE WriteBack
  <2>1. disk' \in Archives /\ (archive = disk => disk' = disk)
    BY <1>1, WrittenArchives DEF WriteBack, IInv
  <2>2. job \in {"delete-stop", "delete-clear"} => disk' = disk
    BY <2>1 DEF IInv, JobPrepared
  <2>3. UNCHANGED <<on, data, archive, boot, bluetoothd, rebooting, job, asked, acked,
                    touched, failed>> /\ on
    BY <1>1 DEF WriteBack, history
  <2>4. TypeOK' /\ CardKeepsPromise'
    BY <2>1, <2>3 DEF IInv, TypeOK, CardKeepsPromise
  <2>5. JobPrepared' /\ BootWritableOnlyByJob' /\ BluetoothDownOnlyForReset'
    BY <2>2, <2>3 DEF IInv, JobPrepared, BootWritableOnlyByJob, BluetoothDownOnlyForReset
  <2> QED BY <2>4, <2>5 DEF IInv
<1>2. CASE ProcessDies
  <2>1. Kind(job) \in {"save", "delete"} /\ (job = "delete-clear" => Kind(job) = "delete")
    BY DEF Kind
  <2>2. /\ on /\ job # "idle" /\ job' = "idle" /\ failed' = failed \cup {Kind(job)}
        /\ UNCHANGED <<on, data, archive, disk, boot, bluetoothd, rebooting, asked, acked,
                       touched>>
    BY <1>2 DEF ProcessDies, disks
  <2>3. TypeOK' /\ CardKeepsPromise'
    BY <2>1, <2>2 DEF IInv, TypeOK, CardKeepsPromise
  <2>4. JobPrepared' /\ BootWritableOnlyByJob' /\ BluetoothDownOnlyForReset'
    BY <2>1, <2>2 DEF IInv, JobPrepared, BootWritableOnlyByJob, BluetoothDownOnlyForReset
  <2> QED BY <2>3, <2>4 DEF IInv
<1>3. ASSUME NEW a \in Archives, Down(a), archive = disk => a = disk
      PROVE  IInv'
  <2>1. 0 \in States
    BY MaxStateAssumption DEF States
  <2>2. TypeOK' /\ CardKeepsPromise'
    BY <1>3, <2>1 DEF IInv, TypeOK, CardKeepsPromise, Down
  <2>3. JobPrepared' /\ BootWritableOnlyByJob' /\ BluetoothDownOnlyForReset'
    BY <1>3 DEF JobPrepared, BootWritableOnlyByJob, BluetoothDownOnlyForReset, Down
  <2> QED BY <2>2, <2>3 DEF IInv
<1>4. CASE PowerCut
  BY <1>3, <1>4, WrittenArchives DEF PowerCut, IInv
<1>5. CASE Reboot
  BY <1>3, <1>5 DEF Reboot, IInv, TypeOK
<1>6. CASE Boot
  <2>1. disk.state \in States /\ 0 \in States
    BY MaxStateAssumption DEF IInv, TypeOK, Archives, States
  <2>2. Restored \subseteq States
    BY <2>1, MaxStateAssumption DEF Restored, States
  <2>3. /\ ~on /\ on' /\ data' \in States /\ bluetoothd'
        /\ UNCHANGED <<archive, disk, boot, rebooting, job, asked, acked, touched, failed>>
    BY <1>6, <2>2 DEF Boot, disks, history
  <2>4. TypeOK' /\ CardKeepsPromise'
    BY <2>3 DEF IInv, TypeOK, CardKeepsPromise
  <2>5. JobPrepared' /\ BootWritableOnlyByJob' /\ BluetoothDownOnlyForReset'
    BY <2>3 DEF IInv, JobPrepared, BootWritableOnlyByJob, BluetoothDownOnlyForReset
  <2> QED BY <2>4, <2>5 DEF IInv
<1> QED BY <1>1, <1>2, <1>4, <1>5, <1>6

LEMMA NextInvariant == IInv /\ [Next]_vars => IInv'
<1> SUFFICES ASSUME IInv, [Next]_vars PROVE IInv'
  OBVIOUS
<1> USE DEF SaveSteps, DeleteSteps
<1>1. CASE Change
  <2>1. data \in States
    BY DEF IInv, TypeOK
  <2>2. /\ on /\ data' \in States
        /\ UNCHANGED <<on, archive, disk, boot, bluetoothd, rebooting, job, asked, acked,
                       touched, failed>>
    BY <1>1, <2>1, MaxStateAssumption DEF Change, States, disks, history
  <2>3. TypeOK' /\ CardKeepsPromise'
    BY <2>2 DEF IInv, TypeOK, CardKeepsPromise
  <2>4. JobPrepared' /\ BootWritableOnlyByJob' /\ BluetoothDownOnlyForReset'
    BY <2>2 DEF IInv, JobPrepared, BootWritableOnlyByJob, BluetoothDownOnlyForReset
  <2> QED BY <2>3, <2>4 DEF IInv
<1>2. CASE SaveData \/ DeleteData
  <2>1. PICK first \in {"save-rw", "delete-rw"} : Request(first)
    BY <1>2 DEF SaveData, DeleteData
  <2>2. TypeOK' /\ CardKeepsPromise'
    BY <2>1 DEF Request, IInv, TypeOK, CardKeepsPromise, disks
  <2>3. JobPrepared' /\ BootWritableOnlyByJob' /\ BluetoothDownOnlyForReset'
    BY <2>1 DEF Request, IInv, JobPrepared, BootWritableOnlyByJob,
                BluetoothDownOnlyForReset, disks
  <2> QED BY <2>2, <2>3 DEF IInv
<1>3. CASE JobStep
  BY <1>3, SaveKeepsInvariant, DeleteKeepsInvariant DEF JobStep
<1>4. CASE WriteBack \/ ProcessDies \/ PowerCut \/ Reboot \/ Boot
  BY <1>4, SystemKeepsInvariant
<1>5. CASE UNCHANGED vars
  BY <1>5 DEF vars, disks, history, IInv, TypeOK, CardKeepsPromise, JobPrepared,
              BootWritableOnlyByJob, BluetoothDownOnlyForReset
<1> QED BY <1>1, <1>2, <1>3, <1>4, <1>5 DEF Next

LEMMA Invariance == Spec => []IInv
<1> QED BY InitInvariant, NextInvariant, PTL DEF Spec

\* /boot is left writable by nothing but a request that failed, wherever it broke off
\* and whatever followed.
THEOREM BootIsReadOnly == Spec => []BootWritableOnlyByJob
<1>1. IInv => BootWritableOnlyByJob
  BY DEF IInv
<1> QED BY <1>1, Invariance, PTL

\* bluetoothd stays down only after a delete-data that failed.
THEOREM BluetoothDownCorrect == Spec => []BluetoothDownOnlyForReset
<1>1. IInv => BluetoothDownOnlyForReset
  BY DEF IInv
<1> QED BY <1>1, Invariance, PTL

\* What was answered with 200 comes back at every boot until another request has
\* touched the archive, whatever fails, dies or is cut off in between.
THEOREM SavedIsRestored == Spec => SavedComesBack
<1>1. IInv /\ [Next]_vars => [~on /\ on' /\ ~touched => Keeps(data')]_vars
  <2> SUFFICES ASSUME IInv, [Next]_vars, ~on, on', ~touched
               PROVE  Keeps(data')
    OBVIOUS
  <2>1. ~on /\ on'
    OBVIOUS
  <2>2. Boot
    BY <2>1 DEF Next, Change, SaveData, DeleteData, Request, JobStep, SaveRemounts,
       SaveArchives, SaveSyncs, DeleteRemounts, DeleteRemoves, DeleteSyncs, DeleteStops,
       DeleteClears, Continues, Fails, Succeeds, WriteBack, ProcessDies, PowerCut, Reboot,
       Down, vars
  <2>3. data' \in Restored /\ acked' = acked
    BY <2>2 DEF Boot, history
  <2>4. CardKeepsPromise
    BY DEF IInv
  <2>5. CASE acked.there
    <3>1. Restored = {disk.state} /\ disk.state >= acked.state
      BY <2>4, <2>5 DEF CardKeepsPromise, Restored
    <3> QED BY <2>3, <2>5, <3>1 DEF Keeps
  <2>6. CASE ~acked.there
    <3>1. Restored = {0}
      BY <2>4, <2>6 DEF CardKeepsPromise, Restored
    <3> QED BY <2>3, <2>6, <3>1 DEF Keeps
  <2> QED BY <2>5, <2>6
<1> QED BY <1>1, Invariance, PTL DEF Spec, SavedComesBack

\* Every variable keeps its type, and the archive is opened and removed only while
\* /boot is writable.
THEOREM TypeCorrect == Spec => []TypeOK
<1>1. IInv => TypeOK
  BY DEF IInv
<1> QED BY <1>1, Invariance, PTL

-----------------------------------------------------------------------------
(* Why bluetoothd comes back: what is still to happen before it does.       *)

\* bluetoothd is down and no delete-data has failed, so that: 3 the request is about to
\* start the reboot, 2 the reboot has been started, 1 the system is down.
BackLeft == IF bluetoothd \/ "delete" \in failed THEN 0
            ELSE IF ~on THEN 1
            ELSE IF rebooting THEN 2
            ELSE 3

\* What the step that has to come next needs: nothing but that its turn comes.
NextIsDue == /\ BackLeft = 1 => ~on
             /\ BackLeft = 2 => on /\ rebooting
             /\ BackLeft = 3 => on /\ job = "delete-clear"

Due == \/ BackLeft = 1 /\ Boot
       \/ BackLeft = 2 /\ Reboot
       \/ BackLeft = 3 /\ JobStep

\* The step that has to come next is a step further, whichever way it goes.
LEMMA DueStepReturns == IInv /\ Due => BackLeft' < BackLeft
<1> SUFFICES ASSUME IInv, Due PROVE BackLeft' < BackLeft
  OBVIOUS
<1> USE DEF BackLeft
<1>1. CASE BackLeft = 1 /\ Boot
  BY <1>1 DEF Boot
<1>2. CASE BackLeft = 2 /\ Reboot
  BY <1>2 DEF Reboot, Down
<1>3. CASE BackLeft = 3 /\ JobStep
  <2>1. job = "delete-clear"
    BY <1>3 DEF IInv, BluetoothDownOnlyForReset
  <2>2. DeleteClears
    BY <1>3, <2>1 DEF JobStep, SaveRemounts, SaveArchives, SaveSyncs, DeleteRemounts,
                      DeleteRemoves, DeleteSyncs, DeleteStops, Continues, Succeeds, Fails
  <2> QED BY <1>3, <2>1, <2>2 DEF DeleteClears, Succeeds, Fails, Kind, SaveSteps
<1> QED BY <1>1, <1>2, <1>3 DEF Due

\* No command of any request takes it a step back.
LEMMA JobKeepsReturning ==
    ASSUME IInv, JobStep, BackLeft # 0
    PROVE  BackLeft' <= BackLeft
<1> USE DEF BackLeft
<1>1. on
  BY DEF JobStep, SaveRemounts, SaveArchives, SaveSyncs, DeleteRemounts, DeleteRemoves,
         DeleteSyncs, DeleteStops, DeleteClears, Continues, Succeeds, Fails
<1>2. UNCHANGED on
  BY DEF JobStep, SaveRemounts, SaveArchives, SaveSyncs, DeleteRemounts, DeleteRemoves,
         DeleteSyncs, DeleteStops, DeleteClears, Continues, Succeeds, Fails
<1>3. rebooting => rebooting'
  BY DEF JobStep, SaveRemounts, SaveArchives, SaveSyncs, DeleteRemounts, DeleteRemoves,
         DeleteSyncs, DeleteStops, DeleteClears, Continues, Succeeds, Fails
<1> QED BY <1>1, <1>2, <1>3

\* Once bluetoothd has been stopped by a delete-data that has not failed, the
\* remaining command, the reboot and the boot that bring it back are the only way on: each
\* is due, each that happens leaves one less, and no change, request, crash or
\* power cut in between leads further away from it (WebApiServer.cpp:115-121).
THEOREM BluetoothReturns ==
    Spec => /\ []NextIsDue
            /\ [][/\ Due => BackLeft' < BackLeft
                  /\ BackLeft # 0 => BackLeft' <= BackLeft]_vars
<1>1. IInv => NextIsDue
  BY DEF IInv, BluetoothDownOnlyForReset, NextIsDue, BackLeft
<1>2. IInv /\ [Next]_vars => [/\ Due => BackLeft' < BackLeft
                              /\ BackLeft # 0 => BackLeft' <= BackLeft]_vars
  <2> SUFFICES ASSUME IInv, Next, BackLeft # 0 PROVE BackLeft' <= BackLeft
    BY DueStepReturns DEF Due, BackLeft
  <2>1. CASE Change \/ SaveData \/ DeleteData \/ WriteBack
    BY <2>1 DEF Change, SaveData, DeleteData, Request, WriteBack, BackLeft, history
  <2>2. CASE JobStep
    BY <2>2, JobKeepsReturning
  <2>3. CASE ProcessDies
    BY <2>3 DEF ProcessDies, BackLeft
  <2>4. CASE PowerCut \/ Reboot
    BY <2>4 DEF PowerCut, Reboot, Down, BackLeft
  <2>5. CASE Boot
    BY <2>5 DEF Boot, BackLeft
  <2> QED BY <2>1, <2>2, <2>3, <2>4, <2>5 DEF Next
<1> QED BY <1>1, <1>2, Invariance, PTL DEF Spec

=============================================================================
