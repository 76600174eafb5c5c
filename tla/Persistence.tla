---------------------------- MODULE Persistence ----------------------------
(***************************************************************************)
(* What RaspiKey remembers.  Pairings, settings and key maps live in /data *)
(* and /var/lib/bluetooth, one tmpfs that a power cut empties.  The        *)
(* requests save-data and delete-data (raspikey/WebApiServer.cpp) write    *)
(* and remove an archive on the SD card, /boot/data.tar.bz2, which is      *)
(* unpacked when the system boots (setup/setup/raspikey_datafs.service).   *)
(*                                                                         *)
(* The contents of /data are numbered: 0 is nothing, and a pairing or a    *)
(* setting made makes it one more.                                         *)
(***************************************************************************)
EXTENDS Integers

CONSTANTS MaxState      \* bound: how many changes /data can hold

ASSUME MaxStateAssumption == MaxState \in Nat \ {0}

States == 0 .. MaxState

\* The archive: that there is one, that it is whole, and what is in it.
Archives  == [there : BOOLEAN, whole : BOOLEAN, state : States]
NoArchive == [there |-> FALSE, whole |-> TRUE, state |-> 0]
Whole(s)  == [there |-> TRUE, whole |-> TRUE, state |-> s]
Broken(s) == [there |-> TRUE, whole |-> FALSE, state |-> s]

\* The commands of the two requests that are under way, one at a time.
SaveSteps   == {"save-rw", "save-tar", "save-ro"}
DeleteSteps == {"delete-rw", "delete-rm", "delete-ro", "delete-stop", "delete-clear"}
Kind(step)  == IF step \in SaveSteps THEN "save" ELSE "delete"

VARIABLES
    on,             \* the system is up
    data,           \* what is in /data
    archive,        \* the archive as the running system sees it
    disk,           \* the archive as it is on the card
    boot,           \* /boot is mounted "ro" or "rw"
    bluetoothd,     \* bluetoothd runs
    rebooting,      \* /sbin/reboot has been started
    job,            \* the command under way for a request, or "idle"
    asked,          \* history: data when the last request was made
    acked,          \* history: what the last request answered with 200 leaves
    touched,        \* history: the archive has been opened or removed since then
    failed          \* history: the kinds of request whose last one, since the
                    \* system is up, was answered with 500 or never

disks   == <<archive, disk, boot>>
history == <<asked, acked, touched, failed>>
vars    == <<on, data, disks, bluetoothd, rebooting, job, history>>

-----------------------------------------------------------------------------
Init ==
    /\ on = TRUE
    /\ data = 0
    /\ archive = NoArchive
    /\ disk = NoArchive
    /\ boot = "ro"
    /\ bluetoothd = TRUE
    /\ rebooting = FALSE
    /\ job = "idle"
    /\ asked = 0
    /\ acked = NoArchive
    /\ touched = FALSE
    /\ failed = {}

\* A pairing, by bluetoothd at any time; settings and key maps, by the only
\* worker of the web server, which is busy while a job is under way.
Change ==
    /\ on /\ (bluetoothd \/ job = "idle")
    /\ data < MaxState
    /\ data' = data + 1
    /\ UNCHANGED <<on, disks, bluetoothd, rebooting, job, history>>

(* The two requests: a shell command of which each part may fail.           *)

Request(first) ==
    /\ on /\ job = "idle"
    /\ job' = first
    /\ asked' = data
    /\ UNCHANGED <<on, data, disks, bluetoothd, rebooting, acked, touched, failed>>

SaveData   == Request("save-rw")
DeleteData == Request("delete-rw")

\* The answer 500: the commands that are left are not executed.
Fails(step) ==
    /\ on /\ job = step
    /\ job' = "idle"
    /\ failed' = failed \cup {Kind(step)}
    /\ UNCHANGED <<on, data, rebooting, asked, acked, touched>>

\* The answer 200.
Succeeds(step, leaves) ==
    /\ on /\ job = step
    /\ job' = "idle"
    /\ acked' = leaves
    /\ touched' = FALSE
    /\ failed' = failed \ {Kind(step)}
    /\ UNCHANGED <<on, asked>>

\* The next command.
Continues(step, next) ==
    /\ on /\ job = step
    /\ job' = next
    /\ UNCHANGED <<on, rebooting, asked, acked, failed>>

\* Mutant of SaveRemounts: the card is taken for writable as it is.
SaveWithoutRemounting ==
    /\ Continues("save-rw", "save-tar")
    /\ archive' = Broken(data)
    /\ touched' = TRUE
    /\ UNCHANGED <<disk, boot, data, bluetoothd>>

\* mount -o remount,rw /boot, after which tar opens, and so empties, the archive.
SaveRemounts ==
    \/ /\ Continues("save-rw", "save-tar")
       /\ boot' = "rw"
       /\ archive' = Broken(data)
       /\ touched' = TRUE
       /\ UNCHANGED <<disk, data, bluetoothd>>
    \/ Fails("save-rw") /\ UNCHANGED <<disks, bluetoothd>>

\* tar: each file as it is when its turn comes.  It fails on a full card, and on
\* a file that changes while it is read, when the archive is there all the same.
SaveArchives ==
    \/ /\ Continues("save-tar", "save-ro")
       /\ \E s \in asked .. data : archive' = Whole(s)
       /\ UNCHANGED <<disk, boot, data, bluetoothd, touched>>
    \/ /\ Fails("save-tar")
       /\ \E s \in asked .. data : archive' \in {Whole(s), Broken(s)}
       /\ UNCHANGED <<disk, boot, bluetoothd>>

\* Mutant of SaveSyncs: /boot is left writable.
SaveWithoutRemount ==
    /\ Succeeds("save-ro", Whole(asked))
    /\ UNCHANGED <<disks, data, bluetoothd, rebooting>>

\* mount -o remount,ro /boot, which writes what is cached to the card.
SaveSyncs ==
    \/ /\ Succeeds("save-ro", Whole(asked))
       /\ boot' = "ro" /\ disk' = archive
       /\ UNCHANGED <<archive, data, bluetoothd, rebooting>>
    \/ Fails("save-ro") /\ UNCHANGED <<disks, bluetoothd>>

DeleteRemounts ==
    \/ /\ Continues("delete-rw", "delete-rm")
       /\ boot' = "rw"
       /\ UNCHANGED <<archive, disk, data, bluetoothd, touched>>
    \/ Fails("delete-rw") /\ UNCHANGED <<disks, bluetoothd>>

\* rm -f /boot/data.tar.bz2
DeleteRemoves ==
    \/ /\ Continues("delete-rm", "delete-ro")
       /\ archive' = NoArchive
       /\ touched' = TRUE
       /\ UNCHANGED <<disk, boot, data, bluetoothd>>
    \/ Fails("delete-rm") /\ UNCHANGED <<disks, bluetoothd>>

DeleteSyncs ==
    \/ /\ Continues("delete-ro", "delete-stop")
       /\ boot' = "ro" /\ disk' = archive
       /\ UNCHANGED <<archive, data, bluetoothd, touched>>
    \/ Fails("delete-ro") /\ UNCHANGED <<disks, bluetoothd>>

\* service bluetooth stop
DeleteStops ==
    \/ /\ Continues("delete-stop", "delete-clear")
       /\ bluetoothd' = FALSE
       /\ UNCHANGED <<disks, data, touched>>
    \/ Fails("delete-stop") /\ UNCHANGED disks /\ bluetoothd' \in {bluetoothd, FALSE}

\* Mutant of DeleteClears: the system is not rebooted.
DeleteClearsOnly ==
    /\ Succeeds("delete-clear", NoArchive)
    /\ data' = 0
    /\ UNCHANGED <<disks, bluetoothd, rebooting>>

\* rm -fr /data/*, and the reboot that nobody waits for.
DeleteClears ==
    \/ /\ Succeeds("delete-clear", NoArchive)
       /\ data' = 0
       /\ rebooting' = TRUE
       /\ UNCHANGED <<disks, bluetoothd>>
    \/ Fails("delete-clear") /\ UNCHANGED <<disks, bluetoothd>>

JobStep ==
    \/ SaveRemounts \/ SaveArchives \/ SaveSyncs
    \/ DeleteRemounts \/ DeleteRemoves \/ DeleteSyncs \/ DeleteStops \/ DeleteClears

(* What happens to the system.                                             *)

\* What may be on the card while the kernel has not written everything.
Partly(a) == IF a.there THEN Broken(a.state) ELSE a
Written   == IF archive = disk THEN {disk} ELSE {disk, archive, Partly(archive)}

\* The kernel writes some of what is cached.
WriteBack ==
    /\ on /\ disk' \in Written
    /\ UNCHANGED <<on, data, archive, boot, bluetoothd, rebooting, job, history>>

\* raspikey dies; systemd kills the shell with it and starts raspikey anew.
ProcessDies ==
    /\ on /\ job # "idle"
    /\ job' = "idle"
    /\ failed' = failed \cup {Kind(job)}
    /\ UNCHANGED <<on, data, disks, bluetoothd, rebooting, asked, acked, touched>>

\* The system goes down, with a on the card.
Down(a) ==
    /\ on /\ on' = FALSE
    /\ data' = 0
    /\ disk' = a /\ archive' = a
    /\ boot' = "ro"
    /\ bluetoothd' = FALSE
    /\ rebooting' = FALSE
    /\ job' = "idle"
    /\ failed' = {}
    /\ UNCHANGED <<asked, acked, touched>>

\* The user pulls the plug.
PowerCut == \E a \in Written : Down(a)

\* The reboot after delete-data; file systems are written and unmounted.
Reboot == rebooting /\ Down(archive)

\* What raspikey_datafs.service unpacks: of an archive that breaks off, a part.
Restored == IF ~disk.there THEN {0}
            ELSE IF disk.whole THEN {disk.state} ELSE 0 .. disk.state

\* The system boots; bluetoothd and raspikey start when /data is there.
Boot ==
    /\ ~on /\ on' = TRUE
    /\ data' \in Restored
    /\ bluetoothd' = TRUE
    /\ UNCHANGED <<disks, rebooting, job, history>>

Next ==
    \/ Change
    \/ SaveData \/ DeleteData \/ JobStep
    \/ WriteBack \/ ProcessDies
    \/ PowerCut \/ Reboot \/ Boot

\* Commands end, a reboot that was started happens, and the system boots.
Fairness == WF_vars(JobStep) /\ WF_vars(Reboot) /\ WF_vars(Boot)

Spec == Init /\ [][Next]_vars /\ Fairness

-----------------------------------------------------------------------------
(* Properties.                                                             *)

\* The variables keep their types; what is down does nothing; the archive is written
\* and removed only with /boot writable.
TypeOK ==
    /\ on \in BOOLEAN /\ bluetoothd \in BOOLEAN /\ rebooting \in BOOLEAN
    /\ touched \in BOOLEAN /\ failed \subseteq {"save", "delete"}
    /\ data \in States /\ asked \in States
    /\ archive \in Archives /\ disk \in Archives /\ acked \in Archives
    /\ boot \in {"ro", "rw"}
    /\ job \in {"idle"} \cup SaveSteps \cup DeleteSteps
    /\ ~on => job = "idle" /\ archive = disk /\ boot = "ro" /\ ~bluetoothd
    /\ job \in {"save-tar", "save-ro", "delete-rm", "delete-ro"} => boot = "rw"

\* What an answer of 200 has promised: everything there was when save-data was
\* asked for, or nothing after delete-data.
Keeps(state) == IF acked.there THEN state >= acked.state ELSE state = 0

\* What was answered with 200 comes back at every boot, whenever the power is cut,
\* the process dies or the kernel writes its cache, and though later requests fail,
\* until one of them opens or removes the archive (WebApiServer.cpp:102, :114).
SavedComesBack == [][~on /\ on' /\ ~touched => Keeps(data')]_vars

\* The card is writable, and open to damage by a power cut, only while a request is
\* at work or after one that failed and leaves it so (WebApiServer.cpp:102).
BootWritableOnlyByJob == boot = "rw" => job # "idle" \/ failed # {}

\* bluetoothd is down only for the rest of a delete-data, for the reboot it has
\* started, or after one that failed: a save-data that succeeds later does not
\* bring it back (WebApiServer.cpp:115-121).
BluetoothDownOnlyForReset ==
    on /\ ~bluetoothd => job = "delete-clear" \/ rebooting \/ "delete" \in failed

\* bluetoothd runs again after it was stopped, unless the request that stopped it
\* has failed.
BluetoothComesBack == ~bluetoothd ~> bluetoothd \/ "delete" \in failed
-----------------------------------------------------------------------------
(* The inductive invariant.                                                *)

\* While the archive has not been touched the card has what was promised, and all
\* of it: nothing is left in the kernel's cache.
CardKeepsPromise ==
    ~touched => /\ archive = disk
                /\ disk.there = acked.there
                /\ acked.there => disk.whole /\ disk.state >= acked.state

\* What the commands before have left for those that lead to a 200.
JobPrepared ==
    /\ job \in {"save-tar", "save-ro", "delete-ro", "delete-stop", "delete-clear"} => touched
    /\ job = "save-ro" => archive.there /\ archive.whole /\ archive.state >= asked
    /\ job = "delete-ro" => archive = NoArchive
    /\ job \in {"delete-stop", "delete-clear"} =>
          archive = NoArchive /\ disk = NoArchive /\ boot = "ro"

IInv == /\ TypeOK
        /\ CardKeepsPromise
        /\ JobPrepared
        /\ BootWritableOnlyByJob
        /\ BluetoothDownOnlyForReset
=============================================================================
