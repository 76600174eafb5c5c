------------------------------- MODULE A1314 -------------------------------
(***************************************************************************)
(* The report filter of the Apple A1314 keyboard (raspikey/A1314.cpp), a   *)
(* subclass of A1644.  That keyboard reports its ordinary and modifier     *)
(* keys in one report and Eject and Fn in another; the filter keeps an     *)
(* A1644 report up to date with both, in m_a1644rep, and has class A1644   *)
(* process a copy of it.                                                   *)
(*                                                                         *)
(* kb, to class A1644 the report that came in last, is m_a1644rep here.    *)
(***************************************************************************)
EXTENDS A1644

VARIABLE held       \* the keys the user holds

a1314vars == <<held, vars>>

Keyboards == {[mod |-> r.mod, keys |-> r.keys, special |-> r.special] : r \in Reports}

\* The values of m_a1644rep, whose id is 0 until a report has come that brings one.
MergedReports == {[r EXCEPT !.id = id] : r \in Reports, id \in {0, 1}}

A1314Init ==
    /\ held = [mod |-> {}, keys |-> NoKeys, special |-> {}]
    /\ kb = [IdleReport EXCEPT !.id = 0]
    /\ m_Settings \in Settings
    /\ m_FakeFnActive = FALSE
    /\ m_MultimediaKeyActive = FALSE
    /\ host = [mod |-> {}, keys |-> {}, media |-> {}]
    /\ out = "none"
    /\ calm = TRUE

\* Mutant of Process: the report is processed in place, not a copy of it, so
\* that the translation of Eject and of LCtrl is kept.
ProcessInPlace(rep) ==
    /\ kb' = Prepared(rep)
    /\ ProcessInputReport(rep)
    /\ UNCHANGED m_Settings

\* A1314::ProcessInputReport once m_a1644rep is rep.
Process(rep) ==
    /\ kb' = rep
    /\ ProcessInputReport(rep)
    /\ UNCHANGED m_Settings

\* The user's keys become those of k.
Change(k) ==
    /\ held' = k
    /\ calm' = (calm /\ OneChange(held, k))

\* Mutant of KeysReport: a report without keys is taken for one to skip.
KeysReportOfKeys ==
    \E k \in Keyboards :
        /\ k.special = held.special
        /\ Change(k)
        /\ Process([kb EXCEPT !.id = 1, !.mod = k.mod,
                              !.keys = IF k.keys = NoKeys THEN @ ELSE k.keys])

\* A report of nine bytes, copied over the first nine of m_a1644rep.
KeysReport ==
    \E k \in Keyboards :
        /\ k.special = held.special
        /\ Change(k)
        /\ Process([kb EXCEPT !.id = 1, !.mod = k.mod, !.keys = k.keys])

\* A report of two bytes: Eject and Fn.
SpecialReport ==
    \E special \in SUBSET Specials :
        /\ Change([held EXCEPT !.special = special])
        /\ Process([kb EXCEPT !.special = special])

\* A report of any other length only has m_a1644rep processed once more.
OtherReport == UNCHANGED <<held, calm>> /\ Process(kb)

\* SetSettings is inherited.
A1314Next ==
    \/ KeysReport \/ SpecialReport \/ OtherReport
    \/ SetSettings /\ UNCHANGED held

A1314Spec == A1314Init /\ [][A1314Next]_a1314vars

-----------------------------------------------------------------------------
(* Properties.                                                             *)

\* The two kinds of report together never lose a key: what class A1644 is given
\* is the keyboard, however the reports follow each other.
ReportIsKeyboard == kb.mod = held.mod /\ kb.keys = held.keys /\ kb.special = held.special

\* As long as the user has been calm: when no key is held, no media key is down at
\* the host, whichever kind of report (A1314.cpp:27, :37) said so last, and
\* before the first of each.
HeldMediaReleased == calm /\ NoKeyHeld(held) => host.media = {}

\* As long as the user has been calm: when he has let go of every key, the host
\* has every key up too, unless a media break was written instead: a report merged
\* from an old one of the other kind does not put a key back.
HeldKeysUp == calm /\ Released(held) => HostKeysUp \/ out = "mediaBreak"

\* The inductive invariant: class A1644 keeps its own, of the report it is given,
\* while it is given merged reports, and before the first report of keys (its id is still 0,
\* which the host ignores) nothing can have gone wrong yet.
A1314IInv ==
    /\ held \in Keyboards /\ kb \in MergedReports
    /\ FilterOK
    /\ ReportIsKeyboard
    /\ MediaFlagMatchesHost /\ FakeFnFollowsLCtrl
    /\ MediaReleasedWithKeys /\ KeysUpUnlessBehindBreak
    /\ kb.id = 0 =>
          /\ kb.mod = {} /\ kb.keys = NoKeys
          /\ host = [mod |-> {}, keys |-> {}, media |-> {}]
=============================================================================
