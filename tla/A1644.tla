------------------------------- MODULE A1644 -------------------------------
(***************************************************************************)
(* The report filter of the Apple A1644 keyboard (raspikey/A1644.cpp)      *)
(* between the keyboard that sends input reports and the USB host that     *)
(* receives what ForwardingLoop writes (raspikey/Main.cpp).                *)
(*                                                                         *)
(* A report is a record: the report id, the set of bits of the Modifier    *)
(* byte, the key slots Key1, Key2, ... and the set of bits of the Special  *)
(* byte.  Key and bit names stand for the usage codes of Globals.h; only   *)
(* their identity matters.                                                 *)
(***************************************************************************)
EXTENDS Integers

CONSTANTS
    Keys,           \* the ordinary keys the user may press
    Mods,           \* the modifier keys the user may press
    Specials,       \* the keys reported in the Special byte
    Slots           \* how many key slots a report has (6 in the code)

\* Key1..Key6 holding 0.
NoKey == "NoKey"

\* The switch of Process Input Report, part one: a key that becomes another.
FnKey == [Left |-> "Home", Right |-> "End", Up |-> "PgUp", Down |-> "PgDown",
          Enter |-> "Insert", F1 |-> "F13", F2 |-> "F14", F3 |-> "F15",
          F4 |-> "F16", F5 |-> "F17", F6 |-> "F18", P |-> "PrtScr",
          B |-> "PauseBreak", S |-> "ScrLck"]

\* Part two: a key that becomes a bit of the consumer control report.
FnMedia == [F7 |-> "PrevTrack", F8 |-> "PlayPause", F9 |-> "NextTrack",
            F10 |-> "Mute", F11 |-> "VolDown", F12 |-> "VolUp"]

MediaKeys == {FnMedia[k] : k \in DOMAIN FnMedia}
FnKeys    == {FnKey[k] : k \in DOMAIN FnKey}
AllMods   == {"LCtrl", "LShift", "LAlt", "LCmd", "RCtrl", "RShift", "RAlt", "RCmd"}

ASSUME KeysAssumption     == Keys \subseteq STRING /\ NoKey \notin Keys
ASSUME ModsAssumption     == Mods \subseteq AllMods /\ "LCtrl" \in Mods
ASSUME SpecialsAssumption == Specials \subseteq {"Eject", "Fn"}
ASSUME SlotsAssumption    == Slots \in Nat \ {0}
\* A key, a modifier and a special key are different keys.
ASSUME DisjointAssumption == /\ Keys \cap (Mods \cup Specials) = {}
                             /\ Mods \cap Specials = {}

Slot == 1 .. Slots

NoKeys == [i \in Slot |-> NoKey]

\* A1644HidReport as the keyboard sends it: the pressed keys fill the slots
\* from Key1 on, each once.
Packed(keys) == \A i, j \in Slot : i < j /\ keys[j] # NoKey =>
                                     keys[i] \notin {NoKey, keys[j]}

Reports == [id : {1}, mod : SUBSET Mods,
            keys : {k \in [Slot -> Keys \cup {NoKey}] : Packed(k)},
            special : SUBSET Specials]

IdleReport == [id |-> 1, mod |-> {}, keys |-> NoKeys, special |-> {}]

KeysOf(keys) == {keys[i] : i \in Slot} \ {NoKey}
Pressed(r)   == r.mod \cup KeysOf(r.keys) \cup r.special

\* r2 shows one key more, or one key less, than r1.
OneChange(r1, r2) ==
    LET before == Pressed(r1)
        after  == Pressed(r2)
    IN  \E k \in Keys \cup Mods \cup Specials :
            after = before \cup {k} \/ before = after \cup {k}

Settings == [SwapFnCtrl : BOOLEAN, SwapAltCmd : BOOLEAN]

VARIABLES
    kb,                     \* the keys held, as the keyboard last reported them
    m_Settings,
    m_FakeFnActive,
    m_MultimediaKeyActive,
    host,                   \* what the USB host takes to be pressed
    out,                    \* what the last report written to the host was
    calm                    \* so far each report showed one change, and the
                            \* settings changed only with no key held

vars == <<kb, m_Settings, m_FakeFnActive, m_MultimediaKeyActive, host, out, calm>>

-----------------------------------------------------------------------------
(* The steps of A1644::ProcessInputReport, as functions of a report r.     *)

\* m_FakeFnActive once the swap block and the special keys are processed.
FnAfter(r) == IF m_Settings.SwapFnCtrl
                THEN "LCtrl" \in r.mod
                ELSE m_FakeFnActive \/ "Fn" \in r.special

\* Mutant of FnChanged: every report with LCtrl is taken for a change of Fn.
FnHeldIsChange(r) == m_Settings.SwapFnCtrl /\ "LCtrl" \in r.mod

\* The early return of the swap block.
FnChanged(r) == m_Settings.SwapFnCtrl /\ m_FakeFnActive # ("LCtrl" \in r.mod)

\* LCtrl is cleared as the Fn key, Fn becomes LCtrl, Eject becomes Del.
SpecialKeys(r) ==
    [r EXCEPT !.mod = IF m_Settings.SwapFnCtrl
                        THEN (@ \ {"LCtrl"}) \cup {m \in {"LCtrl"} : "Fn" \in r.special}
                        ELSE @,
              !.keys = IF "Eject" \in r.special THEN [@ EXCEPT ![1] = "Del"] ELSE @]

\* One side of the Alt-Cmd swap: an if and an else-if, not an exchange.
SwapPair(mods, alt, cmd) ==
    IF alt \in mods THEN (mods \ {alt}) \cup {cmd}
    ELSE IF cmd \in mods THEN (mods \ {cmd}) \cup {alt}
    ELSE mods

SwapAltCmd(r) ==
    IF m_Settings.SwapAltCmd
      THEN [r EXCEPT !.mod = SwapPair(SwapPair(@, "LAlt", "LCmd"), "RAlt", "RCmd")]
      ELSE r

\* The report when the media break is considered.
Prepared(r) == SwapAltCmd(SpecialKeys(r))

\* Mutant of IsMediaBreak: the modifiers are taken for held keys.
IsMediaBreakAllUp(p) == m_MultimediaKeyActive /\ p.keys[1] = NoKey /\ p.mod = {}

\* The condition of the media break.
IsMediaBreak(p) == m_MultimediaKeyActive /\ p.keys[1] = NoKey

\* The condition of the Fn+[key] block.
IsFnCombination(r, p) == FnAfter(r) /\ (p.keys[1] # NoKey \/ p.mod # {})

\* The switch, for the keys that stay in a keyboard report.
FnTranslate(p) ==
    IF p.keys[1] \in DOMAIN FnKey
      THEN [p EXCEPT !.keys[1] = FnKey[@]]
      ELSE [p EXCEPT !.mod = (@ \ {"LCtrl"}) \cup {"RCtrl"}]

\* The default branch without LCtrl.
FnIgnored(p) == /\ p.keys[1] \notin DOMAIN FnKey \cup DOMAIN FnMedia
                /\ "LCtrl" \notin p.mod

\* What the host makes of a nine byte report: a keyboard report, if the report id
\* is one the gadget has declared for the keyboard (setup/raspikey_usb).
HostKeyboard(p) ==
    IF p.id = 1 THEN [host EXCEPT !.mod = p.mod, !.keys = KeysOf(p.keys)] ELSE host

Kind(p) == IF p.id = 1 THEN "keyboard" ELSE "undeclared"

-----------------------------------------------------------------------------
(* ProcessInputReport and the write of what it leaves, one action for each *)
(* way through the function.                                               *)

SuppressFnChange(r) ==
    /\ FnChanged(r)
    /\ UNCHANGED <<m_MultimediaKeyActive, host, out>>

\* Mutant of MediaBreak: the flag is not reset.
MediaBreakKeepsFlag(p) ==
    /\ IsMediaBreak(p)
    /\ host' = [host EXCEPT !.media = {}]
    /\ out' = "mediaBreak"
    /\ UNCHANGED m_MultimediaKeyActive

MediaBreak(p) ==
    /\ IsMediaBreak(p)
    /\ m_MultimediaKeyActive' = FALSE
    /\ host' = [host EXCEPT !.media = {}]
    /\ out' = "mediaBreak"

\* Mutant of MediaKey: the key's own code is sent in the media report.
MediaKeyUntranslated(r, p) ==
    /\ ~IsMediaBreak(p) /\ IsFnCombination(r, p)
    /\ p.keys[1] \in DOMAIN FnMedia
    /\ m_MultimediaKeyActive' = TRUE
    /\ host' = [host EXCEPT !.media = {p.keys[1]}]
    /\ out' = "mediaKey"

MediaKey(r, p) ==
    /\ ~IsMediaBreak(p) /\ IsFnCombination(r, p)
    /\ p.keys[1] \in DOMAIN FnMedia
    /\ m_MultimediaKeyActive' = TRUE
    /\ host' = [host EXCEPT !.media = {FnMedia[p.keys[1]]}]
    /\ out' = "mediaKey"

IgnoreFnCombination(r, p) ==
    /\ ~IsMediaBreak(p) /\ IsFnCombination(r, p)
    /\ FnIgnored(p)
    /\ UNCHANGED <<m_MultimediaKeyActive, host, out>>

SendKeys(p) ==
    /\ host' = HostKeyboard(p)
    /\ out' = Kind(p)
    /\ UNCHANGED m_MultimediaKeyActive

TranslateFnCombination(r, p) ==
    /\ ~IsMediaBreak(p) /\ IsFnCombination(r, p)
    /\ p.keys[1] \notin DOMAIN FnMedia /\ ~FnIgnored(p)
    /\ SendKeys(FnTranslate(p))

PlainKeys(r, p) ==
    /\ ~IsMediaBreak(p) /\ ~IsFnCombination(r, p)
    /\ SendKeys(p)

ProcessPrepared(r, p) ==
    \/ MediaBreak(p)
    \/ MediaKey(r, p)
    \/ IgnoreFnCombination(r, p)
    \/ TranslateFnCombination(r, p)
    \/ PlainKeys(r, p)

ProcessInputReport(r) ==
    /\ m_FakeFnActive' = FnAfter(r)
    /\ SuppressFnChange(r) \/ (~FnChanged(r) /\ ProcessPrepared(r, Prepared(r)))

-----------------------------------------------------------------------------
Init ==
    /\ kb = IdleReport
    /\ m_Settings \in Settings
    /\ m_FakeFnActive = FALSE
    /\ m_MultimediaKeyActive = FALSE
    /\ host = [mod |-> {}, keys |-> {}, media |-> {}]
    /\ out = "none"
    /\ calm = TRUE

\* The keyboard reports a change and ForwardingLoop carries it to the host.
InputReport ==
    \E r \in Reports :
        /\ kb' = r
        /\ calm' = (calm /\ OneChange(kb, r))
        /\ ProcessInputReport(r)
        /\ UNCHANGED m_Settings

\* A1644::SetSettings, from the web thread, with a document that parses; one
\* that does not changes nothing.
SetSettings ==
    /\ m_Settings' \in Settings
    /\ calm' = (calm /\ Pressed(kb) = {})
    /\ UNCHANGED <<kb, m_FakeFnActive, m_MultimediaKeyActive, host, out>>

Next == InputReport \/ SetSettings

Spec == Init /\ [][Next]_vars

-----------------------------------------------------------------------------
(* Properties.                                                             *)

Names == Keys \cup FnKeys \cup {"Del"}

\* What class A1644 keeps, and what it has made the host take to be pressed.
FilterOK ==
    /\ m_Settings \in Settings
    /\ m_FakeFnActive \in BOOLEAN
    /\ m_MultimediaKeyActive \in BOOLEAN
    /\ host \in [mod : SUBSET AllMods, keys : SUBSET Names, media : SUBSET MediaKeys]
    /\ calm \in BOOLEAN
    /\ out \in {"none", "keyboard", "mediaKey", "mediaBreak", "undeclared"}

\* The variables keep their types: the host never sees a key that is neither
\* one the user has, one of the Fn table, nor Del.
TypeOK == kb \in Reports /\ FilterOK

\* The flag that decides whether a later report is a media break says what the
\* host has: no sequence of reports and settings changes leaves a media key
\* down at the host that the filter has forgotten, or breaks one twice.
MediaFlagMatchesHost == m_MultimediaKeyActive <=> host.media # {}

NoKeyHeld(r) == r.keys = NoKeys /\ "Eject" \notin r.special

\* As long as the user has been calm: when no key is held, no media key is down
\* at the host (one that stayed down would turn the volume up for ever).
MediaReleasedWithKeys == calm /\ NoKeyHeld(kb) => host.media = {}

\* Nothing is held but the key that acts as Fn, whose changes are not sent.
Released(r) == r.keys = NoKeys /\ r.special = {} /\ r.mod \subseteq {"LCtrl"}

HostKeysUp == /\ host.keys = {}
              /\ host.mod # {} => ~m_Settings.SwapFnCtrl /\ "LCtrl" \in kb.mod

\* As long as the user has been calm: when he has let go of every key, the host
\* has every key up too, unless the last report sent was a media break, which
\* stands in for a keyboard report the host never gets: a media break is the
\* only cause of stuck keys.
KeysUpUnlessBehindBreak == calm /\ Released(kb) => HostKeysUp \/ out = "mediaBreak"

\* With the keys swapped, the flag is what the keyboard last said of LCtrl, but
\* for the first report after a change of settings.
FakeFnFollowsLCtrl ==
    calm /\ m_Settings.SwapFnCtrl =>
        (m_FakeFnActive <=> "LCtrl" \in kb.mod) \/ Pressed(kb) = {}

\* The inductive invariant.  A key that comes up reaches the host because only a
\* change of LCtrl is swallowed as a change of Fn, or a first press.
IInv ==
    /\ TypeOK
    /\ MediaFlagMatchesHost
    /\ FakeFnFollowsLCtrl
    /\ MediaReleasedWithKeys
    /\ KeysUpUnlessBehindBreak

-----------------------------------------------------------------------------
(* What comments and the documentation say, which the code does not do.    *)

\* The key that acts as Fn is held.
FnHeld(r) == IF m_Settings.SwapFnCtrl THEN "LCtrl" \in r.mod ELSE "Fn" \in r.special

\* README.md:87 and A1644.cpp:106: a function key is a media key in an
\* "Fn+[key] combination", so only while the Fn key is held.
MediaKeyNeedsFn ==
    [][host.media = {} /\ host'.media # {} => FnHeld(kb')]_vars

=============================================================================
