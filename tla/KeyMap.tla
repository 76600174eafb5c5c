------------------------------ MODULE KeyMap ------------------------------
(***************************************************************************)
(* The key map filter (raspikey/KeyMapReportFilter.cpp) behind the generic *)
(* filter, which passes every report: the filters ForwardingLoop runs for  *)
(* a keyboard that is not an Apple one.  Reports go through the map while  *)
(* the web thread replaces it.                                             *)
(*                                                                         *)
(* A report is its modifier byte, a set of bits, and its key slots.  Only  *)
(* reports with the id of a keyboard report and its length are modelled:   *)
(* the filter passes the others, and the host keeps them apart.            *)
(***************************************************************************)
EXTENDS Integers, Sequences

CONSTANTS
    Keys,               \* the usage codes of keys
    Mods,               \* the bits of the modifier byte (eight in the code)
    Slots,              \* how many key slots a report has (6 in the code)
    NoKey,              \* the usage code 0: an empty slot
    NullKey,            \* 0xff, what a null in place of a key is stored as
    Maps                \* the key maps the user has at hand

Slot == 1 .. Slots

\* null in place of modifiers, stored as 0xff: all bits.
NullKeyMapping == Mods

KeyCodes == Keys \cup {NoKey, NullKey}

\* Any number of eight bits is taken for either key, 0 and a null among them.
KeyMappings == [imod : SUBSET Mods, ikey : KeyCodes, omod : SUBSET Mods, okey : KeyCodes]

ASSUME SlotsAssumption == Slots \in Nat \ {0}
ASSUME NoKeyAssumption == NoKey \notin Keys /\ NullKey \notin Keys /\ NullKey # NoKey
ASSUME MapsAssumption  == Maps \subseteq Seq(KeyMappings)

CodesOf(keys) == {keys[i] : i \in Slot}
KeysOf(keys)  == CodesOf(keys) \ {NoKey}

\* The pressed keys fill the slots from the first on, each once.
Packed(keys) == \A i, j \in Slot : i < j /\ keys[j] # NoKey =>
                                     keys[i] \notin {NoKey, keys[j]}

Reports == [mod : SUBSET Mods, keys : {k \in [Slot -> Keys \cup {NoKey}] : Packed(k)}]

IdleReport == [mod |-> {}, keys |-> [i \in Slot |-> NoKey]]

VARIABLES
    kb,                 \* the last report the keyboard has sent
    m_keyMap,           \* the mappings in use, in order
    host,               \* the last report the host has got
    applied             \* the map that report has gone through

vars == <<kb, m_keyMap, host, applied>>

-----------------------------------------------------------------------------
(* KeyMapReportFilter::ProcessInputReport.                                 *)

\* The modifiers held are those of the mapping, or it does not care.
ModMatches(mapping, mod) == mapping.imod = NullKeyMapping \/ mapping.imod \subseteq mod

\* Mutant of Matches: with no key down a mapping applies for its modifiers.
MatchesByModifiers(mapping, r) ==
    ModMatches(mapping, r.mod) /\ (KeysOf(r.keys) = {} \/ mapping.ikey \in CodesOf(r.keys))

\* Some slot has the mapping's key, too; an empty slot has the key 0.
Matches(mapping, r) == ModMatches(mapping, r.mod) /\ mapping.ikey \in CodesOf(r.keys)

\* The mapping at which the loop returns.
IsFirstMatch(map, i, r) == /\ Matches(map[i], r)
                           /\ \A j \in 1 .. i - 1 : ~Matches(map[j], r)

\* Mutant of IsFirstSlot: the search starts behind the first slot.
IsFirstSlotButOne(keys, k, key) == /\ k > 1 /\ keys[k] = key
                                   /\ \A j \in 1 .. k - 1 : keys[j] # key

\* The slot that is rewritten.
IsFirstSlot(keys, k, key) == /\ keys[k] = key
                             /\ \A j \in 1 .. k - 1 : keys[j] # key

\* Mutant of Rewritten: the loop over the slots goes one too far.
RewrittenOneTooFar(mapping, r) ==
    [mod  |-> IF mapping.omod = NullKeyMapping THEN r.mod ELSE mapping.omod,
     keys |-> [k \in 1 .. Slots + 1 |-> IF k \notin Slot \/ IsFirstSlot(r.keys, k, mapping.ikey)
                                          THEN mapping.okey ELSE r.keys[k]]]

Rewritten(mapping, r) ==
    [mod  |-> IF mapping.omod = NullKeyMapping THEN r.mod ELSE mapping.omod,
     keys |-> [k \in Slot |-> IF IsFirstSlot(r.keys, k, mapping.ikey)
                                THEN mapping.okey ELSE r.keys[k]]]

ProcessInputReport(map, r) ==
    LET first == {i \in DOMAIN map : IsFirstMatch(map, i, r)}
    IN  IF first = {} THEN r
        ELSE Rewritten(map[CHOOSE i \in first : TRUE], r)

-----------------------------------------------------------------------------
Init ==
    /\ kb = IdleReport
    /\ m_keyMap = <<>>
    /\ host = kb
    /\ applied = m_keyMap

\* A report is read, filtered and written to the host.
InputReport ==
    \E r \in Reports :
        /\ kb' = r
        /\ host' = ProcessInputReport(m_keyMap, r)
        /\ applied' = m_keyMap
        /\ UNCHANGED m_keyMap

\* SetSettings, from the web thread: what was there is cleared, and the entries
\* of the document go in one by one up to the first that is malformed.  The key
\* map of a session that begins, and its deletion, are set the same way.
SetSettings ==
    /\ \E map \in Maps : \E n \in 0 .. Len(map) : m_keyMap' = SubSeq(map, 1, n)
    /\ UNCHANGED <<kb, host, applied>>

Next == InputReport \/ SetSettings

Spec == Init /\ [][Next]_vars

-----------------------------------------------------------------------------
(* Properties.                                                             *)

HostReports == [mod : SUBSET Mods, keys : [Slot -> KeyCodes]]

\* The variables keep their types: what is written has the length of a report, in
\* each slot a key, none, or the null of a mapping without okey (line 73).
TypeOK ==
    /\ kb \in Reports
    /\ {m_keyMap, applied} \subseteq Seq(KeyMappings)
    /\ host \in HostReports

\* A mapping of the key 0 is in the map, for these modifiers.
EmptySlotMapped(map, mod) ==
    \E i \in DOMAIN map : map[i].ikey = NoKey /\ ModMatches(map[i], mod)

\* When the user holds no ordinary key the host has none, and the modifiers it
\* has are those the user holds: no map, and no map replaced with keys down,
\* leaves a key or an omod behind at the host (KeyMapReportFilter.cpp:68-76).
\* The exception is a mapping of the key 0, which is not refused, nor is "0x100",
\* of which 0 is left (line 18): it takes an empty slot for a key that is held.
KeysUpWithKeyboard ==
    KeysOf(kb.keys) = {} => host = kb \/ EmptySlotMapped(applied, kb.mod)

\* The codes in the report that some mapping of the map applies to; an empty slot
\* counts, for it is compared like any other.
MappedCodes(map, r) == {c \in CodesOf(r.keys) :
                          \E i \in DOMAIN map : map[i].ikey = c /\ ModMatches(map[i], r.mod)}

\* What a code by itself is turned into: a reference definition, key by key,
\* that knows of no report.
MappingOf(map, code, mod) ==
    {map[i] : i \in {i \in DOMAIN map :
        /\ map[i].ikey = code /\ ModMatches(map[i], mod)
        /\ \A j \in 1 .. i - 1 : ~(map[j].ikey = code /\ ModMatches(map[j], mod))}}

KeyFor(map, code, mod) == IF \E m \in MappingOf(map, code, mod) : TRUE
                            THEN (CHOOSE m \in MappingOf(map, code, mod) : TRUE).okey
                            ELSE code

\* The report as the reference has it: every code turned into its own.
KeyByKey(map, r) == {KeyFor(map, c, r.mod) : c \in CodesOf(r.keys)} \ {NoKey}

\* A mapped key works in whatever company: as long as nothing else in the report
\* is mapped, no second key and no empty slot by a mapping of the key 0, the
\* host gets every key as the map has it, in any slot and next to any others, with
\* the omod of its mapping.  The same holds of the empty slot, if it is mapped.
MappedKeyWorks ==
    [][kb' # kb => \A c \in KeyCodes : MappedCodes(m_keyMap, kb') = {c} =>
         /\ KeysOf(host'.keys) = KeyByKey(m_keyMap, kb')
         /\ \A m \in MappingOf(m_keyMap, c, kb'.mod) :
               host'.mod = IF m.omod = NullKeyMapping THEN kb'.mod ELSE m.omod]_vars
=============================================================================
