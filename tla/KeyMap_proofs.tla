--------------------------- MODULE KeyMap_proofs ---------------------------
(***************************************************************************)
(* Proofs about KeyMap, for every set of keys and modifiers, any number of *)
(* slots and maps of any length.                                           *)
(***************************************************************************)
EXTENDS KeyMap, WellFoundedInduction, TLAPS

\* A mapping turns a report into a report.
LEMMA RewrittenType ==
    ASSUME NEW m \in KeyMappings, NEW r \in HostReports
    PROVE  Rewritten(m, r) \in HostReports
<1> QED BY DEF Rewritten, HostReports, KeyMappings

\* What the filter returns is the report, or the report with one mapping applied,
\* the first that matches.
LEMMA ProcessCases ==
    ASSUME NEW map \in Seq(KeyMappings), NEW r
    PROVE  \/ /\ \A i \in DOMAIN map : ~IsFirstMatch(map, i, r)
              /\ ProcessInputReport(map, r) = r
           \/ \E i \in DOMAIN map : /\ IsFirstMatch(map, i, r)
                                    /\ map[i] \in KeyMappings
                                    /\ ProcessInputReport(map, r) = Rewritten(map[i], r)
<1> DEFINE first == {i \in DOMAIN map : IsFirstMatch(map, i, r)}
<1>1. CASE first = {}
  BY <1>1 DEF ProcessInputReport
<1>2. CASE first # {}
  <2> DEFINE i == CHOOSE i \in first : TRUE
  <2>1. i \in first
    BY <1>2
  <2>2. ProcessInputReport(map, r) = Rewritten(map[i], r)
    BY <1>2 DEF ProcessInputReport
  <2>3. map[i] \in KeyMappings
    BY <2>1
  <2> QED BY <2>1, <2>2, <2>3
<1> QED BY <1>1, <1>2

LEMMA ProcessType ==
    ASSUME NEW map \in Seq(KeyMappings), NEW r \in HostReports
    PROVE  ProcessInputReport(map, r) \in HostReports
<1> QED BY ProcessCases, RewrittenType

LEMMA ReportIsHostReport == Reports \subseteq HostReports
<1> QED BY DEF Reports, HostReports, KeyCodes

LEMMA InitType == Init => TypeOK
<1> SUFFICES ASSUME Init PROVE TypeOK
  OBVIOUS
<1>1. IdleReport \in Reports
  BY DEF IdleReport, Reports, Packed
<1> QED BY <1>1, ReportIsHostReport DEF Init, TypeOK

\* A prefix of a map is a map, and the filter keeps the types.
LEMMA NextType == TypeOK /\ [Next]_vars => TypeOK'
<1> SUFFICES ASSUME TypeOK, [Next]_vars PROVE TypeOK'
  OBVIOUS
<1>1. CASE InputReport
  BY <1>1, ProcessType, ReportIsHostReport DEF InputReport, TypeOK
<1>2. CASE SetSettings
  <2>0. PICK map \in Maps : \E n \in 0 .. Len(map) : m_keyMap' = SubSeq(map, 1, n)
    BY <1>2 DEF SetSettings
  <2>1. PICK n \in 0 .. Len(map) : m_keyMap' = SubSeq(map, 1, n)
    BY <2>0
  <2>2. map \in Seq(KeyMappings)
    BY <2>1, MapsAssumption
  <2>3. SubSeq(map, 1, n) \in Seq(KeyMappings)
    BY <2>1, <2>2
  <2> QED BY <1>2, <2>1, <2>3 DEF SetSettings, TypeOK
<1>3. CASE UNCHANGED vars
  BY <1>3 DEF vars, TypeOK
<1> QED BY <1>1, <1>2, <1>3 DEF Next

\* The host is always sent a report, whatever maps are put in and wherever a
\* document breaks off.
THEOREM TypeCorrect == Spec => []TypeOK
<1> QED BY InitType, NextType, PTL DEF Spec

-----------------------------------------------------------------------------
\* A report without keys is matched by no mapping, but one of the key 0.
LEMMA NoKeyNoMatch ==
    ASSUME NEW map \in Seq(KeyMappings), NEW r, KeysOf(r.keys) = {},
           ~EmptySlotMapped(map, r.mod)
    PROVE  ProcessInputReport(map, r) = r
<1>1. \A i \in DOMAIN map : ~IsFirstMatch(map, i, r)
  BY DEF IsFirstMatch, Matches, KeysOf, EmptySlotMapped
<1> QED BY <1>1, ProcessCases

\* When the user holds no key, neither does the host, and the modifiers are the
\* user's, unless the map of that moment has a mapping of the key 0: for every
\* keyboard, every map a document can hold and every moment of replacing it.
THEOREM KeysUpCorrect == Spec => []KeysUpWithKeyboard
<1>1. Init => KeysUpWithKeyboard
  BY DEF Init, KeysUpWithKeyboard
<1>2. TypeOK /\ KeysUpWithKeyboard /\ [Next]_vars => KeysUpWithKeyboard'
  <2> SUFFICES ASSUME TypeOK, KeysUpWithKeyboard, [Next]_vars
               PROVE  KeysUpWithKeyboard'
    OBVIOUS
  <2>1. CASE InputReport
    BY <2>1, NoKeyNoMatch DEF InputReport, TypeOK, KeysUpWithKeyboard
  <2>2. CASE SetSettings
    BY <2>2 DEF SetSettings, KeysUpWithKeyboard
  <2>3. CASE UNCHANGED vars
    BY <2>3 DEF vars, KeysUpWithKeyboard
  <2> QED BY <2>1, <2>2, <2>3 DEF Next
<1> QED BY <1>1, <1>2, TypeCorrect, PTL DEF Spec

-----------------------------------------------------------------------------
\* With one mapped code in the report, the mapping at which the loop over the
\* whole report returns is the first one of that key.
LEMMA FirstMatchIsOfKey ==
    ASSUME NEW map \in Seq(KeyMappings), NEW r \in Reports, NEW k \in KeyCodes,
           MappedCodes(map, r) = {k}
    PROVE  MappingOf(map, k, r.mod) = {map[i] : i \in {i \in DOMAIN map : IsFirstMatch(map, i, r)}}
<1>1. \A i \in DOMAIN map : Matches(map[i], r) <=> map[i].ikey = k /\ ModMatches(map[i], r.mod)
  BY DEF Matches, MappedCodes
<1>2. \A i \in DOMAIN map : \A j \in 1 .. i - 1 : j \in DOMAIN map
  OBVIOUS
<1>3. \A i \in DOMAIN map :
        IsFirstMatch(map, i, r) <=>
          /\ map[i].ikey = k /\ ModMatches(map[i], r.mod)
          /\ \A j \in 1 .. i - 1 : ~(map[j].ikey = k /\ ModMatches(map[j], r.mod))
  BY <1>1, <1>2 DEF IsFirstMatch
<1> QED BY <1>3 DEF MappingOf

\* The loop returns at one mapping only.
LEMMA FirstMatchUnique ==
    ASSUME NEW map \in Seq(KeyMappings), NEW r,
           NEW i \in DOMAIN map, NEW j \in DOMAIN map,
           IsFirstMatch(map, i, r), IsFirstMatch(map, j, r)
    PROVE  i = j
<1>1. i \in Nat \ {0} /\ j \in Nat \ {0}
  OBVIOUS
<1>2. ~(i < j) /\ ~(j < i)
  BY <1>1 DEF IsFirstMatch
<1> QED BY <1>1, <1>2

\* A set of numbers that is not empty has a least one.
LEMMA LeastNumber ==
    ASSUME NEW P, P \subseteq Nat, P # {}
    PROVE  \E s \in P : \A j \in P : s <= j
<1>1. \E s \in P : \A j \in P : ~(<<j, s>> \in OpToRel(<, Nat))
  BY NatLessThanWellFounded, WFMin
<1>2. PICK s \in P : \A j \in P : ~(<<j, s>> \in OpToRel(<, Nat))
  BY <1>1
<1>3. ASSUME NEW j \in P PROVE s <= j
  <2>1. ~(j < s)
    <3>1. <<j, s>> \in Nat \X Nat /\ <<j, s>>[1] = j /\ <<j, s>>[2] = s
      OBVIOUS
    <3> QED BY <1>2, <3>1 DEF OpToRel
  <2> QED BY <2>1
<1> QED BY <1>3

\* Only the mapped key is replaced: in a packed report it is in one slot.  Of the
\* empty slots the first is filled, and the others are still empty.
LEMMA RewrittenKeys ==
    ASSUME NEW m \in KeyMappings, NEW r \in Reports, m.ikey \in CodesOf(r.keys)
    PROVE  KeysOf(Rewritten(m, r).keys) = ((CodesOf(r.keys) \ {m.ikey}) \cup {m.okey}) \ {NoKey}
<1> DEFINE keys == r.keys
           new  == Rewritten(m, r).keys
<1>1. keys \in [Slot -> Keys \cup {NoKey}] /\ Packed(keys)
  BY DEF Reports
<1>2. PICK s \in Slot : /\ keys[s] = m.ikey
                        /\ \A j \in 1 .. s - 1 : keys[j] # m.ikey
  <2> DEFINE P == {i \in Slot : keys[i] = m.ikey}
  <2>1. P \subseteq Nat /\ P # {}
    BY DEF CodesOf, Slot
  <2>2. PICK s \in P : \A j \in P : s <= j
    BY <2>1, LeastNumber
  <2> QED BY <2>2, SlotsAssumption DEF Slot
<1>3. \A i \in Slot : keys[i] = m.ikey /\ i # s => m.ikey = NoKey
  <2> SUFFICES ASSUME NEW i \in Slot, keys[i] = m.ikey, i # s PROVE m.ikey = NoKey
    OBVIOUS
  <2>1. i < s \/ s < i
    BY DEF Slot
  <2> QED BY <1>1, <1>2, <2>1 DEF Packed
<1>4. \A i \in Slot : IsFirstSlot(keys, i, m.ikey) <=> i = s
  <2>1. ASSUME NEW i \in Slot, IsFirstSlot(keys, i, m.ikey) PROVE i = s
    <3>1. ~(s < i) /\ ~(i < s)
      BY <1>2, <2>1 DEF IsFirstSlot, Slot
    <3> QED BY <3>1 DEF Slot
  <2> QED BY <1>2, <2>1 DEF IsFirstSlot
<1>5. \A i \in Slot : new[i] = IF i = s THEN m.okey ELSE keys[i]
  BY <1>4 DEF Rewritten
<1> HIDE DEF keys, new
<1>6. {new[i] : i \in Slot} \ {NoKey} = (({keys[i] : i \in Slot} \ {m.ikey}) \cup {m.okey}) \ {NoKey}
  BY <1>2, <1>3, <1>5
<1> QED BY <1>6 DEF KeysOf, CodesOf, keys, new

\* A code that is mapped by nothing is itself.
LEMMA UnmappedKey ==
    ASSUME NEW map, NEW r, NEW key \in CodesOf(r.keys), key \notin MappedCodes(map, r)
    PROVE  KeyFor(map, key, r.mod) = key
<1>1. MappingOf(map, key, r.mod) = {}
  BY DEF MappingOf, MappedCodes
<1> QED BY <1>1 DEF KeyFor

\* A mapped key works whatever other keys are held, as long as nothing else in the
\* report is mapped, an empty slot included: for every map a document can hold,
\* however long, and every number of slots.
THEOREM MappedKeyCorrect == Spec => MappedKeyWorks
<1> DEFINE Works(k) ==
      /\ KeysOf(host'.keys) = KeyByKey(m_keyMap, kb')
      /\ \A m \in MappingOf(m_keyMap, k, kb'.mod) :
            host'.mod = IF m.omod = NullKeyMapping THEN kb'.mod ELSE m.omod
<1>1. ASSUME TypeOK, [Next]_vars, NEW k \in KeyCodes, kb' # kb,
             MappedCodes(m_keyMap, kb') = {k}
      PROVE  Works(k)
  <2>1. InputReport
    BY <1>1 DEF Next, SetSettings, vars
  <2> DEFINE map == m_keyMap
             r   == kb'
  <2>2. map \in Seq(KeyMappings) /\ r \in Reports /\ host' = ProcessInputReport(map, r)
    BY <1>1, <2>1 DEF InputReport, TypeOK
  <2> HIDE DEF map, r
  <2>3. MappedCodes(map, r) = {k} /\ k \in CodesOf(r.keys)
    BY <1>1 DEF MappedCodes, map, r
  <2>4. \A key \in CodesOf(r.keys) \ {k} : KeyFor(map, key, r.mod) = key
    BY <2>3, UnmappedKey
  <2>5. MappingOf(map, k, r.mod) = {map[i] : i \in {i \in DOMAIN map : IsFirstMatch(map, i, r)}}
    BY <2>2, <2>3, FirstMatchIsOfKey
  <2>6. CASE \A i \in DOMAIN map : ~IsFirstMatch(map, i, r)
    <3>1. MappingOf(map, k, r.mod) = {}
      BY <2>5, <2>6
    <3>2. host' = r
      BY <2>2, <2>6, ProcessCases
    <3>3. KeyFor(map, k, r.mod) = k
      BY <3>1 DEF KeyFor
    <3>4. KeyByKey(map, r) = KeysOf(r.keys)
      BY <2>4, <3>3 DEF KeyByKey, KeysOf, CodesOf
    <3> QED BY <3>1, <3>2, <3>4 DEF map, r
  <2>7. ASSUME NEW i \in DOMAIN map, IsFirstMatch(map, i, r), map[i] \in KeyMappings,
               host' = Rewritten(map[i], r)
        PROVE  Works(k)
    <3>1. MappingOf(map, k, r.mod) = {map[i]}
      BY <2>2, <2>5, <2>7, FirstMatchUnique
    <3>2. KeyFor(map, k, r.mod) = map[i].okey
      BY <3>1 DEF KeyFor
    <3>3. map[i].ikey = k
      BY <2>3, <2>7 DEF MappedCodes, IsFirstMatch, Matches
    <3>4. KeysOf(host'.keys) = ((CodesOf(r.keys) \ {k}) \cup {map[i].okey}) \ {NoKey}
      BY <2>2, <2>3, <2>7, <3>3, RewrittenKeys
    <3>5. KeyByKey(map, r) = ((CodesOf(r.keys) \ {k}) \cup {map[i].okey}) \ {NoKey}
      BY <2>3, <2>4, <3>2 DEF KeyByKey
    <3>6. host'.mod = IF map[i].omod = NullKeyMapping THEN r.mod ELSE map[i].omod
      BY <2>7 DEF Rewritten
    <3> QED BY <3>1, <3>4, <3>5, <3>6 DEF map, r
  <2> QED BY <2>2, <2>6, <2>7, ProcessCases
<1>2. TypeOK /\ [Next]_vars =>
        [kb' # kb => \A c \in KeyCodes : MappedCodes(m_keyMap, kb') = {c} => Works(c)]_vars
  BY <1>1
<1> QED BY <1>2, TypeCorrect, PTL DEF Spec, MappedKeyWorks
=============================================================================
