---------------------------- MODULE A1644_proofs ----------------------------
(***************************************************************************)
(* Proofs about A1644, and about A1314, which has class A1644 process the  *)
(* reports that it merges: for every set of keys, modifiers and slots.     *)
(***************************************************************************)
EXTENDS A1314, TLAPS

\* What is said of the fields of a report holds of a merged one, too.
LEMMA MergedFields ==
    ASSUME NEW r \in MergedReports
    PROVE  /\ r.id \in {0, 1}
           /\ r.mod \in SUBSET Mods
           /\ r.keys \in [Slot -> Keys \cup {NoKey}] /\ Packed(r.keys)
           /\ r.special \in SUBSET Specials
           /\ DOMAIN r = {"id", "mod", "keys", "special"}
           /\ r.id = 1 => r \in Reports
<1>1. PICK s \in Reports, i \in {0, 1} : r = [s EXCEPT !.id = i]
  BY DEF MergedReports
<1> QED BY <1>1 DEF Reports

LEMMA MergedFromReport ==
    ASSUME NEW r, NEW s \in Reports, NEW i \in {0, 1}, r = [s EXCEPT !.id = i]
    PROVE  r \in MergedReports
<1> DEFINE F(a, b) == [a EXCEPT !.id = b]
<1>1. r = F(s, i)
  OBVIOUS
<1>2. MergedReports = {F(a, b) : a \in Reports, b \in {0, 1}}
  BY DEF MergedReports
<1> HIDE DEF F
<1> QED BY <1>1, <1>2

LEMMA ReportsAreMerged == Reports \subseteq MergedReports
<1> SUFFICES ASSUME NEW r \in Reports PROVE r \in MergedReports
  OBVIOUS
<1>1. r = [r EXCEPT !.id = 1]
  BY DEF Reports
<1> QED BY <1>1, MergedFromReport

\* What the filter hands on is typed: SpecialKeys and SwapAltCmd keep the
\* modifiers modifiers and the slots slots.
LEMMA PreparedType ==
    ASSUME NEW r \in MergedReports
    PROVE  /\ Prepared(r).id = r.id
           /\ Prepared(r).mod \in SUBSET AllMods
           /\ Prepared(r).keys \in [Slot -> Keys \cup {NoKey, "Del"}]
           /\ DOMAIN Prepared(r) = {"id", "mod", "keys", "special"}
<1>1. /\ r.mod \in SUBSET AllMods
      /\ r.keys \in [Slot -> Keys \cup {NoKey}]
      /\ DOMAIN r = {"id", "mod", "keys", "special"}
  BY MergedFields, ModsAssumption
<1>2. \A mods \in SUBSET AllMods :
         /\ SwapPair(mods, "LAlt", "LCmd") \in SUBSET AllMods
         /\ SwapPair(mods, "RAlt", "RCmd") \in SUBSET AllMods
  BY DEF SwapPair, AllMods
<1>3. /\ SpecialKeys(r).id = r.id
      /\ SpecialKeys(r).mod \in SUBSET AllMods
      /\ SpecialKeys(r).keys \in [Slot -> Keys \cup {NoKey, "Del"}]
      /\ DOMAIN SpecialKeys(r) = {"id", "mod", "keys", "special"}
  <2>1. {m \in {"LCtrl"} : "Fn" \in r.special} \subseteq AllMods
    BY DEF AllMods
  <2> QED BY <1>1, <2>1 DEF SpecialKeys
<1> QED BY <1>2, <1>3 DEF Prepared, SwapAltCmd

\* The switch of the Fn block maps Key1 within the names the host may see, and
\* its default branch trades one modifier for another.
LEMMA FnTranslateType ==
    ASSUME NEW r \in MergedReports,
           Prepared(r).keys[1] \in DOMAIN FnKey \/ "LCtrl" \in Prepared(r).mod
    PROVE  /\ FnTranslate(Prepared(r)).id = r.id
           /\ FnTranslate(Prepared(r)).mod \in SUBSET AllMods
           /\ FnTranslate(Prepared(r)).keys \in [Slot -> Names \cup {NoKey}]
<1> DEFINE p == Prepared(r)
<1>1. /\ p.id = r.id
      /\ p.mod \in SUBSET AllMods
      /\ p.keys \in [Slot -> Keys \cup {NoKey, "Del"}]
      /\ DOMAIN p = {"id", "mod", "keys", "special"}
  BY PreparedType
<1> HIDE DEF p
<1>2. Keys \cup {NoKey, "Del"} \subseteq Names \cup {NoKey}
  BY DEF Names
<1>3. CASE p.keys[1] \in DOMAIN FnKey
  <2>1. FnKey[p.keys[1]] \in Names
    BY <1>3 DEF Names, FnKeys
  <2>2. FnTranslate(p) = [p EXCEPT !.keys[1] = FnKey[@]]
    BY <1>3 DEF FnTranslate
  <2>3. /\ FnTranslate(p).id = p.id
        /\ FnTranslate(p).mod = p.mod
        /\ FnTranslate(p).keys = [p.keys EXCEPT ![1] = FnKey[p.keys[1]]]
    BY <2>2, <1>1
  <2> QED BY <2>1, <2>3, <1>1, <1>2 DEF p
<1>4. CASE p.keys[1] \notin DOMAIN FnKey
  <2>1. FnTranslate(p) = [p EXCEPT !.mod = (@ \ {"LCtrl"}) \cup {"RCtrl"}]
    BY <1>4 DEF FnTranslate
  <2>2. /\ FnTranslate(p).id = p.id
        /\ FnTranslate(p).mod = (p.mod \ {"LCtrl"}) \cup {"RCtrl"}
        /\ FnTranslate(p).keys = p.keys
    BY <2>1, <1>1
  <2> QED BY <2>2, <1>1, <1>2 DEF p, AllMods
<1> QED BY <1>3, <1>4

\* A new filter and an idle keyboard have the right types.
LEMMA InitType == Init => TypeOK
<1> SUFFICES ASSUME Init PROVE TypeOK
  OBVIOUS
<1>1. IdleReport \in Reports
  BY DEF IdleReport, Reports, NoKeys, Packed
<1>2. host \in [mod : SUBSET AllMods, keys : SUBSET Names, media : SUBSET MediaKeys]
  BY DEF Init
<1> QED BY <1>1, <1>2 DEF Init, TypeOK, FilterOK

\* Every way through ProcessInputReport keeps the types.
LEMMA ProcessType ==
    ASSUME FilterOK, NEW r \in MergedReports, ProcessInputReport(r),
           UNCHANGED m_Settings, calm' \in BOOLEAN
    PROVE  FilterOK'
<1> DEFINE p == Prepared(r)
<1>1. /\ p.mod \in SUBSET AllMods
      /\ p.keys \in [Slot -> Keys \cup {NoKey, "Del"}]
  BY PreparedType
<1> HIDE DEF p
<1>2. FnAfter(r) \in BOOLEAN
  <2>1. m_FakeFnActive \in BOOLEAN
    BY DEF FilterOK
  <2>2. CASE m_Settings.SwapFnCtrl
    <3>1. FnAfter(r) = ("LCtrl" \in r.mod)
      BY <2>2 DEF FnAfter
    <3> QED BY <3>1
  <2>3. CASE ~m_Settings.SwapFnCtrl
    BY <2>1, <2>3, Zenon DEF FnAfter
  <2> QED BY <2>2, <2>3
<1>3. /\ m_Settings' \in Settings /\ calm' \in BOOLEAN /\ m_FakeFnActive' \in BOOLEAN
  BY <1>2 DEF FilterOK, ProcessInputReport
<1>4. \A mod \in SUBSET AllMods, keys \in [Slot -> Names \cup {NoKey}] :
        [host EXCEPT !.mod = mod, !.keys = KeysOf(keys)]
          \in [mod : SUBSET AllMods, keys : SUBSET Names, media : SUBSET MediaKeys]
  BY DEF FilterOK, KeysOf
<1>0. ASSUME NEW q, q.mod \in SUBSET AllMods, q.keys \in [Slot -> Names \cup {NoKey}],
             SendKeys(q)
      PROVE  host' \in [mod : SUBSET AllMods, keys : SUBSET Names, media : SUBSET MediaKeys]
  <2>1. CASE q.id = 1
    BY <1>4, <1>0, <2>1 DEF SendKeys, HostKeyboard
  <2>2. CASE q.id # 1
    BY <1>0, <2>2 DEF SendKeys, HostKeyboard, FilterOK
  <2> QED BY <2>1, <2>2
<1>5. \A media \in SUBSET MediaKeys :
        [host EXCEPT !.media = media]
          \in [mod : SUBSET AllMods, keys : SUBSET Names, media : SUBSET MediaKeys]
  BY DEF FilterOK
<1>6. CASE SuppressFnChange(r)
  BY <1>3, <1>6 DEF SuppressFnChange, FilterOK
<1>7. CASE MediaBreak(p)
  BY <1>3, <1>5, <1>7 DEF MediaBreak, FilterOK
<1>8. CASE MediaKey(r, p)
  <2>1. p.keys[1] \in DOMAIN FnMedia
    BY <1>8 DEF MediaKey
  <2>2. {FnMedia[p.keys[1]]} \in SUBSET MediaKeys
    BY <2>1 DEF MediaKeys
  <2>3. host' = [host EXCEPT !.media = {FnMedia[p.keys[1]]}]
    BY <1>8 DEF MediaKey
  <2> QED BY <1>3, <1>5, <1>8, <2>2, <2>3 DEF MediaKey, FilterOK
<1>9. CASE IgnoreFnCombination(r, p)
  BY <1>3, <1>9 DEF IgnoreFnCombination, FilterOK
<1>10. CASE TranslateFnCombination(r, p)
  <2>1. p.keys[1] \in DOMAIN FnKey \/ "LCtrl" \in p.mod
    BY <1>10 DEF TranslateFnCombination, FnIgnored
  <2>2. host' \in [mod : SUBSET AllMods, keys : SUBSET Names, media : SUBSET MediaKeys]
    BY <1>0, <1>10, <2>1, FnTranslateType DEF TranslateFnCombination, p
  <2> QED BY <1>3, <1>10, <2>2 DEF TranslateFnCombination, SendKeys, Kind, FilterOK
<1>11. CASE PlainKeys(r, p)
  <2>1. p.keys \in [Slot -> Names \cup {NoKey}]
    BY <1>1 DEF Names
  <2>2. host' \in [mod : SUBSET AllMods, keys : SUBSET Names, media : SUBSET MediaKeys]
    BY <1>0, <1>1, <1>11, <2>1 DEF PlainKeys
  <2> QED BY <1>3, <1>11, <2>2 DEF PlainKeys, SendKeys, Kind, FilterOK
<1> QED BY <1>6, <1>7, <1>8, <1>9, <1>10, <1>11
       DEF ProcessInputReport, ProcessPrepared, p

\* So do the steps of the filter.
LEMMA NextType == TypeOK /\ [Next]_vars => TypeOK'
<1> SUFFICES ASSUME TypeOK, [Next]_vars PROVE TypeOK'
  OBVIOUS
<1>1. CASE InputReport
  <2>1. PICK r \in Reports : /\ kb' = r /\ calm' = (calm /\ OneChange(kb, r))
                             /\ ProcessInputReport(r) /\ UNCHANGED m_Settings
    BY <1>1 DEF InputReport
  <2>2. calm' \in BOOLEAN
    BY <2>1 DEF TypeOK, FilterOK
  <2> QED BY <2>1, <2>2, ProcessType, ReportsAreMerged DEF TypeOK
<1>2. CASE SetSettings
  BY <1>2 DEF SetSettings, TypeOK, FilterOK
<1>3. CASE UNCHANGED vars
  BY <1>3 DEF vars, TypeOK, FilterOK
<1> QED BY <1>1, <1>2, <1>3 DEF Next

\* Every variable keeps its type: whatever the keyboard reports and whenever
\* the settings change, only keys of the user, of the Fn table, or Del reach
\* the host.
THEOREM TypeCorrect == Spec => []TypeOK
<1> QED BY InitType, NextType, PTL DEF Spec

-----------------------------------------------------------------------------
(* The media flag and the keys that come up.                               *)

\* A report with no key, and no Eject that would become Del, is prepared with
\* no key: this is what the media break looks at.
LEMMA PreparedNoKey ==
    ASSUME NEW r \in MergedReports, NoKeyHeld(r)
    PROVE  Prepared(r).keys = NoKeys
<1>1. DOMAIN r = {"id", "mod", "keys", "special"}
  BY MergedFields
<1>2. /\ SpecialKeys(r).keys = NoKeys
      /\ DOMAIN SpecialKeys(r) = {"id", "mod", "keys", "special"}
  BY <1>1 DEF SpecialKeys, NoKeyHeld
<1> QED BY <1>2 DEF Prepared, SwapAltCmd

\* When nothing but LCtrl may be held, preparing the report clears LCtrl if it
\* acts as Fn and changes nothing else.
LEMMA PreparedReleased ==
    ASSUME NEW r \in MergedReports, Released(r)
    PROVE  /\ Prepared(r).keys = NoKeys
           /\ Prepared(r).mod = IF m_Settings.SwapFnCtrl THEN {} ELSE r.mod
<1>1. DOMAIN r = {"id", "mod", "keys", "special"}
  BY MergedFields
<1>2. /\ SpecialKeys(r).mod = IF m_Settings.SwapFnCtrl THEN {} ELSE r.mod
      /\ DOMAIN SpecialKeys(r) = {"id", "mod", "keys", "special"}
  BY <1>1 DEF SpecialKeys, Released
<1>3. \A mods \in SUBSET {"LCtrl"} :
         SwapPair(SwapPair(mods, "LAlt", "LCmd"), "RAlt", "RCmd") = mods
  BY DEF SwapPair
<1>4. SpecialKeys(r).mod \in SUBSET {"LCtrl"}
  BY <1>2 DEF Released
<1>5. Prepared(r).mod = SpecialKeys(r).mod
  BY <1>2, <1>3, <1>4 DEF Prepared, SwapAltCmd
<1> QED BY <1>2, <1>5, PreparedNoKey DEF Released, NoKeyHeld

\* No slot holds a key exactly when the set of keys held is empty.
LEMMA KeysOfNone ==
    ASSUME NEW r \in MergedReports
    PROVE  KeysOf(r.keys) = {} <=> r.keys = NoKeys
<1>1. r.keys \in [Slot -> Keys \cup {NoKey}]
  BY MergedFields
<1>2. ASSUME KeysOf(r.keys) = {} PROVE r.keys = NoKeys
  <2>1. \A i \in Slot : r.keys[i] = NoKey
    BY <1>2 DEF KeysOf
  <2> QED BY <1>1, <2>1 DEF NoKeys
<1> QED BY <1>1, <1>2 DEF KeysOf, NoKeys

\* If one report shows one change, and LCtrl changed, nothing else did.
LEMMA OnlyLCtrlChanged ==
    ASSUME NEW r1 \in MergedReports, NEW r2 \in MergedReports, OneChange(r1, r2),
           ~("LCtrl" \in r1.mod <=> "LCtrl" \in r2.mod)
    PROVE  /\ KeysOf(r1.keys) = KeysOf(r2.keys)
           /\ r1.special = r2.special
           /\ r1.mod \ {"LCtrl"} = r2.mod \ {"LCtrl"}
<1>1. \A r \in MergedReports : /\ KeysOf(r.keys) \subseteq Keys
                               /\ r.mod \subseteq Mods
                               /\ r.special \subseteq Specials
  BY MergedFields DEF KeysOf
<1>2. "LCtrl" \in Mods /\ "LCtrl" \notin Keys \cup Specials
  BY ModsAssumption, DisjointAssumption
<1>3. Pressed(r1) \ {"LCtrl"} = Pressed(r2) \ {"LCtrl"}
  <2>1. ~("LCtrl" \in Pressed(r1) <=> "LCtrl" \in Pressed(r2))
    BY <1>1, <1>2 DEF Pressed
  <2> QED BY <2>1 DEF OneChange
<1>4. \A r \in MergedReports :
         /\ KeysOf(r.keys) = (Pressed(r) \ {"LCtrl"}) \cap Keys
         /\ r.special = (Pressed(r) \ {"LCtrl"}) \cap Specials
         /\ r.mod \ {"LCtrl"} = (Pressed(r) \ {"LCtrl"}) \cap Mods
  BY <1>1, <1>2, DisjointAssumption DEF Pressed
<1> QED BY <1>3, <1>4

\* m_MultimediaKeyActive and the host's media key change together in every way
\* through ProcessInputReport.
LEMMA InputReportKeepsMediaFlag ==
    ASSUME FilterOK, MediaFlagMatchesHost, NEW r \in MergedReports, ProcessInputReport(r)
    PROVE  MediaFlagMatchesHost'
<1>1. host.media = {} \/ host.media # {}
  OBVIOUS
<1>2. DOMAIN host = {"mod", "keys", "media"}
  BY DEF FilterOK
<1> DEFINE p == Prepared(r)
<1> HIDE DEF p
<1>3. CASE SuppressFnChange(r)
  BY <1>3 DEF SuppressFnChange, MediaFlagMatchesHost
<1>4. CASE MediaBreak(p)
  <2>1. host'.media = {}
    BY <1>2, <1>4 DEF MediaBreak
  <2> QED BY <1>4, <2>1 DEF MediaBreak, MediaFlagMatchesHost
<1>5. CASE MediaKey(r, p)
  <2>1. host'.media = {FnMedia[p.keys[1]]}
    BY <1>2, <1>5 DEF MediaKey
  <2> QED BY <1>5, <2>1 DEF MediaKey, MediaFlagMatchesHost
<1>6. CASE IgnoreFnCombination(r, p)
  BY <1>6 DEF IgnoreFnCombination, MediaFlagMatchesHost
<1>7. ASSUME NEW q, SendKeys(q) PROVE MediaFlagMatchesHost'
  <2>1. host'.media = host.media
    BY <1>2, <1>7 DEF SendKeys, HostKeyboard
  <2> QED BY <1>7, <2>1 DEF SendKeys, MediaFlagMatchesHost
<1>8. CASE TranslateFnCombination(r, p)
  BY <1>7, <1>8 DEF TranslateFnCombination
<1>9. CASE PlainKeys(r, p)
  BY <1>7, <1>9 DEF PlainKeys
<1> QED BY <1>3, <1>4, <1>5, <1>6, <1>8, <1>9 DEF ProcessInputReport, ProcessPrepared, p

\* With the keys swapped, m_FakeFnActive follows LCtrl through every report.
LEMMA InputReportKeepsFnFlag ==
    ASSUME NEW r \in MergedReports, ProcessInputReport(r), kb' = r, UNCHANGED m_Settings
    PROVE  FakeFnFollowsLCtrl'
<1> QED BY DEF ProcessInputReport, FnAfter, FakeFnFollowsLCtrl

\* A report with nothing held clears the host's keys, unless it becomes a media
\* break: the case that the swap block swallows it is the one where LCtrl alone
\* changed, so that the report before had already said all else.
LEMMA InputReportReleases ==
    ASSUME FilterOK, kb \in MergedReports, MediaFlagMatchesHost, FakeFnFollowsLCtrl,
           MediaReleasedWithKeys, KeysUpUnlessBehindBreak,
           NEW r \in Reports, calm, OneChange(kb, r) \/ r = kb, ProcessInputReport(r),
           kb' = r, UNCHANGED m_Settings
    PROVE  MediaReleasedWithKeys' /\ KeysUpUnlessBehindBreak'
<1> DEFINE p == Prepared(r)
<1>0. r \in MergedReports /\ r.id = 1
  BY ReportsAreMerged DEF Reports
<1>1. NoKey \notin DOMAIN FnKey \cup DOMAIN FnMedia
  BY DEF NoKey, FnKey, FnMedia
<1>2. NoKeys[1] = NoKey
  BY SlotsAssumption DEF NoKeys, Slot
<1>3. NoKeyHeld(r) => p.keys[1] = NoKey
  BY <1>0, <1>2, PreparedNoKey
<1>4. Released(r) => /\ p.keys = NoKeys
                     /\ p.keys[1] = NoKey
                     /\ p.mod = IF m_Settings.SwapFnCtrl THEN {} ELSE r.mod
                     /\ r.mod \subseteq {"LCtrl"}
  BY <1>0, <1>2, PreparedReleased DEF Released
<1>5. DOMAIN host = {"mod", "keys", "media"}
  BY DEF FilterOK
<1>6. KeysOf(NoKeys) = {}
  BY DEF KeysOf, NoKeys
<1>7. ASSUME NoKeyHeld(r), ~IsMediaBreak(p) PROVE host.media = {}
  BY <1>3, <1>7 DEF IsMediaBreak, MediaFlagMatchesHost
<1> HIDE DEF p
<1>8. CASE SuppressFnChange(r)
  <2>1. m_Settings.SwapFnCtrl
    BY <1>8 DEF SuppressFnChange, FnChanged
  <2>2. ASSUME Pressed(kb) = {}
       PROVE  (NoKeyHeld(r) => NoKeyHeld(kb)) /\ (Released(r) => Released(kb))
    <3>1. kb.keys = NoKeys /\ kb.mod = {} /\ kb.special = {}
      BY <2>2, KeysOfNone DEF Pressed
    <3> QED BY <3>1 DEF NoKeyHeld, Released
  <2>3. ASSUME ~("LCtrl" \in kb.mod <=> "LCtrl" \in r.mod)
       PROVE  (NoKeyHeld(r) => NoKeyHeld(kb)) /\ (Released(r) => Released(kb))
    <3>1. /\ KeysOf(kb.keys) = KeysOf(r.keys)
          /\ kb.special = r.special
          /\ kb.mod \ {"LCtrl"} = r.mod \ {"LCtrl"}
      BY <1>0, <2>3, OnlyLCtrlChanged
    <3>2. kb.keys = NoKeys <=> r.keys = NoKeys
      BY <1>0, <3>1, KeysOfNone
    <3> QED BY <3>1, <3>2 DEF NoKeyHeld, Released
  <2>4. Pressed(kb) = {} \/ ~("LCtrl" \in kb.mod <=> "LCtrl" \in r.mod)
    BY <1>8, <2>1 DEF FilterOK, SuppressFnChange, FnChanged, FakeFnFollowsLCtrl
  <2>5. (NoKeyHeld(r) => NoKeyHeld(kb)) /\ (Released(r) => Released(kb))
    BY <2>2, <2>3, <2>4
  <2>6. UNCHANGED <<host, out>>
    BY <1>8 DEF SuppressFnChange
  <2>7. HostKeysUp => HostKeysUp'
    BY <2>1, <2>6 DEF HostKeysUp
  <2> QED BY <2>5, <2>6, <2>7 DEF MediaReleasedWithKeys, KeysUpUnlessBehindBreak
<1>9. CASE MediaBreak(p)
  BY <1>5, <1>9 DEF MediaBreak, MediaReleasedWithKeys, KeysUpUnlessBehindBreak
<1>10. CASE MediaKey(r, p)
  <2>1. p.keys[1] # NoKey
    BY <1>1, <1>10 DEF MediaKey
  <2>2. ~NoKeyHeld(r) /\ ~Released(r)
    BY <1>3, <1>4, <2>1 DEF p
  <2> QED BY <2>2 DEF MediaReleasedWithKeys, KeysUpUnlessBehindBreak
<1>11. CASE IgnoreFnCombination(r, p)
  <2>1. /\ ~IsMediaBreak(p)
        /\ p.keys[1] # NoKey \/ p.mod # {}
        /\ "LCtrl" \notin p.mod
        /\ UNCHANGED host
    BY <1>11 DEF IgnoreFnCombination, IsFnCombination, FnIgnored
  <2>2. ~Released(r)
    BY <1>4, <2>1 DEF p
  <2> QED BY <1>7, <2>1, <2>2 DEF MediaReleasedWithKeys, KeysUpUnlessBehindBreak, p
<1>12. ASSUME NEW q, q.id = 1, SendKeys(q), ~IsMediaBreak(p),
              Released(r) => /\ q.keys = NoKeys
                             /\ q.mod # {} => ~m_Settings.SwapFnCtrl /\ "LCtrl" \in r.mod
       PROVE  MediaReleasedWithKeys' /\ KeysUpUnlessBehindBreak'
  <2>1. /\ host'.media = host.media
        /\ host'.keys = KeysOf(q.keys)
        /\ host'.mod = q.mod
    BY <1>5, <1>12 DEF SendKeys, HostKeyboard
  <2>2. Released(r) => HostKeysUp'
    BY <1>6, <1>12, <2>1 DEF HostKeysUp
  <2> QED BY <1>7, <1>12, <2>1, <2>2 DEF MediaReleasedWithKeys, KeysUpUnlessBehindBreak, p
<1>13. CASE TranslateFnCombination(r, p)
  <2>1. /\ SendKeys(FnTranslate(p))
        /\ ~IsMediaBreak(p)
        /\ p.keys[1] # NoKey \/ p.mod # {}
    BY <1>13 DEF TranslateFnCombination, IsFnCombination
  <2>2. ASSUME Released(r)
        PROVE  /\ FnTranslate(p).keys = NoKeys
               /\ ~m_Settings.SwapFnCtrl /\ "LCtrl" \in r.mod
    <3>1. DOMAIN p = {"id", "mod", "keys", "special"}
      BY <1>0, PreparedType DEF p
    <3>2. p.keys = NoKeys /\ p.keys[1] = NoKey
      BY <1>4, <2>2 DEF p
    <3>3. FnTranslate(p).keys = p.keys
      BY <1>1, <3>1, <3>2 DEF FnTranslate
    <3> QED BY <1>4, <2>1, <2>2, <3>2, <3>3 DEF p
  <2>3. FnTranslate(p).id = 1
    BY <1>0, <1>13, FnTranslateType DEF TranslateFnCombination, FnIgnored, p
  <2> QED BY <1>12, <2>1, <2>2, <2>3
<1>14. CASE PlainKeys(r, p)
  <2>1. SendKeys(p) /\ ~IsMediaBreak(p)
    BY <1>14 DEF PlainKeys
  <2>2. Released(r) => /\ p.keys = NoKeys
                       /\ p.mod # {} => ~m_Settings.SwapFnCtrl /\ "LCtrl" \in r.mod
    BY <1>4 DEF p
  <2>3. p.id = 1
    BY <1>0, PreparedType DEF p
  <2> QED BY <1>12, <2>1, <2>2, <2>3
<1> QED BY <1>8, <1>9, <1>10, <1>11, <1>13, <1>14
     DEF ProcessInputReport, ProcessPrepared, p

\* New settings found while keys are held end the calm; otherwise what is said of a
\* filter with no key held is said of it still.
LEMMA SetSettingsKeeps ==
    ASSUME FilterOK, MediaFlagMatchesHost, FakeFnFollowsLCtrl, MediaReleasedWithKeys,
           KeysUpUnlessBehindBreak, SetSettings
    PROVE  FilterOK' /\ MediaFlagMatchesHost' /\ FakeFnFollowsLCtrl'
             /\ MediaReleasedWithKeys' /\ KeysUpUnlessBehindBreak'
<1>1. /\ UNCHANGED <<kb, m_FakeFnActive, m_MultimediaKeyActive, host, out>>
      /\ calm' => calm /\ Pressed(kb) = {}
  BY DEF SetSettings
<1>2. FilterOK'
  BY DEF SetSettings, FilterOK
<1>3. MediaFlagMatchesHost' /\ MediaReleasedWithKeys' /\ FakeFnFollowsLCtrl'
  BY <1>1 DEF MediaFlagMatchesHost, MediaReleasedWithKeys, NoKeyHeld,
              FakeFnFollowsLCtrl, Pressed
<1>4. KeysUpUnlessBehindBreak'
  <2> SUFFICES ASSUME calm', Released(kb)', ~(out = "mediaBreak")' PROVE HostKeysUp'
    BY DEF KeysUpUnlessBehindBreak
  <2>1. HostKeysUp /\ "LCtrl" \notin kb.mod
    BY <1>1 DEF KeysUpUnlessBehindBreak, Released, Pressed
  <2> QED BY <1>1, <2>1 DEF HostKeysUp
<1> QED BY <1>2, <1>3, <1>4

LEMMA StutterKeeps ==
    ASSUME FilterOK, MediaFlagMatchesHost, FakeFnFollowsLCtrl, MediaReleasedWithKeys,
           KeysUpUnlessBehindBreak, UNCHANGED vars
    PROVE  FilterOK' /\ MediaFlagMatchesHost' /\ FakeFnFollowsLCtrl'
             /\ MediaReleasedWithKeys' /\ KeysUpUnlessBehindBreak'
<1> QED BY DEF vars, FilterOK, MediaFlagMatchesHost, FakeFnFollowsLCtrl,
               MediaReleasedWithKeys, NoKeyHeld, Released, Pressed,
               KeysUpUnlessBehindBreak, HostKeysUp

\* The inductive invariant holds of every behaviour of the filter.
LEMMA Invariance == Spec => []IInv
<1>1. Init => IInv
  <2> SUFFICES ASSUME Init, TypeOK PROVE IInv
    BY InitType
  <2>1. ~("LCtrl" \in kb.mod) /\ host.mod = {} /\ host.keys = {} /\ host.media = {}
    BY DEF Init, IdleReport
  <2> QED BY <2>1 DEF Init, IInv, MediaFlagMatchesHost, FakeFnFollowsLCtrl,
                      MediaReleasedWithKeys, KeysUpUnlessBehindBreak, HostKeysUp
<1>2. IInv /\ [Next]_vars => IInv'
  <2> SUFFICES ASSUME IInv, [Next]_vars, TypeOK' PROVE IInv'
    BY NextType DEF IInv
  <2>1. CASE InputReport
    <3>1. PICK r \in Reports : /\ kb' = r
                               /\ calm' = (calm /\ OneChange(kb, r))
                               /\ ProcessInputReport(r)
                               /\ UNCHANGED m_Settings
      BY <2>1 DEF InputReport
    <3>2. MediaFlagMatchesHost'
      BY <3>1, InputReportKeepsMediaFlag, ReportsAreMerged DEF IInv, TypeOK
    <3>3. FakeFnFollowsLCtrl'
      BY <3>1, InputReportKeepsFnFlag, ReportsAreMerged
    <3>4. CASE calm'
      <4>1. calm /\ OneChange(kb, r)
        BY <3>1, <3>4
      <4>2. MediaReleasedWithKeys' /\ KeysUpUnlessBehindBreak'
        BY <3>1, <4>1, InputReportReleases, ReportsAreMerged DEF IInv, TypeOK
      <4> QED BY <3>2, <3>3, <4>2 DEF IInv
    <3>5. CASE ~calm'
      BY <3>2, <3>3, <3>5 DEF IInv, MediaReleasedWithKeys, KeysUpUnlessBehindBreak
    <3> QED BY <3>4, <3>5
  <2>2. CASE SetSettings
    BY <2>2, SetSettingsKeeps DEF IInv, TypeOK
  <2>3. CASE UNCHANGED vars
    BY <2>3, StutterKeeps DEF IInv, TypeOK
  <2> QED BY <2>1, <2>2, <2>3 DEF Next
<1> QED BY <1>1, <1>2, PTL DEF Spec

\* The filter never forgets, nor invents, a media key that is down at the host,
\* however the keys are pressed and whenever the settings change.
THEOREM MediaFlagCorrect == Spec => []MediaFlagMatchesHost
<1>1. IInv => MediaFlagMatchesHost
  BY DEF IInv
<1> QED BY <1>1, Invariance, PTL

\* As long as each report shows one change and the settings change only with no
\* key held, a media key comes up at the host when the last key does.
THEOREM MediaReleaseCorrect == Spec => []MediaReleasedWithKeys
<1>1. IInv => MediaReleasedWithKeys
  BY DEF IInv
<1> QED BY <1>1, Invariance, PTL

\* Under the same condition every key comes up at the host when the user has let
\* go of all, unless a media break took the place of the report that says so.
THEOREM KeysReleaseCorrect == Spec => []KeysUpUnlessBehindBreak
<1>1. IInv => KeysUpUnlessBehindBreak
  BY DEF IInv
<1> QED BY <1>1, Invariance, PTL

-----------------------------------------------------------------------------
(* What a report becomes.                                                  *)

AltCmd == {"LAlt", "LCmd", "RAlt", "RCmd"}

\* A1644.cpp:69-83, SwapAltCmd: on a side where one of Alt and Cmd is held the host gets
\* the other, and the two sides and the other modifiers do not disturb each other; on
\* a side where both are held it gets Cmd alone, as if Alt alone were: the swap is not
\* an exchange there, and two states of the keyboard look the same to the host.
THEOREM AltCmdSwap ==
    \A mods \in SUBSET AllMods :
        LET swapped == SwapPair(SwapPair(mods, "LAlt", "LCmd"), "RAlt", "RCmd") IN
        /\ swapped \ AltCmd = mods \ AltCmd
        /\ ~({"LAlt", "LCmd"} \subseteq mods) => /\ "LAlt" \in swapped <=> "LCmd" \in mods
                                                 /\ "LCmd" \in swapped <=> "LAlt" \in mods
        /\ ~({"RAlt", "RCmd"} \subseteq mods) => /\ "RAlt" \in swapped <=> "RCmd" \in mods
                                                 /\ "RCmd" \in swapped <=> "RAlt" \in mods
        /\ {"LAlt", "LCmd"} \subseteq mods => {"LAlt", "LCmd"} \cap swapped = {"LCmd"}
        /\ {"RAlt", "RCmd"} \subseteq mods => {"RAlt", "RCmd"} \cap swapped = {"RCmd"}
<1> TAKE mods \in SUBSET AllMods
<1> DEFINE left    == SwapPair(mods, "LAlt", "LCmd")
           swapped == SwapPair(left, "RAlt", "RCmd")
<1>1. /\ \A m \in AllMods \ {"LAlt", "LCmd"} : m \in left <=> m \in mods
      /\ left \subseteq AllMods
      /\ "LCmd" \in left <=> "LAlt" \in mods
      /\ "LAlt" \in left <=> "LCmd" \in mods /\ "LAlt" \notin mods
  BY DEF SwapPair, AllMods
<1> HIDE DEF left
<1>2. /\ \A m \in AllMods \ {"RAlt", "RCmd"} : m \in swapped <=> m \in left
      /\ swapped \subseteq AllMods
      /\ "RCmd" \in swapped <=> "RAlt" \in left
      /\ "RAlt" \in swapped <=> "RCmd" \in left /\ "RAlt" \notin left
  BY <1>1 DEF SwapPair, AllMods
<1> HIDE DEF swapped
<1>3. /\ "RAlt" \in left <=> "RAlt" \in mods
      /\ "RCmd" \in left <=> "RCmd" \in mods
      /\ "LAlt" \in swapped <=> "LAlt" \in left
      /\ "LCmd" \in swapped <=> "LCmd" \in left
  BY <1>1, <1>2 DEF AllMods
<1>4. swapped \ AltCmd = mods \ AltCmd
  BY <1>1, <1>2 DEF AltCmd
<1>5. QED BY <1>1, <1>2, <1>3, <1>4 DEF left, swapped

\* Fn and LCtrl are not swapped, no media key is waiting for its break, and the report
\* has neither Fn nor Eject.
Ordinary(r) == /\ ~m_Settings.SwapFnCtrl /\ ~m_MultimediaKeyActive
               /\ r.special = {}

\* The host gets the keys of report r, all of them and no other.
Passes(r) == host'.keys = KeysOf(r.keys) /\ host'.mod = r.mod /\ host'.media = {}

\* It gets what Fn makes of r instead: nothing, a media key, or r with its first key or
\* LCtrl exchanged.
PassesWithFn(r) ==
    \/ FnIgnored(r) /\ host' = host
    \/ r.keys[1] \in DOMAIN FnMedia /\ host' = [host EXCEPT !.media = {FnMedia[r.keys[1]]}]
    \/ r.keys[1] \in DOMAIN FnKey /\ Passes([r EXCEPT !.keys[1] = FnKey[@]])
    \/ "LCtrl" \in r.mod /\ Passes([r EXCEPT !.mod = (@ \ {"LCtrl"}) \cup {"RCtrl"}])

\* Without the swap, a report that shows no Fn passes as it is, but for Alt and Cmd,
\* while m_FakeFnActive is FALSE.  Only a report with the key that acts as Fn sets the
\* flag and only a report under the swap resets it: once it is left set, by a press of Fn
\* without the swap, say, every report with a key or a modifier is treated as if Fn were
\* held, whatever came between, and only the one with nothing pressed still passes
\* (A1644.cpp:60-65, :107).
THEOREM OrdinaryReportsPass ==
    Spec => [][/\ InputReport /\ Ordinary(kb') =>
                    LET r == SwapAltCmd(kb')
                    IN  IF m_FakeFnActive /\ (r.keys[1] # NoKey \/ r.mod # {})
                          THEN PassesWithFn(r) ELSE Passes(r)
               /\ ~m_FakeFnActive /\ m_FakeFnActive' => InputReport /\ FnHeld(kb')
               /\ m_FakeFnActive /\ ~m_FakeFnActive' =>
                    InputReport /\ m_Settings.SwapFnCtrl]_vars
<1> DEFINE r == SwapAltCmd(kb')
<1>1. ASSUME IInv, InputReport, Ordinary(kb')
      PROVE  IF m_FakeFnActive /\ (r.keys[1] # NoKey \/ r.mod # {})
               THEN PassesWithFn(r) ELSE Passes(r)
  <2>1. /\ kb' \in Reports /\ ProcessInputReport(kb')
        /\ kb'.id = 1 /\ kb'.special = {}
        /\ DOMAIN kb' = {"id", "mod", "keys", "special"}
    BY <1>1 DEF InputReport, Ordinary, Reports
  <2>2. SpecialKeys(kb') = kb'
    <3>1. SpecialKeys(kb') = [kb' EXCEPT !.mod = kb'.mod, !.keys = kb'.keys]
      BY <1>1, <2>1 DEF SpecialKeys, Ordinary
    <3> QED BY <2>1, <3>1 DEF Reports
  <2>3. Prepared(kb') = r /\ r.id = 1 /\ DOMAIN r = {"id", "mod", "keys", "special"}
    BY <2>1, <2>2 DEF Prepared, SwapAltCmd
  <2> HIDE DEF r
  <2>4. (FnAfter(kb') <=> m_FakeFnActive) /\ ~FnChanged(kb')
    BY <1>1, <2>1 DEF FnAfter, FnChanged, Ordinary, IInv, TypeOK, FilterOK
  <2>5. ProcessPrepared(kb', r) /\ ~IsMediaBreak(r)
    BY <1>1, <2>1, <2>3, <2>4 DEF ProcessInputReport, SuppressFnChange, IsMediaBreak, Ordinary
  <2>6. DOMAIN host = {"mod", "keys", "media"} /\ host.media = {}
    BY <1>1 DEF IInv, TypeOK, FilterOK, MediaFlagMatchesHost, Ordinary
  <2>7. ASSUME NEW q, q.id = 1, SendKeys(q) PROVE Passes(q)
    BY <2>6, <2>7 DEF SendKeys, HostKeyboard, Passes
  <2>8. CASE ~IsFnCombination(kb', r)
    <3>1. Passes(r)
      BY <2>3, <2>5, <2>7, <2>8 DEF ProcessPrepared, MediaBreak, MediaKey,
                                    IgnoreFnCombination, TranslateFnCombination, PlainKeys
    <3> QED BY <2>4, <2>8, <3>1 DEF IsFnCombination
  <2>9. CASE IsFnCombination(kb', r)
    <3>1. CASE MediaKey(kb', r)
      BY <2>4, <2>9, <3>1 DEF MediaKey, PassesWithFn, IsFnCombination
    <3>2. CASE IgnoreFnCombination(kb', r)
      BY <2>4, <2>9, <3>2 DEF IgnoreFnCombination, PassesWithFn, IsFnCombination
    <3>3. CASE TranslateFnCombination(kb', r)
      <4>1. FnTranslate(r).id = 1
        BY <2>3 DEF FnTranslate
      <4>2. Passes(FnTranslate(r))
        BY <2>7, <3>3, <4>1 DEF TranslateFnCombination
      <4>3. PassesWithFn(r)
        BY <3>3, <4>2 DEF TranslateFnCombination, FnIgnored, FnTranslate, PassesWithFn
      <4> QED BY <2>4, <2>9, <4>3 DEF IsFnCombination
    <3> QED BY <2>5, <2>9, <3>1, <3>2, <3>3 DEF ProcessPrepared, MediaBreak, PlainKeys
  <2> QED BY <2>8, <2>9
<1>2. IInv /\ [Next]_vars =>
         [/\ ~m_FakeFnActive /\ m_FakeFnActive' => InputReport /\ FnHeld(kb')
          /\ m_FakeFnActive /\ ~m_FakeFnActive' => InputReport /\ m_Settings.SwapFnCtrl]_vars
  <2>1. ASSUME SetSettings PROVE UNCHANGED m_FakeFnActive
    BY <2>1 DEF SetSettings
  <2>2. ASSUME IInv, InputReport
        PROVE  /\ ~m_FakeFnActive /\ m_FakeFnActive' => FnHeld(kb')
               /\ m_FakeFnActive /\ ~m_FakeFnActive' => m_Settings.SwapFnCtrl
    BY <2>2 DEF InputReport, ProcessInputReport, FnAfter, FnHeld, IInv, TypeOK, FilterOK
  <2> QED BY <2>1, <2>2 DEF Next
<1> QED BY <1>1, <1>2, Invariance, PTL DEF Spec

-----------------------------------------------------------------------------
(* Class A1314: what is proved above of one report holds of a merged one.   *)

\* Before the first report of keys the id is 0: whatever becomes of Eject and Fn, no
\* media key is made of them, and what is written is no keyboard report to the host.
LEMMA UndeclaredKeepsHost ==
    ASSUME FilterOK, MediaFlagMatchesHost, host.media = {},
           NEW r \in MergedReports, r.id = 0, r.keys = NoKeys, ProcessInputReport(r)
    PROVE  host' = host
<1> DEFINE p == Prepared(r)
<1>1. p.keys[1] \in {NoKey, "Del"}
  <2>1. DOMAIN r = {"id", "mod", "keys", "special"}
    BY MergedFields
  <2>2. 1 \in Slot
    BY SlotsAssumption DEF Slot
  <2>3. SpecialKeys(r).keys[1] \in {NoKey, "Del"}
    BY <2>1, <2>2 DEF SpecialKeys, NoKeys
  <2>4. DOMAIN SpecialKeys(r) = {"id", "mod", "keys", "special"}
    BY <2>1 DEF SpecialKeys
  <2> QED BY <2>3, <2>4 DEF Prepared, SwapAltCmd
<1>2. p.keys[1] \notin DOMAIN FnMedia
  BY <1>1 DEF NoKey, FnMedia
<1>3. p.id = 0
  BY PreparedType
<1>4. ~IsMediaBreak(p)
  BY DEF IsMediaBreak, MediaFlagMatchesHost
<1> HIDE DEF p
<1>5. ASSUME NEW q, q.id = 0, SendKeys(q) PROVE host' = host
  BY <1>5 DEF SendKeys, HostKeyboard
<1>6. CASE SuppressFnChange(r)
  BY <1>6 DEF SuppressFnChange
<1>7. CASE IgnoreFnCombination(r, p)
  BY <1>7 DEF IgnoreFnCombination
<1>8. CASE TranslateFnCombination(r, p)
  <2>1. FnTranslate(p).id = 0
    BY <1>8, FnTranslateType DEF TranslateFnCombination, FnIgnored, p
  <2> QED BY <1>5, <1>8, <2>1 DEF TranslateFnCombination
<1>9. CASE PlainKeys(r, p)
  BY <1>3, <1>5, <1>9 DEF PlainKeys
<1> QED BY <1>2, <1>4, <1>6, <1>7, <1>8, <1>9
        DEF ProcessInputReport, ProcessPrepared, MediaBreak, MediaKey, p

-----------------------------------------------------------------------------
(* The steps of A1314.                                                     *)

\* What is said of the keys held is said of the merged report, which shows them.
LEMMA HeldIsReported ==
    ASSUME ReportIsKeyboard
    PROVE  /\ NoKeyHeld(held) <=> NoKeyHeld(kb)
           /\ Released(held) <=> Released(kb)
           /\ Pressed(held) = Pressed(kb)
<1> QED BY DEF ReportIsKeyboard, NoKeyHeld, Released, Pressed

\* One report merged and processed: kb goes from a merged report to another that
\* shows one change, if the user is still calm, or none.  The id never goes back to 0.
LEMMA ProcessKeepsIInv ==
    ASSUME A1314IInv, NEW r \in MergedReports, Process(r),
           held' \in Keyboards, ReportIsKeyboard',
           calm' \in BOOLEAN, calm' => calm /\ (OneChange(kb, r) \/ r = kb),
           r.id = 0 => kb.id = 0 /\ r.mod = kb.mod /\ r.keys = kb.keys
    PROVE  A1314IInv'
<1>1. /\ kb \in MergedReports /\ FilterOK /\ ReportIsKeyboard
      /\ MediaFlagMatchesHost /\ FakeFnFollowsLCtrl
      /\ MediaReleasedWithKeys /\ KeysUpUnlessBehindBreak
      /\ kb.id = 0 => /\ kb.mod = {} /\ kb.keys = NoKeys
                      /\ host = [mod |-> {}, keys |-> {}, media |-> {}]
  BY DEF A1314IInv
<1>2. kb' = r /\ ProcessInputReport(r) /\ UNCHANGED m_Settings
  BY DEF Process
<1>3. FilterOK' /\ MediaFlagMatchesHost' /\ FakeFnFollowsLCtrl'
  BY <1>1, <1>2, ProcessType, InputReportKeepsMediaFlag, InputReportKeepsFnFlag
<1>4. r.id = 0 => host' = [mod |-> {}, keys |-> {}, media |-> {}]
  BY <1>1, <1>2, UndeclaredKeepsHost
<1>5. MediaReleasedWithKeys' /\ KeysUpUnlessBehindBreak'
  <2>1. CASE ~calm'
    BY <2>1 DEF MediaReleasedWithKeys, KeysUpUnlessBehindBreak
  <2>2. CASE r.id = 0
    BY <1>4, <2>2 DEF MediaReleasedWithKeys, KeysUpUnlessBehindBreak, HostKeysUp
  <2>3. CASE calm' /\ r.id # 0
    <3>1. r \in Reports
      BY <2>3, MergedFields
    <3> QED BY <1>1, <1>2, <2>3, <3>1, InputReportReleases
  <2> QED BY <2>1, <2>2, <2>3
<1>6. r.id = 0 => r.mod = {} /\ r.keys = NoKeys
  BY <1>1
<1> QED BY <1>2, <1>3, <1>4, <1>5, <1>6 DEF A1314IInv

LEMMA MergedInvariance == A1314Spec => []A1314IInv
<1>1. A1314Init => A1314IInv
  <2> SUFFICES ASSUME A1314Init PROVE A1314IInv
    OBVIOUS
  <2>1. IdleReport \in Reports
    BY DEF IdleReport, Reports, NoKeys, Packed
  <2>2. kb = [IdleReport EXCEPT !.id = 0]
    BY DEF A1314Init
  <2>3. kb \in MergedReports
    BY <2>1, <2>2, MergedFromReport
  <2>4. held = [mod |-> IdleReport.mod, keys |-> IdleReport.keys, special |-> IdleReport.special]
    BY DEF A1314Init, IdleReport
  <2>5. held \in Keyboards
    BY <2>1, <2>4 DEF Keyboards
  <2>6. /\ kb.mod = {} /\ kb.keys = NoKeys /\ kb.special = {}
        /\ host = [mod |-> {}, keys |-> {}, media |-> {}]
        /\ m_FakeFnActive = FALSE /\ m_MultimediaKeyActive = FALSE
    BY <2>2 DEF IdleReport, A1314Init
  <2>7. FilterOK
    BY DEF A1314Init, FilterOK
  <2>8. ReportIsKeyboard
    BY <2>4, <2>6 DEF IdleReport, ReportIsKeyboard
  <2> QED BY <2>3, <2>5, <2>6, <2>7, <2>8
          DEF A1314IInv, MediaFlagMatchesHost, FakeFnFollowsLCtrl, MediaReleasedWithKeys,
              KeysUpUnlessBehindBreak, HostKeysUp
<1>2. A1314IInv /\ [A1314Next]_a1314vars => A1314IInv'
  <2> SUFFICES ASSUME A1314IInv, [A1314Next]_a1314vars PROVE A1314IInv'
    OBVIOUS
  <2>0. /\ held \in Keyboards /\ kb \in MergedReports /\ FilterOK
        /\ ReportIsKeyboard
        /\ kb.id \in {0, 1}
        /\ DOMAIN kb = {"id", "mod", "keys", "special"}
    BY MergedFields DEF A1314IInv
  <2>1. CASE KeysReport
    <3> DEFINE Rep(k) == [kb EXCEPT !.id = 1, !.mod = k.mod, !.keys = k.keys]
    <3>1. PICK k \in Keyboards :
             /\ k.special = held.special
             /\ Change(k)
             /\ Process(Rep(k))
      BY <2>1 DEF KeysReport
    <3>2. PICK s \in Reports : k = [mod |-> s.mod, keys |-> s.keys, special |-> s.special]
      BY DEF Keyboards
    <3>3. /\ Rep(k).id = 1 /\ Rep(k).mod = k.mod /\ Rep(k).keys = k.keys
          /\ Rep(k).special = k.special
      BY <2>0, <3>1 DEF ReportIsKeyboard
    <3>4. Rep(k) = s
      BY <2>0, <3>2, <3>3 DEF Reports
    <3>5. Rep(k) \in MergedReports
      BY <3>4, ReportsAreMerged
    <3> HIDE DEF Rep
    <3>6. held' = k /\ calm' = (calm /\ OneChange(held, k)) /\ kb' = Rep(k)
      BY <3>1 DEF Change, Process
    <3>7. ReportIsKeyboard'
      BY <3>3, <3>6 DEF ReportIsKeyboard
    <3>8. OneChange(held, k) <=> OneChange(kb, Rep(k))
      BY <2>0, <3>3, HeldIsReported DEF OneChange, Pressed
    <3>9. calm' \in BOOLEAN /\ (calm' => calm /\ OneChange(kb, Rep(k)))
      BY <2>0, <3>6, <3>8 DEF FilterOK
    <3> QED BY <3>1, <3>3, <3>5, <3>6, <3>7, <3>9, ProcessKeepsIInv
  <2>2. CASE SpecialReport
    <3> DEFINE K(special)   == [held EXCEPT !.special = special]
               Rep(special) == [kb EXCEPT !.special = special]
    <3>1. PICK special \in SUBSET Specials :
             /\ Change(K(special))
             /\ Process(Rep(special))
      BY <2>2 DEF SpecialReport
    <3>2. PICK s \in Reports : held = [mod |-> s.mod, keys |-> s.keys, special |-> s.special]
      BY <2>0 DEF Keyboards
    <3>3. /\ K(special).mod = kb.mod /\ K(special).keys = kb.keys
          /\ K(special).special = special
      BY <2>0, <3>2 DEF ReportIsKeyboard
    <3>4. /\ Rep(special).id = kb.id /\ Rep(special).mod = kb.mod
          /\ Rep(special).keys = kb.keys /\ Rep(special).special = special
      BY <2>0
    <3>5. [s EXCEPT !.special = special] \in Reports
      BY DEF Reports
    <3>6. K(special) \in Keyboards
      <4>1. K(special) = [mod |-> s.mod, keys |-> s.keys, special |-> special]
        BY <3>2
      <4> QED BY <3>5, <4>1 DEF Keyboards, Reports
    <3>7. Rep(special) \in MergedReports
      <4>1. PICK m \in Reports, id \in {0, 1} : kb = [m EXCEPT !.id = id]
        BY <2>0 DEF MergedReports
      <4>2. [m EXCEPT !.special = special] \in Reports
        BY DEF Reports
      <4>3. Rep(special) = [[m EXCEPT !.special = special] EXCEPT !.id = id]
        BY <4>1 DEF Reports
      <4> QED BY <4>2, <4>3, MergedFromReport
    <3> HIDE DEF K, Rep
    <3>8. /\ held' = K(special) /\ calm' = (calm /\ OneChange(held, K(special)))
          /\ kb' = Rep(special)
      BY <3>1 DEF Change, Process
    <3>9. ReportIsKeyboard'
      BY <3>3, <3>4, <3>8 DEF ReportIsKeyboard
    <3>10. OneChange(held, K(special)) <=> OneChange(kb, Rep(special))
      BY <2>0, <3>3, <3>4, HeldIsReported DEF OneChange, Pressed
    <3> QED BY <2>0, <3>1, <3>4, <3>6, <3>7, <3>8, <3>9, <3>10, ProcessKeepsIInv DEF FilterOK
  <2>3. CASE OtherReport
    <3>1. UNCHANGED <<held, calm>> /\ Process(kb) /\ kb' = kb
      BY <2>3 DEF OtherReport, Process
    <3>2. ReportIsKeyboard'
      BY <2>0, <3>1 DEF ReportIsKeyboard
    <3> QED BY <2>0, <3>1, <3>2, ProcessKeepsIInv DEF FilterOK
  <2>4. CASE SetSettings /\ UNCHANGED held
    <3>1. SetSettings /\ UNCHANGED held
      BY <2>4
    <3>2. /\ FilterOK' /\ MediaFlagMatchesHost' /\ FakeFnFollowsLCtrl'
          /\ MediaReleasedWithKeys' /\ KeysUpUnlessBehindBreak'
      BY <3>1, SetSettingsKeeps DEF A1314IInv
    <3>3. UNCHANGED <<held, kb, host>>
      BY <3>1 DEF SetSettings
    <3> QED BY <3>2, <3>3 DEF A1314IInv, ReportIsKeyboard, Keyboards, Reports
  <2>5. CASE UNCHANGED a1314vars
    <3>1. UNCHANGED vars /\ UNCHANGED held
      BY <2>5 DEF a1314vars
    <3>2. /\ FilterOK' /\ MediaFlagMatchesHost' /\ FakeFnFollowsLCtrl'
          /\ MediaReleasedWithKeys' /\ KeysUpUnlessBehindBreak'
      BY <3>1, StutterKeeps DEF A1314IInv
    <3>3. UNCHANGED <<held, kb, host>>
      BY <3>1 DEF vars
    <3> QED BY <3>2, <3>3 DEF A1314IInv, ReportIsKeyboard, Keyboards, Reports
  <2> QED BY <2>1, <2>2, <2>3, <2>4, <2>5 DEF A1314Next
<1> QED BY <1>1, <1>2, PTL DEF A1314Spec

\* What class A1644 is given is the keyboard as the user holds it, however the two
\* kinds of report follow each other.
THEOREM MergedReportCorrect == A1314Spec => []ReportIsKeyboard
<1>1. A1314IInv => ReportIsKeyboard
  BY DEF A1314IInv
<1> QED BY <1>1, MergedInvariance, PTL

\* As long as the user of an A1314 is calm, no media key stays down at the host once
\* no key is held, whichever kind of report said so last.
THEOREM MergedMediaReleaseCorrect == A1314Spec => []HeldMediaReleased
<1>1. A1314IInv => HeldMediaReleased
  BY HeldIsReported DEF A1314IInv, MediaReleasedWithKeys, HeldMediaReleased
<1> QED BY <1>1, MergedInvariance, PTL

\* Under the same condition every key comes up at the host when the user has let go
\* of all, unless a media break took the place of the report that says so: the part
\* that is kept from an old report of the other kind puts no key back.
THEOREM MergedKeysReleaseCorrect == A1314Spec => []HeldKeysUp
<1>1. A1314IInv => HeldKeysUp
  BY HeldIsReported DEF A1314IInv, KeysUpUnlessBehindBreak, HeldKeysUp
<1> QED BY <1>1, MergedInvariance, PTL

=============================================================================
