----------------------------- MODULE MCKeyMap -----------------------------
(***************************************************************************)
(* Model checking of KeyMap with keymaps/de-keymap.json, which swaps two   *)
(* keys, a map that uses modifiers, one with a key that is turned off and  *)
(* one with nulls in place of keys, and one with a mapping of the key 0    *)
(* ahead of another.                                                       *)
(***************************************************************************)
EXTENDS KeyMap

CONSTANTS Grave, NonUS, Letter

MCKeys == {Grave, NonUS, Letter}
MCMods == {"LShift", "RAlt", "LCmd"}

Mapping(imod, ikey, omod, okey) == [imod |-> imod, ikey |-> ikey, omod |-> omod, okey |-> okey]

DeKeymap == <<Mapping(NullKeyMapping, Grave, NullKeyMapping, NonUS),
              Mapping(NullKeyMapping, NonUS, NullKeyMapping, Grave)>>

\* RAlt+Letter is another key with another modifier, Letter alone stays; a
\* mapping that comes later for the same key applies when the first does not.
ModifierMap == <<Mapping({"RAlt"}, Letter, {"LShift"}, Grave), Mapping({}, Letter, {}, Letter),
                 Mapping({"LShift"}, NonUS, {}, NonUS)>>

OffMap == <<Mapping({"LShift"}, Grave, NullKeyMapping, NoKey),
            Mapping({}, NullKey, {"LShift"}, Grave), Mapping({"RAlt"}, Letter, {}, NullKey)>>

ZeroMap == <<Mapping({"LShift"}, NoKey, {"LCmd"}, Grave), Mapping({}, NonUS, {}, Letter)>>

MCMaps == {DeKeymap, ModifierMap, OffMap, ZeroMap}
=============================================================================
