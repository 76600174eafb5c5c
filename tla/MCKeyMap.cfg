CONSTANTS
    Grave = Grave
    NonUS = NonUS
    Letter = Letter
    NoKey = NoKey
    NullKey = NullKey
    Keys <- MCKeys
    Mods <- MCMods
    Slots = 3
    Maps <- MCMaps
SPECIFICATION Spec
INVARIANTS
    TypeOK
    KeysUpWithKeyboard
PROPERTIES
    MappedKeyWorks
