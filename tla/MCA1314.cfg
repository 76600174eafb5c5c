CONSTANTS
    Keys <- MCKeys
    Mods <- MCMods
    Specials <- MCSpecials
    Slots = 2
SPECIFICATION A1314Spec
INVARIANTS
    ReportIsKeyboard
    HeldMediaReleased
    HeldKeysUp
