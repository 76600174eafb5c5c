CONSTANTS
    Keys <- MCKeys
    Mods <- MCMods
    Specials <- MCSpecials
    Slots = 2
SPECIFICATION Spec
PROPERTY
    MediaKeyNeedsFn
