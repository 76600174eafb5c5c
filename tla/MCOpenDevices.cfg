CONSTANTS
    Devs <- MCDevs
    Apple <- MCApple
    Docs <- MCDocs
    ReqDevs <- MCReqDevs
    ReqDocs <- MCReqDocs
SPECIFICATION MCFairSpec
INVARIANTS
    TypeOK
    SessionsClean
    SettingsRestored
PROPERTIES
    KeyboardServed
    ExitEnds
