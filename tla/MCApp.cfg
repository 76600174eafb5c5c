CONSTANTS
    Polls <- MCPolls
    Requests <- MCRequests
SPECIFICATION Spec
INVARIANTS
    TypeOK
    BusyIsOne
    ResetConfirmed
PROPERTIES
    BusyEnds
    SwitchFollows
