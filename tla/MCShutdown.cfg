CONSTANT
    MaxSignals = 2
SPECIFICATION Spec
\* The process ends.
CHECK_DEADLOCK FALSE
INVARIANTS
    TypeOK
    JoinedBeforeExit
    JoinsWithoutLock
PROPERTY
    StopEnds
