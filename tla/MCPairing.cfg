CONSTANTS
    BeginPolls = 2
    EndPolls = 2
    MaxAttempts = 4
SPECIFICATION FairSpec
INVARIANTS
    TypeOK
    OnePairingAtATime
    BeginAnswerOrigin
PROPERTIES
    RequestsAnswered
    PairingEnds
    PairingAsPromised
