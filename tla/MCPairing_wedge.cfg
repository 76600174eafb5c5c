CONSTANTS
    BeginPolls = 2
    EndPolls = 2
    MaxAttempts = 2
SPECIFICATION Spec
PROPERTY
    RefusedOnlyWhilePairing
