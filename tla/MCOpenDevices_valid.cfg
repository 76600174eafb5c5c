CONSTANTS
    Devs <- MCDevs
    Apple <- MCApple
    Docs <- MCDocs
    ReqDevs <- MCReqDevs
    ReqDocs <- MCReqDocs
SPECIFICATION MCSpec
INVARIANT
    ValidDataAccepted
