CONSTANTS
    Images    <- MCImages
    Names     <- MCNames
    HookNames <- MCHookNames
    HostAddrs <- MCHostAddrs
    Bases     <- MCBases
    Thunk     <- MCThunk
    WordMod   <- MCWordMod
SPECIFICATION FairSpec
INVARIANTS
    TypeOK
    ImageReady
    PointersInImage
    TlvStorageApart
    InitOrder
    HooksBeforeCode
PROPERTY Terminates
