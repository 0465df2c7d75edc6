CONSTANTS
    Libraries <- MCLibraries
    Installed <- MCInstalled
    Imports <- MCImports
    LookedUp <- MCLookedUp
    Shimmed <- MCShimmed
    t1 = t1
    t2 = t2
    r1 = r1
    r2 = r2
    s1 = s1
    s2 = s2
    f1 = f1
    NoAddress = NoAddress
    Threads <- MCThreads
    SocketFds <- MCSocketFds
    SocketFamilies <- MCSocketFamilies
    Rests <- MCRests
    MaxPeers = 3
    Leftovers <- MCLeftovers
    HintFamilies <- MCHintFamilies
    HostLists <- MCHostLists
    Dstaddrs <- MCDstaddrs
    MaxCalls = 2
    AskedOptions <- MCAsked
    OptionValues <- MCOptionValues
    FileFds <- MCFileFds
    DirStreams <- MCDirStreams
    Entries = 2
    Attributes <- MCAttributes
    MaxQueues = 2
    BufferSize = 5
    Sources <- MCSources
    PatternWidth = 2
    MaxLength = 7
SPECIFICATION CallsSpec
INVARIANTS
    NamesBoundRight
    AddressesAsMeant
    ListsAsMade
    OptionsAsMeant
    FilesAsOpened
    StringsFit
\* Calls end, and the process may.
CHECK_DEADLOCK FALSE
