SPECIFICATION FairSpec
CONSTANTS
    MIN_MATCH = 3
    MAX_MATCH = 10
    WSIZE = 32
    HASH_BITS = 8
    TOO_FAR = 8
    LIT_BUFSIZE = 32
    TALLY_CHECK = 8
    Garbage = 1
    NAME_MAX = 5
    INBUFSIZ = 4096
    OUTBUFSIZ = 16
    BeginDeflate <- McBegin
    DeflateRound <- McRound
    EndDeflate <- McEnd
    Inflated <- McInflated
    Names <- McNames
    Starts <- McStarts
    Theirs <- McTheirs
INVARIANTS
    NothingPartialLeft
    ExitOkMeansDone
    BlockCoversInput
PROPERTIES
    RemovalIsSafe
    Ends
