SPECIFICATION ParserFairSpec
CONSTANTS
    Texts <- Files
    Filter <- FilterG
CHECK_DEADLOCK FALSE
INVARIANTS
    DepthIsStack
    UnmatchedFound
    FirstRowStays
    NothingLost
PROPERTY Terminates
