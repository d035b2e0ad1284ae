SPECIFICATION FairSpec
CONSTANTS
    Requests = {w1, w2, r1, r2}
    Reads = {r1, r2}
    Keys = {k1}
    NoKey = NoKey
    Connections = {c1}
    Panics = TRUE
CHECK_DEADLOCK FALSE
INVARIANTS TypeOK DrainedQuiet OneDrain
PROPERTIES InOrder ClosingStartsNone Handled
