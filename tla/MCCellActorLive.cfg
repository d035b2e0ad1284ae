SPECIFICATION FairSpec
CONSTANTS
    Yields = {y1}
    Frontiers = {f1}
    Terminates = {t1}
    First = y1
    NoCall = NoCall
    MaxEffects = 1
CHECK_DEADLOCK FALSE
PROPERTIES TerminateAnswered ShutdownReturns YieldAnswered
