SPECIFICATION Spec
CONSTANTS
    Yields = {y1}
    Frontiers = {f1}
    Terminates = {t1, t2}
    First = y1
    NoCall = NoCall
    MaxEffects = 2
SYMMETRY Symmetry
CHECK_DEADLOCK FALSE
INVARIANTS TypeOK OutputKept PauseMatched ShutdownFinal
PROPERTIES OneOutcome
