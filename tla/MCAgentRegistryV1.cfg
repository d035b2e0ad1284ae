SPECIFICATION Spec
CONSTANTS
    Calls = {c1, c2, c3, c4}
    Threads = {root, t1, t2}
    RootThread = root
    Stored = {t1}
    Paths = {p1}
    RootPath = rootPath
    Names = {n1}
    MaxThreads = 1
    Resident = FALSE
    Kinds = {"spawn", "resume", "close", "request"}
    NoKey = NoKey
    NoThread = NoThread
    NoNick = NoNick
    Absent = Absent
    Reserved = Reserved
SYMMETRY CallSymmetry
CHECK_DEADLOCK FALSE
INVARIANTS TypeOK CountCovers LimitHolds
