SPECIFICATION Spec
CONSTANTS
    Calls = {c1, c2, c3}
    Threads = {root, t1, t2, t3}
    RootThread = root
    Stored = {t1}
    Paths = {p1, p2}
    RootPath = rootPath
    Names = {n1, n2}
    MaxThreads = 1
    Resident = TRUE
    Kinds = {"spawn", "restore", "close"}
    NoKey = NoKey
    NoThread = NoThread
    NoNick = NoNick
    Absent = Absent
    Reserved = Reserved
SYMMETRY CallSymmetry
CHECK_DEADLOCK FALSE
INVARIANTS IndexConsistent PathOwned SlotsReturned NicknamesDistinct
