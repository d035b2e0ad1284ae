SPECIFICATION FairSpec
CONSTANTS
    Tasks = {t1, t2, t3}
    TurnStates = {s1, s2, s3, s4}
    Loop = Loop
    Ext = Ext
    NoTask = NoTask
    NoState = NoState
    UserInputs = {u1, u2}
    TriggerMail = {}
    QueueMail = {}
    GoalItems = {}
    Injected = {i1}
    Operations = {"interrupt", "force"}
    Commands = 1
    DurableSleep = FALSE
    Faults = FALSE
CHECK_DEADLOCK FALSE
INVARIANTS ItemsApart RecordedOnce
PROPERTIES InputHeard
