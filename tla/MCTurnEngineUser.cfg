SPECIFICATION Spec
CONSTANTS
    Tasks = {t1, t2, t3, t4}
    TurnStates = {s1, s2, s3, s4}
    Loop = Loop
    Ext = Ext
    NoTask = NoTask
    NoState = NoState
    UserInputs = {u1, u2}
    TriggerMail = {}
    QueueMail = {}
    GoalItems = {}
    Injected = {}
    Operations = {"interrupt", "compact", "shell", "shutdown", "ask", "rollover"}
    Commands = 2
    DurableSleep = FALSE
    Faults = TRUE
CHECK_DEADLOCK FALSE
INVARIANTS OneRunner OneTerminalEvent NothingLost AnswerReaches
