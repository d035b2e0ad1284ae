SPECIFICATION FairSpec
CONSTANTS
    Tasks = {t1, t2, t3, t4, t5, t6}
    TurnStates = {s1, s2, s3, s4, s5, s6, s7}
    Loop = Loop
    Ext = Ext
    NoTask = NoTask
    NoState = NoState
    UserInputs = {}
    TriggerMail = {m1, m2}
    QueueMail = {q1}
    GoalItems = {g1}
    Injected = {}
    Operations = {}
    Commands = 0
    DurableSleep = FALSE
    Faults = FALSE
CHECK_DEADLOCK FALSE
INVARIANTS StartFindsNoTask NoLostWakeup
PROPERTIES MailHeard
