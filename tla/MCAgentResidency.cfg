SPECIFICATION FairSpec
CONSTANTS
    Calls = {c1, c2, c3}
    Agents = {a1, a2}
    Stored = {a1}
    Sessions = {s1, s2, s3}
    Capacity = 1
    Kinds = {"spawn", "followup", "message"}
    NoAgent = NoAgent
    NoSession = NoSession
    Shutdown = Shutdown
CHECK_DEADLOCK FALSE
INVARIANTS TypeOK SlotsHeld
PROPERTIES CallsReturn TriggerHeard
