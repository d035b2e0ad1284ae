----------------------------- MODULE CellOutcome -----------------------------
(***************************************************************************)
(* What a code-mode cell promises its callers, without the actor and the   *)
(* runtime behind it.  A cell has one outcome, decided in one step: it     *)
(* completes, and its writes reach the session's stored values in that     *)
(* step, or it is terminated and they never do.  A caller is answered at   *)
(* most once.  It may be handed output while the cell has not completed,   *)
(* be refused at any time, or be told the outcome once there is one.       *)
(***************************************************************************)
CONSTANT Calls

VARIABLES
    outcome,    \* "open", "completed" or "terminated"
    stored,     \* whether the cell's writes are in the stored values
    told        \* what each caller was told

vars == <<outcome, stored, told>>

Answer(S, answer) ==
    /\ \A c \in S : told[c] = "none"
    /\ told' = [c \in Calls |-> IF c \in S THEN answer ELSE told[c]]

Init ==
    /\ outcome = "open" /\ stored = FALSE
    /\ told = [c \in Calls |-> "none"]

Complete ==
    /\ outcome = "open"
    /\ outcome' = "completed" /\ stored' = TRUE
    /\ UNCHANGED told

Terminate ==
    /\ outcome = "open"
    /\ outcome' = "terminated"
    /\ UNCHANGED <<stored, told>>

HandOutput(S) ==
    /\ outcome # "completed"
    /\ Answer(S, "output")
    /\ UNCHANGED <<outcome, stored>>

TellOutcome(S) ==
    /\ outcome # "open"
    /\ Answer(S, outcome)
    /\ UNCHANGED <<outcome, stored>>

Refuse(S) ==
    /\ Answer(S, "refused")
    /\ UNCHANGED <<outcome, stored>>

Next ==
    \/ Complete
    \/ Terminate
    \/ \E S \in SUBSET Calls : HandOutput(S) \/ TellOutcome(S) \/ Refuse(S)

Spec == Init /\ [][Next]_vars
=============================================================================
