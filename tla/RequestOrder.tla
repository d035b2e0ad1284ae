----------------------------- MODULE RequestOrder -----------------------------
(***************************************************************************)
(* What the request queues promise to handlers: requests that name the     *)
(* same key run in the order they arrived, one at a time, except that      *)
(* reads may run beside each other.  Nothing is said of requests without   *)
(* a key, nor of when a request that may start does start.                 *)
(***************************************************************************)
EXTENDS Naturals

CONSTANTS Requests, Reads, Keys, NoKey

VARIABLES
    arrived,    \* how many requests have arrived
    number,     \* the place of each in the order of arrival, 0 before
    key,        \* the key each names
    stage       \* "new", "waiting", "running" or "ended"

vars == <<arrived, number, key, stage>>

Conflict(r, s) == key[r] # NoKey /\ key[r] = key[s] /\ ~({r, s} \subseteq Reads)

MayStart(r) ==
    \A s \in Requests :
        number[s] # 0 /\ number[s] < number[r] /\ Conflict(r, s) => stage[s] = "ended"

Init ==
    /\ arrived = 0
    /\ number = [r \in Requests |-> 0]
    /\ key = [r \in Requests |-> NoKey]
    /\ stage = [r \in Requests |-> "new"]

Arrive(r, k) ==
    /\ stage[r] = "new"
    /\ arrived' = arrived + 1
    /\ number' = [number EXCEPT ![r] = arrived + 1]
    /\ key' = [key EXCEPT ![r] = k]
    /\ stage' = [stage EXCEPT ![r] = "waiting"]

Start(r) ==
    /\ stage[r] = "waiting" /\ MayStart(r)
    /\ stage' = [stage EXCEPT ![r] = "running"]
    /\ UNCHANGED <<arrived, number, key>>

\* Requests end when their handlers return; some end without having run.
End(S) ==
    /\ \A r \in S : stage[r] \in {"waiting", "running"}
    /\ stage' = [r \in Requests |-> IF r \in S THEN "ended" ELSE stage[r]]
    /\ UNCHANGED <<arrived, number, key>>

Next ==
    \/ \E r \in Requests : Start(r) \/ \E k \in Keys \cup {NoKey} : Arrive(r, k)
    \/ \E S \in SUBSET Requests : End(S)

Spec == Init /\ [][Next]_vars
=============================================================================
