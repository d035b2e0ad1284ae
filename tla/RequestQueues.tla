---------------------------- MODULE RequestQueues ----------------------------
(***************************************************************************)
(* The queues that serialize the RPC handlers of the CLI runtime, and the  *)
(* gate that closes when a connection ends.                                *)
(*                                                                         *)
(* Source: codex-rs/cli-runtime/src: request_serialization.rs              *)
(* (RequestSerializationQueues), connection_rpc_gate.rs                    *)
(* (ConnectionRpcGate) and message_processor.rs                            *)
(* (dispatch_initialized_client_request, connection_closed).               *)
(*                                                                         *)
(* Each key in the map has one drain task.  An action is what a task does  *)
(* under one lock, or the return of a handler.  A handler may panic: the   *)
(* panic ends the drain task that polls it, with the rest of its batch.    *)
(***************************************************************************)
EXTENDS Naturals, Sequences

CONSTANTS
    Requests,       \* the requests clients send (bound)
    Reads,          \* those with RequestSerializationAccess::SharedRead
    Keys,           \* RequestSerializationQueueKeys
    NoKey,          \* a request without a serialization scope
    Connections,
    Panics          \* whether handlers may panic

ASSUME RequestQueuesAssumption ==
    /\ Reads \subseteq Requests /\ NoKey \notin Keys /\ Connections # {} /\ Panics \in BOOLEAN

VARIABLES
    arrived,        \* requests dispatched so far
    number,         \* each request's place in that order, 0 before
    key, conn,      \* each request's key and connection
    state,          \* how far each request has come
    listed,         \* the keys in the map
    queue,          \* the queue of each key
    batch,          \* what the drain task of each key has taken
    drain,          \* the drain task of each key: "none", "lock", "join" or "dead"
    accepting,      \* ConnectionRpcGate.accepting of each connection
    closing         \* connection_closed: "open", "draining", "drained" or "timedOut"

vars == <<arrived, number, key, conn, state, listed, queue, batch, drain, accepting, closing>>

orderVars == <<arrived, number, key, conn>>
queueVars == <<listed, queue, batch, drain>>
gateVars == <<accepting, closing>>

Over == {"done", "skipped", "panicked", "dropped"}
States == {"new", "queued", "taken", "running"} \cup Over

\* A batch is reads, or one request of either kind.
BatchAgrees ==
    \A k \in Keys : \A r, s \in batch[k] : r = s \/ (r \in Reads /\ s \in Reads)

\* The shapes of the state; what one round of drain takes is never a mix of reads and an
\* exclusive request (request_serialization.rs, the loop that collects reads).
TypeOK ==
    /\ arrived \in Nat /\ number \in [Requests -> 0..arrived]
    /\ key \in [Requests -> Keys \cup {NoKey}] /\ conn \in [Requests -> Connections]
    /\ state \in [Requests -> States]
    /\ listed \subseteq Keys
    /\ queue \in [Keys -> Seq(Requests)]
    /\ batch \in [Keys -> SUBSET Requests] /\ BatchAgrees
    /\ drain \in [Keys -> {"none", "lock", "join", "dead"}]
    /\ accepting \in [Connections -> BOOLEAN]
    /\ closing \in [Connections -> {"open", "draining", "drained", "timedOut"}]

Init ==
    /\ arrived = 0 /\ number = [r \in Requests |-> 0]
    /\ key = [r \in Requests |-> NoKey] /\ conn \in [Requests -> Connections]
    /\ state = [r \in Requests |-> "new"]
    /\ listed = {} /\ queue = [k \in Keys |-> << >>] /\ batch = [k \in Keys |-> {}]
    /\ drain = [k \in Keys |-> "none"]
    /\ accepting = [c \in Connections |-> TRUE] /\ closing = [c \in Connections |-> "open"]

-----------------------------------------------------------------------------
\* dispatch_initialized_client_request: a request comes in while its connection is open, and
\* its scope decides the key.  The loop of a connection awaits each dispatch, so requests
\* have an order, which arrived and number record; the code keeps no such count.
Arrive(r, k) ==
    /\ state[r] = "new" /\ closing[conn[r]] = "open"
    /\ arrived' = arrived + 1
    /\ number' = [number EXCEPT ![r] = arrived + 1]
    /\ key' = [key EXCEPT ![r] = k]
    /\ UNCHANGED conn

\* Mutant of Enqueue: the drain task is spawned for every request.
EnqueueSpawns(r, k) ==
    /\ Arrive(r, k)
    /\ state' = [state EXCEPT ![r] = "queued"]
    /\ queue' = [queue EXCEPT ![k] = Append(@, r)]
    /\ listed' = listed \cup {k}
    /\ drain' = [drain EXCEPT ![k] = "lock"]
    /\ UNCHANGED <<batch, gateVars>>

\* dispatch_initialized_client_request of a request with a scope: enqueue
Enqueue(r, k) ==
    /\ Arrive(r, k)
    /\ state' = [state EXCEPT ![r] = "queued"]
    /\ queue' = [queue EXCEPT ![k] = Append(@, r)]
    /\ listed' = listed \cup {k}
    /\ drain' = IF k \in listed THEN drain ELSE [drain EXCEPT ![k] = "lock"]
    /\ UNCHANGED <<batch, gateVars>>

\* ... and of one without: a task of its own
Spawn(r) ==
    /\ Arrive(r, NoKey)
    /\ state' = [state EXCEPT ![r] = "taken"]
    /\ UNCHANGED <<queueVars, gateVars>>

\* Mutant of Taken: the request that ends the reads has already been taken off the queue.
TakenPast(q, n) ==
    /\ n \in 1..Len(q)
    /\ \/ q[1] \notin Reads /\ n = 1
       \/ /\ \A i \in 1..n-1 : q[i] \in Reads
          /\ q[n] \notin Reads \/ n = Len(q)

\* How many requests at the head of queue q one round of drain takes: all reads up to the
\* first exclusive request, or one exclusive request.
Taken(q, n) ==
    /\ n \in 1..Len(q)
    /\ \/ q[1] \notin Reads /\ n = 1
       \/ /\ \A i \in 1..n : q[i] \in Reads
          /\ n < Len(q) => q[n + 1] \notin Reads

\* Mutant of Take: reads are taken from behind an exclusive request.
TakeReads(k) ==
    /\ drain[k] = "lock" /\ queue[k] # << >>
    /\ LET q == queue[k]
           taken == {q[1]} \cup (IF q[1] \in Reads THEN {q[i] : i \in DOMAIN q} \cap Reads ELSE {})
       IN  /\ batch' = [batch EXCEPT ![k] = taken]
           /\ queue' = [queue EXCEPT ![k] = SelectSeq(q, LAMBDA r : r \notin taken)]
           /\ state' = [r \in Requests |-> IF r \in taken THEN "taken" ELSE state[r]]
    /\ drain' = [drain EXCEPT ![k] = "join"]
    /\ UNCHANGED <<orderVars, listed, gateVars>>

\* drain under the lock of the map: a batch, or the end of the task
Take(k) ==
    /\ drain[k] = "lock" /\ queue[k] # << >>
    /\ \E n \in 1..Len(queue[k]) :
          /\ Taken(queue[k], n)
          /\ batch' = [batch EXCEPT ![k] = {queue[k][i] : i \in 1..n}]
          /\ queue' = [queue EXCEPT ![k] = SubSeq(@, n + 1, Len(@))]
          /\ state' = [r \in Requests |->
                         IF \E i \in 1..n : r = queue[k][i] THEN "taken" ELSE state[r]]
    /\ drain' = [drain EXCEPT ![k] = "join"]
    /\ UNCHANGED <<orderVars, listed, gateVars>>

\* Mutant of Retire: the task ends and the key stays in the map.
RetireListed(k) ==
    /\ drain[k] = "lock" /\ queue[k] = << >>
    /\ drain' = [drain EXCEPT ![k] = "none"]
    /\ UNCHANGED <<orderVars, state, listed, queue, batch, gateVars>>

Retire(k) ==
    /\ drain[k] = "lock" /\ queue[k] = << >>
    /\ listed' = listed \ {k}
    /\ drain' = [drain EXCEPT ![k] = "none"]
    /\ UNCHANGED <<orderVars, state, queue, batch, gateVars>>

\* join_all returns
Joined(k) ==
    /\ drain[k] = "join" /\ \A r \in batch[k] : state[r] \in Over
    /\ batch' = [batch EXCEPT ![k] = {}]
    /\ drain' = [drain EXCEPT ![k] = "lock"]
    /\ UNCHANGED <<orderVars, state, listed, queue, gateVars>>

\* Mutant of Enter: the gate's flag is read without its lock, before it is closed.
EnterUngated(r) ==
    /\ state[r] = "taken"
    /\ state' = [state EXCEPT ![r] = "running"]
    /\ UNCHANGED <<orderVars, queueVars, gateVars>>

\* QueuedInitializedRequest::run and ConnectionRpcGate::run up to the handler
Enter(r) ==
    /\ state[r] = "taken"
    /\ state' = [state EXCEPT ![r] = IF accepting[conn[r]] THEN "running" ELSE "skipped"]
    /\ UNCHANGED <<orderVars, queueVars, gateVars>>

HandlerReturns(r) ==
    /\ state[r] = "running"
    /\ state' = [state EXCEPT ![r] = "done"]
    /\ UNCHANGED <<orderVars, queueVars, gateVars>>

\* A panic unwinds the task that polls the handler.  The rest of a batch is dropped with
\* it, and nobody takes the key out of the map.
HandlerPanics(r) ==
    /\ Panics /\ state[r] = "running"
    /\ state' = [s \in Requests |->
                   IF s = r THEN "panicked"
                   ELSE IF key[r] # NoKey /\ s \in batch[key[r]] /\ state[s] \notin Over
                        THEN "dropped" ELSE state[s]]
    /\ drain' = [k \in Keys |-> IF k = key[r] THEN "dead" ELSE drain[k]]
    /\ UNCHANGED <<orderVars, listed, queue, batch, gateVars>>

-----------------------------------------------------------------------------
\* connection_closed: ConnectionRpcGate::close, then the wait for its tracked tasks or
\* the end of CONNECTION_RPC_DRAIN_TIMEOUT
Close(c) ==
    /\ closing[c] = "open"
    /\ accepting' = [accepting EXCEPT ![c] = FALSE]
    /\ closing' = [closing EXCEPT ![c] = "draining"]
    /\ UNCHANGED <<orderVars, state, queueVars>>

InFlight(c) == {r \in Requests : conn[r] = c /\ state[r] = "running"}

Drained(c) ==
    /\ closing[c] = "draining" /\ InFlight(c) = {}
    /\ closing' = [closing EXCEPT ![c] = "drained"]
    /\ UNCHANGED <<orderVars, state, queueVars, accepting>>

DrainTimesOut(c) ==
    /\ closing[c] = "draining"
    /\ closing' = [closing EXCEPT ![c] = "timedOut"]
    /\ UNCHANGED <<orderVars, state, queueVars, accepting>>

-----------------------------------------------------------------------------
Dispatch(r) == Spawn(r) \/ \E k \in Keys : Enqueue(r, k)
Drain(k) == Take(k) \/ Retire(k) \/ Joined(k)
Handle(r) == Enter(r) \/ HandlerReturns(r)
CloseConnection(c) == Close(c) \/ Drained(c) \/ DrainTimesOut(c)

Next ==
    \/ \E r \in Requests : Dispatch(r) \/ Handle(r) \/ HandlerPanics(r)
    \/ \E k \in Keys : Drain(k)
    \/ \E c \in Connections : CloseConnection(c)

Spec == Init /\ [][Next]_vars

(***************************************************************************)
(* The executor runs every task that can go on, and handlers return.       *)
(***************************************************************************)
Fairness ==
    /\ \A k \in Keys : WF_vars(Drain(k))
    /\ \A r \in Requests : WF_vars(Handle(r))

FairSpec == Spec /\ Fairness

-----------------------------------------------------------------------------
(* Properties.                                                               *)

Stage == [r \in Requests |->
    IF state[r] = "new" THEN "new"
    ELSE IF state[r] \in {"queued", "taken"} THEN "waiting"
    ELSE IF state[r] = "running" THEN "running" ELSE "ended"]

Order == INSTANCE RequestOrder WITH stage <- Stage

\* Handlers of one key run in the order of their requests, exclusive ones alone, whatever
\* the drain tasks, the gates and panicking handlers do (request_serialization.rs).
InOrder == Order!Spec

\* Closing the gate "prevents queued handlers from starting while allowing handlers that
\* already acquired a token to finish": once a connection has drained, none of its handlers
\* runs, although its requests may still be in the queues (connection_rpc_gate.rs).
DrainedQuiet == \A c \in Connections : closing[c] = "drained" => InFlight(c) = {}

\* Once connection_closed has closed the gate, no handler of the connection starts, although
\* its requests are still taken from the queues: neither while the connection drains nor
\* after the drain has timed out with handlers still running (connection_rpc_gate.rs).
ClosingStartsNone ==
    [][\A c \in Connections : closing[c] # "open" => InFlight(c)' \subseteq InFlight(c)]_vars

\* A key in the map has a drain task, or had one that the panic of one of its handlers ended;
\* no key outside has one, and a queue that holds requests is in the map: what enqueue relies
\* on when it spawns none, or one (request_serialization.rs).
OneDrain ==
    \A k \in Keys :
        /\ k \in listed <=> drain[k] # "none"
        /\ drain[k] = "dead" => \E r \in Requests : key[r] = k /\ state[r] = "panicked"
        /\ queue[k] # << >> => k \in listed
        /\ drain[k] # "join" => \A r \in batch[k] : state[r] \in Over

\* Every request that arrives is handled or skipped, unless a panic killed its drain task:
\* again and again, no request is under way (a request arrives once, so this says that each
\* of them ends).
Settled(r) == state[r] \in Over \cup {"new"} \/ (key[r] \in Keys /\ drain[key[r]] = "dead")

Handled == []<>(\A r \in Requests : Settled(r))
=============================================================================
