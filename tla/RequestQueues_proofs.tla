------------------------ MODULE RequestQueues_proofs ------------------------
(***************************************************************************)
(* Proofs about RequestQueues, for any sets of requests, keys and          *)
(* connections: the invariants of its run, and that the queues implement   *)
(* RequestOrder.                                                           *)
(***************************************************************************)
EXTENDS RequestQueues, TLAPS

\* A request has a number as soon as it has arrived.
Numbered == \A r \in Requests : number[r] = 0 <=> state[r] = "new"

\* The queue of a key holds exactly the queued requests of that key, in the order of
\* their arrival.
QueueHolds ==
    \A k \in Keys : \A i \in 1..Len(queue[k]) :
        state[queue[k][i]] = "queued" /\ key[queue[k][i]] = k
QueueSorted ==
    \A k \in Keys : \A i, j \in 1..Len(queue[k]) :
        i < j => number[queue[k][i]] < number[queue[k][j]]
QueuedIn ==
    \A r \in Requests : state[r] = "queued" =>
        key[r] \in Keys /\ \E i \in 1..Len(queue[key[r]]) : queue[key[r]][i] = r

\* The batch of a key holds every request of that key that has left the queue and is not
\* over.
BatchHolds ==
    \A k \in Keys : \A r \in batch[k] : key[r] = k /\ state[r] \in {"taken", "running"} \cup Over
InBatch ==
    \A r \in Requests : state[r] \in {"taken", "running"} /\ key[r] \in Keys => r \in batch[key[r]]

\* What has left a queue came before what is in it.
Ahead ==
    \A r, s \in Requests :
        key[r] \in Keys /\ key[s] = key[r] /\ state[s] = "queued" /\ state[r] \notin {"new", "queued"}
            => number[r] < number[s]

\* A connection that is not open does not accept.
GateClosed == \A c \in Connections : closing[c] # "open" => accepting[c] = FALSE

IInv ==
    /\ TypeOK /\ Numbered /\ QueueHolds /\ QueueSorted /\ QueuedIn
    /\ BatchHolds /\ InBatch /\ BatchAgrees /\ Ahead
    /\ OneDrain /\ GateClosed /\ DrainedQuiet

-----------------------------------------------------------------------------
LEMMA InitInvariant == Init => IInv
BY RequestQueuesAssumption
DEF Init, IInv, TypeOK, Numbered, QueueHolds, QueueSorted, QueuedIn, BatchHolds, InBatch,
    BatchAgrees, Ahead, OneDrain, GateClosed, DrainedQuiet, InFlight, States, Over

\* Appending to a queue, and dropping its first requests.
LEMMA AppendFacts ==
    ASSUME NEW S, NEW q \in Seq(S), NEW r \in S
    PROVE  /\ Append(q, r) \in Seq(S)
           /\ Len(Append(q, r)) = Len(q) + 1
           /\ \A i \in 1..Len(q) : Append(q, r)[i] = q[i]
           /\ Append(q, r)[Len(q) + 1] = r
OBVIOUS

LEMMA RestFacts ==
    ASSUME NEW S, NEW q \in Seq(S), NEW n \in 1..Len(q)
    PROVE  /\ SubSeq(q, n + 1, Len(q)) \in Seq(S)
           /\ Len(SubSeq(q, n + 1, Len(q))) = Len(q) - n
           /\ \A i \in 1..(Len(q) - n) : SubSeq(q, n + 1, Len(q))[i] = q[n + i]
OBVIOUS

LEMMA EnqueueInvariant ==
    ASSUME IInv, NEW r \in Requests, NEW k \in Keys, Enqueue(r, k)
    PROVE  IInv'
<1> USE DEF IInv, Enqueue, Arrive, gateVars
<1>t. TypeOK
  OBVIOUS
<1>q. /\ queue[k] \in Seq(Requests) /\ Len(queue[k]) \in Nat
      /\ \A i \in 1..Len(queue[k]) : queue[k][i] \in Requests
  BY <1>t DEF TypeOK
<1>a. /\ queue'[k] = Append(queue[k], r)
      /\ \A j \in Keys : j # k => queue'[j] = queue[j]
      /\ Len(queue'[k]) = Len(queue[k]) + 1
      /\ \A i \in 1..Len(queue[k]) : queue'[k][i] = queue[k][i]
      /\ queue'[k][Len(queue[k]) + 1] = r
  BY <1>t, <1>q, AppendFacts DEF TypeOK
<1>b. \A s \in Requests : s # r => state'[s] = state[s] /\ key'[s] = key[s] /\ number'[s] = number[s]
  BY <1>t DEF TypeOK
<1>c. state'[r] = "queued" /\ key'[r] = k /\ number'[r] = arrived + 1 /\ state[r] = "new"
  BY <1>t DEF TypeOK
<1>d. \A s \in Requests : number[s] \in Nat /\ number[s] <= arrived
  BY <1>t DEF TypeOK
<1>e. \A j \in Keys : \A i \in 1..Len(queue[j]) : queue[j][i] \in Requests /\ queue[j][i] # r
  BY <1>t, <1>c DEF TypeOK, QueueHolds
<1>f. arrived \in Nat /\ NoKey \notin Keys
  BY <1>t, RequestQueuesAssumption DEF TypeOK
<1>1. TypeOK'
  BY <1>t, <1>a, AppendFacts, <1>d DEF TypeOK, BatchAgrees, States
<1>2. Numbered'
  BY <1>b, <1>c, <1>f DEF Numbered
<1>3. QueueHolds'
  BY <1>a, <1>b, <1>c, <1>e, <1>q DEF QueueHolds
<1>4. QueueSorted'
  <2> SUFFICES ASSUME NEW l \in Keys, NEW i \in 1..Len(queue'[l]), NEW j \in 1..Len(queue'[l]), i < j
               PROVE  number'[queue'[l][i]] < number'[queue'[l][j]]
    BY DEF QueueSorted
  <2>1. CASE l # k
    BY <2>1, <1>a, <1>b, <1>e DEF QueueSorted
  <2>2. CASE l = k /\ j <= Len(queue[k])
    <3>1. i \in 1..Len(queue[k]) /\ j \in 1..Len(queue[k])
      BY <2>2, <1>a, <1>q
    <3>2. QED
      BY <3>1, <2>2, <1>a, <1>b, <1>e DEF QueueSorted
  <2>3. CASE l = k /\ j = Len(queue[k]) + 1
    <3>1. i \in 1..Len(queue[k])
      BY <2>3, <1>a, <1>q
    <3>2. number'[queue'[k][i]] = number[queue[k][i]] /\ number[queue[k][i]] <= arrived
      BY <3>1, <1>a, <1>b, <1>d, <1>e
    <3>3. QED
      BY <3>1, <3>2, <2>3, <1>a, <1>c, <1>d, <1>f, <1>e
  <2>4. QED
    BY <2>1, <2>2, <2>3, <1>a, <1>q
<1>5. QueuedIn'
  <2> SUFFICES ASSUME NEW s \in Requests, state'[s] = "queued"
               PROVE  key'[s] \in Keys /\ \E i \in 1..Len(queue'[key'[s]]) : queue'[key'[s]][i] = s
    BY DEF QueuedIn
  <2>1. CASE s = r
    BY <2>1, <1>c, <1>a, <1>q
  <2>2. CASE s # r
    <3>1. state[s] = "queued" /\ key'[s] = key[s]
      BY <2>2, <1>b
    <3>2. key[s] \in Keys
      BY <3>1 DEF QueuedIn
    <3>3. PICK i \in 1..Len(queue[key[s]]) : queue[key[s]][i] = s
      BY <3>1 DEF QueuedIn
    <3>4. CASE key[s] = k
      BY <3>1, <3>2, <3>3, <3>4, <1>a, <1>q
    <3>5. CASE key[s] # k
      BY <3>1, <3>2, <3>3, <3>5, <1>a
    <3>6. QED
      BY <3>4, <3>5
  <2>3. QED
    BY <2>1, <2>2
<1>6. BatchHolds'
  BY <1>t, <1>b, <1>c DEF BatchHolds, TypeOK, Over
<1>7. InBatch'
  BY <1>b, <1>c DEF InBatch
<1>8. BatchAgrees'
  BY DEF BatchAgrees
<1>9. Ahead'
  <2> SUFFICES ASSUME NEW s \in Requests, NEW u \in Requests,
                      key'[s] \in Keys, key'[u] = key'[s], state'[u] = "queued",
                      state'[s] \notin {"new", "queued"}
               PROVE  number'[s] < number'[u]
    BY DEF Ahead
  <2>1. s # r
    BY <1>c
  <2>2. CASE u = r
    BY <2>1, <2>2, <1>b, <1>c, <1>d, <1>f
  <2>3. CASE u # r
    BY <2>1, <2>3, <1>b DEF Ahead
  <2>4. QED
    BY <2>2, <2>3
<1>10. OneDrain'
  <2>1. \A j \in Keys : j \in listed' <=> drain'[j] # "none"
    BY <1>t DEF OneDrain, TypeOK
  <2>2. \A j \in Keys : queue'[j] # << >> => j \in listed'
    BY <1>a DEF OneDrain
  <2>3. \A j \in Keys : drain'[j] # "join" => drain[j] # "join"
    BY <1>t DEF OneDrain, TypeOK
  <2>4. \A j \in Keys : drain'[j] # "join" => \A s \in batch'[j] : state'[s] \in Over
    BY <1>t, <2>3, <1>b, <1>c DEF OneDrain, TypeOK, Over
  <2>5. QED
    BY <2>1, <2>2, <2>4 DEF OneDrain
<1>11. GateClosed'
  BY DEF GateClosed
<1>12. DrainedQuiet'
  BY <1>b, <1>c DEF DrainedQuiet, InFlight
<1>13. QED
  BY <1>1, <1>2, <1>3, <1>4, <1>5, <1>6, <1>7, <1>8, <1>9, <1>10, <1>11, <1>12

LEMMA SpawnInvariant ==
    ASSUME IInv, NEW r \in Requests, Spawn(r)
    PROVE  IInv'
<1> USE DEF IInv, Spawn, Arrive, gateVars, queueVars
<1>t. TypeOK
  OBVIOUS
<1>b. \A s \in Requests : s # r => state'[s] = state[s] /\ key'[s] = key[s] /\ number'[s] = number[s]
  BY <1>t DEF TypeOK
<1>c. state'[r] = "taken" /\ key'[r] = NoKey /\ number'[r] = arrived + 1 /\ state[r] = "new"
  BY <1>t DEF TypeOK
<1>d. \A s \in Requests : number[s] \in Nat /\ number[s] <= arrived
  BY <1>t DEF TypeOK
<1>e. \A j \in Keys : \A i \in 1..Len(queue[j]) : queue[j][i] \in Requests /\ queue[j][i] # r
  BY <1>t, <1>c DEF TypeOK, QueueHolds
<1>f. arrived \in Nat /\ NoKey \notin Keys
  BY <1>t, RequestQueuesAssumption DEF TypeOK
<1>g. \A j \in Keys : batch[j] \subseteq Requests /\ r \notin batch[j]
  BY <1>t, <1>c DEF TypeOK, BatchHolds, Over
<1>1. TypeOK'
  BY <1>t, <1>d DEF TypeOK, BatchAgrees, States
<1>2. Numbered'
  BY <1>b, <1>c, <1>f DEF Numbered
<1>3. QueueHolds'
  BY <1>b, <1>e DEF QueueHolds
<1>4. QueueSorted'
  BY <1>b, <1>e DEF QueueSorted
<1>5. QueuedIn'
  BY <1>b, <1>c DEF QueuedIn
<1>6. BatchHolds'
  BY <1>b, <1>g DEF BatchHolds
<1>7. InBatch'
  BY <1>b, <1>c, <1>f DEF InBatch
<1>8. BatchAgrees'
  BY DEF BatchAgrees
<1>9. Ahead'
  BY <1>b, <1>c, <1>f DEF Ahead
<1>10. OneDrain'
  BY <1>b, <1>g DEF OneDrain
<1>11. GateClosed'
  BY DEF GateClosed
<1>12. DrainedQuiet'
  BY <1>b, <1>c DEF DrainedQuiet, InFlight
<1>13. QED
  BY <1>1, <1>2, <1>3, <1>4, <1>5, <1>6, <1>7, <1>8, <1>9, <1>10, <1>11, <1>12

LEMMA TakeInvariant ==
    ASSUME IInv, NEW k \in Keys, Take(k)
    PROVE  IInv'
<1>t. TypeOK
  BY DEF IInv
<1>i. /\ Numbered /\ QueueHolds /\ QueueSorted /\ QueuedIn /\ BatchHolds /\ InBatch
      /\ BatchAgrees /\ Ahead /\ OneDrain /\ GateClosed /\ DrainedQuiet
  BY DEF IInv
<1>u. /\ drain[k] = "lock" /\ drain' = [drain EXCEPT ![k] = "join"]
      /\ UNCHANGED <<arrived, number, key, conn, listed, accepting, closing>>
  BY DEF Take, orderVars, gateVars
<1> DEFINE q == queue[k]
<1>q. /\ q \in Seq(Requests) /\ Len(q) \in Nat /\ drain[k] = "lock"
      /\ \A i \in 1..Len(q) : q[i] \in Requests /\ state[q[i]] = "queued" /\ key[q[i]] = k
  BY <1>t, <1>i, <1>u DEF TypeOK, QueueHolds
<1>n. PICK n \in 1..Len(q) :
          /\ Taken(q, n)
          /\ batch' = [batch EXCEPT ![k] = {q[i] : i \in 1..n}]
          /\ queue' = [queue EXCEPT ![k] = SubSeq(@, n + 1, Len(@))]
          /\ state' = [r \in Requests |-> IF \E i \in 1..n : r = q[i] THEN "taken" ELSE state[r]]
  BY DEF Take
<1> DEFINE took == {q[i] : i \in 1..n}
<1>a. /\ queue'[k] \in Seq(Requests)
      /\ Len(queue'[k]) = Len(q) - n
      /\ \A i \in 1..(Len(q) - n) : queue'[k][i] = q[n + i]
      /\ \A j \in Keys : j # k => queue'[j] = queue[j]
  BY <1>t, <1>q, <1>n, RestFacts, <1>i, <1>u DEF TypeOK
<1>b. /\ took \subseteq Requests
      /\ \A r \in took : state'[r] = "taken" /\ state[r] = "queued" /\ key[r] = k
      /\ \A r \in Requests : r \notin took => state'[r] = state[r]
  <2>1. \A i \in 1..n : i \in 1..Len(q)
    BY <1>q
  <2>2. \A r \in took : r \in Requests /\ state[r] = "queued" /\ key[r] = k /\ \E i \in 1..n : r = q[i]
    BY <2>1, <1>q
  <2>3. \A r \in Requests : state'[r] = IF \E i \in 1..n : r = q[i] THEN "taken" ELSE state[r]
    BY <1>n
  <2>4. QED
    BY <2>2, <2>3
<1>c. /\ batch'[k] = took
      /\ \A j \in Keys : j # k => batch'[j] = batch[j]
  BY <1>n, <1>t, <1>i, <1>u DEF TypeOK
<1>d. \A i, j \in 1..Len(q) : i < j => number[q[i]] < number[q[j]]
  BY <1>i, <1>u DEF QueueSorted
<1>e. \A r \in Requests : number[r] \in Nat
  BY <1>t, <1>i, <1>u DEF TypeOK
<1>f. \A i \in 1..Len(q) : i > n => q[i] \notin took
  <2> SUFFICES ASSUME NEW i \in 1..Len(q), i > n, NEW j \in 1..n PROVE q[i] # q[j]
    OBVIOUS
  <2>1. j \in 1..Len(q) /\ j < i
    BY <1>q
  <2>2. number[q[j]] < number[q[i]] /\ number[q[j]] \in Nat
    BY <2>1, <1>d, <1>e, <1>q
  <2>3. QED
    BY <2>2
<1>g. BatchAgrees'
  <2>1. \A r, s \in took : r = s \/ (r \in Reads /\ s \in Reads)
    BY <1>n, <1>i, <1>u DEF Taken
  <2>2. QED
    BY <2>1, <1>c, <1>i, <1>u DEF BatchAgrees
<1>1. TypeOK'
  <2>1. took \in SUBSET Requests
    BY <1>b
  <2>2. batch' \in [Keys -> SUBSET Requests]
    BY <1>n, <1>t, <2>1, <1>i, <1>u DEF TypeOK
  <2>3. queue' \in [Keys -> Seq(Requests)]
    BY <1>n, <1>t, <1>q, RestFacts, <1>i, <1>u DEF TypeOK
  <2>4. state' \in [Requests -> States]
    BY <1>n, <1>t, <1>i, <1>u DEF TypeOK, States
  <2>5. QED
    BY <1>t, <2>2, <2>3, <2>4, <1>g, <1>i, <1>u DEF TypeOK
<1>2. Numbered'
  BY <1>b, <1>i, <1>u DEF Numbered
<1>3. QueueHolds'
  <2> SUFFICES ASSUME NEW l \in Keys, NEW i \in 1..Len(queue'[l])
               PROVE  state'[queue'[l][i]] = "queued" /\ key'[queue'[l][i]] = l
    BY <1>i, <1>u DEF QueueHolds
  <2>1. CASE l = k
    <3>0. i \in 1..(Len(q) - n)
      BY <2>1, <1>a
    <3>1. n + i \in 1..Len(q) /\ n + i > n /\ queue'[l][i] = q[n + i]
      BY <3>0, <2>1, <1>a, <1>q
    <3>2. q[n + i] \in Requests /\ state[q[n + i]] = "queued" /\ key[q[n + i]] = k
      BY <3>1, <1>q
    <3>3. q[n + i] \notin took
      BY <3>1, <1>f
    <3> HIDE DEF took
    <3>4. state'[q[n + i]] = "queued" /\ key' = key
      BY <3>2, <3>3, <1>b, <1>u
    <3>5. QED
      BY <3>1, <3>2, <3>4, <2>1
  <2>2. CASE l # k
    <3>1. queue'[l][i] = queue[l][i] /\ i \in 1..Len(queue[l]) /\ queue[l][i] \in Requests
      BY <2>2, <1>a, <1>t, <1>i, <1>u DEF TypeOK
    <3>2. state[queue[l][i]] = "queued" /\ key[queue[l][i]] = l
      BY <3>1, <1>i, <1>u DEF QueueHolds
    <3>3. queue[l][i] \notin took
      BY <3>2, <2>2, <1>b
    <3>4. QED
      BY <3>1, <3>2, <3>3, <1>b, <1>u
  <2>3. QED
    BY <2>1, <2>2
<1>4. QueueSorted'
  <2> SUFFICES ASSUME NEW l \in Keys, NEW i \in 1..Len(queue'[l]), NEW j \in 1..Len(queue'[l]), i < j
               PROVE  number[queue'[l][i]] < number[queue'[l][j]]
    BY <1>i, <1>u DEF QueueSorted
  <2>1. CASE l = k
    <3>0. i \in 1..(Len(q) - n) /\ j \in 1..(Len(q) - n)
      BY <2>1, <1>a
    <3>1. /\ n + i \in 1..Len(q) /\ queue'[l][i] = q[n + i]
          /\ n + j \in 1..Len(q) /\ queue'[l][j] = q[n + j] /\ n + i < n + j
      BY <3>0, <2>1, <1>a, <1>q
    <3>2. QED
      BY <3>1, <1>d
  <2>2. CASE l # k
    BY <2>2, <1>a, <1>i, <1>u DEF QueueSorted
  <2>3. QED
    BY <2>1, <2>2
<1>5. QueuedIn'
  <2> SUFFICES ASSUME NEW s \in Requests, state'[s] = "queued"
               PROVE  key[s] \in Keys /\ \E i \in 1..Len(queue'[key[s]]) : queue'[key[s]][i] = s
    BY <1>i, <1>u DEF QueuedIn
  <2>1. s \notin took /\ state[s] = "queued"
    BY <1>b
  <2>2. key[s] \in Keys
    BY <2>1, <1>i, <1>u DEF QueuedIn
  <2>3. PICK i \in 1..Len(queue[key[s]]) : queue[key[s]][i] = s
    BY <2>1, <1>i, <1>u DEF QueuedIn
  <2>4. CASE key[s] = k
    <3>1. i \in 1..Len(q) /\ q[i] = s /\ ~(i \in 1..n)
      BY <2>1, <2>3, <2>4
    <3>2. i - n \in 1..(Len(q) - n) /\ n + (i - n) = i
      BY <3>1, <1>q, <1>n
    <3>3. queue'[k][i - n] = s /\ i - n \in 1..Len(queue'[k])
      BY <3>1, <3>2, <1>a
    <3>4. QED
      BY <2>4, <3>3
  <2>5. CASE key[s] # k
    BY <2>2, <2>3, <2>5, <1>a
  <2>6. QED
    BY <2>4, <2>5
<1>6. BatchHolds'
  <2>1. \A j \in Keys : batch[j] \subseteq Requests /\ batch[j] \cap took = {}
    BY <1>t, <1>b, <1>i, <1>u, ZenonT(40) DEF TypeOK, BatchHolds, Over
  <2>2. QED
    BY <2>1, <1>b, <1>c, <1>i, <1>u DEF BatchHolds
<1>7. InBatch'
  <2> SUFFICES ASSUME NEW r \in Requests, state'[r] \in {"taken", "running"}, key[r] \in Keys
               PROVE  r \in batch'[key[r]]
    BY <1>i, <1>u DEF InBatch
  <2>1. CASE r \in took
    BY <2>1, <1>b, <1>c
  <2>2. CASE r \notin took
    <3>1. state[r] \in {"taken", "running"} /\ r \in batch[key[r]]
      BY <2>2, <1>b, <1>i, <1>u DEF InBatch
    <3>2. key[r] # k
      BY <3>1, <1>q, <1>i, <1>u DEF OneDrain, Over
    <3>3. QED
      BY <3>1, <3>2, <1>c
  <2>3. QED
    BY <2>1, <2>2
<1>9. Ahead'
  <2> SUFFICES ASSUME NEW r \in Requests, NEW s \in Requests,
                      key[r] \in Keys, key[s] = key[r], state'[s] = "queued",
                      state'[r] \notin {"new", "queued"}
               PROVE  number[r] < number[s]
    BY <1>i, <1>u DEF Ahead
  <2>1. s \notin took /\ state[s] = "queued"
    BY <1>b
  <2>2. CASE r \in took
    <3>1. key[s] = k
      BY <2>2, <1>b
    <3>2. PICK i \in 1..n : q[i] = r
      BY <2>2
    <3>3. PICK j \in 1..Len(q) : q[j] = s
      BY <3>1, <2>1, <1>i, <1>u DEF QueuedIn
    <3>4. i \in 1..Len(q) /\ i < j
      BY <2>1, <3>2, <3>3, <1>n, <1>q
    <3>5. QED
      BY <3>2, <3>3, <3>4, <1>d
  <2>3. CASE r \notin took
    BY <2>1, <2>3, <1>b, <1>i, <1>u DEF Ahead
  <2>4. QED
    BY <2>2, <2>3
<1>10. OneDrain'
  <2>1. \A j \in Keys : j # k => drain'[j] = drain[j]
    BY <1>t, <1>i, <1>u DEF TypeOK
  <2>2. drain'[k] = "join" /\ k \in listed
    BY <1>t, <1>q, <1>i, <1>u DEF TypeOK, OneDrain
  <2>3. \A j \in Keys : batch[j] \subseteq Requests /\ batch[j] \cap took = {}
    BY <1>t, <1>b, <1>i, <1>u, ZenonT(40) DEF TypeOK, BatchHolds, Over
  <2>4. QED
    BY <2>1, <2>2, <2>3, <1>a, <1>b, <1>c, <1>i, <1>u DEF OneDrain
<1>11. GateClosed'
  BY <1>i, <1>u DEF GateClosed
<1>12. DrainedQuiet'
  BY <1>b, <1>i, <1>u DEF DrainedQuiet, InFlight
<1>13. QED
  BY <1>1, <1>2, <1>3, <1>4, <1>5, <1>6, <1>7, <1>g, <1>9, <1>10, <1>11, <1>12 DEF IInv

\* The steps that change neither queues, numbers nor keys.
LEMMA RetireInvariant ==
    ASSUME IInv, NEW k \in Keys, Retire(k)
    PROVE  IInv'
<1> USE DEF IInv, Retire, gateVars, orderVars
<1>1. TypeOK'
  BY DEF TypeOK, BatchAgrees
<1>2. OneDrain'
  BY DEF OneDrain, TypeOK
<1>3. QED
  BY <1>1, <1>2 DEF Numbered, QueueHolds, QueueSorted, QueuedIn, BatchHolds, InBatch, BatchAgrees,
     Ahead, GateClosed, DrainedQuiet, InFlight

LEMMA JoinedInvariant ==
    ASSUME IInv, NEW k \in Keys, Joined(k)
    PROVE  IInv'
<1> USE DEF IInv, Joined, gateVars, orderVars
<1>1. TypeOK'
  BY DEF TypeOK, BatchAgrees
<1>2. batch'[k] = {} /\ \A j \in Keys : j # k => batch'[j] = batch[j]
  BY DEF TypeOK
<1>3. BatchHolds' /\ BatchAgrees'
  BY <1>2 DEF BatchHolds, BatchAgrees
<1>4. InBatch'
  BY <1>2 DEF InBatch, Over
<1>5. OneDrain'
  BY <1>2 DEF OneDrain, TypeOK
<1>6. QED
  BY <1>1, <1>3, <1>4, <1>5 DEF Numbered, QueueHolds, QueueSorted, QueuedIn, Ahead, GateClosed,
     DrainedQuiet, InFlight

\* The steps of handlers: some requests that have left the queues go on, or are over, and
\* one that begins to run is accepted by its connection.
LEMMA HandlerInvariant ==
    ASSUME IInv, NEW S \in SUBSET Requests,
           UNCHANGED <<orderVars, listed, queue, batch, gateVars>>,
           state' \in [Requests -> States],
           \A r \in S : state[r] \in {"taken", "running"} /\ state'[r] \in {"running"} \cup Over,
           \A r \in Requests : r \notin S => state'[r] = state[r],
           \A r \in S : state'[r] = "running" => accepting[conn[r]],
           OneDrain', TypeOK'
    PROVE  IInv'
<1> USE DEF IInv, orderVars, gateVars
<1>a. \A r \in Requests : /\ state'[r] = "new" <=> state[r] = "new"
                          /\ state'[r] = "queued" <=> state[r] = "queued"
  BY DEF Over
<1>b. \A k \in Keys : /\ batch[k] \subseteq Requests
                      /\ \A i \in 1..Len(queue[k]) : queue[k][i] \in Requests
  BY DEF TypeOK
<1>1. Numbered' /\ QueueSorted' /\ BatchAgrees' /\ GateClosed'
  BY <1>a DEF Numbered, QueueSorted, BatchAgrees, GateClosed
<1>2. QueueHolds'
  BY <1>a, <1>b DEF QueueHolds
<1>3. QueuedIn'
  BY <1>a DEF QueuedIn
<1>4. BatchHolds'
  BY <1>b DEF BatchHolds
<1>5. InBatch'
  BY DEF InBatch, Over
<1>6. Ahead'
  BY <1>a DEF Ahead
<1>7. DrainedQuiet'
  BY DEF DrainedQuiet, InFlight, GateClosed, TypeOK
<1>8. QED
  BY <1>1, <1>2, <1>3, <1>4, <1>5, <1>6, <1>7

LEMMA EnterInvariant ==
    ASSUME IInv, NEW r \in Requests, Enter(r)
    PROVE  IInv'
<1> USE DEF Enter, orderVars, queueVars, gateVars
<1>1. TypeOK /\ OneDrain
  BY DEF IInv
<1>2. TypeOK' /\ state' \in [Requests -> States]
  BY <1>1 DEF TypeOK, BatchAgrees, States, Over
<1>3. OneDrain'
  BY <1>1 DEF OneDrain, TypeOK, Over
<1>4. /\ state[r] = "taken" /\ state'[r] \in {"running", "skipped"}
      /\ state'[r] = "running" => accepting[conn[r]]
      /\ \A s \in Requests : s # r => state'[s] = state[s]
  BY <1>1 DEF TypeOK
<1>5. /\ {r} \in SUBSET Requests
      /\ UNCHANGED <<orderVars, listed, queue, batch, gateVars>>
      /\ \A s \in {r} : state[s] \in {"taken", "running"} /\ state'[s] \in {"running"} \cup Over
      /\ \A s \in Requests : s \notin {r} => state'[s] = state[s]
      /\ \A s \in {r} : state'[s] = "running" => accepting[conn[s]]
  BY <1>4 DEF Over
<1>6. QED
  BY <1>2, <1>3, <1>5, HandlerInvariant

LEMMA ReturnInvariant ==
    ASSUME IInv, NEW r \in Requests, HandlerReturns(r)
    PROVE  IInv'
<1> USE DEF HandlerReturns, orderVars, queueVars, gateVars
<1>1. TypeOK /\ OneDrain
  BY DEF IInv
<1>2. TypeOK' /\ state' \in [Requests -> States]
  BY <1>1 DEF TypeOK, BatchAgrees, States, Over
<1>3. OneDrain'
  BY <1>1 DEF OneDrain, TypeOK, Over
<1>4. /\ state[r] = "running" /\ state'[r] = "done"
      /\ \A s \in Requests : s # r => state'[s] = state[s]
  BY <1>1 DEF TypeOK
<1>5. /\ {r} \in SUBSET Requests
      /\ UNCHANGED <<orderVars, listed, queue, batch, gateVars>>
      /\ \A s \in {r} : state[s] \in {"taken", "running"} /\ state'[s] \in {"running"} \cup Over
      /\ \A s \in Requests : s \notin {r} => state'[s] = state[s]
      /\ \A s \in {r} : state'[s] = "running" => accepting[conn[s]]
  BY <1>4 DEF Over
<1>6. QED
  BY <1>2, <1>3, <1>5, HandlerInvariant

\* The requests a panic ends: the one that panics and what is left of its batch.
Ended(r) ==
    {s \in Requests : s = r \/ (key[r] # NoKey /\ s \in batch[key[r]] /\ state[s] \notin Over)}

LEMMA PanicEnds ==
    ASSUME IInv, NEW r \in Requests, HandlerPanics(r)
    PROVE  /\ \A s \in Ended(r) : state[s] \in {"taken", "running"} /\ state'[s] \in Over
           /\ \A s \in Requests : s \notin Ended(r) => state'[s] = state[s]
<1> USE DEF HandlerPanics, Ended
<1>1. TypeOK /\ BatchHolds
  BY DEF IInv
<1>2. key[r] # NoKey => key[r] \in Keys
  BY <1>1 DEF TypeOK
<1>3. \A s \in Ended(r) : state[s] \in {"taken", "running"}
  BY <1>1, <1>2 DEF BatchHolds
<1>4. QED
  BY <1>3 DEF Over

LEMMA PanicInvariant ==
    ASSUME IInv, NEW r \in Requests, HandlerPanics(r)
    PROVE  IInv'
<1> USE DEF HandlerPanics, orderVars, gateVars
<1>1. TypeOK /\ OneDrain /\ InBatch /\ BatchHolds
  BY DEF IInv
<1>2. TypeOK' /\ state' \in [Requests -> States]
  BY <1>1 DEF TypeOK, BatchAgrees, States, Over
<1>3. OneDrain'
  <2>1. \A k \in Keys : batch[k] \subseteq Requests /\ \A s \in batch[k] : state[s] \in Over => state'[s] \in Over
    BY <1>1 DEF TypeOK, Over
  <2>2. \A k \in Keys : k # key[r] => drain'[k] = drain[k]
    BY <1>1 DEF TypeOK
  <2>p. key' = key /\ \A s \in Requests : state[s] = "panicked" => state'[s] = "panicked"
    BY <1>1 DEF TypeOK, Over
  <2>3. CASE key[r] \in Keys
    <3>1. r \in batch[key[r]] /\ state[r] = "running"
      BY <2>3, <1>1 DEF InBatch
    <3>2. drain[key[r]] = "join" /\ key[r] \in listed
      BY <3>1, <2>3, <1>1 DEF OneDrain, Over
    <3>3. drain'[key[r]] = "dead"
      BY <2>3
    <3>4. \A s \in batch[key[r]] : state'[s] \in Over
      BY <2>1, <2>3, RequestQueuesAssumption DEF Over
    <3>5. key' = key /\ state'[r] = "panicked"
      BY <1>1 DEF TypeOK
    <3>6. QED
      BY <2>1, <2>2, <2>3, <2>p, <3>2, <3>3, <3>4, <3>5, <1>1 DEF OneDrain
  <2>4. CASE key[r] \notin Keys
    BY <2>1, <2>2, <2>4, <2>p, <1>1 DEF OneDrain
  <2>5. QED
    BY <2>3, <2>4
<1>4. Ended(r) \in SUBSET Requests
  BY DEF Ended
<1>5. \A s \in Ended(r) : state'[s] # "running"
  BY PanicEnds DEF Over
<1>6. QED
  BY <1>2, <1>3, <1>4, <1>5, PanicEnds, HandlerInvariant

LEMMA CloseInvariant ==
    ASSUME IInv, NEW c \in Connections, CloseConnection(c)
    PROVE  IInv'
<1> USE DEF IInv, CloseConnection, Close, Drained, DrainTimesOut, orderVars, queueVars
<1>1. TypeOK'
  BY DEF TypeOK, BatchAgrees
<1>2. GateClosed'
  BY DEF GateClosed, TypeOK
<1>3. DrainedQuiet'
  BY DEF DrainedQuiet, InFlight, TypeOK
<1>4. QED
  BY <1>1, <1>2, <1>3 DEF Numbered, QueueHolds, QueueSorted, QueuedIn, BatchHolds, InBatch,
     BatchAgrees, Ahead, OneDrain

LEMMA NextInvariant == IInv /\ [Next]_vars => IInv'
<1> SUFFICES ASSUME IInv, [Next]_vars PROVE IInv'
  OBVIOUS
<1>1. CASE UNCHANGED vars
  BY <1>1 DEF vars, IInv, TypeOK, Numbered, QueueHolds, QueueSorted, QueuedIn, BatchHolds, InBatch,
     BatchAgrees, Ahead, OneDrain, GateClosed, DrainedQuiet, InFlight
<1>2. ASSUME NEW r \in Requests, Dispatch(r) PROVE IInv'
  BY <1>2, EnqueueInvariant, SpawnInvariant DEF Dispatch
<1>3. ASSUME NEW r \in Requests, Handle(r) PROVE IInv'
  BY <1>3, EnterInvariant, ReturnInvariant DEF Handle
<1>4. ASSUME NEW r \in Requests, HandlerPanics(r) PROVE IInv'
  BY <1>4, PanicInvariant
<1>5. ASSUME NEW k \in Keys, Drain(k) PROVE IInv'
  BY <1>5, TakeInvariant, RetireInvariant, JoinedInvariant DEF Drain
<1>6. ASSUME NEW c \in Connections, CloseConnection(c) PROVE IInv'
  BY <1>6, CloseInvariant
<1>7. QED
  BY <1>1, <1>2, <1>3, <1>4, <1>5, <1>6 DEF Next

\* The inductive invariant holds in every reachable state.
LEMMA Invariant == Spec => []IInv
BY InitInvariant, NextInvariant, PTL DEF Spec

-----------------------------------------------------------------------------
\* The queues' state is well typed, and no batch mixes reads and an exclusive request, for
\* any number of requests, keys and connections.
THEOREM TypeCorrect == Spec => []TypeOK
<1>1. IInv => TypeOK
  BY DEF IInv
<1>2. QED
  BY <1>1, Invariant, PTL

\* A key is in the map exactly while it has a drain task, or once the panic of one of its
\* handlers has ended that task: enqueue never spawns a second one, and nothing but a panic
\* leaves a queue without one.
THEOREM DrainUnique == Spec => []OneDrain
<1>1. IInv => OneDrain
  BY DEF IInv
<1>2. QED
  BY <1>1, Invariant, PTL

\* No handler of a connection runs once shutdown has seen the connection drained.
THEOREM QuietOnceDrained == Spec => []DrainedQuiet
<1>1. IInv => DrainedQuiet
  BY DEF IInv
<1>2. QED
  BY <1>1, Invariant, PTL

\* No handler of a connection starts after its gate was closed, drained or timed out.
THEOREM NoneStartsClosing == Spec => ClosingStartsNone
<1>1. ASSUME IInv, [Next]_vars, NEW c \in Connections, closing[c] # "open"
      PROVE  InFlight(c)' \subseteq InFlight(c)
  <2>1. TypeOK /\ accepting[c] = FALSE
    BY <1>1 DEF IInv, GateClosed
  <2>2. /\ conn' = conn
        /\ \A s \in Requests : state[s] # "running" /\ state'[s] = "running" => accepting[conn[s]]
    <3>1. CASE UNCHANGED vars
      BY <3>1 DEF vars
    <3>2. ASSUME NEW r \in Requests, Dispatch(r) \/ Handle(r) \/ HandlerPanics(r)
          PROVE  /\ conn' = conn
                 /\ \A s \in Requests : state[s] # "running" /\ state'[s] = "running" => accepting[conn[s]]
      BY <3>2, <2>1 DEF Dispatch, Spawn, Enqueue, Arrive, Handle, Enter, HandlerReturns,
         HandlerPanics, orderVars, TypeOK
    <3>3. ASSUME NEW k \in Keys, Drain(k)
          PROVE  /\ conn' = conn
                 /\ \A s \in Requests : state'[s] = "running" => state[s] = "running"
      BY <3>3, <2>1 DEF Drain, Take, Retire, Joined, orderVars, TypeOK
    <3>4. ASSUME NEW d \in Connections, CloseConnection(d) PROVE conn' = conn /\ state' = state
      BY <3>4 DEF CloseConnection, Close, Drained, DrainTimesOut, orderVars
    <3>5. QED
      BY <1>1, <3>1, <3>2, <3>3, <3>4 DEF Next
  <2>3. QED
    BY <2>1, <2>2 DEF InFlight
<1>2. IInv /\ [Next]_vars =>
        \A c \in Connections : closing[c] # "open" => InFlight(c)' \subseteq InFlight(c)
  BY <1>1
<1>3. QED
  BY <1>2, Invariant, PTL DEF Spec, ClosingStartsNone

-----------------------------------------------------------------------------
(* The refinement.                                                           *)

\* A request that a drain task or a task of its own is about to run may run: whatever
\* conflicts with it and came before it is over.
LEMMA TakenMayStart ==
    ASSUME IInv, NEW r \in Requests, state[r] = "taken"
    PROVE  Order!MayStart(r)
<1> USE DEF IInv
<1>1. SUFFICES ASSUME NEW s \in Requests, number[s] # 0, number[s] < number[r],
                      key[r] # NoKey, key[r] = key[s], ~({r, s} \subseteq Reads)
               PROVE  state[s] \in Over
  BY DEF Order!MayStart, Order!Conflict, Stage, Over
<1>2. key[r] \in Keys /\ number[r] \in Nat /\ number[s] \in Nat /\ state[s] \in States
  BY <1>1 DEF TypeOK
<1>3. state[s] # "new"
  BY <1>1 DEF Numbered
<1>4. state[s] # "queued"
  BY <1>1, <1>2 DEF Ahead
<1>5. state[s] \notin {"taken", "running"}
  <2> SUFFICES ASSUME state[s] \in {"taken", "running"} PROVE FALSE
    OBVIOUS
  <2>1. r \in batch[key[r]] /\ s \in batch[key[r]]
    BY <1>1, <1>2 DEF InBatch
  <2>2. r = s \/ (r \in Reads /\ s \in Reads)
    BY <2>1, <1>2 DEF BatchAgrees
  <2>3. QED
    BY <2>2, <1>1, <1>2
<1>6. QED
  BY <1>2, <1>3, <1>4, <1>5 DEF States

LEMMA StageOf ==
    /\ DOMAIN Stage = Requests
    /\ \A r \in Requests :
         /\ state[r] = "new" => Stage[r] = "new"
         /\ state[r] \in {"queued", "taken"} => Stage[r] = "waiting"
         /\ state[r] = "running" => Stage[r] = "running"
         /\ state[r] \in Over => Stage[r] = "ended"
BY DEF Stage, Over

LEMMA StageOfNext ==
    /\ DOMAIN Stage' = Requests
    /\ \A r \in Requests :
         /\ state'[r] = "new" => Stage'[r] = "new"
         /\ state'[r] \in {"queued", "taken"} => Stage'[r] = "waiting"
         /\ state'[r] = "running" => Stage'[r] = "running"
         /\ state'[r] \in Over => Stage'[r] = "ended"
         /\ state'[r] = state[r] => Stage'[r] = Stage[r]
BY DEF Stage, Over

\* Each action maps to an action of RequestOrder or to none.
LEMMA ArriveRefines ==
    ASSUME TypeOK, NEW r \in Requests, NEW k \in Keys \cup {NoKey}, Arrive(r, k),
           state'[r] \in {"queued", "taken"},
           \A s \in Requests : s # r => state'[s] = state[s]
    PROVE  Order!Arrive(r, k)
<1>1. Stage' = [Stage EXCEPT ![r] = "waiting"]
  BY DEF Stage, Over
<1>2. QED
  BY <1>1, StageOf DEF Arrive, Order!Arrive

LEMMA EndRefines ==
    ASSUME TypeOK, NEW S \in SUBSET Requests, UNCHANGED orderVars,
           \A s \in S : state[s] \in {"taken", "running"} /\ state'[s] \in Over,
           \A s \in Requests : s \notin S => state'[s] = state[s]
    PROVE  Order!End(S)
<1>1. \A s \in S : Stage[s] \in {"waiting", "running"}
  BY StageOf
<1>2. Stage' = [s \in Requests |-> IF s \in S THEN "ended" ELSE Stage[s]]
  BY DEF Stage, Over
<1>3. QED
  BY <1>1, <1>2 DEF Order!End, orderVars

LEMMA EnterRefines ==
    ASSUME IInv, NEW r \in Requests, Enter(r)
    PROVE  Order!Start(r) \/ Order!End({r})
<1>1. TypeOK /\ state[r] = "taken" /\ UNCHANGED orderVars
  BY DEF IInv, Enter
<1>2. \A s \in Requests : s # r => state'[s] = state[s]
  BY <1>1 DEF Enter, TypeOK
<1>3. CASE accepting[conn[r]]
  <2>1. state'[r] = "running"
    BY <1>1, <1>3 DEF Enter, TypeOK
  <2>2. Stage' = [Stage EXCEPT ![r] = "running"]
    BY <1>2, <2>1 DEF Stage, Over
  <2>3. Order!MayStart(r) /\ Stage[r] = "waiting"
    BY <1>1, TakenMayStart, StageOf
  <2>4. QED
    BY <1>1, <2>2, <2>3 DEF Order!Start, orderVars
<1>4. CASE ~accepting[conn[r]]
  <2>1. state'[r] = "skipped"
    BY <1>1, <1>4 DEF Enter, TypeOK
  <2>2. /\ {r} \in SUBSET Requests
        /\ \A s \in {r} : state[s] \in {"taken", "running"} /\ state'[s] \in Over
        /\ \A s \in Requests : s \notin {r} => state'[s] = state[s]
    BY <1>1, <1>2, <2>1 DEF Over
  <2>3. QED
    BY <1>1, <2>2, EndRefines
<1>5. QED
  BY <1>3, <1>4

LEMMA TakeRefines ==
    ASSUME IInv, NEW k \in Keys, Take(k)
    PROVE  UNCHANGED Order!vars
<1>1. TypeOK /\ QueueHolds
  BY DEF IInv
<1>2. UNCHANGED orderVars
  BY DEF Take
<1>3. PICK n \in 1..Len(queue[k]) :
        state' = [r \in Requests |-> IF \E i \in 1..n : r = queue[k][i] THEN "taken" ELSE state[r]]
  BY DEF Take
<1>4. \A i \in 1..n : i \in 1..Len(queue[k])
  BY <1>1 DEF TypeOK
<1>5. \A r \in Requests : state'[r] = state[r] \/ (state'[r] = "taken" /\ state[r] = "queued")
  BY <1>1, <1>3, <1>4 DEF QueueHolds
<1>6. \A r \in Requests : Stage'[r] = Stage[r]
  BY <1>5, StageOf, StageOfNext
<1>7. Stage' = Stage
  BY <1>6 DEF Stage
<1>8. QED
  BY <1>2, <1>7 DEF Order!vars, orderVars

LEMMA StepRefines == IInv /\ [Next]_vars => [Order!Next]_Order!vars
<1> SUFFICES ASSUME IInv, [Next]_vars PROVE [Order!Next]_Order!vars
  OBVIOUS
<1>t. TypeOK
  BY DEF IInv
<1>0. ASSUME UNCHANGED <<arrived, number, key, state>> PROVE UNCHANGED Order!vars
  BY <1>0 DEF Order!vars, Stage
<1>1. CASE UNCHANGED vars
  BY <1>0, <1>1 DEF vars
<1>2. ASSUME NEW r \in Requests, Dispatch(r) PROVE Order!Next
  <2>1. ASSUME NEW k \in Keys, Enqueue(r, k) PROVE Order!Arrive(r, k)
    BY <1>t, <2>1, ArriveRefines DEF Enqueue, TypeOK
  <2>2. ASSUME Spawn(r) PROVE Order!Arrive(r, NoKey)
    BY <1>t, <2>2, ArriveRefines DEF Spawn, TypeOK
  <2>3. QED
    BY <1>2, <2>1, <2>2 DEF Dispatch, Order!Next
<1>3. ASSUME NEW r \in Requests, Enter(r) PROVE Order!Next
  <2>1. {r} \in SUBSET Requests
    OBVIOUS
  <2>2. QED
    BY <1>3, <2>1, EnterRefines DEF Order!Next
<1>4. ASSUME NEW r \in Requests, HandlerReturns(r) PROVE Order!Next
  <2>1. /\ {r} \in SUBSET Requests /\ UNCHANGED orderVars
        /\ \A s \in {r} : state[s] \in {"taken", "running"} /\ state'[s] \in Over
        /\ \A s \in Requests : s \notin {r} => state'[s] = state[s]
    BY <1>t, <1>4 DEF HandlerReturns, TypeOK, Over
  <2>2. QED
    BY <1>t, <2>1, EndRefines DEF Order!Next
<1>5. ASSUME NEW r \in Requests, HandlerPanics(r) PROVE Order!Next
  <2>1. Ended(r) \in SUBSET Requests /\ UNCHANGED orderVars
    BY <1>5 DEF Ended, HandlerPanics
  <2>2. Order!End(Ended(r))
    BY <1>t, <1>5, <2>1, PanicEnds, EndRefines
  <2>3. QED
    BY <2>1, <2>2 DEF Order!Next
<1>6. ASSUME NEW k \in Keys, Take(k) PROVE UNCHANGED Order!vars
  BY <1>6, TakeRefines
<1>7. ASSUME NEW k \in Keys, Retire(k) \/ Joined(k) PROVE UNCHANGED Order!vars
  BY <1>0, <1>7 DEF Retire, Joined, orderVars
<1>8. ASSUME NEW c \in Connections, CloseConnection(c) PROVE UNCHANGED Order!vars
  BY <1>0, <1>8 DEF CloseConnection, Close, Drained, DrainTimesOut, orderVars
<1>9. QED
  BY <1>1, <1>2, <1>3, <1>4, <1>5, <1>6, <1>7, <1>8 DEF Next, Handle, Drain

\* The queues implement RequestOrder: handlers of one key run in the order of their requests
\* and exclusive ones alone, whatever arrives, panics or is closed meanwhile.
THEOREM QueuesKeepOrder == Spec => InOrder
<1>1. Init => Order!Init
  BY DEF Init, Order!Init, Stage
<1>2. QED
  BY <1>1, Invariant, StepRefines, PTL DEF Spec, InOrder, Order!Spec
=============================================================================
