------------------------ MODULE AgentResidency_proofs ------------------------
(***************************************************************************)
(* Proofs about AgentResidency, for any calls, agents, sessions and        *)
(* capacity: every variable keeps its type, pending_slots is the number of *)
(* calls that hold a slot, and the residency list never holds an agent     *)
(* twice.                                                                  *)
(***************************************************************************)
EXTENDS AgentResidency, TLAPS, SequenceTheorems, FiniteSetTheorems, WellFoundedInduction

ListType == residents \in Seq(Agents)

ThreadType ==
    /\ threads \in [Agents -> Sessions \cup {NoSession}]
    /\ known \in SUBSET Agents /\ used \in SUBSET Sessions

SessionType ==
    /\ chan \in [Sessions -> Seq(Calls \cup {Shutdown})]
    /\ mail \in [Sessions -> SUBSET Calls]
    /\ turn \in [Sessions -> {"none", "starting", "running"}]
    /\ final \in [Sessions -> BOOLEAN]
    /\ closed \in SUBSET used /\ heard \in SUBSET Calls

CallType ==
    /\ kind \in [Calls -> {"spawn", "followup", "message"}]
    /\ agent \in [Calls -> Agents \cup {NoAgent}]
    /\ session \in [Calls -> Sessions \cup {NoSession}]
    /\ popped \in [Calls -> Agents \cup {NoAgent}]
    /\ left \in [Calls -> Nat]

PcType == pc \in [Calls -> Labels]

\* Where a call has been told its agent, and where it has taken a candidate.
GivenLabels == {"remove", "forget", "release", "load", "touch", "resume", "finalize", "giveBack",
                "commit", "capacity", "submit"}
PickedLabels == {"inspect", "status", "turn", "mailbox", "keep", "evict", "evicting"}

Targeted ==
    \A c \in Calls : /\ pc[c] \in GivenLabels => agent[c] \in Agents
                     /\ kind[c] # "spawn" /\ pc[c] # "idle" => agent[c] \in Agents
                     /\ pc[c] \in PickedLabels => popped[c] \in Agents

\* Every session that is loaded, held by a call or sent to was created.
Created ==
    /\ \A t \in Agents : threads[t] \in used \cup {NoSession}
    /\ \A c \in Calls : session[c] \in used \cup {NoSession}
    /\ \A c \in Calls : pc[c] \in HandleLabels => session[c] \in used
    /\ \A s \in Sessions : chan[s] # << >> => s \in used

\* The list holds an agent at most once.
Distinct == \A i, j \in 1..Len(residents) : residents[i] = residents[j] => i = j

\* slots, as SlotsHeld has it.
Holders == {c \in Calls : pc[c] \in HoldingLabels}

Inv ==
    /\ ListType /\ ThreadType /\ SessionType /\ CallType /\ PcType
    /\ Targeted /\ Created /\ Distinct /\ SlotsHeld

-----------------------------------------------------------------------------
(* The list.                                                                 *)

LEMMA LeastNat ==
    ASSUME NEW T \in SUBSET Nat, T # {}
    PROVE  \E n \in T : \A m \in T : n <= m
<1>1. \E n \in T : \A m \in T : ~(<<m, n>> \in OpToRel(<, Nat))
  BY NatLessThanWellFounded, WFMin
<1>2. \E n \in T : \A m \in T : ~(m < n)
  BY <1>1 DEF OpToRel
<1>3. QED
  BY <1>2

\* q takes its entries from different places of the list, and none from the i-th: f tells where.
Selects(q, f, i) ==
    /\ q \in Seq(Agents) /\ f \in [1..Len(q) -> 1..Len(residents)]
    /\ \A j \in 1..Len(q) : q[j] = residents[f[j]] /\ f[j] # i
    /\ \A j, k \in 1..Len(q) : f[j] = f[k] => j = k

\* A list of agents without t and without repetition.
DistinctWithout(q, t) ==
    /\ q \in Seq(Agents)
    /\ \A j \in 1..Len(q) : q[j] # t
    /\ \A j, k \in 1..Len(q) : q[j] = q[k] => j = k

\* Such a selection of a list without repetition has none either, and lacks the i-th entry.
LEMMA SelectedFacts ==
    ASSUME ListType, Distinct, NEW i \in 1..Len(residents), NEW q, NEW f, Selects(q, f, i)
    PROVE  DistinctWithout(q, residents[i])
<1> USE DEF Selects
<1>1. \A j \in 1..Len(q) : f[j] \in 1..Len(residents)
  OBVIOUS
<1>2. ASSUME NEW j \in 1..Len(q), q[j] = residents[i] PROVE FALSE
  <2>1. residents[f[j]] = residents[i] /\ f[j] \in 1..Len(residents) /\ f[j] # i
    BY <1>1, <1>2
  <2>2. QED
    BY <2>1, Zenon DEF Distinct
<1>3. ASSUME NEW j \in 1..Len(q), NEW k \in 1..Len(q), q[j] = q[k] PROVE j = k
  <2>1. /\ residents[f[j]] = residents[f[k]]
        /\ f[j] \in 1..Len(residents) /\ f[k] \in 1..Len(residents)
    BY <1>1, <1>3
  <2>2. f[j] = f[k]
    BY <2>1, Zenon DEF Distinct
  <2>3. QED
    BY <2>2
<1>4. QED
  BY <1>2, <1>3 DEF DistinctWithout

\* The list without its i-th entry, in either order of its two parts.
Cut(q, i) ==
    \/ q = SubSeq(residents, 1, i - 1) \o SubSeq(residents, i + 1, Len(residents))
    \/ q = SubSeq(residents, i + 1, Len(residents)) \o SubSeq(residents, 1, i - 1)

LEMMA CutFacts ==
    ASSUME NEW i \in 1..Len(residents), ListType, Distinct, NEW q, Cut(q, i)
    PROVE  DistinctWithout(q, residents[i])
<1> USE DEF Cut
<1> DEFINE n == Len(residents)
           a == SubSeq(residents, 1, i - 1)
           b == SubSeq(residents, i + 1, n)
<1>1. n \in Nat /\ i \in Nat /\ 1 <= i /\ i <= n /\ \A j \in 1..n : residents[j] \in Agents
  BY LenProperties, ElementOfSeq DEF ListType
<1>2. /\ a \in Seq(Agents) /\ Len(a) = i - 1
      /\ \A j \in 1..(i - 1) : a[j] = residents[j]
  <2>1. /\ 1 \in Int /\ i - 1 \in Int /\ \A j \in 1..(i - 1) : residents[j] \in Agents
    BY <1>1
  <2>2. /\ a \in Seq(Agents) /\ Len(a) = (IF 1 <= i - 1 THEN (i - 1) - 1 + 1 ELSE 0)
        /\ \A j \in 1..((i - 1) - 1 + 1) : a[j] = residents[1 + j - 1]
    BY <2>1, SubSeqProperties, SMTT(30)
  <2>3. QED
    BY <1>1, <2>2
<1>3. /\ b \in Seq(Agents) /\ Len(b) = n - i
      /\ \A j \in 1..(n - i) : b[j] = residents[i + j]
  <2>1. /\ i + 1 \in Int /\ n \in Int /\ \A j \in (i + 1)..n : residents[j] \in Agents
    BY <1>1
  <2>2. /\ b \in Seq(Agents) /\ Len(b) = (IF i + 1 <= n THEN n - (i + 1) + 1 ELSE 0)
        /\ \A j \in 1..(n - (i + 1) + 1) : b[j] = residents[(i + 1) + j - 1]
    BY <2>1, SubSeqProperties
  <2>3. n - (i + 1) + 1 = n - i /\ \A j \in 1..(n - i) : (i + 1) + j - 1 = i + j
    BY <1>1
  <2>4. Len(b) = n - i
    BY <1>1, <2>2
  <2>5. QED
    BY <2>2, <2>3, <2>4, Zenon
<1>4. CASE q = a \o b
  <2> HIDE DEF a, b
  <2>1. /\ q \in Seq(Agents) /\ Len(q) = Len(a) + Len(b)
        /\ \A j \in 1..(Len(a) + Len(b)) : q[j] = IF j <= Len(a) THEN a[j] ELSE b[j - Len(a)]
    BY <1>2, <1>3, <1>4, ConcatProperties
  <2>2. Len(q) = n - 1
    BY <1>1, <1>2, <1>3, <2>1
  <2> DEFINE f == [j \in 1..Len(q) |-> IF j < i THEN j ELSE j + 1]
  <2>3. \A j \in 1..Len(q) : f[j] \in 1..n /\ f[j] # i
    BY <1>1, <2>2
  <2>4. \A j, k \in 1..Len(q) : f[j] = f[k] => j = k
    BY <1>1, <2>2
  <2>5. ASSUME NEW j \in 1..Len(q) PROVE q[j] = residents[f[j]]
    <3>1. j \in 1..(Len(a) + Len(b))
      BY <2>1, <2>5
    <3>2. CASE j < i
      <4>1. j \in 1..(i - 1) /\ j <= Len(a) /\ f[j] = j
        BY <1>1, <1>2, <2>2, <2>5, <3>2
      <4>2. QED
        BY <1>2, <2>1, <3>1, <4>1
    <3>3. CASE ~(j < i)
      <4>1. /\ j - Len(a) \in 1..(n - i) /\ i + (j - Len(a)) = j + 1 /\ ~(j <= Len(a)) /\ f[j] = j + 1
        BY <1>1, <1>2, <2>2, <2>5, <3>3, SMTT(30)
      <4>2. b[j - Len(a)] = residents[j + 1]
        BY <1>3, <4>1
      <4>3. QED
        BY <2>1, <3>1, <4>1, <4>2
    <3>4. QED
      BY <3>2, <3>3
  <2>6. f \in [1..Len(q) -> 1..Len(residents)]
    BY <2>3
  <2> HIDE DEF f
  <2>7. Selects(q, f, i)
    BY <2>1, <2>3, <2>4, <2>5, <2>6 DEF Selects
  <2>8. QED
    BY <2>7, SelectedFacts
<1>5. CASE q = b \o a
  <2> HIDE DEF a, b
  <2>1. /\ q \in Seq(Agents) /\ Len(q) = Len(b) + Len(a)
        /\ \A j \in 1..(Len(b) + Len(a)) : q[j] = IF j <= Len(b) THEN b[j] ELSE a[j - Len(b)]
    BY <1>2, <1>3, <1>5, ConcatProperties
  <2>2. Len(q) = n - 1
    BY <1>1, <1>2, <1>3, <2>1
  <2> DEFINE f == [j \in 1..Len(q) |-> IF j <= n - i THEN i + j ELSE j - (n - i)]
  <2>3. \A j \in 1..Len(q) : f[j] \in 1..n /\ f[j] # i
    BY <1>1, <2>2
  <2>4. \A j, k \in 1..Len(q) : f[j] = f[k] => j = k
    BY <1>1, <2>2
  <2>5. ASSUME NEW j \in 1..Len(q) PROVE q[j] = residents[f[j]]
    <3>1. j \in 1..(Len(b) + Len(a))
      BY <2>1, <2>5
    <3>2. CASE j <= n - i
      <4>1. j \in 1..(n - i) /\ j <= Len(b) /\ f[j] = i + j
        BY <1>1, <1>3, <2>2, <2>5, <3>2
      <4>2. QED
        BY <1>3, <2>1, <3>1, <4>1
    <3>3. CASE ~(j <= n - i)
      <4>1. j - Len(b) \in 1..(i - 1) /\ ~(j <= Len(b)) /\ f[j] = j - Len(b)
        BY <1>1, <1>3, <2>2, <2>5, <3>3
      <4>2. QED
        BY <1>2, <2>1, <3>1, <4>1
    <3>4. QED
      BY <3>2, <3>3
  <2>6. f \in [1..Len(q) -> 1..Len(residents)]
    BY <2>3
  <2> HIDE DEF f
  <2>7. Selects(q, f, i)
    BY <2>1, <2>3, <2>4, <2>5, <2>6 DEF Selects
  <2>8. QED
    BY <2>7, SelectedFacts
<1>6. QED
  BY <1>4, <1>5

LEMMA WithoutFacts ==
    ASSUME ListType, Distinct, NEW t
    PROVE  DistinctWithout(Without(t), t)
<1> DEFINE entries == {i \in DOMAIN residents : residents[i] = t}
           i == CHOOSE j \in entries : TRUE
<1>1. DOMAIN residents = 1..Len(residents)
  BY LenProperties DEF ListType
<1>2. CASE entries = {}
  <2>1. Without(t) = residents
    BY <1>2 DEF Without
  <2>2. QED
    BY <1>1, <1>2, <2>1 DEF ListType, Distinct, DistinctWithout
<1>3. CASE entries # {}
  <2>1. i \in entries
    BY <1>3
  <2>2. Without(t) = SubSeq(residents, 1, i - 1) \o SubSeq(residents, i + 1, Len(residents))
    BY <1>3, Zenon DEF Without
  <2>3. i \in 1..Len(residents) /\ residents[i] = t
    BY <1>1, <2>1
  <2> HIDE DEF i, entries
  <2>4. Cut(Without(t), i)
    BY <2>2 DEF Cut
  <2>5. QED
    BY <2>3, <2>4, CutFacts
<1>4. QED
  BY <1>2, <1>3

LEMMA TouchFacts ==
    ASSUME ListType, Distinct, NEW t \in Agents, Touch(t)
    PROVE  ListType' /\ Distinct'
<1> DEFINE q == Without(t)
<1>1. /\ q \in Seq(Agents)
      /\ \A j \in 1..Len(q) : q[j] # t
      /\ \A j, k \in 1..Len(q) : q[j] = q[k] => j = k
  BY WithoutFacts DEF DistinctWithout
<1>2. residents' = Append(q, t)
  BY DEF Touch
<1> HIDE DEF q
<1>3. /\ residents' \in Seq(Agents) /\ Len(residents') = Len(q) + 1 /\ Len(q) \in Nat
      /\ \A j \in 1..Len(q) : residents'[j] = q[j]
      /\ residents'[Len(q) + 1] = t
  BY <1>1, <1>2, AppendProperties, LenProperties
<1>4. QED
  BY <1>1, <1>3 DEF ListType, Distinct

LEMMA PopFacts ==
    ASSUME Inv, NEW c \in Calls, Pop(c)
    PROVE  /\ ListType' /\ Distinct'
           /\ \/ Goto(c, "failed") /\ UNCHANGED <<popped, left>>
              \/ /\ Goto(c, "inspect") /\ left' = [left EXCEPT ![c] = @ - 1] /\ left[c] # 0
                 /\ \E t \in Agents : popped' = [popped EXCEPT ![c] = t]
<1> DEFINE others == {i \in DOMAIN residents : residents[i] # agent[c]}
           i == CHOOSE j \in others : \A k \in others : j <= k
<1>1. /\ DOMAIN residents = 1..Len(residents) /\ Len(residents) \in Nat
      /\ ListType /\ Distinct
  BY LenProperties DEF Inv, ListType
<1>2. CASE left[c] = 0 \/ others = {}
  <2>1. Goto(c, "failed") /\ UNCHANGED <<residents, popped, left>>
    BY <1>2 DEF Pop
  <2>2. QED
    BY <1>1, <2>1 DEF ListType, Distinct
<1>3. CASE ~(left[c] = 0 \/ others = {})
  <2>1. i \in others
    <3>1. others \in SUBSET Nat
      BY <1>1
    <3>2. \E j \in others : \A k \in others : j <= k
      BY <1>3, <3>1, LeastNat
    <3>3. QED
      BY <3>2
  <2>2. /\ popped' = [popped EXCEPT ![c] = residents[i]]
        /\ residents' = SubSeq(residents, i + 1, Len(residents)) \o SubSeq(residents, 1, i - 1)
        /\ left' = [left EXCEPT ![c] = @ - 1]
        /\ Goto(c, "inspect")
    BY <1>3 DEF Pop
  <2>3. i \in 1..Len(residents)
    BY <1>1, <2>1
  <2> HIDE DEF i, others
  <2>4. residents[i] \in Agents
    BY <1>1, <2>3, ElementOfSeq DEF ListType
  <2>5. ListType' /\ Distinct'
    <3>1. Cut(residents', i)
      BY <2>2 DEF Cut
    <3>2. DistinctWithout(residents', residents[i])
      BY <1>1, <2>3, <3>1, CutFacts
    <3>3. QED
      BY <3>2 DEF DistinctWithout, ListType, Distinct
  <2>6. QED
    BY <1>3, <2>2, <2>4, <2>5
<1>4. QED
  BY <1>2, <1>3

-----------------------------------------------------------------------------
(* The slots.                                                                *)

\* A step of a call keeps its slot or its lack of one, takes a slot, or gives its slot up.
SlotStep(c, l) ==
    /\ Goto(c, l)
    /\ \/ (pc[c] \in HoldingLabels <=> l \in HoldingLabels) /\ slots' = slots
       \/ pc[c] \notin HoldingLabels /\ l \in HoldingLabels /\ slots' = slots + 1
       \/ pc[c] \in HoldingLabels /\ l \notin HoldingLabels /\ slots' = slots - 1

\* A call that takes a slot is counted, one that gives its slot up is no longer.
LEMMA SlotFacts ==
    ASSUME PcType, SlotsHeld, NEW c \in Calls, NEW l \in Labels, SlotStep(c, l)
    PROVE  PcType' /\ SlotsHeld'
<1> USE DEF SlotStep
<1>1. PcType' /\ pc'[c] = l /\ \A d \in Calls : d # c => pc'[d] = pc[d]
  BY DEF PcType, Goto
<1>2. IsFiniteSet(Holders) /\ Holders \subseteq Calls
  BY AgentResidencyAssumption, FS_Subset DEF Holders
<1>3. slots = Cardinality(Holders)
  BY DEF SlotsHeld, Holders
<1>4. slots' = Cardinality(Holders')
  <2>1. CASE (pc[c] \in HoldingLabels <=> l \in HoldingLabels) /\ slots' = slots
    <3>1. Holders' = Holders
      BY <1>1, <2>1 DEF Holders
    <3>2. QED
      BY <1>3, <2>1, <3>1
  <2>2. CASE pc[c] \notin HoldingLabels /\ l \in HoldingLabels /\ slots' = slots + 1
    <3>1. Holders' = Holders \cup {c} /\ c \notin Holders
      BY <1>1, <2>2 DEF Holders
    <3>2. QED
      BY <1>2, <1>3, <2>2, <3>1, FS_AddElement
  <2>3. CASE pc[c] \in HoldingLabels /\ l \notin HoldingLabels /\ slots' = slots - 1
    <3>1. Holders' = Holders \ {c} /\ c \in Holders
      BY <1>1, <2>3 DEF Holders
    <3>2. QED
      BY <1>2, <1>3, <2>3, <3>1, FS_RemoveElement
  <2>4. QED
    BY <2>1, <2>2, <2>3
<1>5. QED
  BY <1>1, <1>4 DEF SlotsHeld, Holders

LEMMA NewSessionFacts ==
    ASSUME ThreadType, used # Sessions
    PROVE  NewSession \in Sessions \ used
BY DEF ThreadType, NewSession

\* A step of a call that sends nothing, takes no handle and loads at most a session that exists.
LEMMA CreatedFacts ==
    ASSUME Inv, NEW c \in Calls, pc'[c] \notin HandleLabels, PcType',
           \A d \in Calls : d # c => pc'[d] = pc[d],
           used \subseteq used', UNCHANGED <<session, chan>>,
           \A t \in Agents : threads'[t] \in used' \cup {NoSession}
    PROVE  Created'
BY DEF Inv, Created

-----------------------------------------------------------------------------
(* One lemma per group of actions.                                           *)

LEMMA SpawnKeeps ==
    ASSUME Inv, NEW c \in Calls, Spawn(c)
    PROVE  Inv'
<1> USE AgentResidencyAssumption DEF listVars, threadVars, sessionVars, callVars
<1>1. ListType' /\ Distinct'
  BY DEF Inv, Spawn, ListType, Distinct
<1>2. PcType' /\ SlotsHeld'
  <2>1. \E l \in Labels : SlotStep(c, l)
    BY SMT DEF SlotStep, Labels, HoldingLabels, Spawn
  <2>2. QED
    BY <2>1, SlotFacts DEF Inv
<1>3. ThreadType' /\ SessionType' /\ CallType'
  BY <1>2 DEF Inv, ListType, ThreadType, SessionType, CallType, Spawn
<1>4. Targeted'
  BY <1>2, <1>3 DEF Inv, PcType, CallType, Targeted, GivenLabels, PickedLabels, Goto, Spawn
<1>5. Created'
  BY <1>2, <1>3 DEF Inv, PcType, ThreadType, SessionType, CallType, Targeted, GivenLabels,
                    PickedLabels, Created, HandleLabels, Goto, Spawn
<1>6. QED
  BY <1>1, <1>2, <1>3, <1>4, <1>5 DEF Inv

LEMMA SendKeeps ==
    ASSUME Inv, NEW c \in Calls, NEW k \in {"followup", "message"}, NEW t \in Agents, Send(c, k, t)
    PROVE  Inv'
<1> USE AgentResidencyAssumption DEF listVars, threadVars, sessionVars, callVars
<1>1. ListType' /\ Distinct'
  BY DEF Inv, Send, ListType, Distinct
<1>2. PcType' /\ SlotsHeld'
  <2>1. \E l \in Labels : SlotStep(c, l)
    BY SMT DEF SlotStep, Labels, HoldingLabels, Send
  <2>2. QED
    BY <2>1, SlotFacts DEF Inv
<1>3. ThreadType' /\ SessionType' /\ CallType'
  BY <1>2 DEF Inv, ListType, ThreadType, SessionType, CallType, Send
<1>4. Targeted'
  BY <1>2, <1>3 DEF Inv, PcType, CallType, Targeted, GivenLabels, PickedLabels, Goto, Send
<1>5. Created'
  BY <1>2, <1>3 DEF Inv, PcType, ThreadType, SessionType, CallType, Targeted, GivenLabels,
                    PickedLabels, Created, HandleLabels, Goto, Send
<1>6. QED
  BY <1>1, <1>2, <1>3, <1>4, <1>5 DEF Inv

LEMMA RemoveKeeps ==
    ASSUME Inv, NEW c \in Calls, Remove(c)
    PROVE  Inv'
<1> USE AgentResidencyAssumption DEF listVars, threadVars, sessionVars, callVars
<1>1. ListType' /\ Distinct'
  BY DEF Inv, Remove, ListType, Distinct
<1>2. PcType' /\ SlotsHeld'
  <2>1. \E l \in Labels : SlotStep(c, l)
    BY SMT DEF SlotStep, Labels, HoldingLabels, Remove
  <2>2. QED
    BY <2>1, SlotFacts DEF Inv
<1>3. ThreadType' /\ SessionType' /\ CallType'
  BY <1>2 DEF Inv, ListType, ThreadType, SessionType, CallType, Targeted, GivenLabels, PickedLabels,
              Created, HandleLabels, Remove
<1>4. Targeted'
  BY <1>2, <1>3 DEF Inv, PcType, CallType, Targeted, GivenLabels, PickedLabels, Goto, Remove
<1>5. Created'
  BY <1>2, <1>3 DEF Inv, PcType, ThreadType, SessionType, CallType, Targeted, GivenLabels,
                    PickedLabels, Created, HandleLabels, Goto, Remove
<1>6. QED
  BY <1>1, <1>2, <1>3, <1>4, <1>5 DEF Inv

LEMMA ForgetKeeps ==
    ASSUME Inv, NEW c \in Calls, Forget(c)
    PROVE  Inv'
<1> USE AgentResidencyAssumption DEF listVars, threadVars, sessionVars, callVars
<1>1. ListType' /\ Distinct'
  <2>1. DistinctWithout(residents', agent[c])
    BY WithoutFacts DEF Inv, Forget
  <2>2. QED
    BY <2>1 DEF DistinctWithout, ListType, Distinct
<1>2. PcType' /\ SlotsHeld'
  <2>1. \E l \in Labels : SlotStep(c, l)
    BY SMT DEF SlotStep, Labels, HoldingLabels, Forget
  <2>2. QED
    BY <2>1, SlotFacts DEF Inv
<1>3. ThreadType' /\ SessionType' /\ CallType'
  BY <1>2 DEF Inv, ListType, ThreadType, SessionType, CallType, Forget
<1>4. Targeted'
  BY <1>2, <1>3 DEF Inv, PcType, CallType, Targeted, GivenLabels, PickedLabels, Goto, Forget
<1>5. Created'
  BY <1>2, <1>3 DEF Inv, PcType, ThreadType, SessionType, CallType, Targeted, GivenLabels,
                    PickedLabels, Created, HandleLabels, Goto, Forget
<1>6. QED
  BY <1>1, <1>2, <1>3, <1>4, <1>5 DEF Inv

LEMMA ReleaseKeeps ==
    ASSUME Inv, NEW c \in Calls, Release(c)
    PROVE  Inv'
<1> USE AgentResidencyAssumption DEF listVars, threadVars, sessionVars, callVars
<1>1. ListType' /\ Distinct'
  BY DEF Inv, Release, ListType, Distinct
<1>2. PcType' /\ SlotsHeld'
  <2>1. \E l \in Labels : SlotStep(c, l)
    BY SMT DEF SlotStep, Labels, HoldingLabels, Release
  <2>2. QED
    BY <2>1, SlotFacts DEF Inv
<1>3. ThreadType' /\ SessionType' /\ CallType'
  BY <1>2 DEF Inv, ListType, ThreadType, SessionType, CallType, Release
<1>4. Targeted'
  BY <1>2, <1>3 DEF Inv, PcType, CallType, Targeted, GivenLabels, PickedLabels, Goto, Release
<1>5. Created'
  BY <1>2, <1>3 DEF Inv, PcType, ThreadType, SessionType, CallType, Targeted, GivenLabels,
                    PickedLabels, Created, HandleLabels, Goto, Release
<1>6. QED
  BY <1>1, <1>2, <1>3, <1>4, <1>5 DEF Inv

LEMMA LoadKeeps ==
    ASSUME Inv, NEW c \in Calls, Load(c)
    PROVE  Inv'
<1> USE AgentResidencyAssumption DEF listVars, threadVars, sessionVars, callVars
<1>1. ListType' /\ Distinct'
  BY DEF Inv, Load, ListType, Distinct
<1>2. PcType' /\ SlotsHeld'
  <2>1. \E l \in Labels : SlotStep(c, l)
    BY SMT DEF SlotStep, Labels, HoldingLabels, Load
  <2>2. QED
    BY <2>1, SlotFacts DEF Inv
<1>3. ThreadType' /\ SessionType' /\ CallType'
  BY <1>2 DEF Inv, ListType, ThreadType, SessionType, CallType, Load
<1>4. Targeted'
  BY <1>2, <1>3 DEF Inv, PcType, CallType, Targeted, GivenLabels, PickedLabels, Goto, Load
<1>5. Created'
  BY <1>2, <1>3 DEF Inv, PcType, ThreadType, SessionType, CallType, Targeted, GivenLabels,
                    PickedLabels, Created, HandleLabels, Goto, Load
<1>6. QED
  BY <1>1, <1>2, <1>3, <1>4, <1>5 DEF Inv

LEMMA TouchLoadedKeeps ==
    ASSUME Inv, NEW c \in Calls, TouchLoaded(c)
    PROVE  Inv'
<1> USE AgentResidencyAssumption DEF listVars, threadVars, sessionVars, callVars
<1>1. ListType' /\ Distinct'
  <2>1. CASE Touch(agent[c])
    <3>1. agent[c] \in Agents
      BY DEF Inv, Targeted, TouchLoaded, GivenLabels
    <3>2. QED
      BY <2>1, <3>1, TouchFacts DEF Inv
  <2>2. CASE UNCHANGED residents
    BY <2>2 DEF Inv, ListType, Distinct
  <2>3. QED
    BY <2>1, <2>2 DEF TouchLoaded
<1>2. PcType' /\ SlotsHeld'
  <2>1. \E l \in Labels : SlotStep(c, l)
    BY SMT DEF SlotStep, Labels, HoldingLabels, TouchLoaded
  <2>2. QED
    BY <2>1, SlotFacts DEF Inv
<1>3. ThreadType' /\ SessionType' /\ CallType'
  BY <1>2 DEF Inv, ListType, ThreadType, SessionType, CallType, TouchLoaded
<1>4. Targeted'
  BY <1>2, <1>3 DEF Inv, PcType, CallType, Targeted, GivenLabels, PickedLabels, Goto, TouchLoaded
<1>5. Created'
  BY <1>2, <1>3 DEF Inv, PcType, ThreadType, SessionType, CallType, Targeted, GivenLabels,
                    PickedLabels, Created, HandleLabels, Goto, TouchLoaded
<1>6. QED
  BY <1>1, <1>2, <1>3, <1>4, <1>5 DEF Inv

LEMMA ResumeKeeps ==
    ASSUME Inv, NEW c \in Calls, Resume(c)
    PROVE  Inv'
<1> USE AgentResidencyAssumption DEF listVars, threadVars, sessionVars, callVars
<1>1. ListType' /\ Distinct'
  BY DEF Inv, Resume, ListType, Distinct
<1>2. PcType' /\ SlotsHeld'
  <2>1. \E l \in Labels : SlotStep(c, l)
    BY SMT DEF SlotStep, Labels, HoldingLabels, Resume
  <2>2. QED
    BY <2>1, SlotFacts DEF Inv
<1>3. agent[c] \in Agents
  BY DEF Inv, Targeted, GivenLabels, Resume
<1>4. /\ threads' \in [Agents -> Sessions \cup {NoSession}]
      /\ used' = used /\ \A t \in Agents : threads'[t] \in used' \cup {NoSession}
  BY <1>3 DEF Inv, ThreadType, Created, Resume
<1>5. ThreadType' /\ SessionType' /\ CallType'
  BY <1>4 DEF Inv, ThreadType, SessionType, CallType, Resume
<1>6. Targeted'
  BY <1>2, <1>5 DEF Inv, PcType, CallType, Targeted, GivenLabels, PickedLabels, Goto, Resume
<1>7. Created'
  <2>1. pc'[c] \notin HandleLabels /\ \A d \in Calls : d # c => pc'[d] = pc[d]
    BY DEF Inv, PcType, Goto, HandleLabels, Resume
  <2>2. QED
    BY <1>2, <1>4, <2>1, CreatedFacts DEF Resume
<1>8. QED
  BY <1>1, <1>2, <1>5, <1>6, <1>7 DEF Inv

LEMMA FinalizeKeeps ==
    ASSUME Inv, NEW c \in Calls, Finalize(c)
    PROVE  Inv'
<1> USE AgentResidencyAssumption DEF listVars, threadVars, sessionVars, callVars
<1>1. ListType' /\ Distinct'
  BY DEF Inv, Finalize, ListType, Distinct
<1>2. PcType' /\ SlotsHeld'
  <2>1. \E l \in Labels : SlotStep(c, l)
    BY SMT DEF SlotStep, Labels, HoldingLabels, Finalize
  <2>2. QED
    BY <2>1, SlotFacts DEF Inv
<1>3. agent[c] \in Agents
  BY DEF Inv, Targeted, GivenLabels, Finalize
<1>4. /\ threads' \in [Agents -> Sessions \cup {NoSession}]
      /\ used \subseteq used' /\ used' \in SUBSET Sessions
      /\ \A t \in Agents : threads'[t] \in used' \cup {NoSession}
  <2>1. CASE UNCHANGED <<threads, used>>
    BY <2>1 DEF Inv, ThreadType, Created
  <2>2. CASE ~UNCHANGED <<threads, used>>
    <3>1. /\ NewSession \in Sessions
          /\ used' = used \cup {NewSession}
          /\ threads' = [threads EXCEPT ![agent[c]] = NewSession]
      BY <2>2, NewSessionFacts DEF Inv, Finalize
    <3> HIDE AgentResidencyAssumption
    <3>2. QED
      BY <1>3, <3>1 DEF Inv, ThreadType, Created
  <2>3. QED
    BY <2>1, <2>2
<1>5. ThreadType' /\ SessionType' /\ CallType'
  BY <1>4 DEF Inv, ThreadType, SessionType, CallType, Finalize
<1>6. Targeted'
  BY <1>2, <1>5 DEF Inv, PcType, CallType, Targeted, GivenLabels, PickedLabels, Goto, Finalize
<1>7. Created'
  <2>1. pc'[c] \notin HandleLabels /\ \A d \in Calls : d # c => pc'[d] = pc[d]
    BY DEF Inv, PcType, Goto, HandleLabels, Finalize
  <2>2. QED
    BY <1>2, <1>4, <2>1, CreatedFacts DEF Finalize
<1>8. QED
  BY <1>1, <1>2, <1>5, <1>6, <1>7 DEF Inv

LEMMA GiveBackKeeps ==
    ASSUME Inv, NEW c \in Calls, GiveBack(c)
    PROVE  Inv'
<1> USE AgentResidencyAssumption DEF listVars, threadVars, sessionVars, callVars
<1>1. ListType' /\ Distinct'
  BY DEF Inv, GiveBack, ListType, Distinct
<1>2. PcType' /\ SlotsHeld'
  <2>1. \E l \in Labels : SlotStep(c, l)
    BY SMT DEF SlotStep, Labels, HoldingLabels, GiveBack
  <2>2. QED
    BY <2>1, SlotFacts DEF Inv
<1>3. ThreadType' /\ SessionType' /\ CallType'
  BY <1>2 DEF Inv, ListType, ThreadType, SessionType, CallType, GiveBack
<1>4. Targeted'
  BY <1>2, <1>3 DEF Inv, PcType, CallType, Targeted, GivenLabels, PickedLabels, Goto, GiveBack
<1>5. Created'
  BY <1>2, <1>3 DEF Inv, PcType, ThreadType, SessionType, CallType, Targeted, GivenLabels,
                    PickedLabels, Created, HandleLabels, Goto, GiveBack
<1>6. QED
  BY <1>1, <1>2, <1>3, <1>4, <1>5 DEF Inv

LEMMA FailsKeeps ==
    ASSUME Inv, NEW c \in Calls, Fails(c)
    PROVE  Inv'
<1> USE AgentResidencyAssumption DEF listVars, threadVars, sessionVars, callVars
<1>1. ListType' /\ Distinct'
  BY DEF Inv, Fails, ListType, Distinct
<1>2. PcType' /\ SlotsHeld'
  <2>1. \E l \in Labels : SlotStep(c, l)
    BY SMT DEF SlotStep, Labels, HoldingLabels, Fails
  <2>2. QED
    BY <2>1, SlotFacts DEF Inv
<1>3. ThreadType' /\ SessionType' /\ CallType'
  BY <1>2 DEF Inv, ListType, ThreadType, SessionType, CallType, Fails
<1>4. Targeted'
  BY <1>2, <1>3 DEF Inv, PcType, CallType, Targeted, GivenLabels, PickedLabels, Goto, Fails
<1>5. Created'
  BY <1>2, <1>3 DEF Inv, PcType, ThreadType, SessionType, CallType, Targeted, GivenLabels,
                    PickedLabels, Created, HandleLabels, Goto, Fails
<1>6. QED
  BY <1>1, <1>2, <1>3, <1>4, <1>5 DEF Inv

LEMMA CreateKeeps ==
    ASSUME Inv, NEW c \in Calls, NEW t \in Agents, Create(c, t)
    PROVE  Inv'
<1> USE AgentResidencyAssumption DEF listVars, threadVars, sessionVars, callVars
<1>1. ListType' /\ Distinct'
  BY DEF Inv, Create, ListType, Distinct
<1>2. PcType' /\ SlotsHeld'
  <2>1. \E l \in Labels : SlotStep(c, l)
    BY SMT DEF SlotStep, Labels, HoldingLabels, Create
  <2>2. QED
    BY <2>1, SlotFacts DEF Inv
<1>3. ThreadType' /\ SessionType' /\ CallType'
  BY <1>2, NewSessionFacts DEF Inv, ListType, ThreadType, SessionType, CallType, Targeted,
                               GivenLabels, PickedLabels, Created, HandleLabels, Create
<1>4. Targeted'
  BY <1>2, <1>3 DEF Inv, PcType, CallType, Targeted, GivenLabels, PickedLabels, Goto, Create
<1>5. Created'
  BY <1>2, <1>3, NewSessionFacts DEF Inv, PcType, ThreadType, SessionType, CallType, Targeted,
                                     GivenLabels, PickedLabels, Created, HandleLabels, Goto, Create
<1>6. QED
  BY <1>1, <1>2, <1>3, <1>4, <1>5 DEF Inv

LEMMA CommitKeeps ==
    ASSUME Inv, NEW c \in Calls, Commit(c)
    PROVE  Inv'
<1> USE AgentResidencyAssumption DEF listVars, threadVars, sessionVars, callVars
<1>1. ListType' /\ Distinct'
  <2>1. agent[c] \in Agents /\ Touch(agent[c])
    BY DEF Inv, Targeted, Commit, GivenLabels
  <2>2. QED
    BY <2>1, TouchFacts DEF Inv
<1>2. PcType' /\ SlotsHeld'
  <2>1. \E l \in Labels : SlotStep(c, l)
    BY SMT DEF SlotStep, Labels, HoldingLabels, Commit
  <2>2. QED
    BY <2>1, SlotFacts DEF Inv
<1>3. ThreadType' /\ SessionType' /\ CallType'
  BY <1>2 DEF Inv, ListType, ThreadType, SessionType, CallType, Commit
<1>4. Targeted'
  BY <1>2, <1>3 DEF Inv, PcType, CallType, Targeted, GivenLabels, PickedLabels, Goto, Commit
<1>5. Created'
  BY <1>2, <1>3 DEF Inv, PcType, ThreadType, SessionType, CallType, Targeted, GivenLabels,
                    PickedLabels, Created, HandleLabels, Goto, Commit
<1>6. QED
  BY <1>1, <1>2, <1>3, <1>4, <1>5 DEF Inv

LEMMA ReserveKeeps ==
    ASSUME Inv, NEW c \in Calls, Reserve(c)
    PROVE  Inv'
<1> USE AgentResidencyAssumption DEF listVars, threadVars, sessionVars, callVars
<1>1. ListType' /\ Distinct'
  BY DEF Inv, Reserve, ListType, Distinct
<1>2. PcType' /\ SlotsHeld'
  <2>1. \E l \in Labels : SlotStep(c, l)
    BY SMT DEF SlotStep, Labels, HoldingLabels, Reserve
  <2>2. QED
    BY <2>1, SlotFacts DEF Inv
<1>3. ThreadType' /\ SessionType' /\ CallType'
  BY <1>2 DEF Inv, ListType, ThreadType, SessionType, CallType, Reserve
<1>4. Targeted'
  BY <1>2, <1>3 DEF Inv, PcType, CallType, Targeted, GivenLabels, PickedLabels, Goto, Reserve
<1>5. Created'
  BY <1>2, <1>3 DEF Inv, PcType, ThreadType, SessionType, CallType, Targeted, GivenLabels,
                    PickedLabels, Created, HandleLabels, Goto, Reserve
<1>6. QED
  BY <1>1, <1>2, <1>3, <1>4, <1>5 DEF Inv

LEMMA ScanKeeps ==
    ASSUME Inv, NEW c \in Calls, Scan(c)
    PROVE  Inv'
<1> USE AgentResidencyAssumption DEF listVars, threadVars, sessionVars, callVars
<1>1. ListType' /\ Distinct'
  BY DEF Inv, Scan, ListType, Distinct
<1>2. PcType' /\ SlotsHeld'
  <2>1. \E l \in Labels : SlotStep(c, l)
    BY SMT DEF SlotStep, Labels, HoldingLabels, Scan
  <2>2. QED
    BY <2>1, SlotFacts DEF Inv
<1>3. ThreadType' /\ SessionType' /\ CallType'
  BY <1>2 DEF Inv, ListType, ThreadType, SessionType, CallType, ListType, Scan
<1>4. Targeted'
  BY <1>2, <1>3 DEF Inv, PcType, CallType, Targeted, GivenLabels, PickedLabels, Goto, Scan
<1>5. Created'
  BY <1>2, <1>3 DEF Inv, PcType, ThreadType, SessionType, CallType, Targeted, GivenLabels,
                    PickedLabels, Created, HandleLabels, Goto, Scan
<1>6. QED
  BY <1>1, <1>2, <1>3, <1>4, <1>5 DEF Inv

LEMMA PopKeeps ==
    ASSUME Inv, NEW c \in Calls, Pop(c)
    PROVE  Inv'
<1> USE AgentResidencyAssumption DEF listVars, threadVars, sessionVars, callVars
<1>1. /\ pc[c] = "pop" /\ UNCHANGED <<slots, threadVars, sessionVars, kind, agent, session>>
      /\ \/ Goto(c, "failed") /\ UNCHANGED <<popped, left>>
         \/ /\ Goto(c, "inspect") /\ left' = [left EXCEPT ![c] = @ - 1] /\ left[c] # 0
            /\ \E t \in Agents : popped' = [popped EXCEPT ![c] = t]
  BY PopFacts DEF Pop
<1>2. ListType' /\ Distinct'
  BY PopFacts
<1>3. PcType' /\ SlotsHeld'
  <2>1. \E l \in Labels : SlotStep(c, l)
    BY <1>1, SMT DEF SlotStep, Labels, HoldingLabels
  <2>2. QED
    BY <2>1, SlotFacts DEF Inv
<1>4. ThreadType' /\ SessionType' /\ CallType'
  <2>1. ThreadType' /\ SessionType'
    BY <1>1 DEF Inv, ThreadType, SessionType
  <2>2. popped' \in [Calls -> Agents \cup {NoAgent}]
    BY <1>1 DEF Inv, CallType
  <2>3. left' \in [Calls -> Nat]
    BY <1>1 DEF Inv, CallType
  <2>4. QED
    BY <1>1, <2>1, <2>2, <2>3 DEF Inv, CallType
<1>5. Targeted'
  BY <1>1, <1>3, <1>4 DEF Inv, PcType, CallType, Targeted, GivenLabels, PickedLabels, Goto
<1>6. Created'
  BY <1>1, <1>3, <1>4 DEF Inv, PcType, ThreadType, SessionType, CallType, Targeted, GivenLabels,
                          PickedLabels, Created, HandleLabels, Goto
<1>7. QED
  BY <1>2, <1>3, <1>4, <1>5, <1>6 DEF Inv

LEMMA InspectKeeps ==
    ASSUME Inv, NEW c \in Calls, Inspect(c)
    PROVE  Inv'
<1> USE AgentResidencyAssumption DEF listVars, threadVars, sessionVars, callVars
<1>1. ListType' /\ Distinct'
  BY DEF Inv, Inspect, ListType, Distinct
<1>2. PcType' /\ SlotsHeld'
  <2>1. \E l \in Labels : SlotStep(c, l)
    BY SMT DEF SlotStep, Labels, HoldingLabels, Inspect
  <2>2. QED
    BY <2>1, SlotFacts DEF Inv
<1>3. ThreadType' /\ SessionType' /\ CallType'
  BY <1>2 DEF Inv, ListType, ThreadType, SessionType, CallType, Targeted, GivenLabels, PickedLabels,
              Created, HandleLabels, Inspect
<1>4. Targeted'
  BY <1>2, <1>3 DEF Inv, PcType, CallType, Targeted, GivenLabels, PickedLabels, Goto, Inspect
<1>5. Created'
  BY <1>2, <1>3 DEF Inv, PcType, ThreadType, SessionType, CallType, Targeted, GivenLabels,
                    PickedLabels, Created, HandleLabels, Goto, Inspect
<1>6. QED
  BY <1>1, <1>2, <1>3, <1>4, <1>5 DEF Inv

LEMMA IsUnloadableKeeps ==
    ASSUME Inv, NEW c \in Calls, NEW here, NEW test, NEW next,
           <<here, next>> \in {<<"status", "turn">>, <<"turn", "mailbox">>, <<"mailbox", "evict">>},
           IsUnloadable(c, here, test, next)
    PROVE  Inv'
<1> USE AgentResidencyAssumption DEF listVars, threadVars, sessionVars, callVars
<1>1. ListType' /\ Distinct'
  BY DEF Inv, IsUnloadable, ListType, Distinct
<1>2. PcType' /\ SlotsHeld'
  <2>1. \E l \in Labels : SlotStep(c, l)
    BY SMT DEF SlotStep, Labels, HoldingLabels, IsUnloadable
  <2>2. QED
    BY <2>1, SlotFacts DEF Inv
<1>3. ThreadType' /\ SessionType' /\ CallType'
  BY <1>2 DEF Inv, ListType, ThreadType, SessionType, CallType, IsUnloadable
<1>4. Targeted'
  BY <1>2, <1>3 DEF Inv, PcType, CallType, Targeted, GivenLabels, PickedLabels, Goto, IsUnloadable
<1>5. Created'
  BY <1>2, <1>3 DEF Inv, PcType, ThreadType, SessionType, CallType, Targeted, GivenLabels,
                    PickedLabels, Created, HandleLabels, Goto, IsUnloadable
<1>6. QED
  BY <1>1, <1>2, <1>3, <1>4, <1>5 DEF Inv

LEMMA KeepKeeps ==
    ASSUME Inv, NEW c \in Calls, Keep(c)
    PROVE  Inv'
<1> USE AgentResidencyAssumption DEF listVars, threadVars, sessionVars, callVars
<1>1. ListType' /\ Distinct'
  <2>1. popped[c] \in Agents /\ Touch(popped[c])
    BY DEF Inv, Targeted, Keep, PickedLabels
  <2>2. QED
    BY <2>1, TouchFacts DEF Inv
<1>2. PcType' /\ SlotsHeld'
  <2>1. \E l \in Labels : SlotStep(c, l)
    BY SMT DEF SlotStep, Labels, HoldingLabels, Keep
  <2>2. QED
    BY <2>1, SlotFacts DEF Inv
<1>3. ThreadType' /\ SessionType' /\ CallType'
  BY <1>2 DEF Inv, ListType, ThreadType, SessionType, CallType, Keep
<1>4. Targeted'
  BY <1>2, <1>3 DEF Inv, PcType, CallType, Targeted, GivenLabels, PickedLabels, Goto, Keep
<1>5. Created'
  BY <1>2, <1>3 DEF Inv, PcType, ThreadType, SessionType, CallType, Targeted, GivenLabels,
                    PickedLabels, Created, HandleLabels, Goto, Keep
<1>6. QED
  BY <1>1, <1>2, <1>3, <1>4, <1>5 DEF Inv

LEMMA EvictKeeps ==
    ASSUME Inv, NEW c \in Calls, Evict(c)
    PROVE  Inv'
<1> USE AgentResidencyAssumption DEF listVars, threadVars, sessionVars, callVars
<1>1. ListType' /\ Distinct'
  BY DEF Inv, Evict, ListType, Distinct
<1>2. PcType' /\ SlotsHeld'
  <2>1. \E l \in Labels : SlotStep(c, l)
    BY SMT DEF SlotStep, Labels, HoldingLabels, Evict
  <2>2. QED
    BY <2>1, SlotFacts DEF Inv
<1>3. ThreadType' /\ SessionType' /\ CallType'
  BY <1>2 DEF Inv, ListType, ThreadType, SessionType, CallType, Targeted, GivenLabels, PickedLabels,
              Created, HandleLabels, Evict
<1>4. Targeted'
  BY <1>2, <1>3 DEF Inv, PcType, CallType, Targeted, GivenLabels, PickedLabels, Goto, Evict
<1>5. Created'
  BY <1>2, <1>3 DEF Inv, PcType, ThreadType, SessionType, CallType, Targeted, GivenLabels,
                    PickedLabels, Created, HandleLabels, Goto, Evict
<1>6. QED
  BY <1>1, <1>2, <1>3, <1>4, <1>5 DEF Inv

LEMMA UnloadKeeps ==
    ASSUME Inv, NEW c \in Calls, Unload(c)
    PROVE  Inv'
<1> USE AgentResidencyAssumption DEF listVars, threadVars, sessionVars, callVars
<1>1. ListType' /\ Distinct'
  BY DEF Inv, Unload, ListType, Distinct
<1>2. PcType' /\ SlotsHeld'
  <2>1. \E l \in Labels : SlotStep(c, l)
    BY SMT DEF SlotStep, Labels, HoldingLabels, Unload
  <2>2. QED
    BY <2>1, SlotFacts DEF Inv
<1>3. ThreadType' /\ SessionType' /\ CallType'
  BY <1>2 DEF Inv, ListType, ThreadType, SessionType, CallType, Targeted, GivenLabels, PickedLabels,
              Created, HandleLabels, Unload
<1>4. Targeted'
  BY <1>2, <1>3 DEF Inv, PcType, CallType, Targeted, GivenLabels, PickedLabels, Goto, Unload
<1>5. Created'
  BY <1>2, <1>3 DEF Inv, PcType, ThreadType, SessionType, CallType, Targeted, GivenLabels,
                    PickedLabels, Created, HandleLabels, Goto, Unload
<1>6. QED
  BY <1>1, <1>2, <1>3, <1>4, <1>5 DEF Inv

LEMMA CheckCapacityKeeps ==
    ASSUME Inv, NEW c \in Calls, CheckCapacity(c)
    PROVE  Inv'
<1> USE AgentResidencyAssumption DEF listVars, threadVars, sessionVars, callVars
<1>1. ListType' /\ Distinct'
  BY DEF Inv, CheckCapacity, ListType, Distinct
<1>2. PcType' /\ SlotsHeld'
  <2>1. \E l \in Labels : SlotStep(c, l)
    BY SMT DEF SlotStep, Labels, HoldingLabels, CheckCapacity
  <2>2. QED
    BY <2>1, SlotFacts DEF Inv
<1>3. ThreadType' /\ SessionType' /\ CallType'
  BY <1>2 DEF Inv, ListType, ThreadType, SessionType, CallType, CheckCapacity
<1>4. Targeted'
  BY <1>2, <1>3 DEF Inv, PcType, CallType, Targeted, GivenLabels, PickedLabels, Goto, CheckCapacity
<1>5. Created'
  BY <1>2, <1>3 DEF Inv, PcType, ThreadType, SessionType, CallType, Targeted, GivenLabels,
                    PickedLabels, Created, HandleLabels, Goto, CheckCapacity
<1>6. QED
  BY <1>1, <1>2, <1>3, <1>4, <1>5 DEF Inv

LEMMA SubmitKeeps ==
    ASSUME Inv, NEW c \in Calls, Submit(c)
    PROVE  Inv'
<1> USE AgentResidencyAssumption DEF listVars, threadVars, sessionVars, callVars
<1>1. ListType' /\ Distinct'
  BY DEF Inv, Submit, ListType, Distinct
<1>2. PcType' /\ SlotsHeld'
  <2>1. \E l \in Labels : SlotStep(c, l)
    BY SMT DEF SlotStep, Labels, HoldingLabels, Submit
  <2>2. QED
    BY <2>1, SlotFacts DEF Inv
<1>3. ThreadType' /\ SessionType' /\ CallType'
  <2>1. /\ agent[c] \in Agents /\ threads[agent[c]] \in Sessions \cup {NoSession}
        /\ UNCHANGED <<threads, known, used, mail, turn, final, closed, heard, kind, agent,
                       popped, left>>
        /\ session' = [session EXCEPT ![c] = threads[agent[c]]]
    BY DEF Inv, ThreadType, Targeted, GivenLabels, Submit
  <2>2. chan' \in [Sessions -> Seq(Calls \cup {Shutdown})]
    <3> DEFINE M == Calls \cup {Shutdown}
    <3>1. \A x \in Sessions : Append(chan[x], c) \in Seq(M)
      BY AppendProperties DEF Inv, SessionType
    <3> HIDE DEF M
    <3>2. chan \in [Sessions -> Seq(M)]
      BY DEF Inv, SessionType, M
    <3>3. CASE chan' = chan
      BY <3>2, <3>3 DEF M
    <3>4. CASE \E x \in Sessions : chan' = [chan EXCEPT ![x] = Append(@, c)]
      BY <3>1, <3>2, <3>4 DEF M
    <3>5. QED
      BY <3>3, <3>4 DEF Submit
  <2>3. QED
    BY <2>1, <2>2 DEF Inv, ThreadType, SessionType, CallType
<1>4. Targeted'
  BY <1>2, <1>3 DEF Inv, PcType, CallType, Targeted, GivenLabels, PickedLabels, Goto, Submit
<1>5. Created'
  BY <1>2, <1>3 DEF Inv, PcType, ThreadType, SessionType, CallType, Targeted, GivenLabels,
                    PickedLabels, Created, HandleLabels, Goto, Submit
<1>6. QED
  BY <1>1, <1>2, <1>3, <1>4, <1>5 DEF Inv

LEMMA SessionsKeep ==
    ASSUME Inv, NEW s \in Sessions,
           Receive(s) \/ Terminate(s) \/ Abandon(s) \/ Listen(s) \/ EndTurn(s) \/ WakeUp(s)
    PROVE  Inv'
<1> USE AgentResidencyAssumption DEF listVars, threadVars, sessionVars, callVars
<1>1. UNCHANGED <<residents, slots, threads, known, used, kind, agent, session, popped, left, pc>>
  BY DEF Receive, Terminate, Abandon, Listen, EndTurn, WakeUp
<1>2. /\ heard' \in SUBSET Calls
      /\ closed' \in SUBSET used
      /\ \A x \in Sessions : chan'[x] # << >> => x \in used
  <2>1. heard' \in SUBSET Calls
    BY DEF Inv, SessionType, Receive, Terminate, Abandon, Listen, EndTurn, WakeUp
  <2>2. closed' \in SUBSET used
    BY DEF Inv, SessionType, Created, Receive, Terminate, Abandon, Listen, EndTurn, WakeUp
  <2>3. \A x \in Sessions : chan'[x] # << >> => chan[x] # << >>
    BY DEF Inv, SessionType, Receive, Terminate, Abandon, Listen, EndTurn, WakeUp
  <2>4. QED
    BY <2>1, <2>2, <2>3 DEF Inv, Created
<1>3. chan' \in [Sessions -> Seq(Calls \cup {Shutdown})]
  <2> DEFINE M == Calls \cup {Shutdown}
  <2>1. \A x \in Sessions : chan[x] # << >> => Tail(chan[x]) \in Seq(M)
    BY HeadTailProperties DEF Inv, SessionType
  <2> HIDE DEF M
  <2>2. chan \in [Sessions -> Seq(M)]
    BY DEF Inv, SessionType, M
  <2>3. CASE chan' = chan
    BY <2>2, <2>3 DEF M
  <2>4. CASE chan[s] # << >> /\ chan' = [chan EXCEPT ![s] = Tail(@)]
    BY <2>1, <2>2, <2>4 DEF M
  <2>5. QED
    BY <2>3, <2>4 DEF Receive, Terminate, Abandon, Listen, EndTurn, WakeUp
<1>4. mail' \in [Sessions -> SUBSET Calls]
  BY DEF Inv, SessionType, Receive, Terminate, Abandon, Listen, EndTurn, WakeUp
<1>5. turn' \in [Sessions -> {"none", "starting", "running"}] /\ final' \in [Sessions -> BOOLEAN]
  BY DEF Inv, SessionType, Receive, Terminate, Abandon, Listen, EndTurn, WakeUp, StartTurn
<1>6. ListType' /\ Distinct' /\ PcType' /\ SlotsHeld' /\ Targeted' /\ ThreadType' /\ CallType'
  BY <1>1 DEF Inv, ListType, Distinct, PcType, SlotsHeld, Targeted, ThreadType, CallType
<1>7. SessionType'
  BY <1>1, <1>2, <1>3, <1>4, <1>5 DEF SessionType
<1>8. Created'
  BY <1>1, <1>2 DEF Inv, Created
<1>9. QED
  BY <1>6, <1>7, <1>8 DEF Inv

-----------------------------------------------------------------------------
(* The theorems.                                                             *)

LEMMA InitInv == Init => Inv
<1> SUFFICES ASSUME Init PROVE Inv
  OBVIOUS
<1> USE AgentResidencyAssumption
<1>1. ListType /\ Distinct
  BY DEF Init, ListType, Distinct
<1>2. ThreadType /\ SessionType /\ CallType /\ PcType
  BY DEF Init, ThreadType, SessionType, CallType, PcType, Labels
<1>3. Targeted /\ Created
  BY DEF Init, Targeted, Created, GivenLabels, PickedLabels, HandleLabels
<1>4. SlotsHeld
  <2>1. {c \in Calls : pc[c] \in HoldingLabels} = {}
    BY DEF Init, HoldingLabels
  <2>2. QED
    BY <2>1, FS_EmptySet DEF Init, SlotsHeld
<1>5. QED
  BY <1>1, <1>2, <1>3, <1>4 DEF Inv

LEMMA StepInv == Inv /\ [Next]_vars => Inv'
<1> SUFFICES ASSUME Inv, [Next]_vars PROVE Inv'
  OBVIOUS
<1>1. ASSUME NEW c \in Calls, Begin(c) PROVE Inv'
  BY <1>1, SpawnKeeps, SendKeeps DEF Begin
<1>2. ASSUME NEW c \in Calls, Step(c) PROVE Inv'
  <2>1. CASE Remove(c) \/ Forget(c) \/ Release(c)
    BY <2>1, RemoveKeeps, ForgetKeeps, ReleaseKeeps
  <2>2. CASE Load(c) \/ TouchLoaded(c) \/ Resume(c) \/ Finalize(c) \/ GiveBack(c)
    BY <2>2, LoadKeeps, TouchLoadedKeeps, ResumeKeeps, FinalizeKeeps, GiveBackKeeps
  <2>3. CASE (\E t \in Agents : Create(c, t)) \/ Commit(c)
    BY <2>3, CreateKeeps, CommitKeeps
  <2>4. CASE Reserve(c) \/ Scan(c) \/ Pop(c) \/ Inspect(c)
    BY <2>4, ReserveKeeps, ScanKeeps, PopKeeps, InspectKeeps
  <2>5. CASE IsUnloadable(c, "status", final[session[c]], "turn")
    BY <2>5, IsUnloadableKeeps
  <2>6. CASE IsUnloadable(c, "turn", turn[session[c]] = "none", "mailbox")
    BY <2>6, IsUnloadableKeeps
  <2>7. CASE IsUnloadable(c, "mailbox", mail[session[c]] = {}, "evict")
    BY <2>7, IsUnloadableKeeps
  <2>8. CASE Keep(c) \/ Evict(c) \/ Unload(c)
    BY <2>8, KeepKeeps, EvictKeeps, UnloadKeeps
  <2>9. CASE CheckCapacity(c) \/ Submit(c)
    BY <2>9, CheckCapacityKeeps, SubmitKeeps
  <2>10. QED
    BY <1>2, <2>1, <2>2, <2>3, <2>4, <2>5, <2>6, <2>7, <2>8, <2>9 DEF Step
<1>3. CASE UNCHANGED vars
  BY <1>3 DEF vars, listVars, threadVars, sessionVars, callVars, Inv, ListType, ThreadType,
              SessionType, CallType, PcType, Targeted, Created, Distinct, SlotsHeld
<1>4. QED
  BY <1>1, <1>2, <1>3, FailsKeeps, SessionsKeep DEF Next

LEMMA SpecInv == Spec => []Inv
BY InitInv, StepInv, PTL DEF Spec

\* Every variable keeps its type: a slot is never given back that was not taken (slots is a
\* natural number, pending_slots of residency.rs is a usize), a scan's count never goes below
\* zero, and only sessions that were created are shut down.
THEOREM TypeCorrect == Spec => []TypeOK
<1>1. Inv => TypeOK
  <2> SUFFICES ASSUME Inv PROVE TypeOK
    OBVIOUS
  <2>1. slots \in Nat
    <3>1. IsFiniteSet({c \in Calls : pc[c] \in HoldingLabels})
      BY AgentResidencyAssumption, FS_Subset
    <3>2. QED
      BY <3>1, FS_CardinalityType DEF Inv, SlotsHeld
  <2>2. QED
    BY <2>1 DEF Inv, TypeOK, ListType, ThreadType, SessionType, CallType, PcType
<1>2. QED
  BY <1>1, SpecInv, PTL

\* pending_slots of residency.rs is the number of calls that are between the reservation of a
\* slot and its commit or drop, whatever error, lost race or commit ends the call.
THEOREM SlotsCounted == Spec => []SlotsHeld
<1>1. Inv => SlotsHeld
  BY DEF Inv
<1>2. QED
  BY <1>1, SpecInv, PTL

\* The residency list never holds an agent twice, although touches, forgets and the pops of
\* several scans interleave: residents.len() is the number of agents listed, so the room that
\* try_reserve_pending_slot sees is not eaten up by repetitions.
THEOREM ListedOnce == Spec => []Distinct
<1>1. Inv => Distinct
  BY DEF Inv
<1>2. QED
  BY <1>1, SpecInv, PTL
=============================================================================
