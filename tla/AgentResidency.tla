--------------------------- MODULE AgentResidency ---------------------------
(***************************************************************************)
(* Which agents of a session are loaded: the residency list that unloads   *)
(* the least recently used idle agent to make room for another, loading an *)
(* unloaded agent before a message is sent to it, and the limiter of       *)
(* concurrently running turns.                                             *)
(*                                                                         *)
(* Source: codex-rs/core/src/agent/control/residency.rs,                   *)
(* agent/control/execution.rs, ensure_v2_agent_loaded and                  *)
(* spawn_agent_internal in agent/control/spawn.rs, and the sends of        *)
(* agent/control.rs.                                                       *)
(*                                                                         *)
(* Calls run concurrently with the agents' sessions.  An action is one     *)
(* critical section or one read of shared state between two awaits.  A     *)
(* session is reduced to its channel, mailbox, running turn and status;    *)
(* TurnEngine models what happens inside it.                               *)
(***************************************************************************)
EXTENDS Naturals, Sequences, FiniteSets

CONSTANTS
    Calls,          \* calls a behaviour may make; each sends one message (bound)
    Agents,         \* thread ids of sub-agents (bound)
    Stored,         \* agents registered and not loaded when the model starts
    Sessions,       \* session objects a behaviour may create (bound)
    Capacity,       \* max_concurrent_threads_per_session - 1: loaded and running agents
    Kinds,          \* which calls are made
    NoAgent, NoSession, Shutdown

ASSUME AgentResidencyAssumption ==
    /\ Stored \subseteq Agents /\ NoAgent \notin Agents /\ NoSession \notin Sessions
    /\ Shutdown \notin Calls
    /\ IsFiniteSet(Calls) /\ IsFiniteSet(Agents) /\ IsFiniteSet(Sessions)
    /\ Capacity \in Nat
    /\ Kinds \subseteq {"spawn", "followup", "message"}

VARIABLES
    residents,    \* V2ResidencyState.residents, least recently used first
    slots,        \* V2ResidencyState.pending_slots
    threads,      \* the thread manager's map
    known,        \* agents with an entry in the agent registry
    used,         \* session objects created so far
    chan,         \* operations submitted to a session and not yet received
    mail,         \* a session's mailbox
    turn,         \* a session's active turn: "none", "starting" or "running"
    final,        \* whether its status is Completed, Errored or Interrupted
    closed,       \* sessions whose submission loop has ended
    heard,        \* messages a turn has recorded
    pc, kind,     \* each call: what it does next, what it is
    agent,        \* the agent a call is about
    session,      \* the session object it holds
    popped,       \* the candidate it took off the residency list
    left          \* candidates its scan may still take

listVars == <<residents, slots>>
threadVars == <<threads, known, used>>
sessionVars == <<chan, mail, turn, final, closed, heard>>
callVars == <<kind, agent, session, popped, left>>
vars == <<listVars, threadVars, sessionVars, callVars, pc>>

-----------------------------------------------------------------------------
\* Where a call holds a residency slot, and where it holds a thread.
HoldingLabels == {"create", "resume", "finalize", "giveBack", "commit"}
HandleLabels == {"status", "turn", "mailbox", "keep", "evict", "evicting"}
Labels == HoldingLabels \cup
    {"idle", "done", "failed", "remove", "forget", "release", "load", "touch",
     "reserve", "scan", "pop", "inspect", "status", "turn", "mailbox", "keep", "evict",
     "evicting", "capacity", "submit"}

Goto(c, label) == pc' = [pc EXCEPT ![c] = label]

\* Messages of this kind have trigger_turn set.
Triggers(c) == kind[c] # "message"

\* AgentExecutionLimiter: one guard per running turn.
Active == Cardinality({s \in Sessions : turn[s] # "none"})
HasCapacity == Active < Capacity

\* The retain of touch_resident and forget.  The list never holds an agent twice (ListedOnce
\* in AgentResidency_proofs), so retain drops the one entry of t, if there is one.
Without(t) ==
    LET entries == {i \in DOMAIN residents : residents[i] = t}
        i == CHOOSE j \in entries : TRUE
    IN  IF entries = {} THEN residents
        ELSE SubSeq(residents, 1, i - 1) \o SubSeq(residents, i + 1, Len(residents))

\* touch_resident
Touch(t) == residents' = Append(Without(t), t)

NewSession == CHOOSE s \in Sessions : s \notin used

Init ==
    /\ residents = <<>> /\ slots = 0
    /\ threads = [t \in Agents |-> NoSession]
    /\ known = Stored /\ used = {}
    /\ chan = [s \in Sessions |-> <<>>]
    /\ mail = [s \in Sessions |-> {}]
    /\ turn = [s \in Sessions |-> "none"]
    /\ final = [s \in Sessions |-> FALSE]
    /\ closed = {} /\ heard = {}
    /\ pc = [c \in Calls |-> "idle"]
    /\ kind = [c \in Calls |-> "spawn"]
    /\ agent = [c \in Calls |-> NoAgent]
    /\ session = [c \in Calls |-> NoSession]
    /\ popped = [c \in Calls |-> NoAgent]
    /\ left = [c \in Calls |-> 0]

-----------------------------------------------------------------------------
(* The calls                                                               *)

\* spawn_agent_internal, up to ensure_execution_capacity.
Spawn(c) ==
    /\ pc[c] = "idle" /\ "spawn" \in Kinds
    /\ kind' = [kind EXCEPT ![c] = "spawn"]
    /\ Goto(c, IF HasCapacity THEN "reserve" ELSE "failed")
    /\ UNCHANGED <<listVars, threadVars, sessionVars, agent, session, popped, left>>

\* handle_message_string_tool: the target is known; then ensure_v2_agent_loaded.
Send(c, k, t) ==
    /\ pc[c] = "idle" /\ k \in Kinds \cap {"followup", "message"} /\ t \in known
    /\ kind' = [kind EXCEPT ![c] = k]
    /\ agent' = [agent EXCEPT ![c] = t]
    /\ Goto(c, "load")
    /\ UNCHANGED <<listVars, threadVars, sessionVars, session, popped, left>>

\* handle_thread_request_result, after InternalAgentDied: remove_thread,
\* forget_v2_residency, release_spawned_thread.
Remove(c) ==
    /\ pc[c] = "remove"
    /\ threads' = [threads EXCEPT ![agent[c]] = NoSession]
    /\ Goto(c, "forget")
    /\ UNCHANGED <<listVars, known, used, sessionVars, callVars>>

Forget(c) ==
    /\ pc[c] = "forget"
    /\ residents' = Without(agent[c])
    /\ Goto(c, "release")
    /\ UNCHANGED <<slots, threadVars, sessionVars, callVars>>

Release(c) ==
    /\ pc[c] = "release"
    /\ known' = known \ {agent[c]}
    /\ Goto(c, "failed")
    /\ UNCHANGED <<listVars, threads, used, sessionVars, callVars>>

-----------------------------------------------------------------------------
(* ensure_v2_agent_loaded                                                  *)

\* A loaded agent is touched, an unloaded one must be registered.
Load(c) ==
    /\ pc[c] = "load"
    /\ Goto(c, IF threads[agent[c]] # NoSession THEN "touch"
               ELSE IF agent[c] \in known THEN "reserve" ELSE "failed")
    /\ UNCHANGED <<listVars, threadVars, sessionVars, callVars>>

\* touch_loaded_v2_residency looks the thread up again before it touches it.
TouchLoaded(c) ==
    /\ pc[c] = "touch"
    /\ Touch(agent[c]) \/ (threads[agent[c]] = NoSession /\ UNCHANGED residents)
    /\ Goto(c, "capacity")
    /\ UNCHANGED <<slots, threadVars, sessionVars, callVars>>

\* spawn_thread on the stored agent: a running one is returned as it is, one
\* whose loop has ended is taken out of the map first.
Resume(c) ==
    /\ pc[c] = "resume"
    /\ IF threads[agent[c]] \in Sessions \ closed
       THEN Goto(c, "commit") /\ UNCHANGED threads
       ELSE /\ threads' = [threads EXCEPT ![agent[c]] = NoSession]
            /\ Goto(c, "finalize")
    /\ UNCHANGED <<listVars, known, used, sessionVars, callVars>>

\* finalize_thread_spawn: a thread that another call loaded meanwhile is kept
\* and the new session shut down.
Finalize(c) ==
    /\ pc[c] = "finalize"
    /\ IF threads[agent[c]] # NoSession
       THEN Goto(c, "giveBack") /\ UNCHANGED <<threads, used>>
       ELSE /\ used # Sessions
            /\ used' = used \cup {NewSession}
            /\ threads' = [threads EXCEPT ![agent[c]] = NewSession]
            /\ Goto(c, "commit")
    /\ UNCHANGED <<listVars, known, sessionVars, callVars>>

\* Mutant of GiveBack: the slot is forgotten.
GiveBackNothing(c) ==
    /\ pc[c] = "giveBack"
    /\ Goto(c, IF threads[agent[c]] = NoSession THEN "failed" ELSE "touch")
    /\ UNCHANGED <<listVars, threadVars, sessionVars, callVars>>

\* Mutant of GiveBack: the slot is given back by the error path and by its drop.
GiveBackTwice(c) ==
    /\ pc[c] = "giveBack"
    /\ slots' = slots - 2
    /\ Goto(c, IF threads[agent[c]] = NoSession THEN "failed" ELSE "touch")
    /\ UNCHANGED <<residents, threadVars, sessionVars, callVars>>

\* The slot is dropped; an agent that another call loaded is touched, otherwise
\* the error is returned.
GiveBack(c) ==
    /\ pc[c] = "giveBack"
    /\ slots' = slots - 1
    /\ Goto(c, IF threads[agent[c]] = NoSession THEN "failed" ELSE "touch")
    /\ UNCHANGED <<residents, threadVars, sessionVars, callVars>>

\* An error on the way: the stored agent cannot be read, or the session cannot
\* be started, which drops the slot.
Fails(c) ==
    /\ \/ pc[c] = "load" /\ threads[agent[c]] = NoSession /\ Goto(c, "failed") /\ UNCHANGED slots
       \/ pc[c] = "finalize" /\ Goto(c, "giveBack") /\ UNCHANGED slots
       \/ pc[c] = "create" /\ Goto(c, "failed") /\ slots' = slots - 1
    /\ UNCHANGED <<residents, threadVars, sessionVars, callVars>>

\* A spawn creates its thread and registers it.
Create(c, t) ==
    /\ pc[c] = "create" /\ used # Sessions
    /\ t \notin known \cup Stored /\ \A d \in Calls : agent[d] # t
    /\ agent' = [agent EXCEPT ![c] = t]
    /\ used' = used \cup {NewSession}
    /\ threads' = [threads EXCEPT ![t] = NewSession]
    /\ known' = known \cup {t}
    /\ Goto(c, "commit")
    /\ UNCHANGED <<listVars, sessionVars, kind, session, popped, left>>

\* V2ResidencySlot::commit; a spawn checked the capacity when it began.
Commit(c) ==
    /\ pc[c] = "commit"
    /\ slots' = slots - 1
    /\ Touch(agent[c])
    /\ Goto(c, IF kind[c] = "spawn" THEN "submit" ELSE "capacity")
    /\ UNCHANGED <<threadVars, sessionVars, callVars>>

-----------------------------------------------------------------------------
(* reserve_slot and try_unload_one_resident                                *)

\* try_reserve_pending_slot, then a scan of the list if it is full.
Reserve(c) ==
    /\ pc[c] = "reserve"
    /\ IF Len(residents) + slots < Capacity
       THEN /\ slots' = slots + 1
            /\ Goto(c, IF kind[c] = "spawn" THEN "create" ELSE "resume")
       ELSE Goto(c, "scan") /\ UNCHANGED slots
    /\ UNCHANGED <<residents, threadVars, sessionVars, callVars>>

\* resident_count
Scan(c) ==
    /\ pc[c] = "scan"
    /\ left' = [left EXCEPT ![c] = Len(residents)]
    /\ Goto(c, "pop")
    /\ UNCHANGED <<listVars, threadVars, sessionVars, kind, agent, session, popped>>

\* pop_lru_candidate: the first entry other than the protected one, which goes
\* to the back.  With no candidate left the reservation fails.
Pop(c) ==
    /\ pc[c] = "pop"
    /\ LET others == {i \in DOMAIN residents : residents[i] # agent[c]}
           i == CHOOSE j \in others : \A k \in others : j <= k
       IN  IF left[c] = 0 \/ others = {}
           THEN Goto(c, "failed") /\ UNCHANGED <<residents, popped, left>>
           ELSE /\ popped' = [popped EXCEPT ![c] = residents[i]]
                /\ residents' = SubSeq(residents, i + 1, Len(residents)) \o
                                SubSeq(residents, 1, i - 1)
                /\ left' = [left EXCEPT ![c] = @ - 1]
                /\ Goto(c, "inspect")
    /\ UNCHANGED <<slots, threadVars, sessionVars, kind, agent, session>>

\* A candidate that is not loaded leaves the list.
Inspect(c) ==
    /\ pc[c] = "inspect"
    /\ session' = [session EXCEPT ![c] = threads[popped[c]]]
    /\ Goto(c, IF threads[popped[c]] = NoSession THEN "pop" ELSE "status")
    /\ UNCHANGED <<listVars, threadVars, sessionVars, kind, agent, popped, left>>

\* is_unloadable reads the status, the active turn and the mailbox in turn.
IsUnloadable(c, here, test, next) ==
    /\ pc[c] = here
    /\ Goto(c, IF test THEN next ELSE "keep")
    /\ UNCHANGED <<listVars, threadVars, sessionVars, callVars>>

\* Mutant of Keep: the scan starts again instead of going on.
KeepRescans(c) ==
    /\ pc[c] = "keep"
    /\ Touch(popped[c])
    /\ Goto(c, "scan")
    /\ UNCHANGED <<slots, threadVars, sessionVars, callVars>>

\* A candidate that cannot be unloaded goes back to the list.
Keep(c) ==
    /\ pc[c] = "keep"
    /\ Touch(popped[c])
    /\ Goto(c, "pop")
    /\ UNCHANGED <<slots, threadVars, sessionVars, callVars>>

\* shutdown_and_wait: submits Op::Shutdown, if the loop still runs.
Evict(c) ==
    /\ pc[c] = "evict"
    /\ chan' = IF session[c] \in closed THEN chan
               ELSE [chan EXCEPT ![session[c]] = Append(@, Shutdown)]
    /\ Goto(c, "evicting")
    /\ UNCHANGED <<listVars, threadVars, mail, turn, final, closed, heard, callVars>>

\* The loop has ended: remove_thread, and try to reserve again.
Unload(c) ==
    /\ pc[c] = "evicting" /\ session[c] \in closed
    /\ threads' = [threads EXCEPT ![popped[c]] = NoSession]
    /\ Goto(c, "reserve")
    /\ UNCHANGED <<listVars, known, used, sessionVars, callVars>>

-----------------------------------------------------------------------------
(* The message                                                             *)

\* ensure_execution_capacity_for_turn_start.
CheckCapacity(c) ==
    /\ pc[c] = "capacity"
    /\ LET s == threads[agent[c]]
       IN  Goto(c, IF ~Triggers(c) THEN "submit"
                   ELSE IF s = NoSession THEN "failed"
                   ELSE IF turn[s] # "none" \/ HasCapacity THEN "submit" ELSE "failed")
    /\ UNCHANGED <<listVars, threadVars, sessionVars, callVars>>

\* send_op: a thread that is gone, or whose loop has ended, is an error; the
\* latter also removes the agent (handle_thread_request_result).
Submit(c) ==
    /\ pc[c] = "submit"
    /\ LET s == threads[agent[c]]
       IN  /\ session' = [session EXCEPT ![c] = s]
           /\ IF s \in Sessions \ closed
              THEN chan' = [chan EXCEPT ![s] = Append(@, c)] /\ Goto(c, "done")
              ELSE Goto(c, IF s = NoSession THEN "failed" ELSE "remove") /\ UNCHANGED chan
    /\ UNCHANGED <<listVars, threadVars, mail, turn, final, closed, heard, kind, agent,
                   popped, left>>

-----------------------------------------------------------------------------
(* A session                                                               *)

\* A turn starts: its task takes an execution guard.
StartTurn(s) ==
    /\ turn' = [turn EXCEPT ![s] = "starting"]
    /\ final' = [final EXCEPT ![s] = FALSE]

\* The submission loop receives a message: it goes to the mailbox, and one that
\* triggers starts a turn if none is active.
Receive(s) ==
    /\ s \notin closed /\ chan[s] # <<>> /\ Head(chan[s]) # Shutdown
    /\ mail' = [mail EXCEPT ![s] = @ \cup {Head(chan[s])}]
    /\ chan' = [chan EXCEPT ![s] = Tail(@)]
    /\ IF Triggers(Head(chan[s])) /\ turn[s] = "none"
       THEN StartTurn(s) ELSE UNCHANGED <<turn, final>>
    /\ UNCHANGED <<listVars, threadVars, closed, heard, callVars, pc>>

\* It receives Op::Shutdown: the turn is aborted and the loop ends.
Terminate(s) ==
    /\ s \notin closed /\ chan[s] # <<>> /\ Head(chan[s]) = Shutdown
    /\ closed' = closed \cup {s}
    /\ turn' = [turn EXCEPT ![s] = "none"]
    /\ final' = [final EXCEPT ![s] = FALSE]
    /\ UNCHANGED <<listVars, threadVars, chan, mail, heard, callVars, pc>>

\* The last handle of a thread is dropped: the loop ends when it has received
\* what was submitted.
Abandon(s) ==
    /\ s \in used \ closed /\ chan[s] = <<>>
    /\ \A t \in Agents : threads[t] # s
    /\ \A c \in Calls : session[c] = s => pc[c] \notin HandleLabels
    /\ closed' = closed \cup {s}
    /\ turn' = [turn EXCEPT ![s] = "none"]
    /\ final' = [final EXCEPT ![s] = FALSE]
    /\ UNCHANGED <<listVars, threadVars, chan, mail, heard, callVars, pc>>

\* The turn drains the mailbox, once when it starts and again at will.
Listen(s) ==
    /\ turn[s] = "starting" \/ (turn[s] = "running" /\ mail[s] # {})
    /\ heard' = heard \cup mail[s]
    /\ mail' = [mail EXCEPT ![s] = {}]
    /\ turn' = [turn EXCEPT ![s] = "running"]
    /\ UNCHANGED <<listVars, threadVars, chan, final, closed, callVars, pc>>

\* The turn ends: its guard is dropped and the status is final.
EndTurn(s) ==
    /\ turn[s] = "running"
    /\ turn' = [turn EXCEPT ![s] = "none"]
    /\ final' = [final EXCEPT ![s] = TRUE]
    /\ UNCHANGED <<listVars, threadVars, chan, mail, closed, heard, callVars, pc>>

\* Mutant of WakeUp: mail is looked at before the first turn only.
WakeUpFirst(s) ==
    /\ s \notin closed /\ turn[s] = "none" /\ ~final[s] /\ \E c \in mail[s] : Triggers(c)
    /\ StartTurn(s)
    /\ UNCHANGED <<listVars, threadVars, chan, mail, closed, heard, callVars, pc>>

\* maybe_start_turn_for_pending_work after a turn.
WakeUp(s) ==
    /\ s \notin closed /\ turn[s] = "none" /\ \E c \in mail[s] : Triggers(c)
    /\ StartTurn(s)
    /\ UNCHANGED <<listVars, threadVars, chan, mail, closed, heard, callVars, pc>>

-----------------------------------------------------------------------------
Begin(c) ==
    \/ Spawn(c)
    \/ \E t \in Agents, k \in {"followup", "message"} : Send(c, k, t)

Step(c) ==
    \/ Remove(c) \/ Forget(c) \/ Release(c)
    \/ Load(c) \/ TouchLoaded(c) \/ Resume(c) \/ Finalize(c) \/ GiveBack(c)
    \/ (\E t \in Agents : Create(c, t)) \/ Commit(c)
    \/ Reserve(c) \/ Scan(c) \/ Pop(c) \/ Inspect(c)
    \/ IsUnloadable(c, "status", final[session[c]], "turn")
    \/ IsUnloadable(c, "turn", turn[session[c]] = "none", "mailbox")
    \/ IsUnloadable(c, "mailbox", mail[session[c]] = {}, "evict")
    \/ Keep(c) \/ Evict(c) \/ Unload(c)
    \/ CheckCapacity(c) \/ Submit(c)

Next ==
    \/ \E c \in Calls : Begin(c) \/ Step(c) \/ Fails(c)
    \/ \E s \in Sessions :
          Receive(s) \/ Terminate(s) \/ Abandon(s) \/ Listen(s) \/ EndTurn(s) \/ WakeUp(s)

Spec == Init /\ [][Next]_vars

\* The runtime polls the future of every call and every session's loop; a turn
\* records its mail and its task finishes.  Nobody has to make a call.
Fairness ==
    /\ \A c \in Calls : WF_vars(Step(c) \/ Fails(c))
    /\ \A s \in Sessions : /\ WF_vars(Receive(s) \/ Terminate(s))
                           /\ WF_vars(Listen(s) \/ WakeUp(s))

FairSpec == Spec /\ Fairness

-----------------------------------------------------------------------------
(* Properties                                                              *)

\* The types.  In particular pending_slots never goes below zero and only a
\* session that was created is shut down.
TypeOK ==
    /\ residents \in Seq(Agents) /\ slots \in Nat
    /\ threads \in [Agents -> Sessions \cup {NoSession}]
    /\ known \subseteq Agents /\ used \subseteq Sessions
    /\ chan \in [Sessions -> Seq(Calls \cup {Shutdown})]
    /\ mail \in [Sessions -> SUBSET Calls]
    /\ turn \in [Sessions -> {"none", "starting", "running"}]
    /\ final \in [Sessions -> BOOLEAN]
    /\ closed \subseteq used /\ heard \subseteq Calls
    /\ pc \in [Calls -> Labels]
    /\ kind \in [Calls -> {"spawn", "followup", "message"}]
    /\ agent \in [Calls -> Agents \cup {NoAgent}]
    /\ session \in [Calls -> Sessions \cup {NoSession}]
    /\ popped \in [Calls -> Agents \cup {NoAgent}]
    /\ left \in [Calls -> Nat]

\* pending_slots is the number of calls that hold a slot, so no error path, no
\* lost race for a thread and no commit leaks one or gives one back twice (which
\* saturating_sub would hide).
SlotsHeld == slots = Cardinality({c \in Calls : pc[c] \in HoldingLabels})

\* Every call ends: a scan that puts busy agents back on the list it walks, and
\* a reservation that loses the room it made to another call, do not go on for ever.
CallsReturn == \A c \in Calls : pc[c] # "idle" ~> pc[c] \in {"done", "failed"}

\* A message that triggers a turn and that a session accepted is recorded by a
\* turn, also when it arrives as the turn before it ends, unless the session is
\* shut down first.
TriggerHeard ==
    \A c \in Calls : pc[c] = "done" /\ Triggers(c) ~> c \in heard \/ session[c] \in closed
=============================================================================
