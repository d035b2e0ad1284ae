----------------------------- MODULE TurnEngine -----------------------------
(***************************************************************************)
(* One session's turn engine: the active-turn slot, the input queue, and   *)
(* the routines that start, run, finish and abort tasks on that slot.      *)
(*                                                                         *)
(* Source: codex-rs/core/src/tasks/mod.rs, tasks/regular.rs,               *)
(* session/input_queue.rs, session/inject.rs, session/turn.rs,             *)
(* session/handlers.rs, session/mod.rs and state/turn.rs.                  *)
(*                                                                         *)
(* Three kinds of actors run concurrently: the submission loop (Loop),     *)
(* which handles one operation at a time; a caller outside the loop (Ext), *)
(* such as the goal extension or a thread-level request; and the spawned   *)
(* tasks.  An action is one critical section of the code: what an actor    *)
(* does between two awaits that take the active-turn, turn-state or        *)
(* mailbox lock.  handle.abort() is taken to stop its task at once.        *)
(***************************************************************************)
EXTENDS Naturals, FiniteSets

CONSTANTS
    Tasks,          \* turns a behaviour may start (bound)
    TurnStates,     \* turn_state allocations a behaviour may make (bound)
    Loop, Ext,      \* the submission loop, and a caller outside it
    NoTask, NoState,
    UserInputs,     \* user messages
    TriggerMail,    \* inter-agent mail with trigger_turn set
    QueueMail,      \* inter-agent mail without it
    GoalItems,      \* continuation items of try_start_turn_if_idle
    Injected,       \* items given to inject_no_new_turn
    Operations,     \* which further operations are submitted
    Commands,       \* how many of those in a behaviour (bound)
    DurableSleep,   \* has_outstanding_durable_sleep()
    Faults          \* whether sampling and compaction may fail

Items == UserInputs \cup TriggerMail \cup QueueMail \cup GoalItems \cup Injected
Controllers == {Loop, Ext}
Actors == Controllers \cup Tasks
Kinds == {"regular", "compact", "shell", "interrupt"}

ASSUME TurnEngineAssumption ==
    /\ Loop # Ext /\ Controllers \cap Tasks = {}
    /\ NoTask \notin Actors /\ NoState \notin TurnStates
    /\ UserInputs \cap (TriggerMail \cup QueueMail \cup GoalItems \cup Injected) = {}
    /\ TriggerMail \cap (QueueMail \cup GoalItems \cup Injected) = {}
    /\ QueueMail \cap (GoalItems \cup Injected) = {}
    /\ GoalItems \cap Injected = {}
    /\ Commands \in Nat
    /\ Operations \subseteq {"compact", "shell", "interrupt", "shutdown", "force",
                             "ask", "rollover"}
    /\ DurableSleep \in BOOLEAN /\ Faults \in BOOLEAN

VARIABLES
    activeState,  \* active_turn's turn_state, NoState when active_turn is None
    activeTask,   \* active_turn's task, NoTask when it is None
    used,         \* turn states allocated so far
    pending,      \* turn_state.pending_input.items
    phase,        \* turn_state.mailbox_delivery_phase
    waiting,      \* turn_state.pending_user_input: the tasks with a waiter
    mailbox,      \* input_queue.mailbox_pending_mails
    history,      \* how often each item was recorded in the conversation
    pc,           \* what each actor is about to do
    kind,         \* what each actor runs, or is about to start
    stateOf,      \* the turn_state Arc an actor holds
    buf,          \* items an actor has drained and not yet put anywhere
    carry,        \* a task's `input`, or the one a starter will give it
    victim,       \* the RunningTask an abort holds
    cancelled,    \* cancelled cancellation tokens
    terminal,     \* TurnComplete and TurnAborted events sent for a turn
    fresh,        \* items nobody has submitted yet
    refused,      \* items returned to the caller
    discarded,    \* items dropped with an aborted or failed turn
    commands,     \* commands left
    closing       \* Op::Shutdown was received

queueVars == <<pending, phase, waiting, mailbox>>
slotVars == <<activeState, activeTask, used>>
frameVars == <<kind, stateOf, buf, carry, victim>>
ghostVars == <<fresh, refused, discarded, commands, closing>>
vars == <<queueVars, slotVars, frameVars, ghostVars, pc, history, cancelled, terminal>>

-----------------------------------------------------------------------------
(* Helpers                                                                 *)

Goto(a, label) == pc' = [pc EXCEPT ![a] = label]

\* A routine returns: a controller waits for the next call, a task has ended.
Back(a) == IF a \in Tasks THEN "done" ELSE "ready"

Record(S) == history' = [i \in Items |-> IF i \in S THEN history[i] + 1 ELSE history[i]]

\* has_trigger_turn_mailbox_items
TriggerWaits == \E m \in TriggerMail : m \in mailbox

\* The test that opens maybe_start_turn_for_pending_work_with_sub_id.
WorkWaits == mailbox # {} /\ (TriggerWaits \/ DurableSleep)

\* Turns and turn states are interchangeable: the next new one is fixed.
NewState == CHOOSE s \in TurnStates : s \notin used
NewTask == CHOOSE t \in Tasks : pc[t] = "unused"

\* Stores a fresh ActiveTurn::default() in the slot.
Reserve(s) ==
    /\ s \in TurnStates \ used /\ s = NewState
    /\ used' = used \cup {s}
    /\ activeState' = s

\* active_turn.get_or_insert_with(ActiveTurn::default)
GetOrInsert(s) ==
    IF activeState = NoState
    THEN Reserve(s)
    ELSE s = activeState /\ UNCHANGED <<activeState, used>>

\* active_turn.task is some task: the turn is running.
Running == activeState # NoState /\ activeTask # NoTask

Init ==
    /\ activeState = NoState /\ activeTask = NoTask /\ used = {}
    /\ pending = [s \in TurnStates |-> {}]
    /\ phase = [s \in TurnStates |-> "CurrentTurn"]
    /\ waiting = [s \in TurnStates |-> {}]
    /\ mailbox = {}
    /\ history = [i \in Items |-> 0]
    /\ pc = [a \in Actors |-> IF a \in Tasks THEN "unused" ELSE "ready"]
    /\ kind = [a \in Actors |-> "regular"]
    /\ stateOf = [a \in Actors |-> NoState]
    /\ buf = [a \in Actors |-> {}]
    /\ carry = [a \in Actors |-> {}]
    /\ victim = [a \in Actors |-> NoTask]
    /\ cancelled = {}
    /\ terminal = [t \in Tasks |-> 0]
    /\ fresh = Items /\ refused = {} /\ discarded = {}
    /\ commands = Commands
    /\ closing = FALSE

-----------------------------------------------------------------------------
(* The submission loop: one operation at a time.                           *)

LoopReady == pc[Loop] = "ready" /\ ~closing

\* Op::UserInput into a running turn: steer_input appends it and reopens
\* mailbox delivery, under the active-turn lock.
Steer(u) ==
    /\ LoopReady /\ u \in fresh \cap UserInputs
    /\ Running /\ kind[activeTask] \in {"regular", "shell"}
    /\ fresh' = fresh \ {u}
    /\ pending' = [pending EXCEPT ![activeState] = @ \cup {u}]
    /\ phase' = [phase EXCEPT ![activeState] = "CurrentTurn"]
    /\ UNCHANGED <<waiting, mailbox, slotVars, frameVars, refused, discarded,
                   commands, closing, pc, history, cancelled, terminal>>

\* Op::UserInput while a compact turn runs is answered with an error.
SteerRefused(u) ==
    /\ LoopReady /\ u \in fresh \cap UserInputs
    /\ Running /\ kind[activeTask] \notin {"regular", "shell"}
    /\ fresh' = fresh \ {u}
    /\ refused' = refused \cup {u}
    /\ UNCHANGED <<queueVars, slotVars, frameVars, discarded, commands, closing,
                   pc, history, cancelled, terminal>>

\* Op::UserInput with NoActiveTurn: spawn_task(RegularTask) with that input.
UserTurn(u) ==
    /\ LoopReady /\ u \in fresh \cap UserInputs
    /\ ~Running
    /\ fresh' = fresh \ {u}
    /\ carry' = [carry EXCEPT ![Loop] = {u}]
    /\ kind' = [kind EXCEPT ![Loop] = "regular"]
    /\ Goto(Loop, "abort")
    /\ UNCHANGED <<queueVars, slotVars, stateOf, buf, victim, refused, discarded,
                   commands, closing, history, cancelled, terminal>>

\* One more command, of a kind the configuration submits.
Command(op) ==
    /\ op \in Operations
    /\ commands > 0 /\ commands' = commands - 1

\* Op::Compact, and Op::RunUserShellCommand with no running turn: spawn_task.
SpawnOther(k) ==
    /\ LoopReady /\ Command(k)
    /\ k = "shell" => ~Running
    /\ kind' = [kind EXCEPT ![Loop] = k]
    /\ Goto(Loop, "abort")
    /\ UNCHANGED <<queueVars, slotVars, stateOf, buf, carry, victim, fresh, refused,
                   discarded, closing, history, cancelled, terminal>>

\* Op::Interrupt, and Op::Shutdown, which also ends the loop:
\* abort_all_tasks(Interrupted).
Interrupt(op) ==
    /\ LoopReady /\ Command(op)
    /\ closing' = (op = "shutdown")
    /\ kind' = [kind EXCEPT ![Loop] = "interrupt"]
    /\ Goto(Loop, "abort")
    /\ UNCHANGED <<queueVars, slotVars, stateOf, buf, carry, victim, fresh, refused,
                   discarded, history, cancelled, terminal>>

\* An agent controller calls abort_all_tasks(Interrupted) outside the loop.
ForceStop ==
    /\ pc[Ext] = "ready" /\ Command("force")
    /\ kind' = [kind EXCEPT ![Ext] = "interrupt"]
    /\ Goto(Ext, "abort")
    /\ UNCHANGED <<queueVars, slotVars, stateOf, buf, carry, victim, fresh, refused,
                   discarded, closing, history, cancelled, terminal>>

\* Op::InterAgentCommunication: enqueue, then wake an idle session.
Mail(m) ==
    /\ LoopReady /\ m \in fresh \cap (TriggerMail \cup QueueMail)
    /\ fresh' = fresh \ {m}
    /\ mailbox' = mailbox \cup {m}
    /\ IF m \in TriggerMail \/ DurableSleep THEN Goto(Loop, "wake") ELSE UNCHANGED pc
    /\ UNCHANGED <<pending, phase, waiting, slotVars, frameVars, refused, discarded,
                   commands, closing, history, cancelled, terminal>>

\* Mutant of Answer: the waiter is removed and its response never sent.
AnswerUnsent(t) ==
    /\ LoopReady /\ activeState # NoState /\ t \in waiting[activeState]
    /\ waiting' = [waiting EXCEPT ![activeState] = @ \ {t}]
    /\ UNCHANGED <<pending, phase, mailbox, slotVars, frameVars, ghostVars, pc, history,
                   cancelled, terminal>>

\* Op::UserInputAnswer: resolves the waiter, if the active turn has it.
Answer(t) ==
    /\ LoopReady /\ activeState # NoState /\ t \in waiting[activeState]
    /\ waiting' = [waiting EXCEPT ![activeState] = @ \ {t}]
    /\ IF pc[t] = "wait" THEN Goto(t, "sampleMore") ELSE UNCHANGED pc
    /\ UNCHANGED <<pending, phase, mailbox, slotVars, frameVars, ghostVars, history,
                   cancelled, terminal>>

-----------------------------------------------------------------------------
(* abort_all_tasks, run by a controller whose kind says what follows it.   *)

\* Mutant of AfterAbort: spawn_task aborts and forgets to start.
AfterAbortNothing(a) == "ready"

AfterAbort(a) == IF kind[a] = "interrupt" THEN "ready" ELSE "pull"

\* take_active_turn finds no task: a reserved turn is dropped with its slot.
AbortNothing(a) ==
    /\ pc[a] = "abort" /\ activeTask = NoTask
    /\ activeState' = NoState
    /\ Goto(a, AfterAbort(a))
    /\ UNCHANGED <<queueVars, activeTask, used, frameVars, ghostVars, history,
                   cancelled, terminal>>

\* Mutant of AbortTake: the token is not cancelled.
AbortTakeUncancelled(a) ==
    /\ pc[a] = "abort" /\ activeTask # NoTask
    /\ victim' = [victim EXCEPT ![a] = activeTask]
    /\ stateOf' = [stateOf EXCEPT ![a] = activeState]
    /\ activeState' = NoState /\ activeTask' = NoTask
    /\ Goto(a, "grace")
    /\ UNCHANGED <<queueVars, used, kind, buf, carry, ghostVars, history, cancelled, terminal>>

\* take_active_turn finds a task: its token is cancelled and the abort waits.
AbortTake(a) ==
    /\ pc[a] = "abort" /\ activeTask # NoTask
    /\ victim' = [victim EXCEPT ![a] = activeTask]
    /\ stateOf' = [stateOf EXCEPT ![a] = activeState]
    /\ cancelled' = cancelled \cup {activeTask}
    /\ activeState' = NoState /\ activeTask' = NoTask
    /\ Goto(a, "grace")
    /\ UNCHANGED <<queueVars, used, kind, buf, carry, ghostVars, history, terminal>>

\* Mutant of AbortKill: the handle is not aborted after the grace period.
AbortKillLeaves(a) ==
    /\ pc[a] = "grace"
    /\ Goto(a, "clear")
    /\ terminal' = [terminal EXCEPT ![victim[a]] = @ + 1]
    /\ UNCHANGED <<queueVars, slotVars, frameVars, ghostVars, history, cancelled>>

\* The task ended or the grace period did: abort its handle, send TurnAborted.
AbortKill(a) ==
    /\ pc[a] = "grace"
    /\ pc' = [pc EXCEPT ![a] = "clear",
                        ![victim[a]] = IF @ = "done" THEN @ ELSE "killed"]
    /\ terminal' = [terminal EXCEPT ![victim[a]] = @ + 1]
    /\ UNCHANGED <<queueVars, slotVars, frameVars, ghostVars, history, cancelled>>

\* clear_pending drops the turn's waiters and input; an interrupt then wakes
\* the session for pending mail, a replacement starts its task.
AbortClear(a) ==
    /\ pc[a] = "clear"
    /\ pending' = [pending EXCEPT ![stateOf[a]] = {}]
    /\ waiting' = [waiting EXCEPT ![stateOf[a]] = {}]
    /\ discarded' = discarded \cup pending[stateOf[a]]
    /\ stateOf' = [stateOf EXCEPT ![a] = NoState]
    /\ victim' = [victim EXCEPT ![a] = NoTask]
    /\ Goto(a, IF kind[a] = "interrupt" THEN "wake" ELSE "pull")
    /\ UNCHANGED <<phase, mailbox, slotVars, kind, buf, carry, fresh, refused, commands,
                   closing, history, cancelled, terminal>>

-----------------------------------------------------------------------------
(* maybe_start_turn_for_pending_work and start_task                        *)

Wake(a) ==
    /\ pc[a] = "wake"
    /\ Goto(a, IF WorkWaits THEN "reserve" ELSE Back(a))
    /\ UNCHANGED <<queueVars, slotVars, frameVars, ghostVars, history, cancelled, terminal>>

\* Mutant of WakeReserve: the slot is taken without looking.
WakeReserveBlind(a) ==
    /\ pc[a] = "reserve"
    /\ \E s \in TurnStates : Reserve(s)
    /\ kind' = [kind EXCEPT ![a] = "regular"]
    /\ Goto(a, "pull")
    /\ UNCHANGED <<queueVars, activeTask, stateOf, buf, carry, victim, ghostVars, history,
                   cancelled, terminal>>

WakeReserve(a) ==
    /\ pc[a] = "reserve"
    /\ IF activeState = NoState
       THEN /\ \E s \in TurnStates : Reserve(s)
            /\ kind' = [kind EXCEPT ![a] = "regular"]
            /\ Goto(a, "pull")
       ELSE /\ Goto(a, Back(a))
            /\ UNCHANGED <<activeState, used, kind>>
    /\ UNCHANGED <<queueVars, activeTask, stateOf, buf, carry, victim, ghostVars, history,
                   cancelled, terminal>>

\* Mutant of TakePending: the items are cloned, not split off.
TakePendingClone(a, open, shut) ==
    IF activeState # NoState /\ phase[activeState] = "CurrentTurn"
    THEN /\ buf' = [buf EXCEPT ![a] = pending[activeState]]
         /\ Goto(a, open)
         /\ UNCHANGED pending
    ELSE Goto(a, IF activeState = NoState THEN open ELSE shut) /\ UNCHANGED <<pending, buf>>

\* get_pending_input, first lock: takes the active turn's items if it accepts
\* mailbox delivery; `open` follows if the mailbox is drained next.
TakePending(a, open, shut) ==
    IF activeState = NoState
    THEN Goto(a, open) /\ UNCHANGED <<pending, buf>>
    ELSE IF phase[activeState] = "CurrentTurn"
    THEN /\ buf' = [buf EXCEPT ![a] = pending[activeState]]
         /\ pending' = [pending EXCEPT ![activeState] = {}]
         /\ Goto(a, open)
    ELSE Goto(a, shut) /\ UNCHANGED <<pending, buf>>

\* get_pending_input, second lock: drain_mailbox_input_items.
DrainMailbox(a, next) ==
    /\ buf' = [buf EXCEPT ![a] = @ \cup mailbox]
    /\ mailbox' = {}
    /\ Goto(a, next)

\* start_task first drains the queue.
StartPull(a) ==
    /\ pc[a] = "pull"
    /\ TakePending(a, "drain", "attach")
    /\ UNCHANGED <<phase, waiting, mailbox, slotVars, kind, stateOf, carry, victim,
                   ghostVars, history, cancelled, terminal>>

StartDrain(a) ==
    /\ pc[a] = "drain"
    /\ DrainMailbox(a, "attach")
    /\ UNCHANGED <<pending, phase, waiting, slotVars, kind, stateOf, carry, victim,
                   ghostVars, history, cancelled, terminal>>

\* start_task's first look at the slot: put what was drained in its turn state.
StartAttach(a) ==
    /\ pc[a] = "attach"
    /\ \E s \in TurnStates :
          /\ GetOrInsert(s)
          /\ pending' = [pending EXCEPT ![s] = @ \cup buf[a]]
    /\ buf' = [buf EXCEPT ![a] = {}]
    /\ Goto(a, "install")
    /\ UNCHANGED <<phase, waiting, mailbox, activeTask, kind, stateOf, carry, victim,
                   ghostVars, history, cancelled, terminal>>

\* start_task's second look: spawn the task and store it.  Storing over
\* another RunningTask drops that one's AbortOnDropHandle, which aborts it.
StartInstall(a) ==
    /\ pc[a] = "install"
    /\ \E s \in TurnStates : GetOrInsert(s)
    /\ \E t \in Tasks :
          /\ pc[t] = "unused" /\ t = NewTask
          /\ activeTask' = t
          /\ pc' = [b \in Actors |->
                      IF b = t THEN "run"
                      ELSE IF b = activeTask /\ pc[b] # "done" THEN "killed"
                      ELSE IF b = a THEN Back(a) ELSE pc[b]]
          /\ kind' = [kind EXCEPT ![t] = kind[a]]
          /\ carry' = [carry EXCEPT ![t] = carry[a], ![a] = {}]
    /\ UNCHANGED <<queueVars, stateOf, buf, victim, ghostVars, history, cancelled, terminal>>

-----------------------------------------------------------------------------
(* Callers outside the loop                                                *)

\* The caller gets its input back.
Refuse(a) ==
    /\ refused' = refused \cup carry[a]
    /\ carry' = [carry EXCEPT ![a] = {}]

\* try_start_turn_if_idle, up to its first test of the mailbox.
TryStartIfIdle(g) ==
    /\ pc[Ext] = "ready" /\ g \in fresh \cap GoalItems
    /\ fresh' = fresh \ {g}
    /\ IF TriggerWaits
       THEN refused' = refused \cup {g} /\ UNCHANGED <<carry, pc>>
       ELSE /\ carry' = [carry EXCEPT ![Ext] = {g}]
            /\ Goto(Ext, "idleReserve")
            /\ UNCHANGED refused
    /\ UNCHANGED <<queueVars, slotVars, kind, stateOf, buf, victim, discarded, commands,
                   closing, history, cancelled, terminal>>

IdleReserve ==
    /\ pc[Ext] = "idleReserve"
    /\ IF activeState = NoState
       THEN /\ \E s \in TurnStates :
                 Reserve(s) /\ stateOf' = [stateOf EXCEPT ![Ext] = s]
            /\ Goto(Ext, "idleTest1")
            /\ UNCHANGED <<refused, carry>>
       ELSE /\ Refuse(Ext)
            /\ Goto(Ext, "ready")
            /\ UNCHANGED <<activeState, used, stateOf>>
    /\ UNCHANGED <<queueVars, activeTask, kind, buf, victim, fresh, discarded, commands,
                   closing, history, cancelled, terminal>>

\* The reservation of the caller still holds the slot.
StillReserved == activeState = stateOf[Ext] /\ activeTask = NoTask

\* Mutant of IdleTest: the reservation is cleared and nobody wakes the session.
IdleTestSilent(here, next) ==
    /\ pc[Ext] = here
    /\ IF TriggerWaits
       THEN /\ activeState' = IF StillReserved THEN NoState ELSE activeState
            /\ stateOf' = [stateOf EXCEPT ![Ext] = NoState]
            /\ Refuse(Ext)
            /\ Goto(Ext, "ready")
       ELSE /\ Goto(Ext, next)
            /\ UNCHANGED <<activeState, stateOf, refused, carry>>
    /\ UNCHANGED <<queueVars, activeTask, used, kind, buf, victim, fresh, discarded,
                   commands, closing, history, cancelled, terminal>>

\* The two further tests for trigger mail, before and after the turn context
\* is built: clear_reserved_idle_turn, then wake the session for that mail.
IdleTest(here, next) ==
    /\ pc[Ext] = here
    /\ IF TriggerWaits
       THEN /\ activeState' = IF StillReserved THEN NoState ELSE activeState
            /\ stateOf' = [stateOf EXCEPT ![Ext] = NoState]
            /\ Refuse(Ext)
            /\ Goto(Ext, "wake")
       ELSE /\ Goto(Ext, next)
            /\ UNCHANGED <<activeState, stateOf, refused, carry>>
    /\ UNCHANGED <<queueVars, activeTask, used, kind, buf, victim, fresh, discarded,
                   commands, closing, history, cancelled, terminal>>

IdleConfirm ==
    /\ pc[Ext] = "idleConfirm"
    /\ stateOf' = [stateOf EXCEPT ![Ext] = NoState]
    /\ IF StillReserved
       THEN /\ pending' = [pending EXCEPT ![activeState] = @ \cup carry[Ext]]
            /\ carry' = [carry EXCEPT ![Ext] = {}]
            /\ kind' = [kind EXCEPT ![Ext] = "regular"]
            /\ Goto(Ext, "pull")
            /\ UNCHANGED refused
       ELSE /\ Refuse(Ext)
            /\ Goto(Ext, "ready")
            /\ UNCHANGED <<pending, kind>>
    /\ UNCHANGED <<phase, waiting, mailbox, slotVars, buf, victim, fresh, discarded,
                   commands, closing, history, cancelled, terminal>>

\* inject_no_new_turn: into the active turn, or straight into the history.
Inject(i) ==
    /\ i \in fresh \cap Injected
    /\ fresh' = fresh \ {i}
    /\ IF activeState # NoState
       THEN /\ pending' = [pending EXCEPT ![activeState] = @ \cup {i}]
            /\ phase' = [phase EXCEPT ![activeState] = "CurrentTurn"]
            /\ UNCHANGED history
       ELSE Record({i}) /\ UNCHANGED <<pending, phase>>
    /\ UNCHANGED <<waiting, mailbox, slotVars, frameVars, refused, discarded, commands,
                   closing, pc, cancelled, terminal>>

-----------------------------------------------------------------------------
(* A task: SessionTask::run                                                *)

\* RegularTask::run enters run_turn: its input is recorded and sampled first;
\* with no input, pending input is drained first.
RunTurn(t) ==
    /\ pc[t] = "run" /\ kind[t] = "regular"
    /\ Record(carry[t])
    /\ carry' = [carry EXCEPT ![t] = {}]
    /\ Goto(t, IF carry[t] = {} THEN "take" ELSE "sample")
    /\ UNCHANGED <<queueVars, slotVars, kind, stateOf, buf, victim, ghostVars, cancelled,
                   terminal>>

\* run_turn fails before it records its input: a failed pre-sampling compaction
\* returns Ok(None), a tool collision or a failed step context returns Err.
RunTurnFails(t) ==
    /\ Faults /\ pc[t] = "run" /\ kind[t] = "regular"
    /\ discarded' = discarded \cup carry[t]
    /\ carry' = [carry EXCEPT ![t] = {}]
    /\ \E next \in {"recheck", "finish"} : Goto(t, next)
    /\ UNCHANGED <<queueVars, slotVars, kind, stateOf, buf, victim, fresh, refused,
                   commands, closing, history, cancelled, terminal>>

\* A compact or shell task runs without touching the input queue.
RunOther(t) ==
    /\ pc[t] = "run" /\ kind[t] # "regular"
    /\ Goto(t, "finish")
    /\ UNCHANGED <<queueVars, slotVars, frameVars, ghostVars, history, cancelled, terminal>>

TakeInput(t) ==
    /\ pc[t] = "take"
    /\ TakePending(t, "takeMail", "record")
    /\ UNCHANGED <<phase, waiting, mailbox, slotVars, kind, stateOf, carry, victim,
                   ghostVars, history, cancelled, terminal>>

TakeMail(t) ==
    /\ pc[t] = "takeMail"
    /\ DrainMailbox(t, "record")
    /\ UNCHANGED <<pending, phase, waiting, slotVars, kind, stateOf, carry, victim,
                   ghostVars, history, cancelled, terminal>>

\* record_inputs, then the next sampling request.
RecordInput(t) ==
    /\ pc[t] = "record"
    /\ Record(buf[t])
    /\ buf' = [buf EXCEPT ![t] = {}]
    /\ Goto(t, "sample")
    /\ UNCHANGED <<queueVars, slotVars, kind, stateOf, carry, victim, ghostVars, cancelled,
                   terminal>>

Sampling(t) == pc[t] \in {"sample", "sampleMore"}

\* The model shows its answer: defer_mailbox_delivery_to_next_turn, unless
\* something other than queue-only mail waits in this turn.
Message(t) ==
    /\ Sampling(t)
    /\ activeTask = t /\ pending[activeState] \subseteq QueueMail
    /\ phase' = [phase EXCEPT ![activeState] = "NextTurn"]
    /\ UNCHANGED <<pending, waiting, mailbox, slotVars, frameVars, ghostVars, pc, history,
                   cancelled, terminal>>

\* accept_mailbox_delivery_for_current_turn, for the turn of this task only.
AcceptMail(t) ==
    phase' = IF activeTask = t THEN [phase EXCEPT ![activeState] = "CurrentTurn"] ELSE phase

\* The model calls a tool, or asks to go on, or is preempted by mail: the
\* response needs a follow-up.
ToolCall(t) ==
    /\ Sampling(t)
    /\ AcceptMail(t)
    /\ Goto(t, "sampleMore")
    /\ UNCHANGED <<pending, waiting, mailbox, slotVars, frameVars, ghostVars, history,
                   cancelled, terminal>>

\* A tool asks the user: the waiter goes to whatever turn is active; with no
\* active turn its sender is dropped, which answers None at once.  An abort
\* clears the waiters only after the task is gone (AnswerReaches).
Ask(t) ==
    /\ pc[t] = "sampleMore" /\ "ask" \in Operations
    /\ activeState # NoState
    /\ waiting' = [waiting EXCEPT ![activeState] = @ \cup {t}]
    /\ Goto(t, "wait")
    /\ UNCHANGED <<pending, phase, mailbox, slotVars, frameVars, ghostVars, history,
                   cancelled, terminal>>

\* The response ends without tool calls: look for pending input next.
SampleEnd(t) ==
    /\ pc[t] = "sample"
    /\ Goto(t, "settle")
    /\ UNCHANGED <<queueVars, slotVars, frameVars, ghostVars, history, cancelled, terminal>>

\* It ends with tool calls: accept mail and go round the loop; after a context
\* roll-over the continuation is sampled before pending input is drained.
SampleMoreEnd(t) ==
    /\ pc[t] = "sampleMore"
    /\ AcceptMail(t)
    /\ \E next \in {"take"} \cup (IF "rollover" \in Operations THEN {"sample"} ELSE {})
                           \cup (IF Faults THEN {"recheck"} ELSE {}) : Goto(t, next)
    /\ UNCHANGED <<pending, waiting, mailbox, slotVars, frameVars, ghostVars, history,
                   cancelled, terminal>>

\* A sampling error ends run_turn; a failed step context ends the task as well.
SampleError(t) ==
    /\ Faults /\ Sampling(t)
    /\ \E next \in {"recheck", "finish"} : Goto(t, next)
    /\ UNCHANGED <<queueVars, slotVars, frameVars, ghostVars, history, cancelled, terminal>>

\* has_pending_input, first lock: the active turn's phase and items.
HasPendingInTurn(t, some, mail, none) ==
    Goto(t, IF activeState = NoState THEN mail
            ELSE IF phase[activeState] = "NextTurn" THEN none
            ELSE IF pending[activeState] # {} THEN some
            ELSE mail)

\* run_turn's test for pending input after a response; a failed roll-over
\* compaction ends run_turn instead of following up.
Settle(t) ==
    /\ pc[t] = "settle"
    /\ \E follow \in {"take"} \cup (IF Faults THEN {"recheck"} ELSE {}) :
          HasPendingInTurn(t, follow, "settleMail", "recheck")
    /\ UNCHANGED <<queueVars, slotVars, frameVars, ghostVars, history, cancelled, terminal>>

SettleMail(t) ==
    /\ pc[t] = "settleMail"
    /\ \E follow \in {"take"} \cup (IF Faults THEN {"recheck"} ELSE {}) :
          Goto(t, IF mailbox # {} THEN follow ELSE "recheck")
    /\ UNCHANGED <<queueVars, slotVars, frameVars, ghostVars, history, cancelled, terminal>>

\* RegularTask::run's own test once run_turn has returned.
Recheck(t) ==
    /\ pc[t] = "recheck"
    /\ HasPendingInTurn(t, "run", "recheckMail", "finish")
    /\ UNCHANGED <<queueVars, slotVars, frameVars, ghostVars, history, cancelled, terminal>>

RecheckMail(t) ==
    /\ pc[t] = "recheckMail"
    /\ Goto(t, IF mailbox # {} THEN "run" ELSE "finish")
    /\ UNCHANGED <<queueVars, slotVars, frameVars, ghostVars, history, cancelled, terminal>>

InRun == {"run", "take", "takeMail", "record", "sample", "sampleMore", "wait", "settle",
          "settleMail", "recheck", "recheckMail"}

\* A cancelled task returns early: before sampling it usually records its
\* input first (a cancelled skill injection does not).
ObserveCancel(t) ==
    /\ t \in cancelled /\ pc[t] \in InRun
    /\ IF pc[t] = "run"
       THEN /\ carry' = [carry EXCEPT ![t] = {}]
            /\ \/ Record(carry[t]) /\ UNCHANGED discarded
               \/ discarded' = discarded \cup carry[t] /\ UNCHANGED history
       ELSE UNCHANGED <<carry, history, discarded>>
    /\ Goto(t, "finish")
    /\ UNCHANGED <<queueVars, slotVars, kind, stateOf, buf, victim, fresh, refused, commands,
                   closing, cancelled, terminal>>

-----------------------------------------------------------------------------
(* The end of a task: on_task_finished                                     *)

\* The spawned future returned; a cancelled task leaves the rest to the abort.
Finish(t) ==
    /\ pc[t] = "finish"
    /\ Goto(t, IF t \in cancelled THEN "done" ELSE "detach")
    /\ UNCHANGED <<queueVars, slotVars, frameVars, ghostVars, history, cancelled, terminal>>

\* Takes the task of whatever turn is active and detaches its handle.
Detach(t) ==
    /\ pc[t] = "detach"
    /\ IF activeTask = NoTask
       THEN Goto(t, "done") /\ UNCHANGED <<activeTask, stateOf>>
       ELSE /\ activeTask' = NoTask
            /\ stateOf' = [stateOf EXCEPT ![t] = activeState]
            /\ Goto(t, "collect")
    /\ UNCHANGED <<queueVars, activeState, used, kind, buf, carry, victim, ghostVars,
                   history, cancelled, terminal>>

\* Mutant of Collect: leftover input is taken and not recorded.
CollectDrops(t) ==
    /\ pc[t] = "collect"
    /\ pending' = [pending EXCEPT ![stateOf[t]] = {}]
    /\ Goto(t, "announce")
    /\ UNCHANGED <<phase, waiting, mailbox, slotVars, frameVars, ghostVars, history,
                   cancelled, terminal>>

\* take_pending_input_for_turn_state and record_inputs.
Collect(t) ==
    /\ pc[t] = "collect"
    /\ Record(pending[stateOf[t]])
    /\ pending' = [pending EXCEPT ![stateOf[t]] = {}]
    /\ Goto(t, "announce")
    /\ UNCHANGED <<phase, waiting, mailbox, slotVars, frameVars, ghostVars, cancelled,
                   terminal>>

\* Sends TurnComplete.
Announce(t) ==
    /\ pc[t] = "announce"
    /\ terminal' = [terminal EXCEPT ![t] = @ + 1]
    /\ Goto(t, "release")
    /\ UNCHANGED <<queueVars, slotVars, frameVars, ghostVars, history, cancelled>>

\* Mutant of Release: the finished task does not look at the mailbox again.
ReleaseAsleep(t) ==
    /\ pc[t] = "release"
    /\ activeState' = IF activeState = stateOf[t] /\ activeTask = NoTask
                      THEN NoState ELSE activeState
    /\ stateOf' = [stateOf EXCEPT ![t] = NoState]
    /\ Goto(t, "done")
    /\ UNCHANGED <<queueVars, activeTask, used, kind, buf, carry, victim, ghostVars, history,
                   cancelled, terminal>>

\* Clears the slot if it still holds this turn and no new task.
Release(t) ==
    /\ pc[t] = "release"
    /\ IF activeState = stateOf[t] /\ activeTask = NoTask
       THEN activeState' = NoState /\ Goto(t, "wake")
       ELSE Goto(t, "done") /\ UNCHANGED activeState
    /\ stateOf' = [stateOf EXCEPT ![t] = NoState]
    /\ UNCHANGED <<queueVars, activeTask, used, kind, buf, carry, victim, ghostVars, history,
                   cancelled, terminal>>

-----------------------------------------------------------------------------
Submit ==
    \/ \E u \in UserInputs : Steer(u) \/ SteerRefused(u) \/ UserTurn(u)
    \/ \E k \in {"compact", "shell"} : SpawnOther(k)
    \/ \E op \in {"interrupt", "shutdown"} : Interrupt(op)
    \/ \E m \in TriggerMail \cup QueueMail : Mail(m)
    \/ \E t \in Tasks : Answer(t)

Call ==
    \/ ForceStop
    \/ \E g \in GoalItems : TryStartIfIdle(g)
    \/ \E i \in Injected : Inject(i)

\* What an actor does next once it is inside abort_all_tasks or start_task.
Abort(a) == AbortNothing(a) \/ AbortTake(a) \/ AbortKill(a) \/ AbortClear(a)
Start(a) ==
    \/ Wake(a) \/ WakeReserve(a)
    \/ StartPull(a) \/ StartDrain(a) \/ StartAttach(a) \/ StartInstall(a)
Idle ==
    \/ IdleReserve \/ IdleConfirm
    \/ IdleTest("idleTest1", "idleTest2") \/ IdleTest("idleTest2", "idleConfirm")

Run(t) ==
    \/ RunTurn(t) \/ RunTurnFails(t) \/ RunOther(t)
    \/ TakeInput(t) \/ TakeMail(t) \/ RecordInput(t)
    \/ SampleEnd(t) \/ SampleMoreEnd(t) \/ SampleError(t)
    \/ Settle(t) \/ SettleMail(t) \/ Recheck(t) \/ RecheckMail(t)
    \/ ObserveCancel(t)
Model(t) == Message(t) \/ ToolCall(t) \/ Ask(t)
End(t) == Finish(t) \/ Detach(t) \/ Collect(t) \/ Announce(t) \/ Release(t)

Next ==
    \/ Submit \/ Call \/ Idle
    \/ \E a \in Controllers : Abort(a)
    \/ \E a \in Actors : Start(a)
    \/ \E t \in Tasks : Run(t) \/ Model(t) \/ End(t)

Spec == Init /\ [][Next]_vars

\* The runtime polls every spawned future, so an actor inside a routine goes
\* on; a response stream ends (its idle timeout is an error, which ends it too).
\* Nothing makes the user, other agents or the model act.
Fairness ==
    /\ \A a \in Controllers : WF_vars(Abort(a))
    /\ \A a \in Actors : WF_vars(Start(a))
    /\ \A t \in Tasks : WF_vars(Run(t)) /\ WF_vars(End(t))
    /\ WF_vars(Idle)

FairSpec == Spec /\ Fairness

-----------------------------------------------------------------------------
(* Properties                                                              *)

Labels == {"ready", "abort", "grace", "clear", "wake", "reserve", "pull", "drain",
           "attach", "install", "idleReserve", "idleTest1", "idleTest2", "idleConfirm",
           "unused", "done", "killed", "finish", "detach", "collect", "announce",
           "release"} \cup InRun

\* The types of the state, and that a slot without a turn has no task.
TypeOK ==
    /\ activeState \in TurnStates \cup {NoState}
    /\ activeTask \in Tasks \cup {NoTask}
    /\ activeState = NoState => activeTask = NoTask
    /\ used \subseteq TurnStates
    /\ pending \in [TurnStates -> SUBSET Items]
    /\ phase \in [TurnStates -> {"CurrentTurn", "NextTurn"}]
    /\ waiting \in [TurnStates -> SUBSET Tasks]
    /\ mailbox \subseteq TriggerMail \cup QueueMail
    /\ history \in [Items -> Nat]
    /\ pc \in [Actors -> Labels]
    /\ kind \in [Actors -> Kinds]
    /\ stateOf \in [Actors -> TurnStates \cup {NoState}]
    /\ buf \in [Actors -> SUBSET Items]
    /\ carry \in [Actors -> SUBSET Items]
    /\ victim \in [Actors -> Tasks \cup {NoTask}]
    /\ cancelled \subseteq Tasks
    /\ terminal \in [Tasks -> Nat]
    /\ fresh \subseteq Items /\ refused \subseteq Items /\ discarded \subseteq Items
    /\ commands \in Nat
    /\ closing \in BOOLEAN

\* The places an item can be in, other than the history.
InTurn(i) == \E s \in TurnStates : i \in pending[s]
InBuf(i) == \E a \in Actors : i \in buf[a]
InCarry(i) == \E a \in Actors : i \in carry[a]

\* An item is in one place at a time, however starters, finishers, aborts and
\* injections interleave: no two turn states, actors or queues hold it at once,
\* so no two turns can both deliver it.
ItemsApart == \A i \in Items :
    /\ i \in fresh => i \notin mailbox /\ ~InTurn(i) /\ ~InBuf(i) /\ ~InCarry(i) /\ history[i] = 0
    /\ i \in mailbox => ~InTurn(i) /\ ~InBuf(i) /\ ~InCarry(i) /\ history[i] = 0
    /\ InTurn(i) => ~InBuf(i) /\ ~InCarry(i) /\ history[i] = 0
    /\ InBuf(i) => ~InCarry(i) /\ history[i] = 0
    /\ InCarry(i) => history[i] = 0
    /\ \A s, r \in TurnStates : i \in pending[s] /\ i \in pending[r] => s = r
    /\ \A a, b \in Actors : i \in buf[a] /\ i \in buf[b] => a = b
    /\ \A a, b \in Actors : i \in carry[a] /\ i \in carry[b] => a = b

\* No item is recorded in the conversation twice: get_pending_input, start_task
\* and on_task_finished only ever move items.
RecordedOnce == \A i \in Items : history[i] <= 1

Live(a) == pc[a] \notin {"unused", "done", "killed"}

\* The item can still reach the conversation, or already has.
Held(i) ==
    \/ i \in mailbox \/ history[i] > 0
    \/ activeState # NoState /\ i \in pending[activeState]
    \/ \E a \in Actors :
          /\ Live(a)
          /\ \/ i \in buf[a] \cup carry[a]
             \/ stateOf[a] # NoState /\ i \in pending[stateOf[a]]

\* The item went down with a turn that was cancelled on request or failed.
Excused(i) ==
    \/ i \in discarded
    \/ \E t \in cancelled : pc[t] \in {"killed", "done"} /\ i \in buf[t] \cup carry[t]

\* A submitted item is recorded, is still on its way, was given back to its
\* caller, or was dropped with a turn that was aborted or failed: the hand-offs
\* between the queue, the slot and the finishing task lose nothing.
NothingLost == \A i \in Items : i \in fresh \cup refused \/ Held(i) \/ Excused(i)

\* Only one task of the session is past its start and not cancelled, and it is
\* the one stored in the active turn (steering and interrupts reach it).
OneRunner ==
    \A t \in Tasks : pc[t] \in InRun \cup {"finish", "detach"} =>
        t \in cancelled \/ activeTask = t

\* A turn that ended was announced to the client by exactly one TurnComplete or
\* TurnAborted, and none is announced while its task can still run.
OneTerminalEvent ==
    \A t \in Tasks :
        /\ terminal[t] <= 1
        /\ terminal[t] = 1 => pc[t] \notin InRun \cup {"finish", "detach"}
        /\ pc[t] = "killed" => terminal[t] = 1

\* A tool that waits for the user can be answered: while its task is not
\* cancelled its waiter is registered in the active turn, so no abort or new
\* turn turns the wait into a silent rejection.
AnswerReaches ==
    \A t \in Tasks : pc[t] = "wait" /\ t \notin cancelled =>
        activeState # NoState /\ t \in waiting[activeState]

\* debug_assert!(turn.task.is_none()) in start_task, at its second look.
StartFindsNoTask == \A a \in Actors : pc[a] = "install" => activeTask = NoTask

\* No actor is on its way to look at the mailbox again.
Quiet ==
    /\ activeState = NoState
    /\ \A a \in Actors : pc[a] \in {"ready", "unused", "done", "killed"}

\* maybe_start_turn_for_pending_work's promise: an idle session at rest has no
\* pending work left in its mailbox.
NoLostWakeup == Quiet /\ ~closing => ~WorkWaits

\* Mail that asks for a turn is eventually recorded in the conversation, by the
\* running turn or by one started for it, whoever holds the slot when it comes.
MailHeard == \A m \in TriggerMail : m \in mailbox ~> history[m] > 0

\* A user message the loop took is eventually recorded, refused, or dropped with
\* the turn the user interrupted or replaced.
InputHeard ==
    \A u \in UserInputs : u \notin fresh ~> history[u] > 0 \/ u \in refused \/ Excused(u)
=============================================================================
