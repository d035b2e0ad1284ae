# A TLA+ model of ycode

ycode is a coding agent: a Rust workspace (`codex-rs/`) in which a *session*
holds a conversation with a language model, runs *turns*, can spawn further
sessions as *sub-agents*, records what it does in a log, runs scripts of the
model in *code mode*, and is driven by clients over RPC. This directory models
the parts of it where several asynchronous actors share state, checks them with
TLC on small instances, and proves their main properties with TLAPS for every
instance.

Paths below are relative to `src/codex-rs/` unless they start with `src/`.

## 1. The system

| Part | Source | State | Operations |
|---|---|---|---|
| Submission loop | `core/src/session/handlers.rs` | the channel of operations | one handler per `Op`, one at a time |
| Turn engine | `core/src/tasks/mod.rs`, `tasks/regular.rs`, `tasks/compact.rs`, `state/turn.rs` | `active_turn`: an optional turn with an optional running task; cancellation tokens | `spawn_task`, `start_task`, `abort_all_tasks`, `on_task_finished`, `maybe_start_turn_for_pending_work` |
| Input queue | `core/src/session/input_queue.rs` | mailbox, a turn's pending input, mailbox delivery phase | enqueue, drain, `get_pending_input`, accept or defer mail |
| Injection | `core/src/session/inject.rs` | none of its own | `try_start_turn_if_idle`, `inject_no_new_turn` |
| `run_turn` | `core/src/session/turn.rs` | local to the task | record, sample, follow up, roll over, fail |
| Agent registry | `core/src/agent/registry.rs` | `total_count`, `agent_tree`, `thread_paths`, nicknames | reserve, reserve path or nickname, commit, drop, release |
| Agent control | `core/src/agent/control.rs`, `agent/control/{spawn,legacy}.rs` | none of its own | spawn, resume, restore, close, send |
| Residency | `core/src/agent/control/residency.rs` | list of loaded agents, pending slots | reserve, commit, touch, forget, unload one |
| Execution limiter | `core/src/agent/control/execution.rs` | number of running turns | check, take and drop a guard |
| Thread manager | `core/src/thread_manager.rs` | map of loaded threads | look up, insert, remove |
| Code mode | `code-mode-runtime/src/{cell_actor,session_runtime,runtime}` | map of cells; a cell's phase, observer, buffered output, callbacks; the runtime thread | execute, observe, terminate, shut down |
| Rollout and thread store | `rollout/src/{recorder,ordinal,compression}.rs`, `thread-store/src/local/` | pending items, next ordinal, the plain and the compressed file | append, persist, flush, shut down, resume, compress |
| Exec server | `exec-server/` | sessions, attachments, processes | attach, detach, resume, expire |
| Unified exec | `core/src/unified_exec/` | process table, output buffers | start, write, poll, prune |
| CLI runtime | `cli-runtime/src/{request_serialization,connection_rpc_gate,message_processor}.rs` | queues per key, a gate per connection | enqueue, drain, run a handler, close |
| State database | `state/` | job rows with leases | claim, heartbeat, succeed, fail |
| Login | `login/` | cached credentials | refresh, reload |
| File watcher | `file-watcher/` | reference-counted paths | subscribe, drop, deliver |
| Context manager, history, apply-patch, goals | several | sequences | pure algorithms and small protocols |
| TUI, configuration, network proxy, skills, transport | several | | rendering, parsing, I/O |

How they interact. The submission loop, the spawned tasks and callers outside
the loop (the goal extension, requests on the thread) all read and write
`active_turn`, the turn state and the mailbox, each behind its own async lock; a
routine such as `start_task` takes several of them one after the other. A
sub-agent is a session of its own. The tools of one agent call agent control,
which reserves a place in the registry or in residency, has the thread manager
create the session, commits the reservation and submits an operation to the
new session's channel; residency may meanwhile shut another session down. The
CLI runtime runs the handlers that submit operations; a session appends what it
does to its thread's log through the thread store; a code-mode tool call creates
or observes a cell, whose script calls tools of the session in turn.

What is hard. No routine that starts, ends or aborts a turn is atomic, so each
pair of them interleaves; an abort waits for a grace period and then kills a
task that may be finishing; mail that finds the slot taken relies on its holder
to look again; several calls create, unload and close the same agent; limits
are checked before they are taken; every error path has to give back what was
reserved. A cell can complete, be terminated and be shut down at once, while its
callers come and go and its script is paused, computing or waiting for a tool. A
write to the log can fail half way, the process can die between two renames, and
a background worker replaces the very file a recorder writes. A request can
arrive as the task that should run it is about to end. PROJECT.json lists each
of these at its line under "hazards".

What makes the parts correct.

- Turn engine: one task at a time, every turn announced as ended exactly once,
  no input lost or recorded twice, no wake-up lost, a question to the user can
  be answered, input is eventually heard.
- Registry: the two indexes agree, a path has one owner, the count covers what
  is registered and reserved and is given back, the limit holds, nicknames
  differ.
- Residency: slots are accounted for, calls end, an accepted follow-up is heard.
- Code mode: one outcome per cell, which the stored values agree with; no output
  lost or repeated; nobody left waiting; nothing left after a shutdown.
- Log: what was acknowledged can be loaded, in order, with dense ordinals.
- Requests: those of one key run in order, exclusive ones alone; none is
  forgotten; a closed connection is quiet.

## 2. Modules

| Module | Models | Checked by |
|---|---|---|
| `TurnEngine` | one session: slot, queue, loop, tasks | `MCTurnEngine*.cfg` |
| `TurnEngine_proofs`, `TurnSlot_proofs` | theorems about it: its items; its slot | TLAPS |
| `AgentRegistry` | registry, its callers, thread map | `MCAgentRegistry*.cfg` |
| `AgentRegistry_proofs` | theorems about it | TLAPS |
| `AgentResidency` | residency list, loading, limiter, message delivery | `MCAgentResidency.cfg` |
| `AgentResidency_proofs` | theorems about it | TLAPS |
| `CellOutcome` | what a code-mode cell promises its callers (abstract) | |
| `CellActor` | one cell: callers, actor, callbacks, runtime thread; implements `CellOutcome` | `MCCellActor*.cfg` |
| `CellActor_proofs`, `CellOutput_proofs` | theorems about it: its outcome; its channels and output | TLAPS |
| `RequestOrder` | what the request queues promise handlers (abstract) | |
| `RequestQueues` | queues, drain tasks, gate; implements `RequestOrder` | `MCRequestQueues.cfg` |
| `RequestQueues_proofs` | theorems about it | TLAPS |
| `RolloutLog` | one thread's log: store, writer task, files, compression worker | `MCRolloutLog*.cfg` |
| `RolloutLog_proofs` | theorems about it | TLAPS |

The MC modules only add symmetry sets. PROJECT.json "map" gives the lines of
every definition. Names starting with another definition's name and explained
as *Mutant of* are deliberate bugs; PROJECT.json names the property each breaks.

### TurnEngine

Actors are the loop (`Loop`), a caller outside it (`Ext`) and the tasks. `pc`
says where each is in the code; an action is what it does between two awaits
that take the active-turn, turn-state or mailbox lock.

- `activeState`/`activeTask` are `active_turn` (`None`, reserved without a task,
  or running a task). Turn states are numbered separately from tasks because
  the code hands their `Arc` around after the slot has moved on (`stateOf`).
- `pending`, `phase`, `waiting` are fields of the turn state; `mailbox` is the
  queue's. `buf` is what an actor has drained, `carry` the input given to a
  task. `history` counts how often an item was recorded.
- `Steer`, `UserTurn`, `SpawnOther`, `Interrupt`, `Mail`, `Answer` are handlers
  of the loop. `Abort*` are the steps of `abort_all_tasks`: take the turn, wait
  for the task or kill it, clear its state. `Wake*`, `Start*` are
  `maybe_start_turn_for_pending_work` and `start_task`, whose two looks at the
  slot are `StartAttach` and `StartInstall`. `Idle*` are
  `try_start_turn_if_idle` and `Inject` is `inject_no_new_turn`.
- `RunTurn` to `RecheckMail` are `run_turn` with the stream reduced to a message,
  a tool call, a question, the end of the response or an error. A response that
  asks to go on, and mail that preempts one, are a `ToolCall` followed by
  `SampleMoreEnd`.
- `Finish`, `Detach`, `Collect`, `Announce`, `Release` are `on_task_finished`.

Abstractions. Items are model values, told apart by the set they are in. Killing
a task (`handle.abort()`) takes effect at once. Whether compaction is due and
whether a sampling request fails is a choice (`Faults`). The idle continuation
that the goal extension runs on the finished task is the `Ext` actor's. Not
modelled: the code-mode task kind, `abort_turn_if_active`,
`try_start_turn_if_idle` given user input, extension hooks, rollout flushes.

### AgentRegistry

A call is a spawn, resume, restore, close or a request that may find its session
dead. The compare-exchange loop of `try_increment_spawned` is two actions
(`LoadCount`, `Exchange`); reserving a path, picking a nickname, resetting the
pool, committing and each half of dropping a reservation and of releasing a
thread are one each, because the code takes the mutex or the atomic separately
for each. `born` is the agent path persisted with a thread, which a resume finds
again. `Resident` says whether spawns are limited here (V1) or by residency (V2).

### AgentResidency

A call is a spawn, a follow-up (starts a turn) or a message (does not). Its steps
are those of `ensure_v2_agent_loaded`, `reserve_slot`, `try_unload_one_resident`
with the three reads of `is_unloadable`, the capacity check and `send_op`. A
session is its channel, mailbox, turn and status; TurnEngine has the detail, and
`EndTurn`/`WakeUp` are its summary. `Capacity` is one constant because the code
derives both limits from `max_concurrent_threads_per_session - 1`. Agents that
`close_agent` shuts down are V1 agents and have no place here; native workers
and durable sleep (under which a plain message starts a turn) are not modelled.

### CellActor

Callers (`LookUp`, `Observe`, `Terminate`, `DropCall`), the session (`Execute` to
`AwaitCells`), the actor task (`On*` are the branches of the select in `run_cell`,
`CallbacksDrained` to `Closed` what follows them), the callback tasks and the
runtime thread (`RuntimeStarts` to `ReceiveCommand`) interleave.

- `phase`, `claim`, `final`, `cancelled` are `CellState` and the cell's token;
  `observer`, `buffer`, `frontierReady`, `paused`, `rtClosed`, `termination`,
  `timer` are locals of `run_cell`.
- `finish_callbacks` and `commit_completion` await, so `pc` leaves the loop for
  them and callers act in between; the commit itself is one step because it is
  made under the lock of the stored values.
- `rt`, `events`, `rtCmds`, `controls` are the runtime thread and its channels.
  A script is its effects; `killed` is `terminate_execution` on its isolate.
- `call` says where each caller is or what it was answered. A caller that drops
  its future is `"dropped"`, and a send to it fails.

`CellOutcome` sees `outcome`, `stored` and what each caller was told. The mapping
takes the outcome to be completed once the writes are stored and terminated once
a cancellation came before that.

Not modelled: several cells in one session, `pending_initial_yield_items` (always
None where it is read), the ids of pending tool calls, reports of failed tasks.

### RequestQueues

`Enqueue` is `enqueue` with the spawn of a drain task when the key was not in the
map, `Spawn` a request without a key, `Enter`/`HandlerReturns`/`HandlerPanics` a handler
behind its connection's gate, `Take`/`Joined`/`Retire` the drain task, and
`CloseConnection` the steps of `connection_closed` with its time-out. A panic
unwinds the drain task that polls the handler; the rest of its batch is dropped
and its key stays in the map. `arrived` and `number` are history: they record the
order in which requests were dispatched, which the code does not count.
`enqueue_background`, which nothing calls, and the
initialize handshake are left out.

### RolloutLog

A call is a request to the thread store: append, persist, flush, shutdown or
resume; the store's per-thread lock admits one at a time, but a caller that goes
away (`Cancel`) leaves its commands behind. `Take` to `WriteDone` are the writer
task; a failed open or write reopens the file and is tried once more
(`AttemptFails`), as `write_pending_with_recovery` does. A file is its lines and
whether the last one is ended. `Unpack` and `RemovePacked` materialize a
compressed log; `Worker*` are the compression job: read, write the compressed
file, look again, remove the plain one.

Faults: `OpenFails`, `WriteFails(part)` (a write may leave nothing, part of a
line, or the line without its newline), `Crash(part)` (the process is killed
anywhere, in a write too) and `WorkerDies`. `Ages` makes an untouched file old
enough for the worker. Not modelled: power loss (`write_line` flushes and does
not fsync), `discard_thread`, `append_rollout_item_to_path`, logs without
ordinals, forks and archives. Of the SQLite projection only what it accepts is
modelled: `Projects` is the reading of a log by `read_projection_steps`, which
refuses a repeated ordinal and a gap that rejected lines do not cover.
`leftWhole` is history: the items of which a failed write left the whole line.

Two sequences of awaits are one step. `Finish` answers a shutdown and removes
the recorder from the map; a caller that goes away while `live_writer.rs`
projects in between leaves the state that `Cancel` leaves. `Open` tests at
once which of the two files exists and whether an unpacked one is to be dated
now; a removal between the tests needs the worker and the recorder at the log
together, a swept log, which every claim about what is kept but `Durable`
excludes.

## 3. What TLC checks

All bounds are the sizes of sets of model values, or numbers, in the cfg files.
Deadlock checking is off: a session with nothing to do stops, and so does a
model whose calls are used up.

| Run | Instance | Properties |
|---|---|---|
| `user_turns` | 2 messages, 2 further commands, 4 turns, failures | `OneRunner`, `OneTerminalEvent`, `NothingLost`, `AnswerReaches` |
| `mail_is_heard` | 2 trigger mails, a plain one, an idle continuation, fair | `StartFindsNoTask`, `NoLostWakeup`, `MailHeard` |
| `input_is_heard` | 2 messages, an injection, an interrupt or forced stop, fair | `ItemsApart`, `RecordedOnce`, `InputHeard` |
| `registry_v1` | 4 calls of four kinds, limit 1 | `TypeOK`, `CountCovers`, `LimitHolds` |
| `registry_v2` | 3 calls, 2 paths, 2 nicknames | `IndexConsistent`, `PathOwned`, `SlotsReturned`, `NicknamesDistinct` |
| `residency` | 3 calls of three kinds, 2 agents, room for 1, fair | `TypeOK`, `SlotsHeld`, `CallsReturn`, `TriggerHeard` |
| `cell_outcome` | 2 observers, 2 terminations, a shutdown, 2 effects | `TypeOK`, `OutputKept`, `PauseMatched`, `ShutdownFinal`, `OneOutcome` |
| `cell_answers` | 2 observers, a termination, a shutdown, 1 effect, fair | `TerminateAnswered`, `ShutdownReturns`, `YieldAnswered` |
| `request_order` | 2 exclusive requests, 2 reads, 1 key, panics, a closing connection, fair | `TypeOK`, `DrainedQuiet`, `OneDrain`, `InOrder`, `ClosingStartsNone`, `Handled` |
| `rollout_log` | 3 calls, 2 faults, 2 crashes | `TypeOK`, `AckedKept`, `OrdinalsDense`, `InSentOrder`, `NoneStranded` |
| `rollout_swept` | 2 calls, no faults; expects a violation | `Durable` |
| `projection_stuck` | 1 call, 1 fault; expects a violation | `Projectable` |

Why these bounds. Every race here is between the step of one actor and one or
two others: an abort, a finisher and a starter; two calls and an eviction; a
completion, a terminate and a shutdown. Each instance has enough turns for a
first one to be finishing while a second is aborted and a third starts, or
enough calls for one to hold what two others want. One request of each kind
behind one of each kind is every order a queue distinguishes. Two faults are a
failed attempt and its failed retry; two crashes kill the recovery from the
first. For the properties with a theorem the bound is gone. The turn-engine
runs split the sources of input because together they exceed what TLC can
enumerate. `mail_is_heard` is without failures, as its liveness property needs;
`SlotFreeAtInstall` and `NoWakeupLost` (section 4) cover its two invariants with
them. Two keys exceed what TLC can enumerate for `request_order`; keys share
only the gate, and the theorems are for any number of them.

Refinement. `OneOutcome` says that `CellActor` implements `CellOutcome`, and
`InOrder` that `RequestQueues` implements `RequestOrder`; both are checked as
properties and proved.

Fairness. TurnEngine: the runtime polls the loop, the outside caller and every
task again (weak fairness of `Abort`, `Start`, `Idle`, `Run`, `End`); an abort's
wait is bounded by its grace period; a response ends. Nobody is obliged to
submit, to answer a question or to make the model call a tool. `MailHeard` and
`InputHeard` take `Faults` as FALSE: with a compaction that fails every time a
turn that starts for mail ends before it records it, and starts again
(`tasks/regular.rs`). AgentResidency: calls are polled, sessions receive, a turn
records its mail and is woken; a turn need not end, so `CallsReturn` does not
rely on agents becoming idle. CellActor: the actor, the shutdown and the runtime
thread run; a script need not end or rest unless its isolate was terminated
(`terminate_execution` interrupts it), and a callback need not end unless its
token was cancelled (each selects on it). RequestQueues: drain tasks and handlers
run to their end, as the code has no time-out on them; `Handled` says nothing of
a key whose drain task a panic has killed. RolloutLog has no liveness property:
`NoneStranded` is its safety counterpart.

### Where the code and its words differ

`rollout_swept` finds that the compression worker can remove a file that a
recorder holds open: `compress_rollout_if_cold_blocking` looks at the age and
the modification time of the plain file only, the recorder goes on writing to
the removed file and answers Ok, while `live_writer.rs` says that flushed records
are "durably persisted". `AckedKept` and `OrdinalsDense` hold for logs that were
not swept in this way. The worker runs only with the feature
`local_thread_store_compression`, which is off by default (`features/src/lib.rs`).

`projection_stuck` finds that a log can hold one record twice under one ordinal.
A write that fails on its last byte leaves a line without its newline; opening the
file again adds the newline, which makes the line a record, and the retry writes
the record once more. `read_projection_steps` fails on the second, although
`thread_history_materialization.rs` says that its treatment of rejected lines "lets
a same-ordinal retry replace a failed write": the first line was not rejected.
`write_and_project` only warns, so the projection of that thread stays where it
is. Loading the log is not affected: `OrdinalsDense` allows exactly these
copies, and `ProjectedUnlessLeftWhole` proves that nothing else makes a log that
cannot be projected.

Wider configurations show the following, which is why some properties are
claimed for some inputs only; each is a note of its hazard.

- `debug_assert!(turn.task.is_none())` in `start_task` can fail when the wake-up
  that `on_task_finished` makes for mail races the user's next message; with mail
  and the idle continuation alone it holds (`mail_is_heard`). The same race loses mail
  that the starter had already drained.
- An interrupt that meets a turn without a task skips the wake-up (`NoLostWakeup` is
  checked without interrupts).
- An item injected as a turn ends is not recorded (`NothingLost` without
  injections).
- Two resumes of one thread at once take two slots, of which releasing the thread
  gives back one, where `registry_tests.rs` expects "slot released after thread
  removal" (`SlotsReturned` without resumes).
- A close releases the registration of an agent resumed meanwhile.
- A message sent to an agent that an eviction has decided to unload is accepted
  and dropped, where the tool's description promises prompt delivery;
  `TriggerHeard` allows for the unloading.
- Both limits on V2 agents are exceeded by one around an eviction that finds its
  candidate busy, and with four calls an agent can be loaded and neither listed
  nor registered.
- A handler that panics leaves its key in the map without a drain task: later
  requests for the key wait for ever. `Handled` excuses them, and `OneDrain` says
  that only a panic leads there.
- A cell whose notification never returns, and which nobody cancels, answers no
  observer (`YieldAnswered` excludes it).
- A thread whose shutdown was abandoned cannot be resumed before the process
  ends, and one whose first record was torn cannot be resumed at all.

## 4. What is proved

`TurnEngine_proofs`, for any sets of turns, turn states and items:

- `TypeCorrect`: `Spec => []TypeOK`. The inductive invariant is
  `TypeOK /\ FramesOK`; `FramesOK` says that an actor at a step that uses a turn
  state holds one and that an abort at a step that uses a victim has one,
  without which `pending[stateOf[a]]` is no set of items. No run checks this one:
  in Rust the slot owns its task, so no slip of the code would break it.
- `ItemsStayApart` and `NoDoubleRecord`: `[]ItemsApart`, `[]RecordedOnce`, by
  induction together with the above, one step per action. Most actions touch no
  item (`ApartStutter`); the others move a set from one place to another.

`TurnSlot_proofs`, for any sets of turns, turn states and items, in two kinds of
session (`OneKind`):

- `LoopStarts`: the submission loop alone starts and aborts turns (user messages,
  compact, shell, interrupt, shutdown, failures and questions to the user; no mail
  that starts a turn, no idle continuation, no forced stop);
- `NoAborts`: nothing aborts a turn (trigger mail, plain mail, idle continuations and
  failures, started from the loop, from outside and from a task that ends).

In a session that mixes them, with one message and one trigger mail, TLC finds
a counterexample to each of the six properties: `start_task` lets go of the lock
between its abort and its install, which only one of the two protects (section 3,
"Where the code and its words differ"). So the hypothesis cannot be dropped.

- `LoopInv` is the inductive invariant of the first kind. From the abort to the new
  task the slot is empty and the loop's own (`LoopSlot`); a running task is in the
  slot or cancelled, and a cancelled one is the abort's victim or gone
  (`LoopTasks`, `LoopVictim`); its end is announced once, by itself or by the abort
  (`Announced`).
- `MailInv` is that of the second. At most one actor owns the slot: a starter, an
  idle continuation, the running task or the one that ends (`OneOwner`,
  `OwnerTask`), and work that waits beside an empty slot has an actor on its way
  to look (`SomebodyLooks`).
- `SlotInvariant` joins them, and from it follow `OneTaskRuns` (`OneRunner`),
  `EndsAreAnnouncedOnce` (`OneTerminalEvent`), `AnswersArrive` (`AnswerReaches`),
  `SlotFreeAtInstall` (`StartFindsNoTask`) and `NoWakeupLost` (`NoLostWakeup`, which
  says something of the second kind only: in the first no mail starts turns).
- `ItemsSurvive`: `[]NothingLost`, without injections (see section 3). `ItemInv` adds
  to `NothingLost` where actors have items and turn states in their hands
  (`InHand`, `InFrame`) and that a turn which was collected or is only reserved has
  no input (`Emptied`). It needs only what both kinds of session have in common,
  `Guarded`, and is proved once for both.

`AgentRegistry_proofs`, for any finite sets of calls, threads and paths:

- `Invariance`: the conjunction of `TypeOK`, `CallsOK` (what a call at each label
  holds), `IndexConsistent`, `PathOwned` and `CountCovers` is inductive. They
  need each other: dropping a reservation removes a path from the tree, which
  keeps the indexes inverse only because the path was its own (`PathOwned`);
  subtracting one keeps the count natural only because it covers the caller
  (`CountCovers`, and the lemma `SlotHeld`).
- From it `TypeCorrect`, `IndexesAgree`, `PathsExclusive`, `CountSound`.
- `LimitKept`: with `Capped` (the count itself does not exceed the limit) added,
  `LimitHolds`.
- `NicknamesApart`: with `PoolOK` (a nickname handed out is in the pool's used set
  or from before a reset), `NicknamesDistinct`.
- `SlotsComeBack`: `[]SlotsReturned` when nobody resumes a thread (`NoResume`: the
  limit is kept by residency, as for V2 agents, or there are only the other
  calls). `CountCovers` bounds the count from below; this needs it from both sides
  (`Accounted`, `Balanced`: registered agents, reservations and releases under
  way, and nothing else). `NoResume` is needed: of two slots taken by two resumes
  of one thread one is never given back.

`AgentResidency_proofs`, for any calls, agents, sessions and capacity:

- `TypeCorrect`, `SlotsCounted` (`[]SlotsHeld`) and `ListedOnce`. `Inv` joins the types to
  what a call at each label holds (`Targeted`, `Created`), to a residency list
  without repetitions (`Distinct`) and to `SlotsHeld`. One lemma per action; `SlotFacts`
  says what a step does to the number of holders, `WithoutFacts`, `TouchFacts` and
  `PopFacts` what the operations on the list do. That an agent is listed once is no
  property of a run: it is what makes `Without` remove the agent.

`RequestQueues_proofs`, for any requests, keys and connections:

- `TypeCorrect`, `DrainUnique`, `QuietOnceDrained`: the three are part of one
  inductive invariant. The rest of it says where a request is: queued ones are in
  their key's queue, sorted by arrival (`QueuedIn`, `QueueHolds`, `QueueSorted`),
  taken ones in its batch, which holds reads or one exclusive request (`InBatch`;
  `BatchAgrees` is a part of `TypeOK`), and what left a queue is older than what is in it (`Ahead`).
- `NoneStartsClosing`: `Spec => ClosingStartsNone`. From the moment a connection
  starts to close, after the time-out too, none of its requests starts, because the
  gate stays shut.
- `QueuesKeepOrder`: `Spec => InOrder`. The step that matters is the start of a
  handler: `TakenMayStart` derives from the invariant that every older request it
  conflicts with has ended.

`CellActor_proofs`, for any callers and any script:

- `Invariance`: `IInv` ties the phase to the published writes (`PhaseAgrees`), the
  actor's place to the cancellation and to the runtime's end (`ActorAgrees`), and
  says whom the actor still owes an answer (`ObserverServed`, `CallersWait`,
  `QueuedWait`). It needs nothing about the runtime thread or its channels, so
  the theorems hold whatever a script does.
- `ShutdownLeavesNothing`: `[]ShutdownFinal`.
- `Refinement`: `Spec => OneOutcome`. Each action is shown to answer a set of
  callers alike (`Answered`), to decide the outcome (`CommitMaps`, `Cancelled`) or
  to change nothing that `CellOutcome` sees (`Unseen`). The delicate cases are the
  late ones: output is handed only while nothing is stored, and
  `finish_termination`, which reads the phase again, agrees with the outcome.

`CellOutput_proofs`, for any callers and any script, about the channels that
`CellActor_proofs` leaves out:

- `TypeCorrect`: every variable of the cell, its actor and its runtime thread keeps
  its type. `Budget` bounds what is on its way by the script's effects.
- `PausesMatched`: `[]PauseMatched`. Each step is one of three kinds for the pause
  (`PauseStep`), and elements of the channels are counted by the places they are
  at (`CountAppend`, `CountTail`), not by recursion.
- `OutputIsKept`: `[]OutputKept`. Every step leaves the output alone, receives an
  item, hands the buffer over, commits it, claims it or ends the cell
  (`OutputStep`, `NextOutput`); none of the six loses, repeats or reorders an item
  (`OutputStepKeeps`).

`RolloutLog_proofs`, for any calls and any number of faults and crashes. The
invariants are layers, each kept by the steps from states of those below:

- `TypeCorrect`, with `Control` (what the recorder, its task and its file handle say
  of each other).
- `NobodyStranded`: `[]NoneStranded`, from `WaitersServed`: a caller that waits has a
  command with the writer, or in the queue of a writer that runs.
- `SentOrderKept`: `[]InSentOrder`. `FilesInOrder` says that what is in the files comes
  before what the writer holds, and that before what is queued, for the plain, the
  compressed, the removed and the worker's file alike.
- `AcknowledgedKept`: `[]AckedKept`, from `ItemsKept` (an item is in the log, pending or
  queued until its call is answered) and `OneHolder`. `LogOnlyGrows` is the action
  property behind it: no step takes an item out of what can be loaded, unless the
  worker swept the file.
- `OrdinalsStayDense`: `[]OrdinalsDense`, from `OrdinalsFit`: the writer's next ordinal
  follows the log it writes to, after a retry, a torn line and a resume too. Only
  a record in `leftWhole` is there twice, so a log without such records can be
  projected (`ProjectedUnlessLeftWhole`).
- `QueueSteps`, `FileSteps` and `AnswerSteps` say once what an action may do to the
  queue, the files and the callers; the upper layers do not look at actions.

The assumptions are the named `ASSUME`s of the modules: the sets are disjoint
where the code's types are, finite where the code's collections are, the limits
are natural numbers, and the values for None are none of the things they stand
for the absence of. TLC evaluates them in every run. The inductive invariants
were checked by TLC before they were proved.

Only model-checked: liveness (`MailHeard`, `InputHeard`, `CallsReturn`, `TriggerHeard`,
`TerminateAnswered`, `ShutdownReturns`, `YieldAnswered`, `Handled`), as fairness is out
of the prover's reach. Every safety property that a passing run checks has a
theorem; those of the slot and `SlotsReturned` have the hypotheses given above.

## 5. Not modelled

PROJECT.json gives the reason for each part. The parts with a protocol worth
modelling are in the plan below. Rendering, configuration parsing, HTTP and
socket I/O and prompt text have no shared state a model would add to; they are
most of the workspace's half a million lines, of which the map covers about one
in a hundred. Of the modelled sources the omissions are those named with their
modules.

## 6. Plan

Order: what decides whether a turn or an agent behaves first, then what is
persisted, then the services around it.

1. Done: `TurnEngine`, `AgentRegistry`, `AgentResidency`, `CellActor` with
   `CellOutcome`, `RequestQueues` with `RequestOrder`, `RolloutLog`.
2. Done: a theorem for every safety property of the passing runs.
3. `TurnLifecycle`, an abstract specification of a session (idle, running a turn,
   ended once per turn; an item submitted, recorded, refused or dropped), which
   `TurnEngine` restricted to the loop's own starters implements.
4. `ExecSessions`: detach, resume and expiry of exec-server sessions while a
   client reconnects.
5. `JobLeases`: memory jobs with ownership tokens, expiry and retries.
6. `UnifiedExec`: pruning at the process limit; the head/tail buffer against a
   reference definition.
7. Subscriptions of the file watcher and the refresh of login tokens.
8. Pure algorithms over bounded inputs: call/output pairing of the context
   manager, `seek_sequence`, trimming of the message history.
