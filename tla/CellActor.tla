------------------------------ MODULE CellActor ------------------------------
(***************************************************************************)
(* One cell of a code-mode session: a script in a runtime thread, the      *)
(* actor task that owns it, and the callers that create it, observe it,    *)
(* terminate it and shut its session down.                                 *)
(*                                                                         *)
(* Source: codex-rs/code-mode-runtime/src: cell_actor/mod.rs (run_cell),   *)
(* cell_actor/types.rs (CellHandle, CellState), cell_actor/callbacks.rs,   *)
(* session_runtime/mod.rs (execute, observe, terminate, shutdown) and      *)
(* runtime/mod.rs (run_runtime, next_runtime_command).                     *)
(*                                                                         *)
(* Three kinds of processes interleave: the callers, the actor and the     *)
(* runtime thread.  An action of the actor is one branch of its select up  *)
(* to the next await; the waits inside a branch (finish_callbacks and      *)
(* commit_completion) are steps of their own, in which callers act.  The   *)
(* select is biased, but a cancellation or a command can arrive just after *)
(* its branch was polled, so any branch that is ready may be taken.        *)
(*                                                                         *)
(* A script is reduced to its effects: output, a tool call, a              *)
(* notification, a request to yield, a timeout.  Output items are numbered *)
(* in the order the script wrote them.  pending_initial_yield_items is     *)
(* None at both calls of commit_completion and is left out, and so are the *)
(* ids of pending tool calls and the reporting of failed tasks.            *)
(***************************************************************************)
EXTENDS Naturals, Sequences, FiniteSets

CONSTANTS
    Yields,         \* observations with ObserveMode::YieldAfter (bound)
    Frontiers,      \* observations with ObserveMode::PendingFrontier (bound)
    Terminates,     \* calls of terminate (bound)
    First,          \* the observation that comes with execute
    NoCall,
    MaxEffects      \* effects a script may have (bound)

Observers == Yields \cup Frontiers
Calls == Observers \cup Terminates

ASSUME CellActorAssumption ==
    /\ First \in Observers /\ NoCall \notin Calls
    /\ Yields \cap Frontiers = {} /\ Observers \cap Terminates = {}
    /\ MaxEffects \in Nat

VARIABLES
    exec,           \* the call of execute: "idle", "checked", "started" or "refused"
    shutdown,       \* the call of shutdown: "idle", "begun", "waiting" or "returned"
    stored,         \* whether the cell's writes are in stored_values
    phase,          \* CellState.phase
    claim,          \* the caller whose sender CellPhase::Terminating holds
    final,          \* the content of the event Completed or CompletionClaimed holds
    cancelled,      \* the cell's cancellation token
    call,           \* each caller: where it is, or the answer it got
    cmds, cmdOpen,  \* the actor's command channel and whether it has a receiver
    pc, after,      \* the actor's next step, and what follows the callbacks' end
    buffer,         \* content_items
    frontierReady,  \* pending_frontier_ready
    observer,       \* the observation being served
    termination,    \* whether the actor has started to terminate
    rtClosed,       \* runtime_closed
    paused,         \* runtime_paused
    timer,          \* whether yield_timer is set
    cbCancelled,    \* callback_cancellation_token, cancelled on its own
    notes, tools,   \* running notification and tool tasks
    rt,             \* the runtime thread, "none" before it is spawned
    events,         \* runtime events not yet received
    rtCmds,         \* RuntimeCommands not yet received
    controls,       \* RuntimeControlCommands not yet received
    killed,         \* terminate_execution was called on the isolate
    effects,        \* effects of the script so far
    timeouts,       \* setTimeout threads that have not fired
    written,        \* output items the script has written
    handed          \* output items handed to callers, in order

sessionVars == <<exec, shutdown, stored>>
stateVars == <<phase, claim, final, cancelled>>
commandVars == <<cmds, cmdOpen>>
actorVars == <<frontierReady, observer, termination, rtClosed, paused, timer, cbCancelled>>
taskVars == <<notes, tools>>
scriptVars == <<rt, killed, effects, timeouts, written>>
channelVars == <<events, rtCmds, controls>>
vars == <<sessionVars, stateVars, call, commandVars, pc, after, buffer, actorVars, taskVars,
          scriptVars, channelVars, handed>>

-----------------------------------------------------------------------------
Events == {"Started", "Pending", "Content", "Yield", "Notify", "Tool", "Result", "Panicked"}
Answers == {"yielded", "pending", "completed", "terminated", "busy", "already", "closed",
            "missing"}

TypeOK ==
    /\ exec \in {"idle", "checked", "started", "refused"}
    /\ shutdown \in {"idle", "begun", "waiting", "returned"}
    /\ phase \in {"Running", "Terminating", "Completed", "CompletionClaimed", "Tombstone"}
    /\ claim \in Terminates \cup {NoCall} /\ observer \in Observers \cup {NoCall}
    /\ call \in [Calls -> {"idle", "handle", "queued", "held", "dropped"} \cup Answers]
    /\ cmds \in Seq(Observers) /\ (~cmdOpen => cmds = << >>)
    /\ pc \in {"none", "loop", "notes", "tools", "commit", "deliver", "end", "post", "close", "gone"}
    /\ after \in {"commit", "end", "close"}
    /\ {stored, cancelled, cmdOpen, frontierReady, termination, rtClosed, paused, timer,
        cbCancelled, killed} \subseteq BOOLEAN
    /\ rt \in {"none", "init", "script", "poll", "paused", "recv", "ended"}
    /\ events \in Seq(Events)
    /\ rtCmds \in Seq({"wake", "observe", "terminate"})
    /\ controls \in Seq({"continue", "resume", "terminate"})
    /\ effects \in 0..MaxEffects /\ timeouts \in 0..effects /\ written \in 0..effects
    /\ notes \in 0..effects /\ tools \in 0..effects
    /\ {buffer, final, handed} \subseteq Seq(1..written)

-----------------------------------------------------------------------------
\* A oneshot send: a caller that has dropped its future gets nothing.
Alive(c) == c # NoCall /\ call[c] # "dropped"
Reply(f, c, answer) == IF c # NoCall /\ f[c] # "dropped" THEN [f EXCEPT ![c] = answer] ELSE f

\* Dropping the command receiver drops the senders of the queued observations.
CloseCommands(f) == [c \in Calls |-> IF f[c] = "queued" THEN "closed" ELSE f[c]]

\* How many messages of the queue q are in S.
Count(q, S) == Cardinality({i \in 1..Len(q) : q[i] \in S})

\* Items are numbered as the actor receives them; Received are still on their way to it.
Received == Count(events, {"Content"})
NextItem == written - Received + 1

\* A send to a thread that has ended is lost.
SendRuntime(q, m) == IF rt = "ended" THEN q ELSE Append(q, m)

Init ==
    /\ exec = "idle" /\ shutdown = "idle" /\ stored = FALSE
    /\ phase = "Running" /\ claim = NoCall /\ final = << >> /\ cancelled = FALSE
    /\ call = [c \in Calls |-> "idle"]
    /\ cmds = << >> /\ cmdOpen = TRUE
    /\ pc = "none" /\ after = "close" /\ buffer = << >>
    /\ frontierReady = FALSE /\ observer = NoCall /\ termination = FALSE /\ rtClosed = FALSE
    /\ paused = FALSE /\ timer = FALSE /\ cbCancelled = FALSE
    /\ notes = 0 /\ tools = 0
    /\ rt = "none" /\ killed = FALSE /\ effects = 0 /\ timeouts = 0 /\ written = 0
    /\ events = << >> /\ rtCmds = << >> /\ controls = << >> /\ handed = << >>

-----------------------------------------------------------------------------
(* The session: execute, look-ups in the map of cells, and shutdown.         *)

\* The cell is in the map from its start until closed() takes it out.
InMap == pc \notin {"none", "gone"}

\* execute before its first await
Execute ==
    /\ exec = "idle"
    /\ exec' = IF shutdown = "idle" THEN "checked" ELSE "refused"
    /\ UNCHANGED <<shutdown, stored, stateVars, call, commandVars, pc, after, buffer, actorVars,
                   taskVars, scriptVars, channelVars, handed>>

\* Mutant of StartCell: the shutdown is tested once, before the lock.
StartCellUnchecked ==
    /\ exec = "checked"
    /\ exec' = "started" /\ pc' = "loop" /\ rt' = "init"
    /\ observer' = First /\ call' = [call EXCEPT ![First] = "held"]
    /\ UNCHANGED <<shutdown, stored, stateVars, commandVars, after, buffer, frontierReady,
                   termination, rtClosed, paused, timer, cbCancelled, taskVars, killed, effects,
                   timeouts, written, channelVars, handed>>

\* start_cell under the lock of the map, down to the spawn of the actor
StartCell ==
    /\ exec = "checked"
    /\ \/ /\ shutdown # "idle"
          /\ exec' = "refused"
          /\ UNCHANGED <<call, pc, observer, rt>>
       \/ /\ shutdown = "idle"
          /\ exec' = "started" /\ pc' = "loop" /\ rt' = "init"
          /\ observer' = First /\ call' = [call EXCEPT ![First] = "held"]
    /\ UNCHANGED <<shutdown, stored, stateVars, commandVars, after, buffer, frontierReady,
                   termination, rtClosed, paused, timer, cbCancelled, taskVars, killed, effects,
                   timeouts, written, channelVars, handed>>

\* begin_shutdown: the session's token is the parent of the cell's.
BeginShutdown ==
    /\ shutdown = "idle"
    /\ shutdown' = "begun"
    /\ cancelled' = (cancelled \/ pc # "none")
    /\ UNCHANGED <<exec, stored, phase, claim, final, call, commandVars, pc, after, buffer,
                   actorVars, taskVars, scriptVars, channelVars, handed>>

\* shutdown takes and drops the lock of the map, then waits for the tracked tasks.
AwaitCells ==
    /\ \/ shutdown = "begun" /\ shutdown' = "waiting"
       \/ shutdown = "waiting" /\ pc \in {"none", "gone"} /\ shutdown' = "returned"
    /\ UNCHANGED <<exec, stored, stateVars, call, commandVars, pc, after, buffer, actorVars,
                   taskVars, scriptVars, channelVars, handed>>

\* begin_observe and terminate clone the handle out of the map.
LookUp(c) ==
    /\ call[c] = "idle" /\ exec = "started"
    /\ call' = [call EXCEPT ![c] = IF InMap THEN "handle" ELSE "missing"]
    /\ UNCHANGED <<sessionVars, stateVars, commandVars, pc, after, buffer, actorVars, taskVars,
                   scriptVars, channelVars, handed>>

\* CellHandle::observe.  Whatever comes between its test and its send closes the channel,
\* or is found by the actor when it routes the observation.
Observe(c) ==
    /\ call[c] = "handle"
    /\ \/ /\ phase \in {"Running", "Completed"} /\ ~cancelled /\ cmdOpen
          /\ call' = [call EXCEPT ![c] = "queued"] /\ cmds' = Append(cmds, c)
       \/ /\ phase \notin {"Running", "Completed"} \/ cancelled \/ ~cmdOpen
          /\ call' = [call EXCEPT ![c] = "closed"] /\ UNCHANGED cmds
    /\ UNCHANGED <<sessionVars, stateVars, cmdOpen, pc, after, buffer, actorVars, taskVars,
                   scriptVars, channelVars, handed>>

\* CellState::request_termination
Terminate(c) ==
    /\ call[c] = "handle"
    /\ \/ /\ phase = "Running"
          /\ phase' = "Terminating" /\ claim' = c /\ cancelled' = TRUE
          /\ call' = [call EXCEPT ![c] = "held"]
          /\ UNCHANGED handed
       \/ /\ phase = "Completed"
          /\ phase' = "CompletionClaimed" /\ cancelled' = TRUE
          /\ call' = [call EXCEPT ![c] = "completed"]
          /\ handed' = handed \o final
          /\ UNCHANGED claim
       \/ /\ phase \in {"Terminating", "CompletionClaimed", "Tombstone"}
          /\ call' = [call EXCEPT ![c] = IF phase = "Tombstone" THEN "closed" ELSE "already"]
          /\ UNCHANGED <<phase, claim, cancelled, handed>>
    /\ UNCHANGED <<sessionVars, final, commandVars, pc, after, buffer, actorVars, taskVars,
                   scriptVars, channelVars>>

\* A caller drops its future before the answer arrives.
DropCall(c) ==
    /\ call[c] \in {"queued", "held"}
    /\ call' = [call EXCEPT ![c] = "dropped"]
    /\ UNCHANGED <<sessionVars, stateVars, commandVars, pc, after, buffer, actorVars, taskVars,
                   scriptVars, channelVars, handed>>

-----------------------------------------------------------------------------
(* The actor: run_cell.                                                      *)

\* Mutant of BeginTermination: a runtime that waits to be resumed is not told.
BeginTerminationQuiet ==
    /\ cancelled' = TRUE /\ killed' = TRUE
    /\ rtCmds' = SendRuntime(rtCmds, "terminate")
    /\ UNCHANGED controls

\* begin_termination
BeginTermination ==
    /\ cancelled' = TRUE /\ killed' = TRUE
    /\ rtCmds' = SendRuntime(rtCmds, "terminate")
    /\ controls' = SendRuntime(controls, "terminate")

\* finish_callbacks: entered here, continued by CallbacksDrained
FinishCallbacks(cancel, next) ==
    /\ pc' = "notes" /\ after' = next /\ cbCancelled' = (cbCancelled \/ cancel)

\* Mutant of OnCancelled: the queued observations are left to a closed channel.
OnCancelledLeaves ==
    /\ pc = "loop" /\ cancelled /\ ~termination
    /\ termination' = TRUE /\ timer' = FALSE
    /\ cmdOpen' = FALSE
    /\ BeginTermination
    /\ IF rtClosed THEN FinishCallbacks(TRUE, "end") ELSE UNCHANGED <<pc, after, cbCancelled>>
    /\ UNCHANGED <<sessionVars, phase, claim, final, call, cmds, buffer, frontierReady, observer,
                   rtClosed, paused, taskVars, rt, effects, timeouts, written, events, handed>>

\* Mutant of OnCancelled: the end of the runtime is awaited although it has come.
OnCancelledWaits ==
    /\ pc = "loop" /\ cancelled /\ ~termination
    /\ termination' = TRUE /\ timer' = FALSE
    /\ cmds' = << >> /\ cmdOpen' = FALSE /\ call' = CloseCommands(call)
    /\ BeginTermination
    /\ UNCHANGED <<sessionVars, phase, claim, final, pc, after, buffer, frontierReady, observer,
                   rtClosed, paused, cbCancelled, taskVars, rt, effects, timeouts, written, events,
                   handed>>

\* The branch of the cancelled token
OnCancelled ==
    /\ pc = "loop" /\ cancelled /\ ~termination
    /\ termination' = TRUE /\ timer' = FALSE
    /\ cmds' = << >> /\ cmdOpen' = FALSE /\ call' = CloseCommands(call)
    /\ BeginTermination
    /\ IF rtClosed THEN FinishCallbacks(TRUE, "end") ELSE UNCHANGED <<pc, after, cbCancelled>>
    /\ UNCHANGED <<sessionVars, phase, claim, final, buffer, frontierReady, observer, rtClosed,
                   paused, taskVars, rt, effects, timeouts, written, events, handed>>

\* Mutant of HandBuffer: output that could not be handed over is not put back.
HandBufferDrops(c, answer, took) ==
    /\ took = Alive(c)
    /\ handed' = IF took THEN handed \o buffer ELSE handed
    /\ buffer' = << >>
    /\ call' = Reply(call, c, answer)

\* send_observer_event and send_cell_event: the buffered output goes to caller c, or is
\* put back when it has gone.  Says whether the caller took it.
HandBuffer(c, answer, took) ==
    /\ took = Alive(c)
    /\ IF took THEN handed' = handed \o buffer /\ buffer' = << >>
               ELSE UNCHANGED <<handed, buffer>>
    /\ call' = Reply(call, c, answer)

\* An observation that finds the cell running: refused, served at once, or installed
\* as the observer, which resumes a paused runtime (resume_for_observation).
ServeObservation(c) ==
    LET gone == observer # NoCall /\ ~Alive(observer)
        frontier == c \in Frontiers
    IN  \/ /\ observer # NoCall /\ ~gone
           /\ call' = Reply(call, c, "busy")
           /\ UNCHANGED <<observer, timer, frontierReady, paused, buffer, handed, rtCmds, controls>>
        \/ /\ observer = NoCall \/ gone
           /\ frontier /\ frontierReady
           /\ observer' = NoCall /\ timer' = (timer /\ ~gone)
           /\ \E took \in BOOLEAN : HandBuffer(c, "pending", took) /\ frontierReady' = ~took
           /\ UNCHANGED <<paused, rtCmds, controls>>
        \/ /\ observer = NoCall \/ gone
           /\ ~(frontier /\ frontierReady)
           /\ observer' = c /\ timer' = ~frontier
           /\ call' = [call EXCEPT ![c] = "held"]
           /\ frontierReady' = (frontierReady /\ ~(paused /\ ~frontier))
           /\ paused' = FALSE
           /\ controls' = IF paused
                          THEN SendRuntime(controls, IF frontier THEN "resume" ELSE "continue")
                          ELSE controls
           /\ rtCmds' = IF ~paused /\ frontier THEN SendRuntime(rtCmds, "observe") ELSE rtCmds
           /\ UNCHANGED <<buffer, handed>>

\* The branch of the command channel, with CellState::route_observation
OnObserve ==
    /\ pc = "loop" /\ cmds # << >>
    /\ cmds' = Tail(cmds)
    /\ LET c == Head(cmds) IN
       \/ /\ ~Alive(c)
          /\ UNCHANGED <<phase, cancelled, call, pc, observer, timer, frontierReady, paused,
                         buffer, handed, rtCmds, controls>>
       \/ /\ Alive(c) /\ phase = "Running"
          /\ ServeObservation(c)
          /\ UNCHANGED <<phase, cancelled, pc>>
       \/ /\ Alive(c) /\ phase = "Completed"
          /\ phase' = "Tombstone" /\ cancelled' = TRUE /\ pc' = "post"
          /\ call' = [call EXCEPT ![c] = "completed"] /\ handed' = handed \o final
          /\ UNCHANGED <<observer, timer, frontierReady, paused, buffer, rtCmds, controls>>
       \/ /\ Alive(c) /\ phase \in {"Terminating", "CompletionClaimed", "Tombstone"}
          /\ call' = [call EXCEPT ![c] = "closed"]
          /\ UNCHANGED <<phase, cancelled, pc, observer, timer, frontierReady, paused, buffer,
                         handed, rtCmds, controls>>
    /\ UNCHANGED <<sessionVars, claim, final, cmdOpen, after, termination, rtClosed, cbCancelled,
                   taskVars, scriptVars, events>>

\* The branch of the yield timer
OnTimer ==
    /\ pc = "loop" /\ timer
    /\ timer' = FALSE /\ observer' = NoCall
    /\ \E took \in BOOLEAN : HandBuffer(observer, "yielded", took)
    /\ UNCHANGED <<sessionVars, stateVars, commandVars, pc, after, frontierReady, termination,
                   rtClosed, paused, cbCancelled, taskVars, scriptVars, channelVars>>

ObserverIn(modes) == observer \in modes

\* The branch of the runtime's events, one action for each that leaves the actor in its loop
Take(event) ==
    /\ pc = "loop" /\ ~rtClosed /\ events # << >> /\ Head(events) = event
    /\ events' = Tail(events)

\* Mutant of OnStarted: the first observation's timer is not set.
OnStartedUntimed ==
    /\ Take("Started")
    /\ UNCHANGED <<sessionVars, stateVars, call, commandVars, pc, after, buffer, actorVars, taskVars,
                   scriptVars, rtCmds, controls, handed>>

OnStarted ==
    /\ Take("Started")
    /\ timer' = ObserverIn(Yields)
    /\ UNCHANGED <<sessionVars, stateVars, call, commandVars, pc, after, buffer, frontierReady,
                   observer, termination, rtClosed, paused, cbCancelled, taskVars, scriptVars,
                   rtCmds, controls, handed>>

\* Mutant of OnPending: a runtime that was told to go on is still taken for paused.
OnPendingForgets ==
    /\ Take("Pending")
    /\ paused' = TRUE
    /\ \/ /\ ObserverIn(Frontiers)
          /\ timer' = FALSE /\ observer' = NoCall
          /\ \E took \in BOOLEAN : HandBuffer(observer, "pending", took) /\ frontierReady' = ~took
          /\ UNCHANGED controls
       \/ /\ ~ObserverIn(Frontiers)
          /\ controls' = SendRuntime(controls, "continue")
          /\ UNCHANGED <<timer, observer, frontierReady, buffer, handed, call>>
    /\ UNCHANGED <<sessionVars, stateVars, commandVars, pc, after, termination, rtClosed,
                   cbCancelled, taskVars, scriptVars, rtCmds>>

OnPending ==
    /\ Take("Pending")
    /\ \/ /\ ObserverIn(Frontiers)
          /\ paused' = TRUE /\ timer' = FALSE /\ observer' = NoCall
          /\ \E took \in BOOLEAN : HandBuffer(observer, "pending", took) /\ frontierReady' = ~took
          /\ UNCHANGED controls
       \/ /\ ~ObserverIn(Frontiers)
          /\ paused' = FALSE /\ controls' = SendRuntime(controls, "continue")
          /\ UNCHANGED <<timer, observer, frontierReady, buffer, handed, call>>
    /\ UNCHANGED <<sessionVars, stateVars, commandVars, pc, after, termination, rtClosed,
                   cbCancelled, taskVars, scriptVars, rtCmds>>

OnContent ==
    /\ Take("Content")
    /\ buffer' = Append(buffer, NextItem)
    /\ UNCHANGED <<sessionVars, stateVars, call, commandVars, pc, after, actorVars, taskVars,
                   scriptVars, rtCmds, controls, handed>>

OnYield ==
    /\ Take("Yield")
    /\ \/ /\ ObserverIn(Yields)
          /\ timer' = FALSE /\ observer' = NoCall
          /\ \E took \in BOOLEAN : HandBuffer(observer, "yielded", took)
       \/ /\ ~ObserverIn(Yields)
          /\ UNCHANGED <<timer, observer, buffer, handed, call>>
    /\ UNCHANGED <<sessionVars, stateVars, commandVars, pc, after, frontierReady, termination,
                   rtClosed, paused, cbCancelled, taskVars, scriptVars, rtCmds, controls>>

\* Notify, ToolCall and ThreadPanicked
OnCallback ==
    /\ \/ Take("Notify") /\ notes' = notes + 1 /\ UNCHANGED tools
       \/ Take("Tool") /\ tools' = tools + 1 /\ UNCHANGED notes
       \/ Take("Panicked") /\ UNCHANGED taskVars
    /\ UNCHANGED <<sessionVars, stateVars, call, commandVars, pc, after, buffer, actorVars,
                   scriptVars, rtCmds, controls, handed>>

\* A Result, or the end of the event channel: cancelled or not decides what follows.
OnRuntimeEnd ==
    /\ \/ Take("Result") /\ timer' = FALSE
       \/ /\ pc = "loop" /\ ~rtClosed /\ events = << >> /\ rt = "ended"
          /\ UNCHANGED <<timer, events>>
    /\ rtClosed' = TRUE
    /\ IF termination \/ cancelled THEN FinishCallbacks(TRUE, "end") ELSE FinishCallbacks(FALSE, "commit")
    /\ UNCHANGED <<sessionVars, stateVars, call, commandVars, buffer, frontierReady, observer,
                   termination, paused, taskVars, scriptVars, rtCmds, controls, handed>>

\* The two drains of finish_callbacks; the token is cancelled between them.
CallbacksDrained ==
    /\ \/ /\ pc = "notes" /\ notes = 0
          /\ pc' = "tools" /\ cbCancelled' = TRUE
       \/ /\ pc = "tools" /\ tools = 0
          /\ pc' = after /\ UNCHANGED cbCancelled
    /\ UNCHANGED <<sessionVars, stateVars, call, commandVars, after, buffer, frontierReady,
                   observer, termination, rtClosed, paused, timer, taskVars, scriptVars,
                   channelVars, handed>>

\* Mutant of CommitCompletion: a cancellation during the commit is not looked at.
CommitCompletionLate ==
    /\ pc = "commit"
    /\ pc' = "deliver"
    /\ IF phase = "Running"
       THEN stored' = TRUE /\ phase' = "Completed" /\ final' = buffer /\ buffer' = << >>
       ELSE UNCHANGED <<stored, phase, final, buffer>>
    /\ UNCHANGED <<exec, shutdown, claim, cancelled, call, commandVars, after, actorVars, taskVars,
                   scriptVars, channelVars, handed>>

\* RuntimeCellHost::commit_completion and CellState::commit_completion
CommitCompletion ==
    /\ pc = "commit"
    /\ pc' = "deliver"
    /\ IF phase = "Running" /\ ~cancelled
       THEN stored' = TRUE /\ phase' = "Completed" /\ final' = buffer /\ buffer' = << >>
       ELSE UNCHANGED <<stored, phase, final, buffer>>
    /\ UNCHANGED <<exec, shutdown, claim, cancelled, call, commandVars, after, actorVars, taskVars,
                   scriptVars, channelVars, handed>>

\* CellState::deliver_completion
DeliverCompletion ==
    /\ pc = "deliver"
    /\ \/ /\ phase = "Completed" /\ Alive(observer)
          /\ phase' = "Tombstone" /\ cancelled' = TRUE /\ pc' = "post"
          /\ call' = [call EXCEPT ![observer] = "completed"] /\ handed' = handed \o final
          /\ observer' = NoCall
       \/ /\ phase = "Completed" /\ ~Alive(observer)
          /\ pc' = "loop" /\ observer' = NoCall
          /\ UNCHANGED <<phase, cancelled, call, handed>>
       \/ /\ phase # "Completed"
          /\ pc' = "end"
          /\ UNCHANGED <<phase, cancelled, call, handed, observer>>
    /\ UNCHANGED <<sessionVars, claim, final, commandVars, after, buffer, frontierReady,
                   termination, rtClosed, paused, timer, cbCancelled, taskVars, scriptVars,
                   channelVars>>

\* finish_termination: the observer and a waiting terminate get the same event, with the same
\* content.  handed takes it once however many are told, the terminate that claimed a
\* completion (Terminate) included.
FinishTermination ==
    LET outcome == IF phase \in {"Completed", "CompletionClaimed"} THEN "completed"
                   ELSE IF phase = "Tombstone" THEN "closed" ELSE "terminated"
        content == IF outcome = "terminated" THEN buffer
                   ELSE IF phase = "Completed" THEN final ELSE << >>
    IN  /\ pc = "end"
        /\ pc' = "post" /\ phase' = "Tombstone" /\ cancelled' = TRUE
        /\ call' = Reply(Reply(call, observer, outcome), claim, outcome)
        /\ handed' = IF Alive(observer) \/ Alive(claim) THEN handed \o content ELSE handed
        /\ observer' = NoCall /\ claim' = NoCall /\ buffer' = << >>
        /\ UNCHANGED <<sessionVars, final, commandVars, after, frontierReady, termination,
                       rtClosed, paused, timer, cbCancelled, taskVars, scriptVars, channelVars>>

\* After the loop: tombstone, begin_termination and the callbacks, then closed()
Post ==
    /\ pc = "post"
    /\ phase' = "Tombstone" /\ cmds' = << >> /\ cmdOpen' = FALSE /\ call' = CloseCommands(call)
    /\ BeginTermination
    /\ FinishCallbacks(TRUE, "close")
    /\ UNCHANGED <<sessionVars, claim, final, buffer, frontierReady, observer, termination,
                   rtClosed, paused, timer, taskVars, rt, effects, timeouts, written, events,
                   handed>>

Closed ==
    /\ pc = "close"
    /\ pc' = "gone"
    /\ UNCHANGED <<sessionVars, stateVars, call, commandVars, after, buffer, actorVars, taskVars,
                   scriptVars, channelVars, handed>>

-----------------------------------------------------------------------------
(* Callback tasks.  They end by themselves or when their token is cancelled. *)

NotifyDone ==
    /\ notes > 0 /\ notes' = notes - 1
    /\ UNCHANGED <<sessionVars, stateVars, call, commandVars, pc, after, buffer, actorVars, tools,
                   scriptVars, channelVars, handed>>

\* spawn_tool's task sends the response or the error to the runtime.
ToolDone ==
    /\ tools > 0 /\ tools' = tools - 1
    /\ rtCmds' = SendRuntime(rtCmds, "wake")
    /\ UNCHANGED <<sessionVars, stateVars, call, commandVars, pc, after, buffer, actorVars, notes,
                   scriptVars, events, controls, handed>>

\* The thread of schedule_timeout
TimeoutFires ==
    /\ timeouts > 0 /\ timeouts' = timeouts - 1
    /\ rtCmds' = SendRuntime(rtCmds, "wake")
    /\ UNCHANGED <<sessionVars, stateVars, call, commandVars, pc, after, buffer, actorVars,
                   taskVars, rt, killed, effects, written, events, controls, handed>>

-----------------------------------------------------------------------------
(* The runtime thread: run_runtime.                                          *)

\* The thread drops its receivers when it ends, with what they hold.
RuntimeStep(from, to, event, q, k) ==
    /\ rt = from /\ rt' = to
    /\ events' = IF event = "None" THEN events ELSE Append(events, event)
    /\ rtCmds' = IF to = "ended" THEN << >> ELSE q
    /\ controls' = IF to = "ended" THEN << >> ELSE k
    /\ UNCHANGED <<sessionVars, stateVars, call, commandVars, pc, after, buffer, actorVars,
                   taskVars, killed, handed>>

RunTo(from, to, event) == RuntimeStep(from, to, event, rtCmds, controls)

\* install_globals, then evaluate_main_module
RuntimeStarts ==
    /\ RunTo("init", "script", "Started") \/ RunTo("init", "ended", "Result")
    /\ UNCHANGED <<effects, timeouts, written>>

ScriptEffect ==
    /\ effects < MaxEffects /\ effects' = effects + 1
    /\ \/ RunTo("script", "script", "Content") /\ written' = written + 1 /\ UNCHANGED timeouts
       \/ RunTo("script", "script", "None") /\ timeouts' = timeouts + 1 /\ UNCHANGED written
       \/ /\ \E e \in {"Yield", "Notify", "Tool"} : RunTo("script", "script", e)
          /\ UNCHANGED <<timeouts, written>>

\* send_result: the script completed or failed, or its isolate was terminated
ScriptEnds ==
    /\ RunTo("script", "ended", "Result")
    /\ UNCHANGED <<effects, timeouts, written>>

ScriptPanics ==
    /\ RunTo("script", "ended", "Panicked")
    /\ UNCHANGED <<effects, timeouts, written>>

\* The script waits for a promise.
ScriptRests ==
    /\ RunTo("script", "poll", "None")
    /\ UNCHANGED <<effects, timeouts, written>>

\* ObservePendingFrontier runs nothing of the script.
AfterCommand(m) ==
    CASE m = "terminate" -> "ended" [] m = "wake" -> "script" [] m = "observe" -> "poll"

\* next_runtime_command
NextCommand ==
    /\ \/ /\ rtCmds # << >>
          /\ RuntimeStep("poll", AfterCommand(Head(rtCmds)), "None", Tail(rtCmds), controls)
       \/ /\ rtCmds = << >>
          /\ RunTo("poll", "paused", "Pending")
    /\ UNCHANGED <<effects, timeouts, written>>

AfterControl(m) ==
    CASE m = "continue" -> "recv" [] m = "resume" -> "poll" [] m = "terminate" -> "ended"

TakeControl ==
    /\ controls # << >>
    /\ RuntimeStep("paused", AfterControl(Head(controls)), "None", rtCmds, Tail(controls))
    /\ UNCHANGED <<effects, timeouts, written>>

ReceiveCommand ==
    /\ rtCmds # << >>
    /\ RuntimeStep("recv", AfterCommand(Head(rtCmds)), "None", Tail(rtCmds), controls)
    /\ UNCHANGED <<effects, timeouts, written>>

-----------------------------------------------------------------------------
Actor ==
    \/ OnCancelled \/ OnObserve \/ OnTimer
    \/ OnStarted \/ OnPending \/ OnContent \/ OnYield \/ OnCallback \/ OnRuntimeEnd
    \/ CallbacksDrained \/ CommitCompletion \/ DeliverCompletion \/ FinishTermination
    \/ Post \/ Closed

Session == Execute \/ StartCell \/ BeginShutdown \/ AwaitCells

Caller(c) ==
    \/ LookUp(c)
    \/ c \in Observers /\ Observe(c)
    \/ c \in Terminates /\ Terminate(c)
    \/ DropCall(c)

Tasks == NotifyDone \/ ToolDone \/ TimeoutFires

Runtime ==
    \/ RuntimeStarts \/ ScriptEffect \/ ScriptEnds \/ ScriptPanics \/ ScriptRests
    \/ NextCommand \/ TakeControl \/ ReceiveCommand

Next == Actor \/ Session \/ Tasks \/ Runtime \/ \E c \in Calls : Caller(c)

Spec == Init /\ [][Next]_vars

(***************************************************************************)
(* The executor runs the actor and a caller that has started; the runtime  *)
(* thread runs, but a script need not end or rest unless its isolate is    *)
(* terminated; a callback need not end before its token is cancelled; a    *)
(* script's timeouts need not fire.                                        *)
(***************************************************************************)
CallbacksCancelled == cancelled \/ cbCancelled

Fairness ==
    /\ WF_vars(Actor) /\ WF_vars(AwaitCells)
    /\ WF_vars(RuntimeStarts \/ NextCommand \/ TakeControl \/ ReceiveCommand)
    /\ WF_vars(killed /\ ScriptEnds)
    /\ WF_vars(CallbacksCancelled /\ (NotifyDone \/ ToolDone))

FairSpec == Spec /\ Fairness

-----------------------------------------------------------------------------
(* Properties.                                                               *)

\* The outcome as callers can know it: completed once the commit has published the writes,
\* terminated once a cancellation has come before the commit.
Outcome == IF stored THEN "completed" ELSE IF cancelled THEN "terminated" ELSE "open"

\* What an answer tells a caller: the outcome, some output, nothing yet, or a refusal.
Tells(a) ==
    IF a \in {"completed", "terminated"} THEN a
    ELSE IF a \in {"yielded", "pending"} THEN "output"
    ELSE IF a \in {"busy", "already", "closed", "missing"} THEN "refused"
    ELSE "none"

Told == [c \in Calls |-> Tells(call[c])]

Abstract == INSTANCE CellOutcome WITH outcome <- Outcome, told <- Told

\* CellState is "the single linearization point for a cell's terminal outcome": however
\* terminate, shutdown, the commit and the deliveries interleave, the callers are told one
\* outcome and the stored values agree with it (cell_actor/types.rs).
OneOutcome == Abstract!Spec

\* No output is lost, repeated or reordered: what callers were handed, what a completed cell
\* still owes, what the actor buffers and what is on its way is what the script wrote, until
\* the cell has ended without anyone to take the rest (run_cell puts back what a caller that
\* went away did not take).
Owed == IF phase = "Completed" THEN final ELSE << >>

OutputKept ==
    /\ \A i \in DOMAIN handed : handed[i] = i
    /\ phase # "Tombstone" =>
          LET seen == handed \o Owed \o buffer
          IN  seen = [i \in 1..(written - Received) |-> i]

\* A runtime that waits to be resumed is waited for by exactly one thing: its Pending event,
\* the actor's note that it is paused, or the one control message that resumes it.  Otherwise
\* it would hang, or a stale message would let it run past its next pause.
PauseMatched ==
    LET pending == Count(events, {"Pending"}) + Count(controls, {"continue", "resume"})
                     + (IF paused THEN 1 ELSE 0)
    IN  rt # "ended" /\ ~rtClosed => pending = (IF rt = "paused" THEN 1 ELSE 0)

\* When shutdown returns, no cell of the session runs and none will start.
ShutdownFinal ==
    shutdown = "returned" => (exec = "started" => pc = "gone") /\ \A c \in Observers : call[c] # "held"

\* A terminate that waits is answered, however long the script runs and whatever callbacks
\* are in flight.
TerminateAnswered == \A c \in Terminates : (call[c] = "held") ~> (call[c] # "held")

\* shutdown returns.
ShutdownReturns == (shutdown = "begun") ~> (shutdown = "returned")

\* An observation that asked for output after a time is answered even when the script
\* never rests, unless the actor is waiting for a notification that nobody cancels.
YieldAnswered ==
    \A c \in Yields : (call[c] \in {"queued", "held"}) ~>
        (call[c] \notin {"queued", "held"} \/ (pc = "notes" /\ notes > 0 /\ ~CallbacksCancelled))
=============================================================================
