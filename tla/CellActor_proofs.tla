--------------------------- MODULE CellActor_proofs ---------------------------
(***************************************************************************)
(* Proofs about CellActor, for any callers and any script: the actor       *)
(* implements CellOutcome, and a shutdown that has returned leaves nothing *)
(* behind.  The argument needs neither the runtime thread's protocol nor   *)
(* what the channels to it hold: only the variables named here.            *)
(***************************************************************************)
EXTENDS CellActor, TLAPS

coreVars == <<exec, shutdown, stored, phase, claim, cancelled, call, cmds, pc, after, observer,
              termination, rtClosed>>

Phases == {"Running", "Terminating", "Completed", "CompletionClaimed", "Tombstone"}
Unanswered == {"idle", "handle", "queued", "held", "dropped"}

CoreType ==
    /\ exec \in {"idle", "checked", "started", "refused"}
    /\ shutdown \in {"idle", "begun", "waiting", "returned"}
    /\ phase \in Phases
    /\ claim \in Terminates \cup {NoCall} /\ observer \in Observers \cup {NoCall}
    /\ call \in [Calls -> Unanswered \cup Answers]
    /\ cmds \in Seq(Observers)
    /\ pc \in {"none", "loop", "notes", "tools", "commit", "deliver", "end", "post", "close", "gone"}
    /\ after \in {"commit", "end", "close"}
    /\ stored \in BOOLEAN /\ cancelled \in BOOLEAN
    /\ termination \in BOOLEAN /\ rtClosed \in BOOLEAN

\* The phase says whether the writes are stored, and every phase that a cancelled cell can
\* only be in is one of a cancelled cell.
PhaseAgrees ==
    /\ phase \in {"Running", "Terminating"} => ~stored
    /\ phase \in {"Completed", "CompletionClaimed"} => stored
    /\ phase \in {"Terminating", "CompletionClaimed", "Tombstone"} => cancelled

\* What the actor is going to do next is compatible with what has happened: it ends a cell
\* only once it is cancelled and commits one only when its runtime has ended.
Draining(next) == pc \in {"notes", "tools"} /\ after = next

ActorAgrees ==
    /\ pc \in {"end", "post"} \/ Draining("end") => cancelled
    /\ termination => cancelled
    /\ pc = "deliver" => cancelled \/ phase = "Completed"
    /\ pc = "commit" \/ Draining("commit") => rtClosed
    /\ stored => rtClosed
    /\ pc = "none" => ~rtClosed /\ observer = NoCall

\* A cell that has completed, or that is past its end, serves no observer.
ObserverServed ==
    /\ pc = "loop" /\ stored => observer = NoCall
    /\ pc \in {"post", "close", "gone"} \/ Draining("close") => observer = NoCall

\* The session's view of the actor.
SessionAgrees ==
    /\ exec = "started" <=> pc # "none"
    /\ shutdown = "returned" => pc \in {"none", "gone"}
    /\ exec # "started" => \A c \in Calls : call[c] = "idle"

\* The callers that the actor still has to answer have not been answered.
CallersWait ==
    /\ observer # NoCall => call[observer] \in {"held", "dropped"}
    /\ claim # NoCall => call[claim] \in {"held", "dropped"}
    /\ \A c \in Observers : call[c] = "held" => c = observer
QueuedWait ==
    /\ \A i \in 1..Len(cmds) : call[cmds[i]] \in {"queued", "dropped"}
    /\ \A i, j \in 1..Len(cmds) : i # j => cmds[i] # cmds[j]

IInv ==
    /\ CoreType /\ PhaseAgrees /\ ActorAgrees /\ ObserverServed
    /\ SessionAgrees /\ CallersWait /\ QueuedWait

-----------------------------------------------------------------------------
LEMMA InitInvariant == Init => IInv
<1> SUFFICES ASSUME Init PROVE IInv
  OBVIOUS
<1>0. cmds \in Seq(Observers)
  BY DEF Init
<1>1. CoreType
  BY <1>0, ZenonT(20) DEF Init, CoreType, Phases, Unanswered
<1>2. PhaseAgrees
  BY DEF Init, PhaseAgrees
<1>3. ActorAgrees
  BY DEF Init, ActorAgrees, Draining
<1>4. ObserverServed
  BY DEF Init, ObserverServed, Draining
<1>5. SessionAgrees
  BY DEF Init, SessionAgrees
<1>6. CallersWait
  BY DEF Init, CallersWait, Calls
<1>7. QueuedWait
  BY DEF Init, QueuedWait
<1>8. QED
  BY <1>1, <1>2, <1>3, <1>4, <1>5, <1>6, <1>7 DEF IInv

LEMMA CoreUnchanged == IInv /\ UNCHANGED coreVars => IInv'
BY DEF coreVars, IInv, CoreType, PhaseAgrees, ActorAgrees, ObserverServed, SessionAgrees,
       CallersWait, QueuedWait, Draining

\* The runtime thread and the callback tasks touch none of these variables.
LEMMA QuietUnchanged == Tasks \/ Runtime => UNCHANGED coreVars
<1>1. Tasks => UNCHANGED coreVars
  BY DEF Tasks, NotifyDone, ToolDone, TimeoutFires, coreVars, sessionVars, stateVars, commandVars,
         actorVars
<1>2. ASSUME NEW f, NEW t, NEW e, NEW q, NEW k, RuntimeStep(f, t, e, q, k)
      PROVE  UNCHANGED coreVars
  BY <1>2 DEF RuntimeStep, coreVars, sessionVars, stateVars, commandVars, actorVars
<1>3. Runtime => UNCHANGED coreVars
  BY <1>2 DEF Runtime, RuntimeStarts, ScriptEffect, ScriptEnds, ScriptPanics, ScriptRests,
              NextCommand, TakeControl, ReceiveCommand, RunTo
<1>4. QED
  BY <1>1, <1>3

-----------------------------------------------------------------------------
(* Every action that touches these variables preserves the invariant.        *)

LEMMA ExecuteKeeps ==
    ASSUME IInv, Execute
    PROVE  IInv'
<1> USE CellActorAssumption DEF IInv, Execute, sessionVars, stateVars, commandVars, actorVars
<1>1. CoreType'
  BY DEF CoreType, Calls, Observers, Answers, Unanswered, Phases
<1>2. PhaseAgrees' /\ ActorAgrees'
  BY DEF CoreType, PhaseAgrees, ActorAgrees, Draining
<1>3. ObserverServed' /\ SessionAgrees'
  BY DEF CoreType, ObserverServed, SessionAgrees, Draining, Calls, Observers
<1>4. CallersWait' /\ QueuedWait'
  BY DEF CoreType, CallersWait, QueuedWait, Calls, Observers
<1>5. QED
  BY <1>1, <1>2, <1>3, <1>4

LEMMA StartCellKeeps ==
    ASSUME IInv, StartCell
    PROVE  IInv'
<1> USE CellActorAssumption DEF IInv, StartCell, sessionVars, stateVars, commandVars, actorVars
<1>0. /\ First \in Calls /\ First # NoCall /\ "held" \in Unanswered
      /\ [call EXCEPT ![First] = "held"] \in [Calls -> Unanswered \cup Answers]
      /\ exec # "started" /\ pc = "none" /\ \A c \in Calls : call[c] = "idle"
  BY DEF CoreType, SessionAgrees, Calls, Observers, Unanswered
<1>1. CoreType'
  BY <1>0 DEF CoreType, Calls, Observers, Answers, Unanswered, Phases
<1>2. PhaseAgrees' /\ ActorAgrees'
  BY <1>0 DEF CoreType, PhaseAgrees, ActorAgrees, Draining
<1>3. ObserverServed'
  BY <1>0 DEF CoreType, ObserverServed, ActorAgrees, Draining
<1>4. SessionAgrees'
  BY <1>0 DEF CoreType, SessionAgrees, Calls, Observers
<1>5. CallersWait' /\ QueuedWait'
  BY <1>0 DEF CoreType, CallersWait, QueuedWait, Calls, Observers
<1>6. QED
  BY <1>1, <1>2, <1>3, <1>4, <1>5

LEMMA BeginShutdownKeeps ==
    ASSUME IInv, BeginShutdown
    PROVE  IInv'
<1> USE CellActorAssumption DEF IInv, BeginShutdown, sessionVars, stateVars, commandVars,
       actorVars
<1>1. CoreType'
  BY DEF CoreType, Calls, Observers, Answers, Unanswered, Phases
<1>2. PhaseAgrees' /\ ActorAgrees'
  BY DEF CoreType, PhaseAgrees, ActorAgrees, Draining
<1>3. ObserverServed' /\ SessionAgrees'
  BY DEF CoreType, ObserverServed, SessionAgrees, Draining, Calls, Observers
<1>4. CallersWait' /\ QueuedWait'
  BY DEF CoreType, CallersWait, QueuedWait, Calls, Observers
<1>5. QED
  BY <1>1, <1>2, <1>3, <1>4

LEMMA AwaitCellsKeeps ==
    ASSUME IInv, AwaitCells
    PROVE  IInv'
<1> USE CellActorAssumption DEF IInv, AwaitCells, sessionVars, stateVars, commandVars, actorVars
<1>1. CoreType'
  BY DEF CoreType, Calls, Observers, Answers, Unanswered, Phases
<1>2. PhaseAgrees' /\ ActorAgrees'
  BY DEF CoreType, PhaseAgrees, ActorAgrees, Draining
<1>3. ObserverServed' /\ SessionAgrees'
  BY DEF CoreType, ObserverServed, SessionAgrees, Draining, Calls, Observers
<1>4. CallersWait' /\ QueuedWait'
  BY DEF CoreType, CallersWait, QueuedWait, Calls, Observers
<1>5. QED
  BY <1>1, <1>2, <1>3, <1>4

LEMMA LookUpKeeps ==
    ASSUME IInv, NEW c \in Calls, LookUp(c)
    PROVE  IInv'
<1> USE CellActorAssumption DEF IInv, LookUp, InMap, sessionVars, stateVars, commandVars,
       actorVars
<1>1. CoreType'
  BY DEF CoreType, Calls, Observers, Answers, Unanswered, Phases
<1>2. PhaseAgrees' /\ ActorAgrees'
  BY DEF CoreType, PhaseAgrees, ActorAgrees, Draining
<1>3. ObserverServed' /\ SessionAgrees'
  BY DEF CoreType, ObserverServed, SessionAgrees, Draining, Calls, Observers
<1>4. CallersWait' /\ QueuedWait'
  BY DEF CoreType, CallersWait, QueuedWait, Calls, Observers
<1>5. QED
  BY <1>1, <1>2, <1>3, <1>4

LEMMA ObserveKeeps ==
    ASSUME IInv, NEW c \in Observers, Observe(c)
    PROVE  IInv'
<1> USE CellActorAssumption DEF IInv, Observe, sessionVars, stateVars, commandVars, actorVars
<1>1. CoreType'
  BY DEF CoreType, Calls, Observers, Answers, Unanswered, Phases
<1>2. PhaseAgrees' /\ ActorAgrees'
  BY DEF CoreType, PhaseAgrees, ActorAgrees, Draining
<1>3. ObserverServed' /\ SessionAgrees'
  BY DEF CoreType, ObserverServed, SessionAgrees, Draining, Calls, Observers
<1>4. CallersWait'
  BY DEF CoreType, CallersWait, Calls, Observers
<1>5. QueuedWait'
  BY DEF CoreType, QueuedWait, Calls, Observers
<1>6. QED
  BY <1>1, <1>2, <1>3, <1>4, <1>5

LEMMA TerminateKeeps ==
    ASSUME IInv, NEW c \in Terminates, Terminate(c)
    PROVE  IInv'
<1> USE CellActorAssumption DEF IInv, Terminate, sessionVars, stateVars, commandVars, actorVars
<1>0. cancelled' \in BOOLEAN
  BY DEF CoreType
<1>1. CoreType'
  BY <1>0 DEF CoreType, Calls, Observers, Answers, Unanswered, Phases
<1>2. PhaseAgrees' /\ ActorAgrees'
  BY <1>0 DEF CoreType, PhaseAgrees, ActorAgrees, Draining
<1>3. ObserverServed' /\ SessionAgrees'
  BY <1>0 DEF CoreType, ObserverServed, SessionAgrees, Draining, Calls, Observers
<1>4. CallersWait' /\ QueuedWait'
  BY <1>0 DEF CoreType, CallersWait, QueuedWait, Calls, Observers
<1>5. QED
  BY <1>1, <1>2, <1>3, <1>4

LEMMA DropCallKeeps ==
    ASSUME IInv, NEW c \in Calls, DropCall(c)
    PROVE  IInv'
<1> USE CellActorAssumption DEF IInv, DropCall, sessionVars, stateVars, commandVars, actorVars
<1>1. CoreType'
  BY DEF CoreType, Calls, Observers, Answers, Unanswered, Phases
<1>2. PhaseAgrees' /\ ActorAgrees'
  BY DEF CoreType, PhaseAgrees, ActorAgrees, Draining
<1>3. ObserverServed' /\ SessionAgrees'
  BY DEF CoreType, ObserverServed, SessionAgrees, Draining, Calls, Observers
<1>4. CallersWait' /\ QueuedWait'
  BY DEF CoreType, CallersWait, QueuedWait, Calls, Observers
<1>5. QED
  BY <1>1, <1>2, <1>3, <1>4

LEMMA OnCancelledKeeps ==
    ASSUME IInv, OnCancelled
    PROVE  IInv'
<1> USE CellActorAssumption DEF IInv, OnCancelled, BeginTermination, FinishCallbacks,
       CloseCommands, sessionVars, stateVars, commandVars, actorVars
<1>1. CoreType'
  BY DEF CoreType, Calls, Observers, Answers, Unanswered, Phases
<1>2. PhaseAgrees' /\ ActorAgrees'
  BY DEF CoreType, PhaseAgrees, ActorAgrees, Draining
<1>3. ObserverServed' /\ SessionAgrees'
  BY DEF CoreType, ObserverServed, SessionAgrees, Draining, Calls, Observers
<1>4. CallersWait' /\ QueuedWait'
  BY DEF CoreType, CallersWait, QueuedWait, Calls, Observers
<1>5. QED
  BY <1>1, <1>2, <1>3, <1>4

LEMMA OnTimerKeeps ==
    ASSUME IInv, OnTimer
    PROVE  IInv'
<1> USE CellActorAssumption DEF IInv, OnTimer, HandBuffer, Reply, Alive, sessionVars, stateVars,
       commandVars, actorVars
<1>1. CoreType'
  BY DEF CoreType, Calls, Observers, Answers, Unanswered, Phases
<1>2. PhaseAgrees' /\ ActorAgrees'
  BY DEF CoreType, PhaseAgrees, ActorAgrees, Draining
<1>3. ObserverServed' /\ SessionAgrees'
  BY DEF CoreType, ObserverServed, SessionAgrees, Draining, Calls, Observers
<1>4. CallersWait' /\ QueuedWait'
  BY DEF CoreType, CallersWait, QueuedWait, Calls, Observers
<1>5. QED
  BY <1>1, <1>2, <1>3, <1>4

LEMMA OnPendingKeeps ==
    ASSUME IInv, OnPending
    PROVE  IInv'
<1> USE CellActorAssumption DEF IInv, OnPending, Take, HandBuffer, Reply, Alive, ObserverIn,
       sessionVars, stateVars, commandVars, actorVars
<1>0. \/ call' = call
      \/ /\ observer # NoCall /\ observer \in Calls
         /\ call' = [call EXCEPT ![observer] = "pending"]
  BY DEF CoreType, Calls, Observers
<1>1. CoreType'
  BY <1>0 DEF CoreType, Calls, Observers, Answers, Unanswered, Phases
<1>2. PhaseAgrees' /\ ActorAgrees'
  BY DEF CoreType, PhaseAgrees, ActorAgrees, Draining
<1>3. ObserverServed' /\ SessionAgrees'
  BY DEF CoreType, ObserverServed, SessionAgrees, Draining, Calls, Observers
<1>4. CallersWait' /\ QueuedWait'
  BY DEF CoreType, CallersWait, QueuedWait, Calls, Observers
<1>5. QED
  BY <1>1, <1>2, <1>3, <1>4

LEMMA OnYieldKeeps ==
    ASSUME IInv, OnYield
    PROVE  IInv'
<1> USE CellActorAssumption DEF IInv, OnYield, Take, HandBuffer, Reply, Alive, ObserverIn,
       sessionVars, stateVars, commandVars, actorVars
<1>1. CoreType'
  BY SMTT(30) DEF CoreType, Calls, Observers, Answers, Unanswered, Phases
<1>2. PhaseAgrees' /\ ActorAgrees'
  BY DEF CoreType, PhaseAgrees, ActorAgrees, Draining
<1>3. ObserverServed' /\ SessionAgrees'
  BY DEF CoreType, ObserverServed, SessionAgrees, Draining, Calls, Observers
<1>4. CallersWait' /\ QueuedWait'
  BY DEF CoreType, CallersWait, QueuedWait, Calls, Observers
<1>5. QED
  BY <1>1, <1>2, <1>3, <1>4

LEMMA OnRuntimeEndKeeps ==
    ASSUME IInv, OnRuntimeEnd
    PROVE  IInv'
<1> USE CellActorAssumption DEF IInv, OnRuntimeEnd, Take, FinishCallbacks, sessionVars,
       stateVars, commandVars, actorVars
<1>1. CoreType'
  BY DEF CoreType, Calls, Observers, Answers, Unanswered, Phases
<1>2. PhaseAgrees' /\ ActorAgrees'
  BY DEF CoreType, PhaseAgrees, ActorAgrees, Draining
<1>3. ObserverServed' /\ SessionAgrees'
  BY DEF CoreType, ObserverServed, SessionAgrees, Draining, Calls, Observers
<1>4. CallersWait' /\ QueuedWait'
  BY DEF CoreType, CallersWait, QueuedWait, Calls, Observers
<1>5. QED
  BY <1>1, <1>2, <1>3, <1>4

LEMMA CallbacksDrainedKeeps ==
    ASSUME IInv, CallbacksDrained
    PROVE  IInv'
<1> USE CellActorAssumption DEF IInv, CallbacksDrained, sessionVars, stateVars, commandVars,
       actorVars
<1>1. CoreType'
  BY DEF CoreType, Calls, Observers, Answers, Unanswered, Phases
<1>2. PhaseAgrees' /\ ActorAgrees'
  BY DEF CoreType, PhaseAgrees, ActorAgrees, Draining
<1>3. ObserverServed' /\ SessionAgrees'
  BY DEF CoreType, ObserverServed, SessionAgrees, Draining, Calls, Observers
<1>4. CallersWait' /\ QueuedWait'
  BY DEF CoreType, CallersWait, QueuedWait, Calls, Observers
<1>5. QED
  BY <1>1, <1>2, <1>3, <1>4

LEMMA CommitCompletionKeeps ==
    ASSUME IInv, CommitCompletion
    PROVE  IInv'
<1> USE CellActorAssumption DEF IInv, CommitCompletion, sessionVars, stateVars, commandVars,
       actorVars
<1>0. /\ stored' \in BOOLEAN
      /\ cancelled = TRUE \/ phase' = "Completed"
  BY DEF CoreType, PhaseAgrees, Phases
<1>1. CoreType'
  BY <1>0 DEF CoreType, Calls, Observers, Answers, Unanswered, Phases
<1>2. PhaseAgrees'
  BY <1>0 DEF CoreType, PhaseAgrees
<1>3. ActorAgrees'
  BY <1>0 DEF CoreType, ActorAgrees, Draining
<1>4. ObserverServed' /\ SessionAgrees'
  BY <1>0 DEF CoreType, ObserverServed, SessionAgrees, Draining, Calls, Observers
<1>5. CallersWait' /\ QueuedWait'
  BY <1>0 DEF CoreType, CallersWait, QueuedWait, Calls, Observers
<1>6. QED
  BY <1>1, <1>2, <1>3, <1>4, <1>5

LEMMA DeliverCompletionKeeps ==
    ASSUME IInv, DeliverCompletion
    PROVE  IInv'
<1> USE CellActorAssumption DEF IInv, DeliverCompletion, Alive, sessionVars, stateVars,
       commandVars, actorVars
<1>0. cancelled' \in BOOLEAN
  BY DEF CoreType
<1>1. CoreType'
  BY <1>0 DEF CoreType, Calls, Observers, Answers, Unanswered, Phases
<1>2. PhaseAgrees' /\ ActorAgrees'
  BY <1>0 DEF CoreType, PhaseAgrees, ActorAgrees, Draining
<1>3. ObserverServed' /\ SessionAgrees'
  BY <1>0 DEF CoreType, ObserverServed, SessionAgrees, Draining, Calls, Observers
<1>4. CallersWait' /\ QueuedWait'
  BY <1>0 DEF CoreType, CallersWait, QueuedWait, Calls, Observers
<1>5. QED
  BY <1>1, <1>2, <1>3, <1>4

LEMMA FinishTerminationKeeps ==
    ASSUME IInv, FinishTermination
    PROVE  IInv'
<1> USE CellActorAssumption DEF IInv, FinishTermination, Reply, Alive, sessionVars, stateVars,
       commandVars, actorVars
<1>1. CoreType'
  BY DEF CoreType, Calls, Observers, Answers, Unanswered, Phases
<1>2. PhaseAgrees' /\ ActorAgrees'
  BY DEF CoreType, PhaseAgrees, ActorAgrees, Draining
<1>3. ObserverServed' /\ SessionAgrees'
  BY DEF CoreType, ObserverServed, SessionAgrees, Draining, Calls, Observers
<1>4. CallersWait' /\ QueuedWait'
  BY DEF CoreType, CallersWait, QueuedWait, Calls, Observers
<1>5. QED
  BY <1>1, <1>2, <1>3, <1>4

LEMMA PostKeeps ==
    ASSUME IInv, Post
    PROVE  IInv'
<1> USE CellActorAssumption DEF IInv, Post, BeginTermination, FinishCallbacks, CloseCommands,
       sessionVars, stateVars, commandVars, actorVars
<1>1. CoreType'
  BY DEF CoreType, Calls, Observers, Answers, Unanswered, Phases
<1>2. PhaseAgrees' /\ ActorAgrees'
  BY DEF CoreType, PhaseAgrees, ActorAgrees, Draining
<1>3. ObserverServed' /\ SessionAgrees'
  BY DEF CoreType, ObserverServed, SessionAgrees, Draining, Calls, Observers
<1>4. CallersWait' /\ QueuedWait'
  BY DEF CoreType, CallersWait, QueuedWait, Calls, Observers
<1>5. QED
  BY <1>1, <1>2, <1>3, <1>4

LEMMA ClosedKeeps ==
    ASSUME IInv, Closed
    PROVE  IInv'
<1> USE CellActorAssumption DEF IInv, Closed, sessionVars, stateVars, commandVars, actorVars
<1>1. CoreType'
  BY DEF CoreType, Calls, Observers, Answers, Unanswered, Phases
<1>2. PhaseAgrees' /\ ActorAgrees'
  BY DEF CoreType, PhaseAgrees, ActorAgrees, Draining
<1>3. ObserverServed' /\ SessionAgrees'
  BY DEF CoreType, ObserverServed, SessionAgrees, Draining, Calls, Observers
<1>4. CallersWait' /\ QueuedWait'
  BY DEF CoreType, CallersWait, QueuedWait, Calls, Observers
<1>5. QED
  BY <1>1, <1>2, <1>3, <1>4

\* Taking the first of a queue.
LEMMA TailFacts ==
    ASSUME NEW S, NEW q \in Seq(S), q # << >>
    PROVE  /\ Head(q) = q[1] /\ q[1] \in S /\ Tail(q) \in Seq(S)
           /\ Len(q) \in Nat /\ Len(q) > 0 /\ Len(Tail(q)) = Len(q) - 1
           /\ \A i \in 1..(Len(q) - 1) : Tail(q)[i] = q[i + 1]
OBVIOUS

\* A running cell refuses an observation, serves it at once or installs it; it does the
\* last two only when nobody waits.
Unobserved == observer = NoCall \/ call[observer] = "dropped"

LEMMA ServeFacts ==
    ASSUME CoreType, NEW c \in Observers, call[c] # "dropped", ServeObservation(c)
    PROVE  \/ observer' = observer /\ call' = [call EXCEPT ![c] = "busy"]
           \/ Unobserved /\ observer' = NoCall /\ call' = [call EXCEPT ![c] = "pending"]
           \/ Unobserved /\ observer' = c /\ call' = [call EXCEPT ![c] = "held"]
<1>0. c # NoCall
  BY CellActorAssumption DEF Calls
<1>1. ASSUME NEW a PROVE Reply(call, c, a) = [call EXCEPT ![c] = a]
  BY <1>0 DEF Reply
<1>2. ASSUME observer = NoCall \/ ~Alive(observer) PROVE Unobserved
  BY <1>2 DEF Alive, Unobserved
<1>3. QED
  BY <1>1, <1>2 DEF ServeObservation, HandBuffer

\* What the branch of the command channel does with the caller it takes.
LEMMA ObserveFacts ==
    ASSUME IInv, OnObserve, NEW c, c = Head(cmds)
    PROVE  /\ c \in Observers /\ call[c] \in {"queued", "dropped"}
           /\ \/ call' = call /\ UNCHANGED <<observer, phase, cancelled, pc>>
              \/ /\ call[c] = "queued" /\ phase = "Running" /\ UNCHANGED <<phase, cancelled, pc>>
                 /\ \/ observer' = observer /\ call' = [call EXCEPT ![c] = "busy"]
                    \/ Unobserved /\ observer' = NoCall /\ call' = [call EXCEPT ![c] = "pending"]
                    \/ Unobserved /\ observer' = c /\ call' = [call EXCEPT ![c] = "held"]
              \/ /\ call[c] = "queued" /\ phase = "Completed" /\ observer' = observer
                 /\ call' = [call EXCEPT ![c] = "completed"]
                 /\ phase' = "Tombstone" /\ cancelled' = TRUE /\ pc' = "post"
              \/ /\ call[c] = "queued" /\ call' = [call EXCEPT ![c] = "closed"]
                 /\ UNCHANGED <<observer, phase, cancelled, pc>>
<1>1. cmds \in Seq(Observers) /\ cmds # << >>
  BY DEF IInv, CoreType, OnObserve
<1>2. c \in Observers /\ call[c] \in {"queued", "dropped"}
  BY <1>1, TailFacts DEF IInv, QueuedWait
<1>3. c # NoCall
  BY <1>2, CellActorAssumption DEF Calls
<1>4. ASSUME ServeObservation(c), call[c] # "dropped"
      PROVE  \/ observer' = observer /\ call' = [call EXCEPT ![c] = "busy"]
             \/ Unobserved /\ observer' = NoCall /\ call' = [call EXCEPT ![c] = "pending"]
             \/ Unobserved /\ observer' = c /\ call' = [call EXCEPT ![c] = "held"]
  BY <1>2, <1>4, ServeFacts DEF IInv
<1>5. QED
  BY <1>2, <1>3, <1>4 DEF OnObserve, Alive

LEMMA OnObserveKeeps ==
    ASSUME IInv, OnObserve
    PROVE  IInv'
<1> DEFINE c == Head(cmds)
<1> USE CellActorAssumption DEF IInv
<1>1. /\ c = cmds[1] /\ c \in Observers /\ c # NoCall /\ c \in Calls
      /\ Len(cmds) \in Nat /\ Len(cmds) > 0
      /\ cmds' = Tail(cmds) /\ cmds' \in Seq(Observers) /\ Len(cmds') = Len(cmds) - 1
      /\ \A i \in 1..Len(cmds') : cmds'[i] = cmds[i + 1]
  <2>1. cmds \in Seq(Observers) /\ cmds # << >> /\ cmds' = Tail(cmds)
    BY DEF OnObserve, CoreType
  <2>2. QED
    BY <2>1, TailFacts DEF Calls
<1>2. \A i \in 1..Len(cmds') :
          cmds'[i] \in Calls /\ cmds'[i] # c /\ call[cmds'[i]] \in {"queued", "dropped"}
  BY <1>1 DEF QueuedWait, Calls
<1>3. \A i, j \in 1..Len(cmds') : i # j => cmds'[i] # cmds'[j]
  BY <1>1 DEF QueuedWait
<1>4. /\ UNCHANGED <<exec, shutdown, stored, claim, after, termination, rtClosed>>
      /\ pc = "loop"
  BY DEF OnObserve, sessionVars
<1> HIDE DEF c
<1>5. c \in Observers /\ call[c] \in {"queued", "dropped"}
  BY ObserveFacts DEF c
<1>6. CASE call' = call /\ UNCHANGED <<observer, phase, cancelled, pc>>
  <2>1. QueuedWait'
    BY <1>2, <1>3, <1>6 DEF QueuedWait
  <2>2. QED
    BY <1>1, <1>4, <1>6, <2>1 DEF CoreType, PhaseAgrees, ActorAgrees, ObserverServed, SessionAgrees,
       CallersWait, Draining
<1>7. ASSUME NEW a \in Unanswered \cup Answers, call' = [call EXCEPT ![c] = a]
      PROVE  /\ call' \in [Calls -> Unanswered \cup Answers] /\ call'[c] = a
             /\ \A d \in Calls : d # c => call'[d] = call[d]
             /\ QueuedWait'
  <2>1. /\ call' \in [Calls -> Unanswered \cup Answers] /\ call'[c] = a
        /\ \A d \in Calls : d # c => call'[d] = call[d]
    BY <1>1, <1>7 DEF CoreType
  <2>2. QED
    BY <1>2, <1>3, <2>1 DEF QueuedWait
<1>8. CASE /\ call[c] = "queued" /\ phase = "Running" /\ UNCHANGED <<phase, cancelled, pc>>
           /\ \/ observer' = observer /\ call' = [call EXCEPT ![c] = "busy"]
              \/ Unobserved /\ observer' = NoCall /\ call' = [call EXCEPT ![c] = "pending"]
              \/ Unobserved /\ observer' = c /\ call' = [call EXCEPT ![c] = "held"]
  <2>1. \E a \in {"busy", "pending", "held"} : call' = [call EXCEPT ![c] = a] /\ call'[c] = a
    BY <1>1, <1>8 DEF CoreType
  <2>2. /\ call' \in [Calls -> Unanswered \cup Answers] /\ QueuedWait'
        /\ \A d \in Calls : d # c => call'[d] = call[d]
    BY <1>7, <2>1 DEF Answers, Unanswered
  <2>3. CoreType' /\ PhaseAgrees' /\ ActorAgrees' /\ ObserverServed' /\ SessionAgrees'
    BY <1>1, <1>4, <1>8, <2>2 DEF CoreType, PhaseAgrees, ActorAgrees, ObserverServed, SessionAgrees,
       Draining
  <2>4. CallersWait'
    BY <1>1, <1>4, <1>8, <2>1, <2>2 DEF CoreType, CallersWait, Unobserved, Calls
  <2>5. QED
    BY <2>2, <2>3, <2>4
<1>9. CASE /\ call[c] = "queued" /\ observer' = observer
           /\ \/ /\ phase = "Completed" /\ call' = [call EXCEPT ![c] = "completed"]
                 /\ phase' = "Tombstone" /\ cancelled' = TRUE /\ pc' = "post"
              \/ /\ call' = [call EXCEPT ![c] = "closed"]
                 /\ UNCHANGED <<phase, cancelled, pc>>
  <2>1. \E a \in {"completed", "closed"} : call' = [call EXCEPT ![c] = a] /\ call'[c] = a
    BY <1>1, <1>9 DEF CoreType
  <2>2. /\ call' \in [Calls -> Unanswered \cup Answers] /\ QueuedWait'
        /\ \A d \in Calls : d # c => call'[d] = call[d]
    BY <1>7, <2>1 DEF Answers, Unanswered
  <2>3. cancelled' \in BOOLEAN
    BY <1>9 DEF CoreType
  <2>4. CoreType' /\ PhaseAgrees' /\ ActorAgrees' /\ ObserverServed' /\ SessionAgrees'
    BY <1>1, <1>4, <1>9, <2>2, <2>3 DEF CoreType, PhaseAgrees, ActorAgrees, ObserverServed,
       SessionAgrees, Draining, Phases
  <2>5. CallersWait'
    BY <1>1, <1>4, <1>9, <2>1, <2>2 DEF CoreType, CallersWait, Calls
  <2>6. QED
    BY <2>2, <2>4, <2>5
<1>10. QED
  BY <1>6, <1>8, <1>9, ObserveFacts DEF c

-----------------------------------------------------------------------------
LEMMA EventUnchanged == OnStarted \/ OnContent \/ OnCallback => UNCHANGED coreVars
BY DEF OnStarted, OnContent, OnCallback, Take, coreVars, sessionVars, stateVars, commandVars,
       actorVars

LEMMA NextKeeps == IInv /\ [Next]_vars => IInv'
<1> SUFFICES ASSUME IInv, [Next]_vars PROVE IInv'
  OBVIOUS
<1>1. CASE Actor
  BY <1>1, OnCancelledKeeps, OnObserveKeeps, OnTimerKeeps, OnPendingKeeps, OnYieldKeeps,
     OnRuntimeEndKeeps, CallbacksDrainedKeeps, CommitCompletionKeeps, DeliverCompletionKeeps,
     FinishTerminationKeeps, PostKeeps, ClosedKeeps, EventUnchanged, CoreUnchanged DEF Actor
<1>2. CASE Session
  BY <1>2, ExecuteKeeps, StartCellKeeps, BeginShutdownKeeps, AwaitCellsKeeps DEF Session
<1>3. ASSUME NEW c \in Calls, Caller(c) PROVE IInv'
  BY <1>3, LookUpKeeps, ObserveKeeps, TerminateKeeps, DropCallKeeps DEF Caller
<1>4. CASE Tasks \/ Runtime
  BY <1>4, QuietUnchanged, CoreUnchanged
<1>5. CASE UNCHANGED vars
  <2>1. UNCHANGED coreVars
    BY <1>5 DEF vars, coreVars, sessionVars, stateVars, commandVars, actorVars
  <2>2. QED
    BY <2>1, CoreUnchanged
<1>6. QED
  BY <1>1, <1>2, <1>3, <1>4, <1>5 DEF Next

\* The invariant holds in every reachable state.
THEOREM Invariance == Spec => []IInv
BY InitInvariant, NextKeeps, PTL DEF Spec

\* When shutdown returns, the cell it waited for is gone, none will start, and no observer
\* still waits: the map's lock and the tracker's wait leave no cell behind
\* (SessionRuntime::shutdown).
THEOREM ShutdownLeavesNothing == Spec => []ShutdownFinal
<1>1. IInv => ShutdownFinal
  <2> SUFFICES ASSUME IInv, shutdown = "returned"
               PROVE  /\ exec = "started" => pc = "gone"
                      /\ \A c \in Observers : call[c] # "held"
    BY DEF ShutdownFinal
  <2>1. exec = "started" => pc = "gone"
    BY DEF IInv, SessionAgrees
  <2>2. observer = NoCall
    BY DEF IInv, SessionAgrees, ActorAgrees, ObserverServed
  <2>3. QED
    BY <2>1, <2>2, CellActorAssumption DEF IInv, CallersWait, Calls
<1>2. QED
  BY <1>1, Invariance, PTL

-----------------------------------------------------------------------------
(* The refinement: every step is a step of CellOutcome or leaves what it     *)
(* sees unchanged.                                                           *)

LEMMA TellsFacts ==
    /\ \A a \in Unanswered : Tells(a) = "none"
    /\ Tells("completed") = "completed" /\ Tells("terminated") = "terminated"
    /\ \A a \in {"yielded", "pending"} : Tells(a) = "output"
    /\ \A a \in {"busy", "already", "closed", "missing"} : Tells(a) = "refused"
BY DEF Tells, Unanswered

\* A step that only moves callers who have no answer yet is a stutter.
LEMMA Unseen ==
    ASSUME UNCHANGED <<stored, Outcome>>,
           \A c \in Calls : call'[c] = call[c] \/ (call[c] \in Unanswered /\ call'[c] \in Unanswered)
    PROVE  UNCHANGED Abstract!vars
<1>1. \A c \in Calls : Tells(call'[c]) = Tells(call[c])
  BY TellsFacts
<1>2. Told' = Told
  BY <1>1, Zenon DEF Told, Tells
<1>3. QED
  BY <1>2 DEF Abstract!vars

\* A step that answers the callers in S alike is one of the three answers of CellOutcome.
LEMMA Answered ==
    ASSUME NEW S \in SUBSET Calls, NEW answer, UNCHANGED <<stored, Outcome>>,
           \A c \in S : call[c] \in Unanswered /\ Tells(call'[c]) = answer,
           \A c \in Calls \ S : Tells(call'[c]) = Tells(call[c]),
           \/ answer = "refused"
           \/ answer = "output" /\ ~stored
           \/ answer = Outcome /\ Outcome # "open"
    PROVE  Abstract!Next
<1>1. \A c \in S : Told[c] = "none"
  BY TellsFacts DEF Told
<1>2. \A c \in Calls : Tells(call'[c]) = IF c \in S THEN answer ELSE Told[c]
  BY DEF Told
<1>3. Told' = [c \in Calls |-> Tells(call'[c])]
  BY Zenon DEF Told, Tells
<1>4. Told' = [c \in Calls |-> IF c \in S THEN answer ELSE Told[c]]
  BY <1>2, <1>3
<1>5. Abstract!Answer(S, answer)
  BY <1>1, <1>4 DEF Abstract!Answer
<1>6. ~stored => Outcome # "completed"
  BY DEF Outcome
<1>7. Abstract!HandOutput(S) \/ Abstract!TellOutcome(S) \/ Abstract!Refuse(S)
  BY <1>5, <1>6 DEF Abstract!HandOutput, Abstract!TellOutcome, Abstract!Refuse
<1>8. QED
  BY <1>7 DEF Abstract!Next

\* A step that answers one caller.
LEMMA AnsweredOne ==
    ASSUME CoreType, NEW c \in Calls, NEW a \in Answers, UNCHANGED <<stored, Outcome>>,
           call[c] \in Unanswered, call' = [call EXCEPT ![c] = a],
           \/ a \in {"busy", "already", "closed", "missing"}
           \/ a \in {"yielded", "pending"} /\ ~stored
           \/ a \in {"completed", "terminated"} /\ a = Outcome
    PROVE  Abstract!Next
<1>1. call'[c] = a /\ \A d \in Calls \ {c} : call'[d] = call[d]
  BY DEF CoreType
<1>2. Tells(a) = "refused" \/ (Tells(a) = "output" /\ ~stored) \/ (Tells(a) = Outcome /\ Outcome # "open")
  BY TellsFacts
<1> DEFINE S == {c}
<1>3. /\ S \in SUBSET Calls
      /\ \A d \in S : call[d] \in Unanswered /\ Tells(call'[d]) = Tells(a)
      /\ \A d \in Calls \ S : Tells(call'[d]) = Tells(call[d])
  BY <1>1
<1> HIDE DEF S
<1>4. QED
  BY <1>2, <1>3, Answered

\* Dropping the command receiver refuses the queued observations.
LEMMA ClosedQueued ==
    ASSUME CoreType, UNCHANGED <<stored, Outcome>>, call' = CloseCommands(call)
    PROVE  Abstract!Next
<1> DEFINE S == {c \in Calls : call[c] = "queued"}
<1>1. \A c \in S : call[c] \in Unanswered /\ call'[c] = "closed"
  BY DEF CloseCommands, Unanswered
<1>2. \A c \in Calls \ S : call'[c] = call[c]
  BY DEF CloseCommands
<1>3. S \in SUBSET Calls
  OBVIOUS
<1>4. \A c \in S : call[c] \in Unanswered /\ Tells(call'[c]) = "refused"
  BY <1>1, TellsFacts
<1> HIDE DEF S
<1>5. \A c \in Calls \ S : Tells(call'[c]) = Tells(call[c])
  BY <1>2
<1>6. QED
  BY <1>3, <1>4, <1>5, Answered

\* A cancellation before the commit decides the outcome.
LEMMA Cancelled ==
    ASSUME CoreType, UNCHANGED stored, cancelled => cancelled', cancelled' \in BOOLEAN,
           \A c \in Calls : call'[c] = call[c] \/ (call[c] \in Unanswered /\ call'[c] \in Unanswered)
    PROVE  Abstract!Next \/ UNCHANGED Abstract!vars
<1>1. CASE UNCHANGED Outcome
  BY <1>1, Unseen
<1>2. CASE ~stored /\ ~cancelled /\ cancelled'
  <2>1. Outcome = "open" /\ Outcome' = "terminated"
    BY <1>2 DEF Outcome
  <2>2. \A c \in Calls : Tells(call'[c]) = Tells(call[c])
    BY TellsFacts
  <2>3. Told' = Told
    BY <2>2, Zenon DEF Told, Tells
  <2>4. Abstract!Terminate
    BY <2>1, <2>3 DEF Abstract!Terminate
  <2>5. QED
    BY <2>4 DEF Abstract!Next
<1>3. QED
  BY <1>1, <1>2 DEF Outcome, CoreType

LEMMA SessionMaps ==
    ASSUME IInv, Session
    PROVE  Abstract!Next \/ UNCHANGED Abstract!vars
<1>1. UNCHANGED stored /\ (cancelled => cancelled') /\ cancelled' \in BOOLEAN
  BY DEF Session, Execute, StartCell, BeginShutdown, AwaitCells, sessionVars, stateVars, IInv,
         CoreType
<1>2. \A c \in Calls : call'[c] = call[c] \/ (call[c] \in Unanswered /\ call'[c] \in Unanswered)
  BY DEF Session, Execute, StartCell, BeginShutdown, AwaitCells, IInv, CoreType, SessionAgrees,
         Unanswered
<1>3. QED
  BY <1>1, <1>2, Cancelled DEF IInv

LEMMA CallerMaps ==
    ASSUME IInv, NEW c \in Calls, Caller(c)
    PROVE  Abstract!Next \/ UNCHANGED Abstract!vars
<1> USE DEF IInv
<1>1. CASE LookUp(c)
  <2>1. call[c] \in Unanswered /\ UNCHANGED <<stored, Outcome>>
    BY <1>1 DEF LookUp, sessionVars, stateVars, Unanswered, Outcome
  <2>2. CASE call' = [call EXCEPT ![c] = "missing"]
    BY <2>1, <2>2, AnsweredOne DEF Answers
  <2>3. CASE call' = [call EXCEPT ![c] = "handle"]
    BY <2>1, <2>3, Unseen DEF CoreType, Unanswered
  <2>4. QED
    BY <1>1, <2>2, <2>3 DEF LookUp
<1>2. CASE Observe(c)
  <2>1. call[c] \in Unanswered /\ UNCHANGED <<stored, Outcome>>
    BY <1>2 DEF Observe, sessionVars, stateVars, Unanswered, Outcome
  <2>2. CASE call' = [call EXCEPT ![c] = "closed"]
    BY <2>1, <2>2, AnsweredOne DEF Answers
  <2>3. CASE call' = [call EXCEPT ![c] = "queued"]
    BY <2>1, <2>3, Unseen DEF CoreType, Unanswered
  <2>4. QED
    BY <1>2, <2>2, <2>3 DEF Observe
<1>3. CASE Terminate(c)
  <2>1. call[c] \in Unanswered /\ UNCHANGED stored
    BY <1>3 DEF Terminate, sessionVars, Unanswered
  <2>2. CASE phase = "Running"
    <3>1. cancelled' = TRUE /\ call' = [call EXCEPT ![c] = "held"]
      BY <1>3, <2>2 DEF Terminate
    <3>2. \A d \in Calls : call'[d] = call[d] \/ (call[d] \in Unanswered /\ call'[d] \in Unanswered)
      BY <2>1, <3>1 DEF CoreType, Unanswered
    <3>3. QED
      BY <2>1, <3>1, <3>2, Cancelled
  <2>3. CASE phase = "Completed"
    <3>1. UNCHANGED Outcome /\ Outcome = "completed" /\ call' = [call EXCEPT ![c] = "completed"]
      BY <1>3, <2>1, <2>3 DEF Terminate, PhaseAgrees, Outcome
    <3>2. QED
      BY <2>1, <3>1, AnsweredOne DEF Answers
  <2>4. CASE phase \notin {"Running", "Completed"}
    <3>1. UNCHANGED Outcome
      BY <1>3, <2>1, <2>4 DEF Terminate, Outcome
    <3>2. \E a \in {"closed", "already"} : call' = [call EXCEPT ![c] = a]
      BY <1>3, <2>4 DEF Terminate
    <3>3. QED
      BY <2>1, <3>1, <3>2, AnsweredOne DEF Answers
  <2>5. QED
    BY <2>2, <2>3, <2>4
<1>4. CASE DropCall(c)
  <2>1. UNCHANGED <<stored, Outcome>>
    BY <1>4 DEF DropCall, sessionVars, stateVars, Outcome
  <2>2. QED
    BY <1>4, <2>1, Unseen DEF DropCall, CoreType, Unanswered
<1>5. QED
  BY <1>1, <1>2, <1>3, <1>4 DEF Caller

\* The branches that hand output: the observer of a cell that has not completed.
LEMMA OutputMaps ==
    ASSUME IInv, OnTimer \/ OnPending \/ OnYield
    PROVE  Abstract!Next \/ UNCHANGED Abstract!vars
<1>1. UNCHANGED <<stored, Outcome>>
  BY DEF OnTimer, OnPending, OnYield, sessionVars, stateVars, Outcome
<1>2. \/ call' = call
      \/ /\ observer # NoCall
         /\ \E a \in {"yielded", "pending"} : call' = [call EXCEPT ![observer] = a]
  BY DEF OnTimer, OnPending, OnYield, HandBuffer, Reply
<1>3. CASE call' = call
  BY <1>1, <1>3, Unseen
<1>4. ASSUME observer # NoCall, NEW a \in {"yielded", "pending"}, call' = [call EXCEPT ![observer] = a]
      PROVE  Abstract!Next
  <2>1. pc = "loop"
    BY DEF OnTimer, OnPending, OnYield, Take
  <2>2. observer \in Calls /\ call[observer] \in Unanswered /\ ~stored
    BY <1>4, <2>1 DEF IInv, CoreType, ObserverServed, CallersWait, Calls, Unanswered
  <2>3. QED
    BY <1>1, <1>4, <2>2, AnsweredOne DEF Answers, IInv
<1>5. QED
  BY <1>2, <1>3, <1>4

LEMMA ObserveMaps ==
    ASSUME IInv, OnObserve
    PROVE  Abstract!Next \/ UNCHANGED Abstract!vars
<1> DEFINE c == Head(cmds)
<1>1. /\ c \in Calls /\ call[c] \in Unanswered
      /\ \/ call' = call /\ UNCHANGED cancelled
         \/ /\ phase = "Running" /\ UNCHANGED cancelled
            /\ \E a \in {"busy", "pending", "held"} : call' = [call EXCEPT ![c] = a]
         \/ phase = "Completed" /\ call' = [call EXCEPT ![c] = "completed"]
         \/ call' = [call EXCEPT ![c] = "closed"] /\ UNCHANGED cancelled
  BY ObserveFacts DEF Calls, Unanswered
<1>2. UNCHANGED stored
  BY DEF OnObserve, sessionVars
<1> HIDE DEF c
<1>3. CASE call' = call /\ UNCHANGED cancelled
  BY <1>2, <1>3, Unseen DEF Outcome
<1>4. CASE phase = "Completed" /\ call' = [call EXCEPT ![c] = "completed"]
  <2>1. UNCHANGED Outcome /\ Outcome = "completed"
    BY <1>2, <1>4 DEF IInv, PhaseAgrees, Outcome
  <2>2. QED
    BY <1>1, <1>2, <1>4, <2>1, AnsweredOne DEF IInv, Answers
<1>5. ASSUME UNCHANGED cancelled, NEW a \in {"busy", "pending", "closed"},
             call' = [call EXCEPT ![c] = a], a = "pending" => phase = "Running"
      PROVE  Abstract!Next
  <2>1. UNCHANGED Outcome /\ (a = "pending" => ~stored)
    BY <1>2, <1>5 DEF IInv, PhaseAgrees, Outcome
  <2>2. QED
    BY <1>1, <1>2, <1>5, <2>1, AnsweredOne DEF IInv, Answers
<1>6. CASE UNCHANGED cancelled /\ call' = [call EXCEPT ![c] = "held"]
  BY <1>1, <1>2, <1>6, Unseen DEF IInv, CoreType, Unanswered, Outcome
<1>7. QED
  BY <1>1, <1>3, <1>4, <1>5, <1>6

\* The two places where the actor drops its command receiver.
LEMMA CloseMaps ==
    ASSUME IInv, OnCancelled \/ Post
    PROVE  Abstract!Next
<1>1. cancelled = TRUE /\ cancelled' = TRUE
  BY DEF OnCancelled, Post, BeginTermination, IInv, CoreType, ActorAgrees
<1>2. UNCHANGED stored /\ call' = CloseCommands(call)
  BY DEF OnCancelled, Post, sessionVars
<1>3. UNCHANGED Outcome
  BY <1>1, <1>2 DEF Outcome
<1>4. QED
  BY <1>2, <1>3, ClosedQueued DEF IInv

LEMMA CommitMaps ==
    ASSUME IInv, CommitCompletion
    PROVE  Abstract!Next \/ UNCHANGED Abstract!vars
<1>1. UNCHANGED <<call, cancelled>>
  BY DEF CommitCompletion
<1>2. Told' = Told
  BY <1>1, Zenon DEF Told, Tells
<1>3. CASE phase = "Running" /\ ~cancelled
  <2>1. Outcome = "open" /\ Outcome' = "completed" /\ stored' = TRUE
    BY <1>3 DEF CommitCompletion, IInv, PhaseAgrees, Outcome
  <2>2. Abstract!Complete
    BY <1>2, <2>1 DEF Abstract!Complete
  <2>3. QED
    BY <2>2 DEF Abstract!Next
<1>4. CASE ~(phase = "Running" /\ ~cancelled)
  BY <1>1, <1>4, Unseen DEF CommitCompletion, Outcome
<1>5. QED
  BY <1>3, <1>4

LEMMA DeliverMaps ==
    ASSUME IInv, DeliverCompletion
    PROVE  Abstract!Next \/ UNCHANGED Abstract!vars
<1>1. UNCHANGED stored
  BY DEF DeliverCompletion, sessionVars
<1>2. CASE UNCHANGED <<call, cancelled>>
  BY <1>1, <1>2, Unseen DEF Outcome
<1>3. CASE phase = "Completed" /\ Alive(observer) /\ call' = [call EXCEPT ![observer] = "completed"]
  <2>1. UNCHANGED Outcome /\ Outcome = "completed"
    BY <1>1, <1>3 DEF IInv, PhaseAgrees, Outcome
  <2>2. observer \in Calls /\ call[observer] \in Unanswered
    BY <1>3 DEF Alive, IInv, CoreType, CallersWait, Calls, Unanswered
  <2>3. QED
    BY <1>1, <1>3, <2>1, <2>2, AnsweredOne DEF IInv, Answers
<1>4. QED
  BY <1>2, <1>3 DEF DeliverCompletion

\* The observer and the waiting terminate are told the same.
LEMMA TerminationMaps ==
    ASSUME IInv, FinishTermination
    PROVE  Abstract!Next
<1> DEFINE S == {c \in Calls : (c = observer \/ c = claim) /\ call[c] # "dropped"}
           answer == IF phase \in {"Completed", "CompletionClaimed"} THEN "completed"
                     ELSE IF phase = "Tombstone" THEN "closed" ELSE "terminated"
<1>1. UNCHANGED stored /\ cancelled = TRUE /\ cancelled' = TRUE
  BY DEF FinishTermination, sessionVars, IInv, CoreType, ActorAgrees
<1>2. UNCHANGED Outcome
  BY <1>1 DEF Outcome
<1>3. answer \in {"completed", "terminated"} => answer = Outcome
  BY <1>1 DEF Outcome, IInv, PhaseAgrees, CoreType, Phases
<1>4. /\ call' = Reply(Reply(call, observer, answer), claim, answer)
      /\ answer \in {"completed", "terminated", "closed"}
  BY DEF FinishTermination
<1> HIDE DEF answer
<1>5. \A c \in S : call[c] \in Unanswered /\ call'[c] = answer
  BY <1>4, CellActorAssumption DEF Reply, IInv, CoreType, CallersWait, Calls, Unanswered
<1>6. \A c \in Calls \ S : call'[c] = call[c]
  BY <1>4, CellActorAssumption DEF Reply, IInv, CoreType, Calls
<1>7. S \in SUBSET Calls
  OBVIOUS
<1> HIDE DEF S
<1>8. \/ Tells(answer) = "refused"
      \/ Tells(answer) = Outcome /\ Outcome # "open"
  BY <1>3, <1>4, TellsFacts
<1>9. /\ \A c \in S : call[c] \in Unanswered /\ Tells(call'[c]) = Tells(answer)
      /\ \A c \in Calls \ S : Tells(call'[c]) = Tells(call[c])
  BY <1>5, <1>6
<1>10. QED
  BY <1>1, <1>2, <1>7, <1>8, <1>9, Answered

LEMMA NextMaps == IInv /\ [Next]_vars => [Abstract!Next]_(Abstract!vars)
<1> SUFFICES ASSUME IInv, [Next]_vars PROVE Abstract!Next \/ UNCHANGED Abstract!vars
  OBVIOUS
<1>1. ASSUME UNCHANGED <<stored, cancelled, call>> PROVE UNCHANGED Abstract!vars
  BY <1>1, Unseen DEF Outcome
<1>2. CASE OnRuntimeEnd \/ CallbacksDrained \/ Closed
  BY <1>1, <1>2 DEF OnRuntimeEnd, CallbacksDrained, Closed, sessionVars, stateVars
<1>3. CASE UNCHANGED coreVars
  BY <1>1, <1>3 DEF coreVars
<1>4. CASE Actor
  BY <1>2, <1>3, <1>4, OutputMaps, ObserveMaps, CloseMaps, CommitMaps, DeliverMaps,
     TerminationMaps, EventUnchanged DEF Actor
<1>5. CASE UNCHANGED vars
  BY <1>1, <1>5 DEF vars, sessionVars, stateVars
<1>6. QED
  BY <1>3, <1>4, <1>5, SessionMaps, CallerMaps, QuietUnchanged DEF Next

\* The cell implements CellOutcome: whatever the callers, the actor, the callbacks and the
\* runtime do in whatever order, callers are told one outcome, each at most once, and the
\* writes are published exactly when that outcome is completion.
THEOREM Refinement == Spec => OneOutcome
<1>1. Init => Abstract!Init
  <2> SUFFICES ASSUME Init PROVE Abstract!Init
    OBVIOUS
  <2>1. Outcome = "open" /\ stored = FALSE
    BY DEF Init, Outcome
  <2>2. \A c \in Calls : Tells(call[c]) = "none"
    BY TellsFacts DEF Init, Unanswered
  <2>3. Told = [c \in Calls |-> "none"]
    BY <2>2 DEF Told
  <2>4. QED
    BY <2>1, <2>3 DEF Abstract!Init
<1>2. QED
  BY <1>1, NextMaps, Invariance, PTL DEF Spec, OneOutcome, Abstract!Spec
=============================================================================
