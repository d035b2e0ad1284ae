-------------------------- MODULE CellOutput_proofs --------------------------
(***************************************************************************)
(* Proofs about CellActor, for any callers and any script: every variable  *)
(* keeps its type, a paused runtime is resumed by exactly one thing, and   *)
(* no output is lost, repeated or reordered.                               *)
(*                                                                         *)
(* CellActor_proofs needs nothing of the channels to the runtime thread;   *)
(* these proofs are about them.  The steps are sorted by what they do to   *)
(* the pause (PauseStep), to the script's effects (EffectStep) and to the  *)
(* output (OutputStep), and each kind of step is shown to keep what the    *)
(* theorems say.                                                           *)
(***************************************************************************)
EXTENDS CellActor_proofs, SequenceTheorems, FunctionTheorems, FiniteSetTheorems

RuntimeStates == {"none", "init", "script", "poll", "paused", "recv", "ended"}
Commands == {"wake", "observe", "terminate"}
Controls == {"continue", "resume", "terminate"}

\* The types that CoreType leaves out.
Toggles ==
    /\ cmdOpen \in BOOLEAN /\ frontierReady \in BOOLEAN /\ paused \in BOOLEAN
    /\ timer \in BOOLEAN /\ cbCancelled \in BOOLEAN /\ killed \in BOOLEAN
    /\ ~cmdOpen => cmds = << >>

Queues ==
    /\ rt \in RuntimeStates /\ events \in Seq(Events)
    /\ rtCmds \in Seq(Commands) /\ controls \in Seq(Controls)

\* What a script has caused is bounded by its effects, and what is on its way counts.
Budget ==
    /\ effects \in 0..MaxEffects /\ timeouts \in 0..effects /\ written \in 0..effects
    /\ notes \in Nat /\ tools \in Nat
    /\ notes + Count(events, {"Notify"}) <= effects
    /\ tools + Count(events, {"Tool"}) <= effects
    /\ Received <= written

Contents == buffer \in Seq(1..written) /\ final \in Seq(1..written) /\ handed \in Seq(1..written)

\* A cell in the phase Tombstone has left its loop for good.
Ended == phase = "Tombstone" => pc \in {"post", "close", "gone"} \/ Draining("close")

-----------------------------------------------------------------------------
(* Counting the messages of a queue.                                         *)

Places(q, S) == {i \in 1..Len(q) : q[i] \in S}

LEMMA CountIsNat ==
    ASSUME NEW T, NEW q \in Seq(T), NEW S
    PROVE  IsFiniteSet(Places(q, S)) /\ Count(q, S) \in Nat /\ Count(q, S) = Cardinality(Places(q, S))
<1>1. IsFiniteSet(1..Len(q))
  BY LenProperties, FS_Interval
<1>2. Places(q, S) \in SUBSET (1..Len(q))
  BY DEF Places
<1>3. IsFiniteSet(Places(q, S))
  BY <1>1, <1>2, FS_Subset
<1>4. Count(q, S) = Cardinality(Places(q, S))
  BY Zenon DEF Count, Places
<1>5. QED
  BY <1>3, <1>4, FS_CardinalityType

LEMMA CountEmpty == \A S : Count(<< >>, S) = 0
<1> TAKE S
<1>1. {i \in 1..Len(<< >>) : << >>[i] \in S} = {}
  OBVIOUS
<1>2. QED
  BY <1>1, FS_EmptySet DEF Count

LEMMA CountAppend ==
    ASSUME NEW T, NEW q \in Seq(T), NEW e \in T, NEW S
    PROVE  Count(Append(q, e), S) = Count(q, S) + (IF e \in S THEN 1 ELSE 0)
<1> DEFINE r == Append(q, e)
<1>1. /\ r \in Seq(T) /\ Len(r) = Len(q) + 1 /\ Len(q) \in Nat
      /\ r[Len(q) + 1] = e /\ \A i \in 1..Len(q) : r[i] = q[i]
  BY AppendProperties, LenProperties
<1> HIDE DEF r
<1>2. /\ Count(q, S) \in Nat /\ Count(q, S) = Cardinality(Places(q, S))
      /\ Count(r, S) = Cardinality(Places(r, S))
  BY <1>1, CountIsNat
<1>3. Len(q) + 1 \notin Places(q, S)
  BY <1>1 DEF Places
<1>4. CASE e \in S
  <2>1. Places(r, S) = Places(q, S) \cup {Len(q) + 1}
    BY <1>1, <1>4 DEF Places
  <2>2. Cardinality(Places(r, S)) = Cardinality(Places(q, S)) + 1
    BY <1>3, <2>1, CountIsNat, FS_AddElement
  <2>3. QED
    BY <1>2, <1>4, <2>2 DEF r
<1>5. CASE e \notin S
  <2>1. Places(r, S) = Places(q, S)
    BY <1>1, <1>5 DEF Places
  <2>2. QED
    BY <1>2, <1>5, <2>1 DEF r
<1>6. QED
  BY <1>4, <1>5

LEMMA CountTail ==
    ASSUME NEW T, NEW q \in Seq(T), q # << >>, NEW S
    PROVE  Count(q, S) = Count(Tail(q), S) + (IF Head(q) \in S THEN 1 ELSE 0)
<1> DEFINE r == Tail(q)
<1>1. /\ r \in Seq(T) /\ Len(r) = Len(q) - 1 /\ Len(q) \in Nat \ {0} /\ Head(q) = q[1]
      /\ \A i \in 1..Len(r) : r[i] = q[i + 1]
  BY HeadTailProperties, LenProperties, EmptySeq
<1> HIDE DEF r
<1> DEFINE Rest == Places(q, S) \ {1}
           shift == [i \in Places(r, S) |-> i + 1]
<1>2. shift \in Bijection(Places(r, S), Rest)
  <2>1. ASSUME NEW i \in Places(r, S)
        PROVE  i + 1 \in Rest
    BY <1>1, <2>1 DEF Places
  <2>2. \A i, j \in Places(r, S) : i + 1 = j + 1 => i = j
    BY <1>1 DEF Places
  <2>3. ASSUME NEW k \in Rest
        PROVE  \E i \in Places(r, S) : i + 1 = k
    <3>1. k - 1 \in Places(r, S) /\ (k - 1) + 1 = k
      BY <1>1, <2>3 DEF Places
    <3>2. QED
      BY <3>1
  <2> HIDE DEF Rest
  <2>4. shift \in [Places(r, S) -> Rest]
    BY <2>1
  <2>5. shift \in Injection(Places(r, S), Rest)
    BY <2>2, <2>4 DEF Injection, IsInjective
  <2>6. shift \in Surjection(Places(r, S), Rest)
    BY <2>3, <2>4 DEF Surjection
  <2>7. QED
    BY <2>5, <2>6 DEF Bijection
<1>3. Cardinality(Rest) = Cardinality(Places(r, S))
  BY <1>1, <1>2, CountIsNat, FS_Bijection, Fun_ExistsBij
<1>4. Cardinality(Rest) = IF 1 \in Places(q, S) THEN Cardinality(Places(q, S)) - 1
                          ELSE Cardinality(Places(q, S))
  BY CountIsNat, FS_RemoveElement
<1>5. 1 \in Places(q, S) <=> Head(q) \in S
  BY <1>1 DEF Places
<1>6. /\ Count(q, S) \in Nat /\ Count(q, S) = Cardinality(Places(q, S))
      /\ Count(r, S) \in Nat /\ Count(r, S) = Cardinality(Places(r, S))
  BY <1>1, CountIsNat
<1> HIDE DEF Rest
<1>7. QED
  BY <1>3, <1>4, <1>5, <1>6 DEF r

Types == Toggles /\ Queues

-----------------------------------------------------------------------------
(* What the steps do to the channels.                                        *)

LEMMA SentFacts ==
    ASSUME NEW T, NEW q \in Seq(T), NEW m \in T
    PROVE  /\ SendRuntime(q, m) \in Seq(T)
           /\ rt # "ended" => \A S : Count(SendRuntime(q, m), S) = Count(q, S) + (IF m \in S THEN 1 ELSE 0)
<1>1. Append(q, m) \in Seq(T)
  BY AppendProperties
<1>2. \A S : Count(Append(q, m), S) = Count(q, S) + (IF m \in S THEN 1 ELSE 0)
  BY CountAppend
<1>3. QED
  BY <1>1, <1>2 DEF SendRuntime

\* The actor takes the first of the runtime's events.
LEMMA TakenFacts ==
    ASSUME Queues, NEW e, Take(e)
    PROVE  /\ pc = "loop" /\ ~rtClosed /\ events' \in Seq(Events)
           /\ \A S : /\ Count(events', S) \in Nat
                     /\ Count(events, S) = Count(events', S) + (IF e \in S THEN 1 ELSE 0)
<1>1. /\ events \in Seq(Events) /\ events # << >> /\ Head(events) = e /\ events' = Tail(events)
      /\ pc = "loop" /\ ~rtClosed
  BY DEF Take, Queues
<1>2. events' \in Seq(Events)
  BY <1>1, HeadTailProperties
<1>3. ASSUME NEW S
      PROVE  /\ Count(events', S) \in Nat
             /\ Count(events, S) = Count(events', S) + (IF e \in S THEN 1 ELSE 0)
  BY <1>1, <1>2, CountTail, CountIsNat
<1>4. QED
  BY <1>1, <1>2, <1>3

\* The runtime thread sends at most one event, and drops its receivers when it ends.
LEMMA RuntimeStepFacts ==
    ASSUME Queues, NEW from, NEW to \in RuntimeStates, NEW e \in Events \cup {"None"},
           NEW q \in Seq(Commands), NEW k \in Seq(Controls), RuntimeStep(from, to, e, q, k)
    PROVE  /\ Queues' /\ rt = from /\ rt' = to
           /\ e = "None" => events' = events
           /\ e # "None" => events' = Append(events, e)
           /\ to # "ended" => controls' = k
<1>1. /\ rt = from /\ rt' = to
      /\ e = "None" => events' = events
      /\ e # "None" => events' = Append(events, e)
      /\ to # "ended" => controls' = k
      /\ to # "ended" => rtCmds' = q
      /\ to = "ended" => rtCmds' = << >> /\ controls' = << >>
  BY DEF RuntimeStep
<1>2. events' \in Seq(Events)
  <2>1. events \in Seq(Events)
    BY DEF Queues
  <2>2. CASE e = "None"
    BY <1>1, <2>1, <2>2
  <2>3. CASE e \in Events
    <3>1. e # "None"
      BY <2>3 DEF Events
    <3>2. Append(events, e) \in Seq(Events)
      BY <2>1, <2>3, AppendProperties
    <3>3. QED
      BY <1>1, <3>1, <3>2
  <2>4. QED
    BY <2>2, <2>3
<1>3. rtCmds' \in Seq(Commands) /\ controls' \in Seq(Controls)
  <2>1. << >> \in Seq(Commands) /\ << >> \in Seq(Controls)
    BY EmptySeq
  <2>2. QED
    BY <1>1, <2>1
<1>4. QED
  BY <1>1, <1>2, <1>3 DEF Queues

\* What a step of the runtime thread does: to its channels and its pause, and to the
\* script's effects.
Sends(S) == events' = events \/ \E e \in S : events' = Append(events, e)

PauseStep ==
    \/ /\ rt # "paused" /\ rt' = "paused"
       /\ events' = Append(events, "Pending") /\ controls' = controls
    \/ /\ rt # "paused" /\ rt' # "paused"
       /\ Sends(Events \ {"Pending"}) /\ (rt' = "ended" \/ controls' = controls)
    \/ /\ rt = "paused" /\ events' = events /\ controls # << >>
       /\ \/ rt' = "ended"
          \/ /\ Head(controls) \in {"continue", "resume"} /\ controls' = Tail(controls)
             /\ rt' # "paused"

EffectStep ==
    \/ /\ UNCHANGED <<effects, timeouts, written>>
       /\ Sends({"Started", "Pending", "Result", "Panicked"})
    \/ /\ effects < MaxEffects /\ effects' = effects + 1
       /\ written' = written + 1 /\ timeouts' = timeouts /\ events' = Append(events, "Content")
    \/ /\ effects < MaxEffects /\ effects' = effects + 1
       /\ written' = written /\ timeouts' = timeouts + 1 /\ events' = events
    \/ /\ effects < MaxEffects /\ effects' = effects + 1
       /\ written' = written /\ timeouts' = timeouts
       /\ \E e \in {"Yield", "Notify", "Tool"} : events' = Append(events, e)

LEMMA RuntimeFacts ==
    ASSUME Queues, Runtime
    PROVE  /\ Queues' /\ PauseStep /\ EffectStep /\ rt \notin {"none", "ended"}
           /\ UNCHANGED <<coreVars, cmdOpen, final, buffer, frontierReady, paused, timer,
                          cbCancelled, taskVars, killed, handed>>
<1>1. rtCmds \in Seq(Commands) /\ controls \in Seq(Controls)
  BY DEF Queues
<1>2. ASSUME NEW from, NEW to \in RuntimeStates, NEW e \in Events \cup {"None"}, RunTo(from, to, e)
      PROVE  /\ Queues' /\ rt = from /\ rt' = to
             /\ e = "None" => events' = events
             /\ e # "None" => events' = Append(events, e)
             /\ to # "ended" => controls' = controls
  BY <1>1, <1>2, RuntimeStepFacts DEF RunTo
<1>3. UNCHANGED <<coreVars, cmdOpen, final, buffer, frontierReady, paused, timer,
                  cbCancelled, taskVars, killed, handed>>
  <2>1. ASSUME NEW f, NEW t, NEW e, NEW q, NEW k, RuntimeStep(f, t, e, q, k)
        PROVE  UNCHANGED <<cmdOpen, final, buffer, frontierReady, paused, timer,
                           cbCancelled, taskVars, killed, handed>>
    BY <2>1 DEF RuntimeStep, stateVars, commandVars, actorVars
  <2>2. UNCHANGED <<cmdOpen, final, buffer, frontierReady, paused, timer,
                    cbCancelled, taskVars, killed, handed>>
    BY <2>1 DEF Runtime, RuntimeStarts, ScriptEffect, ScriptEnds, ScriptPanics, ScriptRests,
                NextCommand, TakeControl, ReceiveCommand, RunTo
  <2>3. QED
    BY <2>2, QuietUnchanged
<1> DEFINE Goal == Queues' /\ PauseStep /\ EffectStep /\ rt \notin {"none", "ended"}
<1> SUFFICES Goal
  BY <1>3
<1>4. CASE RuntimeStarts
  <2>1. CASE RunTo("init", "script", "Started")
    <3>1. Queues' /\ rt = "init" /\ rt' = "script" /\ events' = Append(events, "Started")
          /\ controls' = controls
      BY <1>2, <2>1 DEF RuntimeStates, Events
    <3>2. QED
      BY <1>4, <3>1 DEF RuntimeStarts, PauseStep, EffectStep, Sends, Events
  <2>2. CASE RunTo("init", "ended", "Result")
    <3>1. Queues' /\ rt = "init" /\ rt' = "ended" /\ events' = Append(events, "Result")
      BY <1>2, <2>2 DEF RuntimeStates, Events
    <3>2. QED
      BY <1>4, <3>1 DEF RuntimeStarts, PauseStep, EffectStep, Sends, Events
  <2>3. QED
    BY <1>4, <2>1, <2>2 DEF RuntimeStarts
<1>5. CASE ScriptEffect
  <2>1. ASSUME NEW e \in {"Content", "Yield", "Notify", "Tool"}, RunTo("script", "script", e)
        PROVE  /\ Queues' /\ rt = "script" /\ rt' = "script" /\ events' = Append(events, e)
               /\ controls' = controls
    BY <1>2, <2>1 DEF RuntimeStates, Events
  <2>2. ASSUME RunTo("script", "script", "None")
        PROVE  /\ Queues' /\ rt = "script" /\ rt' = "script" /\ events' = events
               /\ controls' = controls
    BY <1>2, <2>2 DEF RuntimeStates
  <2>3. Queues' /\ rt = "script" /\ rt' = "script" /\ controls' = controls
    BY <1>5, <2>1, <2>2 DEF ScriptEffect
  <2>4. EffectStep
    BY <1>5, <2>1, <2>2 DEF ScriptEffect, EffectStep
  <2>5. Sends(Events \ {"Pending"})
    BY <1>5, <2>1, <2>2 DEF ScriptEffect, Sends, Events
  <2>6. QED
    BY <2>3, <2>4, <2>5 DEF PauseStep
<1>6. CASE ScriptEnds \/ ScriptPanics
  <2>1. ASSUME NEW e \in {"Result", "Panicked"}, RunTo("script", "ended", e)
        PROVE  Queues' /\ rt = "script" /\ rt' = "ended" /\ events' = Append(events, e)
    BY <1>2, <2>1 DEF RuntimeStates, Events
  <2>2. /\ Queues' /\ rt = "script" /\ rt' = "ended" /\ UNCHANGED <<effects, timeouts, written>>
        /\ \E e \in {"Result", "Panicked"} : events' = Append(events, e)
    BY <1>6, <2>1 DEF ScriptEnds, ScriptPanics
  <2>3. QED
    BY <2>2 DEF PauseStep, EffectStep, Sends, Events
<1>7. CASE ScriptRests
  <2>1. /\ Queues' /\ rt = "script" /\ rt' = "poll" /\ events' = events /\ controls' = controls
        /\ UNCHANGED <<effects, timeouts, written>>
    BY <1>2, <1>7 DEF ScriptRests, RuntimeStates
  <2>2. QED
    BY <2>1 DEF PauseStep, EffectStep, Sends
<1>8. ASSUME NEW from \in {"poll", "recv"}, rtCmds # << >>,
             RuntimeStep(from, AfterCommand(Head(rtCmds)), "None", Tail(rtCmds), controls)
      PROVE  /\ Queues' /\ rt = from /\ rt' \in {"ended", "script", "poll"} /\ events' = events
             /\ rt' = "ended" \/ controls' = controls
  <2>1. Head(rtCmds) \in Commands /\ Tail(rtCmds) \in Seq(Commands)
    BY <1>1, <1>8, HeadTailProperties
  <2>2. AfterCommand(Head(rtCmds)) \in {"ended", "script", "poll"}
    BY <2>1 DEF AfterCommand, Commands
  <2>3. QED
    BY <1>1, <1>8, <2>1, <2>2, RuntimeStepFacts DEF RuntimeStates
<1>9. CASE NextCommand
  <2>1. CASE rtCmds # << >>
    <3>1. /\ Queues' /\ rt = "poll" /\ rt' \in {"ended", "script", "poll"} /\ events' = events
          /\ rt' = "ended" \/ controls' = controls
          /\ UNCHANGED <<effects, timeouts, written>>
      BY <1>8, <1>9, <2>1 DEF NextCommand
    <3>2. QED
      BY <3>1 DEF PauseStep, EffectStep, Sends
  <2>2. CASE rtCmds = << >>
    <3>1. RunTo("poll", "paused", "Pending") /\ UNCHANGED <<effects, timeouts, written>>
      BY <1>9, <2>2 DEF NextCommand
    <3>2. /\ Queues' /\ rt = "poll" /\ rt' = "paused" /\ events' = Append(events, "Pending")
          /\ controls' = controls
      BY <1>2, <3>1 DEF RuntimeStates, Events
    <3>3. QED
      BY <3>1, <3>2 DEF PauseStep, EffectStep, Sends
  <2>3. QED
    BY <2>1, <2>2
<1>10. CASE ReceiveCommand
  <2>1. /\ Queues' /\ rt = "recv" /\ rt' \in {"ended", "script", "poll"} /\ events' = events
        /\ rt' = "ended" \/ controls' = controls
        /\ UNCHANGED <<effects, timeouts, written>>
    BY <1>8, <1>10 DEF ReceiveCommand
  <2>2. QED
    BY <2>1 DEF PauseStep, EffectStep, Sends
<1>11. CASE TakeControl
  <2>1. /\ controls # << >> /\ UNCHANGED <<effects, timeouts, written>>
        /\ RuntimeStep("paused", AfterControl(Head(controls)), "None", rtCmds, Tail(controls))
    BY <1>11 DEF TakeControl
  <2>2. Head(controls) \in Controls /\ Tail(controls) \in Seq(Controls)
    BY <1>1, <2>1, HeadTailProperties
  <2>3. /\ AfterControl(Head(controls)) \in {"ended", "recv", "poll"}
        /\ AfterControl(Head(controls)) # "ended" => Head(controls) \in {"continue", "resume"}
    BY <2>2 DEF AfterControl, Controls
  <2>4. /\ Queues' /\ rt = "paused" /\ rt' = AfterControl(Head(controls)) /\ events' = events
        /\ rt' # "ended" => controls' = Tail(controls)
    BY <1>1, <2>1, <2>2, <2>3, RuntimeStepFacts DEF RuntimeStates
  <2>5. QED
    BY <2>1, <2>3, <2>4 DEF PauseStep, EffectStep, Sends
<1>12. QED
  BY <1>4, <1>5, <1>6, <1>7, <1>9, <1>10, <1>11 DEF Runtime

-----------------------------------------------------------------------------
(* The types of the toggles and the channels.                                *)

\* The channels, and what else the actor and the tasks keep of the runtime thread.
LEMMA ActorQueues ==
    ASSUME IInv, Queues, Actor
    PROVE  Queues' /\ UNCHANGED <<rt, effects, timeouts, written>>
<1>1. events \in Seq(Events) /\ rtCmds \in Seq(Commands) /\ controls \in Seq(Controls)
  BY DEF Queues
<1>2. ASSUME NEW m \in Commands PROVE SendRuntime(rtCmds, m) \in Seq(Commands)
  BY <1>1, SentFacts
<1>3. ASSUME NEW m \in Controls PROVE SendRuntime(controls, m) \in Seq(Controls)
  BY <1>1, SentFacts
<1>4. UNCHANGED <<rt, effects, timeouts, written>>
  BY DEF Actor, OnCancelled, OnObserve, OnTimer, OnStarted, OnPending, OnContent, OnYield,
         OnCallback, OnRuntimeEnd, CallbacksDrained, CommitCompletion, DeliverCompletion,
         FinishTermination, Post, Closed, scriptVars
<1>5. events' \in Seq(Events)
  <2>1. ASSUME NEW e, Take(e) PROVE events' \in Seq(Events)
    BY <2>1, TakenFacts
  <2>2. CASE \E e \in Events : Take(e)
    BY <2>1, <2>2
  <2>3. CASE events' = events
    BY <1>1, <2>3
  <2>4. (\E e \in Events : Take(e)) \/ events' = events
    BY DEF Actor, OnCancelled, OnObserve, OnTimer, OnStarted, OnPending, OnContent, OnYield,
           OnCallback, OnRuntimeEnd, CallbacksDrained, CommitCompletion, DeliverCompletion,
           FinishTermination, Post, Closed, channelVars, Events
  <2>5. QED
    BY <2>2, <2>3, <2>4
<1>6. rtCmds' \in Seq(Commands)
  <2>1. rtCmds' = rtCmds \/ \E m \in Commands : rtCmds' = SendRuntime(rtCmds, m)
    BY DEF Actor, OnCancelled, OnObserve, ServeObservation, OnTimer, OnStarted, OnPending, OnContent,
           OnYield, OnCallback, OnRuntimeEnd, CallbacksDrained, CommitCompletion,
           DeliverCompletion, FinishTermination, Post, Closed, BeginTermination, channelVars, Commands
  <2>2. QED
    BY <1>1, <1>2, <2>1
<1>7. controls' \in Seq(Controls)
  <2>1. controls' = controls \/ \E m \in Controls : controls' = SendRuntime(controls, m)
    BY DEF Actor, OnCancelled, OnObserve, ServeObservation, OnTimer, OnStarted, OnPending, OnContent,
           OnYield, OnCallback, OnRuntimeEnd, CallbacksDrained, CommitCompletion,
           DeliverCompletion, FinishTermination, Post, Closed, BeginTermination, channelVars, Controls
  <2>2. QED
    BY <1>1, <1>3, <2>1
<1>8. QED
  BY <1>4, <1>5, <1>6, <1>7 DEF Queues

LEMMA TaskFacts ==
    ASSUME Queues, Tasks
    PROVE  /\ Queues' /\ UNCHANGED <<rt, events, controls, effects, written>>
           /\ UNCHANGED <<coreVars, cmdOpen, final, buffer, frontierReady, paused, timer,
                          cbCancelled, killed, handed>>
<1>1. SendRuntime(rtCmds, "wake") \in Seq(Commands)
  BY SentFacts DEF Queues, Commands
<1>2. /\ UNCHANGED <<rt, events, controls, effects, written>>
      /\ UNCHANGED <<cmdOpen, final, buffer, frontierReady, paused, timer,
                     cbCancelled, killed, handed>>
      /\ rtCmds' = rtCmds \/ rtCmds' = SendRuntime(rtCmds, "wake")
  BY DEF Tasks, NotifyDone, ToolDone, TimeoutFires, stateVars, commandVars, actorVars, scriptVars,
         channelVars
<1>3. Queues'
  BY <1>1, <1>2 DEF Queues
<1>4. QED
  BY <1>2, <1>3, QuietUnchanged

\* The session and the callers touch neither the channels nor the script.
LEMMA OutsideFacts ==
    ASSUME Queues, Session \/ \E c \in Calls : Caller(c)
    PROVE  /\ Queues' /\ UNCHANGED <<events, controls, rtClosed, paused, effects, timeouts, written, taskVars>>
           /\ UNCHANGED <<frontierReady, timer, cbCancelled, killed, final, buffer, cmdOpen>>
           /\ rt' = rt \/ (rt' = "init" /\ exec = "checked")
<1>1. /\ UNCHANGED <<events, rtCmds, controls, rtClosed, paused, effects, timeouts, written, taskVars>>
      /\ UNCHANGED <<frontierReady, timer, cbCancelled, killed, final, buffer, cmdOpen>>
  BY DEF Session, Execute, StartCell, BeginShutdown, AwaitCells, Caller, LookUp, Observe, Terminate,
         DropCall, sessionVars, stateVars, commandVars, actorVars, scriptVars, channelVars
<1>2. rt' = rt \/ (rt' = "init" /\ exec = "checked")
  BY DEF Session, Execute, StartCell, BeginShutdown, AwaitCells, Caller, LookUp, Observe, Terminate,
         DropCall, scriptVars
<1>3. Queues'
  BY <1>1, <1>2 DEF Queues, RuntimeStates
<1>4. QED
  BY <1>1, <1>2, <1>3

LEMMA ActorToggles ==
    ASSUME IInv, Toggles, Actor
    PROVE  Toggles'
<1> USE DEF Toggles
<1>1. CASE OnCancelled
  BY <1>1 DEF OnCancelled, BeginTermination, FinishCallbacks
<1>2. CASE OnObserve
  <2>1. cmdOpen /\ UNCHANGED <<cmdOpen, cbCancelled, killed>>
    BY <1>2 DEF OnObserve, scriptVars
  <2>2. timer' \in BOOLEAN /\ frontierReady' \in BOOLEAN /\ paused' \in BOOLEAN
    <3>1. CASE ServeObservation(Head(cmds))
      BY <3>1 DEF ServeObservation
    <3>2. CASE UNCHANGED <<timer, frontierReady, paused>>
      BY <3>2
    <3>3. QED
      BY <1>2, <3>1, <3>2 DEF OnObserve
  <2>3. QED
    BY <2>1, <2>2
<1>3. CASE OnTimer
  BY <1>3 DEF OnTimer, commandVars, scriptVars
<1>4. CASE OnStarted
  BY <1>4 DEF OnStarted, ObserverIn, commandVars, scriptVars
<1>5. CASE OnPending
  BY <1>5 DEF OnPending, commandVars, scriptVars
<1>6. CASE OnContent \/ OnCallback \/ Closed
  BY <1>6 DEF OnContent, OnCallback, Closed, commandVars, actorVars, scriptVars
<1>7. CASE OnYield
  BY <1>7 DEF OnYield, commandVars, scriptVars
<1>8. CASE OnRuntimeEnd
  BY <1>8 DEF OnRuntimeEnd, FinishCallbacks, commandVars, scriptVars
<1>9. CASE CallbacksDrained
  BY <1>9 DEF CallbacksDrained, commandVars, scriptVars
<1>10. CASE CommitCompletion \/ DeliverCompletion
  BY <1>10 DEF CommitCompletion, DeliverCompletion, commandVars, actorVars, scriptVars
<1>11. CASE FinishTermination
  BY <1>11 DEF FinishTermination, commandVars, scriptVars
<1>12. CASE Post
  BY <1>12 DEF Post, BeginTermination, FinishCallbacks
<1>13. QED
  BY <1>1, <1>2, <1>3, <1>4, <1>5, <1>6, <1>7, <1>8, <1>9, <1>10, <1>11, <1>12 DEF Actor

LEMMA OutsideToggles ==
    ASSUME Queues, Toggles, Session \/ \E c \in Calls : Caller(c)
    PROVE  Toggles'
<1>1. UNCHANGED <<frontierReady, timer, cbCancelled, killed, paused, cmdOpen>>
  BY OutsideFacts
<1>2. cmds' = cmds \/ cmdOpen
  BY DEF Session, Execute, StartCell, BeginShutdown, AwaitCells, Caller, LookUp, Observe, Terminate,
         DropCall, commandVars
<1>3. QED
  BY <1>1, <1>2 DEF Toggles

LEMMA TypesKept == IInv /\ Types /\ [Next]_vars => Types'
<1> SUFFICES ASSUME IInv, Types, [Next]_vars PROVE Types'
  OBVIOUS
<1> USE DEF Types
<1>1. CASE Actor
  BY <1>1, ActorQueues, ActorToggles
<1>2. CASE Session \/ \E c \in Calls : Caller(c)
  BY <1>2, OutsideFacts, OutsideToggles
<1>3. CASE Tasks
  BY <1>3, TaskFacts DEF Toggles, coreVars
<1>4. CASE Runtime
  BY <1>4, RuntimeFacts DEF Toggles, coreVars
<1>5. CASE UNCHANGED vars
  BY <1>5 DEF vars, Toggles, Queues, commandVars, actorVars, scriptVars, channelVars
<1>6. QED
  BY <1>1, <1>2, <1>3, <1>4, <1>5 DEF Next

-----------------------------------------------------------------------------
(* The budget of effects.                                                    *)

LEMMA CountsAreNat ==
    ASSUME Queues
    PROVE  /\ \A S : Count(events, S) \in Nat /\ Count(controls, S) \in Nat
           /\ Received \in Nat
<1>1. \A S : Count(events, S) \in Nat /\ Count(controls, S) \in Nat
  BY CountIsNat DEF Queues
<1>2. QED
  BY <1>1 DEF Received

LEMMA RuntimeBudget ==
    ASSUME Queues, Budget, Runtime
    PROVE  Budget' /\ written' - Received' = written - Received /\ written <= written'
<1>1. EffectStep /\ Queues' /\ UNCHANGED taskVars
  BY RuntimeFacts
<1>2. events \in Seq(Events)
  BY DEF Queues
<1>3. ASSUME NEW e \in Events, events' = Append(events, e)
      PROVE  \A S : Count(events', S) = Count(events, S) + (IF e \in S THEN 1 ELSE 0)
  BY <1>2, <1>3, CountAppend
<1>4. /\ Count(events, {"Notify"}) \in Nat /\ Count(events, {"Tool"}) \in Nat
      /\ Count(events, {"Content"}) \in Nat
  BY CountsAreNat
<1>5. MaxEffects \in Nat
  BY CellActorAssumption
<1>6. CASE UNCHANGED <<effects, timeouts, written>> /\ Sends({"Started", "Pending", "Result", "Panicked"})
  <2>1. /\ Count(events', {"Notify"}) = Count(events, {"Notify"})
        /\ Count(events', {"Tool"}) = Count(events, {"Tool"})
        /\ Count(events', {"Content"}) = Count(events, {"Content"})
    <3>1. CASE events' = events
      BY <3>1
    <3>2. ASSUME NEW e \in {"Started", "Pending", "Result", "Panicked"}, events' = Append(events, e)
          PROVE  /\ Count(events', {"Notify"}) = Count(events, {"Notify"})
                 /\ Count(events', {"Tool"}) = Count(events, {"Tool"})
                 /\ Count(events', {"Content"}) = Count(events, {"Content"})
      <4>1. e \in Events /\ e \notin {"Notify"} /\ e \notin {"Tool"} /\ e \notin {"Content"}
        BY <3>2 DEF Events
      <4>2. QED
        BY <1>3, <1>4, <3>2, <4>1
    <3>3. QED
      BY <1>6, <3>1, <3>2 DEF Sends
  <2>2. QED
    BY <1>1, <1>4, <1>6, <2>1 DEF Budget, Received, taskVars
<1>7. CASE /\ effects < MaxEffects /\ effects' = effects + 1
           /\ written' = written + 1 /\ timeouts' = timeouts /\ events' = Append(events, "Content")
  <2>1. /\ Count(events', {"Notify"}) = Count(events, {"Notify"})
        /\ Count(events', {"Tool"}) = Count(events, {"Tool"})
        /\ Count(events', {"Content"}) = Count(events, {"Content"}) + 1
    BY <1>3, <1>4, <1>7 DEF Events
  <2>2. QED
    BY <1>1, <1>4, <1>5, <1>7, <2>1 DEF Budget, Received, taskVars
<1>8. CASE /\ effects < MaxEffects /\ effects' = effects + 1
           /\ written' = written /\ timeouts' = timeouts + 1 /\ events' = events
  BY <1>1, <1>4, <1>5, <1>8 DEF Budget, Received, taskVars
<1>9. ASSUME effects < MaxEffects, effects' = effects + 1, written' = written, timeouts' = timeouts,
             NEW e \in {"Yield", "Notify", "Tool"}, events' = Append(events, e)
      PROVE  Budget' /\ written' - Received' = written - Received /\ written <= written'
  <2>1. /\ Count(events', {"Notify"}) = Count(events, {"Notify"}) + (IF e \in {"Notify"} THEN 1 ELSE 0)
        /\ Count(events', {"Tool"}) = Count(events, {"Tool"}) + (IF e \in {"Tool"} THEN 1 ELSE 0)
        /\ Count(events', {"Content"}) = Count(events, {"Content"}) + (IF e \in {"Content"} THEN 1 ELSE 0)
    BY <1>3, <1>9 DEF Events
  <2>2. /\ Count(events', {"Notify"}) \in Nat /\ Count(events', {"Tool"}) \in Nat
        /\ Count(events', {"Notify"}) <= Count(events, {"Notify"}) + 1
        /\ Count(events', {"Tool"}) <= Count(events, {"Tool"}) + 1
        /\ Count(events', {"Content"}) = Count(events, {"Content"})
    BY <1>4, <1>9, <2>1
  <2>3. QED
    BY <1>1, <1>4, <1>5, <1>9, <2>2, SMTT(30) DEF Budget, Received, taskVars
<1>10. QED
  BY <1>1, <1>6, <1>7, <1>8, <1>9 DEF EffectStep

LEMMA ActorBudget ==
    ASSUME IInv, Types, Budget, Actor
    PROVE  Budget' /\ written' = written
<1>1. UNCHANGED <<effects, timeouts, written>>
  BY ActorQueues DEF Types
<1>2. /\ Count(events, {"Notify"}) \in Nat /\ Count(events, {"Tool"}) \in Nat
      /\ Count(events, {"Content"}) \in Nat
  BY CountsAreNat DEF Types
<1>3. ASSUME NEW e, Take(e)
      PROVE  /\ Count(events', {"Notify"}) \in Nat /\ Count(events', {"Tool"}) \in Nat
             /\ Count(events', {"Content"}) \in Nat
             /\ Count(events, {"Notify"}) = Count(events', {"Notify"}) + (IF e = "Notify" THEN 1 ELSE 0)
             /\ Count(events, {"Tool"}) = Count(events', {"Tool"}) + (IF e = "Tool" THEN 1 ELSE 0)
             /\ Count(events, {"Content"}) = Count(events', {"Content"}) + (IF e = "Content" THEN 1 ELSE 0)
  BY <1>3, TakenFacts DEF Types
<1>4. CASE OnCallback
  <2>1. CASE Take("Notify") /\ notes' = notes + 1 /\ UNCHANGED tools
    BY <1>1, <1>2, <1>3, <2>1 DEF Budget, Received
  <2>2. CASE Take("Tool") /\ tools' = tools + 1 /\ UNCHANGED notes
    BY <1>1, <1>2, <1>3, <2>2 DEF Budget, Received
  <2>3. CASE Take("Panicked") /\ UNCHANGED taskVars
    BY <1>1, <1>2, <1>3, <2>3 DEF Budget, Received, taskVars
  <2>4. QED
    BY <1>4, <2>1, <2>2, <2>3 DEF OnCallback
<1>5. CASE ~OnCallback
  <2>1. UNCHANGED taskVars
    BY <1>5 DEF Actor, OnCancelled, OnObserve, OnTimer, OnStarted, OnPending, OnContent, OnYield,
       OnRuntimeEnd, CallbacksDrained, CommitCompletion, DeliverCompletion,
       FinishTermination, Post, Closed
  <2>2. (\E e \in Events : Take(e)) \/ events' = events
    BY <1>5 DEF Actor, OnCancelled, OnObserve, OnTimer, OnStarted, OnPending, OnContent, OnYield,
       OnRuntimeEnd, CallbacksDrained, CommitCompletion, DeliverCompletion,
       FinishTermination, Post, Closed, channelVars, Events
  <2>3. CASE events' = events
    BY <1>1, <1>2, <2>1, <2>3 DEF Budget, Received, taskVars
  <2>4. ASSUME NEW e \in Events, Take(e) PROVE Budget'
    <3>1. /\ Count(events', {"Notify"}) \in Nat /\ Count(events', {"Tool"}) \in Nat
          /\ Count(events', {"Content"}) \in Nat
          /\ Count(events', {"Notify"}) <= Count(events, {"Notify"})
          /\ Count(events', {"Tool"}) <= Count(events, {"Tool"})
          /\ Count(events', {"Content"}) <= Count(events, {"Content"})
      BY <1>2, <1>3, <2>4
    <3>2. QED
      BY <1>1, <1>2, <2>1, <3>1 DEF Budget, Received, taskVars
  <2>5. QED
    BY <1>1, <2>2, <2>3, <2>4
<1>6. QED
  BY <1>4, <1>5

LEMMA TaskBudget ==
    ASSUME Queues, Budget, Tasks
    PROVE  Budget'
<1>1. UNCHANGED <<events, effects, written>>
  BY TaskFacts
<1>2. /\ notes' = notes \/ (notes > 0 /\ notes' = notes - 1)
      /\ tools' = tools \/ (tools > 0 /\ tools' = tools - 1)
      /\ timeouts' = timeouts \/ (timeouts > 0 /\ timeouts' = timeouts - 1)
  BY DEF Tasks, NotifyDone, ToolDone, TimeoutFires, taskVars, scriptVars
<1>3. /\ Count(events, {"Notify"}) \in Nat /\ Count(events, {"Tool"}) \in Nat
      /\ Count(events, {"Content"}) \in Nat
  BY CountsAreNat
<1>4. QED
  BY <1>1, <1>2, <1>3 DEF Budget, Received

LEMMA BudgetKept == IInv /\ Types /\ Budget /\ [Next]_vars => Budget'
<1> SUFFICES ASSUME IInv, Types, Budget, [Next]_vars PROVE Budget'
  OBVIOUS
<1> USE DEF Types
<1>1. CASE Actor
  BY <1>1, ActorBudget
<1>2. CASE Session \/ \E c \in Calls : Caller(c)
  BY <1>2, OutsideFacts DEF Budget, Received, taskVars
<1>3. CASE Tasks
  BY <1>3, TaskBudget
<1>4. CASE Runtime
  BY <1>4, RuntimeBudget
<1>5. CASE UNCHANGED vars
  BY <1>5 DEF vars, Budget, Received, taskVars, scriptVars, channelVars
<1>6. QED
  BY <1>1, <1>2, <1>3, <1>4, <1>5 DEF Next

-----------------------------------------------------------------------------
(* A paused runtime and what resumes it.                                     *)

Resumes == {"continue", "resume"}
Waiting == Count(events, {"Pending"}) + Count(controls, Resumes) + (IF paused THEN 1 ELSE 0)

LEMMA PauseMatchedMeans ==
    PauseMatched <=> (rt # "ended" /\ ~rtClosed => Waiting = (IF rt = "paused" THEN 1 ELSE 0))
BY DEF PauseMatched, Waiting, Resumes

LEMMA RuntimePause ==
    ASSUME IInv, Types, PauseMatched, Runtime
    PROVE  PauseMatched'
<1>1. /\ PauseStep /\ Queues' /\ rt \notin {"none", "ended"} /\ UNCHANGED paused
      /\ rtClosed' = rtClosed
  BY RuntimeFacts DEF Types, coreVars
<1>2. SUFFICES ASSUME rt' # "ended", ~rtClosed
               PROVE  Waiting' = (IF rt' = "paused" THEN 1 ELSE 0)
  BY <1>1 DEF PauseMatched, Waiting, Resumes
<1>3. Waiting = (IF rt = "paused" THEN 1 ELSE 0)
  BY <1>1, <1>2, PauseMatchedMeans
<1>4. /\ Count(events, {"Pending"}) \in Nat /\ Count(controls, Resumes) \in Nat
      /\ events \in Seq(Events) /\ controls \in Seq(Controls)
  BY CountsAreNat DEF Types, Queues
<1>5. ASSUME NEW e \in Events, events' = Append(events, e)
      PROVE  Count(events', {"Pending"}) = Count(events, {"Pending"}) + (IF e = "Pending" THEN 1 ELSE 0)
  <2>1. Count(events', {"Pending"}) = Count(events, {"Pending"}) + (IF e \in {"Pending"} THEN 1 ELSE 0)
    BY <1>4, <1>5, CountAppend
  <2>2. QED
    BY <2>1
<1>6. CASE /\ rt # "paused" /\ rt' = "paused"
           /\ events' = Append(events, "Pending") /\ controls' = controls
  BY <1>1, <1>3, <1>4, <1>5, <1>6 DEF Waiting, Events
<1>7. CASE /\ rt # "paused" /\ rt' # "paused"
           /\ Sends(Events \ {"Pending"}) /\ controls' = controls
  <2>1. Count(events', {"Pending"}) = Count(events, {"Pending"})
    BY <1>4, <1>5, <1>7 DEF Sends
  <2>2. QED
    BY <1>1, <1>3, <1>4, <1>7, <2>1 DEF Waiting
<1>8. CASE /\ rt = "paused" /\ events' = events /\ controls # << >>
           /\ Head(controls) \in Resumes /\ controls' = Tail(controls) /\ rt' # "paused"
  <2>1. Tail(controls) \in Seq(Controls)
    BY <1>4, <1>8, HeadTailProperties
  <2>2. Count(controls', Resumes) \in Nat /\ Count(controls, Resumes) = Count(controls', Resumes) + 1
    BY <1>4, <1>8, <2>1, CountTail, CountIsNat
  <2>3. QED
    BY <1>1, <1>3, <1>4, <1>8, <2>2 DEF Waiting
<1>9. QED
  BY <1>1, <1>2, <1>6, <1>7, <1>8 DEF PauseStep, Resumes

LEMMA ActorPause ==
    ASSUME IInv, Types, PauseMatched, Actor
    PROVE  PauseMatched'
<1>1. rt' = rt /\ Queues'
  BY ActorQueues DEF Types
<1>2. SUFFICES ASSUME rt # "ended", ~rtClosed'
               PROVE  Waiting' = (IF rt = "paused" THEN 1 ELSE 0)
  BY <1>1 DEF PauseMatched, Waiting, Resumes
<1>3. ~rtClosed
  BY <1>2 DEF Actor, OnCancelled, OnObserve, OnTimer, OnStarted, OnPending, OnContent, OnYield,
     OnCallback, OnRuntimeEnd, CallbacksDrained, CommitCompletion, DeliverCompletion,
     FinishTermination, Post, Closed, actorVars
<1>4. Waiting = (IF rt = "paused" THEN 1 ELSE 0)
  BY <1>2, <1>3, PauseMatchedMeans
<1>5. /\ Count(events, {"Pending"}) \in Nat /\ Count(controls, Resumes) \in Nat
      /\ controls \in Seq(Controls) /\ paused \in BOOLEAN
  BY CountsAreNat DEF Types, Queues, Toggles
<1>6. ASSUME NEW m \in Controls, controls' = SendRuntime(controls, m)
      PROVE  Count(controls', Resumes) = Count(controls, Resumes) + (IF m \in Resumes THEN 1 ELSE 0)
  BY <1>2, <1>5, <1>6, SentFacts
<1>7. ASSUME NEW e, Take(e)
      PROVE  /\ Count(events', {"Pending"}) \in Nat
             /\ Count(events, {"Pending"}) = Count(events', {"Pending"}) + (IF e = "Pending" THEN 1 ELSE 0)
  <2>1. /\ Count(events', {"Pending"}) \in Nat
        /\ Count(events, {"Pending"}) = Count(events', {"Pending"}) + (IF e \in {"Pending"} THEN 1 ELSE 0)
    BY <1>7, TakenFacts DEF Types
  <2>2. QED
    BY <2>1
<1>8. CASE OnCancelled \/ Post
  <2>1. UNCHANGED <<events, paused>> /\ controls' = SendRuntime(controls, "terminate")
    BY <1>8 DEF OnCancelled, Post, BeginTermination
  <2>2. Count(controls', Resumes) = Count(controls, Resumes)
    BY <1>5, <1>6, <2>1 DEF Controls, Resumes
  <2>3. QED
    BY <1>4, <2>1, <2>2 DEF Waiting
<1>9. CASE OnPending
  <2>1. Take("Pending")
    BY <1>9 DEF OnPending
  <2>2. /\ Count(events', {"Pending"}) \in Nat
        /\ Count(events, {"Pending"}) = Count(events', {"Pending"}) + 1
    BY <1>7, <2>1
  <2>3. Count(events', {"Pending"}) = 0 /\ Count(controls, Resumes) = 0 /\ ~paused /\ rt = "paused"
    BY <1>4, <1>5, <2>2 DEF Waiting
  <2>4. CASE paused' = TRUE /\ controls' = controls
    BY <2>3, <2>4 DEF Waiting
  <2>5. CASE paused' = FALSE /\ controls' = SendRuntime(controls, "continue")
    <3>1. Count(controls', Resumes) = Count(controls, Resumes) + 1
      BY <1>5, <1>6, <2>5 DEF Controls, Resumes
    <3>2. QED
      BY <2>3, <2>5, <3>1 DEF Waiting
  <2>6. QED
    BY <1>9, <2>4, <2>5 DEF OnPending
<1>10. CASE OnObserve
  <2>1. events' = events
    BY <1>10 DEF OnObserve
  <2>2. CASE UNCHANGED <<paused, controls>>
    BY <1>4, <2>1, <2>2 DEF Waiting
  <2>3. ASSUME paused' = FALSE, paused, NEW m \in Resumes, controls' = SendRuntime(controls, m)
        PROVE  Waiting' = Waiting
    <3>1. Count(controls', Resumes) = Count(controls, Resumes) + 1
      BY <1>5, <1>6, <2>3 DEF Controls, Resumes
    <3>2. QED
      BY <1>5, <2>1, <2>3, <3>1 DEF Waiting
  <2>4. CASE paused' = FALSE /\ ~paused /\ controls' = controls
    BY <1>4, <1>5, <2>1, <2>4 DEF Waiting
  <2>5. ASSUME NEW c, ServeObservation(c)
        PROVE  \/ UNCHANGED <<paused, controls>>
               \/ paused' = FALSE /\ paused /\ \E m \in Resumes : controls' = SendRuntime(controls, m)
               \/ paused' = FALSE /\ ~paused /\ controls' = controls
    BY <2>5 DEF ServeObservation, Resumes
  <2>6. UNCHANGED <<paused, controls>> \/ ServeObservation(Head(cmds))
    BY <1>10 DEF OnObserve
  <2>7. QED
    BY <1>4, <2>2, <2>3, <2>4, <2>5, <2>6
<1>11. CASE OnStarted \/ OnContent \/ OnYield \/ OnCallback
  <2>1. /\ UNCHANGED <<paused, controls>>
        /\ \E e \in Events \ {"Pending"} : Take(e)
    BY <1>11 DEF OnStarted, OnContent, OnYield, OnCallback, actorVars, Events
  <2>2. Count(events', {"Pending"}) = Count(events, {"Pending"})
    BY <1>5, <1>7, <2>1
  <2>3. QED
    BY <1>4, <2>1, <2>2 DEF Waiting
<1>12. CASE OnTimer \/ CallbacksDrained \/ CommitCompletion \/ DeliverCompletion \/ FinishTermination
            \/ Closed
  <2>1. UNCHANGED <<events, paused, controls>>
    BY <1>12 DEF OnTimer, CallbacksDrained, CommitCompletion, DeliverCompletion, FinishTermination,
       Closed, actorVars, channelVars
  <2>2. QED
    BY <1>4, <2>1 DEF Waiting
<1>13. CASE OnRuntimeEnd
  BY <1>2, <1>13 DEF OnRuntimeEnd
<1>14. QED
  BY <1>8, <1>9, <1>10, <1>11, <1>12, <1>13 DEF Actor

\* The runtime thread exists only once the cell has been started.
ThreadStarted == pc = "none" => rt = "none"

LEMMA ThreadStartedKept == IInv /\ Types /\ ThreadStarted /\ [Next]_vars => ThreadStarted'
<1> SUFFICES ASSUME IInv, Types, ThreadStarted, [Next]_vars PROVE ThreadStarted'
  OBVIOUS
<1> USE DEF Types
<1>1. CASE Actor
  <2>1. pc' # "none"
    BY <1>1 DEF Actor, OnCancelled, OnObserve, OnTimer, OnStarted, OnPending, OnContent, OnYield,
       OnCallback, OnRuntimeEnd, CallbacksDrained, CommitCompletion, DeliverCompletion,
       FinishTermination, Post, Closed, Take, FinishCallbacks, IInv, CoreType
  <2>2. QED
    BY <2>1 DEF ThreadStarted
<1>2. CASE Session \/ \E c \in Calls : Caller(c)
  BY <1>2 DEF Session, Execute, StartCell, BeginShutdown, AwaitCells, Caller, LookUp, Observe,
     Terminate, DropCall, scriptVars, ThreadStarted
<1>3. CASE Tasks
  BY <1>3, TaskFacts DEF ThreadStarted, coreVars
<1>4. CASE Runtime
  BY <1>4, RuntimeFacts DEF ThreadStarted, coreVars
<1>5. CASE UNCHANGED vars
  BY <1>5 DEF vars, ThreadStarted, scriptVars
<1>6. QED
  BY <1>1, <1>2, <1>3, <1>4, <1>5 DEF Next

LEMMA PauseKept == IInv /\ Types /\ ThreadStarted /\ PauseMatched /\ [Next]_vars => PauseMatched'
<1> SUFFICES ASSUME IInv, Types, ThreadStarted, PauseMatched, [Next]_vars PROVE PauseMatched'
  OBVIOUS
<1> USE DEF Types
<1>1. CASE Actor
  BY <1>1, ActorPause
<1>2. CASE Session \/ \E c \in Calls : Caller(c)
  <2>1. UNCHANGED <<events, controls, rtClosed, paused>> /\ (rt' = rt \/ (rt' = "init" /\ rt = "none"))
    BY <1>2, OutsideFacts DEF ThreadStarted, IInv, SessionAgrees
  <2>2. QED
    BY <2>1 DEF PauseMatched
<1>3. CASE Tasks
  BY <1>3, TaskFacts DEF PauseMatched, coreVars
<1>4. CASE Runtime
  BY <1>4, RuntimePause
<1>5. CASE UNCHANGED vars
  BY <1>5 DEF vars, PauseMatched, actorVars, scriptVars, channelVars
<1>6. QED
  BY <1>1, <1>2, <1>3, <1>4, <1>5 DEF Next

-----------------------------------------------------------------------------
(* The output: every step is one of six kinds.                               *)

\* How many items have reached the actor.
Flow == written - Received

\* Nothing moves.
Steady ==
    /\ UNCHANGED <<handed, buffer, final>> /\ Flow' = Flow /\ written <= written'
    /\ phase' # "Tombstone" => phase # "Tombstone" /\ (phase = "Completed" <=> phase' = "Completed")

\* An item arrives at the actor.
Arrives ==
    /\ UNCHANGED <<handed, final, phase, written>> /\ phase # "Tombstone"
    /\ buffer' = Append(buffer, Flow + 1) /\ Flow' = Flow + 1 /\ Flow + 1 \in 1..written

\* An observer takes the buffer.
Hands ==
    /\ UNCHANGED <<final, phase, written>> /\ phase \notin {"Completed", "Tombstone"} /\ Flow' = Flow
    /\ handed' = handed \o buffer /\ buffer' = << >>

\* The commit moves the buffer into the completed phase.
Commits ==
    /\ UNCHANGED <<handed, written>> /\ Flow' = Flow
    /\ phase = "Running" /\ phase' = "Completed" /\ final' = buffer /\ buffer' = << >>

\* A terminate claims the completed cell's output.
Claims ==
    /\ UNCHANGED <<buffer, final, written>> /\ Flow' = Flow
    /\ phase = "Completed" /\ phase' = "CompletionClaimed" /\ handed' = handed \o final

\* The cell ends, and hands what it still has or drops it.
Ends ==
    /\ phase' = "Tombstone" /\ phase # "Tombstone" /\ UNCHANGED <<final, written>>
    /\ buffer' = buffer \/ buffer' = << >>
    /\ \/ handed' = handed
       \/ handed' = handed \o Owed
       \/ phase # "Completed" /\ handed' = handed \o buffer

OutputStep == Steady \/ Arrives \/ Hands \/ Commits \/ Claims \/ Ends

LEMMA FlowIsNat ==
    ASSUME Types, Budget
    PROVE  Flow \in Nat /\ written \in Nat /\ Received \in Nat
BY CountsAreNat DEF Types, Budget, Flow

LEMMA HandFacts ==
    ASSUME NEW c, NEW a, NEW took, HandBuffer(c, a, took)
    PROVE  \/ UNCHANGED <<handed, buffer>>
           \/ c # NoCall /\ handed' = handed \o buffer /\ buffer' = << >>
BY DEF HandBuffer, Alive

LEMMA ActorOutput ==
    ASSUME IInv, Types, Budget, Ended, Actor
    PROVE  OutputStep
<1>1. written' = written /\ written \in Nat /\ Flow \in Nat /\ Received \in Nat /\ written <= written'
  <2>1. written' = written
    BY ActorQueues DEF Types
  <2>2. QED
    BY <2>1, FlowIsNat
<1>2. ASSUME NEW e, Take(e)
      PROVE  /\ Count(events', {"Content"}) \in Nat
             /\ Received = Count(events', {"Content"}) + (IF e = "Content" THEN 1 ELSE 0)
  <2>1. /\ Count(events', {"Content"}) \in Nat
        /\ Count(events, {"Content"}) = Count(events', {"Content"}) + (IF e \in {"Content"} THEN 1 ELSE 0)
    BY <1>2, TakenFacts DEF Types
  <2>2. QED
    BY <2>1 DEF Received
<1>3. ASSUME events' = events \/ \E e \in Events \ {"Content"} : Take(e)
      PROVE  Flow' = Flow
  <2>1. Received' = Received
    BY <1>2, <1>3 DEF Received
  <2>2. QED
    BY <1>1, <2>1 DEF Flow
<1>4. pc = "loop" => phase # "Tombstone"
  BY DEF Ended, Draining
<1>5. pc = "loop" /\ observer # NoCall => phase # "Completed"
  BY DEF IInv, ObserverServed, PhaseAgrees
<1>6. CASE OnTimer \/ OnPending \/ OnYield
  <2>1. pc = "loop" /\ UNCHANGED <<final, phase>>
    BY <1>6 DEF OnTimer, OnPending, OnYield, Take, stateVars
  <2>2. \/ UNCHANGED <<handed, buffer>>
        \/ observer # NoCall /\ handed' = handed \o buffer /\ buffer' = << >>
    BY <1>6, HandFacts DEF OnTimer, OnPending, OnYield
  <2>3. events' = events \/ \E e \in Events \ {"Content"} : Take(e)
    BY <1>6 DEF OnTimer, OnPending, OnYield, channelVars, Events
  <2>4. QED
    BY <1>1, <1>3, <1>4, <1>5, <2>1, <2>2, <2>3 DEF OutputStep, Steady, Hands
<1>7. CASE OnObserve
  <2>1. pc = "loop" /\ UNCHANGED <<final, events>>
    BY <1>7 DEF OnObserve
  <2>2. Flow' = Flow
    BY <1>3, <2>1
  <2>3. CASE phase = "Running" /\ ServeObservation(Head(cmds)) /\ UNCHANGED phase
    <3>1. \/ UNCHANGED <<handed, buffer>>
          \/ handed' = handed \o buffer /\ buffer' = << >>
      BY <2>3, HandFacts DEF ServeObservation
    <3>2. QED
      BY <1>1, <2>1, <2>2, <2>3, <3>1 DEF OutputStep, Steady, Hands
  <2>4. CASE phase = "Completed" /\ phase' = "Tombstone" /\ handed' = handed \o final /\ UNCHANGED buffer
    BY <1>1, <2>1, <2>4 DEF OutputStep, Ends, Owed
  <2>5. CASE UNCHANGED <<phase, buffer, handed>>
    BY <1>1, <1>4, <2>1, <2>2, <2>5 DEF OutputStep, Steady
  <2>6. QED
    BY <1>7, <2>3, <2>4, <2>5 DEF OnObserve
<1>8. CASE OnContent
  <2>1. Take("Content") /\ buffer' = Append(buffer, NextItem) /\ UNCHANGED <<phase, final, handed>>
    BY <1>8 DEF OnContent, stateVars
  <2>2. pc = "loop"
    BY <2>1 DEF Take
  <2>3. Received' \in Nat /\ Received = Received' + 1
    BY <1>2, <2>1 DEF Received
  <2>4. Flow' = Flow + 1 /\ NextItem = Flow + 1 /\ Flow + 1 \in 1..written
    <3>1. Received <= written
      BY DEF Budget
    <3>2. Flow' = written - Received' /\ Flow = written - Received /\ NextItem = (written - Received) + 1
      BY <1>1 DEF Flow, NextItem
    <3>3. ASSUME NEW w \in Nat, NEW r \in Nat, NEW q \in Nat, q = r + 1, q <= w
          PROVE  w - r = (w - q) + 1 /\ (w - q) + 1 \in 1..w
      BY <3>3
    <3>4. written - Received' = (written - Received) + 1 /\ (written - Received) + 1 \in 1..written
      BY <1>1, <2>3, <3>1, <3>3
    <3>5. QED
      BY <3>2, <3>4
  <2>5. QED
    BY <1>1, <1>4, <2>1, <2>2, <2>4 DEF OutputStep, Arrives
<1>9. CASE OnCancelled \/ OnStarted \/ OnCallback \/ OnRuntimeEnd \/ CallbacksDrained \/ Closed
  <2>1. UNCHANGED <<handed, buffer, final, phase>>
    BY <1>9 DEF OnCancelled, OnStarted, OnCallback, OnRuntimeEnd, CallbacksDrained, Closed, stateVars
  <2>2. events' = events \/ \E e \in Events \ {"Content"} : Take(e)
    BY <1>9 DEF OnCancelled, OnStarted, OnCallback, OnRuntimeEnd, CallbacksDrained, Closed,
       channelVars, Events
  <2>3. QED
    BY <1>1, <1>3, <2>1, <2>2 DEF OutputStep, Steady
<1>10. CASE CommitCompletion
  <2>1. Flow' = Flow /\ handed' = handed
    BY <1>3, <1>10 DEF CommitCompletion, channelVars
  <2>2. QED
    BY <1>1, <1>10, <2>1 DEF CommitCompletion, OutputStep, Steady, Commits
<1>11. CASE DeliverCompletion
  <2>1. Flow' = Flow /\ UNCHANGED <<buffer, final>>
    BY <1>3, <1>11 DEF DeliverCompletion, channelVars
  <2>2. CASE phase = "Completed" /\ phase' = "Tombstone" /\ handed' = handed \o final
    BY <1>1, <2>1, <2>2 DEF OutputStep, Ends, Owed
  <2>3. CASE UNCHANGED <<phase, handed>>
    BY <1>1, <2>1, <2>3 DEF OutputStep, Steady
  <2>4. QED
    BY <1>11, <2>2, <2>3 DEF DeliverCompletion
<1>12. CASE FinishTermination
  <2>1. /\ phase # "Tombstone" /\ phase' = "Tombstone" /\ final' = final /\ buffer' = << >>
    BY <1>12 DEF FinishTermination, Ended, Draining
  <2>2. CASE phase = "Completed"
    <3>1. handed' = handed \o final \/ handed' = handed
      BY <1>12, <2>2 DEF FinishTermination
    <3>2. QED
      BY <1>1, <2>1, <2>2, <3>1 DEF OutputStep, Ends, Owed
  <2>3. CASE phase = "CompletionClaimed"
    <3>1. handed' = handed \o << >> \/ handed' = handed
      BY <1>12, <2>3 DEF FinishTermination
    <3>2. QED
      BY <1>1, <2>1, <2>3, <3>1 DEF OutputStep, Ends, Owed
  <2>4. CASE phase \in {"Running", "Terminating"}
    <3>1. handed' = handed \o buffer \/ handed' = handed
      BY <1>12, <2>4 DEF FinishTermination
    <3>2. QED
      BY <1>1, <2>1, <2>4, <3>1 DEF OutputStep, Ends
  <2>5. QED
    BY <2>1, <2>2, <2>3, <2>4 DEF IInv, CoreType, Phases
<1>13. CASE Post
  <2>1. Flow' = Flow
    BY <1>3, <1>13 DEF Post
  <2>2. QED
    BY <1>1, <1>13, <2>1 DEF Post, OutputStep, Steady
<1>14. QED
  BY <1>6, <1>7, <1>8, <1>9, <1>10, <1>11, <1>12, <1>13 DEF Actor

LEMMA OutsideOutput ==
    ASSUME IInv, Types, Budget, Session \/ \E c \in Calls : Caller(c)
    PROVE  OutputStep
<1>1. UNCHANGED <<final, buffer, events, written>> /\ written \in Nat
  BY OutsideFacts, FlowIsNat DEF Types
<1>2. Flow' = Flow
  BY <1>1 DEF Flow, Received
<1>3. \/ UNCHANGED <<phase, handed>>
      \/ phase = "Running" /\ phase' = "Terminating" /\ UNCHANGED handed
      \/ phase = "Completed" /\ phase' = "CompletionClaimed" /\ handed' = handed \o final
  BY DEF Session, Execute, StartCell, BeginShutdown, AwaitCells, Caller, LookUp, Observe, Terminate,
         DropCall, stateVars
<1>4. QED
  BY <1>1, <1>2, <1>3 DEF OutputStep, Steady, Claims

LEMMA NextOutput == IInv /\ Types /\ Budget /\ Ended /\ [Next]_vars => OutputStep
<1> SUFFICES ASSUME IInv, Types, Budget, Ended, [Next]_vars PROVE OutputStep
  OBVIOUS
<1> USE DEF Types
<1>1. CASE Runtime
  BY <1>1, RuntimeBudget, RuntimeFacts DEF OutputStep, Steady, Flow, coreVars
<1>2. CASE Tasks
  BY <1>2, TaskFacts, FlowIsNat DEF OutputStep, Steady, Flow, Received, coreVars
<1>3. CASE UNCHANGED vars
  BY <1>3, FlowIsNat DEF vars, OutputStep, Steady, Flow, Received, stateVars, scriptVars, channelVars
<1>4. QED
  BY <1>1, <1>2, <1>3, ActorOutput, OutsideOutput DEF Next

LEMMA EndedKept == IInv /\ Ended /\ [Next]_vars => Ended'
<1> SUFFICES ASSUME IInv, Ended, [Next]_vars PROVE Ended'
  OBVIOUS
<1>1. CASE Actor
  BY <1>1 DEF Actor, OnCancelled, OnObserve, OnTimer, OnStarted, OnPending, OnContent, OnYield,
     OnCallback, OnRuntimeEnd, CallbacksDrained, CommitCompletion, DeliverCompletion,
     FinishTermination, Post, Closed, Take, FinishCallbacks, stateVars, Ended, Draining, IInv, CoreType
<1>2. CASE Session \/ \E c \in Calls : Caller(c)
  BY <1>2 DEF Session, Execute, StartCell, BeginShutdown, AwaitCells, Caller, LookUp, Observe,
     Terminate, DropCall, stateVars, Ended, Draining, IInv, SessionAgrees
<1>3. CASE Tasks \/ Runtime
  BY <1>3, QuietUnchanged DEF Ended, Draining, coreVars
<1>4. CASE UNCHANGED vars
  BY <1>4 DEF vars, Ended, Draining, stateVars
<1>5. QED
  BY <1>1, <1>2, <1>3, <1>4 DEF Next

-----------------------------------------------------------------------------
(* Sequences that number their elements.                                     *)

Numbered(s) == \A i \in 1..Len(s) : s[i] = i

LEMMA NumberedMeans ==
    ASSUME NEW s \in Seq(Nat), NEW n \in Nat
    PROVE  s = [i \in 1..n |-> i] <=> Len(s) = n /\ Numbered(s)
<1>1. Len(s) \in Nat /\ DOMAIN s = 1..Len(s) /\ s \in [1..Len(s) -> Nat]
  BY LenProperties
<1>2. ASSUME s = [i \in 1..n |-> i] PROVE Len(s) = n /\ Numbered(s)
  <2>1. DOMAIN s = 1..n /\ \A i \in 1..n : s[i] = i
    BY <1>2, Zenon
  <2>2. 1..n = 1..Len(s)
    BY <1>1, <2>1, ZenonT(40)
  <2>3. Len(s) = n
    <3>0. ASSUME NEW a \in Nat, NEW b \in Nat, a < b PROVE b \in 1..b /\ b \notin 1..a
      BY <3>0
    <3>1. ASSUME NEW a \in Nat, NEW b \in Nat, 1..a = 1..b, a < b PROVE FALSE
      BY <3>0, <3>1, ZenonT(40)
    <3>2. ~(n < Len(s)) /\ ~(Len(s) < n)
      BY <1>1, <2>2, <3>1
    <3>3. ASSUME NEW a \in Nat, NEW b \in Nat, ~(a < b), ~(b < a) PROVE a = b
      BY <3>3
    <3>4. QED
      BY <1>1, <3>2, <3>3
  <2>4. QED
    BY <2>1, <2>3 DEF Numbered
<1>3. ASSUME Len(s) = n, Numbered(s) PROVE s = [i \in 1..n |-> i]
  BY <1>1, <1>3 DEF Numbered
<1>4. QED
  BY <1>2, <1>3

LEMMA NumberedPrefix ==
    ASSUME NEW s \in Seq(Nat), NEW t \in Seq(Nat), Numbered(s \o t)
    PROVE  Numbered(s)
<1>1. /\ Len(s) \in Nat /\ Len(t) \in Nat /\ Len(s \o t) = Len(s) + Len(t)
      /\ \A i \in 1..Len(s) + Len(t) : (s \o t)[i] = IF i <= Len(s) THEN s[i] ELSE t[i - Len(s)]
  BY ConcatProperties, LenProperties
<1>2. ASSUME NEW i \in 1..Len(s) PROVE s[i] = i
  <2>1. i \in 1..Len(s \o t) /\ i <= Len(s)
    BY <1>1, <1>2
  <2>2. QED
    BY <1>1, <2>1 DEF Numbered
<1>3. QED
  BY <1>2 DEF Numbered

LEMMA NumberedAppend ==
    ASSUME NEW s \in Seq(Nat), NEW t \in Seq(Nat), Numbered(s \o t)
    PROVE  /\ Numbered(s \o Append(t, Len(s \o t) + 1))
           /\ Len(s \o Append(t, Len(s \o t) + 1)) = Len(s \o t) + 1
<1> DEFINE n == Len(s \o t)
           u == Append(t, n + 1)
<1>1. /\ Len(s) \in Nat /\ Len(t) \in Nat /\ n = Len(s) + Len(t)
      /\ \A i \in 1..Len(s) + Len(t) : (s \o t)[i] = IF i <= Len(s) THEN s[i] ELSE t[i - Len(s)]
  BY ConcatProperties, LenProperties
<1>2. \A i \in 1..n : (s \o t)[i] = i
  BY DEF Numbered
<1> HIDE DEF n
<1>3. /\ u \in Seq(Nat) /\ Len(u) = Len(t) + 1 /\ u[Len(t) + 1] = n + 1
      /\ \A i \in 1..Len(t) : u[i] = t[i]
  BY <1>1, AppendProperties
<1> HIDE DEF u
<1>4. /\ Len(s \o u) = n + 1
      /\ \A i \in 1..n + 1 : (s \o u)[i] = IF i <= Len(s) THEN s[i] ELSE u[i - Len(s)]
  <2>1. /\ Len(s \o u) = Len(s) + Len(u)
        /\ \A i \in 1..Len(s) + Len(u) : (s \o u)[i] = IF i <= Len(s) THEN s[i] ELSE u[i - Len(s)]
    BY <1>3, ConcatProperties
  <2>2. Len(s) + Len(u) = n + 1
    BY <1>1, <1>3
  <2>3. QED
    BY <2>1, <2>2
<1>5. ASSUME NEW i \in 1..n + 1 PROVE (s \o u)[i] = i
  <2>1. CASE i <= Len(s)
    BY <1>1, <1>2, <1>4, <1>5, <2>1
  <2>2. CASE i > Len(s) /\ i <= n
    <3>1. i - Len(s) \in 1..Len(t) /\ (s \o t)[i] = t[i - Len(s)]
      BY <1>1, <1>5, <2>2
    <3>2. (s \o u)[i] = u[i - Len(s)]
      <4>1. ~(i <= Len(s))
        BY <1>1, <1>5, <2>2
      <4>2. QED
        BY <1>4, <1>5, <4>1
    <3>3. u[i - Len(s)] = t[i - Len(s)]
      BY <1>3, <3>1
    <3>4. i \in 1..n
      BY <1>1, <1>5, <2>2
    <3>5. QED
      BY <1>2, <3>1, <3>2, <3>3, <3>4
  <2>3. CASE i = n + 1
    <3>1. i - Len(s) = Len(t) + 1 /\ ~(i <= Len(s))
      BY <1>1, <2>3
    <3>2. QED
      BY <1>3, <1>4, <1>5, <2>3, <3>1
  <2>4. i <= Len(s) \/ (i > Len(s) /\ i <= n) \/ i = n + 1
    <3>1. n \in Nat /\ i \in Nat /\ i <= n + 1
      BY <1>1, <1>5
    <3>2. ASSUME NEW a \in Nat, NEW b \in Nat, NEW j \in Nat, j <= b + 1
          PROVE  j <= a \/ (j > a /\ j <= b) \/ j = b + 1
      BY <3>2
    <3>3. Len(s) \in Nat
      BY <1>1
    <3>4. QED
      BY <3>1, <3>2, <3>3
  <2>5. QED
    BY <2>1, <2>2, <2>3, <2>4
<1>6. QED
  BY <1>4, <1>5 DEF Numbered, n, u

-----------------------------------------------------------------------------
(* The six kinds of steps keep the output.                                   *)

Seen == (handed \o Owed) \o buffer

\* What the output variables are sequences of, and what OutputKept says of them.
NatContents ==
    /\ handed \in Seq(Nat) /\ Owed \in Seq(Nat) /\ buffer \in Seq(Nat) /\ final \in Seq(Nat)
    /\ handed \o Owed \in Seq(Nat) /\ Seen \in Seq(Nat) /\ Flow \in Nat /\ written \in Nat

AllNumbered ==
    /\ Numbered(handed)
    /\ phase # "Tombstone" => Len(Seen) = Flow /\ Numbered(Seen)

LEMMA ContentsAreNat == Types /\ Budget /\ Contents => NatContents
<1> SUFFICES ASSUME Types, Budget, Contents PROVE NatContents
  OBVIOUS
<1>1. Flow \in Nat /\ written \in Nat
  BY FlowIsNat
<1>2. 1..written \subseteq Nat
  BY <1>1
<1>3. handed \in Seq(Nat) /\ buffer \in Seq(Nat) /\ final \in Seq(Nat)
  BY <1>2, SeqMonotonic DEF Contents
<1>4. Owed \in Seq(Nat)
  BY <1>3, EmptySeq DEF Owed
<1>5. handed \o Owed \in Seq(Nat)
  BY <1>3, <1>4, ConcatProperties
<1>6. Seen \in Seq(Nat)
  BY <1>3, <1>5, ConcatProperties DEF Seen
<1>7. QED
  BY <1>1, <1>3, <1>4, <1>5, <1>6 DEF NatContents

LEMMA OutputKeptMeans == NatContents => (OutputKept <=> AllNumbered)
<1> SUFFICES ASSUME NatContents PROVE OutputKept <=> AllNumbered
  OBVIOUS
<1>1. Seen \in Seq(Nat) /\ DOMAIN handed = 1..Len(handed) /\ Flow \in Nat
  BY LenProperties DEF NatContents
<1>2. Seen = [i \in 1..Flow |-> i] <=> Len(Seen) = Flow /\ Numbered(Seen)
  BY <1>1, NumberedMeans
<1>3. OutputKept <=> /\ Numbered(handed)
                     /\ phase # "Tombstone" => Seen = [i \in 1..Flow |-> i]
  BY <1>1 DEF OutputKept, Numbered, Seen, Flow
<1>4. QED
  BY <1>2, <1>3 DEF AllNumbered

LEMMA InTheNextState ==
    /\ Types' /\ Budget' /\ Contents' => NatContents'
    /\ NatContents' => (OutputKept' <=> AllNumbered')
BY ContentsAreNat, OutputKeptMeans, PTL

LEMMA ContentsStep ==
    ASSUME Contents, written \in Nat, written' \in Nat, OutputStep
    PROVE  Contents'
<1>1. /\ buffer \in Seq(1..written) /\ final \in Seq(1..written) /\ handed \in Seq(1..written)
      /\ << >> \in Seq(1..written) /\ Owed \in Seq(1..written)
  BY EmptySeq DEF Contents, Owed
<1>2. handed \o buffer \in Seq(1..written) /\ handed \o final \in Seq(1..written)
      /\ handed \o Owed \in Seq(1..written)
  BY <1>1, ConcatProperties
<1>3. CASE Steady
  <2>1. 1..written \subseteq 1..written'
    BY <1>3 DEF Steady
  <2>2. QED
    BY <1>1, <1>3, <2>1, SeqMonotonic DEF Steady, Contents
<1>4. CASE Arrives
  <2>1. Append(buffer, Flow + 1) \in Seq(1..written)
    BY <1>1, <1>4, AppendProperties DEF Arrives
  <2>2. QED
    BY <1>1, <1>4, <2>1 DEF Arrives, Contents
<1>5. CASE Hands \/ Commits \/ Claims \/ Ends
  <2>1. /\ written' = written /\ buffer' \in Seq(1..written) /\ final' \in Seq(1..written)
        /\ handed' \in Seq(1..written)
    BY <1>1, <1>2, <1>5 DEF Hands, Commits, Claims, Ends
  <2>2. QED
    BY <2>1 DEF Contents
<1>6. QED
  BY <1>3, <1>4, <1>5 DEF OutputStep

LEMMA OutputStepKeeps ==
    ASSUME NatContents, NatContents', AllNumbered, OutputStep
    PROVE  AllNumbered'
<1> DEFINE before == handed \o Owed
<1>1. /\ handed \in Seq(Nat) /\ Owed \in Seq(Nat) /\ buffer \in Seq(Nat) /\ final \in Seq(Nat)
      /\ before \in Seq(Nat) /\ Seen \in Seq(Nat) /\ Flow \in Nat
      /\ handed' \in Seq(Nat) /\ Owed' \in Seq(Nat) /\ buffer' \in Seq(Nat)
      /\ Seen = before \o buffer
  BY DEF NatContents, Seen
<1>2. /\ Numbered(handed)
      /\ phase # "Tombstone" => Len(Seen) = Flow /\ Numbered(Seen)
  BY DEF AllNumbered
<1>3. \A s \in Seq(Nat) : s \o << >> = s
  BY ConcatEmptySeq
<1>4. phase # "Tombstone" => Numbered(before)
  BY <1>1, <1>2, NumberedPrefix
<1>5. CASE Steady
  <2>1. phase' # "Tombstone" => Owed' = Owed
    BY <1>5 DEF Steady, Owed
  <2>2. phase' # "Tombstone" => Seen' = Seen
    BY <1>5, <2>1 DEF Steady, Seen
  <2>3. QED
    BY <1>2, <1>5, <2>2 DEF Steady, AllNumbered
<1>6. CASE Arrives
  <2>1. Owed' = Owed /\ handed' = handed /\ phase' = phase /\ phase # "Tombstone"
    BY <1>6 DEF Arrives, Owed
  <2>2. Seen' = before \o Append(buffer, Len(before \o buffer) + 1)
    BY <1>1, <1>2, <1>6, <2>1 DEF Arrives, Seen
  <2>3. Numbered(before \o buffer)
    BY <1>1, <1>2, <2>1
  <2> HIDE DEF before
  <2>4. /\ Numbered(before \o Append(buffer, Len(before \o buffer) + 1))
        /\ Len(before \o Append(buffer, Len(before \o buffer) + 1)) = Len(before \o buffer) + 1
    BY <1>1, <2>3, NumberedAppend
  <2>5. Numbered(Seen') /\ Len(Seen') = Flow'
    BY <1>1, <1>2, <1>6, <2>1, <2>2, <2>4 DEF Arrives
  <2>6. QED
    BY <1>2, <2>1, <2>5 DEF AllNumbered
<1>7. CASE Hands
  <2>1. Owed = << >> /\ Owed' = << >> /\ phase # "Tombstone" /\ Flow' = Flow
    BY <1>7 DEF Hands, Owed
  <2>2. Seen = handed \o buffer
    BY <1>1, <1>3, <2>1
  <2>3. handed' = Seen
    BY <1>7, <2>2 DEF Hands
  <2>4. Seen' = Seen
    BY <1>1, <1>3, <1>7, <2>1, <2>3 DEF Seen, Hands
  <2>5. QED
    BY <1>2, <2>1, <2>3, <2>4 DEF AllNumbered
<1>8. CASE Commits
  <2>1. Owed = << >> /\ Owed' = buffer /\ phase # "Tombstone" /\ Flow' = Flow /\ handed' = handed
    BY <1>8 DEF Commits, Owed
  <2>2. Seen = handed \o buffer
    BY <1>1, <1>3, <2>1
  <2>3. Seen' = Seen \o << >>
    BY <1>8, <2>1, <2>2 DEF Seen, Commits
  <2>4. QED
    BY <1>1, <1>2, <1>3, <2>1, <2>3 DEF AllNumbered
<1>9. CASE Claims
  <2>1. Owed = final /\ Owed' = << >> /\ phase # "Tombstone" /\ Flow' = Flow /\ buffer' = buffer
    BY <1>9 DEF Claims, Owed
  <2>2. handed' = before
    BY <1>9, <2>1 DEF Claims
  <2>3. Seen' = Seen
    BY <1>1, <1>3, <2>1, <2>2 DEF Seen
  <2>4. QED
    BY <1>2, <1>4, <2>1, <2>2, <2>3 DEF AllNumbered
<1>10. CASE Ends
  <2>1. phase # "Tombstone" /\ phase' = "Tombstone"
    BY <1>10 DEF Ends
  <2>2. CASE handed' = handed
    BY <1>2, <2>1, <2>2 DEF AllNumbered
  <2>3. CASE handed' = before
    BY <1>4, <2>1, <2>3 DEF AllNumbered
  <2>4. CASE phase # "Completed" /\ handed' = handed \o buffer
    <3>1. Owed = << >>
      BY <2>4 DEF Owed
    <3>2. handed' = Seen
      BY <1>1, <1>3, <2>4, <3>1
    <3>3. QED
      BY <1>2, <2>1, <3>2 DEF AllNumbered
  <2>5. QED
    BY <1>10, <2>2, <2>3, <2>4 DEF Ends
<1>11. QED
  BY <1>5, <1>6, <1>7, <1>8, <1>9, <1>10 DEF OutputStep

-----------------------------------------------------------------------------
(* The theorems.                                                             *)

OInv ==
    /\ IInv /\ Types /\ Budget /\ ThreadStarted /\ Ended /\ Contents
    /\ PauseMatched /\ OutputKept

LEMMA InitOutput == Init => OInv
<1> SUFFICES ASSUME Init PROVE OInv
  OBVIOUS
<1>1. IInv
  BY InitInvariant
<1>2. Types
  <2>1. << >> \in Seq(Events) /\ << >> \in Seq(Commands) /\ << >> \in Seq(Controls)
    BY EmptySeq
  <2>2. Queues
    BY <2>1 DEF Init, Queues, RuntimeStates
  <2>3. Toggles
    BY DEF Init, Toggles
  <2>4. QED
    BY <2>2, <2>3 DEF Types
<1>3. Received = 0 /\ \A S : Count(events, S) = 0 /\ Count(controls, S) = 0
  BY CountEmpty DEF Init, Received
<1>4. Budget
  BY <1>3, CellActorAssumption DEF Init, Budget
<1>5. ThreadStarted /\ Ended
  BY DEF Init, ThreadStarted, Ended
<1>6. Contents
  BY EmptySeq DEF Init, Contents
<1>7. PauseMatched
  BY <1>3 DEF Init, PauseMatched
<1>8. OutputKept
  <2>1. NatContents
    BY <1>2, <1>4, <1>6, ContentsAreNat
  <2>2. Owed = << >> /\ handed = << >> /\ buffer = << >> /\ Flow = 0
    BY <1>3 DEF Init, Owed, Flow
  <2>3. << >> \o << >> = << >> /\ Len(<< >>) = 0
    OBVIOUS
  <2>4. Seen = << >>
    BY <2>2, <2>3 DEF Seen
  <2>5. AllNumbered
    BY <2>2, <2>3, <2>4 DEF AllNumbered, Numbered
  <2>6. QED
    BY <2>1, <2>5, OutputKeptMeans
<1>9. QED
  BY <1>1, <1>2, <1>4, <1>5, <1>6, <1>7, <1>8 DEF OInv

LEMMA NextOutputKept == OInv /\ [Next]_vars => OInv'
<1> SUFFICES ASSUME OInv, [Next]_vars PROVE OInv'
  OBVIOUS
<1>1. IInv /\ Types /\ Budget /\ ThreadStarted /\ Ended /\ Contents /\ PauseMatched /\ OutputKept
  BY DEF OInv
<1>2. IInv' /\ Types' /\ Budget' /\ ThreadStarted' /\ Ended' /\ PauseMatched'
  BY <1>1, NextKeeps, TypesKept, BudgetKept, ThreadStartedKept, EndedKept, PauseKept
<1>3. OutputStep
  BY <1>1, NextOutput
<1>4. written \in Nat /\ written' \in Nat
  BY <1>1, <1>2 DEF Budget
<1>5. Contents'
  BY <1>1, <1>3, <1>4, ContentsStep
<1>6. NatContents /\ NatContents'
  BY <1>1, <1>2, <1>5, ContentsAreNat, InTheNextState
<1>7. AllNumbered
  BY <1>1, <1>6, OutputKeptMeans
<1>8. AllNumbered'
  BY <1>3, <1>6, <1>7, OutputStepKeeps
<1>9. OutputKept'
  BY <1>6, <1>8, InTheNextState
<1>10. QED
  BY <1>2, <1>5, <1>9 DEF OInv

LEMMA OutputInvariance == Spec => []OInv
BY InitOutput, NextOutputKept, PTL DEF Spec

\* Every variable keeps its type; the callback tasks that run and the events on their way
\* are bounded by the effects of the script, and the items held are items it wrote.
THEOREM TypeCorrect == Spec => []TypeOK
<1>1. OInv => TypeOK
  <2> SUFFICES ASSUME OInv PROVE TypeOK
    OBVIOUS
  <2>1. CoreType /\ Toggles /\ Queues /\ Budget /\ Contents
    BY DEF OInv, IInv, Types
  <2>2. /\ exec \in {"idle", "checked", "started", "refused"}
        /\ shutdown \in {"idle", "begun", "waiting", "returned"}
        /\ phase \in {"Running", "Terminating", "Completed", "CompletionClaimed", "Tombstone"}
        /\ claim \in Terminates \cup {NoCall} /\ observer \in Observers \cup {NoCall}
        /\ call \in [Calls -> {"idle", "handle", "queued", "held", "dropped"} \cup Answers]
        /\ cmds \in Seq(Observers) /\ (~cmdOpen => cmds = << >>)
        /\ pc \in {"none", "loop", "notes", "tools", "commit", "deliver", "end", "post", "close", "gone"}
        /\ after \in {"commit", "end", "close"}
    BY <2>1 DEF CoreType, Phases, Unanswered, Toggles
  <2>3. {stored, cancelled, cmdOpen, frontierReady, termination, rtClosed, paused, timer,
         cbCancelled, killed} \subseteq BOOLEAN
    BY <2>1 DEF CoreType, Toggles
  <2>4. /\ rt \in {"none", "init", "script", "poll", "paused", "recv", "ended"}
        /\ events \in Seq(Events)
        /\ rtCmds \in Seq({"wake", "observe", "terminate"})
        /\ controls \in Seq({"continue", "resume", "terminate"})
    BY <2>1, Zenon DEF Queues, RuntimeStates, Commands, Controls
  <2>5. /\ effects \in 0..MaxEffects /\ timeouts \in 0..effects /\ written \in 0..effects
        /\ notes \in 0..effects /\ tools \in 0..effects
    <3>1. Count(events, {"Notify"}) \in Nat /\ Count(events, {"Tool"}) \in Nat
      BY <2>1, CountsAreNat
    <3>2. QED
      BY <2>1, <3>1, CellActorAssumption DEF Budget
  <2>6. {buffer, final, handed} \subseteq Seq(1..written)
    BY <2>1 DEF Contents
  <2>7. QED
    BY <2>2, <2>3, <2>4, <2>5, <2>6 DEF TypeOK
<1>2. QED
  BY <1>1, OutputInvariance, PTL

\* A runtime that has paused is waited for by exactly one thing, however observations,
\* cancellations and the runtime's own events interleave: it is never forgotten, and no
\* stale message lets it run past its next pause (resume_for_observation, run_cell's
\* branch for Pending).
THEOREM PausesMatched == Spec => []PauseMatched
BY OutputInvariance, PTL DEF OInv

\* The callers are handed the script's output in order, each item once; until the cell has
\* ended, nothing of it is lost, whichever callers go away, terminate or observe
\* (send_observer_event, CellState::commit_completion, finish_termination).
THEOREM OutputIsKept == Spec => []OutputKept
BY OutputInvariance, PTL DEF OInv
=============================================================================
