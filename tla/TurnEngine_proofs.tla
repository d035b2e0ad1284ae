-------------------------- MODULE TurnEngine_proofs --------------------------
(* Proofs about TurnEngine, for every choice of its constants. *)
EXTENDS TurnEngine, TLAPS

\* An actor inside abort_all_tasks or on_task_finished holds the turn state
\* (and an abort the task) it took from the slot.
FramesOK ==
    \A a \in Actors :
        /\ pc[a] \in {"grace", "clear", "collect", "announce", "release"} => stateOf[a] \in TurnStates
        /\ pc[a] = "grace" => victim[a] \in Tasks

Inv == TypeOK /\ FramesOK

\* The types and the frames hold when the session starts.
LEMMA TypeInit == Init => Inv
<1> SUFFICES ASSUME Init PROVE Inv
  OBVIOUS
<1>1. TypeOK
  <2>1. pc \in [Actors -> Labels]
    BY DEF Init, Labels
  <2>2. kind \in [Actors -> Kinds]
    BY DEF Init, Kinds
  <2>3. QED
    BY <2>1, <2>2, TurnEngineAssumption, Zenon DEF Init, TypeOK
<1>2. FramesOK
  BY TurnEngineAssumption DEF Init, FramesOK, Actors
<1>3. QED
  BY <1>1, <1>2 DEF Inv

\* Every critical section preserves them.
LEMMA TypeNext == Inv /\ [Next]_vars => Inv'
<1> SUFFICES ASSUME Inv, [Next]_vars PROVE Inv'
  OBVIOUS
<1> USE TurnEngineAssumption DEF Inv, TypeOK, FramesOK, Items, Actors, Controllers, Kinds,
           Labels, InRun, queueVars, slotVars, frameVars, ghostVars
<1>1. ASSUME NEW u \in UserInputs, Steer(u) PROVE Inv'
  BY <1>1 DEF Steer, LoopReady, Running
<1>2. ASSUME NEW u \in UserInputs, SteerRefused(u) PROVE Inv'
  BY <1>2 DEF SteerRefused, LoopReady, Running
<1>3. ASSUME NEW u \in UserInputs, UserTurn(u) PROVE Inv'
  BY <1>3 DEF UserTurn, LoopReady, Running, Goto
<1>4. ASSUME NEW k \in {"compact", "shell"}, SpawnOther(k) PROVE Inv'
  BY <1>4 DEF SpawnOther, LoopReady, Command, Running, Goto
<1>5. ASSUME NEW op \in {"interrupt", "shutdown"}, Interrupt(op) PROVE Inv'
  BY <1>5 DEF Interrupt, LoopReady, Command, Goto
<1>6. CASE ForceStop
  BY <1>6 DEF ForceStop, Command, Goto
<1>7. ASSUME NEW m \in TriggerMail \cup QueueMail, Mail(m) PROVE Inv'
  BY <1>7 DEF Mail, LoopReady, Goto
<1>8. ASSUME NEW t \in Tasks, Answer(t) PROVE Inv'
  BY <1>8 DEF Answer, LoopReady, Goto
<1>9. ASSUME NEW a \in Controllers, AbortNothing(a) PROVE Inv'
  BY <1>9 DEF AbortNothing, AfterAbort, Goto
<1>10. ASSUME NEW a \in Controllers, AbortTake(a) PROVE Inv'
  BY <1>10 DEF AbortTake, Goto
<1>11. ASSUME NEW a \in Controllers, AbortKill(a) PROVE Inv'
  BY <1>11 DEF AbortKill, Goto
<1>12. ASSUME NEW a \in Controllers, AbortClear(a) PROVE Inv'
  BY <1>12 DEF AbortClear, Goto
<1>13. ASSUME NEW a \in Actors, Wake(a) PROVE Inv'
  BY <1>13 DEF Wake, Back, Goto
<1>14. ASSUME NEW a \in Actors, WakeReserve(a) PROVE Inv'
  BY <1>14 DEF WakeReserve, Reserve, Back, Goto
<1>15. ASSUME NEW a \in Actors, StartPull(a) PROVE Inv'
  BY <1>15 DEF StartPull, TakePending, Goto
<1>16. ASSUME NEW a \in Actors, StartDrain(a) PROVE Inv'
  BY <1>16 DEF StartDrain, DrainMailbox, Goto
<1>17. ASSUME NEW a \in Actors, StartAttach(a) PROVE Inv'
  BY <1>17 DEF StartAttach, GetOrInsert, Reserve, Goto
<1>18. ASSUME NEW a \in Actors, StartInstall(a) PROVE Inv'
  BY <1>18 DEF StartInstall, GetOrInsert, Reserve, Back
<1>19. ASSUME NEW g \in GoalItems, TryStartIfIdle(g) PROVE Inv'
  BY <1>19 DEF TryStartIfIdle, Goto
<1>20. CASE IdleReserve
  BY <1>20 DEF IdleReserve, Reserve, Refuse, Goto
<1>21. ASSUME NEW here, NEW next \in {"idleTest2", "idleConfirm"}, IdleTest(here, next) PROVE Inv'
  BY <1>21 DEF IdleTest, StillReserved, Refuse, Goto
<1>22. CASE IdleConfirm
  BY <1>22 DEF IdleConfirm, StillReserved, Refuse, Goto
<1>23. ASSUME NEW i \in Injected, Inject(i) PROVE Inv'
  BY <1>23 DEF Inject, Record
<1>24. ASSUME NEW t \in Tasks, RunTurn(t) PROVE Inv'
  BY <1>24 DEF RunTurn, Record, Goto
<1>25. ASSUME NEW t \in Tasks, RunTurnFails(t) PROVE Inv'
  BY <1>25 DEF RunTurnFails, Goto
<1>26. ASSUME NEW t \in Tasks, RunOther(t) PROVE Inv'
  BY <1>26 DEF RunOther, Goto
<1>27. ASSUME NEW t \in Tasks, TakeInput(t) PROVE Inv'
  BY <1>27 DEF TakeInput, TakePending, Goto
<1>28. ASSUME NEW t \in Tasks, TakeMail(t) PROVE Inv'
  BY <1>28 DEF TakeMail, DrainMailbox, Goto
<1>29. ASSUME NEW t \in Tasks, RecordInput(t) PROVE Inv'
  BY <1>29 DEF RecordInput, Record, Goto
<1>30. ASSUME NEW t \in Tasks, Message(t) PROVE Inv'
  BY <1>30 DEF Message, Sampling
<1>31. ASSUME NEW t \in Tasks, ToolCall(t) PROVE Inv'
  BY <1>31 DEF ToolCall, Sampling, AcceptMail, Goto
<1>32. ASSUME NEW t \in Tasks, Ask(t) PROVE Inv'
  BY <1>32 DEF Ask, Goto
<1>34. ASSUME NEW t \in Tasks, SampleEnd(t) PROVE Inv'
  BY <1>34 DEF SampleEnd, Goto
<1>35. ASSUME NEW t \in Tasks, SampleMoreEnd(t) PROVE Inv'
  BY <1>35 DEF SampleMoreEnd, AcceptMail, Goto
<1>36. ASSUME NEW t \in Tasks, SampleError(t) PROVE Inv'
  BY <1>36 DEF SampleError, Sampling, Goto
<1>37. ASSUME NEW t \in Tasks, Settle(t) PROVE Inv'
  BY <1>37 DEF Settle, HasPendingInTurn, Goto
<1>38. ASSUME NEW t \in Tasks, SettleMail(t) PROVE Inv'
  BY <1>38 DEF SettleMail, Goto
<1>39. ASSUME NEW t \in Tasks, Recheck(t) PROVE Inv'
  BY <1>39 DEF Recheck, HasPendingInTurn, Goto
<1>40. ASSUME NEW t \in Tasks, RecheckMail(t) PROVE Inv'
  BY <1>40 DEF RecheckMail, Goto
<1>41. ASSUME NEW t \in Tasks, ObserveCancel(t) PROVE Inv'
  BY <1>41 DEF ObserveCancel, Record, Goto
<1>42. ASSUME NEW t \in Tasks, Finish(t) PROVE Inv'
  BY <1>42 DEF Finish, Goto
<1>43. ASSUME NEW t \in Tasks, Detach(t) PROVE Inv'
  BY <1>43 DEF Detach, Goto
<1>44. ASSUME NEW t \in Tasks, Collect(t) PROVE Inv'
  BY <1>44 DEF Collect, Record, Goto
<1>45. ASSUME NEW t \in Tasks, Announce(t) PROVE Inv'
  BY <1>45 DEF Announce, Goto
<1>46. ASSUME NEW t \in Tasks, Release(t) PROVE Inv'
  BY <1>46 DEF Release, Goto
<1>47. CASE UNCHANGED vars
  BY <1>47 DEF vars
<1> HIDE TurnEngineAssumption DEF Inv, TypeOK, FramesOK, Items, Actors, Controllers, Kinds,
         Labels, InRun, queueVars, slotVars, frameVars, ghostVars
<1>48. QED
  BY <1>1, <1>2, <1>3, <1>4, <1>5, <1>6, <1>7, <1>8, <1>9, <1>10, <1>11, <1>12,
     <1>13, <1>14, <1>15, <1>16, <1>17, <1>18, <1>19, <1>20, <1>21, <1>22, <1>23, <1>24,
     <1>25, <1>26, <1>27, <1>28, <1>29, <1>30, <1>31, <1>32, <1>34, <1>35, <1>36,
     <1>37, <1>38, <1>39, <1>40, <1>41, <1>42, <1>43, <1>44, <1>45, <1>46, <1>47
  DEF Next, Submit, Call, Idle, Abort, Start, Run, Model, End

\* The slot, the queues and every actor's frame keep their types in every
\* behaviour of the session.
THEOREM TypeCorrect == Spec => []TypeOK
<1>1. Inv => TypeOK
  BY DEF Inv
<1>2. QED
  BY <1>1, TypeInit, TypeNext, PTL DEF Spec

-----------------------------------------------------------------------------
(* No item is in two places.                                               *)

itemVars == <<fresh, mailbox, pending, buf, carry, history>>

\* Steps that move no item preserve the invariant.
LEMMA ApartStutter == Inv /\ ItemsApart /\ UNCHANGED itemVars => ItemsApart'
BY DEF Inv, TypeOK, ItemsApart, InTurn, InBuf, InCarry, itemVars

\* Every critical section moves items from one place to one other.
LEMMA ApartNext == Inv /\ ItemsApart /\ RecordedOnce /\ [Next]_vars => (ItemsApart /\ RecordedOnce)'
<1> DEFINE Goal == (ItemsApart /\ RecordedOnce)'
<1> SUFFICES ASSUME Inv, ItemsApart, RecordedOnce, [Next]_vars PROVE Goal
  OBVIOUS
<1>0. ASSUME UNCHANGED itemVars PROVE Goal
  BY <1>0, ApartStutter DEF RecordedOnce, itemVars
<1> USE TurnEngineAssumption DEF queueVars, slotVars, frameVars, ghostVars
<1>1. ASSUME NEW u \in UserInputs, Steer(u) PROVE Goal
  BY <1>1 DEF Steer, Running, Inv, TypeOK, FramesOK, ItemsApart, InTurn, InBuf, InCarry, RecordedOnce,
     Items, Actors, Controllers
<1>2. ASSUME NEW u \in UserInputs, SteerRefused(u) PROVE Goal
  BY <1>2 DEF SteerRefused, Running, Inv, TypeOK, FramesOK, ItemsApart, InTurn, InBuf, InCarry, RecordedOnce,
     Items, Actors, Controllers
<1>3. ASSUME NEW u \in UserInputs, UserTurn(u) PROVE Goal
  BY <1>3 DEF UserTurn, Running, Inv, TypeOK, FramesOK, ItemsApart, InTurn, InBuf, InCarry, RecordedOnce,
     Items, Actors, Controllers
<1>4. ASSUME NEW k \in {"compact", "shell"}, SpawnOther(k) PROVE Goal
  BY <1>0, <1>4 DEF SpawnOther, itemVars
<1>5. ASSUME NEW op \in {"interrupt", "shutdown"}, Interrupt(op) PROVE Goal
  BY <1>0, <1>5 DEF Interrupt, itemVars
<1>6. CASE ForceStop
  BY <1>0, <1>6 DEF ForceStop, itemVars
<1>7. ASSUME NEW m \in TriggerMail \cup QueueMail, Mail(m) PROVE Goal
  BY <1>7 DEF Mail, Inv, TypeOK, FramesOK, ItemsApart, InTurn, InBuf, InCarry, RecordedOnce,
     Items, Actors, Controllers
<1>8. ASSUME NEW t \in Tasks, Answer(t) PROVE Goal
  BY <1>0, <1>8 DEF Answer, itemVars
<1>9. ASSUME NEW a \in Controllers, AbortNothing(a) PROVE Goal
  BY <1>0, <1>9 DEF AbortNothing, itemVars
<1>10. ASSUME NEW a \in Controllers, AbortTake(a) PROVE Goal
  BY <1>0, <1>10 DEF AbortTake, itemVars
<1>11. ASSUME NEW a \in Controllers, AbortKill(a) PROVE Goal
  BY <1>0, <1>11 DEF AbortKill, itemVars
<1>12. ASSUME NEW a \in Controllers, AbortClear(a) PROVE Goal
  BY <1>12 DEF AbortClear, Inv, TypeOK, FramesOK, ItemsApart, InTurn, InBuf, InCarry, RecordedOnce,
     Items, Actors, Controllers
<1>13. ASSUME NEW a \in Actors, Wake(a) PROVE Goal
  BY <1>0, <1>13 DEF Wake, itemVars
<1>14. ASSUME NEW a \in Actors, WakeReserve(a) PROVE Goal
  BY <1>0, <1>14 DEF WakeReserve, itemVars
<1>15. ASSUME NEW a \in Actors, StartPull(a) PROVE Goal
  BY <1>15 DEF StartPull, TakePending, Inv, TypeOK, FramesOK, ItemsApart, InTurn, InBuf, InCarry, RecordedOnce,
     Items, Actors, Controllers
<1>16. ASSUME NEW a \in Actors, StartDrain(a) PROVE Goal
  BY <1>16 DEF StartDrain, DrainMailbox, Inv, TypeOK, FramesOK, ItemsApart, InTurn, InBuf, InCarry, RecordedOnce,
     Items, Actors, Controllers
<1>17. ASSUME NEW a \in Actors, StartAttach(a) PROVE Goal
  BY <1>17 DEF StartAttach, GetOrInsert, Reserve, Inv, TypeOK, FramesOK, ItemsApart, InTurn, InBuf, InCarry, RecordedOnce,
     Items, Actors, Controllers
<1>18. ASSUME NEW a \in Actors, StartInstall(a) PROVE Goal
  BY <1>18 DEF StartInstall, GetOrInsert, Reserve, Inv, TypeOK, FramesOK, ItemsApart, InTurn, InBuf, InCarry, RecordedOnce,
     Items, Actors, Controllers
<1>19. ASSUME NEW g \in GoalItems, TryStartIfIdle(g) PROVE Goal
  BY <1>19 DEF TryStartIfIdle, Inv, TypeOK, FramesOK, ItemsApart, InTurn, InBuf, InCarry, RecordedOnce,
     Items, Actors, Controllers
<1>20. CASE IdleReserve
  BY <1>20 DEF IdleReserve, Reserve, Refuse, Inv, TypeOK, FramesOK, ItemsApart, InTurn, InBuf, InCarry, RecordedOnce,
     Items, Actors, Controllers
<1>21. ASSUME NEW here, NEW next \in {"idleTest2", "idleConfirm"}, IdleTest(here, next) PROVE Goal
  BY <1>21 DEF IdleTest, StillReserved, Refuse, Inv, TypeOK, FramesOK, ItemsApart, InTurn, InBuf, InCarry, RecordedOnce,
     Items, Actors, Controllers
<1>22. CASE IdleConfirm
  BY <1>22 DEF IdleConfirm, StillReserved, Refuse, Inv, TypeOK, FramesOK, ItemsApart, InTurn, InBuf, InCarry, RecordedOnce,
     Items, Actors, Controllers
<1>23. ASSUME NEW i \in Injected, Inject(i) PROVE Goal
  BY <1>23 DEF Inject, Record, Inv, TypeOK, FramesOK, ItemsApart, InTurn, InBuf, InCarry, RecordedOnce,
     Items, Actors, Controllers
<1>24. ASSUME NEW t \in Tasks, RunTurn(t) PROVE Goal
  BY <1>24 DEF RunTurn, Record, Inv, TypeOK, FramesOK, ItemsApart, InTurn, InBuf, InCarry, RecordedOnce,
     Items, Actors, Controllers
<1>25. ASSUME NEW t \in Tasks, RunTurnFails(t) PROVE Goal
  BY <1>25 DEF RunTurnFails, Inv, TypeOK, FramesOK, ItemsApart, InTurn, InBuf, InCarry, RecordedOnce,
     Items, Actors, Controllers
<1>26. ASSUME NEW t \in Tasks, RunOther(t) PROVE Goal
  BY <1>0, <1>26 DEF RunOther, itemVars
<1>27. ASSUME NEW t \in Tasks, TakeInput(t) PROVE Goal
  BY <1>27 DEF TakeInput, TakePending, Inv, TypeOK, FramesOK, ItemsApart, InTurn, InBuf, InCarry, RecordedOnce,
     Items, Actors, Controllers
<1>28. ASSUME NEW t \in Tasks, TakeMail(t) PROVE Goal
  BY <1>28 DEF TakeMail, DrainMailbox, Inv, TypeOK, FramesOK, ItemsApart, InTurn, InBuf, InCarry, RecordedOnce,
     Items, Actors, Controllers
<1>29. ASSUME NEW t \in Tasks, RecordInput(t) PROVE Goal
  BY <1>29 DEF RecordInput, Record, Inv, TypeOK, FramesOK, ItemsApart, InTurn, InBuf, InCarry, RecordedOnce,
     Items, Actors, Controllers
<1>30. ASSUME NEW t \in Tasks, Message(t) PROVE Goal
  BY <1>0, <1>30 DEF Message, itemVars
<1>31. ASSUME NEW t \in Tasks, ToolCall(t) PROVE Goal
  BY <1>0, <1>31 DEF ToolCall, itemVars
<1>32. ASSUME NEW t \in Tasks, Ask(t) PROVE Goal
  BY <1>0, <1>32 DEF Ask, itemVars
<1>34. ASSUME NEW t \in Tasks, SampleEnd(t) PROVE Goal
  BY <1>0, <1>34 DEF SampleEnd, itemVars
<1>35. ASSUME NEW t \in Tasks, SampleMoreEnd(t) PROVE Goal
  BY <1>0, <1>35 DEF SampleMoreEnd, itemVars
<1>36. ASSUME NEW t \in Tasks, SampleError(t) PROVE Goal
  BY <1>0, <1>36 DEF SampleError, itemVars
<1>37. ASSUME NEW t \in Tasks, Settle(t) PROVE Goal
  BY <1>0, <1>37 DEF Settle, itemVars
<1>38. ASSUME NEW t \in Tasks, SettleMail(t) PROVE Goal
  BY <1>0, <1>38 DEF SettleMail, itemVars
<1>39. ASSUME NEW t \in Tasks, Recheck(t) PROVE Goal
  BY <1>0, <1>39 DEF Recheck, itemVars
<1>40. ASSUME NEW t \in Tasks, RecheckMail(t) PROVE Goal
  BY <1>0, <1>40 DEF RecheckMail, itemVars
<1>41. ASSUME NEW t \in Tasks, ObserveCancel(t) PROVE Goal
  BY <1>41 DEF ObserveCancel, Record, Inv, TypeOK, FramesOK, ItemsApart, InTurn, InBuf, InCarry, RecordedOnce,
     Items, Actors, Controllers
<1>42. ASSUME NEW t \in Tasks, Finish(t) PROVE Goal
  BY <1>0, <1>42 DEF Finish, itemVars
<1>43. ASSUME NEW t \in Tasks, Detach(t) PROVE Goal
  BY <1>0, <1>43 DEF Detach, itemVars
<1>44. ASSUME NEW t \in Tasks, Collect(t) PROVE Goal
  BY <1>44 DEF Collect, Record, Inv, TypeOK, FramesOK, ItemsApart, InTurn, InBuf, InCarry, RecordedOnce,
     Items, Actors, Controllers
<1>45. ASSUME NEW t \in Tasks, Announce(t) PROVE Goal
  BY <1>0, <1>45 DEF Announce, itemVars
<1>46. ASSUME NEW t \in Tasks, Release(t) PROVE Goal
  BY <1>0, <1>46 DEF Release, itemVars
<1>47. CASE UNCHANGED vars
  BY <1>0, <1>47 DEF vars, itemVars
<1>48. QED
  BY <1>1, <1>2, <1>3, <1>4, <1>5, <1>6, <1>7, <1>8, <1>9, <1>10, <1>11, <1>12,
     <1>13, <1>14, <1>15, <1>16, <1>17, <1>18, <1>19, <1>20, <1>21, <1>22, <1>23, <1>24,
     <1>25, <1>26, <1>27, <1>28, <1>29, <1>30, <1>31, <1>32, <1>34, <1>35, <1>36,
     <1>37, <1>38, <1>39, <1>40, <1>41, <1>42, <1>43, <1>44, <1>45, <1>46, <1>47
  DEF Next, Submit, Call, Idle, Abort, Start, Run, Model, End

\* The main safety theorem: in every behaviour an item is in one place at a time.
THEOREM ItemsStayApart == Spec => []ItemsApart
<1>1. Init => ItemsApart /\ RecordedOnce
  BY DEF Init, ItemsApart, RecordedOnce, InTurn, InBuf, InCarry
<1>2. QED
  BY <1>1, TypeInit, TypeNext, ApartNext, PTL DEF Spec

\* No item is recorded in the conversation twice.
THEOREM NoDoubleRecord == Spec => []RecordedOnce
<1>1. Init => ItemsApart /\ RecordedOnce
  BY DEF Init, ItemsApart, RecordedOnce, InTurn, InBuf, InCarry
<1>2. QED
  BY <1>1, TypeInit, TypeNext, ApartNext, PTL DEF Spec

=============================================================================
