--------------------------- MODULE TurnSlot_proofs ---------------------------
(* The active-turn slot: who may start a turn, which task runs, how a turn   *)
(* ends, and that input and mail survive every change of hands; proved for   *)
(* every number of tasks, turn states, inputs and messages.                  *)
(*                                                                           *)
(* start_task aborts what runs and lets go of the slot's lock four times     *)
(* before it installs the new task. Two kinds of session keep the promises   *)
(* of the slot through these gaps: one in which the submission loop alone    *)
(* starts and aborts turns (LoopInv: the slot is empty from the abort to the *)
(* new task), and one in which nothing aborts (MailInv: a starter reserves   *)
(* the slot first, so it has one owner). ItemInv, about the items, needs     *)
(* only what both have in common (Guarded).                                  *)
EXTENDS TurnEngine_proofs

-----------------------------------------------------------------------------
(* Two kinds of session.                                                     *)

\* A session in which only the submission loop starts and aborts turns: no mail wakes it, no
\* extension starts a turn, and nobody outside the loop stops one.
LoopStarts ==
    /\ TriggerMail = {} /\ GoalItems = {} /\ (QueueMail = {} \/ ~DurableSleep)
    /\ "force" \notin Operations

\* A session in which nothing aborts a turn: mail and idle continuations start turns, from the
\* loop, from outside it and from a task that ends; the user submits nothing.
NoAborts ==
    /\ UserInputs = {}
    /\ {"compact", "shell", "interrupt", "shutdown", "force"} \cap Operations = {}

-----------------------------------------------------------------------------
(* Where an actor can be.                                                    *)

StartLabels == {"pull", "drain", "attach", "install"}
AbortLabels == {"abort", "grace", "clear"}
IdleLabels == {"idleTest1", "idleTest2", "idleConfirm"}
RunLabels == InRun \cup {"finish", "detach"}
EndLabels == {"collect", "announce", "release"}

Places ==
    /\ pc[Loop] \in {"ready", "wake", "reserve"} \cup AbortLabels \cup StartLabels
    /\ pc[Ext] \in {"ready", "wake", "reserve", "idleReserve"} \cup AbortLabels
                       \cup StartLabels \cup IdleLabels
    /\ \A t \in Tasks : pc[t] \in {"unused", "done", "killed", "wake", "reserve"}
                                     \cup StartLabels \cup RunLabels \cup EndLabels

\* What actors hold was allocated.
Allocated ==
    /\ activeState \in used \cup {NoState}
    /\ \A a \in Actors : stateOf[a] \in used \cup {NoState}

-----------------------------------------------------------------------------
(* A session whose loop starts every turn.                                   *)

LoopAlone ==
    /\ pc[Ext] = "ready" /\ pc[Loop] # "reserve"
    /\ \A t \in Tasks : pc[t] \notin {"reserve"} \cup StartLabels

\* From the abort to the new task the slot is the loop's; a turn without a task is about to get
\* one, or its task is on its way out.
LoopSlot ==
    /\ pc[Loop] \in {"grace", "clear"} \cup StartLabels => activeTask = NoTask
    /\ pc[Loop] \in {"grace", "clear", "pull", "drain", "attach"} => activeState = NoState
    /\ pc[Loop] = "install" => activeState # NoState
    /\ activeState # NoState /\ activeTask = NoTask =>
          pc[Loop] = "install" \/ \E t \in Tasks : pc[t] \in EndLabels /\ stateOf[t] = activeState
    /\ \A t \in Tasks : pc[t] \in EndLabels /\ stateOf[t] = activeState =>
          activeTask = NoTask /\ pc[Loop] # "install"

\* The task an abort holds.
LoopVictim ==
    pc[Loop] = "grace" =>
        /\ victim[Loop] \in cancelled /\ terminal[victim[Loop]] = 0
        /\ pc[victim[Loop]] \in RunLabels \cup {"done"}

LoopTasks ==
    \A t \in Tasks :
        /\ pc[t] \in RunLabels => t \in cancelled \/ activeTask = t
        /\ activeTask = t => pc[t] \in RunLabels /\ t \notin cancelled
        /\ t \in cancelled => \/ pc[Loop] = "grace" /\ victim[Loop] = t
                              \/ pc[t] \in {"done", "killed"}
        /\ pc[t] = "wait" /\ t \notin cancelled => t \in waiting[activeState]

Announced ==
    \A t \in Tasks :
        /\ terminal[t] <= 1
        /\ pc[t] \in RunLabels \cup {"unused", "collect", "announce"} => terminal[t] = 0
        /\ pc[t] = "killed" => terminal[t] = 1

LoopInv ==
    /\ LoopStarts /\ Inv /\ Places /\ Allocated
    /\ LoopAlone /\ LoopSlot /\ LoopVictim /\ LoopTasks /\ Announced

-----------------------------------------------------------------------------
(* A session without aborts.                                                 *)

\* The slot is held by a starter, by an idle continuation, by a running task or by one that ends.
Owns(a) == pc[a] \in StartLabels \cup IdleLabels \cup RunLabels \cup EndLabels

NobodyAborts ==
    /\ cancelled = {} /\ ~closing
    /\ \A a \in Actors : pc[a] \notin AbortLabels \cup {"killed"}

OneOwner ==
    /\ \A a, b \in Actors : Owns(a) /\ Owns(b) => a = b
    /\ \A a \in Actors : Owns(a) => activeState # NoState
    /\ \A a \in Actors : pc[a] \in IdleLabels \cup EndLabels => stateOf[a] = activeState

OwnerTask ==
    /\ \A t \in Tasks : pc[t] \in RunLabels <=> activeTask = t
    /\ \A t \in Tasks : pc[t] = "wait" => t \in waiting[activeState]

\* Work that waits for an empty slot has somebody who will look.
SomebodyLooks ==
    WorkWaits /\ activeState = NoState => \E a \in Actors : pc[a] \in {"wake", "reserve"}

MailInv ==
    /\ NoAborts /\ Inv /\ Places /\ Allocated
    /\ NobodyAborts /\ OneOwner /\ OwnerTask /\ Announced /\ SomebodyLooks

-----------------------------------------------------------------------------
(* What both kinds of session have, and what becomes of the items.           *)

\* No starter meets a task, an abort holds a cancelled task that has not begun to end, and a
\* turn whose task ends, or that is only reserved, gets no input from another actor.
Guarded ==
    /\ Inv /\ Places /\ Allocated /\ StartFindsNoTask
    /\ \A a \in Actors : pc[a] = "grace" =>
          victim[a] \in cancelled /\ pc[victim[a]] \in RunLabels \cup {"done"}
    /\ \A a \in Actors : pc[a] = "abort" /\ activeState # NoState /\ activeTask = NoTask =>
          \E t \in Tasks : pc[t] \in EndLabels /\ stateOf[t] = activeState
    /\ \A t \in Tasks : pc[t] \in EndLabels /\ stateOf[t] = activeState =>
          /\ activeTask = NoTask /\ pc[Ext] # "idleConfirm"
          /\ \A a \in Actors : pc[a] # "attach"
    /\ pc[Ext] \in IdleLabels /\ stateOf[Ext] = activeState =>
          activeTask = NoTask /\ \A a \in Actors : pc[a] # "attach"

\* Where actors have items in their hands.
InHand ==
    \A a \in Actors :
        /\ buf[a] # {} =>
              \/ pc[a] \in {"drain", "attach", "takeMail", "record"}
              \/ a \in cancelled /\ pc[a] \in {"finish", "done", "killed"}
        /\ carry[a] # {} =>
              /\ kind[a] = "regular" \/ pc[a] \in {"idleReserve"} \cup IdleLabels
              /\ \/ pc[a] \in {"run", "idleReserve"} \cup AbortLabels \cup StartLabels
                                 \cup IdleLabels
                 \/ a \in cancelled /\ pc[a] = "killed"

\* Where they hold a turn state.
InFrame ==
    \A a \in Actors :
        stateOf[a] # NoState => pc[a] \in {"grace", "clear"} \cup IdleLabels \cup EndLabels

\* A task that has collected the input of its turn leaves none behind, and a state that is
\* unused or only reserved has none.
Emptied ==
    /\ \A t \in Tasks : pc[t] \in {"announce", "release"} => pending[stateOf[t]] = {}
    /\ \A s \in TurnStates \ used : pending[s] = {}
    /\ pc[Ext] \in IdleLabels => stateOf[Ext] \in TurnStates /\ pending[stateOf[Ext]] = {}

ItemInv == Injected = {} /\ InHand /\ InFrame /\ Emptied /\ NothingLost

-----------------------------------------------------------------------------
(* Places and states.                                                        *)

\* The labels of each actor.
LEMMA PlacesNext == Inv /\ Places /\ [Next]_vars => Places'
<1> SUFFICES ASSUME Inv, Places, [Next]_vars PROVE Places'
  OBVIOUS
<1> USE TurnEngineAssumption
    DEF queueVars, slotVars, frameVars, ghostVars, Actors, Controllers, Inv, TypeOK,
        FramesOK, Places, StartLabels, AbortLabels, IdleLabels, RunLabels, EndLabels, InRun
<1>1. ASSUME NEW u \in UserInputs, Steer(u) PROVE Places'
  BY <1>1 DEF Steer, LoopReady, Running
<1>2. ASSUME NEW u \in UserInputs, SteerRefused(u) PROVE Places'
  BY <1>2 DEF SteerRefused, LoopReady, Running
<1>3. ASSUME NEW u \in UserInputs, UserTurn(u) PROVE Places'
  BY <1>3 DEF UserTurn, LoopReady, Running, Goto
<1>4. ASSUME NEW k \in {"compact", "shell"}, SpawnOther(k) PROVE Places'
  BY <1>4 DEF SpawnOther, LoopReady, Command, Running, Goto
<1>5. ASSUME NEW op \in {"interrupt", "shutdown"}, Interrupt(op) PROVE Places'
  BY <1>5 DEF Interrupt, LoopReady, Command, Goto
<1>6. CASE ForceStop
  BY <1>6 DEF ForceStop, Command, Goto
<1>7. ASSUME NEW m \in TriggerMail \cup QueueMail, Mail(m) PROVE Places'
  BY <1>7 DEF Mail, LoopReady, Goto
<1>8. ASSUME NEW t \in Tasks, Answer(t) PROVE Places'
  BY <1>8 DEF Answer, LoopReady, Goto
<1>9. ASSUME NEW a \in Controllers, AbortNothing(a) PROVE Places'
  BY <1>9 DEF AbortNothing, AfterAbort, Goto
<1>10. ASSUME NEW a \in Controllers, AbortTake(a) PROVE Places'
  BY <1>10 DEF AbortTake, Goto
<1>11. ASSUME NEW a \in Controllers, AbortKill(a) PROVE Places'
  BY <1>11 DEF AbortKill, Goto
<1>12. ASSUME NEW a \in Controllers, AbortClear(a) PROVE Places'
  BY <1>12 DEF AbortClear, Goto
<1>13. ASSUME NEW a \in Actors, Wake(a) PROVE Places'
  BY <1>13 DEF Wake, Back, Goto
<1>14. ASSUME NEW a \in Actors, WakeReserve(a) PROVE Places'
  BY <1>14 DEF WakeReserve, Reserve, Back, Goto
<1>15. ASSUME NEW a \in Actors, StartPull(a) PROVE Places'
  BY <1>15 DEF StartPull, TakePending, Goto
<1>16. ASSUME NEW a \in Actors, StartDrain(a) PROVE Places'
  BY <1>16 DEF StartDrain, DrainMailbox, Goto
<1>17. ASSUME NEW a \in Actors, StartAttach(a) PROVE Places'
  BY <1>17 DEF StartAttach, GetOrInsert, Reserve, Goto
<1>18. ASSUME NEW a \in Actors, StartInstall(a) PROVE Places'
  BY <1>18 DEF StartInstall, GetOrInsert, Reserve, Back
<1>19. ASSUME NEW g \in GoalItems, TryStartIfIdle(g) PROVE Places'
  BY <1>19 DEF TryStartIfIdle, Goto
<1>20. CASE IdleReserve
  BY <1>20 DEF IdleReserve, Reserve, Refuse, Goto
<1>21. ASSUME NEW here, NEW next,
              <<here, next>> \in {<<"idleTest1", "idleTest2">>, <<"idleTest2", "idleConfirm">>},
              IdleTest(here, next)
       PROVE Places'
  BY <1>21 DEF IdleTest, StillReserved, Refuse, Goto
<1>22. CASE IdleConfirm
  BY <1>22 DEF IdleConfirm, StillReserved, Refuse, Goto
<1>23. ASSUME NEW i \in Injected, Inject(i) PROVE Places'
  BY <1>23 DEF Inject, Record
<1>24. ASSUME NEW t \in Tasks, RunTurn(t) PROVE Places'
  BY <1>24 DEF RunTurn, Record, Goto
<1>25. ASSUME NEW t \in Tasks, RunTurnFails(t) PROVE Places'
  BY <1>25 DEF RunTurnFails, Goto
<1>26. ASSUME NEW t \in Tasks, RunOther(t) PROVE Places'
  BY <1>26 DEF RunOther, Goto
<1>27. ASSUME NEW t \in Tasks, TakeInput(t) PROVE Places'
  BY <1>27 DEF TakeInput, TakePending, Goto
<1>28. ASSUME NEW t \in Tasks, TakeMail(t) PROVE Places'
  BY <1>28 DEF TakeMail, DrainMailbox, Goto
<1>29. ASSUME NEW t \in Tasks, RecordInput(t) PROVE Places'
  BY <1>29 DEF RecordInput, Record, Goto
<1>30. ASSUME NEW t \in Tasks, Message(t) PROVE Places'
  BY <1>30 DEF Message, Sampling
<1>31. ASSUME NEW t \in Tasks, ToolCall(t) PROVE Places'
  BY <1>31 DEF ToolCall, Sampling, AcceptMail, Goto
<1>32. ASSUME NEW t \in Tasks, Ask(t) PROVE Places'
  BY <1>32 DEF Ask, Goto
<1>33. ASSUME NEW t \in Tasks, SampleEnd(t) PROVE Places'
  BY <1>33 DEF SampleEnd, Goto
<1>34. ASSUME NEW t \in Tasks, SampleMoreEnd(t) PROVE Places'
  BY <1>34 DEF SampleMoreEnd, AcceptMail, Goto
<1>35. ASSUME NEW t \in Tasks, SampleError(t) PROVE Places'
  BY <1>35 DEF SampleError, Sampling, Goto
<1>36. ASSUME NEW t \in Tasks, Settle(t) PROVE Places'
  BY <1>36 DEF Settle, HasPendingInTurn, Goto
<1>37. ASSUME NEW t \in Tasks, SettleMail(t) PROVE Places'
  BY <1>37 DEF SettleMail, Goto
<1>38. ASSUME NEW t \in Tasks, Recheck(t) PROVE Places'
  BY <1>38 DEF Recheck, HasPendingInTurn, Goto
<1>39. ASSUME NEW t \in Tasks, RecheckMail(t) PROVE Places'
  BY <1>39 DEF RecheckMail, Goto
<1>40. ASSUME NEW t \in Tasks, ObserveCancel(t) PROVE Places'
  BY <1>40 DEF ObserveCancel, Record, Goto
<1>41. ASSUME NEW t \in Tasks, Finish(t) PROVE Places'
  BY <1>41 DEF Finish, Goto
<1>42. ASSUME NEW t \in Tasks, Detach(t) PROVE Places'
  BY <1>42 DEF Detach, Goto
<1>43. ASSUME NEW t \in Tasks, Collect(t) PROVE Places'
  BY <1>43 DEF Collect, Record, Goto
<1>44. ASSUME NEW t \in Tasks, Announce(t) PROVE Places'
  BY <1>44 DEF Announce, Goto
<1>45. ASSUME NEW t \in Tasks, Release(t) PROVE Places'
  BY <1>45 DEF Release, Goto
<1>46. CASE UNCHANGED vars
  BY <1>46 DEF vars
<1> HIDE TurnEngineAssumption
    DEF queueVars, slotVars, frameVars, ghostVars, Actors, Controllers, Inv, TypeOK,
        FramesOK, Places, StartLabels, AbortLabels, IdleLabels, RunLabels, EndLabels, InRun
<1>47. QED
  BY <1>1, <1>2, <1>3, <1>4, <1>5, <1>6, <1>7, <1>8, <1>9, <1>10, <1>11, <1>12, <1>13, <1>14,
     <1>15, <1>16, <1>17, <1>18, <1>19, <1>20, <1>21, <1>22, <1>23, <1>24, <1>25, <1>26, <1>27,
     <1>28, <1>29, <1>30, <1>31, <1>32, <1>33, <1>34, <1>35, <1>36, <1>37, <1>38, <1>39, <1>40,
     <1>41, <1>42, <1>43, <1>44, <1>45, <1>46
  DEF Next, Submit, Call, Idle, Abort, Start, Run, Model, End

\* A state in the slot or in an actor's hands was allocated.
LEMMA AllocatedNext == Inv /\ Allocated /\ [Next]_vars => Allocated'
<1> SUFFICES ASSUME Inv, Allocated, [Next]_vars PROVE Allocated'
  OBVIOUS
<1> USE TurnEngineAssumption
    DEF queueVars, slotVars, frameVars, ghostVars, Actors, Controllers, Inv, TypeOK,
        FramesOK, Allocated
<1>1. ASSUME NEW u \in UserInputs, Steer(u) PROVE Allocated'
  BY <1>1 DEF Steer, LoopReady, Running
<1>2. ASSUME NEW u \in UserInputs, SteerRefused(u) PROVE Allocated'
  BY <1>2 DEF SteerRefused, LoopReady, Running
<1>3. ASSUME NEW u \in UserInputs, UserTurn(u) PROVE Allocated'
  BY <1>3 DEF UserTurn, LoopReady, Running, Goto
<1>4. ASSUME NEW k \in {"compact", "shell"}, SpawnOther(k) PROVE Allocated'
  BY <1>4 DEF SpawnOther, LoopReady, Command, Running, Goto
<1>5. ASSUME NEW op \in {"interrupt", "shutdown"}, Interrupt(op) PROVE Allocated'
  BY <1>5 DEF Interrupt, LoopReady, Command, Goto
<1>6. CASE ForceStop
  BY <1>6 DEF ForceStop, Command, Goto
<1>7. ASSUME NEW m \in TriggerMail \cup QueueMail, Mail(m) PROVE Allocated'
  BY <1>7 DEF Mail, LoopReady, Goto
<1>8. ASSUME NEW t \in Tasks, Answer(t) PROVE Allocated'
  BY <1>8 DEF Answer, LoopReady, Goto
<1>9. ASSUME NEW a \in Controllers, AbortNothing(a) PROVE Allocated'
  BY <1>9 DEF AbortNothing, AfterAbort, Goto
<1>10. ASSUME NEW a \in Controllers, AbortTake(a) PROVE Allocated'
  BY <1>10 DEF AbortTake, Goto
<1>11. ASSUME NEW a \in Controllers, AbortKill(a) PROVE Allocated'
  BY <1>11 DEF AbortKill, Goto
<1>12. ASSUME NEW a \in Controllers, AbortClear(a) PROVE Allocated'
  BY <1>12 DEF AbortClear, Goto
<1>13. ASSUME NEW a \in Actors, Wake(a) PROVE Allocated'
  BY <1>13 DEF Wake, Back, Goto
<1>14. ASSUME NEW a \in Actors, WakeReserve(a) PROVE Allocated'
  BY <1>14 DEF WakeReserve, Reserve, Back, Goto
<1>15. ASSUME NEW a \in Actors, StartPull(a) PROVE Allocated'
  BY <1>15 DEF StartPull, TakePending, Goto
<1>16. ASSUME NEW a \in Actors, StartDrain(a) PROVE Allocated'
  BY <1>16 DEF StartDrain, DrainMailbox, Goto
<1>17. ASSUME NEW a \in Actors, StartAttach(a) PROVE Allocated'
  BY <1>17 DEF StartAttach, GetOrInsert, Reserve, Goto
<1>18. ASSUME NEW a \in Actors, StartInstall(a) PROVE Allocated'
  BY <1>18 DEF StartInstall, GetOrInsert, Reserve, Back
<1>19. ASSUME NEW g \in GoalItems, TryStartIfIdle(g) PROVE Allocated'
  BY <1>19 DEF TryStartIfIdle, Goto
<1>20. CASE IdleReserve
  BY <1>20 DEF IdleReserve, Reserve, Refuse, Goto
<1>21. ASSUME NEW here, NEW next,
              <<here, next>> \in {<<"idleTest1", "idleTest2">>, <<"idleTest2", "idleConfirm">>},
              IdleTest(here, next)
       PROVE Allocated'
  BY <1>21 DEF IdleTest, StillReserved, Refuse, Goto
<1>22. CASE IdleConfirm
  BY <1>22 DEF IdleConfirm, StillReserved, Refuse, Goto
<1>23. ASSUME NEW i \in Injected, Inject(i) PROVE Allocated'
  BY <1>23 DEF Inject, Record
<1>24. ASSUME NEW t \in Tasks, RunTurn(t) PROVE Allocated'
  BY <1>24 DEF RunTurn, Record, Goto
<1>25. ASSUME NEW t \in Tasks, RunTurnFails(t) PROVE Allocated'
  BY <1>25 DEF RunTurnFails, Goto
<1>26. ASSUME NEW t \in Tasks, RunOther(t) PROVE Allocated'
  BY <1>26 DEF RunOther, Goto
<1>27. ASSUME NEW t \in Tasks, TakeInput(t) PROVE Allocated'
  BY <1>27 DEF TakeInput, TakePending, Goto
<1>28. ASSUME NEW t \in Tasks, TakeMail(t) PROVE Allocated'
  BY <1>28 DEF TakeMail, DrainMailbox, Goto
<1>29. ASSUME NEW t \in Tasks, RecordInput(t) PROVE Allocated'
  BY <1>29 DEF RecordInput, Record, Goto
<1>30. ASSUME NEW t \in Tasks, Message(t) PROVE Allocated'
  BY <1>30 DEF Message, Sampling
<1>31. ASSUME NEW t \in Tasks, ToolCall(t) PROVE Allocated'
  BY <1>31 DEF ToolCall, Sampling, AcceptMail, Goto
<1>32. ASSUME NEW t \in Tasks, Ask(t) PROVE Allocated'
  BY <1>32 DEF Ask, Goto
<1>33. ASSUME NEW t \in Tasks, SampleEnd(t) PROVE Allocated'
  BY <1>33 DEF SampleEnd, Goto
<1>34. ASSUME NEW t \in Tasks, SampleMoreEnd(t) PROVE Allocated'
  BY <1>34 DEF SampleMoreEnd, AcceptMail, Goto
<1>35. ASSUME NEW t \in Tasks, SampleError(t) PROVE Allocated'
  BY <1>35 DEF SampleError, Sampling, Goto
<1>36. ASSUME NEW t \in Tasks, Settle(t) PROVE Allocated'
  BY <1>36 DEF Settle, HasPendingInTurn, Goto
<1>37. ASSUME NEW t \in Tasks, SettleMail(t) PROVE Allocated'
  BY <1>37 DEF SettleMail, Goto
<1>38. ASSUME NEW t \in Tasks, Recheck(t) PROVE Allocated'
  BY <1>38 DEF Recheck, HasPendingInTurn, Goto
<1>39. ASSUME NEW t \in Tasks, RecheckMail(t) PROVE Allocated'
  BY <1>39 DEF RecheckMail, Goto
<1>40. ASSUME NEW t \in Tasks, ObserveCancel(t) PROVE Allocated'
  BY <1>40 DEF ObserveCancel, Record, Goto
<1>41. ASSUME NEW t \in Tasks, Finish(t) PROVE Allocated'
  BY <1>41 DEF Finish, Goto
<1>42. ASSUME NEW t \in Tasks, Detach(t) PROVE Allocated'
  BY <1>42 DEF Detach, Goto
<1>43. ASSUME NEW t \in Tasks, Collect(t) PROVE Allocated'
  BY <1>43 DEF Collect, Record, Goto
<1>44. ASSUME NEW t \in Tasks, Announce(t) PROVE Allocated'
  BY <1>44 DEF Announce, Goto
<1>45. ASSUME NEW t \in Tasks, Release(t) PROVE Allocated'
  BY <1>45 DEF Release, Goto
<1>46. CASE UNCHANGED vars
  BY <1>46 DEF vars
<1> HIDE TurnEngineAssumption
    DEF queueVars, slotVars, frameVars, ghostVars, Actors, Controllers, Inv, TypeOK,
        FramesOK, Allocated
<1>47. QED
  BY <1>1, <1>2, <1>3, <1>4, <1>5, <1>6, <1>7, <1>8, <1>9, <1>10, <1>11, <1>12, <1>13, <1>14,
     <1>15, <1>16, <1>17, <1>18, <1>19, <1>20, <1>21, <1>22, <1>23, <1>24, <1>25, <1>26, <1>27,
     <1>28, <1>29, <1>30, <1>31, <1>32, <1>33, <1>34, <1>35, <1>36, <1>37, <1>38, <1>39, <1>40,
     <1>41, <1>42, <1>43, <1>44, <1>45, <1>46
  DEF Next, Submit, Call, Idle, Abort, Start, Run, Model, End

\* Nobody but the loop comes to start a turn.
LEMMA LoopAloneNext == LoopInv /\ [Next]_vars => LoopAlone'
<1> SUFFICES ASSUME LoopInv, [Next]_vars PROVE LoopAlone'
  OBVIOUS
<1> USE TurnEngineAssumption
    DEF queueVars, slotVars, frameVars, ghostVars, Actors, Controllers, LoopInv, LoopStarts,
        Inv, TypeOK, FramesOK, Places, LoopAlone, WorkWaits, TriggerWaits, StartLabels,
        AbortLabels, IdleLabels, RunLabels, EndLabels, InRun
<1>1. ASSUME NEW u \in UserInputs, Steer(u) PROVE LoopAlone'
  BY <1>1 DEF Steer, LoopReady, Running
<1>2. ASSUME NEW u \in UserInputs, SteerRefused(u) PROVE LoopAlone'
  BY <1>2 DEF SteerRefused, LoopReady, Running
<1>3. ASSUME NEW u \in UserInputs, UserTurn(u) PROVE LoopAlone'
  BY <1>3 DEF UserTurn, LoopReady, Running, Goto
<1>4. ASSUME NEW k \in {"compact", "shell"}, SpawnOther(k) PROVE LoopAlone'
  BY <1>4 DEF SpawnOther, LoopReady, Command, Running, Goto
<1>5. ASSUME NEW op \in {"interrupt", "shutdown"}, Interrupt(op) PROVE LoopAlone'
  BY <1>5 DEF Interrupt, LoopReady, Command, Goto
<1>6. CASE ForceStop
  BY <1>6 DEF ForceStop, Command, Goto
<1>7. ASSUME NEW m \in TriggerMail \cup QueueMail, Mail(m) PROVE LoopAlone'
  BY <1>7 DEF Mail, LoopReady, Goto
<1>8. ASSUME NEW t \in Tasks, Answer(t) PROVE LoopAlone'
  BY <1>8 DEF Answer, LoopReady, Goto
<1>9. ASSUME NEW a \in Controllers, AbortNothing(a) PROVE LoopAlone'
  BY <1>9 DEF AbortNothing, AfterAbort, Goto
<1>10. ASSUME NEW a \in Controllers, AbortTake(a) PROVE LoopAlone'
  BY <1>10 DEF AbortTake, Goto
<1>11. ASSUME NEW a \in Controllers, AbortKill(a) PROVE LoopAlone'
  BY <1>11 DEF AbortKill, Goto
<1>12. ASSUME NEW a \in Controllers, AbortClear(a) PROVE LoopAlone'
  BY <1>12 DEF AbortClear, Goto
<1>13. ASSUME NEW a \in Actors, Wake(a) PROVE LoopAlone'
  BY <1>13 DEF Wake, Back, Goto
<1>14. ASSUME NEW a \in Actors, WakeReserve(a) PROVE LoopAlone'
  BY <1>14 DEF WakeReserve, Reserve, Back, Goto
<1>15. ASSUME NEW a \in Actors, StartPull(a) PROVE LoopAlone'
  BY <1>15 DEF StartPull, TakePending, Goto
<1>16. ASSUME NEW a \in Actors, StartDrain(a) PROVE LoopAlone'
  BY <1>16 DEF StartDrain, DrainMailbox, Goto
<1>17. ASSUME NEW a \in Actors, StartAttach(a) PROVE LoopAlone'
  BY <1>17 DEF StartAttach, GetOrInsert, Reserve, Goto
<1>18. ASSUME NEW a \in Actors, StartInstall(a) PROVE LoopAlone'
  BY <1>18 DEF StartInstall, GetOrInsert, Reserve, Back
<1>19. ASSUME NEW g \in GoalItems, TryStartIfIdle(g) PROVE LoopAlone'
  BY <1>19 DEF TryStartIfIdle, Goto
<1>20. CASE IdleReserve
  BY <1>20 DEF IdleReserve, Reserve, Refuse, Goto
<1>21. ASSUME NEW here, NEW next,
              <<here, next>> \in {<<"idleTest1", "idleTest2">>, <<"idleTest2", "idleConfirm">>},
              IdleTest(here, next)
       PROVE LoopAlone'
  BY <1>21 DEF IdleTest, StillReserved, Refuse, Goto
<1>22. CASE IdleConfirm
  BY <1>22 DEF IdleConfirm, StillReserved, Refuse, Goto
<1>23. ASSUME NEW i \in Injected, Inject(i) PROVE LoopAlone'
  BY <1>23 DEF Inject, Record
<1>24. ASSUME NEW t \in Tasks, RunTurn(t) PROVE LoopAlone'
  BY <1>24 DEF RunTurn, Record, Goto
<1>25. ASSUME NEW t \in Tasks, RunTurnFails(t) PROVE LoopAlone'
  BY <1>25 DEF RunTurnFails, Goto
<1>26. ASSUME NEW t \in Tasks, RunOther(t) PROVE LoopAlone'
  BY <1>26 DEF RunOther, Goto
<1>27. ASSUME NEW t \in Tasks, TakeInput(t) PROVE LoopAlone'
  BY <1>27 DEF TakeInput, TakePending, Goto
<1>28. ASSUME NEW t \in Tasks, TakeMail(t) PROVE LoopAlone'
  BY <1>28 DEF TakeMail, DrainMailbox, Goto
<1>29. ASSUME NEW t \in Tasks, RecordInput(t) PROVE LoopAlone'
  BY <1>29 DEF RecordInput, Record, Goto
<1>30. ASSUME NEW t \in Tasks, Message(t) PROVE LoopAlone'
  BY <1>30 DEF Message, Sampling
<1>31. ASSUME NEW t \in Tasks, ToolCall(t) PROVE LoopAlone'
  BY <1>31 DEF ToolCall, Sampling, AcceptMail, Goto
<1>32. ASSUME NEW t \in Tasks, Ask(t) PROVE LoopAlone'
  BY <1>32 DEF Ask, Goto
<1>33. ASSUME NEW t \in Tasks, SampleEnd(t) PROVE LoopAlone'
  BY <1>33 DEF SampleEnd, Goto
<1>34. ASSUME NEW t \in Tasks, SampleMoreEnd(t) PROVE LoopAlone'
  BY <1>34 DEF SampleMoreEnd, AcceptMail, Goto
<1>35. ASSUME NEW t \in Tasks, SampleError(t) PROVE LoopAlone'
  BY <1>35 DEF SampleError, Sampling, Goto
<1>36. ASSUME NEW t \in Tasks, Settle(t) PROVE LoopAlone'
  BY <1>36 DEF Settle, HasPendingInTurn, Goto
<1>37. ASSUME NEW t \in Tasks, SettleMail(t) PROVE LoopAlone'
  BY <1>37 DEF SettleMail, Goto
<1>38. ASSUME NEW t \in Tasks, Recheck(t) PROVE LoopAlone'
  BY <1>38 DEF Recheck, HasPendingInTurn, Goto
<1>39. ASSUME NEW t \in Tasks, RecheckMail(t) PROVE LoopAlone'
  BY <1>39 DEF RecheckMail, Goto
<1>40. ASSUME NEW t \in Tasks, ObserveCancel(t) PROVE LoopAlone'
  BY <1>40 DEF ObserveCancel, Record, Goto
<1>41. ASSUME NEW t \in Tasks, Finish(t) PROVE LoopAlone'
  BY <1>41 DEF Finish, Goto
<1>42. ASSUME NEW t \in Tasks, Detach(t) PROVE LoopAlone'
  BY <1>42 DEF Detach, Goto
<1>43. ASSUME NEW t \in Tasks, Collect(t) PROVE LoopAlone'
  BY <1>43 DEF Collect, Record, Goto
<1>44. ASSUME NEW t \in Tasks, Announce(t) PROVE LoopAlone'
  BY <1>44 DEF Announce, Goto
<1>45. ASSUME NEW t \in Tasks, Release(t) PROVE LoopAlone'
  BY <1>45 DEF Release, Goto
<1>46. CASE UNCHANGED vars
  BY <1>46 DEF vars
<1> HIDE TurnEngineAssumption
    DEF queueVars, slotVars, frameVars, ghostVars, Actors, Controllers, LoopInv, LoopStarts,
        Inv, TypeOK, FramesOK, Places, LoopAlone, WorkWaits, TriggerWaits, StartLabels,
        AbortLabels, IdleLabels, RunLabels, EndLabels, InRun
<1>47. QED
  BY <1>1, <1>2, <1>3, <1>4, <1>5, <1>6, <1>7, <1>8, <1>9, <1>10, <1>11, <1>12, <1>13, <1>14,
     <1>15, <1>16, <1>17, <1>18, <1>19, <1>20, <1>21, <1>22, <1>23, <1>24, <1>25, <1>26, <1>27,
     <1>28, <1>29, <1>30, <1>31, <1>32, <1>33, <1>34, <1>35, <1>36, <1>37, <1>38, <1>39, <1>40,
     <1>41, <1>42, <1>43, <1>44, <1>45, <1>46
  DEF Next, Submit, Call, Idle, Abort, Start, Run, Model, End

\* Nobody takes the slot from the loop between its abort and its new task.
LEMMA LoopSlotNext == LoopInv /\ [Next]_vars => LoopSlot'
<1> SUFFICES ASSUME LoopInv, [Next]_vars PROVE LoopSlot'
  OBVIOUS
<1> USE TurnEngineAssumption
    DEF queueVars, slotVars, frameVars, ghostVars, Actors, Controllers, LoopInv, LoopStarts,
        Inv, TypeOK, FramesOK, Places, LoopAlone, LoopSlot, LoopVictim, LoopTasks,
        Allocated, StartLabels, AbortLabels, IdleLabels, RunLabels, EndLabels, InRun
<1>1. ASSUME NEW u \in UserInputs, Steer(u) PROVE LoopSlot'
  BY <1>1 DEF Steer, LoopReady, Running
<1>2. ASSUME NEW u \in UserInputs, SteerRefused(u) PROVE LoopSlot'
  BY <1>2 DEF SteerRefused, LoopReady, Running
<1>3. ASSUME NEW u \in UserInputs, UserTurn(u) PROVE LoopSlot'
  BY <1>3 DEF UserTurn, LoopReady, Running, Goto
<1>4. ASSUME NEW k \in {"compact", "shell"}, SpawnOther(k) PROVE LoopSlot'
  BY <1>4 DEF SpawnOther, LoopReady, Command, Running, Goto
<1>5. ASSUME NEW op \in {"interrupt", "shutdown"}, Interrupt(op) PROVE LoopSlot'
  BY <1>5 DEF Interrupt, LoopReady, Command, Goto
<1>6. CASE ForceStop
  BY <1>6 DEF ForceStop, Command, Goto
<1>7. ASSUME NEW m \in TriggerMail \cup QueueMail, Mail(m) PROVE LoopSlot'
  BY <1>7 DEF Mail, LoopReady, Goto
<1>8. ASSUME NEW t \in Tasks, Answer(t) PROVE LoopSlot'
  BY <1>8 DEF Answer, LoopReady, Goto
<1>9. ASSUME NEW a \in Controllers, AbortNothing(a) PROVE LoopSlot'
  BY <1>9 DEF AbortNothing, AfterAbort, Goto
<1>10. ASSUME NEW a \in Controllers, AbortTake(a) PROVE LoopSlot'
  BY <1>10 DEF AbortTake, Goto
<1>11. ASSUME NEW a \in Controllers, AbortKill(a) PROVE LoopSlot'
  BY <1>11 DEF AbortKill, Goto
<1>12. ASSUME NEW a \in Controllers, AbortClear(a) PROVE LoopSlot'
  BY <1>12 DEF AbortClear, Goto
<1>13. ASSUME NEW a \in Actors, Wake(a) PROVE LoopSlot'
  BY <1>13 DEF Wake, Back, Goto
<1>14. ASSUME NEW a \in Actors, WakeReserve(a) PROVE LoopSlot'
  BY <1>14 DEF WakeReserve, Reserve, Back, Goto
<1>15. ASSUME NEW a \in Actors, StartPull(a) PROVE LoopSlot'
  BY <1>15 DEF StartPull, TakePending, Goto
<1>16. ASSUME NEW a \in Actors, StartDrain(a) PROVE LoopSlot'
  BY <1>16 DEF StartDrain, DrainMailbox, Goto
<1>17. ASSUME NEW a \in Actors, StartAttach(a) PROVE LoopSlot'
  BY <1>17 DEF StartAttach, GetOrInsert, Reserve, Goto
<1>18. ASSUME NEW a \in Actors, StartInstall(a) PROVE LoopSlot'
  BY <1>18 DEF StartInstall, GetOrInsert, Reserve, Back
<1>19. ASSUME NEW g \in GoalItems, TryStartIfIdle(g) PROVE LoopSlot'
  BY <1>19 DEF TryStartIfIdle, Goto
<1>20. CASE IdleReserve
  BY <1>20 DEF IdleReserve, Reserve, Refuse, Goto
<1>21. ASSUME NEW here, NEW next,
              <<here, next>> \in {<<"idleTest1", "idleTest2">>, <<"idleTest2", "idleConfirm">>},
              IdleTest(here, next)
       PROVE LoopSlot'
  BY <1>21 DEF IdleTest, StillReserved, Refuse, Goto
<1>22. CASE IdleConfirm
  BY <1>22 DEF IdleConfirm, StillReserved, Refuse, Goto
<1>23. ASSUME NEW i \in Injected, Inject(i) PROVE LoopSlot'
  BY <1>23 DEF Inject, Record
<1>24. ASSUME NEW t \in Tasks, RunTurn(t) PROVE LoopSlot'
  BY <1>24 DEF RunTurn, Record, Goto
<1>25. ASSUME NEW t \in Tasks, RunTurnFails(t) PROVE LoopSlot'
  BY <1>25 DEF RunTurnFails, Goto
<1>26. ASSUME NEW t \in Tasks, RunOther(t) PROVE LoopSlot'
  BY <1>26 DEF RunOther, Goto
<1>27. ASSUME NEW t \in Tasks, TakeInput(t) PROVE LoopSlot'
  BY <1>27 DEF TakeInput, TakePending, Goto
<1>28. ASSUME NEW t \in Tasks, TakeMail(t) PROVE LoopSlot'
  BY <1>28 DEF TakeMail, DrainMailbox, Goto
<1>29. ASSUME NEW t \in Tasks, RecordInput(t) PROVE LoopSlot'
  BY <1>29 DEF RecordInput, Record, Goto
<1>30. ASSUME NEW t \in Tasks, Message(t) PROVE LoopSlot'
  BY <1>30 DEF Message, Sampling
<1>31. ASSUME NEW t \in Tasks, ToolCall(t) PROVE LoopSlot'
  BY <1>31 DEF ToolCall, Sampling, AcceptMail, Goto
<1>32. ASSUME NEW t \in Tasks, Ask(t) PROVE LoopSlot'
  BY <1>32 DEF Ask, Goto
<1>33. ASSUME NEW t \in Tasks, SampleEnd(t) PROVE LoopSlot'
  BY <1>33 DEF SampleEnd, Goto
<1>34. ASSUME NEW t \in Tasks, SampleMoreEnd(t) PROVE LoopSlot'
  BY <1>34 DEF SampleMoreEnd, AcceptMail, Goto
<1>35. ASSUME NEW t \in Tasks, SampleError(t) PROVE LoopSlot'
  BY <1>35 DEF SampleError, Sampling, Goto
<1>36. ASSUME NEW t \in Tasks, Settle(t) PROVE LoopSlot'
  BY <1>36 DEF Settle, HasPendingInTurn, Goto
<1>37. ASSUME NEW t \in Tasks, SettleMail(t) PROVE LoopSlot'
  BY <1>37 DEF SettleMail, Goto
<1>38. ASSUME NEW t \in Tasks, Recheck(t) PROVE LoopSlot'
  BY <1>38 DEF Recheck, HasPendingInTurn, Goto
<1>39. ASSUME NEW t \in Tasks, RecheckMail(t) PROVE LoopSlot'
  BY <1>39 DEF RecheckMail, Goto
<1>40. ASSUME NEW t \in Tasks, ObserveCancel(t) PROVE LoopSlot'
  BY <1>40 DEF ObserveCancel, Record, Goto
<1>41. ASSUME NEW t \in Tasks, Finish(t) PROVE LoopSlot'
  BY <1>41 DEF Finish, Goto
<1>42. ASSUME NEW t \in Tasks, Detach(t) PROVE LoopSlot'
  BY <1>42 DEF Detach, Goto
<1>43. ASSUME NEW t \in Tasks, Collect(t) PROVE LoopSlot'
  BY <1>43 DEF Collect, Record, Goto
<1>44. ASSUME NEW t \in Tasks, Announce(t) PROVE LoopSlot'
  BY <1>44 DEF Announce, Goto
<1>45. ASSUME NEW t \in Tasks, Release(t) PROVE LoopSlot'
  BY <1>45 DEF Release, Goto
<1>46. CASE UNCHANGED vars
  BY <1>46 DEF vars
<1> HIDE TurnEngineAssumption
    DEF queueVars, slotVars, frameVars, ghostVars, Actors, Controllers, LoopInv, LoopStarts,
        Inv, TypeOK, FramesOK, Places, LoopAlone, LoopSlot, LoopVictim, LoopTasks,
        Allocated, StartLabels, AbortLabels, IdleLabels, RunLabels, EndLabels, InRun
<1>47. QED
  BY <1>1, <1>2, <1>3, <1>4, <1>5, <1>6, <1>7, <1>8, <1>9, <1>10, <1>11, <1>12, <1>13, <1>14,
     <1>15, <1>16, <1>17, <1>18, <1>19, <1>20, <1>21, <1>22, <1>23, <1>24, <1>25, <1>26, <1>27,
     <1>28, <1>29, <1>30, <1>31, <1>32, <1>33, <1>34, <1>35, <1>36, <1>37, <1>38, <1>39, <1>40,
     <1>41, <1>42, <1>43, <1>44, <1>45, <1>46
  DEF Next, Submit, Call, Idle, Abort, Start, Run, Model, End

\* The task an abort holds keeps until the abort announces its end.
LEMMA LoopVictimNext == LoopInv /\ [Next]_vars => LoopVictim'
<1> SUFFICES ASSUME LoopInv, [Next]_vars PROVE LoopVictim'
  OBVIOUS
<1> USE TurnEngineAssumption
    DEF queueVars, slotVars, frameVars, ghostVars, Actors, Controllers, LoopInv, LoopStarts,
        Inv, TypeOK, FramesOK, Places, LoopAlone, LoopSlot, LoopVictim, LoopTasks,
        Announced, StartLabels, AbortLabels, IdleLabels, RunLabels, EndLabels, InRun
<1>1. ASSUME NEW u \in UserInputs, Steer(u) PROVE LoopVictim'
  BY <1>1 DEF Steer, LoopReady, Running
<1>2. ASSUME NEW u \in UserInputs, SteerRefused(u) PROVE LoopVictim'
  BY <1>2 DEF SteerRefused, LoopReady, Running
<1>3. ASSUME NEW u \in UserInputs, UserTurn(u) PROVE LoopVictim'
  BY <1>3 DEF UserTurn, LoopReady, Running, Goto
<1>4. ASSUME NEW k \in {"compact", "shell"}, SpawnOther(k) PROVE LoopVictim'
  BY <1>4 DEF SpawnOther, LoopReady, Command, Running, Goto
<1>5. ASSUME NEW op \in {"interrupt", "shutdown"}, Interrupt(op) PROVE LoopVictim'
  BY <1>5 DEF Interrupt, LoopReady, Command, Goto
<1>6. CASE ForceStop
  BY <1>6 DEF ForceStop, Command, Goto
<1>7. ASSUME NEW m \in TriggerMail \cup QueueMail, Mail(m) PROVE LoopVictim'
  BY <1>7 DEF Mail, LoopReady, Goto
<1>8. ASSUME NEW t \in Tasks, Answer(t) PROVE LoopVictim'
  BY <1>8 DEF Answer, LoopReady, Goto
<1>9. ASSUME NEW a \in Controllers, AbortNothing(a) PROVE LoopVictim'
  BY <1>9 DEF AbortNothing, AfterAbort, Goto
<1>10. ASSUME NEW a \in Controllers, AbortTake(a) PROVE LoopVictim'
  BY <1>10 DEF AbortTake, Goto
<1>11. ASSUME NEW a \in Controllers, AbortKill(a) PROVE LoopVictim'
  BY <1>11 DEF AbortKill, Goto
<1>12. ASSUME NEW a \in Controllers, AbortClear(a) PROVE LoopVictim'
  BY <1>12 DEF AbortClear, Goto
<1>13. ASSUME NEW a \in Actors, Wake(a) PROVE LoopVictim'
  BY <1>13 DEF Wake, Back, Goto
<1>14. ASSUME NEW a \in Actors, WakeReserve(a) PROVE LoopVictim'
  BY <1>14 DEF WakeReserve, Reserve, Back, Goto
<1>15. ASSUME NEW a \in Actors, StartPull(a) PROVE LoopVictim'
  BY <1>15 DEF StartPull, TakePending, Goto
<1>16. ASSUME NEW a \in Actors, StartDrain(a) PROVE LoopVictim'
  BY <1>16 DEF StartDrain, DrainMailbox, Goto
<1>17. ASSUME NEW a \in Actors, StartAttach(a) PROVE LoopVictim'
  BY <1>17 DEF StartAttach, GetOrInsert, Reserve, Goto
<1>18. ASSUME NEW a \in Actors, StartInstall(a) PROVE LoopVictim'
  BY <1>18 DEF StartInstall, GetOrInsert, Reserve, Back
<1>19. ASSUME NEW g \in GoalItems, TryStartIfIdle(g) PROVE LoopVictim'
  BY <1>19 DEF TryStartIfIdle, Goto
<1>20. CASE IdleReserve
  BY <1>20 DEF IdleReserve, Reserve, Refuse, Goto
<1>21. ASSUME NEW here, NEW next,
              <<here, next>> \in {<<"idleTest1", "idleTest2">>, <<"idleTest2", "idleConfirm">>},
              IdleTest(here, next)
       PROVE LoopVictim'
  BY <1>21 DEF IdleTest, StillReserved, Refuse, Goto
<1>22. CASE IdleConfirm
  BY <1>22 DEF IdleConfirm, StillReserved, Refuse, Goto
<1>23. ASSUME NEW i \in Injected, Inject(i) PROVE LoopVictim'
  BY <1>23 DEF Inject, Record
<1>24. ASSUME NEW t \in Tasks, RunTurn(t) PROVE LoopVictim'
  BY <1>24 DEF RunTurn, Record, Goto
<1>25. ASSUME NEW t \in Tasks, RunTurnFails(t) PROVE LoopVictim'
  BY <1>25 DEF RunTurnFails, Goto
<1>26. ASSUME NEW t \in Tasks, RunOther(t) PROVE LoopVictim'
  BY <1>26 DEF RunOther, Goto
<1>27. ASSUME NEW t \in Tasks, TakeInput(t) PROVE LoopVictim'
  BY <1>27 DEF TakeInput, TakePending, Goto
<1>28. ASSUME NEW t \in Tasks, TakeMail(t) PROVE LoopVictim'
  BY <1>28 DEF TakeMail, DrainMailbox, Goto
<1>29. ASSUME NEW t \in Tasks, RecordInput(t) PROVE LoopVictim'
  BY <1>29 DEF RecordInput, Record, Goto
<1>30. ASSUME NEW t \in Tasks, Message(t) PROVE LoopVictim'
  BY <1>30 DEF Message, Sampling
<1>31. ASSUME NEW t \in Tasks, ToolCall(t) PROVE LoopVictim'
  BY <1>31 DEF ToolCall, Sampling, AcceptMail, Goto
<1>32. ASSUME NEW t \in Tasks, Ask(t) PROVE LoopVictim'
  BY <1>32 DEF Ask, Goto
<1>33. ASSUME NEW t \in Tasks, SampleEnd(t) PROVE LoopVictim'
  BY <1>33 DEF SampleEnd, Goto
<1>34. ASSUME NEW t \in Tasks, SampleMoreEnd(t) PROVE LoopVictim'
  BY <1>34 DEF SampleMoreEnd, AcceptMail, Goto
<1>35. ASSUME NEW t \in Tasks, SampleError(t) PROVE LoopVictim'
  BY <1>35 DEF SampleError, Sampling, Goto
<1>36. ASSUME NEW t \in Tasks, Settle(t) PROVE LoopVictim'
  BY <1>36 DEF Settle, HasPendingInTurn, Goto
<1>37. ASSUME NEW t \in Tasks, SettleMail(t) PROVE LoopVictim'
  BY <1>37 DEF SettleMail, Goto
<1>38. ASSUME NEW t \in Tasks, Recheck(t) PROVE LoopVictim'
  BY <1>38 DEF Recheck, HasPendingInTurn, Goto
<1>39. ASSUME NEW t \in Tasks, RecheckMail(t) PROVE LoopVictim'
  BY <1>39 DEF RecheckMail, Goto
<1>40. ASSUME NEW t \in Tasks, ObserveCancel(t) PROVE LoopVictim'
  BY <1>40 DEF ObserveCancel, Record, Goto
<1>41. ASSUME NEW t \in Tasks, Finish(t) PROVE LoopVictim'
  BY <1>41 DEF Finish, Goto
<1>42. ASSUME NEW t \in Tasks, Detach(t) PROVE LoopVictim'
  BY <1>42 DEF Detach, Goto
<1>43. ASSUME NEW t \in Tasks, Collect(t) PROVE LoopVictim'
  BY <1>43 DEF Collect, Record, Goto
<1>44. ASSUME NEW t \in Tasks, Announce(t) PROVE LoopVictim'
  BY <1>44 DEF Announce, Goto
<1>45. ASSUME NEW t \in Tasks, Release(t) PROVE LoopVictim'
  BY <1>45 DEF Release, Goto
<1>46. CASE UNCHANGED vars
  BY <1>46 DEF vars
<1> HIDE TurnEngineAssumption
    DEF queueVars, slotVars, frameVars, ghostVars, Actors, Controllers, LoopInv, LoopStarts,
        Inv, TypeOK, FramesOK, Places, LoopAlone, LoopSlot, LoopVictim, LoopTasks,
        Announced, StartLabels, AbortLabels, IdleLabels, RunLabels, EndLabels, InRun
<1>47. QED
  BY <1>1, <1>2, <1>3, <1>4, <1>5, <1>6, <1>7, <1>8, <1>9, <1>10, <1>11, <1>12, <1>13, <1>14,
     <1>15, <1>16, <1>17, <1>18, <1>19, <1>20, <1>21, <1>22, <1>23, <1>24, <1>25, <1>26, <1>27,
     <1>28, <1>29, <1>30, <1>31, <1>32, <1>33, <1>34, <1>35, <1>36, <1>37, <1>38, <1>39, <1>40,
     <1>41, <1>42, <1>43, <1>44, <1>45, <1>46
  DEF Next, Submit, Call, Idle, Abort, Start, Run, Model, End

\* A task leaves the slot by its own end or by the loop's abort, which cancels it.
LEMMA LoopTasksNext == LoopInv /\ [Next]_vars => LoopTasks'
<1> SUFFICES ASSUME LoopInv, [Next]_vars PROVE LoopTasks'
  OBVIOUS
<1> USE TurnEngineAssumption
    DEF queueVars, slotVars, frameVars, ghostVars, Actors, Controllers, LoopInv, LoopStarts,
        Inv, TypeOK, FramesOK, Places, LoopAlone, LoopSlot, LoopVictim, LoopTasks,
        Allocated, StartLabels, AbortLabels, IdleLabels, RunLabels, EndLabels, InRun
<1>1. ASSUME NEW u \in UserInputs, Steer(u) PROVE LoopTasks'
  BY <1>1 DEF Steer, LoopReady, Running
<1>2. ASSUME NEW u \in UserInputs, SteerRefused(u) PROVE LoopTasks'
  BY <1>2 DEF SteerRefused, LoopReady, Running
<1>3. ASSUME NEW u \in UserInputs, UserTurn(u) PROVE LoopTasks'
  BY <1>3 DEF UserTurn, LoopReady, Running, Goto
<1>4. ASSUME NEW k \in {"compact", "shell"}, SpawnOther(k) PROVE LoopTasks'
  BY <1>4 DEF SpawnOther, LoopReady, Command, Running, Goto
<1>5. ASSUME NEW op \in {"interrupt", "shutdown"}, Interrupt(op) PROVE LoopTasks'
  BY <1>5 DEF Interrupt, LoopReady, Command, Goto
<1>6. CASE ForceStop
  BY <1>6 DEF ForceStop, Command, Goto
<1>7. ASSUME NEW m \in TriggerMail \cup QueueMail, Mail(m) PROVE LoopTasks'
  BY <1>7 DEF Mail, LoopReady, Goto
<1>8. ASSUME NEW t \in Tasks, Answer(t) PROVE LoopTasks'
  BY <1>8 DEF Answer, LoopReady, Goto
<1>9. ASSUME NEW a \in Controllers, AbortNothing(a) PROVE LoopTasks'
  BY <1>9 DEF AbortNothing, AfterAbort, Goto
<1>10. ASSUME NEW a \in Controllers, AbortTake(a) PROVE LoopTasks'
  BY <1>10 DEF AbortTake, Goto
<1>11. ASSUME NEW a \in Controllers, AbortKill(a) PROVE LoopTasks'
  BY <1>11 DEF AbortKill, Goto
<1>12. ASSUME NEW a \in Controllers, AbortClear(a) PROVE LoopTasks'
  BY <1>12 DEF AbortClear, Goto
<1>13. ASSUME NEW a \in Actors, Wake(a) PROVE LoopTasks'
  BY <1>13 DEF Wake, Back, Goto
<1>14. ASSUME NEW a \in Actors, WakeReserve(a) PROVE LoopTasks'
  BY <1>14 DEF WakeReserve, Reserve, Back, Goto
<1>15. ASSUME NEW a \in Actors, StartPull(a) PROVE LoopTasks'
  BY <1>15 DEF StartPull, TakePending, Goto
<1>16. ASSUME NEW a \in Actors, StartDrain(a) PROVE LoopTasks'
  BY <1>16 DEF StartDrain, DrainMailbox, Goto
<1>17. ASSUME NEW a \in Actors, StartAttach(a) PROVE LoopTasks'
  BY <1>17 DEF StartAttach, GetOrInsert, Reserve, Goto
<1>18. ASSUME NEW a \in Actors, StartInstall(a) PROVE LoopTasks'
  BY <1>18 DEF StartInstall, GetOrInsert, Reserve, Back
<1>19. ASSUME NEW g \in GoalItems, TryStartIfIdle(g) PROVE LoopTasks'
  BY <1>19 DEF TryStartIfIdle, Goto
<1>20. CASE IdleReserve
  BY <1>20 DEF IdleReserve, Reserve, Refuse, Goto
<1>21. ASSUME NEW here, NEW next,
              <<here, next>> \in {<<"idleTest1", "idleTest2">>, <<"idleTest2", "idleConfirm">>},
              IdleTest(here, next)
       PROVE LoopTasks'
  BY <1>21 DEF IdleTest, StillReserved, Refuse, Goto
<1>22. CASE IdleConfirm
  BY <1>22 DEF IdleConfirm, StillReserved, Refuse, Goto
<1>23. ASSUME NEW i \in Injected, Inject(i) PROVE LoopTasks'
  BY <1>23 DEF Inject, Record
<1>24. ASSUME NEW t \in Tasks, RunTurn(t) PROVE LoopTasks'
  BY <1>24 DEF RunTurn, Record, Goto
<1>25. ASSUME NEW t \in Tasks, RunTurnFails(t) PROVE LoopTasks'
  BY <1>25 DEF RunTurnFails, Goto
<1>26. ASSUME NEW t \in Tasks, RunOther(t) PROVE LoopTasks'
  BY <1>26 DEF RunOther, Goto
<1>27. ASSUME NEW t \in Tasks, TakeInput(t) PROVE LoopTasks'
  BY <1>27 DEF TakeInput, TakePending, Goto
<1>28. ASSUME NEW t \in Tasks, TakeMail(t) PROVE LoopTasks'
  BY <1>28 DEF TakeMail, DrainMailbox, Goto
<1>29. ASSUME NEW t \in Tasks, RecordInput(t) PROVE LoopTasks'
  BY <1>29 DEF RecordInput, Record, Goto
<1>30. ASSUME NEW t \in Tasks, Message(t) PROVE LoopTasks'
  BY <1>30 DEF Message, Sampling
<1>31. ASSUME NEW t \in Tasks, ToolCall(t) PROVE LoopTasks'
  BY <1>31 DEF ToolCall, Sampling, AcceptMail, Goto
<1>32. ASSUME NEW t \in Tasks, Ask(t) PROVE LoopTasks'
  BY <1>32 DEF Ask, Goto
<1>33. ASSUME NEW t \in Tasks, SampleEnd(t) PROVE LoopTasks'
  BY <1>33 DEF SampleEnd, Goto
<1>34. ASSUME NEW t \in Tasks, SampleMoreEnd(t) PROVE LoopTasks'
  BY <1>34 DEF SampleMoreEnd, AcceptMail, Goto
<1>35. ASSUME NEW t \in Tasks, SampleError(t) PROVE LoopTasks'
  BY <1>35 DEF SampleError, Sampling, Goto
<1>36. ASSUME NEW t \in Tasks, Settle(t) PROVE LoopTasks'
  BY <1>36 DEF Settle, HasPendingInTurn, Goto
<1>37. ASSUME NEW t \in Tasks, SettleMail(t) PROVE LoopTasks'
  BY <1>37 DEF SettleMail, Goto
<1>38. ASSUME NEW t \in Tasks, Recheck(t) PROVE LoopTasks'
  BY <1>38 DEF Recheck, HasPendingInTurn, Goto
<1>39. ASSUME NEW t \in Tasks, RecheckMail(t) PROVE LoopTasks'
  BY <1>39 DEF RecheckMail, Goto
<1>40. ASSUME NEW t \in Tasks, ObserveCancel(t) PROVE LoopTasks'
  BY <1>40 DEF ObserveCancel, Record, Goto
<1>41. ASSUME NEW t \in Tasks, Finish(t) PROVE LoopTasks'
  BY <1>41 DEF Finish, Goto
<1>42. ASSUME NEW t \in Tasks, Detach(t) PROVE LoopTasks'
  BY <1>42 DEF Detach, Goto
<1>43. ASSUME NEW t \in Tasks, Collect(t) PROVE LoopTasks'
  BY <1>43 DEF Collect, Record, Goto
<1>44. ASSUME NEW t \in Tasks, Announce(t) PROVE LoopTasks'
  BY <1>44 DEF Announce, Goto
<1>45. ASSUME NEW t \in Tasks, Release(t) PROVE LoopTasks'
  BY <1>45 DEF Release, Goto
<1>46. CASE UNCHANGED vars
  BY <1>46 DEF vars
<1> HIDE TurnEngineAssumption
    DEF queueVars, slotVars, frameVars, ghostVars, Actors, Controllers, LoopInv, LoopStarts,
        Inv, TypeOK, FramesOK, Places, LoopAlone, LoopSlot, LoopVictim, LoopTasks,
        Allocated, StartLabels, AbortLabels, IdleLabels, RunLabels, EndLabels, InRun
<1>47. QED
  BY <1>1, <1>2, <1>3, <1>4, <1>5, <1>6, <1>7, <1>8, <1>9, <1>10, <1>11, <1>12, <1>13, <1>14,
     <1>15, <1>16, <1>17, <1>18, <1>19, <1>20, <1>21, <1>22, <1>23, <1>24, <1>25, <1>26, <1>27,
     <1>28, <1>29, <1>30, <1>31, <1>32, <1>33, <1>34, <1>35, <1>36, <1>37, <1>38, <1>39, <1>40,
     <1>41, <1>42, <1>43, <1>44, <1>45, <1>46
  DEF Next, Submit, Call, Idle, Abort, Start, Run, Model, End

\* The end of a task is announced by the task, or by the abort that took it.
LEMMA LoopAnnouncedNext == LoopInv /\ [Next]_vars => Announced'
<1> SUFFICES ASSUME LoopInv, [Next]_vars PROVE Announced'
  OBVIOUS
<1> USE TurnEngineAssumption
    DEF queueVars, slotVars, frameVars, ghostVars, Actors, Controllers, LoopInv, LoopStarts,
        Inv, TypeOK, FramesOK, Places, LoopAlone, LoopSlot, LoopVictim, LoopTasks,
        Announced, StartLabels, AbortLabels, IdleLabels, RunLabels, EndLabels, InRun
<1>1. ASSUME NEW u \in UserInputs, Steer(u) PROVE Announced'
  BY <1>1 DEF Steer, LoopReady, Running
<1>2. ASSUME NEW u \in UserInputs, SteerRefused(u) PROVE Announced'
  BY <1>2 DEF SteerRefused, LoopReady, Running
<1>3. ASSUME NEW u \in UserInputs, UserTurn(u) PROVE Announced'
  BY <1>3 DEF UserTurn, LoopReady, Running, Goto
<1>4. ASSUME NEW k \in {"compact", "shell"}, SpawnOther(k) PROVE Announced'
  BY <1>4 DEF SpawnOther, LoopReady, Command, Running, Goto
<1>5. ASSUME NEW op \in {"interrupt", "shutdown"}, Interrupt(op) PROVE Announced'
  BY <1>5 DEF Interrupt, LoopReady, Command, Goto
<1>6. CASE ForceStop
  BY <1>6 DEF ForceStop, Command, Goto
<1>7. ASSUME NEW m \in TriggerMail \cup QueueMail, Mail(m) PROVE Announced'
  BY <1>7 DEF Mail, LoopReady, Goto
<1>8. ASSUME NEW t \in Tasks, Answer(t) PROVE Announced'
  BY <1>8 DEF Answer, LoopReady, Goto
<1>9. ASSUME NEW a \in Controllers, AbortNothing(a) PROVE Announced'
  BY <1>9 DEF AbortNothing, AfterAbort, Goto
<1>10. ASSUME NEW a \in Controllers, AbortTake(a) PROVE Announced'
  BY <1>10 DEF AbortTake, Goto
<1>11. ASSUME NEW a \in Controllers, AbortKill(a) PROVE Announced'
  BY <1>11 DEF AbortKill, Goto
<1>12. ASSUME NEW a \in Controllers, AbortClear(a) PROVE Announced'
  BY <1>12 DEF AbortClear, Goto
<1>13. ASSUME NEW a \in Actors, Wake(a) PROVE Announced'
  BY <1>13 DEF Wake, Back, Goto
<1>14. ASSUME NEW a \in Actors, WakeReserve(a) PROVE Announced'
  BY <1>14 DEF WakeReserve, Reserve, Back, Goto
<1>15. ASSUME NEW a \in Actors, StartPull(a) PROVE Announced'
  BY <1>15 DEF StartPull, TakePending, Goto
<1>16. ASSUME NEW a \in Actors, StartDrain(a) PROVE Announced'
  BY <1>16 DEF StartDrain, DrainMailbox, Goto
<1>17. ASSUME NEW a \in Actors, StartAttach(a) PROVE Announced'
  BY <1>17 DEF StartAttach, GetOrInsert, Reserve, Goto
<1>18. ASSUME NEW a \in Actors, StartInstall(a) PROVE Announced'
  BY <1>18 DEF StartInstall, GetOrInsert, Reserve, Back
<1>19. ASSUME NEW g \in GoalItems, TryStartIfIdle(g) PROVE Announced'
  BY <1>19 DEF TryStartIfIdle, Goto
<1>20. CASE IdleReserve
  BY <1>20 DEF IdleReserve, Reserve, Refuse, Goto
<1>21. ASSUME NEW here, NEW next,
              <<here, next>> \in {<<"idleTest1", "idleTest2">>, <<"idleTest2", "idleConfirm">>},
              IdleTest(here, next)
       PROVE Announced'
  BY <1>21 DEF IdleTest, StillReserved, Refuse, Goto
<1>22. CASE IdleConfirm
  BY <1>22 DEF IdleConfirm, StillReserved, Refuse, Goto
<1>23. ASSUME NEW i \in Injected, Inject(i) PROVE Announced'
  BY <1>23 DEF Inject, Record
<1>24. ASSUME NEW t \in Tasks, RunTurn(t) PROVE Announced'
  BY <1>24 DEF RunTurn, Record, Goto
<1>25. ASSUME NEW t \in Tasks, RunTurnFails(t) PROVE Announced'
  BY <1>25 DEF RunTurnFails, Goto
<1>26. ASSUME NEW t \in Tasks, RunOther(t) PROVE Announced'
  BY <1>26 DEF RunOther, Goto
<1>27. ASSUME NEW t \in Tasks, TakeInput(t) PROVE Announced'
  BY <1>27 DEF TakeInput, TakePending, Goto
<1>28. ASSUME NEW t \in Tasks, TakeMail(t) PROVE Announced'
  BY <1>28 DEF TakeMail, DrainMailbox, Goto
<1>29. ASSUME NEW t \in Tasks, RecordInput(t) PROVE Announced'
  BY <1>29 DEF RecordInput, Record, Goto
<1>30. ASSUME NEW t \in Tasks, Message(t) PROVE Announced'
  BY <1>30 DEF Message, Sampling
<1>31. ASSUME NEW t \in Tasks, ToolCall(t) PROVE Announced'
  BY <1>31 DEF ToolCall, Sampling, AcceptMail, Goto
<1>32. ASSUME NEW t \in Tasks, Ask(t) PROVE Announced'
  BY <1>32 DEF Ask, Goto
<1>33. ASSUME NEW t \in Tasks, SampleEnd(t) PROVE Announced'
  BY <1>33 DEF SampleEnd, Goto
<1>34. ASSUME NEW t \in Tasks, SampleMoreEnd(t) PROVE Announced'
  BY <1>34 DEF SampleMoreEnd, AcceptMail, Goto
<1>35. ASSUME NEW t \in Tasks, SampleError(t) PROVE Announced'
  BY <1>35 DEF SampleError, Sampling, Goto
<1>36. ASSUME NEW t \in Tasks, Settle(t) PROVE Announced'
  BY <1>36 DEF Settle, HasPendingInTurn, Goto
<1>37. ASSUME NEW t \in Tasks, SettleMail(t) PROVE Announced'
  BY <1>37 DEF SettleMail, Goto
<1>38. ASSUME NEW t \in Tasks, Recheck(t) PROVE Announced'
  BY <1>38 DEF Recheck, HasPendingInTurn, Goto
<1>39. ASSUME NEW t \in Tasks, RecheckMail(t) PROVE Announced'
  BY <1>39 DEF RecheckMail, Goto
<1>40. ASSUME NEW t \in Tasks, ObserveCancel(t) PROVE Announced'
  BY <1>40 DEF ObserveCancel, Record, Goto
<1>41. ASSUME NEW t \in Tasks, Finish(t) PROVE Announced'
  BY <1>41 DEF Finish, Goto
<1>42. ASSUME NEW t \in Tasks, Detach(t) PROVE Announced'
  BY <1>42 DEF Detach, Goto
<1>43. ASSUME NEW t \in Tasks, Collect(t) PROVE Announced'
  BY <1>43 DEF Collect, Record, Goto
<1>44. ASSUME NEW t \in Tasks, Announce(t) PROVE Announced'
  BY <1>44 DEF Announce, Goto
<1>45. ASSUME NEW t \in Tasks, Release(t) PROVE Announced'
  BY <1>45 DEF Release, Goto
<1>46. CASE UNCHANGED vars
  BY <1>46 DEF vars
<1> HIDE TurnEngineAssumption
    DEF queueVars, slotVars, frameVars, ghostVars, Actors, Controllers, LoopInv, LoopStarts,
        Inv, TypeOK, FramesOK, Places, LoopAlone, LoopSlot, LoopVictim, LoopTasks,
        Announced, StartLabels, AbortLabels, IdleLabels, RunLabels, EndLabels, InRun
<1>47. QED
  BY <1>1, <1>2, <1>3, <1>4, <1>5, <1>6, <1>7, <1>8, <1>9, <1>10, <1>11, <1>12, <1>13, <1>14,
     <1>15, <1>16, <1>17, <1>18, <1>19, <1>20, <1>21, <1>22, <1>23, <1>24, <1>25, <1>26, <1>27,
     <1>28, <1>29, <1>30, <1>31, <1>32, <1>33, <1>34, <1>35, <1>36, <1>37, <1>38, <1>39, <1>40,
     <1>41, <1>42, <1>43, <1>44, <1>45, <1>46
  DEF Next, Submit, Call, Idle, Abort, Start, Run, Model, End

\* No action that aborts is enabled.
LEMMA MailNobodyAbortsNext == MailInv /\ [Next]_vars => NobodyAborts'
<1> SUFFICES ASSUME MailInv, [Next]_vars PROVE NobodyAborts'
  OBVIOUS
<1> USE TurnEngineAssumption
    DEF queueVars, slotVars, frameVars, ghostVars, Actors, Controllers, MailInv, NoAborts,
        Inv, TypeOK, FramesOK, Places, NobodyAborts, OneOwner, Owns, OwnerTask, StartLabels,
        AbortLabels, IdleLabels, RunLabels, EndLabels, InRun
<1>1. ASSUME NEW u \in UserInputs, Steer(u) PROVE NobodyAborts'
  BY <1>1 DEF Steer, LoopReady, Running
<1>2. ASSUME NEW u \in UserInputs, SteerRefused(u) PROVE NobodyAborts'
  BY <1>2 DEF SteerRefused, LoopReady, Running
<1>3. ASSUME NEW u \in UserInputs, UserTurn(u) PROVE NobodyAborts'
  BY <1>3 DEF UserTurn, LoopReady, Running, Goto
<1>4. ASSUME NEW k \in {"compact", "shell"}, SpawnOther(k) PROVE NobodyAborts'
  BY <1>4 DEF SpawnOther, LoopReady, Command, Running, Goto
<1>5. ASSUME NEW op \in {"interrupt", "shutdown"}, Interrupt(op) PROVE NobodyAborts'
  BY <1>5 DEF Interrupt, LoopReady, Command, Goto
<1>6. CASE ForceStop
  BY <1>6 DEF ForceStop, Command, Goto
<1>7. ASSUME NEW m \in TriggerMail \cup QueueMail, Mail(m) PROVE NobodyAborts'
  BY <1>7 DEF Mail, LoopReady, Goto
<1>8. ASSUME NEW t \in Tasks, Answer(t) PROVE NobodyAborts'
  BY <1>8 DEF Answer, LoopReady, Goto
<1>9. ASSUME NEW a \in Controllers, AbortNothing(a) PROVE NobodyAborts'
  BY <1>9 DEF AbortNothing, AfterAbort, Goto
<1>10. ASSUME NEW a \in Controllers, AbortTake(a) PROVE NobodyAborts'
  BY <1>10 DEF AbortTake, Goto
<1>11. ASSUME NEW a \in Controllers, AbortKill(a) PROVE NobodyAborts'
  BY <1>11 DEF AbortKill, Goto
<1>12. ASSUME NEW a \in Controllers, AbortClear(a) PROVE NobodyAborts'
  BY <1>12 DEF AbortClear, Goto
<1>13. ASSUME NEW a \in Actors, Wake(a) PROVE NobodyAborts'
  BY <1>13 DEF Wake, Back, Goto
<1>14. ASSUME NEW a \in Actors, WakeReserve(a) PROVE NobodyAborts'
  BY <1>14 DEF WakeReserve, Reserve, Back, Goto
<1>15. ASSUME NEW a \in Actors, StartPull(a) PROVE NobodyAborts'
  BY <1>15 DEF StartPull, TakePending, Goto
<1>16. ASSUME NEW a \in Actors, StartDrain(a) PROVE NobodyAborts'
  BY <1>16 DEF StartDrain, DrainMailbox, Goto
<1>17. ASSUME NEW a \in Actors, StartAttach(a) PROVE NobodyAborts'
  BY <1>17 DEF StartAttach, GetOrInsert, Reserve, Goto
<1>18. ASSUME NEW a \in Actors, StartInstall(a) PROVE NobodyAborts'
  BY <1>18 DEF StartInstall, GetOrInsert, Reserve, Back
<1>19. ASSUME NEW g \in GoalItems, TryStartIfIdle(g) PROVE NobodyAborts'
  BY <1>19 DEF TryStartIfIdle, Goto
<1>20. CASE IdleReserve
  BY <1>20 DEF IdleReserve, Reserve, Refuse, Goto
<1>21. ASSUME NEW here, NEW next,
              <<here, next>> \in {<<"idleTest1", "idleTest2">>, <<"idleTest2", "idleConfirm">>},
              IdleTest(here, next)
       PROVE NobodyAborts'
  BY <1>21 DEF IdleTest, StillReserved, Refuse, Goto
<1>22. CASE IdleConfirm
  BY <1>22 DEF IdleConfirm, StillReserved, Refuse, Goto
<1>23. ASSUME NEW i \in Injected, Inject(i) PROVE NobodyAborts'
  BY <1>23 DEF Inject, Record
<1>24. ASSUME NEW t \in Tasks, RunTurn(t) PROVE NobodyAborts'
  BY <1>24 DEF RunTurn, Record, Goto
<1>25. ASSUME NEW t \in Tasks, RunTurnFails(t) PROVE NobodyAborts'
  BY <1>25 DEF RunTurnFails, Goto
<1>26. ASSUME NEW t \in Tasks, RunOther(t) PROVE NobodyAborts'
  BY <1>26 DEF RunOther, Goto
<1>27. ASSUME NEW t \in Tasks, TakeInput(t) PROVE NobodyAborts'
  BY <1>27 DEF TakeInput, TakePending, Goto
<1>28. ASSUME NEW t \in Tasks, TakeMail(t) PROVE NobodyAborts'
  BY <1>28 DEF TakeMail, DrainMailbox, Goto
<1>29. ASSUME NEW t \in Tasks, RecordInput(t) PROVE NobodyAborts'
  BY <1>29 DEF RecordInput, Record, Goto
<1>30. ASSUME NEW t \in Tasks, Message(t) PROVE NobodyAborts'
  BY <1>30 DEF Message, Sampling
<1>31. ASSUME NEW t \in Tasks, ToolCall(t) PROVE NobodyAborts'
  BY <1>31 DEF ToolCall, Sampling, AcceptMail, Goto
<1>32. ASSUME NEW t \in Tasks, Ask(t) PROVE NobodyAborts'
  BY <1>32 DEF Ask, Goto
<1>33. ASSUME NEW t \in Tasks, SampleEnd(t) PROVE NobodyAborts'
  BY <1>33 DEF SampleEnd, Goto
<1>34. ASSUME NEW t \in Tasks, SampleMoreEnd(t) PROVE NobodyAborts'
  BY <1>34 DEF SampleMoreEnd, AcceptMail, Goto
<1>35. ASSUME NEW t \in Tasks, SampleError(t) PROVE NobodyAborts'
  BY <1>35 DEF SampleError, Sampling, Goto
<1>36. ASSUME NEW t \in Tasks, Settle(t) PROVE NobodyAborts'
  BY <1>36 DEF Settle, HasPendingInTurn, Goto
<1>37. ASSUME NEW t \in Tasks, SettleMail(t) PROVE NobodyAborts'
  BY <1>37 DEF SettleMail, Goto
<1>38. ASSUME NEW t \in Tasks, Recheck(t) PROVE NobodyAborts'
  BY <1>38 DEF Recheck, HasPendingInTurn, Goto
<1>39. ASSUME NEW t \in Tasks, RecheckMail(t) PROVE NobodyAborts'
  BY <1>39 DEF RecheckMail, Goto
<1>40. ASSUME NEW t \in Tasks, ObserveCancel(t) PROVE NobodyAborts'
  BY <1>40 DEF ObserveCancel, Record, Goto
<1>41. ASSUME NEW t \in Tasks, Finish(t) PROVE NobodyAborts'
  BY <1>41 DEF Finish, Goto
<1>42. ASSUME NEW t \in Tasks, Detach(t) PROVE NobodyAborts'
  BY <1>42 DEF Detach, Goto
<1>43. ASSUME NEW t \in Tasks, Collect(t) PROVE NobodyAborts'
  BY <1>43 DEF Collect, Record, Goto
<1>44. ASSUME NEW t \in Tasks, Announce(t) PROVE NobodyAborts'
  BY <1>44 DEF Announce, Goto
<1>45. ASSUME NEW t \in Tasks, Release(t) PROVE NobodyAborts'
  BY <1>45 DEF Release, Goto
<1>46. CASE UNCHANGED vars
  BY <1>46 DEF vars
<1> HIDE TurnEngineAssumption
    DEF queueVars, slotVars, frameVars, ghostVars, Actors, Controllers, MailInv, NoAborts,
        Inv, TypeOK, FramesOK, Places, NobodyAborts, OneOwner, Owns, OwnerTask, StartLabels,
        AbortLabels, IdleLabels, RunLabels, EndLabels, InRun
<1>47. QED
  BY <1>1, <1>2, <1>3, <1>4, <1>5, <1>6, <1>7, <1>8, <1>9, <1>10, <1>11, <1>12, <1>13, <1>14,
     <1>15, <1>16, <1>17, <1>18, <1>19, <1>20, <1>21, <1>22, <1>23, <1>24, <1>25, <1>26, <1>27,
     <1>28, <1>29, <1>30, <1>31, <1>32, <1>33, <1>34, <1>35, <1>36, <1>37, <1>38, <1>39, <1>40,
     <1>41, <1>42, <1>43, <1>44, <1>45, <1>46
  DEF Next, Submit, Call, Idle, Abort, Start, Run, Model, End

\* A second owner would have had to find the slot empty.
LEMMA MailOneOwnerNext == MailInv /\ [Next]_vars => OneOwner'
<1> SUFFICES ASSUME MailInv, [Next]_vars PROVE OneOwner'
  OBVIOUS
<1> USE TurnEngineAssumption
    DEF queueVars, slotVars, frameVars, ghostVars, Actors, Controllers, MailInv, NoAborts,
        Inv, TypeOK, FramesOK, Places, NobodyAborts, OneOwner, Owns, OwnerTask, Allocated,
        StartLabels, AbortLabels, IdleLabels, RunLabels, EndLabels, InRun
<1>1. ASSUME NEW u \in UserInputs, Steer(u) PROVE OneOwner'
  BY <1>1 DEF Steer, LoopReady, Running
<1>2. ASSUME NEW u \in UserInputs, SteerRefused(u) PROVE OneOwner'
  BY <1>2 DEF SteerRefused, LoopReady, Running
<1>3. ASSUME NEW u \in UserInputs, UserTurn(u) PROVE OneOwner'
  BY <1>3 DEF UserTurn, LoopReady, Running, Goto
<1>4. ASSUME NEW k \in {"compact", "shell"}, SpawnOther(k) PROVE OneOwner'
  BY <1>4 DEF SpawnOther, LoopReady, Command, Running, Goto
<1>5. ASSUME NEW op \in {"interrupt", "shutdown"}, Interrupt(op) PROVE OneOwner'
  BY <1>5 DEF Interrupt, LoopReady, Command, Goto
<1>6. CASE ForceStop
  BY <1>6 DEF ForceStop, Command, Goto
<1>7. ASSUME NEW m \in TriggerMail \cup QueueMail, Mail(m) PROVE OneOwner'
  BY <1>7 DEF Mail, LoopReady, Goto
<1>8. ASSUME NEW t \in Tasks, Answer(t) PROVE OneOwner'
  BY <1>8 DEF Answer, LoopReady, Goto
<1>9. ASSUME NEW a \in Controllers, AbortNothing(a) PROVE OneOwner'
  BY <1>9 DEF AbortNothing, AfterAbort, Goto
<1>10. ASSUME NEW a \in Controllers, AbortTake(a) PROVE OneOwner'
  BY <1>10 DEF AbortTake, Goto
<1>11. ASSUME NEW a \in Controllers, AbortKill(a) PROVE OneOwner'
  BY <1>11 DEF AbortKill, Goto
<1>12. ASSUME NEW a \in Controllers, AbortClear(a) PROVE OneOwner'
  BY <1>12 DEF AbortClear, Goto
<1>13. ASSUME NEW a \in Actors, Wake(a) PROVE OneOwner'
  BY <1>13 DEF Wake, Back, Goto
<1>14. ASSUME NEW a \in Actors, WakeReserve(a) PROVE OneOwner'
  BY <1>14 DEF WakeReserve, Reserve, Back, Goto
<1>15. ASSUME NEW a \in Actors, StartPull(a) PROVE OneOwner'
  BY <1>15 DEF StartPull, TakePending, Goto
<1>16. ASSUME NEW a \in Actors, StartDrain(a) PROVE OneOwner'
  BY <1>16 DEF StartDrain, DrainMailbox, Goto
<1>17. ASSUME NEW a \in Actors, StartAttach(a) PROVE OneOwner'
  BY <1>17 DEF StartAttach, GetOrInsert, Reserve, Goto
<1>18. ASSUME NEW a \in Actors, StartInstall(a) PROVE OneOwner'
  BY <1>18 DEF StartInstall, GetOrInsert, Reserve, Back
<1>19. ASSUME NEW g \in GoalItems, TryStartIfIdle(g) PROVE OneOwner'
  BY <1>19 DEF TryStartIfIdle, Goto
<1>20. CASE IdleReserve
  BY <1>20 DEF IdleReserve, Reserve, Refuse, Goto
<1>21. ASSUME NEW here, NEW next,
              <<here, next>> \in {<<"idleTest1", "idleTest2">>, <<"idleTest2", "idleConfirm">>},
              IdleTest(here, next)
       PROVE OneOwner'
  BY <1>21 DEF IdleTest, StillReserved, Refuse, Goto
<1>22. CASE IdleConfirm
  BY <1>22 DEF IdleConfirm, StillReserved, Refuse, Goto
<1>23. ASSUME NEW i \in Injected, Inject(i) PROVE OneOwner'
  BY <1>23 DEF Inject, Record
<1>24. ASSUME NEW t \in Tasks, RunTurn(t) PROVE OneOwner'
  BY <1>24 DEF RunTurn, Record, Goto
<1>25. ASSUME NEW t \in Tasks, RunTurnFails(t) PROVE OneOwner'
  BY <1>25 DEF RunTurnFails, Goto
<1>26. ASSUME NEW t \in Tasks, RunOther(t) PROVE OneOwner'
  BY <1>26 DEF RunOther, Goto
<1>27. ASSUME NEW t \in Tasks, TakeInput(t) PROVE OneOwner'
  BY <1>27 DEF TakeInput, TakePending, Goto
<1>28. ASSUME NEW t \in Tasks, TakeMail(t) PROVE OneOwner'
  BY <1>28 DEF TakeMail, DrainMailbox, Goto
<1>29. ASSUME NEW t \in Tasks, RecordInput(t) PROVE OneOwner'
  BY <1>29 DEF RecordInput, Record, Goto
<1>30. ASSUME NEW t \in Tasks, Message(t) PROVE OneOwner'
  BY <1>30 DEF Message, Sampling
<1>31. ASSUME NEW t \in Tasks, ToolCall(t) PROVE OneOwner'
  BY <1>31 DEF ToolCall, Sampling, AcceptMail, Goto
<1>32. ASSUME NEW t \in Tasks, Ask(t) PROVE OneOwner'
  BY <1>32 DEF Ask, Goto
<1>33. ASSUME NEW t \in Tasks, SampleEnd(t) PROVE OneOwner'
  BY <1>33 DEF SampleEnd, Goto
<1>34. ASSUME NEW t \in Tasks, SampleMoreEnd(t) PROVE OneOwner'
  BY <1>34 DEF SampleMoreEnd, AcceptMail, Goto
<1>35. ASSUME NEW t \in Tasks, SampleError(t) PROVE OneOwner'
  BY <1>35 DEF SampleError, Sampling, Goto
<1>36. ASSUME NEW t \in Tasks, Settle(t) PROVE OneOwner'
  BY <1>36 DEF Settle, HasPendingInTurn, Goto
<1>37. ASSUME NEW t \in Tasks, SettleMail(t) PROVE OneOwner'
  BY <1>37 DEF SettleMail, Goto
<1>38. ASSUME NEW t \in Tasks, Recheck(t) PROVE OneOwner'
  BY <1>38 DEF Recheck, HasPendingInTurn, Goto
<1>39. ASSUME NEW t \in Tasks, RecheckMail(t) PROVE OneOwner'
  BY <1>39 DEF RecheckMail, Goto
<1>40. ASSUME NEW t \in Tasks, ObserveCancel(t) PROVE OneOwner'
  BY <1>40 DEF ObserveCancel, Record, Goto
<1>41. ASSUME NEW t \in Tasks, Finish(t) PROVE OneOwner'
  BY <1>41 DEF Finish, Goto
<1>42. ASSUME NEW t \in Tasks, Detach(t) PROVE OneOwner'
  BY <1>42 DEF Detach, Goto
<1>43. ASSUME NEW t \in Tasks, Collect(t) PROVE OneOwner'
  BY <1>43 DEF Collect, Record, Goto
<1>44. ASSUME NEW t \in Tasks, Announce(t) PROVE OneOwner'
  BY <1>44 DEF Announce, Goto
<1>45. ASSUME NEW t \in Tasks, Release(t) PROVE OneOwner'
  BY <1>45 DEF Release, Goto
<1>46. CASE UNCHANGED vars
  BY <1>46 DEF vars
<1> HIDE TurnEngineAssumption
    DEF queueVars, slotVars, frameVars, ghostVars, Actors, Controllers, MailInv, NoAborts,
        Inv, TypeOK, FramesOK, Places, NobodyAborts, OneOwner, Owns, OwnerTask, Allocated,
        StartLabels, AbortLabels, IdleLabels, RunLabels, EndLabels, InRun
<1>47. QED
  BY <1>1, <1>2, <1>3, <1>4, <1>5, <1>6, <1>7, <1>8, <1>9, <1>10, <1>11, <1>12, <1>13, <1>14,
     <1>15, <1>16, <1>17, <1>18, <1>19, <1>20, <1>21, <1>22, <1>23, <1>24, <1>25, <1>26, <1>27,
     <1>28, <1>29, <1>30, <1>31, <1>32, <1>33, <1>34, <1>35, <1>36, <1>37, <1>38, <1>39, <1>40,
     <1>41, <1>42, <1>43, <1>44, <1>45, <1>46
  DEF Next, Submit, Call, Idle, Abort, Start, Run, Model, End

\* A task runs exactly while it is in the slot, and so do its waiters.
LEMMA MailOwnerTaskNext == MailInv /\ [Next]_vars => OwnerTask'
<1> SUFFICES ASSUME MailInv, [Next]_vars PROVE OwnerTask'
  OBVIOUS
<1> USE TurnEngineAssumption
    DEF queueVars, slotVars, frameVars, ghostVars, Actors, Controllers, MailInv, NoAborts,
        Inv, TypeOK, FramesOK, Places, NobodyAborts, OneOwner, Owns, OwnerTask, StartLabels,
        AbortLabels, IdleLabels, RunLabels, EndLabels, InRun
<1>1. ASSUME NEW u \in UserInputs, Steer(u) PROVE OwnerTask'
  BY <1>1 DEF Steer, LoopReady, Running
<1>2. ASSUME NEW u \in UserInputs, SteerRefused(u) PROVE OwnerTask'
  BY <1>2 DEF SteerRefused, LoopReady, Running
<1>3. ASSUME NEW u \in UserInputs, UserTurn(u) PROVE OwnerTask'
  BY <1>3 DEF UserTurn, LoopReady, Running, Goto
<1>4. ASSUME NEW k \in {"compact", "shell"}, SpawnOther(k) PROVE OwnerTask'
  BY <1>4 DEF SpawnOther, LoopReady, Command, Running, Goto
<1>5. ASSUME NEW op \in {"interrupt", "shutdown"}, Interrupt(op) PROVE OwnerTask'
  BY <1>5 DEF Interrupt, LoopReady, Command, Goto
<1>6. CASE ForceStop
  BY <1>6 DEF ForceStop, Command, Goto
<1>7. ASSUME NEW m \in TriggerMail \cup QueueMail, Mail(m) PROVE OwnerTask'
  BY <1>7 DEF Mail, LoopReady, Goto
<1>8. ASSUME NEW t \in Tasks, Answer(t) PROVE OwnerTask'
  BY <1>8 DEF Answer, LoopReady, Goto
<1>9. ASSUME NEW a \in Controllers, AbortNothing(a) PROVE OwnerTask'
  BY <1>9 DEF AbortNothing, AfterAbort, Goto
<1>10. ASSUME NEW a \in Controllers, AbortTake(a) PROVE OwnerTask'
  BY <1>10 DEF AbortTake, Goto
<1>11. ASSUME NEW a \in Controllers, AbortKill(a) PROVE OwnerTask'
  BY <1>11 DEF AbortKill, Goto
<1>12. ASSUME NEW a \in Controllers, AbortClear(a) PROVE OwnerTask'
  BY <1>12 DEF AbortClear, Goto
<1>13. ASSUME NEW a \in Actors, Wake(a) PROVE OwnerTask'
  BY <1>13 DEF Wake, Back, Goto
<1>14. ASSUME NEW a \in Actors, WakeReserve(a) PROVE OwnerTask'
  BY <1>14 DEF WakeReserve, Reserve, Back, Goto
<1>15. ASSUME NEW a \in Actors, StartPull(a) PROVE OwnerTask'
  BY <1>15 DEF StartPull, TakePending, Goto
<1>16. ASSUME NEW a \in Actors, StartDrain(a) PROVE OwnerTask'
  BY <1>16 DEF StartDrain, DrainMailbox, Goto
<1>17. ASSUME NEW a \in Actors, StartAttach(a) PROVE OwnerTask'
  BY <1>17 DEF StartAttach, GetOrInsert, Reserve, Goto
<1>18. ASSUME NEW a \in Actors, StartInstall(a) PROVE OwnerTask'
  BY <1>18 DEF StartInstall, GetOrInsert, Reserve, Back
<1>19. ASSUME NEW g \in GoalItems, TryStartIfIdle(g) PROVE OwnerTask'
  BY <1>19 DEF TryStartIfIdle, Goto
<1>20. CASE IdleReserve
  BY <1>20 DEF IdleReserve, Reserve, Refuse, Goto
<1>21. ASSUME NEW here, NEW next,
              <<here, next>> \in {<<"idleTest1", "idleTest2">>, <<"idleTest2", "idleConfirm">>},
              IdleTest(here, next)
       PROVE OwnerTask'
  BY <1>21 DEF IdleTest, StillReserved, Refuse, Goto
<1>22. CASE IdleConfirm
  BY <1>22 DEF IdleConfirm, StillReserved, Refuse, Goto
<1>23. ASSUME NEW i \in Injected, Inject(i) PROVE OwnerTask'
  BY <1>23 DEF Inject, Record
<1>24. ASSUME NEW t \in Tasks, RunTurn(t) PROVE OwnerTask'
  BY <1>24 DEF RunTurn, Record, Goto
<1>25. ASSUME NEW t \in Tasks, RunTurnFails(t) PROVE OwnerTask'
  BY <1>25 DEF RunTurnFails, Goto
<1>26. ASSUME NEW t \in Tasks, RunOther(t) PROVE OwnerTask'
  BY <1>26 DEF RunOther, Goto
<1>27. ASSUME NEW t \in Tasks, TakeInput(t) PROVE OwnerTask'
  BY <1>27 DEF TakeInput, TakePending, Goto
<1>28. ASSUME NEW t \in Tasks, TakeMail(t) PROVE OwnerTask'
  BY <1>28 DEF TakeMail, DrainMailbox, Goto
<1>29. ASSUME NEW t \in Tasks, RecordInput(t) PROVE OwnerTask'
  BY <1>29 DEF RecordInput, Record, Goto
<1>30. ASSUME NEW t \in Tasks, Message(t) PROVE OwnerTask'
  BY <1>30 DEF Message, Sampling
<1>31. ASSUME NEW t \in Tasks, ToolCall(t) PROVE OwnerTask'
  BY <1>31 DEF ToolCall, Sampling, AcceptMail, Goto
<1>32. ASSUME NEW t \in Tasks, Ask(t) PROVE OwnerTask'
  BY <1>32 DEF Ask, Goto
<1>33. ASSUME NEW t \in Tasks, SampleEnd(t) PROVE OwnerTask'
  BY <1>33 DEF SampleEnd, Goto
<1>34. ASSUME NEW t \in Tasks, SampleMoreEnd(t) PROVE OwnerTask'
  BY <1>34 DEF SampleMoreEnd, AcceptMail, Goto
<1>35. ASSUME NEW t \in Tasks, SampleError(t) PROVE OwnerTask'
  BY <1>35 DEF SampleError, Sampling, Goto
<1>36. ASSUME NEW t \in Tasks, Settle(t) PROVE OwnerTask'
  BY <1>36 DEF Settle, HasPendingInTurn, Goto
<1>37. ASSUME NEW t \in Tasks, SettleMail(t) PROVE OwnerTask'
  BY <1>37 DEF SettleMail, Goto
<1>38. ASSUME NEW t \in Tasks, Recheck(t) PROVE OwnerTask'
  BY <1>38 DEF Recheck, HasPendingInTurn, Goto
<1>39. ASSUME NEW t \in Tasks, RecheckMail(t) PROVE OwnerTask'
  BY <1>39 DEF RecheckMail, Goto
<1>40. ASSUME NEW t \in Tasks, ObserveCancel(t) PROVE OwnerTask'
  BY <1>40 DEF ObserveCancel, Record, Goto
<1>41. ASSUME NEW t \in Tasks, Finish(t) PROVE OwnerTask'
  BY <1>41 DEF Finish, Goto
<1>42. ASSUME NEW t \in Tasks, Detach(t) PROVE OwnerTask'
  BY <1>42 DEF Detach, Goto
<1>43. ASSUME NEW t \in Tasks, Collect(t) PROVE OwnerTask'
  BY <1>43 DEF Collect, Record, Goto
<1>44. ASSUME NEW t \in Tasks, Announce(t) PROVE OwnerTask'
  BY <1>44 DEF Announce, Goto
<1>45. ASSUME NEW t \in Tasks, Release(t) PROVE OwnerTask'
  BY <1>45 DEF Release, Goto
<1>46. CASE UNCHANGED vars
  BY <1>46 DEF vars
<1> HIDE TurnEngineAssumption
    DEF queueVars, slotVars, frameVars, ghostVars, Actors, Controllers, MailInv, NoAborts,
        Inv, TypeOK, FramesOK, Places, NobodyAborts, OneOwner, Owns, OwnerTask, StartLabels,
        AbortLabels, IdleLabels, RunLabels, EndLabels, InRun
<1>47. QED
  BY <1>1, <1>2, <1>3, <1>4, <1>5, <1>6, <1>7, <1>8, <1>9, <1>10, <1>11, <1>12, <1>13, <1>14,
     <1>15, <1>16, <1>17, <1>18, <1>19, <1>20, <1>21, <1>22, <1>23, <1>24, <1>25, <1>26, <1>27,
     <1>28, <1>29, <1>30, <1>31, <1>32, <1>33, <1>34, <1>35, <1>36, <1>37, <1>38, <1>39, <1>40,
     <1>41, <1>42, <1>43, <1>44, <1>45, <1>46
  DEF Next, Submit, Call, Idle, Abort, Start, Run, Model, End

\* The end of a task is announced by the task alone.
LEMMA MailAnnouncedNext == MailInv /\ [Next]_vars => Announced'
<1> SUFFICES ASSUME MailInv, [Next]_vars PROVE Announced'
  OBVIOUS
<1> USE TurnEngineAssumption
    DEF queueVars, slotVars, frameVars, ghostVars, Actors, Controllers, MailInv, NoAborts,
        Inv, TypeOK, FramesOK, Places, NobodyAborts, OneOwner, Owns, OwnerTask, Announced,
        StartLabels, AbortLabels, IdleLabels, RunLabels, EndLabels, InRun
<1>1. ASSUME NEW u \in UserInputs, Steer(u) PROVE Announced'
  BY <1>1 DEF Steer, LoopReady, Running
<1>2. ASSUME NEW u \in UserInputs, SteerRefused(u) PROVE Announced'
  BY <1>2 DEF SteerRefused, LoopReady, Running
<1>3. ASSUME NEW u \in UserInputs, UserTurn(u) PROVE Announced'
  BY <1>3 DEF UserTurn, LoopReady, Running, Goto
<1>4. ASSUME NEW k \in {"compact", "shell"}, SpawnOther(k) PROVE Announced'
  BY <1>4 DEF SpawnOther, LoopReady, Command, Running, Goto
<1>5. ASSUME NEW op \in {"interrupt", "shutdown"}, Interrupt(op) PROVE Announced'
  BY <1>5 DEF Interrupt, LoopReady, Command, Goto
<1>6. CASE ForceStop
  BY <1>6 DEF ForceStop, Command, Goto
<1>7. ASSUME NEW m \in TriggerMail \cup QueueMail, Mail(m) PROVE Announced'
  BY <1>7 DEF Mail, LoopReady, Goto
<1>8. ASSUME NEW t \in Tasks, Answer(t) PROVE Announced'
  BY <1>8 DEF Answer, LoopReady, Goto
<1>9. ASSUME NEW a \in Controllers, AbortNothing(a) PROVE Announced'
  BY <1>9 DEF AbortNothing, AfterAbort, Goto
<1>10. ASSUME NEW a \in Controllers, AbortTake(a) PROVE Announced'
  BY <1>10 DEF AbortTake, Goto
<1>11. ASSUME NEW a \in Controllers, AbortKill(a) PROVE Announced'
  BY <1>11 DEF AbortKill, Goto
<1>12. ASSUME NEW a \in Controllers, AbortClear(a) PROVE Announced'
  BY <1>12 DEF AbortClear, Goto
<1>13. ASSUME NEW a \in Actors, Wake(a) PROVE Announced'
  BY <1>13 DEF Wake, Back, Goto
<1>14. ASSUME NEW a \in Actors, WakeReserve(a) PROVE Announced'
  BY <1>14 DEF WakeReserve, Reserve, Back, Goto
<1>15. ASSUME NEW a \in Actors, StartPull(a) PROVE Announced'
  BY <1>15 DEF StartPull, TakePending, Goto
<1>16. ASSUME NEW a \in Actors, StartDrain(a) PROVE Announced'
  BY <1>16 DEF StartDrain, DrainMailbox, Goto
<1>17. ASSUME NEW a \in Actors, StartAttach(a) PROVE Announced'
  BY <1>17 DEF StartAttach, GetOrInsert, Reserve, Goto
<1>18. ASSUME NEW a \in Actors, StartInstall(a) PROVE Announced'
  BY <1>18 DEF StartInstall, GetOrInsert, Reserve, Back
<1>19. ASSUME NEW g \in GoalItems, TryStartIfIdle(g) PROVE Announced'
  BY <1>19 DEF TryStartIfIdle, Goto
<1>20. CASE IdleReserve
  BY <1>20 DEF IdleReserve, Reserve, Refuse, Goto
<1>21. ASSUME NEW here, NEW next,
              <<here, next>> \in {<<"idleTest1", "idleTest2">>, <<"idleTest2", "idleConfirm">>},
              IdleTest(here, next)
       PROVE Announced'
  BY <1>21 DEF IdleTest, StillReserved, Refuse, Goto
<1>22. CASE IdleConfirm
  BY <1>22 DEF IdleConfirm, StillReserved, Refuse, Goto
<1>23. ASSUME NEW i \in Injected, Inject(i) PROVE Announced'
  BY <1>23 DEF Inject, Record
<1>24. ASSUME NEW t \in Tasks, RunTurn(t) PROVE Announced'
  BY <1>24 DEF RunTurn, Record, Goto
<1>25. ASSUME NEW t \in Tasks, RunTurnFails(t) PROVE Announced'
  BY <1>25 DEF RunTurnFails, Goto
<1>26. ASSUME NEW t \in Tasks, RunOther(t) PROVE Announced'
  BY <1>26 DEF RunOther, Goto
<1>27. ASSUME NEW t \in Tasks, TakeInput(t) PROVE Announced'
  BY <1>27 DEF TakeInput, TakePending, Goto
<1>28. ASSUME NEW t \in Tasks, TakeMail(t) PROVE Announced'
  BY <1>28 DEF TakeMail, DrainMailbox, Goto
<1>29. ASSUME NEW t \in Tasks, RecordInput(t) PROVE Announced'
  BY <1>29 DEF RecordInput, Record, Goto
<1>30. ASSUME NEW t \in Tasks, Message(t) PROVE Announced'
  BY <1>30 DEF Message, Sampling
<1>31. ASSUME NEW t \in Tasks, ToolCall(t) PROVE Announced'
  BY <1>31 DEF ToolCall, Sampling, AcceptMail, Goto
<1>32. ASSUME NEW t \in Tasks, Ask(t) PROVE Announced'
  BY <1>32 DEF Ask, Goto
<1>33. ASSUME NEW t \in Tasks, SampleEnd(t) PROVE Announced'
  BY <1>33 DEF SampleEnd, Goto
<1>34. ASSUME NEW t \in Tasks, SampleMoreEnd(t) PROVE Announced'
  BY <1>34 DEF SampleMoreEnd, AcceptMail, Goto
<1>35. ASSUME NEW t \in Tasks, SampleError(t) PROVE Announced'
  BY <1>35 DEF SampleError, Sampling, Goto
<1>36. ASSUME NEW t \in Tasks, Settle(t) PROVE Announced'
  BY <1>36 DEF Settle, HasPendingInTurn, Goto
<1>37. ASSUME NEW t \in Tasks, SettleMail(t) PROVE Announced'
  BY <1>37 DEF SettleMail, Goto
<1>38. ASSUME NEW t \in Tasks, Recheck(t) PROVE Announced'
  BY <1>38 DEF Recheck, HasPendingInTurn, Goto
<1>39. ASSUME NEW t \in Tasks, RecheckMail(t) PROVE Announced'
  BY <1>39 DEF RecheckMail, Goto
<1>40. ASSUME NEW t \in Tasks, ObserveCancel(t) PROVE Announced'
  BY <1>40 DEF ObserveCancel, Record, Goto
<1>41. ASSUME NEW t \in Tasks, Finish(t) PROVE Announced'
  BY <1>41 DEF Finish, Goto
<1>42. ASSUME NEW t \in Tasks, Detach(t) PROVE Announced'
  BY <1>42 DEF Detach, Goto
<1>43. ASSUME NEW t \in Tasks, Collect(t) PROVE Announced'
  BY <1>43 DEF Collect, Record, Goto
<1>44. ASSUME NEW t \in Tasks, Announce(t) PROVE Announced'
  BY <1>44 DEF Announce, Goto
<1>45. ASSUME NEW t \in Tasks, Release(t) PROVE Announced'
  BY <1>45 DEF Release, Goto
<1>46. CASE UNCHANGED vars
  BY <1>46 DEF vars
<1> HIDE TurnEngineAssumption
    DEF queueVars, slotVars, frameVars, ghostVars, Actors, Controllers, MailInv, NoAborts,
        Inv, TypeOK, FramesOK, Places, NobodyAborts, OneOwner, Owns, OwnerTask, Announced,
        StartLabels, AbortLabels, IdleLabels, RunLabels, EndLabels, InRun
<1>47. QED
  BY <1>1, <1>2, <1>3, <1>4, <1>5, <1>6, <1>7, <1>8, <1>9, <1>10, <1>11, <1>12, <1>13, <1>14,
     <1>15, <1>16, <1>17, <1>18, <1>19, <1>20, <1>21, <1>22, <1>23, <1>24, <1>25, <1>26, <1>27,
     <1>28, <1>29, <1>30, <1>31, <1>32, <1>33, <1>34, <1>35, <1>36, <1>37, <1>38, <1>39, <1>40,
     <1>41, <1>42, <1>43, <1>44, <1>45, <1>46
  DEF Next, Submit, Call, Idle, Abort, Start, Run, Model, End

\* Who empties the slot, and who puts mail beside an empty one, looks at the mailbox afterwards.
LEMMA MailSomebodyLooksNext == MailInv /\ [Next]_vars => SomebodyLooks'
<1> SUFFICES ASSUME MailInv, [Next]_vars PROVE SomebodyLooks'
  OBVIOUS
<1> USE TurnEngineAssumption
    DEF queueVars, slotVars, frameVars, ghostVars, Actors, Controllers, MailInv, NoAborts,
        Inv, TypeOK, FramesOK, Places, NobodyAborts, OneOwner, Owns, OwnerTask,
        SomebodyLooks, WorkWaits, TriggerWaits, StartLabels, AbortLabels, IdleLabels,
        RunLabels, EndLabels, InRun
<1>1. ASSUME NEW u \in UserInputs, Steer(u) PROVE SomebodyLooks'
  BY <1>1 DEF Steer, LoopReady, Running
<1>2. ASSUME NEW u \in UserInputs, SteerRefused(u) PROVE SomebodyLooks'
  BY <1>2 DEF SteerRefused, LoopReady, Running
<1>3. ASSUME NEW u \in UserInputs, UserTurn(u) PROVE SomebodyLooks'
  BY <1>3 DEF UserTurn, LoopReady, Running, Goto
<1>4. ASSUME NEW k \in {"compact", "shell"}, SpawnOther(k) PROVE SomebodyLooks'
  BY <1>4 DEF SpawnOther, LoopReady, Command, Running, Goto
<1>5. ASSUME NEW op \in {"interrupt", "shutdown"}, Interrupt(op) PROVE SomebodyLooks'
  BY <1>5 DEF Interrupt, LoopReady, Command, Goto
<1>6. CASE ForceStop
  BY <1>6 DEF ForceStop, Command, Goto
<1>7. ASSUME NEW m \in TriggerMail \cup QueueMail, Mail(m) PROVE SomebodyLooks'
  BY <1>7 DEF Mail, LoopReady, Goto
<1>8. ASSUME NEW t \in Tasks, Answer(t) PROVE SomebodyLooks'
  BY <1>8 DEF Answer, LoopReady, Goto
<1>9. ASSUME NEW a \in Controllers, AbortNothing(a) PROVE SomebodyLooks'
  BY <1>9 DEF AbortNothing, AfterAbort, Goto
<1>10. ASSUME NEW a \in Controllers, AbortTake(a) PROVE SomebodyLooks'
  BY <1>10 DEF AbortTake, Goto
<1>11. ASSUME NEW a \in Controllers, AbortKill(a) PROVE SomebodyLooks'
  BY <1>11 DEF AbortKill, Goto
<1>12. ASSUME NEW a \in Controllers, AbortClear(a) PROVE SomebodyLooks'
  BY <1>12 DEF AbortClear, Goto
<1>13. ASSUME NEW a \in Actors, Wake(a) PROVE SomebodyLooks'
  BY <1>13 DEF Wake, Back, Goto
<1>14. ASSUME NEW a \in Actors, WakeReserve(a) PROVE SomebodyLooks'
  BY <1>14 DEF WakeReserve, Reserve, Back, Goto
<1>15. ASSUME NEW a \in Actors, StartPull(a) PROVE SomebodyLooks'
  BY <1>15 DEF StartPull, TakePending, Goto
<1>16. ASSUME NEW a \in Actors, StartDrain(a) PROVE SomebodyLooks'
  BY <1>16 DEF StartDrain, DrainMailbox, Goto
<1>17. ASSUME NEW a \in Actors, StartAttach(a) PROVE SomebodyLooks'
  BY <1>17 DEF StartAttach, GetOrInsert, Reserve, Goto
<1>18. ASSUME NEW a \in Actors, StartInstall(a) PROVE SomebodyLooks'
  BY <1>18 DEF StartInstall, GetOrInsert, Reserve, Back
<1>19. ASSUME NEW g \in GoalItems, TryStartIfIdle(g) PROVE SomebodyLooks'
  BY <1>19 DEF TryStartIfIdle, Goto
<1>20. CASE IdleReserve
  BY <1>20 DEF IdleReserve, Reserve, Refuse, Goto
<1>21. ASSUME NEW here, NEW next,
              <<here, next>> \in {<<"idleTest1", "idleTest2">>, <<"idleTest2", "idleConfirm">>},
              IdleTest(here, next)
       PROVE SomebodyLooks'
  BY <1>21 DEF IdleTest, StillReserved, Refuse, Goto
<1>22. CASE IdleConfirm
  BY <1>22 DEF IdleConfirm, StillReserved, Refuse, Goto
<1>23. ASSUME NEW i \in Injected, Inject(i) PROVE SomebodyLooks'
  BY <1>23 DEF Inject, Record
<1>24. ASSUME NEW t \in Tasks, RunTurn(t) PROVE SomebodyLooks'
  BY <1>24 DEF RunTurn, Record, Goto
<1>25. ASSUME NEW t \in Tasks, RunTurnFails(t) PROVE SomebodyLooks'
  BY <1>25 DEF RunTurnFails, Goto
<1>26. ASSUME NEW t \in Tasks, RunOther(t) PROVE SomebodyLooks'
  BY <1>26 DEF RunOther, Goto
<1>27. ASSUME NEW t \in Tasks, TakeInput(t) PROVE SomebodyLooks'
  BY <1>27 DEF TakeInput, TakePending, Goto
<1>28. ASSUME NEW t \in Tasks, TakeMail(t) PROVE SomebodyLooks'
  BY <1>28 DEF TakeMail, DrainMailbox, Goto
<1>29. ASSUME NEW t \in Tasks, RecordInput(t) PROVE SomebodyLooks'
  BY <1>29 DEF RecordInput, Record, Goto
<1>30. ASSUME NEW t \in Tasks, Message(t) PROVE SomebodyLooks'
  BY <1>30 DEF Message, Sampling
<1>31. ASSUME NEW t \in Tasks, ToolCall(t) PROVE SomebodyLooks'
  BY <1>31 DEF ToolCall, Sampling, AcceptMail, Goto
<1>32. ASSUME NEW t \in Tasks, Ask(t) PROVE SomebodyLooks'
  BY <1>32 DEF Ask, Goto
<1>33. ASSUME NEW t \in Tasks, SampleEnd(t) PROVE SomebodyLooks'
  BY <1>33 DEF SampleEnd, Goto
<1>34. ASSUME NEW t \in Tasks, SampleMoreEnd(t) PROVE SomebodyLooks'
  BY <1>34 DEF SampleMoreEnd, AcceptMail, Goto
<1>35. ASSUME NEW t \in Tasks, SampleError(t) PROVE SomebodyLooks'
  BY <1>35 DEF SampleError, Sampling, Goto
<1>36. ASSUME NEW t \in Tasks, Settle(t) PROVE SomebodyLooks'
  BY <1>36 DEF Settle, HasPendingInTurn, Goto
<1>37. ASSUME NEW t \in Tasks, SettleMail(t) PROVE SomebodyLooks'
  BY <1>37 DEF SettleMail, Goto
<1>38. ASSUME NEW t \in Tasks, Recheck(t) PROVE SomebodyLooks'
  BY <1>38 DEF Recheck, HasPendingInTurn, Goto
<1>39. ASSUME NEW t \in Tasks, RecheckMail(t) PROVE SomebodyLooks'
  BY <1>39 DEF RecheckMail, Goto
<1>40. ASSUME NEW t \in Tasks, ObserveCancel(t) PROVE SomebodyLooks'
  BY <1>40 DEF ObserveCancel, Record, Goto
<1>41. ASSUME NEW t \in Tasks, Finish(t) PROVE SomebodyLooks'
  BY <1>41 DEF Finish, Goto
<1>42. ASSUME NEW t \in Tasks, Detach(t) PROVE SomebodyLooks'
  BY <1>42 DEF Detach, Goto
<1>43. ASSUME NEW t \in Tasks, Collect(t) PROVE SomebodyLooks'
  BY <1>43 DEF Collect, Record, Goto
<1>44. ASSUME NEW t \in Tasks, Announce(t) PROVE SomebodyLooks'
  BY <1>44 DEF Announce, Goto
<1>45. ASSUME NEW t \in Tasks, Release(t) PROVE SomebodyLooks'
  BY <1>45 DEF Release, Goto
<1>46. CASE UNCHANGED vars
  BY <1>46 DEF vars
<1> HIDE TurnEngineAssumption
    DEF queueVars, slotVars, frameVars, ghostVars, Actors, Controllers, MailInv, NoAborts,
        Inv, TypeOK, FramesOK, Places, NobodyAborts, OneOwner, Owns, OwnerTask,
        SomebodyLooks, WorkWaits, TriggerWaits, StartLabels, AbortLabels, IdleLabels,
        RunLabels, EndLabels, InRun
<1>47. QED
  BY <1>1, <1>2, <1>3, <1>4, <1>5, <1>6, <1>7, <1>8, <1>9, <1>10, <1>11, <1>12, <1>13, <1>14,
     <1>15, <1>16, <1>17, <1>18, <1>19, <1>20, <1>21, <1>22, <1>23, <1>24, <1>25, <1>26, <1>27,
     <1>28, <1>29, <1>30, <1>31, <1>32, <1>33, <1>34, <1>35, <1>36, <1>37, <1>38, <1>39, <1>40,
     <1>41, <1>42, <1>43, <1>44, <1>45, <1>46
  DEF Next, Submit, Call, Idle, Abort, Start, Run, Model, End

\* An abort whose grace period is over moves two actors: itself and the task it cancelled.
LEMMA KillMoves ==
    ASSUME Guarded, NEW a \in Controllers, AbortKill(a)
    PROVE /\ a \in Actors /\ victim[a] \in Tasks /\ victim[a] \in Actors /\ victim[a] # a
          /\ victim[a] \in cancelled /\ pc[a] = "grace" /\ pc'[a] = "clear"
          /\ pc[victim[a]] \in RunLabels \cup {"done"}
          /\ pc'[victim[a]] = IF pc[victim[a]] = "done" THEN "done" ELSE "killed"
          /\ \A b \in Actors : b # a /\ b # victim[a] => pc'[b] = pc[b]
          /\ UNCHANGED <<queueVars, slotVars, frameVars, ghostVars, history, cancelled>>
<1> USE TurnEngineAssumption
    DEF Actors, Controllers
<1>1. /\ a \in Actors /\ victim[a] \in Tasks /\ victim[a] \in Actors /\ victim[a] # a
      /\ pc \in [Actors -> Labels] /\ pc[a] = "grace"
  BY DEF Guarded, Inv, TypeOK, FramesOK, AbortKill
<1>2. victim[a] \in cancelled /\ pc[victim[a]] \in RunLabels \cup {"done"}
  BY <1>1 DEF Guarded
<1>3. /\ pc'[a] = "clear" /\ pc'[victim[a]] = IF pc[victim[a]] = "done" THEN "done" ELSE "killed"
      /\ \A b \in Actors : b # a /\ b # victim[a] => pc'[b] = pc[b]
  BY <1>1 DEF AbortKill
<1>4. QED
  BY <1>1, <1>2, <1>3 DEF AbortKill

\* What an actor drained it hands on before it goes elsewhere, unless it is aborted.
LEMMA InHandNext == Guarded /\ ItemInv /\ [Next]_vars => InHand'
<1> SUFFICES ASSUME Guarded, ItemInv, [Next]_vars PROVE InHand'
  OBVIOUS
<1> USE TurnEngineAssumption
    DEF queueVars, slotVars, frameVars, ghostVars, Actors, Controllers, Guarded, Inv,
        TypeOK, FramesOK, Places, ItemInv, InHand, StartFindsNoTask, Kinds, StartLabels,
        AbortLabels, IdleLabels, RunLabels, EndLabels, InRun
<1>1. ASSUME NEW u \in UserInputs, Steer(u) PROVE InHand'
  BY <1>1 DEF Steer, LoopReady, Running
<1>2. ASSUME NEW u \in UserInputs, SteerRefused(u) PROVE InHand'
  BY <1>2 DEF SteerRefused, LoopReady, Running
<1>3. ASSUME NEW u \in UserInputs, UserTurn(u) PROVE InHand'
  BY <1>3 DEF UserTurn, LoopReady, Running, Goto
<1>4. ASSUME NEW k \in {"compact", "shell"}, SpawnOther(k) PROVE InHand'
  BY <1>4 DEF SpawnOther, LoopReady, Command, Running, Goto
<1>5. ASSUME NEW op \in {"interrupt", "shutdown"}, Interrupt(op) PROVE InHand'
  BY <1>5 DEF Interrupt, LoopReady, Command, Goto
<1>6. CASE ForceStop
  BY <1>6 DEF ForceStop, Command, Goto
<1>7. ASSUME NEW m \in TriggerMail \cup QueueMail, Mail(m) PROVE InHand'
  BY <1>7 DEF Mail, LoopReady, Goto
<1>8. ASSUME NEW t \in Tasks, Answer(t) PROVE InHand'
  BY <1>8 DEF Answer, LoopReady, Goto
<1>9. ASSUME NEW a \in Controllers, AbortNothing(a) PROVE InHand'
  BY <1>9 DEF AbortNothing, AfterAbort, Goto
<1>10. ASSUME NEW a \in Controllers, AbortTake(a) PROVE InHand'
  BY <1>10 DEF AbortTake, Goto
<1>11. ASSUME NEW a \in Controllers, AbortKill(a) PROVE InHand'
  <2>1. InHand
    OBVIOUS
  <2> HIDE TurnEngineAssumption
      DEF Guarded, Inv, TypeOK, FramesOK, Places, ItemInv, StartFindsNoTask
  <2>2. QED
    BY <1>11, <2>1, KillMoves
<1>12. ASSUME NEW a \in Controllers, AbortClear(a) PROVE InHand'
  BY <1>12 DEF AbortClear, Goto
<1>13. ASSUME NEW a \in Actors, Wake(a) PROVE InHand'
  BY <1>13 DEF Wake, Back, Goto
<1>14. ASSUME NEW a \in Actors, WakeReserve(a) PROVE InHand'
  BY <1>14 DEF WakeReserve, Reserve, Back, Goto
<1>15. ASSUME NEW a \in Actors, StartPull(a) PROVE InHand'
  BY <1>15 DEF StartPull, TakePending, Goto
<1>16. ASSUME NEW a \in Actors, StartDrain(a) PROVE InHand'
  BY <1>16 DEF StartDrain, DrainMailbox, Goto
<1>17. ASSUME NEW a \in Actors, StartAttach(a) PROVE InHand'
  BY <1>17 DEF StartAttach, GetOrInsert, Reserve, Goto
<1>18. ASSUME NEW a \in Actors, StartInstall(a) PROVE InHand'
  BY <1>18 DEF StartInstall, GetOrInsert, Reserve, Back
<1>19. ASSUME NEW g \in GoalItems, TryStartIfIdle(g) PROVE InHand'
  BY <1>19 DEF TryStartIfIdle, Goto
<1>20. CASE IdleReserve
  BY <1>20 DEF IdleReserve, Reserve, Refuse, Goto
<1>21. ASSUME NEW here, NEW next,
              <<here, next>> \in {<<"idleTest1", "idleTest2">>, <<"idleTest2", "idleConfirm">>},
              IdleTest(here, next)
       PROVE InHand'
  BY <1>21 DEF IdleTest, StillReserved, Refuse, Goto
<1>22. CASE IdleConfirm
  BY <1>22 DEF IdleConfirm, StillReserved, Refuse, Goto
<1>23. ASSUME NEW i \in Injected, Inject(i) PROVE InHand'
  BY <1>23 DEF Inject, Record
<1>24. ASSUME NEW t \in Tasks, RunTurn(t) PROVE InHand'
  BY <1>24 DEF RunTurn, Record, Goto
<1>25. ASSUME NEW t \in Tasks, RunTurnFails(t) PROVE InHand'
  BY <1>25 DEF RunTurnFails, Goto
<1>26. ASSUME NEW t \in Tasks, RunOther(t) PROVE InHand'
  BY <1>26 DEF RunOther, Goto
<1>27. ASSUME NEW t \in Tasks, TakeInput(t) PROVE InHand'
  BY <1>27 DEF TakeInput, TakePending, Goto
<1>28. ASSUME NEW t \in Tasks, TakeMail(t) PROVE InHand'
  BY <1>28 DEF TakeMail, DrainMailbox, Goto
<1>29. ASSUME NEW t \in Tasks, RecordInput(t) PROVE InHand'
  BY <1>29 DEF RecordInput, Record, Goto
<1>30. ASSUME NEW t \in Tasks, Message(t) PROVE InHand'
  BY <1>30 DEF Message, Sampling
<1>31. ASSUME NEW t \in Tasks, ToolCall(t) PROVE InHand'
  BY <1>31 DEF ToolCall, Sampling, AcceptMail, Goto
<1>32. ASSUME NEW t \in Tasks, Ask(t) PROVE InHand'
  BY <1>32 DEF Ask, Goto
<1>33. ASSUME NEW t \in Tasks, SampleEnd(t) PROVE InHand'
  BY <1>33 DEF SampleEnd, Goto
<1>34. ASSUME NEW t \in Tasks, SampleMoreEnd(t) PROVE InHand'
  BY <1>34 DEF SampleMoreEnd, AcceptMail, Goto
<1>35. ASSUME NEW t \in Tasks, SampleError(t) PROVE InHand'
  BY <1>35 DEF SampleError, Sampling, Goto
<1>36. ASSUME NEW t \in Tasks, Settle(t) PROVE InHand'
  BY <1>36 DEF Settle, HasPendingInTurn, Goto
<1>37. ASSUME NEW t \in Tasks, SettleMail(t) PROVE InHand'
  BY <1>37 DEF SettleMail, Goto
<1>38. ASSUME NEW t \in Tasks, Recheck(t) PROVE InHand'
  BY <1>38 DEF Recheck, HasPendingInTurn, Goto
<1>39. ASSUME NEW t \in Tasks, RecheckMail(t) PROVE InHand'
  BY <1>39 DEF RecheckMail, Goto
<1>40. ASSUME NEW t \in Tasks, ObserveCancel(t) PROVE InHand'
  BY <1>40 DEF ObserveCancel, Record, Goto
<1>41. ASSUME NEW t \in Tasks, Finish(t) PROVE InHand'
  BY <1>41 DEF Finish, Goto
<1>42. ASSUME NEW t \in Tasks, Detach(t) PROVE InHand'
  BY <1>42 DEF Detach, Goto
<1>43. ASSUME NEW t \in Tasks, Collect(t) PROVE InHand'
  BY <1>43 DEF Collect, Record, Goto
<1>44. ASSUME NEW t \in Tasks, Announce(t) PROVE InHand'
  BY <1>44 DEF Announce, Goto
<1>45. ASSUME NEW t \in Tasks, Release(t) PROVE InHand'
  BY <1>45 DEF Release, Goto
<1>46. CASE UNCHANGED vars
  BY <1>46 DEF vars
<1> HIDE TurnEngineAssumption
    DEF queueVars, slotVars, frameVars, ghostVars, Actors, Controllers, Guarded, Inv,
        TypeOK, FramesOK, Places, ItemInv, InHand, StartFindsNoTask, Kinds, StartLabels,
        AbortLabels, IdleLabels, RunLabels, EndLabels, InRun
<1>47. QED
  BY <1>1, <1>2, <1>3, <1>4, <1>5, <1>6, <1>7, <1>8, <1>9, <1>10, <1>11, <1>12, <1>13, <1>14,
     <1>15, <1>16, <1>17, <1>18, <1>19, <1>20, <1>21, <1>22, <1>23, <1>24, <1>25, <1>26, <1>27,
     <1>28, <1>29, <1>30, <1>31, <1>32, <1>33, <1>34, <1>35, <1>36, <1>37, <1>38, <1>39, <1>40,
     <1>41, <1>42, <1>43, <1>44, <1>45, <1>46
  DEF Next, Submit, Call, Idle, Abort, Start, Run, Model, End

\* A turn state is held only between taking it from the slot and letting go of it.
LEMMA InFrameNext == Guarded /\ ItemInv /\ [Next]_vars => InFrame'
<1> SUFFICES ASSUME Guarded, ItemInv, [Next]_vars PROVE InFrame'
  OBVIOUS
<1> USE TurnEngineAssumption
    DEF queueVars, slotVars, frameVars, ghostVars, Actors, Controllers, Guarded, Inv,
        TypeOK, FramesOK, Places, ItemInv, InFrame, StartFindsNoTask, StartLabels,
        AbortLabels, IdleLabels, RunLabels, EndLabels, InRun
<1>1. ASSUME NEW u \in UserInputs, Steer(u) PROVE InFrame'
  BY <1>1 DEF Steer, LoopReady, Running
<1>2. ASSUME NEW u \in UserInputs, SteerRefused(u) PROVE InFrame'
  BY <1>2 DEF SteerRefused, LoopReady, Running
<1>3. ASSUME NEW u \in UserInputs, UserTurn(u) PROVE InFrame'
  BY <1>3 DEF UserTurn, LoopReady, Running, Goto
<1>4. ASSUME NEW k \in {"compact", "shell"}, SpawnOther(k) PROVE InFrame'
  BY <1>4 DEF SpawnOther, LoopReady, Command, Running, Goto
<1>5. ASSUME NEW op \in {"interrupt", "shutdown"}, Interrupt(op) PROVE InFrame'
  BY <1>5 DEF Interrupt, LoopReady, Command, Goto
<1>6. CASE ForceStop
  BY <1>6 DEF ForceStop, Command, Goto
<1>7. ASSUME NEW m \in TriggerMail \cup QueueMail, Mail(m) PROVE InFrame'
  BY <1>7 DEF Mail, LoopReady, Goto
<1>8. ASSUME NEW t \in Tasks, Answer(t) PROVE InFrame'
  BY <1>8 DEF Answer, LoopReady, Goto
<1>9. ASSUME NEW a \in Controllers, AbortNothing(a) PROVE InFrame'
  BY <1>9 DEF AbortNothing, AfterAbort, Goto
<1>10. ASSUME NEW a \in Controllers, AbortTake(a) PROVE InFrame'
  BY <1>10 DEF AbortTake, Goto
<1>11. ASSUME NEW a \in Controllers, AbortKill(a) PROVE InFrame'
  <2>1. /\ InFrame /\ stateOf' = stateOf
        /\ \A b \in Actors : b # a /\ b # victim[a] => pc'[b] = pc[b]
        /\ pc'[a] = "clear" /\ pc[victim[a]] \in RunLabels \cup {"done"}
    BY <1>11, KillMoves DEF frameVars
  <2> HIDE TurnEngineAssumption
      DEF Guarded, Inv, TypeOK, FramesOK, Places, ItemInv, StartFindsNoTask
  <2>2. QED
    BY <2>1
<1>12. ASSUME NEW a \in Controllers, AbortClear(a) PROVE InFrame'
  BY <1>12 DEF AbortClear, Goto
<1>13. ASSUME NEW a \in Actors, Wake(a) PROVE InFrame'
  BY <1>13 DEF Wake, Back, Goto
<1>14. ASSUME NEW a \in Actors, WakeReserve(a) PROVE InFrame'
  BY <1>14 DEF WakeReserve, Reserve, Back, Goto
<1>15. ASSUME NEW a \in Actors, StartPull(a) PROVE InFrame'
  BY <1>15 DEF StartPull, TakePending, Goto
<1>16. ASSUME NEW a \in Actors, StartDrain(a) PROVE InFrame'
  BY <1>16 DEF StartDrain, DrainMailbox, Goto
<1>17. ASSUME NEW a \in Actors, StartAttach(a) PROVE InFrame'
  BY <1>17 DEF StartAttach, GetOrInsert, Reserve, Goto
<1>18. ASSUME NEW a \in Actors, StartInstall(a) PROVE InFrame'
  BY <1>18 DEF StartInstall, GetOrInsert, Reserve, Back
<1>19. ASSUME NEW g \in GoalItems, TryStartIfIdle(g) PROVE InFrame'
  BY <1>19 DEF TryStartIfIdle, Goto
<1>20. CASE IdleReserve
  BY <1>20 DEF IdleReserve, Reserve, Refuse, Goto
<1>21. ASSUME NEW here, NEW next,
              <<here, next>> \in {<<"idleTest1", "idleTest2">>, <<"idleTest2", "idleConfirm">>},
              IdleTest(here, next)
       PROVE InFrame'
  BY <1>21 DEF IdleTest, StillReserved, Refuse, Goto
<1>22. CASE IdleConfirm
  BY <1>22 DEF IdleConfirm, StillReserved, Refuse, Goto
<1>23. ASSUME NEW i \in Injected, Inject(i) PROVE InFrame'
  BY <1>23 DEF Inject, Record
<1>24. ASSUME NEW t \in Tasks, RunTurn(t) PROVE InFrame'
  BY <1>24 DEF RunTurn, Record, Goto
<1>25. ASSUME NEW t \in Tasks, RunTurnFails(t) PROVE InFrame'
  BY <1>25 DEF RunTurnFails, Goto
<1>26. ASSUME NEW t \in Tasks, RunOther(t) PROVE InFrame'
  BY <1>26 DEF RunOther, Goto
<1>27. ASSUME NEW t \in Tasks, TakeInput(t) PROVE InFrame'
  BY <1>27 DEF TakeInput, TakePending, Goto
<1>28. ASSUME NEW t \in Tasks, TakeMail(t) PROVE InFrame'
  BY <1>28 DEF TakeMail, DrainMailbox, Goto
<1>29. ASSUME NEW t \in Tasks, RecordInput(t) PROVE InFrame'
  BY <1>29 DEF RecordInput, Record, Goto
<1>30. ASSUME NEW t \in Tasks, Message(t) PROVE InFrame'
  BY <1>30 DEF Message, Sampling
<1>31. ASSUME NEW t \in Tasks, ToolCall(t) PROVE InFrame'
  BY <1>31 DEF ToolCall, Sampling, AcceptMail, Goto
<1>32. ASSUME NEW t \in Tasks, Ask(t) PROVE InFrame'
  BY <1>32 DEF Ask, Goto
<1>33. ASSUME NEW t \in Tasks, SampleEnd(t) PROVE InFrame'
  BY <1>33 DEF SampleEnd, Goto
<1>34. ASSUME NEW t \in Tasks, SampleMoreEnd(t) PROVE InFrame'
  BY <1>34 DEF SampleMoreEnd, AcceptMail, Goto
<1>35. ASSUME NEW t \in Tasks, SampleError(t) PROVE InFrame'
  BY <1>35 DEF SampleError, Sampling, Goto
<1>36. ASSUME NEW t \in Tasks, Settle(t) PROVE InFrame'
  BY <1>36 DEF Settle, HasPendingInTurn, Goto
<1>37. ASSUME NEW t \in Tasks, SettleMail(t) PROVE InFrame'
  BY <1>37 DEF SettleMail, Goto
<1>38. ASSUME NEW t \in Tasks, Recheck(t) PROVE InFrame'
  BY <1>38 DEF Recheck, HasPendingInTurn, Goto
<1>39. ASSUME NEW t \in Tasks, RecheckMail(t) PROVE InFrame'
  BY <1>39 DEF RecheckMail, Goto
<1>40. ASSUME NEW t \in Tasks, ObserveCancel(t) PROVE InFrame'
  BY <1>40 DEF ObserveCancel, Record, Goto
<1>41. ASSUME NEW t \in Tasks, Finish(t) PROVE InFrame'
  BY <1>41 DEF Finish, Goto
<1>42. ASSUME NEW t \in Tasks, Detach(t) PROVE InFrame'
  BY <1>42 DEF Detach, Goto
<1>43. ASSUME NEW t \in Tasks, Collect(t) PROVE InFrame'
  BY <1>43 DEF Collect, Record, Goto
<1>44. ASSUME NEW t \in Tasks, Announce(t) PROVE InFrame'
  BY <1>44 DEF Announce, Goto
<1>45. ASSUME NEW t \in Tasks, Release(t) PROVE InFrame'
  BY <1>45 DEF Release, Goto
<1>46. CASE UNCHANGED vars
  BY <1>46 DEF vars
<1> HIDE TurnEngineAssumption
    DEF queueVars, slotVars, frameVars, ghostVars, Actors, Controllers, Guarded, Inv,
        TypeOK, FramesOK, Places, ItemInv, InFrame, StartFindsNoTask, StartLabels,
        AbortLabels, IdleLabels, RunLabels, EndLabels, InRun
<1>47. QED
  BY <1>1, <1>2, <1>3, <1>4, <1>5, <1>6, <1>7, <1>8, <1>9, <1>10, <1>11, <1>12, <1>13, <1>14,
     <1>15, <1>16, <1>17, <1>18, <1>19, <1>20, <1>21, <1>22, <1>23, <1>24, <1>25, <1>26, <1>27,
     <1>28, <1>29, <1>30, <1>31, <1>32, <1>33, <1>34, <1>35, <1>36, <1>37, <1>38, <1>39, <1>40,
     <1>41, <1>42, <1>43, <1>44, <1>45, <1>46
  DEF Next, Submit, Call, Idle, Abort, Start, Run, Model, End

\* Nobody gives input to a turn that has been collected, or that is only reserved.
LEMMA EmptiedNext == Guarded /\ ItemInv /\ [Next]_vars => Emptied'
<1> SUFFICES ASSUME Guarded, ItemInv, [Next]_vars PROVE Emptied'
  OBVIOUS
<1> USE TurnEngineAssumption
    DEF queueVars, slotVars, frameVars, ghostVars, Actors, Controllers, Guarded, Inv,
        TypeOK, FramesOK, Places, Allocated, ItemInv, InFrame, Emptied, StartFindsNoTask,
        StartLabels, AbortLabels, IdleLabels, RunLabels, EndLabels, InRun
<1>1. ASSUME NEW u \in UserInputs, Steer(u) PROVE Emptied'
  BY <1>1 DEF Steer, LoopReady, Running
<1>2. ASSUME NEW u \in UserInputs, SteerRefused(u) PROVE Emptied'
  BY <1>2 DEF SteerRefused, LoopReady, Running
<1>3. ASSUME NEW u \in UserInputs, UserTurn(u) PROVE Emptied'
  BY <1>3 DEF UserTurn, LoopReady, Running, Goto
<1>4. ASSUME NEW k \in {"compact", "shell"}, SpawnOther(k) PROVE Emptied'
  BY <1>4 DEF SpawnOther, LoopReady, Command, Running, Goto
<1>5. ASSUME NEW op \in {"interrupt", "shutdown"}, Interrupt(op) PROVE Emptied'
  BY <1>5 DEF Interrupt, LoopReady, Command, Goto
<1>6. CASE ForceStop
  BY <1>6 DEF ForceStop, Command, Goto
<1>7. ASSUME NEW m \in TriggerMail \cup QueueMail, Mail(m) PROVE Emptied'
  BY <1>7 DEF Mail, LoopReady, Goto
<1>8. ASSUME NEW t \in Tasks, Answer(t) PROVE Emptied'
  BY <1>8 DEF Answer, LoopReady, Goto
<1>9. ASSUME NEW a \in Controllers, AbortNothing(a) PROVE Emptied'
  BY <1>9 DEF AbortNothing, AfterAbort, Goto
<1>10. ASSUME NEW a \in Controllers, AbortTake(a) PROVE Emptied'
  BY <1>10 DEF AbortTake, Goto
<1>11. ASSUME NEW a \in Controllers, AbortKill(a) PROVE Emptied'
  BY <1>11 DEF AbortKill, Goto
<1>12. ASSUME NEW a \in Controllers, AbortClear(a) PROVE Emptied'
  BY <1>12 DEF AbortClear, Goto
<1>13. ASSUME NEW a \in Actors, Wake(a) PROVE Emptied'
  BY <1>13 DEF Wake, Back, Goto
<1>14. ASSUME NEW a \in Actors, WakeReserve(a) PROVE Emptied'
  BY <1>14 DEF WakeReserve, Reserve, Back, Goto
<1>15. ASSUME NEW a \in Actors, StartPull(a) PROVE Emptied'
  <2>1. \A s \in TurnStates : pending'[s] = pending[s] \/ pending'[s] = {}
    BY <1>15 DEF StartPull, TakePending
  <2>2. /\ stateOf' = stateOf /\ used' = used
        /\ \A b \in Actors : pc'[b] = pc[b] \/ pc'[b] \in {"drain", "attach"}
    BY <1>15 DEF StartPull, TakePending, Goto
  <2>3. QED
    BY <2>1, <2>2
<1>16. ASSUME NEW a \in Actors, StartDrain(a) PROVE Emptied'
  BY <1>16 DEF StartDrain, DrainMailbox, Goto
<1>17. ASSUME NEW a \in Actors, StartAttach(a) PROVE Emptied'
  BY <1>17 DEF StartAttach, GetOrInsert, Reserve, Goto
<1>18. ASSUME NEW a \in Actors, StartInstall(a) PROVE Emptied'
  BY <1>18 DEF StartInstall, GetOrInsert, Reserve, Back
<1>19. ASSUME NEW g \in GoalItems, TryStartIfIdle(g) PROVE Emptied'
  BY <1>19 DEF TryStartIfIdle, Goto
<1>20. CASE IdleReserve
  BY <1>20 DEF IdleReserve, Reserve, Refuse, Goto
<1>21. ASSUME NEW here, NEW next,
              <<here, next>> \in {<<"idleTest1", "idleTest2">>, <<"idleTest2", "idleConfirm">>},
              IdleTest(here, next)
       PROVE Emptied'
  BY <1>21 DEF IdleTest, StillReserved, Refuse, Goto
<1>22. CASE IdleConfirm
  BY <1>22 DEF IdleConfirm, StillReserved, Refuse, Goto
<1>23. ASSUME NEW i \in Injected, Inject(i) PROVE Emptied'
  BY <1>23 DEF Inject, Record
<1>24. ASSUME NEW t \in Tasks, RunTurn(t) PROVE Emptied'
  BY <1>24 DEF RunTurn, Record, Goto
<1>25. ASSUME NEW t \in Tasks, RunTurnFails(t) PROVE Emptied'
  BY <1>25 DEF RunTurnFails, Goto
<1>26. ASSUME NEW t \in Tasks, RunOther(t) PROVE Emptied'
  BY <1>26 DEF RunOther, Goto
<1>27. ASSUME NEW t \in Tasks, TakeInput(t) PROVE Emptied'
  <2>1. \A s \in TurnStates : pending'[s] = pending[s] \/ pending'[s] = {}
    BY <1>27 DEF TakeInput, TakePending
  <2>2. /\ stateOf' = stateOf /\ used' = used
        /\ \A b \in Actors : pc'[b] = pc[b] \/ pc'[b] \in {"takeMail", "record"}
    BY <1>27 DEF TakeInput, TakePending, Goto
  <2>3. QED
    BY <2>1, <2>2
<1>28. ASSUME NEW t \in Tasks, TakeMail(t) PROVE Emptied'
  BY <1>28 DEF TakeMail, DrainMailbox, Goto
<1>29. ASSUME NEW t \in Tasks, RecordInput(t) PROVE Emptied'
  BY <1>29 DEF RecordInput, Record, Goto
<1>30. ASSUME NEW t \in Tasks, Message(t) PROVE Emptied'
  BY <1>30 DEF Message, Sampling
<1>31. ASSUME NEW t \in Tasks, ToolCall(t) PROVE Emptied'
  BY <1>31 DEF ToolCall, Sampling, AcceptMail, Goto
<1>32. ASSUME NEW t \in Tasks, Ask(t) PROVE Emptied'
  BY <1>32 DEF Ask, Goto
<1>33. ASSUME NEW t \in Tasks, SampleEnd(t) PROVE Emptied'
  BY <1>33 DEF SampleEnd, Goto
<1>34. ASSUME NEW t \in Tasks, SampleMoreEnd(t) PROVE Emptied'
  BY <1>34 DEF SampleMoreEnd, AcceptMail, Goto
<1>35. ASSUME NEW t \in Tasks, SampleError(t) PROVE Emptied'
  BY <1>35 DEF SampleError, Sampling, Goto
<1>36. ASSUME NEW t \in Tasks, Settle(t) PROVE Emptied'
  BY <1>36 DEF Settle, HasPendingInTurn, Goto
<1>37. ASSUME NEW t \in Tasks, SettleMail(t) PROVE Emptied'
  BY <1>37 DEF SettleMail, Goto
<1>38. ASSUME NEW t \in Tasks, Recheck(t) PROVE Emptied'
  BY <1>38 DEF Recheck, HasPendingInTurn, Goto
<1>39. ASSUME NEW t \in Tasks, RecheckMail(t) PROVE Emptied'
  BY <1>39 DEF RecheckMail, Goto
<1>40. ASSUME NEW t \in Tasks, ObserveCancel(t) PROVE Emptied'
  BY <1>40 DEF ObserveCancel, Record, Goto
<1>41. ASSUME NEW t \in Tasks, Finish(t) PROVE Emptied'
  BY <1>41 DEF Finish, Goto
<1>42. ASSUME NEW t \in Tasks, Detach(t) PROVE Emptied'
  BY <1>42 DEF Detach, Goto
<1>43. ASSUME NEW t \in Tasks, Collect(t) PROVE Emptied'
  BY <1>43 DEF Collect, Record, Goto
<1>44. ASSUME NEW t \in Tasks, Announce(t) PROVE Emptied'
  BY <1>44 DEF Announce, Goto
<1>45. ASSUME NEW t \in Tasks, Release(t) PROVE Emptied'
  BY <1>45 DEF Release, Goto
<1>46. CASE UNCHANGED vars
  BY <1>46 DEF vars
<1> HIDE TurnEngineAssumption
    DEF queueVars, slotVars, frameVars, ghostVars, Actors, Controllers, Guarded, Inv,
        TypeOK, FramesOK, Places, Allocated, ItemInv, InFrame, Emptied, StartFindsNoTask,
        StartLabels, AbortLabels, IdleLabels, RunLabels, EndLabels, InRun
<1>47. QED
  BY <1>1, <1>2, <1>3, <1>4, <1>5, <1>6, <1>7, <1>8, <1>9, <1>10, <1>11, <1>12, <1>13, <1>14,
     <1>15, <1>16, <1>17, <1>18, <1>19, <1>20, <1>21, <1>22, <1>23, <1>24, <1>25, <1>26, <1>27,
     <1>28, <1>29, <1>30, <1>31, <1>32, <1>33, <1>34, <1>35, <1>36, <1>37, <1>38, <1>39, <1>40,
     <1>41, <1>42, <1>43, <1>44, <1>45, <1>46
  DEF Next, Submit, Call, Idle, Abort, Start, Run, Model, End

\* Every hand-over of an item has a receiver.
LEMMA NothingLostNext == Guarded /\ ItemInv /\ [Next]_vars => NothingLost'
<1> SUFFICES ASSUME Guarded, ItemInv, [Next]_vars PROVE NothingLost'
  OBVIOUS
<1> USE TurnEngineAssumption
    DEF queueVars, slotVars, frameVars, ghostVars, Actors, Controllers, Guarded, Inv,
        TypeOK, FramesOK, Places, ItemInv, InHand, InFrame, Emptied, StartFindsNoTask,
        NothingLost, Held, Live, Excused, StartLabels, AbortLabels, IdleLabels, RunLabels,
        EndLabels, InRun
<1>1. ASSUME NEW u \in UserInputs, Steer(u) PROVE NothingLost'
  BY <1>1 DEF Steer, LoopReady, Running
<1>2. ASSUME NEW u \in UserInputs, SteerRefused(u) PROVE NothingLost'
  BY <1>2 DEF SteerRefused, LoopReady, Running
<1>3. ASSUME NEW u \in UserInputs, UserTurn(u) PROVE NothingLost'
  BY <1>3 DEF UserTurn, LoopReady, Running, Goto
<1>4. ASSUME NEW k \in {"compact", "shell"}, SpawnOther(k) PROVE NothingLost'
  BY <1>4 DEF SpawnOther, LoopReady, Command, Running, Goto
<1>5. ASSUME NEW op \in {"interrupt", "shutdown"}, Interrupt(op) PROVE NothingLost'
  BY <1>5 DEF Interrupt, LoopReady, Command, Goto
<1>6. CASE ForceStop
  BY <1>6 DEF ForceStop, Command, Goto
<1>7. ASSUME NEW m \in TriggerMail \cup QueueMail, Mail(m) PROVE NothingLost'
  BY <1>7 DEF Mail, LoopReady, Goto
<1>8. ASSUME NEW t \in Tasks, Answer(t) PROVE NothingLost'
  BY <1>8 DEF Answer, LoopReady, Goto
<1>9. ASSUME NEW a \in Controllers, AbortNothing(a) PROVE NothingLost'
  BY <1>9 DEF AbortNothing, AfterAbort, Goto
<1>10. ASSUME NEW a \in Controllers, AbortTake(a) PROVE NothingLost'
  BY <1>10 DEF AbortTake, Goto
<1>11. ASSUME NEW a \in Controllers, AbortKill(a) PROVE NothingLost'
  <2>1. /\ NothingLost /\ \A c \in cancelled : c \in Actors
        /\ stateOf[victim[a]] = NoState
    BY <1>11, KillMoves
  <2> HIDE TurnEngineAssumption
      DEF Guarded, Inv, TypeOK, FramesOK, Places, ItemInv, InHand, InFrame, Emptied,
          StartFindsNoTask
  <2>2. ASSUME NEW i \in Items, Excused(i) PROVE Excused(i)'
    BY <1>11, <2>1, <2>2, KillMoves
  <2>3. ASSUME NEW i \in Items, Held(i) PROVE Held(i)' \/ Excused(i)'
    BY <1>11, <2>1, <2>3, KillMoves
  <2>4. QED
    BY <1>11, <2>1, <2>2, <2>3, KillMoves
<1>12. ASSUME NEW a \in Controllers, AbortClear(a) PROVE NothingLost'
  BY <1>12 DEF AbortClear, Goto
<1>13. ASSUME NEW a \in Actors, Wake(a) PROVE NothingLost'
  BY <1>13 DEF Wake, Back, Goto
<1>14. ASSUME NEW a \in Actors, WakeReserve(a) PROVE NothingLost'
  BY <1>14 DEF WakeReserve, Reserve, Back, Goto
<1>15. ASSUME NEW a \in Actors, StartPull(a) PROVE NothingLost'
  <2>1. /\ UNCHANGED <<mailbox, history, activeState, stateOf, carry, cancelled, discarded,
                       fresh, refused>>
        /\ buf[a] = {} /\ a \in Actors /\ NothingLost /\ \A c \in cancelled : c \in Actors
        /\ pc[a] \notin {"unused", "done", "killed"} /\ pc'[a] \notin {"unused", "done", "killed"}
        /\ \A b \in Actors : b # a => pc'[b] = pc[b]
        /\ buf \in [Actors -> SUBSET Items] /\ pending \in [TurnStates -> SUBSET Items]
        /\ activeState \in TurnStates \cup {NoState}
        /\ \A b \in Actors : stateOf[b] \in TurnStates \cup {NoState}
    BY <1>15 DEF StartPull, TakePending, Goto
  <2>2. \/ UNCHANGED <<pending, buf>>
        \/ /\ activeState # NoState
           /\ buf' = [buf EXCEPT ![a] = pending[activeState]]
           /\ pending' = [pending EXCEPT ![activeState] = {}]
    BY <1>15 DEF StartPull, TakePending
  <2> HIDE TurnEngineAssumption
      DEF Guarded, Inv, TypeOK, FramesOK, Places, ItemInv, InHand, InFrame, Emptied,
          StartFindsNoTask
  <2>3. ASSUME NEW i \in Items, Excused(i) PROVE Excused(i)'
    BY <2>1, <2>2, <2>3
  <2>4. ASSUME NEW i \in Items, Held(i) PROVE Held(i)'
    <3>1. CASE UNCHANGED <<pending, buf>>
      BY <2>1, <2>4, <3>1
    <3>2. CASE ~UNCHANGED <<pending, buf>>
      <4>1. CASE i \in pending[activeState]
        BY <2>1, <2>2, <3>2, <4>1
      <4>2. CASE i \notin pending[activeState]
        BY <2>1, <2>2, <2>4, <3>2, <4>2
      <4>3. QED
        BY <4>1, <4>2
    <3>3. QED
      BY <3>1, <3>2
  <2>5. QED
    BY <2>1, <2>3, <2>4
<1>16. ASSUME NEW a \in Actors, StartDrain(a) PROVE NothingLost'
  BY <1>16 DEF StartDrain, DrainMailbox, Goto
<1>17. ASSUME NEW a \in Actors, StartAttach(a) PROVE NothingLost'
  BY <1>17 DEF StartAttach, GetOrInsert, Reserve, Goto
<1>18. ASSUME NEW a \in Actors, StartInstall(a) PROVE NothingLost'
  <2>1. activeTask = NoTask /\ pc[a] = "install"
    BY <1>18 DEF StartInstall
  <2>2. PICK t \in Tasks :
           /\ pc[t] = "unused"
           /\ pc' = [b \in Actors |-> IF b = t THEN "run"
                                      ELSE IF b = activeTask /\ pc[b] # "done" THEN "killed"
                                      ELSE IF b = a THEN Back(a) ELSE pc[b]]
           /\ carry' = [carry EXCEPT ![t] = carry[a], ![a] = {}]
    BY <1>18 DEF StartInstall
  <2>3. /\ buf[a] = {} /\ buf[t] = {} /\ carry[t] = {} /\ t # a
        /\ stateOf[t] = NoState /\ stateOf[a] = NoState
    BY <2>1, <2>2
  <2>4. /\ activeState # NoState => activeState' = activeState
        /\ UNCHANGED <<pending, mailbox, history, buf, stateOf, cancelled, discarded,
                       fresh, refused>>
    BY <1>18 DEF StartInstall, GetOrInsert, Reserve
  <2>5. /\ pc'[t] = "run" /\ \A b \in Actors : b # t /\ b # a => pc'[b] = pc[b]
        /\ carry'[t] = carry[a] /\ \A b \in Actors : b # t /\ b # a => carry'[b] = carry[b]
    BY <2>1, <2>2, <2>3
  <2>6. pc[t] = "unused"
    BY <2>2
  <2>7. /\ a \in Actors /\ t \in Actors /\ NothingLost
        /\ \A c \in cancelled : c \in Actors
    BY <2>1, <2>2
  <2> HIDE TurnEngineAssumption
      DEF Guarded, Inv, TypeOK, FramesOK, Places, ItemInv, InHand, InFrame, Emptied,
          StartFindsNoTask
  <2>8. ASSUME NEW i \in Items, Excused(i) PROVE Excused(i)'
    BY <2>1, <2>3, <2>4, <2>5, <2>6, <2>7, <2>8
  <2>9. ASSUME NEW i \in Items, Held(i) PROVE Held(i)'
    BY <2>1, <2>3, <2>4, <2>5, <2>7, <2>9
  <2>10. QED
    BY <2>4, <2>7, <2>8, <2>9
<1>19. ASSUME NEW g \in GoalItems, TryStartIfIdle(g) PROVE NothingLost'
  BY <1>19 DEF TryStartIfIdle, Goto
<1>20. CASE IdleReserve
  BY <1>20 DEF IdleReserve, Reserve, Refuse, Goto
<1>21. ASSUME NEW here, NEW next,
              <<here, next>> \in {<<"idleTest1", "idleTest2">>, <<"idleTest2", "idleConfirm">>},
              IdleTest(here, next)
       PROVE NothingLost'
  BY <1>21 DEF IdleTest, StillReserved, Refuse, Goto
<1>22. CASE IdleConfirm
  <2>1. CASE StillReserved
    <3>1. /\ UNCHANGED <<mailbox, history, activeState, buf, fresh, refused, discarded, cancelled>>
          /\ stateOf' = [stateOf EXCEPT ![Ext] = NoState] /\ stateOf[Ext] = activeState
          /\ pending' = [pending EXCEPT ![activeState] = @ \cup carry[Ext]]
          /\ carry' = [carry EXCEPT ![Ext] = {}]
          /\ pc[Ext] = "idleConfirm" /\ pc' = [pc EXCEPT ![Ext] = "pull"]
          /\ activeState \in TurnStates
      BY <1>22, <2>1 DEF IdleConfirm, StillReserved, Goto
    <3>2. QED
      BY <3>1
  <2>2. CASE ~StillReserved
    BY <1>22, <2>2 DEF IdleConfirm, StillReserved, Refuse, Goto
  <2>3. QED
    BY <2>1, <2>2
<1>23. ASSUME NEW i \in Injected, Inject(i) PROVE NothingLost'
  BY <1>23 DEF Inject, Record
<1>24. ASSUME NEW t \in Tasks, RunTurn(t) PROVE NothingLost'
  <2>1. /\ UNCHANGED <<mailbox, pending, activeState, stateOf, buf, cancelled, discarded,
                       fresh, refused>>
        /\ t \in Actors /\ NothingLost /\ \A c \in cancelled : c \in Actors
        /\ pc[t] \notin {"unused", "done", "killed"} /\ pc'[t] \notin {"unused", "done", "killed"}
        /\ \A b \in Actors : b # t => pc'[b] = pc[b] /\ carry'[b] = carry[b]
        /\ \A i \in Items : history'[i] = IF i \in carry[t] THEN history[i] + 1 ELSE history[i]
        /\ history \in [Items -> Nat]
    BY <1>24 DEF RunTurn, Record, Goto
  <2> HIDE TurnEngineAssumption
      DEF Guarded, Inv, TypeOK, FramesOK, Places, ItemInv, InHand, InFrame, Emptied,
          StartFindsNoTask
  <2>2. ASSUME NEW i \in Items, Excused(i) PROVE Excused(i)'
    BY <2>1, <2>2
  <2>3. ASSUME NEW i \in Items, Held(i) PROVE Held(i)'
    BY <2>1, <2>3
  <2>4. QED
    BY <2>1, <2>2, <2>3
<1>25. ASSUME NEW t \in Tasks, RunTurnFails(t) PROVE NothingLost'
  BY <1>25 DEF RunTurnFails, Goto
<1>26. ASSUME NEW t \in Tasks, RunOther(t) PROVE NothingLost'
  BY <1>26 DEF RunOther, Goto
<1>27. ASSUME NEW t \in Tasks, TakeInput(t) PROVE NothingLost'
  <2>1. /\ UNCHANGED <<mailbox, history, activeState, stateOf, carry, cancelled, discarded,
                       fresh, refused>>
        /\ buf[t] = {} /\ t \in Actors /\ NothingLost /\ \A c \in cancelled : c \in Actors
        /\ pc[t] \notin {"unused", "done", "killed"} /\ pc'[t] \notin {"unused", "done", "killed"}
        /\ \A b \in Actors : b # t => pc'[b] = pc[b]
        /\ buf \in [Actors -> SUBSET Items] /\ pending \in [TurnStates -> SUBSET Items]
        /\ activeState \in TurnStates \cup {NoState}
        /\ \A b \in Actors : stateOf[b] \in TurnStates \cup {NoState}
    BY <1>27 DEF TakeInput, TakePending, Goto
  <2>2. \/ UNCHANGED <<pending, buf>>
        \/ /\ activeState # NoState
           /\ buf' = [buf EXCEPT ![t] = pending[activeState]]
           /\ pending' = [pending EXCEPT ![activeState] = {}]
    BY <1>27 DEF TakeInput, TakePending
  <2> HIDE TurnEngineAssumption
      DEF Guarded, Inv, TypeOK, FramesOK, Places, ItemInv, InHand, InFrame, Emptied,
          StartFindsNoTask
  <2>3. ASSUME NEW i \in Items, Excused(i) PROVE Excused(i)'
    BY <2>1, <2>2, <2>3
  <2>4. ASSUME NEW i \in Items, Held(i) PROVE Held(i)'
    <3>1. CASE UNCHANGED <<pending, buf>>
      BY <2>1, <2>4, <3>1
    <3>2. CASE ~UNCHANGED <<pending, buf>>
      <4>1. CASE i \in pending[activeState]
        BY <2>1, <2>2, <3>2, <4>1
      <4>2. CASE i \notin pending[activeState]
        BY <2>1, <2>2, <2>4, <3>2, <4>2
      <4>3. QED
        BY <4>1, <4>2
    <3>3. QED
      BY <3>1, <3>2
  <2>5. QED
    BY <2>1, <2>3, <2>4
<1>28. ASSUME NEW t \in Tasks, TakeMail(t) PROVE NothingLost'
  BY <1>28 DEF TakeMail, DrainMailbox, Goto
<1>29. ASSUME NEW t \in Tasks, RecordInput(t) PROVE NothingLost'
  BY <1>29 DEF RecordInput, Record, Goto
<1>30. ASSUME NEW t \in Tasks, Message(t) PROVE NothingLost'
  BY <1>30 DEF Message, Sampling
<1>31. ASSUME NEW t \in Tasks, ToolCall(t) PROVE NothingLost'
  BY <1>31 DEF ToolCall, Sampling, AcceptMail, Goto
<1>32. ASSUME NEW t \in Tasks, Ask(t) PROVE NothingLost'
  BY <1>32 DEF Ask, Goto
<1>33. ASSUME NEW t \in Tasks, SampleEnd(t) PROVE NothingLost'
  BY <1>33 DEF SampleEnd, Goto
<1>34. ASSUME NEW t \in Tasks, SampleMoreEnd(t) PROVE NothingLost'
  BY <1>34 DEF SampleMoreEnd, AcceptMail, Goto
<1>35. ASSUME NEW t \in Tasks, SampleError(t) PROVE NothingLost'
  BY <1>35 DEF SampleError, Sampling, Goto
<1>36. ASSUME NEW t \in Tasks, Settle(t) PROVE NothingLost'
  BY <1>36 DEF Settle, HasPendingInTurn, Goto
<1>37. ASSUME NEW t \in Tasks, SettleMail(t) PROVE NothingLost'
  BY <1>37 DEF SettleMail, Goto
<1>38. ASSUME NEW t \in Tasks, Recheck(t) PROVE NothingLost'
  BY <1>38 DEF Recheck, HasPendingInTurn, Goto
<1>39. ASSUME NEW t \in Tasks, RecheckMail(t) PROVE NothingLost'
  BY <1>39 DEF RecheckMail, Goto
<1>40. ASSUME NEW t \in Tasks, ObserveCancel(t) PROVE NothingLost'
  BY <1>40 DEF ObserveCancel, Record, Goto
<1>41. ASSUME NEW t \in Tasks, Finish(t) PROVE NothingLost'
  BY <1>41 DEF Finish, Goto
<1>42. ASSUME NEW t \in Tasks, Detach(t) PROVE NothingLost'
  <2>1. /\ UNCHANGED <<mailbox, pending, history, buf, carry, cancelled, discarded, fresh,
                       refused, activeState>>
        /\ t \in Actors /\ NothingLost /\ \A c \in cancelled : c \in Actors
        /\ pc[t] \notin {"done", "killed"} /\ \A b \in Actors : b # t => pc'[b] = pc[b]
    BY <1>42 DEF Detach, Goto
  <2>2. buf[t] = {} /\ carry[t] = {} /\ stateOf[t] = NoState
    BY <1>42 DEF Detach
  <2>3. \A b \in Actors : b # t => stateOf'[b] = stateOf[b]
    BY <1>42 DEF Detach
  <2> HIDE TurnEngineAssumption
      DEF Guarded, Inv, TypeOK, FramesOK, Places, ItemInv, InHand, InFrame, Emptied,
          StartFindsNoTask
  <2>4. ASSUME NEW i \in Items, Excused(i) PROVE Excused(i)'
    BY <2>1, <2>4
  <2>5. ASSUME NEW i \in Items, Held(i) PROVE Held(i)'
    BY <2>1, <2>2, <2>3, <2>5
  <2>6. QED
    BY <2>1, <2>4, <2>5
<1>43. ASSUME NEW t \in Tasks, Collect(t) PROVE NothingLost'
  BY <1>43 DEF Collect, Record, Goto
<1>44. ASSUME NEW t \in Tasks, Announce(t) PROVE NothingLost'
  BY <1>44 DEF Announce, Goto
<1>45. ASSUME NEW t \in Tasks, Release(t) PROVE NothingLost'
  <2>1. /\ UNCHANGED <<mailbox, pending, history, buf, carry, cancelled, discarded,
                       fresh, refused>>
        /\ t \in Actors /\ NothingLost /\ \A c \in cancelled : c \in Actors
        /\ buf[t] = {} /\ carry[t] = {} /\ pending[stateOf[t]] = {}
        /\ pc[t] \notin {"done", "killed"}
        /\ \A b \in Actors : b # t => pc'[b] = pc[b] /\ stateOf'[b] = stateOf[b]
        /\ activeState # stateOf[t] => activeState' = activeState
    BY <1>45 DEF Release, Goto
  <2> HIDE TurnEngineAssumption
      DEF Guarded, Inv, TypeOK, FramesOK, Places, ItemInv, InHand, InFrame, Emptied,
          StartFindsNoTask
  <2>2. ASSUME NEW i \in Items, Excused(i) PROVE Excused(i)'
    BY <2>1, <2>2
  <2>3. ASSUME NEW i \in Items, Held(i) PROVE Held(i)'
    BY <2>1, <2>3
  <2>4. QED
    BY <2>1, <2>2, <2>3
<1>46. CASE UNCHANGED vars
  BY <1>46 DEF vars
<1> HIDE TurnEngineAssumption
    DEF queueVars, slotVars, frameVars, ghostVars, Actors, Controllers, Guarded, Inv,
        TypeOK, FramesOK, Places, ItemInv, InHand, InFrame, Emptied, StartFindsNoTask,
        NothingLost, Held, Live, Excused, StartLabels, AbortLabels, IdleLabels, RunLabels,
        EndLabels, InRun
<1>47. QED
  BY <1>1, <1>2, <1>3, <1>4, <1>5, <1>6, <1>7, <1>8, <1>9, <1>10, <1>11, <1>12, <1>13, <1>14,
     <1>15, <1>16, <1>17, <1>18, <1>19, <1>20, <1>21, <1>22, <1>23, <1>24, <1>25, <1>26, <1>27,
     <1>28, <1>29, <1>30, <1>31, <1>32, <1>33, <1>34, <1>35, <1>36, <1>37, <1>38, <1>39, <1>40,
     <1>41, <1>42, <1>43, <1>44, <1>45, <1>46
  DEF Next, Submit, Call, Idle, Abort, Start, Run, Model, End

-----------------------------------------------------------------------------
(* The two invariants hold in every state of their kind of session, and each *)
(* of them says what the items need.                                         *)

\* A new session has an empty slot, no task and a loop that is ready.
LEMMA LoopInit == Init /\ LoopStarts => LoopInv
<1> SUFFICES ASSUME Init, LoopStarts PROVE LoopInv
  OBVIOUS
<1>1. Inv
  BY TypeInit
<1>2. Places /\ Allocated
  BY TurnEngineAssumption DEF Init, Places, Allocated, Actors, Controllers
<1>3. LoopAlone /\ LoopVictim /\ Announced
  BY TurnEngineAssumption
  DEF Init, LoopAlone, LoopVictim, Announced, Actors, Controllers, StartLabels, RunLabels, InRun
<1>4. LoopSlot /\ LoopTasks
  BY TurnEngineAssumption
  DEF Init, LoopSlot, LoopTasks, Actors, Controllers, StartLabels, RunLabels, EndLabels, InRun
<1>5. QED
  BY <1>1, <1>2, <1>3, <1>4 DEF LoopInv

\* The same session when nobody aborts.
LEMMA MailInit == Init /\ NoAborts => MailInv
<1> SUFFICES ASSUME Init, NoAborts PROVE MailInv
  OBVIOUS
<1>1. Inv
  BY TypeInit
<1>2. Places /\ Allocated
  BY TurnEngineAssumption DEF Init, Places, Allocated, Actors, Controllers
<1>3. NobodyAborts /\ Announced /\ SomebodyLooks
  BY TurnEngineAssumption
  DEF Init, NobodyAborts, Announced, SomebodyLooks, WorkWaits, Actors, Controllers, AbortLabels,
      RunLabels, InRun
<1>4. OneOwner /\ OwnerTask
  BY TurnEngineAssumption
  DEF Init, OneOwner, OwnerTask, Owns, Actors, Controllers, StartLabels, IdleLabels, RunLabels,
      EndLabels, InRun
<1>5. QED
  BY <1>1, <1>2, <1>3, <1>4 DEF MailInv

\* Every item starts with its sender.
LEMMA ItemInit == Init /\ Injected = {} => ItemInv
<1> SUFFICES ASSUME Init, Injected = {} PROVE ItemInv
  OBVIOUS
<1>1. InHand /\ InFrame /\ Emptied
  BY TurnEngineAssumption
  DEF Init, InHand, InFrame, Emptied, Actors, Controllers, IdleLabels
<1>2. NothingLost
  BY DEF Init, NothingLost
<1>3. QED
  BY <1>1, <1>2 DEF ItemInv

\* The loop's invariant is inductive.
LEMMA LoopNext == LoopInv /\ [Next]_vars => LoopInv'
<1> SUFFICES ASSUME LoopInv, [Next]_vars PROVE LoopInv'
  OBVIOUS
<1>1. LoopStarts' /\ Inv' /\ Places' /\ Allocated'
  BY TypeNext, PlacesNext, AllocatedNext DEF LoopInv, LoopStarts
<1>2. LoopAlone' /\ LoopSlot' /\ LoopVictim' /\ LoopTasks' /\ Announced'
  BY LoopAloneNext, LoopSlotNext, LoopVictimNext, LoopTasksNext, LoopAnnouncedNext
<1>3. QED
  BY <1>1, <1>2 DEF LoopInv

\* So is the invariant of a session without aborts.
LEMMA MailNext == MailInv /\ [Next]_vars => MailInv'
<1> SUFFICES ASSUME MailInv, [Next]_vars PROVE MailInv'
  OBVIOUS
<1>1. NoAborts' /\ Inv' /\ Places' /\ Allocated'
  BY TypeNext, PlacesNext, AllocatedNext DEF MailInv, NoAborts
<1>2. NobodyAborts' /\ OneOwner' /\ OwnerTask' /\ Announced' /\ SomebodyLooks'
  BY MailNobodyAbortsNext, MailOneOwnerNext, MailOwnerTaskNext, MailAnnouncedNext,
     MailSomebodyLooksNext
<1>3. QED
  BY <1>1, <1>2 DEF MailInv

\* And, where an owner of the slot is respected, the invariant of the items.
LEMMA ItemNext == Guarded /\ ItemInv /\ [Next]_vars => ItemInv'
<1> SUFFICES ASSUME Guarded, ItemInv, [Next]_vars PROVE ItemInv'
  OBVIOUS
<1>1. (Injected = {})'
  BY DEF ItemInv
<1>2. InHand' /\ InFrame' /\ Emptied' /\ NothingLost'
  BY InHandNext, InFrameNext, EmptiedNext, NothingLostNext
<1>3. QED
  BY <1>1, <1>2 DEF ItemInv

\* The loop respects the owner of the slot, being the only one who starts turns.
LEMMA LoopGuards == LoopInv => Guarded
<1> SUFFICES ASSUME LoopInv PROVE Guarded
  OBVIOUS
<1> USE TurnEngineAssumption
    DEF LoopInv, Inv, TypeOK, FramesOK, LoopAlone, LoopSlot, LoopVictim, Places, Actors,
        Controllers, StartLabels, AbortLabels, IdleLabels, RunLabels, EndLabels, InRun
<1>1. StartFindsNoTask
  BY DEF StartFindsNoTask
<1>2. ASSUME NEW a \in Actors, pc[a] = "grace"
      PROVE victim[a] \in cancelled /\ pc[victim[a]] \in RunLabels \cup {"done"}
  BY <1>2
<1>3. ASSUME NEW a \in Actors, pc[a] = "abort", activeState # NoState, activeTask = NoTask
      PROVE \E t \in Tasks : pc[t] \in EndLabels /\ stateOf[t] = activeState
  BY <1>3
<1>4. ASSUME NEW t \in Tasks, pc[t] \in EndLabels, stateOf[t] = activeState
      PROVE /\ activeTask = NoTask /\ pc[Ext] # "idleConfirm"
            /\ \A a \in Actors : pc[a] # "attach"
  BY <1>4
<1>5. pc[Ext] \notin IdleLabels
  OBVIOUS
<1>6. QED
  BY <1>1, <1>2, <1>3, <1>4, <1>5 DEF Guarded

\* Without aborts the one owner of the slot is respected.
LEMMA MailGuards == MailInv => Guarded
<1> SUFFICES ASSUME MailInv PROVE Guarded
  OBVIOUS
<1> USE TurnEngineAssumption
    DEF MailInv, Inv, TypeOK, NobodyAborts, OneOwner, OwnerTask, Owns, Actors, Controllers,
        StartLabels, AbortLabels, IdleLabels, RunLabels, EndLabels, InRun
<1>1. ASSUME NEW a \in Actors, pc[a] \in StartLabels \cup IdleLabels \cup EndLabels
      PROVE activeTask = NoTask
  BY <1>1
<1>2. StartFindsNoTask
  BY <1>1 DEF StartFindsNoTask
<1>3. \A a \in Actors : pc[a] \notin {"grace", "abort"}
  OBVIOUS
<1>4. ASSUME NEW t \in Tasks, pc[t] \in EndLabels, stateOf[t] = activeState
      PROVE /\ activeTask = NoTask /\ pc[Ext] # "idleConfirm"
            /\ \A a \in Actors : pc[a] # "attach"
  BY <1>1, <1>4
<1>5. ASSUME pc[Ext] \in IdleLabels
      PROVE activeTask = NoTask /\ \A a \in Actors : pc[a] # "attach"
  BY <1>1, <1>5
<1>6. QED
  BY <1>2, <1>3, <1>4, <1>5 DEF Guarded

\* Work that waits for an empty slot has an actor on its way to look at it.
LEMMA LookedAfter == Inv /\ SomebodyLooks => NoLostWakeup
BY DEF Inv, SomebodyLooks, NoLostWakeup, Quiet

\* Without mail that may start a turn no work waits.
LEMMA NothingToStart == LoopInv => NoLostWakeup
<1> SUFFICES ASSUME LoopInv PROVE ~WorkWaits
  BY DEF NoLostWakeup
<1>1. mailbox \subseteq TriggerMail \cup QueueMail
  BY DEF LoopInv, Inv, TypeOK, Mail
<1>2. QED
  BY <1>1 DEF LoopInv, LoopStarts, WorkWaits, TriggerWaits

\* What the two invariants say of the tasks.
LEMMA TasksInOrder ==
    LoopInv \/ MailInv => OneRunner /\ OneTerminalEvent /\ AnswerReaches
<1> USE TurnEngineAssumption
    DEF Inv, TypeOK, RunLabels, InRun, Announced
<1>1. ASSUME LoopInv PROVE OneRunner /\ OneTerminalEvent /\ AnswerReaches
  <2>1. OneRunner
    BY <1>1 DEF LoopInv, LoopTasks, OneRunner
  <2>2. OneTerminalEvent
    BY <1>1 DEF LoopInv, OneTerminalEvent
  <2>3. AnswerReaches
    BY <1>1, <2>1 DEF LoopInv, LoopTasks, OneRunner, AnswerReaches, Actors
  <2>4. QED
    BY <2>1, <2>2, <2>3
<1>2. ASSUME MailInv PROVE OneRunner /\ OneTerminalEvent /\ AnswerReaches
  <2>1. OneRunner
    BY <1>2 DEF MailInv, OwnerTask, OneRunner
  <2>2. OneTerminalEvent
    BY <1>2 DEF MailInv, NobodyAborts, OneTerminalEvent, Actors
  <2>3. AnswerReaches
    BY <1>2 DEF MailInv, OwnerTask, OneOwner, Owns, Actors, AnswerReaches
  <2>4. QED
    BY <2>1, <2>2, <2>3
<1>3. QED
  BY <1>1, <1>2

-----------------------------------------------------------------------------
(* The theorems.                                                             *)

OneKind == LoopStarts \/ NoAborts

\* In both kinds of session one of the two invariants holds for good.
LEMMA SlotInvariant == Spec /\ OneKind => [](LoopInv \/ MailInv)
<1>1. Init /\ OneKind => LoopInv \/ MailInv
  BY LoopInit, MailInit DEF OneKind
<1>2. (LoopInv \/ MailInv) /\ [Next]_vars => (LoopInv \/ MailInv)'
  BY LoopNext, MailNext
<1>3. QED
  BY <1>1, <1>2, PTL DEF Spec

\* Only one task runs that is not cancelled, and it is the one in the slot: start_task and
\* on_task_finished never leave a running task outside the active turn, where steering and
\* interrupts would not reach it.
THEOREM OneTaskRuns == Spec /\ OneKind => []OneRunner
BY SlotInvariant, TasksInOrder, PTL

\* A turn gets exactly one TurnComplete or TurnAborted, and none while its task can still run,
\* whichever of on_task_finished and handle_task_abort comes first.
THEOREM EndsAreAnnouncedOnce == Spec /\ OneKind => []OneTerminalEvent
BY SlotInvariant, TasksInOrder, PTL

\* The waiter of a tool that asks the user stays registered in the active turn until its task
\* is cancelled, so the answer finds it.
THEOREM AnswersArrive == Spec /\ OneKind => []AnswerReaches
BY SlotInvariant, TasksInOrder, PTL

\* start_task's debug_assert holds at its second look at the slot.
THEOREM SlotFreeAtInstall == Spec /\ OneKind => []StartFindsNoTask
<1>1. LoopInv \/ MailInv => StartFindsNoTask
  BY LoopGuards, MailGuards DEF Guarded
<1>2. QED
  BY <1>1, SlotInvariant, PTL

\* maybe_start_turn_for_pending_work, called after every hand-over of the slot, leaves no
\* session at rest with work in its mailbox.
THEOREM NoWakeupLost == Spec /\ OneKind => []NoLostWakeup
<1>1. LoopInv \/ MailInv => NoLostWakeup
  BY NothingToStart, LookedAfter DEF MailInv
<1>2. QED
  BY <1>1, SlotInvariant, PTL

\* What the user, another agent or an extension gave the session is recorded, on its way, given
\* back, or was dropped with an aborted turn: the hand-overs between the queue, the slot, a
\* starter and a task that ends lose nothing.
THEOREM ItemsSurvive == Spec /\ OneKind /\ Injected = {} => []NothingLost
<1>1. Init /\ Injected = {} => ItemInv
  BY ItemInit
<1>2. (LoopInv \/ MailInv) /\ ItemInv /\ [Next]_vars => ItemInv'
  BY LoopGuards, MailGuards, ItemNext
<1>3. ItemInv => NothingLost
  BY DEF ItemInv
<1>4. QED
  BY <1>1, <1>2, <1>3, SlotInvariant, PTL DEF Spec

=============================================================================
