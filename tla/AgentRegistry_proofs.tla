------------------------- MODULE AgentRegistry_proofs -------------------------
(* Proofs about AgentRegistry, for every choice of its constants. *)
EXTENDS AgentRegistry, FiniteSetTheorems, TLAPS

CreatingLabels == HoldingLabels \cup {"reserve", "exchange"}

\* What each call knows of the thread and the path it works on, and that the
\* root's thread is only ever registered as the root.
CallsOK ==
    /\ born[RootThread] = Absent /\ \A t \in Stored : born[t] # Absent
    /\ threadPath[RootThread] \in {NoKey, RootPath}
    /\ \A c \in Calls :
        /\ pc[c] \in CreatingLabels => kind[c] \in {"spawn", "resume", "restore"}
        /\ pc[c] \in CreatingLabels /\ kind[c] # "spawn" => target[c] \in Threads \ {RootThread}
        /\ pc[c] \in {"finalize", "commit"} => target[c] \in Threads \ {RootThread}
        /\ pc[c] \in {"shutdown", "remove", "release"} => target[c] \in Threads
        /\ pc[c] \in {"nickname", "create", "finalize", "commit"} => reserved[c] = wanted[c]
        /\ reserved[c] # NoKey =>
              pc[c] \in {"nickname", "create", "finalize", "commit", "drop"}
        /\ kind[c] = "restore" => Resident
        /\ pc[c] = "idle" => nick[c] = NoNick

Inv == TypeOK /\ CallsOK /\ IndexConsistent /\ PathOwned /\ CountCovers

-----------------------------------------------------------------------------
(* Counting                                                                *)

\* The sets that the count stands for are finite.
LEMMA Finite ==
    /\ IsFiniteSet(LiveKeys) /\ Cardinality(LiveKeys) \in Nat
    /\ IsFiniteSet(Holding) /\ Cardinality(Holding) \in Nat
    /\ IsFiniteSet(Uncounting) /\ Cardinality(Uncounting) \in Nat
<1>1. IsFiniteSet(Paths \cup {RootPath})
  BY FS_AddElement, AgentRegistryAssumption
<1>2. IsFiniteSet(Keys)
  BY <1>1, FS_Union, AgentRegistryAssumption DEF Keys
<1>3. LiveKeys \in SUBSET Keys /\ Holding \in SUBSET Calls /\ Uncounting \in SUBSET Calls
  BY DEF LiveKeys, Holding, Uncounting
<1>4. IsFiniteSet(LiveKeys) /\ IsFiniteSet(Holding) /\ IsFiniteSet(Uncounting)
  BY <1>2, <1>3, FS_Subset, AgentRegistryAssumption
<1>5. QED
  BY <1>4, FS_CardinalityType

\* The same for the next state.
LEMMA FiniteNext ==
    /\ IsFiniteSet(LiveKeys') /\ Cardinality(LiveKeys') \in Nat
    /\ IsFiniteSet(Holding') /\ Cardinality(Holding') \in Nat
    /\ IsFiniteSet(Uncounting') /\ Cardinality(Uncounting') \in Nat
<1>1. IsFiniteSet(Paths \cup {RootPath})
  BY FS_AddElement, AgentRegistryAssumption
<1>2. IsFiniteSet(Keys)
  BY <1>1, FS_Union, AgentRegistryAssumption DEF Keys
<1>3. LiveKeys' \in SUBSET Keys /\ Holding' \in SUBSET Calls /\ Uncounting' \in SUBSET Calls
  BY DEF LiveKeys, Holding, Uncounting
<1>4. IsFiniteSet(LiveKeys') /\ IsFiniteSet(Holding') /\ IsFiniteSet(Uncounting')
  BY <1>2, <1>3, FS_Subset, AgentRegistryAssumption
<1>5. QED
  BY <1>4, FS_CardinalityType

\* A call that gives a slot back has one to give.
LEMMA SlotHeld ==
    ASSUME CountCovers, total \in Nat, NEW c \in Calls, pc[c] \in {"dropCount", "uncount"}
    PROVE  total - 1 \in Nat
<1>1. c \in Holding \/ c \in Uncounting
  BY DEF Holding, Uncounting, HoldingLabels
<1>2. Cardinality(Holding) # 0 \/ Cardinality(Uncounting) # 0
  BY <1>1, Finite, FS_EmptySet
<1>3. QED
  BY <1>2, Finite DEF CountCovers

-----------------------------------------------------------------------------
(* Types                                                                   *)

\* The initial state.
LEMMA InvInit == Init => Inv
<1> SUFFICES ASSUME Init PROVE Inv
  OBVIOUS
<1> USE AgentRegistryAssumption DEF Init
<1>1. TypeOK
  <2>1. pc \in [Calls -> Labels]
    BY DEF Labels
  <2>2. nick \in [Calls -> (Names \X Nat) \cup {NoNick}]
    OBVIOUS
  <2>3. tree \in [Keys -> Threads \cup {Absent, Reserved}]
    OBVIOUS
  <2>4. QED
    BY <2>1, <2>2, <2>3 DEF TypeOK
<1>2. CallsOK
  BY DEF CallsOK, CreatingLabels, HoldingLabels
<1>3. IndexConsistent /\ PathOwned
  BY DEF IndexConsistent, PathOwned, Keys
<1>4. LiveKeys = {} /\ Holding = {} /\ Uncounting = {}
  BY DEF LiveKeys, Holding, HoldingLabels, Uncounting
<1>5. CountCovers
  BY <1>4, FS_EmptySet DEF CountCovers
<1>6. QED
  BY <1>1, <1>2, <1>3, <1>5 DEF Inv

\* Every step preserves the types.
LEMMA TypeNext == Inv /\ Next => TypeOK'
<1> SUFFICES ASSUME Inv, Next PROVE TypeOK'
  OBVIOUS
<1> USE AgentRegistryAssumption DEF Inv, TypeOK, CallsOK, Keys, CreatingLabels, HoldingLabels,
           Labels, registryVars, poolVars, threadVars, callVars
<1>1. ASSUME NEW c \in Calls, NEW p \in Paths \cup {NoKey}, Spawn(c, p) PROVE TypeOK'
  BY <1>1 DEF Spawn, Begin, Goto
<1>2. ASSUME NEW c \in Calls, NEW t \in Threads, Resume(c, t) PROVE TypeOK'
  BY <1>2 DEF Resume, Begin, Goto
<1>3. ASSUME NEW c \in Calls, NEW t \in Threads, Restore(c, t) PROVE TypeOK'
  BY <1>3 DEF Restore, Begin, Goto
<1>4. ASSUME NEW c \in Calls, NEW t \in Threads, Close(c, t) PROVE TypeOK'
  BY <1>4 DEF Close, Begin, Goto
<1>5. ASSUME NEW c \in Calls, NEW t \in Threads, Request(c, t) PROVE TypeOK'
  BY <1>5 DEF Request, Begin, Goto
<1>6. ASSUME NEW c \in Calls, ReserveUnlimited(c) PROVE TypeOK'
  BY <1>6 DEF ReserveUnlimited, Limited, AfterReserve, Goto
<1>7. ASSUME NEW c \in Calls, LoadCount(c) PROVE TypeOK'
  BY <1>7 DEF LoadCount, Limited, Goto
<1>8. ASSUME NEW c \in Calls, Exchange(c) PROVE TypeOK'
  BY <1>8 DEF Exchange, AfterReserve, Goto
<1>9. ASSUME NEW c \in Calls, RegisterRoot(c) PROVE TypeOK'
  BY <1>9 DEF RegisterRoot, Goto
<1>10. ASSUME NEW c \in Calls, ReservePath(c) PROVE TypeOK'
  BY <1>10 DEF ReservePath, Goto
<1>11. ASSUME NEW c \in Calls, NEW n \in Names, PickNickname(c, n) PROVE TypeOK'
  BY <1>11 DEF PickNickname, Nickname, AfterNickname, Goto
<1>12. ASSUME NEW c \in Calls, NEW n \in Names, ResetNicknames(c, n) PROVE TypeOK'
  BY <1>12 DEF ResetNicknames, Nickname, AfterNickname, Goto
<1>13. ASSUME NEW c \in Calls, NEW n \in Names, KeepNickname(c, n) PROVE TypeOK'
  BY <1>13 DEF KeepNickname, AfterNickname, Goto
<1>14. ASSUME NEW c \in Calls, NEW t \in Threads, Create(c, t) PROVE TypeOK'
  BY <1>14 DEF Create, Goto
<1>15. ASSUME NEW c \in Calls, Lookup(c) PROVE TypeOK'
  BY <1>15 DEF Lookup, Goto
<1>16. ASSUME NEW c \in Calls, Finalize(c) PROVE TypeOK'
  BY <1>16 DEF Finalize, Goto
<1>17. ASSUME NEW c \in Calls, CreateFails(c) PROVE TypeOK'
  BY <1>17 DEF CreateFails, Goto
<1>18. ASSUME NEW c \in Calls, Commit(c) PROVE TypeOK'
  BY <1>18 DEF Commit, RegisteredTree, RegisteredPaths, KeyOf, Goto
<1>19. ASSUME NEW c \in Calls, DropPath(c) PROVE TypeOK'
  BY <1>19 DEF DropPath, Goto
<1>20. ASSUME NEW c \in Calls, FetchSub(c) PROVE TypeOK'
  BY <1>20, SlotHeld DEF FetchSub, Goto
<1>21. ASSUME NEW c \in Calls, Shutdown(c) PROVE TypeOK'
  BY <1>21 DEF Shutdown, Goto
<1>22. ASSUME NEW c \in Calls, RemoveThread(c) PROVE TypeOK'
  BY <1>22 DEF RemoveThread, Goto
<1>23. ASSUME NEW c \in Calls, ReleaseThread(c) PROVE TypeOK'
  BY <1>23 DEF ReleaseThread, Goto
<1>24. ASSUME NEW t \in Threads, SessionEnds(t) PROVE TypeOK'
  BY <1>24 DEF SessionEnds
<1>25. QED
  BY <1>1, <1>2, <1>3, <1>4, <1>5, <1>6, <1>7, <1>8, <1>9, <1>10, <1>11, <1>12, <1>13,
     <1>14, <1>15, <1>16, <1>17, <1>18, <1>19, <1>20, <1>21, <1>22, <1>23, <1>24 DEF Next

\* Every step preserves what the calls know.
LEMMA CallsNext == Inv /\ Next => CallsOK'
<1> SUFFICES ASSUME Inv, Next PROVE CallsOK'
  OBVIOUS
<1> USE AgentRegistryAssumption DEF Inv, TypeOK, CallsOK, Keys, CreatingLabels, HoldingLabels,
           Labels, registryVars, poolVars, threadVars, callVars
<1>1. ASSUME NEW c \in Calls, NEW p \in Paths \cup {NoKey}, Spawn(c, p) PROVE CallsOK'
  BY <1>1 DEF Spawn, Begin, Goto
<1>2. ASSUME NEW c \in Calls, NEW t \in Threads, Resume(c, t) PROVE CallsOK'
  BY <1>2 DEF Resume, Begin, Goto
<1>3. ASSUME NEW c \in Calls, NEW t \in Threads, Restore(c, t) PROVE CallsOK'
  BY <1>3 DEF Restore, Begin, Goto
<1>4. ASSUME NEW c \in Calls, NEW t \in Threads, Close(c, t) PROVE CallsOK'
  BY <1>4 DEF Close, Begin, Goto
<1>5. ASSUME NEW c \in Calls, NEW t \in Threads, Request(c, t) PROVE CallsOK'
  BY <1>5 DEF Request, Begin, Goto
<1>6. ASSUME NEW c \in Calls, ReserveUnlimited(c) PROVE CallsOK'
  BY <1>6 DEF ReserveUnlimited, Limited, AfterReserve, Goto
<1>7. ASSUME NEW c \in Calls, LoadCount(c) PROVE CallsOK'
  BY <1>7 DEF LoadCount, Limited, Goto
<1>8. ASSUME NEW c \in Calls, Exchange(c) PROVE CallsOK'
  BY <1>8 DEF Exchange, AfterReserve, Goto
<1>9. ASSUME NEW c \in Calls, RegisterRoot(c) PROVE CallsOK'
  BY <1>9 DEF RegisterRoot, Goto
<1>10. ASSUME NEW c \in Calls, ReservePath(c) PROVE CallsOK'
  BY <1>10 DEF ReservePath, Goto
<1>11. ASSUME NEW c \in Calls, NEW n \in Names, PickNickname(c, n) PROVE CallsOK'
  BY <1>11 DEF PickNickname, Nickname, AfterNickname, Goto
<1>12. ASSUME NEW c \in Calls, NEW n \in Names, ResetNicknames(c, n) PROVE CallsOK'
  BY <1>12 DEF ResetNicknames, Nickname, AfterNickname, Goto
<1>13. ASSUME NEW c \in Calls, NEW n \in Names, KeepNickname(c, n) PROVE CallsOK'
  BY <1>13 DEF KeepNickname, AfterNickname, Goto
<1>14. ASSUME NEW c \in Calls, NEW t \in Threads, Create(c, t) PROVE CallsOK'
  BY <1>14 DEF Create, Goto
<1>15. ASSUME NEW c \in Calls, Lookup(c) PROVE CallsOK'
  BY <1>15 DEF Lookup, Goto
<1>16. ASSUME NEW c \in Calls, Finalize(c) PROVE CallsOK'
  BY <1>16 DEF Finalize, Goto
<1>17. ASSUME NEW c \in Calls, CreateFails(c) PROVE CallsOK'
  BY <1>17 DEF CreateFails, Goto
<1>18. ASSUME NEW c \in Calls, Commit(c) PROVE CallsOK'
  BY <1>18 DEF Commit, RegisteredTree, RegisteredPaths, KeyOf, Goto
<1>19. ASSUME NEW c \in Calls, DropPath(c) PROVE CallsOK'
  BY <1>19 DEF DropPath, Goto
<1>20. ASSUME NEW c \in Calls, FetchSub(c) PROVE CallsOK'
  BY <1>20 DEF FetchSub, Goto
<1>21. ASSUME NEW c \in Calls, Shutdown(c) PROVE CallsOK'
  BY <1>21 DEF Shutdown, Goto
<1>22. ASSUME NEW c \in Calls, RemoveThread(c) PROVE CallsOK'
  BY <1>22 DEF RemoveThread, Goto
<1>23. ASSUME NEW c \in Calls, ReleaseThread(c) PROVE CallsOK'
  BY <1>23 DEF ReleaseThread, Goto
<1>24. ASSUME NEW t \in Threads, SessionEnds(t) PROVE CallsOK'
  BY <1>24 DEF SessionEnds
<1>25. QED
  BY <1>1, <1>2, <1>3, <1>4, <1>5, <1>6, <1>7, <1>8, <1>9, <1>10, <1>11, <1>12, <1>13,
     <1>14, <1>15, <1>16, <1>17, <1>18, <1>19, <1>20, <1>21, <1>22, <1>23, <1>24 DEF Next

-----------------------------------------------------------------------------
(* The two indexes and the reserved paths                                  *)

\* Every step keeps agent_tree and thread_paths inverse to each other.
LEMMA IndexNext == Inv /\ Next => IndexConsistent'
<1> SUFFICES ASSUME Inv, Next PROVE IndexConsistent'
  OBVIOUS
<1> USE AgentRegistryAssumption DEF Inv, TypeOK, CallsOK, Keys, IndexConsistent, PathOwned,
           CreatingLabels, HoldingLabels, registryVars, poolVars, threadVars, callVars
<1>1. ASSUME NEW c \in Calls, NEW p \in Paths \cup {NoKey}, Spawn(c, p) PROVE IndexConsistent'
  BY <1>1 DEF Spawn, Begin, Goto
<1>2. ASSUME NEW c \in Calls, NEW t \in Threads, Resume(c, t) PROVE IndexConsistent'
  BY <1>2 DEF Resume, Begin, Goto
<1>3. ASSUME NEW c \in Calls, NEW t \in Threads, Restore(c, t) PROVE IndexConsistent'
  BY <1>3 DEF Restore, Begin, Goto
<1>4. ASSUME NEW c \in Calls, NEW t \in Threads, Close(c, t) PROVE IndexConsistent'
  BY <1>4 DEF Close, Begin, Goto
<1>5. ASSUME NEW c \in Calls, NEW t \in Threads, Request(c, t) PROVE IndexConsistent'
  BY <1>5 DEF Request, Begin, Goto
<1>6. ASSUME NEW c \in Calls, ReserveUnlimited(c) PROVE IndexConsistent'
  BY <1>6 DEF ReserveUnlimited, Limited, AfterReserve, Goto
<1>7. ASSUME NEW c \in Calls, LoadCount(c) PROVE IndexConsistent'
  BY <1>7 DEF LoadCount, Limited, Goto
<1>8. ASSUME NEW c \in Calls, Exchange(c) PROVE IndexConsistent'
  BY <1>8 DEF Exchange, AfterReserve, Goto
<1>9. ASSUME NEW c \in Calls, RegisterRoot(c) PROVE IndexConsistent'
  BY <1>9 DEF RegisterRoot, Goto
<1>10. ASSUME NEW c \in Calls, ReservePath(c) PROVE IndexConsistent'
  BY <1>10 DEF ReservePath, Goto
<1>11. ASSUME NEW c \in Calls, NEW n \in Names, PickNickname(c, n) PROVE IndexConsistent'
  BY <1>11 DEF PickNickname, Nickname, AfterNickname, Goto
<1>12. ASSUME NEW c \in Calls, NEW n \in Names, ResetNicknames(c, n) PROVE IndexConsistent'
  BY <1>12 DEF ResetNicknames, Nickname, AfterNickname, Goto
<1>13. ASSUME NEW c \in Calls, NEW n \in Names, KeepNickname(c, n) PROVE IndexConsistent'
  BY <1>13 DEF KeepNickname, AfterNickname, Goto
<1>14. ASSUME NEW c \in Calls, NEW t \in Threads, Create(c, t) PROVE IndexConsistent'
  BY <1>14 DEF Create, Goto
<1>15. ASSUME NEW c \in Calls, Lookup(c) PROVE IndexConsistent'
  BY <1>15 DEF Lookup, Goto
<1>16. ASSUME NEW c \in Calls, Finalize(c) PROVE IndexConsistent'
  BY <1>16 DEF Finalize, Goto
<1>17. ASSUME NEW c \in Calls, CreateFails(c) PROVE IndexConsistent'
  BY <1>17 DEF CreateFails, Goto
<1>18. ASSUME NEW c \in Calls, Commit(c) PROVE IndexConsistent'
  BY <1>18 DEF Commit, RegisteredTree, RegisteredPaths, KeyOf, Goto
<1>19. ASSUME NEW c \in Calls, DropPath(c) PROVE IndexConsistent'
  BY <1>19 DEF DropPath, Goto
<1>20. ASSUME NEW c \in Calls, FetchSub(c) PROVE IndexConsistent'
  BY <1>20 DEF FetchSub, Goto
<1>21. ASSUME NEW c \in Calls, Shutdown(c) PROVE IndexConsistent'
  BY <1>21 DEF Shutdown, Goto
<1>22. ASSUME NEW c \in Calls, RemoveThread(c) PROVE IndexConsistent'
  BY <1>22 DEF RemoveThread, Goto
<1>23. ASSUME NEW c \in Calls, ReleaseThread(c) PROVE IndexConsistent'
  BY <1>23 DEF ReleaseThread, Goto
<1>24. ASSUME NEW t \in Threads, SessionEnds(t) PROVE IndexConsistent'
  BY <1>24 DEF SessionEnds
<1>25. QED
  BY <1>1, <1>2, <1>3, <1>4, <1>5, <1>6, <1>7, <1>8, <1>9, <1>10, <1>11, <1>12, <1>13,
     <1>14, <1>15, <1>16, <1>17, <1>18, <1>19, <1>20, <1>21, <1>22, <1>23, <1>24 DEF Next

\* Every step keeps each reserved path with the one call that reserved it.
LEMMA PathNext == Inv /\ Next => PathOwned'
<1> SUFFICES ASSUME Inv, Next PROVE PathOwned'
  OBVIOUS
<1> USE AgentRegistryAssumption DEF Inv, TypeOK, CallsOK, Keys, IndexConsistent, PathOwned,
           CreatingLabels, HoldingLabels, registryVars, poolVars, threadVars, callVars
<1>1. ASSUME NEW c \in Calls, NEW p \in Paths \cup {NoKey}, Spawn(c, p) PROVE PathOwned'
  BY <1>1 DEF Spawn, Begin, Goto
<1>2. ASSUME NEW c \in Calls, NEW t \in Threads, Resume(c, t) PROVE PathOwned'
  BY <1>2 DEF Resume, Begin, Goto
<1>3. ASSUME NEW c \in Calls, NEW t \in Threads, Restore(c, t) PROVE PathOwned'
  BY <1>3 DEF Restore, Begin, Goto
<1>4. ASSUME NEW c \in Calls, NEW t \in Threads, Close(c, t) PROVE PathOwned'
  BY <1>4 DEF Close, Begin, Goto
<1>5. ASSUME NEW c \in Calls, NEW t \in Threads, Request(c, t) PROVE PathOwned'
  BY <1>5 DEF Request, Begin, Goto
<1>6. ASSUME NEW c \in Calls, ReserveUnlimited(c) PROVE PathOwned'
  BY <1>6 DEF ReserveUnlimited, Limited, AfterReserve, Goto
<1>7. ASSUME NEW c \in Calls, LoadCount(c) PROVE PathOwned'
  BY <1>7 DEF LoadCount, Limited, Goto
<1>8. ASSUME NEW c \in Calls, Exchange(c) PROVE PathOwned'
  BY <1>8 DEF Exchange, AfterReserve, Goto
<1>9. ASSUME NEW c \in Calls, RegisterRoot(c) PROVE PathOwned'
  BY <1>9 DEF RegisterRoot, Goto
<1>10. ASSUME NEW c \in Calls, ReservePath(c) PROVE PathOwned'
  BY <1>10 DEF ReservePath, Goto
<1>11. ASSUME NEW c \in Calls, NEW n \in Names, PickNickname(c, n) PROVE PathOwned'
  BY <1>11 DEF PickNickname, Nickname, AfterNickname, Goto
<1>12. ASSUME NEW c \in Calls, NEW n \in Names, ResetNicknames(c, n) PROVE PathOwned'
  BY <1>12 DEF ResetNicknames, Nickname, AfterNickname, Goto
<1>13. ASSUME NEW c \in Calls, NEW n \in Names, KeepNickname(c, n) PROVE PathOwned'
  BY <1>13 DEF KeepNickname, AfterNickname, Goto
<1>14. ASSUME NEW c \in Calls, NEW t \in Threads, Create(c, t) PROVE PathOwned'
  BY <1>14 DEF Create, Goto
<1>15. ASSUME NEW c \in Calls, Lookup(c) PROVE PathOwned'
  BY <1>15 DEF Lookup, Goto
<1>16. ASSUME NEW c \in Calls, Finalize(c) PROVE PathOwned'
  BY <1>16 DEF Finalize, Goto
<1>17. ASSUME NEW c \in Calls, CreateFails(c) PROVE PathOwned'
  BY <1>17 DEF CreateFails, Goto
<1>18. ASSUME NEW c \in Calls, Commit(c) PROVE PathOwned'
  BY <1>18 DEF Commit, RegisteredTree, RegisteredPaths, KeyOf, Goto
<1>19. ASSUME NEW c \in Calls, DropPath(c) PROVE PathOwned'
  BY <1>19 DEF DropPath, Goto
<1>20. ASSUME NEW c \in Calls, FetchSub(c) PROVE PathOwned'
  BY <1>20 DEF FetchSub, Goto
<1>21. ASSUME NEW c \in Calls, Shutdown(c) PROVE PathOwned'
  BY <1>21 DEF Shutdown, Goto
<1>22. ASSUME NEW c \in Calls, RemoveThread(c) PROVE PathOwned'
  BY <1>22 DEF RemoveThread, Goto
<1>23. ASSUME NEW c \in Calls, ReleaseThread(c) PROVE PathOwned'
  BY <1>23 DEF ReleaseThread, Goto
<1>24. ASSUME NEW t \in Threads, SessionEnds(t) PROVE PathOwned'
  BY <1>24 DEF SessionEnds
<1>25. QED
  BY <1>1, <1>2, <1>3, <1>4, <1>5, <1>6, <1>7, <1>8, <1>9, <1>10, <1>11, <1>12, <1>13,
     <1>14, <1>15, <1>16, <1>17, <1>18, <1>19, <1>20, <1>21, <1>22, <1>23, <1>24 DEF Next

-----------------------------------------------------------------------------
(* The count                                                               *)

\* What the count stands for, and a step that changes both by as much.
Accounted == Cardinality(LiveKeys) + Cardinality(Holding) + Cardinality(Uncounting)
Balanced == total' + Accounted = total + Accounted'

\* Every step other than a commit is such a step.
LEMMA BalancedNext == Inv /\ Next => Balanced \/ \E c \in Calls : Commit(c)
<1> SUFFICES ASSUME Inv, Next, ~(\E c \in Calls : Commit(c)) PROVE Balanced
  OBVIOUS
<1> USE AgentRegistryAssumption DEF Inv, TypeOK, CallsOK, Keys, CreatingLabels,
           HoldingLabels, registryVars, poolVars, threadVars, callVars
<1>1. ASSUME NEW c \in Calls, NEW p \in Paths \cup {NoKey}, Spawn(c, p) PROVE Balanced
  <2>1. /\ LiveKeys' = LiveKeys /\ total' = total
        /\ Holding' = Holding /\ Uncounting' = Uncounting
    BY <1>1 DEF LiveKeys, Holding, Uncounting, Spawn, Begin, Goto
  <2>2. QED
    BY <2>1 DEF Balanced, Accounted
<1>2. ASSUME NEW c \in Calls, NEW t \in Threads, Resume(c, t) PROVE Balanced
  <2>1. /\ LiveKeys' = LiveKeys /\ total' = total
        /\ Holding' = Holding /\ Uncounting' = Uncounting
    BY <1>2 DEF LiveKeys, Holding, Uncounting, Resume, Begin, Goto
  <2>2. QED
    BY <2>1 DEF Balanced, Accounted
<1>3. ASSUME NEW c \in Calls, NEW t \in Threads, Restore(c, t) PROVE Balanced
  <2>1. /\ LiveKeys' = LiveKeys /\ total' = total
        /\ Holding' = Holding /\ Uncounting' = Uncounting
    BY <1>3 DEF LiveKeys, Holding, Uncounting, Restore, Begin, Goto
  <2>2. QED
    BY <2>1 DEF Balanced, Accounted
<1>4. ASSUME NEW c \in Calls, NEW t \in Threads, Close(c, t) PROVE Balanced
  <2>1. /\ LiveKeys' = LiveKeys /\ total' = total
        /\ Holding' = Holding /\ Uncounting' = Uncounting
    BY <1>4 DEF LiveKeys, Holding, Uncounting, Close, Begin, Goto
  <2>2. QED
    BY <2>1 DEF Balanced, Accounted
<1>5. ASSUME NEW c \in Calls, NEW t \in Threads, Request(c, t) PROVE Balanced
  <2>1. /\ LiveKeys' = LiveKeys /\ total' = total
        /\ Holding' = Holding /\ Uncounting' = Uncounting
    BY <1>5 DEF LiveKeys, Holding, Uncounting, Request, Begin, Goto
  <2>2. QED
    BY <2>1 DEF Balanced, Accounted
<1>6. ASSUME NEW c \in Calls, ReserveUnlimited(c) PROVE Balanced
  <2>1. LiveKeys' = LiveKeys /\ Uncounting' = Uncounting
    BY <1>6 DEF LiveKeys, Holding, Uncounting, ReserveUnlimited, Limited, AfterReserve, Goto
  <2>2. Holding' = Holding \cup {c} /\ c \notin Holding /\ total' = total + 1
    BY <1>6 DEF LiveKeys, Holding, Uncounting, ReserveUnlimited, Limited, AfterReserve, Goto
  <2>3. Cardinality(Holding') = Cardinality(Holding) + 1
    BY <2>2, Finite, FS_AddElement
  <2>4. total \in Nat
    OBVIOUS
  <2> HIDE AgentRegistryAssumption DEF Inv, TypeOK, CallsOK, Keys
  <2>5. QED
    BY <2>1, <2>2, <2>3, <2>4, Finite DEF Balanced, Accounted
<1>7. ASSUME NEW c \in Calls, LoadCount(c) PROVE Balanced
  <2>1. /\ LiveKeys' = LiveKeys /\ total' = total
        /\ Holding' = Holding /\ Uncounting' = Uncounting
    BY <1>7 DEF LiveKeys, Holding, Uncounting, LoadCount, Limited, Goto
  <2>2. QED
    BY <2>1 DEF Balanced, Accounted
<1>8. ASSUME NEW c \in Calls, Exchange(c) PROVE Balanced
  <2>1. LiveKeys' = LiveKeys /\ Uncounting' = Uncounting
    BY <1>8 DEF LiveKeys, Holding, Uncounting, Exchange, AfterReserve, Goto
  <2>2. CASE total' = total
    <3>1. Holding' = Holding
      BY <1>8, <2>2 DEF LiveKeys, Holding, Uncounting, Exchange, AfterReserve, Goto
    <3>2. QED
      BY <2>1, <2>2, <3>1 DEF Balanced, Accounted
  <2>3. CASE total' = total + 1
    <3>1. Holding' = Holding \cup {c} /\ c \notin Holding
      BY <1>8, <2>3 DEF LiveKeys, Holding, Uncounting, Exchange, AfterReserve, Goto
    <3>2. Cardinality(Holding') = Cardinality(Holding) + 1
      BY <3>1, Finite, FS_AddElement
    <3>3. QED
      BY <2>1, <2>3, <3>2, Finite DEF Balanced, Accounted
  <2>4. QED
    BY <1>8, <2>2, <2>3 DEF Exchange
<1>9. ASSUME NEW c \in Calls, RegisterRoot(c) PROVE Balanced
  <2>1. /\ LiveKeys' = LiveKeys /\ total' = total
        /\ Holding' = Holding /\ Uncounting' = Uncounting
    BY <1>9 DEF LiveKeys, Holding, Uncounting, RegisterRoot, Goto
  <2>2. QED
    BY <2>1 DEF Balanced, Accounted
<1>10. ASSUME NEW c \in Calls, ReservePath(c) PROVE Balanced
  <2>1. /\ LiveKeys' = LiveKeys /\ total' = total
        /\ Holding' = Holding /\ Uncounting' = Uncounting
    BY <1>10 DEF LiveKeys, Holding, Uncounting, ReservePath, Goto
  <2>2. QED
    BY <2>1 DEF Balanced, Accounted
<1>11. ASSUME NEW c \in Calls, NEW n \in Names, PickNickname(c, n) PROVE Balanced
  <2>1. /\ LiveKeys' = LiveKeys /\ total' = total
        /\ Holding' = Holding /\ Uncounting' = Uncounting
    BY <1>11 DEF LiveKeys, Holding, Uncounting, PickNickname, Nickname, AfterNickname, Goto
  <2>2. QED
    BY <2>1 DEF Balanced, Accounted
<1>12. ASSUME NEW c \in Calls, NEW n \in Names, ResetNicknames(c, n) PROVE Balanced
  <2>1. /\ LiveKeys' = LiveKeys /\ total' = total
        /\ Holding' = Holding /\ Uncounting' = Uncounting
    BY <1>12 DEF LiveKeys, Holding, Uncounting, ResetNicknames, Nickname, AfterNickname, Goto
  <2>2. QED
    BY <2>1 DEF Balanced, Accounted
<1>13. ASSUME NEW c \in Calls, NEW n \in Names, KeepNickname(c, n) PROVE Balanced
  <2>1. /\ LiveKeys' = LiveKeys /\ total' = total
        /\ Holding' = Holding /\ Uncounting' = Uncounting
    BY <1>13 DEF LiveKeys, Holding, Uncounting, KeepNickname, AfterNickname, Goto
  <2>2. QED
    BY <2>1 DEF Balanced, Accounted
<1>14. ASSUME NEW c \in Calls, NEW t \in Threads, Create(c, t) PROVE Balanced
  <2>1. /\ LiveKeys' = LiveKeys /\ total' = total
        /\ Holding' = Holding /\ Uncounting' = Uncounting
    BY <1>14 DEF LiveKeys, Holding, Uncounting, Create, Goto
  <2>2. QED
    BY <2>1 DEF Balanced, Accounted
<1>15. ASSUME NEW c \in Calls, Lookup(c) PROVE Balanced
  <2>1. /\ LiveKeys' = LiveKeys /\ total' = total
        /\ Holding' = Holding /\ Uncounting' = Uncounting
    BY <1>15 DEF LiveKeys, Holding, Uncounting, Lookup, Goto
  <2>2. QED
    BY <2>1 DEF Balanced, Accounted
<1>16. ASSUME NEW c \in Calls, Finalize(c) PROVE Balanced
  <2>1. /\ LiveKeys' = LiveKeys /\ total' = total
        /\ Holding' = Holding /\ Uncounting' = Uncounting
    BY <1>16 DEF LiveKeys, Holding, Uncounting, Finalize, Goto
  <2>2. QED
    BY <2>1 DEF Balanced, Accounted
<1>17. ASSUME NEW c \in Calls, CreateFails(c) PROVE Balanced
  <2>1. /\ LiveKeys' = LiveKeys /\ total' = total
        /\ Holding' = Holding /\ Uncounting' = Uncounting
    BY <1>17 DEF LiveKeys, Holding, Uncounting, CreateFails, Goto
  <2>2. QED
    BY <2>1 DEF Balanced, Accounted
<1>18. ASSUME NEW c \in Calls, DropPath(c) PROVE Balanced
  <2>1. /\ LiveKeys' = LiveKeys /\ total' = total
        /\ Holding' = Holding /\ Uncounting' = Uncounting
    BY <1>18 DEF LiveKeys, Holding, Uncounting, DropPath, Goto
  <2>2. QED
    BY <2>1 DEF Balanced, Accounted
<1>19. ASSUME NEW c \in Calls, FetchSub(c) PROVE Balanced
  <2>1. LiveKeys' = LiveKeys /\ total' = total - 1
    BY <1>19 DEF LiveKeys, Holding, Uncounting, FetchSub, Goto
  <2>2. CASE pc[c] = "dropCount"
    <3>1. Holding' = Holding \ {c} /\ c \in Holding /\ Uncounting' = Uncounting
      BY <1>19, <2>2 DEF LiveKeys, Holding, Uncounting, FetchSub, Goto
    <3>2. Cardinality(Holding') = Cardinality(Holding) - 1
      BY <3>1, Finite, FS_RemoveElement
    <3>3. total \in Nat
      OBVIOUS
    <3> HIDE AgentRegistryAssumption DEF Inv, TypeOK, CallsOK, Keys
    <3>4. QED
      BY <2>1, <3>1, <3>2, <3>3, Finite DEF Balanced, Accounted
  <2>3. CASE pc[c] = "uncount"
    <3>1. Uncounting' = Uncounting \ {c} /\ c \in Uncounting /\ Holding' = Holding
      BY <1>19, <2>3 DEF LiveKeys, Holding, Uncounting, FetchSub, Goto
    <3>2. Cardinality(Uncounting') = Cardinality(Uncounting) - 1
      BY <3>1, Finite, FS_RemoveElement
    <3>3. total \in Nat
      OBVIOUS
    <3> HIDE AgentRegistryAssumption DEF Inv, TypeOK, CallsOK, Keys
    <3>4. QED
      BY <2>1, <3>1, <3>2, <3>3, Finite DEF Balanced, Accounted
  <2>4. QED
    BY <1>19, <2>2, <2>3 DEF FetchSub
<1>20. ASSUME NEW c \in Calls, Shutdown(c) PROVE Balanced
  <2>1. /\ LiveKeys' = LiveKeys /\ total' = total
        /\ Holding' = Holding /\ Uncounting' = Uncounting
    BY <1>20 DEF LiveKeys, Holding, Uncounting, Shutdown, Goto
  <2>2. QED
    BY <2>1 DEF Balanced, Accounted
<1>21. ASSUME NEW c \in Calls, RemoveThread(c) PROVE Balanced
  <2>1. /\ LiveKeys' = LiveKeys /\ total' = total
        /\ Holding' = Holding /\ Uncounting' = Uncounting
    BY <1>21 DEF LiveKeys, Holding, Uncounting, RemoveThread, Goto
  <2>2. QED
    BY <2>1 DEF Balanced, Accounted
<1>22. ASSUME NEW c \in Calls, ReleaseThread(c) PROVE Balanced
  <2> DEFINE key == threadPath[target[c]]
  <2>1. Holding' = Holding /\ total' = total
    BY <1>22 DEF LiveKeys, Holding, Uncounting, ReleaseThread, Goto
  <2>2. CASE key \in {NoKey, RootPath}
    <3>1. LiveKeys' = LiveKeys /\ Uncounting' = Uncounting
      BY <1>22, <2>2 DEF LiveKeys, Holding, Uncounting, ReleaseThread, Goto
    <3>2. QED
      BY <2>1, <3>1 DEF Balanced, Accounted
  <2>3. CASE key \notin {NoKey, RootPath}
    <3>1. key \in LiveKeys
      BY <1>22, <2>3 DEF LiveKeys, ReleaseThread, IndexConsistent
    <3>2. LiveKeys' = LiveKeys \ {key}
      BY <1>22, <2>3 DEF LiveKeys, Holding, Uncounting, ReleaseThread, Goto
    <3>3. Uncounting' = Uncounting \cup {c} /\ c \notin Uncounting
      BY <1>22, <2>3, <3>1 DEF LiveKeys, Holding, Uncounting, ReleaseThread, Goto
    <3>4. Cardinality(LiveKeys') = Cardinality(LiveKeys) - 1
      BY <3>1, <3>2, Finite, FS_RemoveElement
    <3>5. Cardinality(Uncounting') = Cardinality(Uncounting) + 1
      BY <3>3, Finite, FS_AddElement
    <3>6. QED
      BY <2>1, <3>4, <3>5, Finite DEF Balanced, Accounted
  <2>4. QED
    BY <2>2, <2>3
<1>23. ASSUME NEW t \in Threads, SessionEnds(t) PROVE Balanced
  <2>1. /\ LiveKeys' = LiveKeys /\ total' = total
        /\ Holding' = Holding /\ Uncounting' = Uncounting
    BY <1>23 DEF LiveKeys, Holding, Uncounting, SessionEnds
  <2>2. QED
    BY <2>1 DEF Balanced, Accounted
<1>24. QED
  BY <1>1, <1>2, <1>3, <1>4, <1>5, <1>6, <1>7, <1>8, <1>9, <1>10, <1>11, <1>12, <1>13,
     <1>14, <1>15, <1>16, <1>17, <1>18, <1>19, <1>20, <1>21, <1>22, <1>23 DEF Next

\* A commit turns a reservation into at most one more agent.
LEMMA CommitCovered ==
    ASSUME Inv, NEW c \in Calls, Commit(c)
    PROVE  CountCovers'
<1> USE AgentRegistryAssumption DEF Inv, TypeOK, CallsOK, Keys, CreatingLabels,
           HoldingLabels, registryVars, poolVars, threadVars, callVars
<1> DEFINE key == KeyOf(c)
<1>1. Uncounting' = Uncounting /\ total' = total
  BY DEF Uncounting, Commit, Goto
<1>2. Holding' = Holding \ {c} /\ c \in Holding
  BY DEF Holding, Commit, Goto
<1>3. LiveKeys' \in SUBSET (LiveKeys \cup {key})
  BY DEF LiveKeys, Commit, RegisteredTree, KeyOf
<1> HIDE DEF key
<1>4. IsFiniteSet(LiveKeys \cup {key})
      /\ Cardinality(LiveKeys \cup {key}) =
           IF key \in LiveKeys THEN Cardinality(LiveKeys) ELSE Cardinality(LiveKeys) + 1
  BY Finite, FS_AddElement
<1>5. Cardinality(LiveKeys') <= Cardinality(LiveKeys \cup {key})
  BY <1>3, <1>4, FS_Subset
<1>6. Cardinality(Holding') = Cardinality(Holding) - 1
  BY <1>2, Finite, FS_RemoveElement
<1>7. QED
  BY <1>1, <1>4, <1>5, <1>6, Finite, FiniteNext DEF CountCovers

\* Every step keeps the count at or above what it stands for.
LEMMA CountNext == Inv /\ Next => CountCovers'
<1> SUFFICES ASSUME Inv, Next PROVE CountCovers'
  OBVIOUS
<1>1. CASE Balanced
  <2>1. total \in Nat /\ total' \in Nat
    BY TypeNext DEF Inv, TypeOK
  <2>2. QED
    BY <1>1, <2>1, Finite, FiniteNext DEF Balanced, Accounted, Inv, CountCovers
<1>2. CASE \E c \in Calls : Commit(c)
  BY <1>2, CommitCovered
<1>3. QED
  BY <1>1, <1>2, BalancedNext

\* The inductive invariant.
THEOREM Invariance == Spec => []Inv
<1>1. Inv /\ [Next]_vars => Inv'
  <2> SUFFICES ASSUME Inv, [Next]_vars PROVE Inv'
    OBVIOUS
  <2>1. CASE Next
    BY <2>1, TypeNext, CallsNext, IndexNext, PathNext, CountNext DEF Inv
  <2>2. CASE UNCHANGED vars
    BY <2>2 DEF vars, registryVars, poolVars, threadVars, callVars, Inv, TypeOK, CallsOK,
                IndexConsistent, PathOwned, CountCovers, LiveKeys, Holding, Uncounting
  <2>3. QED
    BY <2>1, <2>2
<1>2. QED
  BY <1>1, InvInit, PTL DEF Spec

\* Type correctness: total_count never wraps below zero.
THEOREM TypeCorrect == Spec => []TypeOK
<1>1. Inv => TypeOK
  BY DEF Inv
<1>2. QED
  BY <1>1, Invariance, PTL

\* agent_tree and thread_paths stay inverse to each other.
THEOREM IndexesAgree == Spec => []IndexConsistent
<1>1. Inv => IndexConsistent
  BY DEF Inv
<1>2. QED
  BY <1>1, Invariance, PTL

\* A reserved path belongs to exactly one unfinished call.
THEOREM PathsExclusive == Spec => []PathOwned
<1>1. Inv => PathOwned
  BY DEF Inv
<1>2. QED
  BY <1>1, Invariance, PTL

\* total_count covers every registered agent and every reservation.
THEOREM CountSound == Spec => []CountCovers
<1>1. Inv => CountCovers
  BY DEF Inv
<1>2. QED
  BY <1>1, Invariance, PTL

-----------------------------------------------------------------------------
(* The limit                                                               *)

\* When the registry sets the limit, the count is within it.
Capped == ~Resident => total <= MaxThreads

\* The compare-exchange is the only step that raises a limited count.
LEMMA CapNext == Inv /\ Inv' /\ Capped /\ Next => Capped'
<1> SUFFICES ASSUME Inv, Inv', Capped, Next PROVE Capped'
  OBVIOUS
<1> USE AgentRegistryAssumption DEF Inv, TypeOK, CallsOK, Capped, CreatingLabels, HoldingLabels,
           registryVars, poolVars, threadVars, callVars
<1>1. ASSUME NEW c \in Calls, NEW p \in Paths \cup {NoKey}, Spawn(c, p) PROVE Capped'
  BY <1>1 DEF Spawn, Begin, Goto
<1>2. ASSUME NEW c \in Calls, NEW t \in Threads, Resume(c, t) PROVE Capped'
  BY <1>2 DEF Resume, Begin, Goto
<1>3. ASSUME NEW c \in Calls, NEW t \in Threads, Restore(c, t) PROVE Capped'
  BY <1>3 DEF Restore, Begin, Goto
<1>4. ASSUME NEW c \in Calls, NEW t \in Threads, Close(c, t) PROVE Capped'
  BY <1>4 DEF Close, Begin, Goto
<1>5. ASSUME NEW c \in Calls, NEW t \in Threads, Request(c, t) PROVE Capped'
  BY <1>5 DEF Request, Begin, Goto
<1>6. ASSUME NEW c \in Calls, ReserveUnlimited(c) PROVE Capped'
  BY <1>6 DEF ReserveUnlimited, Limited, AfterReserve, Goto
<1>7. ASSUME NEW c \in Calls, LoadCount(c) PROVE Capped'
  BY <1>7 DEF LoadCount, Limited, Goto
<1>8. ASSUME NEW c \in Calls, Exchange(c) PROVE Capped'
  BY <1>8 DEF Exchange, AfterReserve, Goto
<1>9. ASSUME NEW c \in Calls, RegisterRoot(c) PROVE Capped'
  BY <1>9 DEF RegisterRoot, Goto
<1>10. ASSUME NEW c \in Calls, ReservePath(c) PROVE Capped'
  BY <1>10 DEF ReservePath, Goto
<1>11. ASSUME NEW c \in Calls, NEW n \in Names, PickNickname(c, n) PROVE Capped'
  BY <1>11 DEF PickNickname, Nickname, AfterNickname, Goto
<1>12. ASSUME NEW c \in Calls, NEW n \in Names, ResetNicknames(c, n) PROVE Capped'
  BY <1>12 DEF ResetNicknames, Nickname, AfterNickname, Goto
<1>13. ASSUME NEW c \in Calls, NEW n \in Names, KeepNickname(c, n) PROVE Capped'
  BY <1>13 DEF KeepNickname, AfterNickname, Goto
<1>14. ASSUME NEW c \in Calls, NEW t \in Threads, Create(c, t) PROVE Capped'
  BY <1>14 DEF Create, Goto
<1>15. ASSUME NEW c \in Calls, Lookup(c) PROVE Capped'
  BY <1>15 DEF Lookup, Goto
<1>16. ASSUME NEW c \in Calls, Finalize(c) PROVE Capped'
  BY <1>16 DEF Finalize, Goto
<1>17. ASSUME NEW c \in Calls, CreateFails(c) PROVE Capped'
  BY <1>17 DEF CreateFails, Goto
<1>18. ASSUME NEW c \in Calls, Commit(c) PROVE Capped'
  BY <1>18 DEF Commit, RegisteredTree, RegisteredPaths, KeyOf, Goto
<1>19. ASSUME NEW c \in Calls, DropPath(c) PROVE Capped'
  BY <1>19 DEF DropPath, Goto
<1>20. ASSUME NEW c \in Calls, FetchSub(c) PROVE Capped'
  BY <1>20 DEF FetchSub, Goto
<1>21. ASSUME NEW c \in Calls, Shutdown(c) PROVE Capped'
  BY <1>21 DEF Shutdown, Goto
<1>22. ASSUME NEW c \in Calls, RemoveThread(c) PROVE Capped'
  BY <1>22 DEF RemoveThread, Goto
<1>23. ASSUME NEW c \in Calls, ReleaseThread(c) PROVE Capped'
  BY <1>23 DEF ReleaseThread, Goto
<1>24. ASSUME NEW t \in Threads, SessionEnds(t) PROVE Capped'
  BY <1>24 DEF SessionEnds
<1>25. QED
  BY <1>1, <1>2, <1>3, <1>4, <1>5, <1>6, <1>7, <1>8, <1>9, <1>10, <1>11, <1>12, <1>13,
     <1>14, <1>15, <1>16, <1>17, <1>18, <1>19, <1>20, <1>21, <1>22, <1>23, <1>24 DEF Next

\* Never more agents are registered than agents.max_threads allows.
THEOREM LimitKept == Spec => []LimitHolds
<1>1. Init => Capped
  BY AgentRegistryAssumption DEF Init, Capped
<1>2. Inv /\ Inv' /\ Capped /\ [Next]_vars => Capped'
  <2> SUFFICES ASSUME Inv, Inv', Capped, [Next]_vars PROVE Capped'
    OBVIOUS
  <2>1. CASE Next
    BY <2>1, CapNext
  <2>2. CASE UNCHANGED vars
    BY <2>2 DEF vars, registryVars, Capped
  <2>3. QED
    BY <2>1, <2>2
<1>3. Inv /\ Capped => LimitHolds
  BY Finite, AgentRegistryAssumption DEF Inv, TypeOK, CountCovers, Capped, LimitHolds
<1>4. QED
  BY <1>1, <1>2, <1>3, Invariance, PTL DEF Spec

-----------------------------------------------------------------------------
(* Nicknames                                                               *)

\* A spawned agent's nickname carries the ordinal of a past or present pool, and
\* the present pool remembers it.
PoolOK ==
    \A c \in Calls : kind[c] = "spawn" /\ nick[c] # NoNick =>
        /\ nick[c][2] <= resets
        /\ nick[c][2] = resets => nick[c] \in usedNames

NickInv == PoolOK /\ NicknamesDistinct

\* Every step preserves it.
LEMMA NickNext == Inv /\ NickInv /\ Next => NickInv'
<1> SUFFICES ASSUME Inv, NickInv, Next PROVE NickInv'
  OBVIOUS
<1> USE AgentRegistryAssumption DEF Inv, TypeOK, CallsOK, NickInv, PoolOK, NicknamesDistinct,
           CreatingLabels, HoldingLabels, registryVars, poolVars, threadVars, callVars
<1>1. ASSUME NEW c \in Calls, NEW p \in Paths \cup {NoKey}, Spawn(c, p) PROVE NickInv'
  BY <1>1 DEF Spawn, Begin, Goto
<1>2. ASSUME NEW c \in Calls, NEW t \in Threads, Resume(c, t) PROVE NickInv'
  BY <1>2 DEF Resume, Begin, Goto
<1>3. ASSUME NEW c \in Calls, NEW t \in Threads, Restore(c, t) PROVE NickInv'
  BY <1>3 DEF Restore, Begin, Goto
<1>4. ASSUME NEW c \in Calls, NEW t \in Threads, Close(c, t) PROVE NickInv'
  BY <1>4 DEF Close, Begin, Goto
<1>5. ASSUME NEW c \in Calls, NEW t \in Threads, Request(c, t) PROVE NickInv'
  BY <1>5 DEF Request, Begin, Goto
<1>6. ASSUME NEW c \in Calls, ReserveUnlimited(c) PROVE NickInv'
  BY <1>6 DEF ReserveUnlimited, Limited, AfterReserve, Goto
<1>7. ASSUME NEW c \in Calls, LoadCount(c) PROVE NickInv'
  BY <1>7 DEF LoadCount, Limited, Goto
<1>8. ASSUME NEW c \in Calls, Exchange(c) PROVE NickInv'
  BY <1>8 DEF Exchange, AfterReserve, Goto
<1>9. ASSUME NEW c \in Calls, RegisterRoot(c) PROVE NickInv'
  BY <1>9 DEF RegisterRoot, Goto
<1>10. ASSUME NEW c \in Calls, ReservePath(c) PROVE NickInv'
  BY <1>10 DEF ReservePath, Goto
<1>11. ASSUME NEW c \in Calls, NEW n \in Names, PickNickname(c, n) PROVE NickInv'
  BY <1>11 DEF PickNickname, Nickname, AfterNickname, Goto
<1>12. ASSUME NEW c \in Calls, NEW n \in Names, ResetNicknames(c, n) PROVE NickInv'
  BY <1>12 DEF ResetNicknames, Nickname, AfterNickname, Goto
<1>13. ASSUME NEW c \in Calls, NEW n \in Names, KeepNickname(c, n) PROVE NickInv'
  BY <1>13 DEF KeepNickname, AfterNickname, Goto
<1>14. ASSUME NEW c \in Calls, NEW t \in Threads, Create(c, t) PROVE NickInv'
  BY <1>14 DEF Create, Goto
<1>15. ASSUME NEW c \in Calls, Lookup(c) PROVE NickInv'
  BY <1>15 DEF Lookup, Goto
<1>16. ASSUME NEW c \in Calls, Finalize(c) PROVE NickInv'
  BY <1>16 DEF Finalize, Goto
<1>17. ASSUME NEW c \in Calls, CreateFails(c) PROVE NickInv'
  BY <1>17 DEF CreateFails, Goto
<1>18. ASSUME NEW c \in Calls, Commit(c) PROVE NickInv'
  BY <1>18 DEF Commit, RegisteredTree, RegisteredPaths, KeyOf, Goto
<1>19. ASSUME NEW c \in Calls, DropPath(c) PROVE NickInv'
  BY <1>19 DEF DropPath, Goto
<1>20. ASSUME NEW c \in Calls, FetchSub(c) PROVE NickInv'
  BY <1>20 DEF FetchSub, Goto
<1>21. ASSUME NEW c \in Calls, Shutdown(c) PROVE NickInv'
  BY <1>21 DEF Shutdown, Goto
<1>22. ASSUME NEW c \in Calls, RemoveThread(c) PROVE NickInv'
  BY <1>22 DEF RemoveThread, Goto
<1>23. ASSUME NEW c \in Calls, ReleaseThread(c) PROVE NickInv'
  BY <1>23 DEF ReleaseThread, Goto
<1>24. ASSUME NEW t \in Threads, SessionEnds(t) PROVE NickInv'
  BY <1>24 DEF SessionEnds
<1>25. QED
  BY <1>1, <1>2, <1>3, <1>4, <1>5, <1>6, <1>7, <1>8, <1>9, <1>10, <1>11, <1>12, <1>13,
     <1>14, <1>15, <1>16, <1>17, <1>18, <1>19, <1>20, <1>21, <1>22, <1>23, <1>24 DEF Next

\* Two spawned agents never share a nickname.
THEOREM NicknamesApart == Spec => []NicknamesDistinct
<1>1. Init => NickInv
  BY AgentRegistryAssumption DEF Init, NickInv, PoolOK, NicknamesDistinct
<1>2. Inv /\ NickInv /\ [Next]_vars => NickInv'
  <2> SUFFICES ASSUME Inv, NickInv, [Next]_vars PROVE NickInv'
    OBVIOUS
  <2>1. CASE Next
    BY <2>1, NickNext
  <2>2. CASE UNCHANGED vars
    BY <2>2 DEF vars, poolVars, callVars, NickInv, PoolOK, NicknamesDistinct
  <2>3. QED
    BY <2>1, <2>2
<1>3. NickInv => NicknamesDistinct
  BY DEF NickInv
<1>4. QED
  BY <1>1, <1>2, <1>3, Invariance, PTL DEF Spec

-----------------------------------------------------------------------------
(* The slots come back                                                     *)

\* Nobody resumes agents: a session with V2 residency, or one whose user does not.
NoResume == Resident \/ "resume" \notin Kinds

\* Calls that will register their thread.
Registering(c) ==
    \/ kind[c] = "restore" /\ pc[c] \in CreatingLabels
    \/ kind[c] = "spawn" /\ pc[c] = "commit"

\* Without resumes a commit always meets a thread that is not registered, and that no other
\* call is about to register; a thread's own key holds that thread or nobody.
FreshInv ==
    /\ NoResume
    /\ \A c \in Calls : kind[c] # "resume" /\ pc[c] # "finalize"
    /\ \A t \in Threads : tree[t] \in {Absent, t}
    /\ \A t \in Threads \ {RootThread} : born[t] = Absent => threadPath[t] = NoKey
    /\ \A c \in Calls :
          Registering(c) => threadPath[target[c]] = NoKey /\ born[target[c]] # Absent
    /\ \A c, d \in Calls : Registering(c) /\ Registering(d) /\ target[c] = target[d] => c = d

\* Every step keeps it.
LEMMA FreshNext == Inv /\ FreshInv /\ Next => FreshInv'
<1> SUFFICES ASSUME Inv, FreshInv, Next PROVE FreshInv'
  OBVIOUS
<1> USE AgentRegistryAssumption DEF Inv, TypeOK, CallsOK, Keys, CreatingLabels, HoldingLabels,
           registryVars, poolVars, threadVars, callVars, FreshInv, Registering
<1>1. ASSUME NEW c \in Calls, NEW p \in Paths \cup {NoKey}, Spawn(c, p) PROVE FreshInv'
  BY <1>1 DEF Spawn, Begin, Goto
<1>2. ASSUME NEW c \in Calls, NEW t \in Threads, Resume(c, t) PROVE FreshInv'
  BY <1>2 DEF Resume, Begin, NoResume, Goto
<1>3. ASSUME NEW c \in Calls, NEW t \in Threads, Restore(c, t) PROVE FreshInv'
  BY <1>3 DEF Restore, Begin, Goto
<1>4. ASSUME NEW c \in Calls, NEW t \in Threads, Close(c, t) PROVE FreshInv'
  BY <1>4 DEF Close, Begin, Goto
<1>5. ASSUME NEW c \in Calls, NEW t \in Threads, Request(c, t) PROVE FreshInv'
  BY <1>5 DEF Request, Begin, Goto
<1>6. ASSUME NEW c \in Calls, ReserveUnlimited(c) PROVE FreshInv'
  BY <1>6 DEF ReserveUnlimited, AfterReserve, Goto
<1>7. ASSUME NEW c \in Calls, LoadCount(c) PROVE FreshInv'
  BY <1>7 DEF LoadCount, Goto
<1>8. ASSUME NEW c \in Calls, Exchange(c) PROVE FreshInv'
  BY <1>8 DEF Exchange, AfterReserve, Goto
<1>9. ASSUME NEW c \in Calls, RegisterRoot(c) PROVE FreshInv'
  BY <1>9 DEF RegisterRoot, Goto
<1>10. ASSUME NEW c \in Calls, ReservePath(c) PROVE FreshInv'
  BY <1>10 DEF ReservePath, Goto
<1>11. ASSUME NEW c \in Calls, NEW n \in Names, PickNickname(c, n) PROVE FreshInv'
  BY <1>11 DEF PickNickname, AfterNickname, Goto
<1>12. ASSUME NEW c \in Calls, NEW n \in Names, ResetNicknames(c, n) PROVE FreshInv'
  BY <1>12 DEF ResetNicknames, AfterNickname, Goto
<1>13. ASSUME NEW c \in Calls, NEW n \in Names, KeepNickname(c, n) PROVE FreshInv'
  BY <1>13 DEF KeepNickname, AfterNickname, Goto
<1>14. ASSUME NEW c \in Calls, NEW t \in Threads, Create(c, t) PROVE FreshInv'
  BY <1>14 DEF Create, Goto
<1>15. ASSUME NEW c \in Calls, Lookup(c) PROVE FreshInv'
  BY <1>15 DEF Lookup, Goto
<1>16. ASSUME NEW c \in Calls, Finalize(c) PROVE FreshInv'
  BY <1>16 DEF Finalize, Goto
<1>17. ASSUME NEW c \in Calls, CreateFails(c) PROVE FreshInv'
  BY <1>17 DEF CreateFails, Goto
<1>18. ASSUME NEW c \in Calls, Commit(c) PROVE FreshInv'
  BY <1>18 DEF Commit, RegisteredTree, RegisteredPaths, KeyOf, Goto
<1>19. ASSUME NEW c \in Calls, DropPath(c) PROVE FreshInv'
  BY <1>19 DEF DropPath, Goto
<1>20. ASSUME NEW c \in Calls, FetchSub(c) PROVE FreshInv'
  BY <1>20 DEF FetchSub, Goto
<1>21. ASSUME NEW c \in Calls, Shutdown(c) PROVE FreshInv'
  BY <1>21 DEF Shutdown, Goto
<1>22. ASSUME NEW c \in Calls, RemoveThread(c) PROVE FreshInv'
  BY <1>22 DEF RemoveThread, Goto
<1>23. ASSUME NEW c \in Calls, ReleaseThread(c) PROVE FreshInv'
  BY <1>23 DEF ReleaseThread, Goto
<1>24. ASSUME NEW t \in Threads, SessionEnds(t) PROVE FreshInv'
  BY <1>24 DEF SessionEnds
<1>25. QED
  BY <1>1, <1>2, <1>3, <1>4, <1>5, <1>6, <1>7, <1>8, <1>9, <1>10, <1>11, <1>12, <1>13,
     <1>14, <1>15, <1>16, <1>17, <1>18, <1>19, <1>20, <1>21, <1>22, <1>23, <1>24 DEF Next

\* A commit of such a call registers exactly one more agent.
LEMMA CommitReturns ==
    ASSUME Inv, FreshInv, SlotsReturned, NEW c \in Calls, Commit(c)
    PROVE  SlotsReturned'
<1> DEFINE key == KeyOf(c)
<1>1. Uncounting' = Uncounting /\ total' = total
  BY DEF Inv, TypeOK, Uncounting, Commit, Goto
<1>2. Holding' = Holding \ {c} /\ c \in Holding
  BY DEF Inv, TypeOK, Holding, HoldingLabels, Commit, Goto
<1>3. target[c] \in Threads /\ threadPath[target[c]] = NoKey /\ reserved[c] = wanted[c]
  BY DEF Inv, CallsOK, FreshInv, Registering, CreatingLabels, HoldingLabels, Commit
<1>4. key \in Keys \ {RootPath} /\ tree[key] \notin Threads
  <2>1. CASE wanted[c] = NoKey
    <3>1. key = target[c] /\ key # RootPath
      BY <1>3, <2>1, AgentRegistryAssumption DEF KeyOf
    <3>2. tree[key] # key
      BY <1>3, <3>1, AgentRegistryAssumption DEF Inv, IndexConsistent, Keys
    <3>3. QED
      BY <1>3, <3>1, <3>2, AgentRegistryAssumption DEF FreshInv, Keys
  <2>2. CASE wanted[c] # NoKey
    BY <1>3, <2>2, AgentRegistryAssumption DEF KeyOf, Inv, TypeOK, PathOwned, Keys
  <2>3. QED
    BY <2>1, <2>2
<1>5. LiveKeys' = LiveKeys \cup {key} /\ key \notin LiveKeys
  <2>1. tree' = [k \in Keys |-> IF k = key THEN target[c] ELSE tree[k]]
    BY <1>3, AgentRegistryAssumption DEF Commit, RegisteredTree
  <2> HIDE DEF key
  <2>2. QED
    BY <1>3, <1>4, <2>1 DEF LiveKeys
<1> HIDE DEF key
<1>6. Cardinality(LiveKeys') = Cardinality(LiveKeys) + 1
  BY <1>5, Finite, FS_AddElement
<1>7. Cardinality(Holding') = Cardinality(Holding) - 1
  BY <1>2, Finite, FS_RemoveElement
<1>8. QED
  BY <1>1, <1>6, <1>7, Finite DEF SlotsReturned

LEMMA ReturnedNext == Inv /\ FreshInv /\ SlotsReturned /\ Next => SlotsReturned'
<1> SUFFICES ASSUME Inv, FreshInv, SlotsReturned, Next PROVE SlotsReturned'
  OBVIOUS
<1>1. CASE Balanced
  <2>1. total \in Nat /\ total' \in Nat
    BY TypeNext DEF Inv, TypeOK
  <2>2. QED
    BY <1>1, <2>1, Finite, FiniteNext DEF Balanced, Accounted, SlotsReturned
<1>2. CASE \E c \in Calls : Commit(c)
  BY <1>2, CommitReturns
<1>3. QED
  BY <1>1, <1>2, BalancedNext

\* While nobody resumes agents, total_count is exactly what the registered agents, the
\* reservations and the releases under way account for: every slot comes back.  (Two resumes
\* of one thread may both commit, which leaves the count one too high.)
THEOREM SlotsComeBack == Spec /\ NoResume => []SlotsReturned
<1>1. Init /\ NoResume => FreshInv /\ SlotsReturned
  <2> SUFFICES ASSUME Init, NoResume PROVE FreshInv /\ SlotsReturned
    OBVIOUS
  <2>1. FreshInv
    BY AgentRegistryAssumption DEF Init, FreshInv, Registering, CreatingLabels, HoldingLabels, Keys
  <2>2. LiveKeys = {} /\ Holding = {} /\ Uncounting = {}
    BY AgentRegistryAssumption DEF Init, LiveKeys, Holding, HoldingLabels, Uncounting
  <2>3. QED
    BY <2>1, <2>2, FS_EmptySet DEF Init, SlotsReturned
<1>2. Inv /\ FreshInv /\ SlotsReturned /\ [Next]_vars => (FreshInv /\ SlotsReturned)'
  <2> SUFFICES ASSUME Inv, FreshInv, SlotsReturned, [Next]_vars
               PROVE  (FreshInv /\ SlotsReturned)'
    OBVIOUS
  <2>1. CASE Next
    BY <2>1, FreshNext, ReturnedNext
  <2>2. CASE UNCHANGED vars
    BY <2>2 DEF vars, registryVars, poolVars, threadVars, callVars, FreshInv, NoResume,
                Registering, SlotsReturned, LiveKeys, Holding, Uncounting
  <2>3. QED
    BY <2>1, <2>2
<1>3. QED
  BY <1>1, <1>2, Invariance, PTL DEF Spec
=============================================================================
