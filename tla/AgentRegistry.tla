--------------------------- MODULE AgentRegistry ---------------------------
(***************************************************************************)
(* The registry of a session's agents: the count that limits them, the     *)
(* two indexes agent_tree and thread_paths, the nickname pool, and the     *)
(* reservations that spawning, resuming and restoring an agent hold while  *)
(* its thread is being created.                                            *)
(*                                                                         *)
(* Source: codex-rs/core/src/agent/registry.rs, and its callers in         *)
(* agent/control/spawn.rs, agent/control/legacy.rs and agent/control.rs.   *)
(*                                                                         *)
(* Calls run concurrently.  An action is one atomic operation or one       *)
(* critical section of active_agents or of the thread manager's map.       *)
(***************************************************************************)
EXTENDS Naturals, FiniteSets

CONSTANTS
    Calls,          \* calls a behaviour may make (bound)
    Threads,        \* thread ids, the root thread's included (bound)
    RootThread,
    Stored,         \* threads that an earlier process left on disk
    Paths,          \* agent paths, the root's excluded
    RootPath,
    Names,          \* the candidate nicknames
    MaxThreads,     \* agents.max_threads
    Resident,       \* spawns use V2 residency, so the registry sets no limit
    Kinds,          \* which calls are made
    NoKey, NoThread, NoNick, Absent, Reserved

\* Keys of agent_tree: a path, or "thread:<id>" for an agent without one.
Keys == Paths \cup {RootPath} \cup Threads

ASSUME AgentRegistryAssumption ==
    /\ RootThread \in Threads /\ Stored \subseteq Threads \ {RootThread}
    /\ RootPath \notin Paths /\ (Paths \cup {RootPath}) \cap Threads = {}
    /\ NoKey \notin Keys /\ NoThread \notin Threads
    /\ Absent # Reserved /\ {Absent, Reserved} \cap Threads = {}
    /\ Absent \notin Paths \cup {NoKey}
    /\ IsFiniteSet(Calls) /\ IsFiniteSet(Threads) /\ IsFiniteSet(Paths)
    /\ Names # {} /\ NoNick \notin Names \X Nat
    /\ MaxThreads \in Nat /\ Resident \in BOOLEAN
    /\ Kinds \subseteq {"spawn", "resume", "restore", "close", "request"}

VARIABLES
    total,        \* total_count
    tree,         \* agent_tree: the agent_id of a key, Reserved when it has none
    threadPath,   \* thread_paths
    usedNames,    \* used_agent_nicknames
    resets,       \* nickname_reset_count
    loaded,       \* the thread manager's threads
    ended,        \* loaded threads whose session loop has ended
    born,         \* the agent path persisted with a thread, Absent if it has none
    pc,           \* what each call does next
    kind,         \* the kind of each call
    seen,         \* the `current` of a call's compare-exchange loop
    wanted,       \* the agent path a call registers under
    reserved,     \* reserved_agent_path of a call's SpawnReservation
    nick,         \* the nickname the pool gave a call
    target        \* the thread a call creates, resumes or releases

registryVars == <<total, tree, threadPath>>
poolVars == <<usedNames, resets>>
threadVars == <<loaded, ended, born>>
callVars == <<kind, wanted, reserved, nick, target, seen>>
vars == <<registryVars, poolVars, threadVars, callVars, pc>>

-----------------------------------------------------------------------------
Goto(c, label) == pc' = [pc EXCEPT ![c] = label]

Init ==
    /\ total = 0
    /\ tree = [k \in Keys |-> Absent]
    /\ threadPath = [t \in Threads |-> NoKey]
    /\ usedNames = {} /\ resets = 0
    /\ loaded = {RootThread} /\ ended = {}
    /\ born \in [Threads -> Paths \cup {NoKey, Absent}]
    /\ \A t \in Threads : born[t] # Absent <=> t \in Stored
    /\ pc = [c \in Calls |-> "idle"]
    /\ kind = [c \in Calls |-> "spawn"]
    /\ seen = [c \in Calls |-> 0]
    /\ wanted = [c \in Calls |-> NoKey]
    /\ reserved = [c \in Calls |-> NoKey]
    /\ nick = [c \in Calls |-> NoNick]
    /\ target = [c \in Calls |-> NoThread]

-----------------------------------------------------------------------------
(* The calls                                                               *)

Begin(c, k, label) ==
    /\ pc[c] = "idle" /\ k \in Kinds
    /\ kind' = [kind EXCEPT ![c] = k]
    /\ Goto(c, label)

\* spawn_agent_internal, with the path its session source asks for.
Spawn(c, p) ==
    /\ Begin(c, "spawn", "reserve")
    /\ wanted' = [wanted EXCEPT ![c] = p]
    /\ UNCHANGED <<registryVars, poolVars, threadVars, reserved, nick, target, seen>>

\* resume_agent_from_rollout of a thread that is not loaded.
Resume(c, t) ==
    /\ Begin(c, "resume", "reserve")
    /\ ~Resident /\ born[t] # Absent /\ t \notin loaded
    /\ wanted' = [wanted EXCEPT ![c] = born[t]]
    /\ target' = [target EXCEPT ![c] = t]
    /\ UNCHANGED <<registryVars, poolVars, threadVars, reserved, nick, seen>>

\* One thread of restore_v2_agent_metadata's loop.
Restore(c, t) ==
    /\ Begin(c, "restore", "reserve")
    /\ Resident /\ t \in Stored /\ threadPath[t] = NoKey
    /\ \A d \in Calls : pc[d] \notin {"idle", "done"} => target[d] # t
    /\ wanted' = [wanted EXCEPT ![c] = born[t]]
    /\ target' = [target EXCEPT ![c] = t]
    /\ UNCHANGED <<registryVars, poolVars, threadVars, reserved, nick, seen>>

\* shutdown_live_agent, for an agent whose creation was reported to somebody.
Close(c, t) ==
    /\ Begin(c, "close", "shutdown")
    /\ born[t] # Absent
    /\ \A d \in Calls : kind[d] = "spawn" /\ pc[d] = "commit" => target[d] # t
    /\ target' = [target EXCEPT ![c] = t]
    /\ UNCHANGED <<registryVars, poolVars, threadVars, wanted, reserved, nick, seen>>

\* A request to a thread whose loop has ended fails with InternalAgentDied, and
\* handle_thread_request_result removes the agent.
Request(c, t) ==
    /\ Begin(c, "request", "remove")
    /\ t \in ended
    /\ target' = [target EXCEPT ![c] = t]
    /\ UNCHANGED <<registryVars, poolVars, threadVars, wanted, reserved, nick, seen>>

\* A session loop ends on its own.
SessionEnds(t) ==
    /\ "request" \in Kinds
    /\ t \in loaded \ ended
    /\ ended' = ended \cup {t}
    /\ UNCHANGED <<registryVars, poolVars, loaded, born, callVars, pc>>

-----------------------------------------------------------------------------
(* reserve_spawn_slot                                                      *)

Limited(c) == kind[c] = "resume" \/ (kind[c] = "spawn" /\ ~Resident)

\* After the slot: register_root_thread at depth 1, then prepare_agent_metadata;
\* a session source other than ThreadSpawn prepares nothing.
AfterReserve(c) ==
    CASE kind[c] = "restore" -> {"path"}
      [] kind[c] = "resume" -> {"root", "path"}
      [] OTHER -> {"root", "path"} \cup (IF wanted[c] = NoKey THEN {"create"} ELSE {})

\* total_count.fetch_add, when there is no limit.
ReserveUnlimited(c) ==
    /\ pc[c] = "reserve" /\ ~Limited(c)
    /\ total' = total + 1
    /\ \E next \in AfterReserve(c) : Goto(c, next)
    /\ UNCHANGED <<tree, threadPath, poolVars, threadVars, callVars>>

\* try_increment_spawned: the load.
LoadCount(c) ==
    /\ pc[c] = "reserve" /\ Limited(c)
    /\ seen' = [seen EXCEPT ![c] = total]
    /\ Goto(c, "exchange")
    /\ UNCHANGED <<registryVars, poolVars, threadVars, kind, wanted, reserved, nick, target>>

\* Mutant of Exchange: the count is stored without comparing it again.
ExchangeBlind(c) ==
    /\ pc[c] = "exchange"
    /\ IF seen[c] >= MaxThreads
       THEN Goto(c, "done") /\ UNCHANGED total
       ELSE total' = seen[c] + 1 /\ \E next \in AfterReserve(c) : Goto(c, next)
    /\ UNCHANGED <<tree, threadPath, poolVars, threadVars, callVars>>

\* try_increment_spawned: one turn of the compare-exchange loop.
Exchange(c) ==
    /\ pc[c] = "exchange"
    /\ \/ /\ seen[c] >= MaxThreads
          /\ Goto(c, "done")
          /\ UNCHANGED <<total, seen>>
       \/ /\ seen[c] < MaxThreads /\ total = seen[c]
          /\ total' = total + 1
          /\ \E next \in AfterReserve(c) : Goto(c, next)
          /\ UNCHANGED seen
       \/ /\ seen[c] < MaxThreads /\ total # seen[c]
          /\ seen' = [seen EXCEPT ![c] = total]
          /\ UNCHANGED <<total, pc>>
    /\ UNCHANGED <<tree, threadPath, poolVars, threadVars, kind, wanted, reserved, nick,
                   target>>

-----------------------------------------------------------------------------
(* prepare_agent_metadata                                                  *)

\* register_root_thread: the first caller's thread keeps the root's entry.
RegisterRoot(c) ==
    /\ pc[c] = "root"
    /\ IF tree[RootPath] = Absent
       THEN /\ tree' = [tree EXCEPT ![RootPath] = RootThread]
            /\ threadPath' = [threadPath EXCEPT ![RootThread] = RootPath]
       ELSE UNCHANGED <<tree, threadPath>>
    /\ Goto(c, "path")
    /\ UNCHANGED <<total, poolVars, threadVars, callVars>>

\* Mutant of ReservePath: an occupied path is taken over.
ReservePathBlind(c) ==
    /\ pc[c] = "path"
    /\ IF wanted[c] = NoKey
       THEN UNCHANGED <<tree, reserved>>
       ELSE /\ tree' = [tree EXCEPT ![wanted[c]] = Reserved]
            /\ reserved' = [reserved EXCEPT ![c] = wanted[c]]
    /\ Goto(c, "nickname")
    /\ UNCHANGED <<total, threadPath, poolVars, threadVars, kind, wanted, nick, target, seen>>

\* reserve_agent_path: an occupied path drops the reservation.
ReservePath(c) ==
    /\ pc[c] = "path"
    /\ \/ /\ wanted[c] = NoKey
          /\ Goto(c, "nickname")
          /\ UNCHANGED <<tree, reserved>>
       \/ /\ wanted[c] # NoKey /\ tree[wanted[c]] = Absent
          /\ tree' = [tree EXCEPT ![wanted[c]] = Reserved]
          /\ reserved' = [reserved EXCEPT ![c] = wanted[c]]
          /\ Goto(c, "nickname")
       \/ /\ wanted[c] # NoKey /\ tree[wanted[c]] # Absent
          /\ Goto(c, "drop")
          /\ UNCHANGED <<tree, reserved>>
    /\ UNCHANGED <<total, threadPath, poolVars, threadVars, kind, wanted, nick, target, seen>>

\* What format_agent_nickname makes of a candidate: "name the Nth".
Nickname(n) == <<n, resets>>

AfterNickname(c) == IF kind[c] = "restore" THEN "commit" ELSE "create"

\* Mutant of PickNickname: the pool is cleared without a new ordinal.
PickNicknameAgain(c, n) ==
    /\ pc[c] = "nickname"
    /\ (\A m \in Names : Nickname(m) \in usedNames) \/ Nickname(n) \notin usedNames
    /\ usedNames' = (IF Nickname(n) \in usedNames THEN {} ELSE usedNames) \cup {Nickname(n)}
    /\ nick' = [nick EXCEPT ![c] = Nickname(n)]
    /\ Goto(c, AfterNickname(c))
    /\ UNCHANGED <<registryVars, resets, threadVars, kind, wanted, reserved, target, seen>>

\* reserve_agent_nickname finds an unused candidate.
PickNickname(c, n) ==
    /\ pc[c] = "nickname"
    /\ Nickname(n) \notin usedNames
    /\ usedNames' = usedNames \cup {Nickname(n)}
    /\ nick' = [nick EXCEPT ![c] = Nickname(n)]
    /\ Goto(c, AfterNickname(c))
    /\ UNCHANGED <<registryVars, resets, threadVars, kind, wanted, reserved, target, seen>>

\* It finds none: the pool is cleared and the ordinal grows.
ResetNicknames(c, n) ==
    /\ pc[c] = "nickname"
    /\ \A m \in Names : Nickname(m) \in usedNames
    /\ usedNames' = {<<n, resets + 1>>}
    /\ resets' = resets + 1
    /\ nick' = [nick EXCEPT ![c] = <<n, resets + 1>>]
    /\ Goto(c, AfterNickname(c))
    /\ UNCHANGED <<registryVars, threadVars, kind, wanted, reserved, target, seen>>

\* A resumed or restored agent prefers its stored nickname, used or not.
KeepNickname(c, n) ==
    /\ pc[c] = "nickname" /\ kind[c] # "spawn"
    /\ \E ordinal \in {0, 1} : nick' = [nick EXCEPT ![c] = <<n, ordinal>>]
    /\ usedNames' = usedNames \cup {nick'[c]}
    /\ Goto(c, AfterNickname(c))
    /\ UNCHANGED <<registryVars, resets, threadVars, kind, wanted, reserved, target, seen>>

-----------------------------------------------------------------------------
(* The thread                                                              *)

\* spawn_new_thread_with_source, spawn_forked_thread: a new thread id.
Create(c, t) ==
    /\ pc[c] = "create" /\ kind[c] = "spawn"
    /\ born[t] = Absent /\ t # RootThread
    /\ born' = [born EXCEPT ![t] = wanted[c]]
    /\ loaded' = loaded \cup {t}
    /\ target' = [target EXCEPT ![c] = t]
    /\ Goto(c, "commit")
    /\ UNCHANGED <<registryVars, poolVars, ended, kind, wanted, reserved, nick, seen>>

\* spawn_thread on a resumed thread: one that runs is returned as it is, one
\* whose loop has ended is removed first.
Lookup(c) ==
    /\ pc[c] = "create" /\ kind[c] = "resume"
    /\ IF target[c] \in loaded \ ended
       THEN Goto(c, "commit") /\ UNCHANGED <<loaded, ended>>
       ELSE /\ loaded' = loaded \ {target[c]}
            /\ ended' = ended \ {target[c]}
            /\ Goto(c, "finalize")
    /\ UNCHANGED <<registryVars, poolVars, born, callVars>>

\* finalize_thread_spawn refuses a thread that another call loaded meanwhile.
Finalize(c) ==
    /\ pc[c] = "finalize"
    /\ IF target[c] \in loaded
       THEN Goto(c, "drop") /\ UNCHANGED loaded
       ELSE loaded' = loaded \cup {target[c]} /\ Goto(c, "commit")
    /\ UNCHANGED <<registryVars, poolVars, ended, born, callVars>>

\* The session cannot be started.
CreateFails(c) ==
    /\ pc[c] \in {"create", "finalize"}
    /\ Goto(c, "drop")
    /\ UNCHANGED <<registryVars, poolVars, threadVars, callVars>>

KeyOf(c) == IF wanted[c] = NoKey THEN target[c] ELSE wanted[c]

\* register_spawned_thread: the two indexes after t is stored under key.
RegisteredTree(t, key) ==
    [k \in Keys |-> IF k = key THEN t
                    ELSE IF k = threadPath[t] THEN Absent ELSE tree[k]]

RegisteredPaths(t, key) ==
    [u \in Threads |-> IF u = t THEN key
                       ELSE IF u = tree[key] THEN NoKey ELSE threadPath[u]]

\* SpawnReservation::commit.
Commit(c) ==
    /\ pc[c] = "commit"
    /\ tree' = RegisteredTree(target[c], KeyOf(c))
    /\ threadPath' = RegisteredPaths(target[c], KeyOf(c))
    /\ reserved' = [reserved EXCEPT ![c] = NoKey]
    /\ usedNames' = usedNames \cup ({nick[c]} \ {NoNick})
    /\ Goto(c, "done")
    /\ UNCHANGED <<total, resets, threadVars, kind, wanted, nick, target, seen>>

\* Mutant of DropPath: the reservation's slot is kept.
DropPathKeepsSlot(c) ==
    /\ pc[c] = "drop"
    /\ tree' = IF reserved[c] # NoKey /\ tree[reserved[c]] = Reserved
               THEN [tree EXCEPT ![reserved[c]] = Absent] ELSE tree
    /\ reserved' = [reserved EXCEPT ![c] = NoKey]
    /\ Goto(c, "done")
    /\ UNCHANGED <<total, threadPath, poolVars, threadVars, kind, wanted, nick, target, seen>>

\* Dropping an uncommitted SpawnReservation: first its path, then its slot.
DropPath(c) ==
    /\ pc[c] = "drop"
    /\ tree' = IF reserved[c] # NoKey /\ tree[reserved[c]] = Reserved
               THEN [tree EXCEPT ![reserved[c]] = Absent] ELSE tree
    /\ reserved' = [reserved EXCEPT ![c] = NoKey]
    /\ Goto(c, "dropCount")
    /\ UNCHANGED <<total, threadPath, poolVars, threadVars, kind, wanted, nick, target, seen>>

\* The last step of dropping a reservation and of release_spawned_thread.
FetchSub(c) ==
    /\ pc[c] \in {"dropCount", "uncount"}
    /\ total' = total - 1
    /\ Goto(c, "done")
    /\ UNCHANGED <<tree, threadPath, poolVars, threadVars, callVars>>

-----------------------------------------------------------------------------
(* Closing an agent                                                        *)

\* Op::Shutdown ends the loop, and shutdown_live_agent waits for it.
Shutdown(c) ==
    /\ pc[c] = "shutdown"
    /\ ended' = ended \cup ({target[c]} \cap loaded)
    /\ Goto(c, "remove")
    /\ UNCHANGED <<registryVars, poolVars, loaded, born, callVars>>

\* ThreadManagerState::remove_thread.
RemoveThread(c) ==
    /\ pc[c] = "remove"
    /\ loaded' = loaded \ {target[c]}
    /\ ended' = ended \ {target[c]}
    /\ Goto(c, "release")
    /\ UNCHANGED <<registryVars, poolVars, born, callVars>>

\* Mutant of ReleaseThread: the slot is given back even if nothing was removed.
ReleaseThreadTwice(c) ==
    /\ pc[c] = "release"
    /\ LET key == threadPath[target[c]] IN
       /\ threadPath' = [threadPath EXCEPT ![target[c]] = NoKey]
       /\ tree' = IF key = NoKey THEN tree ELSE [tree EXCEPT ![key] = Absent]
    /\ Goto(c, "uncount")
    /\ UNCHANGED <<total, poolVars, threadVars, callVars>>

\* Mutant of ReleaseThread: the thread stays in thread_paths.
ReleaseThreadHalf(c) ==
    /\ pc[c] = "release"
    /\ LET key == threadPath[target[c]] IN
       /\ tree' = IF key = NoKey THEN tree ELSE [tree EXCEPT ![key] = Absent]
       /\ Goto(c, IF key \in {NoKey, RootPath} THEN "done" ELSE "uncount")
    /\ UNCHANGED <<total, threadPath, poolVars, threadVars, callVars>>

\* release_spawned_thread, under the lock: the root's entry was never counted.
ReleaseThread(c) ==
    /\ pc[c] = "release"
    /\ LET key == threadPath[target[c]]
           counted == key \notin {NoKey, RootPath} /\ tree[key] # Absent
       IN  /\ threadPath' = [threadPath EXCEPT ![target[c]] = NoKey]
           /\ tree' = IF key = NoKey THEN tree ELSE [tree EXCEPT ![key] = Absent]
           /\ Goto(c, IF counted THEN "uncount" ELSE "done")
    /\ UNCHANGED <<total, poolVars, threadVars, callVars>>

-----------------------------------------------------------------------------
Next ==
    \/ \E c \in Calls :
          \/ \E p \in Paths \cup {NoKey} : Spawn(c, p)
          \/ \E t \in Threads : Resume(c, t) \/ Restore(c, t) \/ Close(c, t) \/ Request(c, t)
          \/ ReserveUnlimited(c) \/ LoadCount(c) \/ Exchange(c)
          \/ RegisterRoot(c) \/ ReservePath(c)
          \/ \E n \in Names : PickNickname(c, n) \/ ResetNicknames(c, n) \/ KeepNickname(c, n)
          \/ \E t \in Threads : Create(c, t)
          \/ Lookup(c) \/ Finalize(c) \/ CreateFails(c)
          \/ Commit(c) \/ DropPath(c) \/ FetchSub(c)
          \/ Shutdown(c) \/ RemoveThread(c) \/ ReleaseThread(c)
    \/ \E t \in Threads : SessionEnds(t)

Spec == Init /\ [][Next]_vars

-----------------------------------------------------------------------------
(* Properties                                                              *)

\* Labels of a call that holds an active SpawnReservation.
HoldingLabels == {"root", "path", "nickname", "create", "finalize", "commit", "drop",
                  "dropCount"}
Labels == HoldingLabels \cup {"idle", "done", "reserve", "exchange", "shutdown", "remove",
                              "release", "uncount"}

\* The types of the state; the count does not fall below zero, so the usize
\* does not wrap.
TypeOK ==
    /\ total \in Nat
    /\ tree \in [Keys -> Threads \cup {Absent, Reserved}]
    /\ threadPath \in [Threads -> Keys \cup {NoKey}]
    /\ usedNames \subseteq Names \X Nat /\ resets \in Nat
    /\ loaded \subseteq Threads /\ ended \subseteq loaded
    /\ born \in [Threads -> Paths \cup {NoKey, Absent}]
    /\ pc \in [Calls -> Labels]
    /\ kind \in [Calls -> {"spawn", "resume", "restore", "close", "request"}]
    /\ seen \in [Calls -> Nat]
    /\ wanted \in [Calls -> Paths \cup {NoKey}]
    /\ reserved \in [Calls -> Paths \cup {NoKey}]
    /\ nick \in [Calls -> (Names \X Nat) \cup {NoNick}]
    /\ target \in [Calls -> Threads \cup {NoThread}]

\* agent_tree and thread_paths are inverse to each other whatever commits,
\* drops and releases interleave, so that an agent found by its path is the one
\* found by its thread, and releasing a thread never removes another's entry.
IndexConsistent ==
    /\ \A t \in Threads : threadPath[t] # NoKey => tree[threadPath[t]] = t
    /\ \A k \in Keys : tree[k] \in Threads => threadPath[tree[k]] = k

\* A path without an agent is reserved by exactly one unfinished call: no two
\* agents get the same path, and no failed spawn blocks one for ever.
PathOwned ==
    /\ \A c \in Calls : reserved[c] # NoKey => tree[reserved[c]] = Reserved
    /\ \A c, d \in Calls : reserved[c] = reserved[d] /\ reserved[c] # NoKey => c = d
    /\ \A k \in Keys : tree[k] = Reserved =>
          \E c \in Calls : reserved[c] = k /\ pc[c] \in HoldingLabels

\* The entries that total_count stands for.
LiveKeys == {k \in Keys \ {RootPath} : tree[k] \in Threads}
Holding == {c \in Calls : pc[c] \in HoldingLabels}
Uncounting == {c \in Calls : pc[c] = "uncount"}

\* The count covers every agent and every reservation, even while calls race
\* and the same thread is resumed twice.
CountCovers ==
    Cardinality(LiveKeys) + Cardinality(Holding) + Cardinality(Uncounting) <= total

\* With a limit set on the registry, never more agents are registered than it
\* allows, however the compare-exchange loops of several spawns interleave.
LimitHolds == ~Resident => Cardinality(LiveKeys) <= MaxThreads

\* A released agent and a dropped reservation give their slot back: the count is
\* what the agents and the calls under way account for.
SlotsReturned ==
    total = Cardinality(LiveKeys) + Cardinality(Holding) + Cardinality(Uncounting)

\* Two spawned agents are never given the same nickname, also across the resets
\* of the pool.
NicknamesDistinct ==
    \A c, d \in Calls :
        kind[c] = "spawn" /\ kind[d] = "spawn" /\ nick[c] # NoNick /\ nick[c] = nick[d] => c = d
=============================================================================
