----------------------------- MODULE RolloutLog -----------------------------
(***************************************************************************)
(* The rollout log of one thread: the recorder that the thread store keeps *)
(* for it (thread-store/src/local/live_writer.rs), the writer task behind  *)
(* the recorder (rollout/src/recorder.rs) and the worker that compresses   *)
(* rollouts nobody has touched for a week (rollout/src/compression.rs).    *)
(*                                                                         *)
(* The recorder and the worker share two files, the plain log and its      *)
(* compressed sibling, and no lock.  A record of the log is the item it    *)
(* holds and its ordinal.  A call is one request to the thread store; the  *)
(* item an append writes is named by its call.  The thread store's         *)
(* per-thread lock lets one call run at a time, but a caller may go away   *)
(* and leave its commands in the writer's queue.                           *)
(*                                                                         *)
(* The log is a paginated one (every record has an ordinal), which is what *)
(* a new local thread writes.  An append carries one item.                 *)
(***************************************************************************)
EXTENDS Integers, Sequences

CONSTANTS
  MaxCalls,    \* bound on the requests to the thread store
  Meta,        \* the SessionMeta record
  Torn,        \* what a line cut short reads as
  NoFile,      \* the file does not exist
  MaxFaults,   \* bound on failed reads, opens and writes
  MaxCrashes   \* bound on the times the process is killed

\* Requests are numbered in the order in which they get the thread's lock.
Calls  == 1 .. MaxCalls
Nobody == 0

Line == [item : Calls \cup {Meta, Torn}, ord : Nat]
File == [lines : Seq(Line), ended : BOOLEAN]

ASSUME ConstantsAssumption ==
  /\ Meta # Torn /\ Meta \notin Nat /\ Torn \notin Nat /\ NoFile \notin File
  /\ MaxCalls \in Nat /\ MaxFaults \in Nat /\ MaxCrashes \in Nat

VARIABLES
  plain,    \* rollout-….jsonl: its lines, and whether the last one is ended
  zst,      \* rollout-….jsonl.zst, the same
  fresh,    \* plain was modified less than MIN_ROLLOUT_AGE ago
  rec,      \* the thread's entry in live_recorders and its writer task
  handle,   \* JsonlWriter: the file the task writes to
  writer,   \* RolloutWriterState: deferred, meta, pending, next
  cmds,     \* the channel of RolloutCmd
  task,     \* the write in progress: pc, attempt, operation, its call
  stage,    \* how far a call is
  worker,   \* the compression job of this file, and the file it read
  sent,     \* history: the appends that were queued
  swept,    \* history: the worker removed the file under a recorder
  leftWhole,\* history: the items of which a failed write left the whole line
  faults, crashes

callVars   == <<stage, sent>>
fileVars   == <<plain, zst, fresh>>
boundVars  == <<faults, crashes, leftWhole>>
vars == <<plain, zst, fresh, rec, handle, writer, cmds, task, stage,
          worker, sent, swept, leftWhole, faults, crashes>>

Files   == File \cup {NoFile}
Cmd     == [op : {"add", "persist", "flush", "shutdown"}, call : Calls]
Writers == [deferred : BOOLEAN, meta : BOOLEAN, pending : Seq(Calls), next : Nat]
Tasks   == [pc : {"idle", "start", "unpack", "unlink", "open", "touch", "write"},
            attempt : 0 .. 2,
            op : {"none", "add", "persist", "flush", "shutdown", "resume"},
            call : Calls \cup {Nobody}]
Jobs    == [pc : {"idle", "read", "check", "remove"}, snap : Files]
Stages  == {"idle", "queueing", "waiting", "resuming", "ok", "err", "cancelled"}

Idle       == [pc |-> "idle", attempt |-> 0, op |-> "none", call |-> Nobody]
NoJob      == [pc |-> "idle", snap |-> NoFile]
NewWriter  == [deferred |-> TRUE, meta |-> TRUE, pending |-> <<>>, next |-> 0]
EmptyFile  == [lines |-> <<>>, ended |-> TRUE]

\* load_rollout_items: the lines that parse, from the plain file when there
\* is one and from the compressed one otherwise.
Parsed(s) == {i \in 1 .. Len(s) : s[i].item # Torn}
OnDisk == IF plain # NoFile THEN plain ELSE zst
Log == IF OnDisk = NoFile THEN <<>> ELSE OnDisk.lines
ItemsOf(s) == {s[i].item : i \in Parsed(s)}
IsFirst(s, i) == i \in Parsed(s) /\ \A k \in Parsed(s) : i <= k
IsLast(s, i)  == i \in Parsed(s) /\ \A k \in Parsed(s) : k <= i
LastOf(s)     == CHOOSE i \in Parsed(s) : IsLast(s, i)

\* read_session_meta_line: some line is the session's metadata.
Readable(f) == f # NoFile /\ Meta \in ItemsOf(f.lines)

\* The call that holds the thread's lock, if any.
Active == {"queueing", "waiting", "resuming"}
Held == \E c \in Calls : stage[c] \in Active

-----------------------------------------------------------------------------
(***************************************************************************)
(* A thread that has just been created: a recorder with no file behind it, *)
(* which the first persist, or the first flush of an item, will create.    *)
(***************************************************************************)
Init ==
  /\ plain = NoFile /\ zst = NoFile /\ fresh = FALSE
  /\ rec = "live" /\ handle = "none" /\ writer = NewWriter
  /\ cmds = <<>> /\ task = Idle
  /\ stage = [c \in Calls |-> "idle"]
  /\ worker = NoJob /\ sent = {} /\ swept = FALSE
  /\ leftWhole = {} /\ faults = 0 /\ crashes = 0

(***************************************************************************)
(* Calls to the thread store.                                              *)
(***************************************************************************)
Begin(c, s) ==
  /\ stage[c] = "idle" /\ ~Held
  /\ \A d \in 1 .. c - 1 : stage[d] # "idle"
  /\ stage' = [stage EXCEPT ![c] = s]

\* durable_write: queue the items (record_canonical_items), then ask for a
\* flush; the caller may go away between the two.
AppendItems(c) ==
  /\ rec = "live" /\ Begin(c, "queueing")
  /\ cmds' = Append(cmds, [op |-> "add", call |-> c])
  /\ sent' = sent \cup {c}
  /\ UNCHANGED <<fileVars, rec, handle, writer, task, worker, swept, boundVars>>

ThenFlush(c) ==
  /\ stage[c] = "queueing"
  /\ IF rec = "live"
     THEN /\ cmds' = Append(cmds, [op |-> "flush", call |-> c])
          /\ stage' = [stage EXCEPT ![c] = "waiting"]
     ELSE /\ stage' = [stage EXCEPT ![c] = "err"]
          /\ UNCHANGED cmds
  /\ UNCHANGED <<fileVars, rec, handle, writer, task, worker, sent, swept, boundVars>>

Ask(c, o) ==
  /\ rec = "live" /\ Begin(c, "waiting")
  /\ cmds' = Append(cmds, [op |-> o, call |-> c])
  /\ UNCHANGED <<fileVars, rec, handle, writer, task, worker, sent, swept, boundVars>>

\* A request that finds no recorder (live_writer_parts), or one whose task
\* has ended, fails; a resume fails when there is a recorder of either kind
\* (ensure_live_recorder_absent) or a log without metadata.  In every state
\* some request fails, and changes nothing.
Refused(c) ==
  /\ Begin(c, "err")
  /\ UNCHANGED <<fileVars, rec, handle, writer, cmds, task, worker, sent, swept, boundVars>>

\* resume_thread takes the writer lock and opens the file: the steps are
\* those of the writer's own open, on behalf of the call.
Resume(c) ==
  /\ rec = "none" /\ Readable(OnDisk)
  /\ Begin(c, "resuming")
  /\ rec' = "opening"
  /\ task' = [pc |-> "start", attempt |-> 2, op |-> "resume", call |-> c]
  /\ UNCHANGED <<fileVars, handle, writer, cmds, worker, sent, swept, boundVars>>

\* The caller's future is dropped; what it queued stays queued.
Cancel(c) ==
  /\ stage[c] \in {"queueing", "waiting"}
  /\ stage' = [stage EXCEPT ![c] = "cancelled"]
  /\ UNCHANGED <<fileVars, rec, handle, writer, cmds, task, worker, sent, swept, boundVars>>

(***************************************************************************)
(* The writer task.                                                        *)
(***************************************************************************)
Answer(c, r) == IF stage[c] \in {"waiting", "resuming"} THEN [stage EXCEPT ![c] = r] ELSE stage

\* Mutant: the queue of a writer that stops outlives it, with those who wait in it.
FinishSilent(o, c, r) ==
  IF o = "shutdown" /\ r = "ok"
  THEN /\ rec' = IF stage[c] = "waiting" THEN "none" ELSE "stopped"
       /\ stage' = Answer(c, r)
       /\ cmds' = cmds /\ handle' = "none" /\ task' = Idle
  ELSE /\ stage' = IF o = "add" THEN stage ELSE Answer(c, r)
       /\ task' = Idle
       /\ rec' = IF o = "resume" THEN (IF r = "ok" THEN "live" ELSE "none") ELSE rec

\* What the end of a command does: the answer, if the caller still waits;
\* a shutdown that succeeds ends the task, fails what is still queued, and
\* its caller, if there is one, takes the recorder out of the map.  Between
\* the answer and that removal live_writer's shutdown projects the log and
\* syncs the path, under the thread's lock and reading only: no other call
\* sees a difference, and a caller that goes away there leaves the state of
\* one that went before the answer, "stopped".
Finish(o, c, r) ==
  IF o = "shutdown" /\ r = "ok"
  THEN /\ rec' = IF stage[c] = "waiting" THEN "none" ELSE "stopped"
       /\ stage' = [d \in Calls |-> IF stage[d] # "waiting" THEN stage[d]
                                    ELSE IF d = c THEN "ok" ELSE "err"]
       /\ cmds' = <<>> /\ handle' = "none" /\ task' = Idle
  ELSE /\ stage' = IF o = "add" THEN stage ELSE Answer(c, r)
       /\ task' = Idle
       /\ rec' = IF o = "resume" THEN (IF r = "ok" THEN "live" ELSE "none") ELSE rec

\* Mutant: new items go before those a failed write left.
TakeInFront ==
  /\ rec = "live" /\ task = Idle /\ cmds # <<>>
  /\ LET m == Head(cmds)
         w == IF m.op = "add" THEN [writer EXCEPT !.pending = <<m.call>> \o @] ELSE writer
     IN /\ writer' = w
        /\ cmds' = Tail(cmds)
        /\ task' = IF m.op = "add" /\ w.deferred THEN Idle
                   ELSE [pc |-> "start", attempt |-> 1, op |-> m.op, call |-> m.call]
        /\ UNCHANGED <<rec, handle, stage>>
  /\ UNCHANGED <<fileVars, worker, sent, swept, boundVars>>

\* rollout_writer: the next command.
Take ==
  /\ rec = "live" /\ task = Idle /\ cmds # <<>>
  /\ LET m == Head(cmds)
         w == IF m.op = "add" THEN [writer EXCEPT !.pending = Append(@, m.call)] ELSE writer
         idle == \/ m.op = "add" /\ w.deferred
                 \/ m.op \in {"flush", "shutdown"} /\ w.deferred /\ w.pending = <<>>
     IN /\ writer' = w
        /\ IF idle
           THEN IF m.op = "shutdown"
                THEN Finish(m.op, m.call, "ok")
                ELSE /\ Finish(m.op, m.call, "ok")
                     /\ cmds' = Tail(cmds) /\ UNCHANGED handle
           ELSE /\ cmds' = Tail(cmds)
                /\ task' = [pc |-> "start", attempt |-> 1, op |-> m.op, call |-> m.call]
                /\ UNCHANGED <<rec, handle, stage>>
  /\ UNCHANGED <<fileVars, worker, sent, swept, boundVars>>

\* Mutant: a write is repeated for as long as it fails.
AttemptFailsAgain ==
  /\ handle' = "none"
  /\ task' = [task EXCEPT !.attempt = @ + 1, !.pc = "start"]
  /\ UNCHANGED <<rec, stage, cmds>>

\* A failed attempt drops the file handle and keeps what is unwritten; it is
\* repeated once.
AttemptFails ==
  /\ handle' = "none"
  /\ IF task.attempt = 1
     THEN /\ task' = [pc |-> "start", attempt |-> 2, op |-> task.op, call |-> task.call]
          /\ UNCHANGED <<rec, stage>>
     ELSE Finish(task.op, task.call, "err")
  /\ UNCHANGED cmds

\* ensure_writer_open, materialize_rollout_for_append_blocking: the plain
\* file is used when it exists and unpacked when only its sibling does.  The
\* tests for the two files are one step: a removal between them needs the
\* worker and the recorder at the log together, a swept log.
Open ==
  /\ task.pc = "start"
  /\ task' = [task EXCEPT !.pc = IF handle # "none" THEN "write"
                                 ELSE IF plain # NoFile THEN "open"
                                 ELSE IF zst # NoFile THEN "unpack" ELSE "open"]
  /\ UNCHANGED <<fileVars, rec, handle, writer, cmds, callVars, worker, swept, boundVars>>

\* The unpacked copy gets its name, with the modification time of the
\* compressed file, ...
Unpack ==
  /\ task.pc = "unpack"
  /\ plain' = IF plain = NoFile THEN zst ELSE plain
  /\ fresh' = FALSE
  /\ task' = [task EXCEPT !.pc = "unlink"]
  /\ UNCHANGED <<zst, rec, handle, writer, cmds, callVars, worker, swept, boundVars>>

\* ... and only then is the compressed file removed.
RemovePacked ==
  /\ task.pc = "unlink"
  /\ zst' = NoFile
  /\ task' = [task EXCEPT !.pc = "touch"]
  /\ UNCHANGED <<plain, fresh, rec, handle, writer, cmds, callVars, worker, swept, boundVars>>

\* Mutant: a line that was cut short is not ended.
OpenFileUnended ==
  /\ task.pc \in {"open", "touch"} /\ task.op # "resume"
  /\ plain' = IF plain = NoFile THEN EmptyFile ELSE plain
  /\ fresh' = (fresh \/ task.pc = "touch" \/ plain = NoFile)
  /\ swept' = (swept \/ worker.pc = "remove")
  /\ handle' = "plain"
  /\ writer' = [writer EXCEPT !.deferred = FALSE]
  /\ task' = [task EXCEPT !.pc = "write"]
  /\ UNCHANGED <<zst, rec, stage, cmds, sent, worker, boundVars>>

\* open_log_file creates a missing file, open_rollout_for_append does not;
\* both end a last line that was cut short, and date an unpacked file now.
\* A resumed recorder starts from the last record that parses, and refuses
\* a log whose first line does not.
OpenFile ==
  /\ task.pc \in {"open", "touch"}
  /\ LET f == IF plain = NoFile THEN EmptyFile ELSE [lines |-> plain.lines, ended |-> TRUE]
         refuse == f.lines = <<>> \/ f.lines[1].item # Meta
     IN IF task.op = "resume" /\ plain = NoFile
        THEN /\ Finish("resume", task.call, "err")
             /\ UNCHANGED <<plain, fresh, handle, writer, cmds, swept>>
        ELSE /\ plain' = f
             /\ fresh' = (fresh \/ task.pc = "touch" \/ f # plain)
             /\ swept' = (swept \/ worker.pc = "remove")
             /\ IF task.op # "resume"
                THEN /\ handle' = "plain"
                     /\ writer' = [writer EXCEPT !.deferred = FALSE]
                     /\ task' = [task EXCEPT !.pc = "write"]
                     /\ UNCHANGED <<rec, stage, cmds>>
                ELSE IF refuse
                THEN /\ Finish("resume", task.call, "err")
                     /\ UNCHANGED <<handle, writer, cmds>>
                ELSE /\ Finish("resume", task.call, "ok")
                     /\ handle' = "plain" /\ cmds' = <<>>
                     /\ writer' = [deferred |-> FALSE, meta |-> FALSE, pending |-> <<>>,
                                   next |-> f.lines[LastOf(f.lines)].ord + 1]
  /\ UNCHANGED <<zst, sent, worker, boundVars>>

OpenFails ==
  /\ task.pc \in {"start", "unpack", "unlink", "open", "touch"} /\ handle = "none"
  /\ faults < MaxFaults /\ faults' = faults + 1
  /\ AttemptFails
  /\ UNCHANGED <<fileVars, writer, sent, worker, swept, leftWhole, crashes>>

\* write_session_meta_if_needed, write_pending_items_once: the record that
\* is written next, and the file with it, or with what was written of it.
\* What follows a line that has no end makes one line with it, which does
\* not parse.
Owed == writer.meta \/ writer.pending # <<>>
NextItem == IF writer.meta THEN Meta ELSE Head(writer.pending)
TornLine == [item |-> Torn, ord |-> 0]
Extended(item, ended) ==
  [lines |-> IF ~plain.ended THEN [plain.lines EXCEPT ![Len(plain.lines)] = TornLine]
             ELSE Append(plain.lines, IF item = Torn THEN TornLine
                                      ELSE [item |-> item, ord |-> writer.next]),
   ended |-> ended]
Written(item, ended) ==
  IF handle = "plain" THEN plain' = Extended(item, ended) /\ fresh' = TRUE
  ELSE UNCHANGED <<plain, fresh>>
WrittenPart(part) ==
  IF part = "nothing" THEN UNCHANGED <<plain, fresh>>
  ELSE Written(IF part = "torn" THEN Torn ELSE NextItem, FALSE)

Marked(part) ==
  leftWhole' = IF part = "whole" /\ handle = "plain" THEN leftWhole \cup {NextItem} ELSE leftWhole

WriteItem ==
  /\ task.pc = "write" /\ Owed
  /\ Written(NextItem, TRUE)
  /\ writer' = [deferred |-> writer.deferred, meta |-> FALSE,
                 pending |-> IF writer.meta THEN writer.pending ELSE Tail(writer.pending),
                 next |-> writer.next + 1]
  /\ UNCHANGED <<zst, rec, handle, cmds, task, callVars, worker, swept, boundVars>>

\* Mutant: a write that fails uses up its ordinal.
WriteFailsAdvances(part) ==
  /\ task.pc = "write" /\ Owed
  /\ faults < MaxFaults /\ faults' = faults + 1
  /\ WrittenPart(part) /\ Marked(part)
  /\ AttemptFails
  /\ writer' = [writer EXCEPT !.next = @ + 1]
  /\ UNCHANGED <<zst, sent, worker, swept, crashes>>

\* A write that fails may have written part of the line, or all of it but
\* its end: the file is not cut back, and the item stays pending.
WriteFails(part) ==
  /\ task.pc = "write" /\ Owed
  /\ faults < MaxFaults /\ faults' = faults + 1
  /\ WrittenPart(part) /\ Marked(part)
  /\ AttemptFails
  /\ UNCHANGED <<zst, writer, sent, worker, swept, crashes>>

WriteDone ==
  /\ task.pc = "write" /\ ~Owed
  /\ IF task.op = "shutdown"
     THEN Finish(task.op, task.call, "ok")
     ELSE Finish(task.op, task.call, "ok") /\ UNCHANGED <<cmds, handle>>
  /\ UNCHANGED <<fileVars, writer, sent, worker, swept, boundVars>>

\* The process is killed, perhaps in the middle of a write.
Crash(part) ==
  /\ rec # "none" /\ crashes < MaxCrashes /\ crashes' = crashes + 1
  /\ part # "nothing" => task.pc = "write" /\ Owed /\ handle = "plain"
  /\ WrittenPart(part)
  /\ rec' = "none" /\ handle' = "none" /\ cmds' = <<>> /\ task' = Idle
  /\ stage' = [c \in Calls |-> IF stage[c] \in Active THEN "err" ELSE stage[c]]
  /\ UNCHANGED <<zst, writer, sent, worker, swept, leftWhole, faults>>

(***************************************************************************)
(* The compression worker, of this process or of another one:              *)
(* compress_rollout_if_cold_blocking.  It asks nobody whether the log has  *)
(* a recorder.                                                             *)
(***************************************************************************)
SameFile == plain = worker.snap /\ ~fresh

WorkerReads ==
  /\ worker = NoJob /\ Readable(plain) /\ ~fresh /\ zst = NoFile
  /\ worker' = [pc |-> "read", snap |-> plain]
  /\ UNCHANGED <<fileVars, rec, handle, writer, cmds, task, callVars, swept, boundVars>>

\* The compressed copy gets its name if the file has not changed ...
WorkerPersists ==
  /\ worker.pc = "read"
  /\ IF SameFile /\ zst = NoFile
     THEN zst' = worker.snap /\ worker' = [worker EXCEPT !.pc = "check"]
     ELSE worker' = NoJob /\ UNCHANGED zst
  /\ UNCHANGED <<plain, fresh, rec, handle, writer, cmds, task, callVars, swept, boundVars>>

\* Mutant: the worker does not look at the file a second time.
WorkerTrusts ==
  /\ worker.pc = "check"
  /\ worker' = [worker EXCEPT !.pc = "remove"]
  /\ swept' = (swept \/ rec # "none")
  /\ UNCHANGED <<plain, zst, fresh, rec, handle, writer, cmds, task, callVars, boundVars>>

\* ... is given up again if it has changed since ...
WorkerChecks ==
  /\ worker.pc = "check"
  /\ IF SameFile
     THEN /\ worker' = [worker EXCEPT !.pc = "remove"]
          /\ swept' = (swept \/ rec # "none")
          /\ UNCHANGED zst
     ELSE zst' = NoFile /\ worker' = NoJob /\ UNCHANGED swept
  /\ UNCHANGED <<plain, fresh, rec, handle, writer, cmds, task, callVars, boundVars>>

\* ... and otherwise the plain file is removed.  A recorder that holds it
\* open goes on writing to a file that has no name.
WorkerRemoves ==
  /\ worker.pc = "remove"
  /\ plain' = NoFile /\ fresh' = FALSE
  /\ handle' = IF handle = "plain" THEN "unlinked" ELSE handle
  /\ worker' = NoJob
  /\ UNCHANGED <<zst, rec, writer, cmds, task, callVars, swept, boundVars>>

WorkerDies ==
  /\ worker # NoJob /\ worker' = NoJob
  /\ UNCHANGED <<fileVars, rec, handle, writer, cmds, task, callVars, swept, boundVars>>

\* A week passes in which the file is not written.  No write and no
\* compression job lasts that long.
Ages ==
  /\ plain # NoFile /\ fresh /\ task = Idle /\ cmds = <<>> /\ ~Held /\ worker = NoJob
  /\ fresh' = FALSE
  /\ UNCHANGED <<plain, zst, rec, handle, writer, cmds, task, callVars, worker, swept, boundVars>>

-----------------------------------------------------------------------------
Store(c) ==
  \/ AppendItems(c) \/ ThenFlush(c) \/ Resume(c) \/ Refused(c) \/ Cancel(c)
  \/ \E o \in {"persist", "flush", "shutdown"} : Ask(c, o)

Writer == Take \/ Open \/ Unpack \/ RemovePacked \/ OpenFile \/ WriteItem \/ WriteDone

Faults ==
  \/ OpenFails
  \/ \E part \in {"nothing", "torn", "whole"} : WriteFails(part) \/ Crash(part)
  \/ WorkerDies

Worker == WorkerReads \/ WorkerPersists \/ WorkerChecks \/ WorkerRemoves

Next == (\E c \in Calls : Store(c)) \/ Writer \/ Faults \/ Worker \/ Ages

Spec == Init /\ [][Next]_vars

-----------------------------------------------------------------------------
TypeOK ==
  /\ plain \in Files /\ zst \in Files /\ fresh \in BOOLEAN
  /\ rec \in {"none", "opening", "live", "stopped"}
  /\ handle \in {"none", "plain", "unlinked"}
  /\ writer \in Writers /\ cmds \in Seq(Cmd) /\ task \in Tasks
  /\ stage \in [Calls -> Stages] /\ worker \in Jobs
  /\ sent \subseteq Calls /\ swept \in BOOLEAN
  /\ leftWhole \subseteq Calls \cup {Meta}
  /\ faults \in 0 .. MaxFaults /\ crashes \in 0 .. MaxCrashes

Acked == {c \in sent : stage[c] = "ok"}

(***************************************************************************)
(* An append that was answered Ok can be loaded, whatever failed, crashed  *)
(* or was compressed since: live_writer.rs, `Flush` "writes any rollout    *)
(* records already queued in the recorder and ensures they are durably     *)
(* persisted".                                                             *)
(***************************************************************************)
Durable == Acked \subseteq ItemsOf(Log)

(***************************************************************************)
(* The same for a log that was never compressed away under a recorder: the *)
(* retry after a failed write, the newline that ends a torn line, the      *)
(* order of link and unlink when a log is unpacked and the worker's second *)
(* look at the file together lose nothing.                                 *)
(***************************************************************************)
AckedKept == ~swept => Durable

\* i and j are records that follow each other, perhaps with torn lines between.
Consecutive(s, i, j) == i < j /\ \A k \in Parsed(s) : k <= i \/ j <= k

Dense(s, copied) ==
  /\ \A i \in Parsed(s) : IsFirst(s, i) => s[i] = [item |-> Meta, ord |-> 0]
  /\ \A i, j \in Parsed(s) : Consecutive(s, i, j) =>
       \/ s[j] = s[i] /\ s[i].item \in copied
       \/ s[j].ord = s[i].ord + 1 /\ s[j].item # s[i].item

(***************************************************************************)
(* The ordinals of what can be loaded start at the metadata's 0 and are    *)
(* dense.  An ordinal is there twice only as a copy of one record, and     *)
(* only if a write of that record failed on its last byte; no two records  *)
(* share one.  Retries and resumes must agree on the next ordinal.         *)
(***************************************************************************)
OrdinalsDense == ~swept => Dense(Log, leftWhole)

\* read_projection_steps: of the lines that are ended, each record must have
\* the next ordinal, or one further on by no more than the rejected lines
\* before it.  A checkpoint resumes this reading where it stopped.
Projects(f) ==
  LET s == f.lines
      read == {i \in Parsed(s) : i < Len(s) \/ f.ended}
  IN \A j \in read :
       /\ IsFirst(s, j) => s[j].ord < j
       /\ \A i \in read : Consecutive(s, i, j) => s[j].ord - s[i].ord \in 1 .. j - i

(***************************************************************************)
(* The history of the thread can be projected from its log, whatever was   *)
(* retried: thread_history_materialization.rs counts rejected lines so     *)
(* that "a same-ordinal retry" may "replace a failed write".               *)
(***************************************************************************)
Projectable == ~swept /\ plain # NoFile => Projects(plain)

Sorted(s) ==
  \A i, j \in Parsed(s) :
    i < j /\ s[i].item # Meta /\ s[j].item # Meta => s[i].item <= s[j].item

(***************************************************************************)
(* Items are recorded in the order they were queued, the leftovers of      *)
(* cancelled calls and of failed flushes included.                         *)
(***************************************************************************)
InSentOrder == Sorted(Log)

(***************************************************************************)
(* A caller that waits has a command ahead of it: in the writer's hands,   *)
(* or in the queue of a writer that runs.  A writer that stops, for a      *)
(* shutdown whose caller went away too, takes its queue with it and fails  *)
(* everyone in it.                                                         *)
(***************************************************************************)
NoneStranded ==
  \A c \in Calls : stage[c] \in {"waiting", "resuming"} =>
    \/ task.call = c /\ task.op # "add"
    \/ rec = "live" /\ \E i \in 1 .. Len(cmds) : cmds[i].call = c /\ cmds[i].op # "add"
=============================================================================
