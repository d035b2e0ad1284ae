-------------------------- MODULE RolloutLog_proofs --------------------------
(***************************************************************************)
(* Proofs about RolloutLog, for every choice of its constants.             *)
(*                                                                         *)
(* The invariants come in layers: Control and TypeOK; FilesAgree on the    *)
(* two files and the worker; WaitersServed, BegunFirst, QueueSorted and    *)
(* OneHolder on the calls and the queue; FilesInOrder, ItemsKept and       *)
(* OrdinalsFit on the contents.  The upper layers do not look at actions:  *)
(* QueueSteps, FileSteps and AnswerSteps say once what a step may do to    *)
(* the queue, to the files and to the callers.                             *)
(***************************************************************************)
EXTENDS RolloutLog, SequenceTheorems, WellFoundedInduction, TLAPS

-----------------------------------------------------------------------------
(* The inductive invariants, layer by layer: each is kept by every step    *)
(* that starts in a state of the layers before it.                         *)

\* What the states of the recorder, of its task and of its file handle say
\* of each other.
Control ==
  /\ task.pc = "idle" => task = Idle
  /\ task.pc # "idle" => task.op # "none" /\ task.call \in Calls
  /\ rec = "opening" <=> task.op = "resume"
  /\ rec \in {"none", "stopped"} => task.pc = "idle"
  /\ rec # "live" => handle = "none" /\ cmds = <<>>
  /\ task.pc \in {"unpack", "unlink", "open", "touch"} => handle = "none"
  /\ task.pc = "write" => handle # "none"
  /\ handle = "plain" => plain \in File /\ plain.ended

\* Which of the two files exist, and how far the worker's job vouches for
\* the compressed one.  Until the worker meets a recorder, a job that is
\* about to remove the plain file has its whole content.
FilesAgree ==
  /\ worker.pc = "idle" => worker = NoJob
  /\ worker.pc # "idle" => plain \in File /\ worker.snap \in File
  /\ task.pc \in {"unpack", "unlink"} => worker = NoJob /\ zst \in File
  /\ task.pc = "unlink" => plain \in File
  /\ worker.pc \in {"check", "remove"} => zst = worker.snap
  /\ ~swept =>
       /\ worker.pc = "remove" => plain = zst /\ rec \in {"none", "opening"}
       /\ handle # "unlinked"
       /\ rec = "live" /\ task.pc \in {"open", "touch"} /\ plain = NoFile => zst = NoFile

\* A caller waits only for a live recorder, or for its own resume, and its
\* command is in the queue or in the writer's hands.
Asked(c) == \E i \in 1 .. Len(cmds) : cmds[i].call = c /\ cmds[i].op # "add"

WaitersServed ==
  /\ rec # "live" => \A c \in Calls : stage[c] # "waiting"
  /\ \A c \in Calls : stage[c] = "resuming" =>
       task.op = "resume" /\ task.call = c /\ c \notin sent
  /\ \A c \in Calls : stage[c] = "waiting" => (task.call = c /\ task.op # "add") \/ Asked(c)

\* Calls have begun in order; whatever is queued, pending or worked on
\* belongs to one that has.
Begun == {c \in Calls : stage[c] # "idle"}

BegunFirst ==
  /\ \A c, d \in Calls : c < d /\ stage[c] = "idle" => stage[d] = "idle"
  /\ sent \subseteq Begun
  /\ task.call # Nobody => task.call \in Begun
  /\ \A i \in 1 .. Len(cmds) : cmds[i].call \in Begun
  /\ \A i \in 1 .. Len(writer.pending) : writer.pending[i] \in Begun

\* The queue, the task, and what is pending are in the order of the calls.
QueueSorted ==
  /\ \A i, j \in 1 .. Len(cmds) : i < j /\ cmds[j].op = "add" => cmds[i].call < cmds[j].call
  /\ \A j \in 1 .. Len(cmds) : cmds[j].op = "add" =>
       /\ task.call < cmds[j].call
       /\ \A i \in 1 .. Len(writer.pending) : writer.pending[i] < cmds[j].call
  /\ \A i, j \in 1 .. Len(writer.pending) : i < j => writer.pending[i] < writer.pending[j]

\* One call at a time holds the thread's lock, and a resume never lets go.
OneHolder ==
  /\ \A c, d \in Calls : stage[c] \in Active /\ stage[d] \in Active => c = d
  /\ rec = "opening" => stage[task.call] = "resuming"

\* A file that may become the log: its items are in order, and come before
\* what is pending (p) and queued (q) of the calls that have begun (b).  Only
\* the first pending item may be in it, by a write that failed on its last
\* byte.
LinesOf(f) == IF f = NoFile THEN <<>> ELSE f.lines

Behind(s, b, p, q) ==
  \A k \in Parsed(s) : s[k].item # Meta =>
    /\ s[k].item \in b
    /\ \A i \in 1 .. Len(p) : s[k].item <= p[i] /\ (i > 1 => s[k].item < p[i])
    /\ \A j \in 1 .. Len(q) : q[j].op = "add" => s[k].item < q[j].call

InOrder(s) == Sorted(s) /\ Behind(s, Begun, writer.pending, cmds)
FilesInOrder ==
  InOrder(LinesOf(plain)) /\ InOrder(LinesOf(zst)) /\ InOrder(LinesOf(worker.snap))

\* Where the item of a call that has not been answered is.
Queued(c)  == \E i \in 1 .. Len(cmds) : cmds[i].op = "add" /\ cmds[i].call = c
Pending(c) == \E i \in 1 .. Len(writer.pending) : writer.pending[i] = c

ItemsKept ==
  ~swept => \A c \in sent :
    /\ stage[c] = "ok" => c \in ItemsOf(Log)
    /\ rec = "live" /\ stage[c] \in {"queueing", "waiting"} =>
         c \in ItemsOf(Log) \/ Pending(c) \/ Queued(c)

\* What the writer (w) says of the last record that parses: the next ordinal
\* follows it, or a write that failed has left the item that is about to be
\* written again (copied).
NextFits(s, w, copied) ==
  IF w.meta
  THEN /\ w.next = 0
       /\ \A i \in Parsed(s) : s[i] = [item |-> Meta, ord |-> 0] /\ Meta \in copied
  ELSE /\ Parsed(s) # {}
       /\ \A i \in Parsed(s) : IsLast(s, i) =>
            \/ s[i].ord + 1 = w.next /\ (w.pending # <<>> => s[i].item # Head(w.pending))
            \/ /\ w.pending # <<>> /\ s[i] = [item |-> Head(w.pending), ord |-> w.next]
               /\ Head(w.pending) \in copied

OrdinalsFit ==
  ~swept =>
    /\ Dense(LinesOf(plain), leftWhole) /\ Dense(LinesOf(zst), leftWhole)
    /\ Dense(LinesOf(worker.snap), leftWhole)
    /\ rec = "live" => NextFits(Log, writer, leftWhole)

-----------------------------------------------------------------------------
(* What the operators of the model return.                                 *)

LEMMA LeastNat ==
  ASSUME NEW T \in SUBSET Nat, T # {}
  PROVE  \E n \in T : \A m \in T : n <= m
<1>1. \E n \in T : \A m \in T : ~(<<m, n>> \in OpToRel(<, Nat))
  BY NatLessThanWellFounded, WFMin
<1>2. \E n \in T : \A m \in T : ~(m < n)
  BY <1>1 DEF OpToRel
<1>3. QED
  BY <1>2

\* A log with a line that parses has a last one.
LEMMA LastExists ==
  ASSUME NEW s \in Seq(Line), Parsed(s) # {}
  PROVE  LastOf(s) \in Parsed(s) /\ IsLast(s, LastOf(s))
<1> DEFINE T == {n \in Nat : \E i \in Parsed(s) : n = Len(s) - i}
<1>1. Parsed(s) \subseteq 1 .. Len(s) /\ Len(s) \in Nat
  BY DEF Parsed
<1>2. PICK i \in Parsed(s) : TRUE
  OBVIOUS
<1>3. T \in SUBSET Nat /\ Len(s) - i \in T
  BY <1>1, <1>2
<1>4. PICK n \in T : \A m \in T : n <= m
  BY <1>3, LeastNat
<1>5. PICK k \in Parsed(s) : n = Len(s) - k
  BY <1>4
<1>6. \A j \in Parsed(s) : Len(s) - j \in T
  BY <1>1
<1> HIDE DEF T
<1>7. \A j \in Parsed(s) : n <= Len(s) - j
  BY <1>4, <1>6
<1>8. IsLast(s, k)
  BY <1>1, <1>5, <1>7 DEF IsLast
<1>9. QED
  BY <1>5, <1>8 DEF LastOf

LEMMA FileFacts ==
  ASSUME NEW f \in File
  PROVE  /\ f # NoFile /\ f \in Files
         /\ f.lines \in Seq(Line) /\ f.ended \in BOOLEAN
         /\ [lines |-> f.lines, ended |-> TRUE] \in File
<1>1. f # NoFile
  BY ConstantsAssumption
<1>2. QED
  BY <1>1 DEF File, Files

LEMMA FileMade ==
  ASSUME NEW s \in Seq(Line), NEW b \in BOOLEAN
  PROVE  [lines |-> s, ended |-> b] \in File
  BY DEF File

LEMMA EmptyFileFacts == EmptyFile \in File /\ EmptyFile.lines = <<>> /\ EmptyFile.ended = TRUE
<1>1. <<>> \in Seq(Line)
  OBVIOUS
<1>2. QED
  BY <1>1, FileMade DEF EmptyFile

LEMMA TaskMade ==
  /\ Idle \in Tasks /\ Idle.pc = "idle" /\ Idle.op = "none" /\ Idle.call = Nobody
  /\ \A o \in {"add", "persist", "flush", "shutdown"}, c \in Calls :
       [pc |-> "start", attempt |-> 1, op |-> o, call |-> c] \in Tasks
  /\ \A c \in Calls : [pc |-> "start", attempt |-> 2, op |-> "resume", call |-> c] \in Tasks
  BY DEF Tasks, Idle, Nobody

LEMMA TaskMoved ==
  ASSUME NEW t \in Tasks, NEW p \in {"start", "unpack", "unlink", "open", "touch", "write"}
  PROVE  /\ [t EXCEPT !.pc = p] \in Tasks
         /\ [t EXCEPT !.pc = p].pc = p /\ [t EXCEPT !.pc = p].op = t.op
         /\ [t EXCEPT !.pc = p].call = t.call
  BY DEF Tasks

LEMMA TaskRepeated ==
  ASSUME NEW t \in Tasks
  PROVE  [pc |-> "start", attempt |-> 2, op |-> t.op, call |-> t.call] \in Tasks
  BY DEF Tasks

LEMMA WriterQueued ==
  ASSUME NEW w \in Writers, NEW c \in Calls
  PROVE  /\ [w EXCEPT !.pending = Append(w.pending, c)] \in Writers
         /\ [w EXCEPT !.pending = Append(w.pending, c)].pending = Append(w.pending, c)
         /\ [w EXCEPT !.pending = Append(w.pending, c)].meta = w.meta
         /\ [w EXCEPT !.pending = Append(w.pending, c)].next = w.next
<1>1. w.pending \in Seq(Calls)
  BY DEF Writers
<1>2. Append(w.pending, c) \in Seq(Calls)
  BY <1>1, AppendProperties
<1> DEFINE q == Append(w.pending, c)
<1> HIDE DEF q
<1>3. q \in Seq(Calls)
  BY <1>2 DEF q
<1>4. /\ [w EXCEPT !.pending = q] \in Writers /\ [w EXCEPT !.pending = q].pending = q
      /\ [w EXCEPT !.pending = q].meta = w.meta /\ [w EXCEPT !.pending = q].next = w.next
  BY <1>3 DEF Writers
<1>5. QED
  BY <1>4 DEF q

LEMMA WriterOpened ==
  ASSUME NEW w \in Writers
  PROVE  /\ [w EXCEPT !.deferred = FALSE] \in Writers
         /\ [w EXCEPT !.deferred = FALSE].pending = w.pending
         /\ [w EXCEPT !.deferred = FALSE].meta = w.meta
         /\ [w EXCEPT !.deferred = FALSE].next = w.next
  BY DEF Writers

LEMMA JobFacts ==
  /\ NoJob \in Jobs
  /\ \A f \in Files : [pc |-> "read", snap |-> f] \in Jobs
  /\ \A w \in Jobs, p \in {"check", "remove"} :
       /\ [w EXCEPT !.pc = p] \in Jobs
       /\ [w EXCEPT !.pc = p].pc = p /\ [w EXCEPT !.pc = p].snap = w.snap
  BY DEF Jobs, NoJob, Files

LEMMA NextItemType ==
  ASSUME TypeOK, Owed
  PROVE  /\ NextItem \in Calls \cup {Meta} /\ NextItem # Torn
         /\ ~writer.meta => writer.pending # <<>> /\ NextItem = Head(writer.pending)
         /\ writer.meta => NextItem = Meta
<1>1. writer.meta \in BOOLEAN /\ writer.pending \in Seq(Calls)
  BY DEF TypeOK, Writers
<1>2. CASE writer.meta
  BY <1>2, ConstantsAssumption DEF NextItem
<1>3. CASE ~writer.meta
  <2>1. writer.pending # <<>> /\ NextItem = Head(writer.pending)
    BY <1>3 DEF NextItem, Owed
  <2>2. Head(writer.pending) \in Calls
    BY <1>1, <2>1
  <2>3. QED
    BY <1>3, <2>1, <2>2, ConstantsAssumption DEF Calls
<1>4. QED
  BY <1>1, <1>2, <1>3

\* What a write adds to the log.
NewLine(item) == IF item = Torn THEN TornLine ELSE [item |-> item, ord |-> writer.next]

\* A write extends the file by a line, or meets a file without a name.
LEMMA WrittenCases ==
  ASSUME TypeOK, Control, NEW item \in Calls \cup {Meta, Torn}, NEW e \in BOOLEAN, Written(item, e)
  PROVE  \/ handle # "plain" /\ plain' = plain /\ fresh' = fresh
         \/ /\ handle = "plain" /\ plain \in File /\ NewLine(item) \in Line /\ fresh' = TRUE
            /\ plain' = [lines |-> Append(plain.lines, NewLine(item)), ended |-> e]
            /\ plain' \in File
<1>1. CASE handle # "plain"
  BY <1>1 DEF Written
<1>2. CASE handle = "plain"
  <2>1. plain \in File /\ plain.ended
    BY <1>2 DEF Control
  <2>2. writer.next \in Nat
    BY DEF TypeOK, Writers
  <2>3. NewLine(item) \in Line
    BY <2>2 DEF NewLine, TornLine, Line
  <2>4. plain' = [lines |-> Append(plain.lines, NewLine(item)), ended |-> e] /\ fresh' = TRUE
    BY <1>2, <2>1 DEF Written, Extended, NewLine
  <2>a. plain.lines \in Seq(Line)
    BY <2>1, FileFacts
  <2>5. Append(plain.lines, NewLine(item)) \in Seq(Line)
    BY <2>a, <2>3, AppendProperties
  <2>6. QED
    BY <1>2, <2>1, <2>3, <2>4, <2>5, FileMade
<1>3. QED
  BY <1>1, <1>2

LEMMA WrittenPartCases ==
  ASSUME TypeOK, Control, NEW part \in {"nothing", "torn", "whole"}, WrittenPart(part),
         part # "nothing" => Owed
  PROVE  \/ plain' = plain /\ fresh' = fresh
         \/ \E item \in Calls \cup {Meta, Torn} :
              /\ handle = "plain" /\ plain \in File /\ NewLine(item) \in Line /\ fresh' = TRUE
              /\ Owed /\ item \in {Torn, NextItem} /\ (item = NextItem => part = "whole")
              /\ plain' = [lines |-> Append(plain.lines, NewLine(item)), ended |-> FALSE]
              /\ plain' \in File
<1>1. CASE part = "nothing"
  BY <1>1 DEF WrittenPart
<1>2. CASE part = "torn"
  <2>1. Written(Torn, FALSE)
    BY <1>2 DEF WrittenPart
  <2>2. Torn # NextItem
    BY <1>2, NextItemType
  <2>3. QED
    BY <1>2, <2>1, <2>2, WrittenCases
<1>3. CASE part = "whole"
  <2>1. Owed /\ Written(NextItem, FALSE)
    BY <1>3 DEF WrittenPart
  <2>2. NextItem \in Calls \cup {Meta, Torn}
    BY <2>1, NextItemType
  <2>3. QED
    BY <1>3, <2>1, <2>2, WrittenCases
<1>4. QED
  BY <1>1, <1>2, <1>3

\* The end of a command leaves the task idle, ...
LEMMA FinishIdle ==
  ASSUME TypeOK, NEW o, NEW c \in Calls, NEW r \in {"ok", "err"}, Finish(o, c, r)
  PROVE  /\ task' = Idle /\ task' \in Tasks /\ stage' \in [Calls -> Stages]
         /\ rec' \in {"none", "opening", "live", "stopped"}
<1>1. stage \in [Calls -> Stages] /\ rec \in {"none", "opening", "live", "stopped"}
  BY DEF TypeOK
<1>2. task' = Idle /\ task' \in Tasks
  BY TaskMade DEF Finish
<1>3. CASE o = "shutdown" /\ r = "ok"
  BY <1>1, <1>2, <1>3 DEF Finish, Stages
<1>4. CASE ~(o = "shutdown" /\ r = "ok")
  BY <1>1, <1>2, <1>4 DEF Finish, Answer, Stages
<1>5. QED
  BY <1>3, <1>4

\* ... with a shutdown ends the task ...
LEMMA FinishStops ==
  ASSUME TypeOK, NEW c \in Calls, Finish("shutdown", c, "ok")
  PROVE  /\ rec' \in {"none", "stopped"} /\ cmds' = <<>> /\ handle' = "none"
         /\ \A d \in Calls : stage[d] # "waiting" => stage'[d] = stage[d]
         /\ \A d \in Calls : stage[d] = "waiting" => stage'[d] = IF d = c THEN "ok" ELSE "err"
  BY DEF Finish

\* ... and otherwise answers one call.
LEMMA FinishAnswers ==
  ASSUME TypeOK, NEW o, NEW c \in Calls, NEW r \in {"ok", "err"}, Finish(o, c, r),
         o # "shutdown" \/ r # "ok"
  PROVE  /\ rec' = IF o = "resume" THEN (IF r = "ok" THEN "live" ELSE "none") ELSE rec
         /\ \A d \in Calls : d # c => stage'[d] = stage[d]
         /\ o = "add" => stage'[c] = stage[c]
         /\ o # "add" /\ stage[c] \in {"waiting", "resuming"} => stage'[c] = r
         /\ o # "add" /\ stage[c] \notin {"waiting", "resuming"} => stage'[c] = stage[c]
<1>1. stage \in [Calls -> Stages]
  BY DEF TypeOK
<1>2. QED
  BY <1>1 DEF Finish, Answer

LEMMA NoCommands == <<>> \in Seq(Cmd)
  OBVIOUS

\* A failed attempt is repeated once.
LEMMA AttemptFailsCases ==
  ASSUME TypeOK, Control, AttemptFails, task.pc # "idle"
  PROVE  /\ handle' = "none" /\ cmds' = cmds /\ stage' \in [Calls -> Stages]
         /\ rec' = IF task.attempt # 1 /\ task.op = "resume" THEN "none" ELSE rec
         /\ task' \in Tasks
         /\ task' = Idle \/ /\ task.attempt = 1 /\ task'.pc = "start"
                             /\ task'.op = task.op /\ task'.call = task.call
         /\ task' = Idle => task.attempt # 1
         /\ \A d \in Calls : d # task.call => stage'[d] = stage[d]
         /\ task.attempt = 1 \/ task.op = "add" => stage'[task.call] = stage[task.call]
         /\ \/ stage'[task.call] = stage[task.call]
            \/ stage[task.call] \in {"waiting", "resuming"} /\ stage'[task.call] = "err"
         /\ task' = Idle /\ task.op # "add" => stage'[task.call] \notin {"waiting", "resuming"}
<1>0. Idle.pc = "idle"
  BY TaskMade
<1>1. task.call \in Calls
  BY DEF Control
<1>2. CASE task.attempt = 1
  BY <1>2, <1>0, TaskRepeated DEF AttemptFails, TypeOK
<1>3. CASE task.attempt # 1
  <2>1. Finish(task.op, task.call, "err") /\ handle' = "none" /\ cmds' = cmds
    BY <1>3 DEF AttemptFails
  <2>2. task' = Idle /\ task' \in Tasks /\ stage' \in [Calls -> Stages]
    BY <1>1, <2>1, FinishIdle
  <2>3. rec' = IF task.op = "resume" THEN "none" ELSE rec
    BY <1>1, <2>1, FinishAnswers
  <2>4. /\ \A d \in Calls : d # task.call => stage'[d] = stage[d]
        /\ task.op = "add" => stage'[task.call] = stage[task.call]
        /\ \/ stage'[task.call] = stage[task.call]
           \/ stage[task.call] \in {"waiting", "resuming"} /\ stage'[task.call] = "err"
        /\ task.op # "add" => stage'[task.call] \notin {"waiting", "resuming"}
    BY <1>1, <2>1, FinishAnswers
  <2>5. QED
    BY <1>3, <2>1, <2>2, <2>3, <2>4
<1>4. QED
  BY <1>2, <1>3

-----------------------------------------------------------------------------
(* What the longer actions do.                                             *)

\* The file that the recorder opens: its last line ended.
Opened == IF plain = NoFile THEN EmptyFile ELSE [lines |-> plain.lines, ended |-> TRUE]

LEMMA OpenedFacts ==
  ASSUME TypeOK
  PROVE  /\ Opened \in File /\ Opened.ended
         /\ Opened.lines = IF plain = NoFile THEN <<>> ELSE plain.lines
  BY EmptyFileFacts, FileFacts DEF TypeOK, Files, Opened

\* Opening the file for a write.
OpenedForWrite ==
  /\ task.op # "resume" /\ plain' = Opened /\ swept' = (swept \/ worker.pc = "remove")
  /\ handle' = "plain" /\ writer' = [writer EXCEPT !.deferred = FALSE]
  /\ task' = [task EXCEPT !.pc = "write"] /\ rec' = rec /\ stage' = stage /\ cmds' = cmds

\* A resume that fails, ...
ResumeRefused ==
  /\ task.op = "resume" /\ Finish("resume", task.call, "err")
  /\ \/ plain' = plain /\ swept' = swept
     \/ plain # NoFile /\ plain' = Opened /\ swept' = (swept \/ worker.pc = "remove")
  /\ handle' = handle /\ writer' = writer /\ cmds' = cmds

\* ... and one that succeeds.
Resumed ==
  /\ task.op = "resume" /\ Finish("resume", task.call, "ok")
  /\ plain \in File /\ plain' = Opened /\ swept' = (swept \/ worker.pc = "remove")
  /\ handle' = "plain" /\ cmds' = <<>>
  /\ plain.lines \in Seq(Line) /\ 1 \in Parsed(plain.lines)
  /\ writer' = [deferred |-> FALSE, meta |-> FALSE, pending |-> <<>>,
                next |-> plain.lines[LastOf(plain.lines)].ord + 1]

LEMMA OpenFileCases ==
  ASSUME TypeOK, Control, OpenFile
  PROVE  /\ OpenedForWrite \/ ResumeRefused \/ Resumed
         /\ task.pc \in {"open", "touch"} /\ task.call \in Calls /\ handle = "none"
         /\ zst' = zst /\ sent' = sent /\ worker' = worker /\ faults' = faults /\ crashes' = crashes
         /\ leftWhole' = leftWhole
         /\ fresh' \in BOOLEAN
<1>1. /\ task.pc \in {"open", "touch"} /\ task.call \in Calls /\ handle = "none"
      /\ zst' = zst /\ sent' = sent /\ worker' = worker /\ faults' = faults /\ crashes' = crashes
      /\ leftWhole' = leftWhole
  BY DEF OpenFile, Control, boundVars
<1>2. CASE task.op = "resume" /\ plain = NoFile
  BY <1>1, <1>2 DEF OpenFile, ResumeRefused, TypeOK
<1>3. CASE task.op # "resume"
  BY <1>1, <1>3 DEF OpenFile, OpenedForWrite, Opened
<1>4. CASE task.op = "resume" /\ plain # NoFile
  <2>1. plain' = Opened /\ swept' = (swept \/ worker.pc = "remove") /\ fresh' \in BOOLEAN
    BY <1>4 DEF OpenFile, Opened
  <2>2. CASE Opened.lines = <<>> \/ Opened.lines[1].item # Meta
    <3>1. Finish("resume", task.call, "err") /\ UNCHANGED <<handle, writer, cmds>>
      BY <1>4, <2>2 DEF OpenFile, Opened
    <3>2. QED
      BY <1>1, <1>4, <2>1, <3>1 DEF ResumeRefused
  <2>3. CASE ~(Opened.lines = <<>> \/ Opened.lines[1].item # Meta)
    <3>1. /\ Finish("resume", task.call, "ok") /\ handle' = "plain" /\ cmds' = <<>>
          /\ writer' = [deferred |-> FALSE, meta |-> FALSE, pending |-> <<>>,
                        next |-> Opened.lines[LastOf(Opened.lines)].ord + 1]
      BY <1>4, <2>3 DEF OpenFile, Opened
    <3>2. plain \in File /\ plain.lines \in Seq(Line) /\ Opened.lines = plain.lines
      BY <1>4, OpenedFacts, FileFacts DEF TypeOK, Files
    <3>3. 1 \in Parsed(plain.lines)
      BY <3>2, <2>3, ConstantsAssumption DEF Parsed
    <3>4. QED
      BY <1>1, <1>4, <2>1, <3>1, <3>2, <3>3 DEF Resumed
  <2>4. QED
    BY <2>2, <2>3
<1>5. QED
  BY <1>2, <1>3, <1>4

\* A command that is answered without a write, ...
TakenIdle ==
  /\ task' = Idle /\ Finish(Head(cmds).op, Head(cmds).call, "ok")
  /\ Head(cmds).op # "shutdown" => cmds' = Tail(cmds) /\ handle' = handle
  /\ writer.deferred /\ (Head(cmds).op # "add" => writer.pending = <<>>)

\* ... and one that starts a write.
TakenForWrite ==
  /\ cmds' = Tail(cmds) /\ rec' = rec /\ handle' = handle /\ stage' = stage
  /\ task' = [pc |-> "start", attempt |-> 1, op |-> Head(cmds).op, call |-> Head(cmds).call]

LEMMA TakeCases ==
  ASSUME TypeOK, Take
  PROVE  /\ rec = "live" /\ task = Idle /\ cmds # <<>>
         /\ Head(cmds).op \in {"add", "persist", "flush", "shutdown"}
         /\ Head(cmds).call \in Calls /\ Tail(cmds) \in Seq(Cmd)
         /\ writer' = IF Head(cmds).op = "add"
                      THEN [writer EXCEPT !.pending = Append(writer.pending, Head(cmds).call)]
                      ELSE writer
         /\ TakenIdle \/ TakenForWrite
         /\ plain' = plain /\ zst' = zst /\ fresh' = fresh /\ worker' = worker /\ sent' = sent
         /\ swept' = swept /\ faults' = faults /\ crashes' = crashes /\ leftWhole' = leftWhole
<1>1. /\ rec = "live" /\ task = Idle /\ cmds # <<>>
      /\ plain' = plain /\ zst' = zst /\ fresh' = fresh /\ worker' = worker /\ sent' = sent
      /\ swept' = swept /\ faults' = faults /\ crashes' = crashes /\ leftWhole' = leftWhole
  BY DEF Take, fileVars, boundVars
<1>2. Head(cmds) \in Cmd /\ Tail(cmds) \in Seq(Cmd)
  BY <1>1 DEF TypeOK
<1>3. /\ Head(cmds).op \in {"add", "persist", "flush", "shutdown"}
      /\ Head(cmds).call \in Calls
  BY <1>2 DEF Cmd
<1>4. writer' = IF Head(cmds).op = "add"
                THEN [writer EXCEPT !.pending = Append(writer.pending, Head(cmds).call)]
                ELSE writer
  BY DEF Take
<1> DEFINE idle == \/ Head(cmds).op = "add" /\ writer'.deferred
                   \/ Head(cmds).op \in {"flush", "shutdown"} /\ writer'.deferred /\ writer'.pending = <<>>
<1>5. CASE idle
  <2>1. Finish(Head(cmds).op, Head(cmds).call, "ok")
    BY <1>5, <1>4 DEF Take
  <2>2. Head(cmds).op # "shutdown" => cmds' = Tail(cmds) /\ handle' = handle
    BY <1>5, <1>4 DEF Take
  <2>3. writer.deferred
    BY <1>5, <1>4, WriterQueued, <1>3 DEF TypeOK
  <2>4. Head(cmds).op # "add" => writer.pending = <<>>
    BY <1>5, <1>4
  <2>5. task' = Idle
    BY <2>1 DEF Finish
  <2>6. QED
    BY <1>1, <1>2, <1>3, <1>4, <2>1, <2>2, <2>3, <2>4, <2>5 DEF TakenIdle
<1>6. CASE ~idle
  <2>1. TakenForWrite
    BY <1>6, <1>4 DEF Take, TakenForWrite
  <2>2. QED
    BY <1>1, <1>2, <1>3, <1>4, <2>1
<1>7. QED
  BY <1>5, <1>6

\* What Take leaves the writer: an added item is pending, the rest stays.
LEMMA TakeQueues ==
  ASSUME TypeOK, Take
  PROVE  /\ writer'.meta = writer.meta /\ writer'.next = writer.next
         /\ writer'.pending = IF Head(cmds).op = "add" THEN Append(writer.pending, Head(cmds).call)
                              ELSE writer.pending
<1>1. writer \in Writers
  BY DEF TypeOK
<1>2. Head(cmds).call \in Calls
  BY TakeCases
<1>3. CASE Head(cmds).op = "add"
  <2> DEFINE w == [writer EXCEPT !.pending = Append(writer.pending, Head(cmds).call)]
  <2>1. w.pending = Append(writer.pending, Head(cmds).call) /\ w.meta = writer.meta /\ w.next = writer.next
    BY <1>1, <1>2, WriterQueued, Zenon
  <2>2. writer' = w
    BY <1>3, TakeCases, Zenon
  <2> HIDE DEF w
  <2>3. QED
    BY <1>3, <2>1, <2>2
<1>4. CASE Head(cmds).op # "add"
  <2>1. writer' = writer
    BY <1>4, TakeCases
  <2>2. QED
    BY <1>4, <2>1
<1>5. QED
  BY <1>3, <1>4

-----------------------------------------------------------------------------
(* The types.                                                              *)

LEMMA TypeNext ==
  ASSUME TypeOK, Control, [Next]_vars
  PROVE  TypeOK'
<1>1. ASSUME NEW c \in Calls, AppendItems(c) PROVE TypeOK'
  BY <1>1 DEF TypeOK, callVars, fileVars, boundVars, AppendItems, Begin, Cmd, Stages
<1>2. ASSUME NEW c \in Calls, ThenFlush(c) PROVE TypeOK'
  <2>1. [op |-> "flush", call |-> c] \in Cmd
    BY DEF Cmd
  <2>2. cmds' \in Seq(Cmd)
    BY <1>2, <2>1 DEF ThenFlush, TypeOK
  <2>3. stage' \in [Calls -> Stages]
    BY <1>2 DEF ThenFlush, TypeOK, Stages
  <2>4. QED
    BY <1>2, <2>2, <2>3 DEF ThenFlush, TypeOK, fileVars, boundVars
<1>3. ASSUME NEW c \in Calls, Resume(c) PROVE TypeOK'
  BY <1>3, TaskMade, TaskMoved DEF TypeOK, callVars, fileVars, boundVars, Resume, Begin, Stages
<1>4. ASSUME NEW c \in Calls, Refused(c) PROVE TypeOK'
  BY <1>4 DEF TypeOK, callVars, fileVars, boundVars, Refused, Begin, Stages
<1>5. ASSUME NEW c \in Calls, Cancel(c) PROVE TypeOK'
  BY <1>5 DEF TypeOK, callVars, fileVars, boundVars, Cancel, Stages
<1>6. ASSUME NEW c \in Calls, NEW o \in {"persist", "flush", "shutdown"}, Ask(c, o) PROVE TypeOK'
  BY <1>6 DEF TypeOK, callVars, fileVars, boundVars, Ask, Begin, Cmd, Stages
<1>7. ASSUME Take PROVE TypeOK'
  <2>1. Take
    BY <1>7
  <2> DEFINE m == Head(cmds)
  <2>2. /\ plain' \in Files /\ zst' \in Files /\ fresh' \in BOOLEAN /\ worker' \in Jobs
        /\ sent' \subseteq Calls /\ swept' \in BOOLEAN
        /\ faults' \in 0 .. MaxFaults /\ crashes' \in 0 .. MaxCrashes
        /\ leftWhole' \subseteq Calls \cup {Meta}
        /\ m.op \in {"add", "persist", "flush", "shutdown"} /\ m.call \in Calls
        /\ Tail(cmds) \in Seq(Cmd)
    BY <2>1, TakeCases DEF TypeOK
  <2>3. writer' \in Writers
    BY <2>1, <2>2, TakeCases, WriterQueued DEF TypeOK
  <2>4. CASE TakenForWrite
    BY <2>2, <2>3, <2>4, TaskMade DEF TakenForWrite, TypeOK
  <2>5. CASE TakenIdle
    <3>1. Finish(m.op, m.call, "ok")
      BY <2>5 DEF TakenIdle
    <3>2. cmds' \in Seq(Cmd) /\ handle' \in {"none", "plain", "unlinked"}
      <4>1. CASE m.op = "shutdown"
        <5>1. cmds' = <<>> /\ handle' = "none"
          BY <2>2, <3>1, <4>1, FinishStops
        <5>2. QED
          BY <5>1, NoCommands
      <4>2. CASE m.op # "shutdown"
        BY <2>2, <2>5, <4>2 DEF TakenIdle, TypeOK
      <4>3. QED
        BY <4>1, <4>2
    <3>3. QED
      BY <2>2, <2>3, <3>1, <3>2, FinishIdle DEF TypeOK
  <2>6. QED
    BY <2>1, <2>4, <2>5, TakeCases
<1>8. ASSUME Open PROVE TypeOK'
  BY <1>8, TaskMade, TaskMoved DEF TypeOK, callVars, fileVars, boundVars, Open
<1>9. ASSUME Unpack PROVE TypeOK'
  BY <1>9, TaskMade, TaskMoved DEF TypeOK, callVars, fileVars, boundVars, Unpack
<1>10. ASSUME RemovePacked PROVE TypeOK'
  BY <1>10, TaskMade, TaskMoved DEF TypeOK, callVars, fileVars, boundVars, RemovePacked, Files
<1>11. ASSUME OpenFile PROVE TypeOK'
  <2>1. OpenFile
    BY <1>11
  <2>2. /\ zst' \in Files /\ sent' \subseteq Calls /\ worker' \in Jobs /\ fresh' \in BOOLEAN
        /\ faults' \in 0 .. MaxFaults /\ crashes' \in 0 .. MaxCrashes /\ task.call \in Calls
        /\ leftWhole' \subseteq Calls \cup {Meta}
    BY <2>1, OpenFileCases DEF TypeOK
  <2>3. Opened \in Files
    BY OpenedFacts DEF Files
  <2>4. CASE OpenedForWrite
    BY <2>2, <2>3, <2>4, TaskMoved, WriterOpened DEF OpenedForWrite, TypeOK
  <2>5. CASE ResumeRefused
    BY <2>2, <2>3, <2>5, FinishIdle DEF ResumeRefused, TypeOK
  <2>6. CASE Resumed
    <3>1. LastOf(plain.lines) \in 1 .. Len(plain.lines) /\ plain.lines \in Seq(Line)
      BY <2>6, LastExists DEF Resumed, Parsed
    <3>2. plain.lines[LastOf(plain.lines)] \in Line
      BY <3>1, ElementOfSeq
    <3>3. writer' \in Writers
      BY <2>6, <3>2 DEF Resumed, Writers, Line
    <3>4. QED
      BY <2>2, <2>3, <2>6, <3>3, FinishIdle, NoCommands DEF Resumed, TypeOK
  <2>7. QED
    BY <2>1, <2>4, <2>5, <2>6, OpenFileCases
<1>12. ASSUME WriteItem PROVE TypeOK'
  <2>1. Owed /\ Written(NextItem, TRUE)
    BY <1>12 DEF WriteItem
  <2>2. NextItem \in Calls \cup {Meta, Torn}
    BY <2>1, NextItemType
  <2>3. plain' \in Files /\ fresh' \in BOOLEAN
    BY <2>1, <2>2, WrittenCases DEF TypeOK, Files
  <2>4. ~writer.meta => Tail(writer.pending) \in Seq(Calls)
    BY <2>1, NextItemType DEF TypeOK, Writers
  <2>5. writer' \in Writers
    BY <1>12, <2>4 DEF WriteItem, TypeOK, Writers
  <2>6. QED
    BY <1>12, <2>3, <2>5 DEF WriteItem, TypeOK, callVars, boundVars
<1>13. ASSUME WriteDone PROVE TypeOK'
  <2>1. task.call \in Calls /\ Finish(task.op, task.call, "ok")
    BY <1>13 DEF WriteDone, Control
  <2>2. task' = Idle /\ stage' \in [Calls -> Stages] /\ rec' \in {"none", "opening", "live", "stopped"}
    BY <2>1, FinishIdle
  <2>3. cmds' \in Seq(Cmd) /\ handle' \in {"none", "plain", "unlinked"}
    <3>1. CASE task.op = "shutdown"
      BY <2>1, <3>1, FinishStops, NoCommands
    <3>2. CASE task.op # "shutdown"
      BY <1>13, <3>2 DEF WriteDone, TypeOK
    <3>3. QED
      BY <3>1, <3>2
  <2>4. QED
    BY <1>13, <2>2, <2>3, TaskMade DEF WriteDone, TypeOK, fileVars, boundVars
<1>14. ASSUME OpenFails PROVE TypeOK'
  <2>1. AttemptFails /\ task.pc # "idle"
    BY <1>14 DEF OpenFails
  <2>2. /\ handle' = "none" /\ cmds' = cmds /\ stage' \in [Calls -> Stages] /\ task' \in Tasks
        /\ rec' \in {"none", rec}
    BY <2>1, AttemptFailsCases
  <2>3. QED
    BY <1>14, <2>2, ConstantsAssumption DEF OpenFails, TypeOK, fileVars
<1>15. ASSUME NEW part \in {"nothing", "torn", "whole"}, WriteFails(part) PROVE TypeOK'
  <2>1. AttemptFails /\ task.pc # "idle" /\ WrittenPart(part) /\ Owed
    BY <1>15 DEF WriteFails
  <2>2. plain' \in Files /\ fresh' \in BOOLEAN
    BY <2>1, WrittenPartCases DEF TypeOK, Files
  <2>3. /\ handle' = "none" /\ cmds' = cmds /\ stage' \in [Calls -> Stages] /\ task' \in Tasks
        /\ rec' \in {"none", rec}
    BY <2>1, AttemptFailsCases
  <2>4. leftWhole' \subseteq Calls \cup {Meta}
    BY <1>15, <2>1, NextItemType DEF WriteFails, Marked, TypeOK
  <2>5. QED
    BY <1>15, <2>2, <2>3, <2>4, ConstantsAssumption DEF WriteFails, TypeOK
<1>16. ASSUME NEW part \in {"nothing", "torn", "whole"}, Crash(part) PROVE TypeOK'
  <2>1. WrittenPart(part) /\ (part # "nothing" => Owed)
    BY <1>16 DEF Crash
  <2>2. plain' \in Files /\ fresh' \in BOOLEAN
    BY <2>1, WrittenPartCases DEF TypeOK, Files
  <2>3. stage' \in [Calls -> Stages]
    BY <1>16 DEF Crash, TypeOK, Stages
  <2>4. QED
    BY <1>16, <2>2, <2>3, TaskMade, NoCommands, ConstantsAssumption DEF Crash, TypeOK
<1>17. ASSUME WorkerDies PROVE TypeOK'
  BY <1>17, JobFacts DEF TypeOK, callVars, fileVars, boundVars, WorkerDies
<1>18. ASSUME WorkerReads PROVE TypeOK'
  BY <1>18, JobFacts DEF TypeOK, callVars, fileVars, boundVars, WorkerReads
<1>19. ASSUME WorkerPersists PROVE TypeOK'
  BY <1>19, JobFacts DEF TypeOK, callVars, fileVars, boundVars, WorkerPersists, Jobs, Files
<1>20. ASSUME WorkerChecks PROVE TypeOK'
  BY <1>20, JobFacts DEF TypeOK, callVars, fileVars, boundVars, WorkerChecks, Files
<1>21. ASSUME WorkerRemoves PROVE TypeOK'
  BY <1>21, JobFacts DEF TypeOK, callVars, fileVars, boundVars, WorkerRemoves, Files
<1>22. ASSUME Ages PROVE TypeOK'
  BY <1>22 DEF TypeOK, callVars, fileVars, boundVars, Ages
<1>23. CASE UNCHANGED vars
  BY <1>23 DEF TypeOK, vars
<1>24. QED
  BY <1>1, <1>2, <1>3, <1>4, <1>5, <1>6, <1>7, <1>8, <1>9, <1>10, <1>11, <1>12, <1>13, <1>14,
     <1>15, <1>16, <1>17, <1>18, <1>19, <1>20, <1>21, <1>22, <1>23 DEF Next, Store, Writer,
     Faults, Worker

LEMMA ControlNext ==
  ASSUME TypeOK, Control, [Next]_vars
  PROVE  Control'
<1>1. ASSUME NEW c \in Calls, AppendItems(c) PROVE Control'
  BY <1>1, TaskMade, TaskMoved DEF TypeOK, Control, callVars, fileVars, boundVars,
     AppendItems, Begin
<1>2. ASSUME NEW c \in Calls, ThenFlush(c) PROVE Control'
  BY <1>2, TaskMade, TaskMoved DEF TypeOK, Control, callVars, fileVars, boundVars, ThenFlush
<1>3. ASSUME NEW c \in Calls, Resume(c) PROVE Control'
  BY <1>3, TaskMade, TaskMoved DEF TypeOK, Control, callVars, fileVars, boundVars, Resume
<1>4. ASSUME NEW c \in Calls, Refused(c) PROVE Control'
  BY <1>4, TaskMade, TaskMoved DEF TypeOK, Control, callVars, fileVars, boundVars, Refused,
     Begin
<1>5. ASSUME NEW c \in Calls, Cancel(c) PROVE Control'
  BY <1>5, TaskMade, TaskMoved DEF TypeOK, Control, callVars, fileVars, boundVars, Cancel
<1>6. ASSUME NEW c \in Calls, NEW o \in {"persist", "flush", "shutdown"}, Ask(c, o) PROVE Control'
  BY <1>6, TaskMade, TaskMoved DEF TypeOK, Control, callVars, fileVars, boundVars, Ask, Begin
<1>7. ASSUME Take PROVE Control'
  <2>1. Take
    BY <1>7
  <2>2. /\ rec = "live" /\ task = Idle /\ plain' = plain
        /\ Head(cmds).op \in {"add", "persist", "flush", "shutdown"} /\ Head(cmds).call \in Calls
    BY <2>1, TakeCases
  <2>3. CASE TakenForWrite
    BY <2>2, <2>3, TaskMade DEF TakenForWrite, Control
  <2>4. CASE TakenIdle /\ Head(cmds).op = "shutdown"
    <3>1. rec' \in {"none", "stopped"} /\ cmds' = <<>> /\ handle' = "none" /\ task' = Idle
      BY <2>2, <2>4, FinishStops DEF TakenIdle
    <3>2. QED
      BY <3>1, TaskMade DEF Control
  <2>5. CASE TakenIdle /\ Head(cmds).op # "shutdown"
    <3>1. rec' = "live" /\ handle' = handle /\ task' = Idle
      BY <2>2, <2>5, FinishAnswers DEF TakenIdle
    <3>2. QED
      BY <3>1, <2>2, TaskMade DEF Control
  <2>6. QED
    BY <2>1, <2>3, <2>4, <2>5, TakeCases
<1>8. ASSUME Open PROVE Control'
  BY <1>8, TaskMade, TaskMoved DEF TypeOK, Control, callVars, fileVars, boundVars, Open
<1>9. ASSUME Unpack PROVE Control'
  BY <1>9, TaskMade, TaskMoved DEF TypeOK, Control, callVars, fileVars, boundVars, Unpack, Files
<1>10. ASSUME RemovePacked PROVE Control'
  BY <1>10, TaskMade, TaskMoved DEF TypeOK, Control, callVars, fileVars, boundVars, RemovePacked
<1>11. ASSUME OpenFile PROVE Control'
  <2>1. OpenFile
    BY <1>11
  <2>2. task.call \in Calls /\ handle = "none" /\ task.pc \in {"open", "touch"}
    BY <2>1, OpenFileCases
  <2>3. CASE OpenedForWrite
    <3>1. task'.pc = "write" /\ task'.op = task.op /\ task'.call = task.call
      BY <2>3, TaskMoved DEF OpenedForWrite, TypeOK
    <3>2. plain' \in File /\ plain'.ended
      BY <2>3, OpenedFacts DEF OpenedForWrite
    <3>3. handle' = "plain" /\ rec' = rec /\ cmds' = cmds /\ task.op # "resume"
      BY <2>3 DEF OpenedForWrite
    <3>4. QED
      BY <2>2, <3>1, <3>2, <3>3 DEF Control, TypeOK
  <2>4. CASE ResumeRefused
    <3>1. rec' = "none" /\ task' = Idle
      BY <2>2, <2>4, FinishAnswers, FinishIdle DEF ResumeRefused
    <3>2. QED
      BY <2>2, <2>4, <3>1, TaskMade DEF ResumeRefused, Control
  <2>5. CASE Resumed
    <3>1. rec' = "live" /\ task' = Idle
      BY <2>2, <2>5, FinishAnswers, FinishIdle DEF Resumed
    <3>2. QED
      BY <2>5, <3>1, TaskMade, OpenedFacts DEF Resumed, Control
  <2>6. QED
    BY <2>1, <2>3, <2>4, <2>5, OpenFileCases
<1>12. ASSUME WriteItem PROVE Control'
  <2>1. Owed /\ Written(NextItem, TRUE)
    BY <1>12 DEF WriteItem
  <2>2. NextItem \in Calls \cup {Meta, Torn}
    BY <2>1, NextItemType
  <2>a. handle = "plain" =>
          plain' \in File /\ plain' = [lines |-> Append(plain.lines, NewLine(NextItem)), ended |-> TRUE]
    BY <2>1, <2>2, WrittenCases
  <2>3. handle = "plain" => plain' \in File /\ plain'.ended
    BY <2>a
  <2>4. QED
    BY <1>12, <2>3 DEF WriteItem, Control
<1>13. ASSUME WriteDone PROVE Control'
  <2>1. task.call \in Calls /\ Finish(task.op, task.call, "ok") /\ task.pc = "write" /\ plain' = plain
    BY <1>13 DEF WriteDone, Control, fileVars
  <2>2. task' = Idle
    BY <2>1, FinishIdle
  <2>3. CASE task.op = "shutdown"
    <3>1. rec' \in {"none", "stopped"} /\ cmds' = <<>> /\ handle' = "none"
      BY <2>1, <2>3, FinishStops
    <3>2. QED
      BY <3>1, <2>2, TaskMade DEF Control
  <2>4. CASE task.op # "shutdown"
    <3>1. cmds' = cmds /\ handle' = handle /\ rec' = IF task.op = "resume" THEN "live" ELSE rec
      BY <1>13, <2>1, <2>4, FinishAnswers DEF WriteDone
    <3>2. QED
      BY <3>1, <2>1, <2>2, TaskMade DEF Control, TypeOK
  <2>5. QED
    BY <2>3, <2>4
<1>14. ASSUME OpenFails PROVE Control'
  <2>1. AttemptFails /\ task.pc # "idle"
    BY <1>14 DEF OpenFails
  <2>2. /\ handle' = "none" /\ cmds' = cmds
        /\ rec' = IF task.attempt # 1 /\ task.op = "resume" THEN "none" ELSE rec
        /\ \/ task' = Idle /\ task.attempt # 1
           \/ task.attempt = 1 /\ task'.pc = "start" /\ task'.op = task.op /\ task'.call = task.call
    BY <2>1, AttemptFailsCases
  <2>3. QED
    BY <2>1, <2>2, TaskMade DEF Control, TypeOK
<1>15. ASSUME NEW part \in {"nothing", "torn", "whole"}, WriteFails(part) PROVE Control'
  <2>1. AttemptFails /\ task.pc # "idle"
    BY <1>15 DEF WriteFails
  <2>2. /\ handle' = "none" /\ cmds' = cmds
        /\ rec' = IF task.attempt # 1 /\ task.op = "resume" THEN "none" ELSE rec
        /\ \/ task' = Idle /\ task.attempt # 1
           \/ task.attempt = 1 /\ task'.pc = "start" /\ task'.op = task.op /\ task'.call = task.call
    BY <2>1, AttemptFailsCases
  <2>3. QED
    BY <2>1, <2>2, TaskMade DEF Control, TypeOK
<1>16. ASSUME NEW part \in {"nothing", "torn", "whole"}, Crash(part) PROVE Control'
  BY <1>16, TaskMade DEF Crash, Control
<1>17. ASSUME WorkerDies PROVE Control'
  BY <1>17, TaskMade, TaskMoved DEF TypeOK, Control, callVars, fileVars, boundVars, WorkerDies
<1>18. ASSUME WorkerReads PROVE Control'
  BY <1>18, TaskMade, TaskMoved DEF TypeOK, Control, callVars, fileVars, boundVars, WorkerReads
<1>19. ASSUME WorkerPersists PROVE Control'
  BY <1>19, TaskMade, TaskMoved DEF TypeOK, Control, callVars, fileVars, boundVars,
     WorkerPersists, SameFile
<1>20. ASSUME WorkerChecks PROVE Control'
  BY <1>20, TaskMade, TaskMoved DEF TypeOK, Control, callVars, fileVars, boundVars,
     WorkerChecks, SameFile
<1>21. ASSUME WorkerRemoves PROVE Control'
  BY <1>21, TaskMade, TaskMoved DEF TypeOK, Control, callVars, fileVars, boundVars,
     WorkerRemoves
<1>22. ASSUME Ages PROVE Control'
  BY <1>22, TaskMade, TaskMoved DEF TypeOK, Control, callVars, fileVars, boundVars, Ages
<1>23. CASE UNCHANGED vars
  BY <1>23 DEF Control, vars
<1>24. QED
  BY <1>1, <1>2, <1>3, <1>4, <1>5, <1>6, <1>7, <1>8, <1>9, <1>10, <1>11, <1>12, <1>13, <1>14,
     <1>15, <1>16, <1>17, <1>18, <1>19, <1>20, <1>21, <1>22, <1>23 DEF Next, Store, Writer,
     Faults, Worker

LEMMA TypeInit == Init => TypeOK /\ Control
<1> SUFFICES ASSUME Init PROVE TypeOK /\ Control
  OBVIOUS
<1>1. NewWriter \in Writers /\ NoJob \in Jobs /\ Idle \in Tasks
  BY TaskMade, JobFacts DEF NewWriter, Writers
<1>2. TypeOK
  <2>1. stage \in [Calls -> Stages]
    BY DEF Init, Stages
  <2>2. writer \in Writers /\ worker \in Jobs /\ task \in Tasks /\ cmds \in Seq(Cmd)
    BY <1>1, NoCommands DEF Init
  <2>3. faults \in 0 .. MaxFaults /\ crashes \in 0 .. MaxCrashes
    BY ConstantsAssumption DEF Init
  <2>4. QED
    BY <2>1, <2>2, <2>3 DEF Init, TypeOK, Files
<1>3. QED
  BY <1>2, TaskMade DEF Init, Control

\* Every state of the recorder, of the files and of the worker has its type:
\* no write is tried a third time, and a resumed recorder finds an ordinal to
\* go on from.
THEOREM TypeCorrect == Spec => []TypeOK
<1>1. Init => TypeOK /\ Control
  BY TypeInit
<1>2. TypeOK /\ Control /\ [Next]_vars => (TypeOK /\ Control)'
  BY TypeNext, ControlNext
<1>3. QED
  BY <1>1, <1>2, PTL DEF Spec

-----------------------------------------------------------------------------
(* The two files and the worker.                                           *)

LEMMA FilesAgreeNext ==
  ASSUME TypeOK, Control, FilesAgree, [Next]_vars
  PROVE  FilesAgree'
<1>1. ASSUME NEW c \in Calls, AppendItems(c) PROVE FilesAgree'
  BY <1>1 DEF FilesAgree, fileVars, AppendItems
<1>2. ASSUME NEW c \in Calls, ThenFlush(c) PROVE FilesAgree'
  BY <1>2 DEF FilesAgree, fileVars, ThenFlush
<1>3. ASSUME NEW c \in Calls, Resume(c) PROVE FilesAgree'
  BY <1>3, TaskMade DEF FilesAgree, Control, fileVars, Resume
<1>4. ASSUME NEW c \in Calls, Refused(c) PROVE FilesAgree'
  BY <1>4 DEF FilesAgree, fileVars, Refused
<1>5. ASSUME NEW c \in Calls, Cancel(c) PROVE FilesAgree'
  BY <1>5 DEF FilesAgree, fileVars, Cancel
<1>6. ASSUME NEW c \in Calls, NEW o \in {"persist", "flush", "shutdown"}, Ask(c, o)
      PROVE  FilesAgree'
  BY <1>6 DEF FilesAgree, fileVars, Ask
<1>7. ASSUME Take PROVE FilesAgree'
  <2>1. Take
    BY <1>7
  <2>2. rec = "live" /\ plain' = plain /\ zst' = zst /\ worker' = worker /\ swept' = swept
    BY <2>1, TakeCases
  <2>3. task'.pc \in {"idle", "start"} /\ handle' \in {"none", handle}
    <3>1. CASE TakenForWrite
      BY <3>1 DEF TakenForWrite
    <3>2. CASE TakenIdle
      BY <2>1, <3>2, TakeCases, TaskMade, FinishStops DEF TakenIdle
    <3>3. QED
      BY <2>1, <3>1, <3>2, TakeCases
  <2>4. QED
    BY <2>2, <2>3 DEF FilesAgree
<1>8. ASSUME Open PROVE FilesAgree'
  <2>1. /\ plain' = plain /\ zst' = zst /\ rec' = rec /\ handle' = handle /\ worker' = worker
        /\ swept' = swept
    BY <1>8 DEF Open, fileVars
  <2>2. CASE task'.pc \in {"write", "open"}
    <3>1. task'.pc = "open" /\ plain = NoFile => zst = NoFile
      BY <1>8 DEF Open, TypeOK, Tasks
    <3>2. QED
      BY <2>1, <2>2, <3>1 DEF FilesAgree
  <2>3. CASE task'.pc = "unpack"
    <3>1. plain = NoFile /\ zst # NoFile
      BY <1>8, <2>3 DEF Open, TypeOK, Tasks
    <3>2. NoFile \notin File
      BY ConstantsAssumption
    <3>3. QED
      BY <2>1, <2>3, <3>1, <3>2 DEF FilesAgree, TypeOK, Files
  <2>4. task'.pc \in {"write", "open", "unpack"}
    BY <1>8 DEF Open, TypeOK, Tasks
  <2>5. QED
    BY <2>2, <2>3, <2>4
<1>9. ASSUME Unpack PROVE FilesAgree'
  <2>1. task'.pc = "unlink"
    BY <1>9, TaskMoved DEF Unpack, TypeOK
  <2>2. plain' \in File
    BY <1>9 DEF Unpack, FilesAgree, TypeOK, Files
  <2>3. QED
    BY <1>9, <2>1, <2>2, ConstantsAssumption DEF Unpack, FilesAgree, NoJob
<1>10. ASSUME RemovePacked PROVE FilesAgree'
  <2>1. task'.pc = "touch"
    BY <1>10, TaskMoved DEF RemovePacked, TypeOK
  <2>2. QED
    BY <1>10, <2>1 DEF RemovePacked, FilesAgree, NoJob
<1>11. ASSUME OpenFile PROVE FilesAgree'
  <2>1. OpenFile
    BY <1>11
  <2>2. /\ task.call \in Calls /\ handle = "none" /\ task.pc \in {"open", "touch"}
        /\ zst' = zst /\ worker' = worker
    BY <2>1, OpenFileCases
  <2>3. CASE OpenedForWrite
    <3>1. task'.pc = "write" /\ plain' \in File /\ plain' # NoFile
      BY <2>3, TaskMoved, OpenedFacts, FileFacts DEF OpenedForWrite, TypeOK
    <3>2. QED
      BY <2>2, <2>3, <3>1 DEF OpenedForWrite, FilesAgree
  <2>4. CASE ResumeRefused
    <3>1. rec' = "none" /\ task' = Idle /\ rec = "opening"
      BY <2>2, <2>4, FinishAnswers, FinishIdle DEF ResumeRefused, Control
    <3>2. task'.pc = "idle" /\ handle' = "none" /\ Opened \in File
      BY <2>2, <2>4, <3>1, TaskMade, OpenedFacts DEF ResumeRefused
    <3>3. CASE plain' = plain /\ swept' = swept
      BY <2>2, <3>1, <3>2, <3>3 DEF FilesAgree
    <3>4. CASE plain' = Opened /\ swept' = (swept \/ worker.pc = "remove")
      BY <2>2, <3>1, <3>2, <3>4 DEF FilesAgree
    <3>5. QED
      BY <2>4, <3>3, <3>4 DEF ResumeRefused
  <2>5. CASE Resumed
    <3>1. rec' = "live" /\ task' = Idle /\ plain' \in File
      BY <2>2, <2>5, FinishAnswers, FinishIdle, OpenedFacts DEF Resumed
    <3>2. QED
      BY <2>2, <2>5, <3>1, TaskMade DEF Resumed, FilesAgree
  <2>6. QED
    BY <2>1, <2>3, <2>4, <2>5, OpenFileCases
<1>12. ASSUME WriteItem PROVE FilesAgree'
  <2>1. Owed /\ Written(NextItem, TRUE) /\ task.pc = "write"
    BY <1>12 DEF WriteItem
  <2>2. NextItem \in Calls \cup {Meta, Torn}
    BY <2>1, NextItemType
  <2>3. \/ plain' = plain
        \/ handle = "plain" /\ plain' \in File
    BY <2>1, <2>2, WrittenCases
  <2>4. handle = "plain" => rec = "live"
    BY DEF Control
  <2>5. QED
    BY <1>12, <2>1, <2>3, <2>4 DEF WriteItem, FilesAgree, Control, callVars
<1>13. ASSUME WriteDone PROVE FilesAgree'
  <2>1. task.call \in Calls /\ Finish(task.op, task.call, "ok") /\ task.pc = "write"
    BY <1>13 DEF WriteDone, Control
  <2>2. task' = Idle /\ task'.pc = "idle"
    BY <2>1, FinishIdle, TaskMade
  <2>3. handle' \in {"none", handle}
    BY <1>13, <2>1, FinishStops DEF WriteDone
  <2>4. rec' \in {"none", "stopped", rec}
    <3>1. task.op # "resume"
      BY <2>1 DEF Control
    <3>2. CASE task.op = "shutdown"
      BY <2>1, <3>2, FinishStops
    <3>3. CASE task.op # "shutdown"
      BY <2>1, <3>1, <3>3, FinishAnswers
    <3>4. QED
      BY <3>2, <3>3
  <2>5. rec = "live"
    BY <2>1 DEF Control, TypeOK
  <2>6. QED
    BY <1>13, <2>2, <2>3, <2>4, <2>5 DEF WriteDone, FilesAgree, fileVars
<1>14. ASSUME OpenFails PROVE FilesAgree'
  <2>1. AttemptFails /\ task.pc # "idle"
    BY <1>14 DEF OpenFails
  <2>2. /\ handle' = "none" /\ rec' \in {"none", rec} /\ task'.pc \in {"idle", "start"}
    BY <2>1, AttemptFailsCases, TaskMade
  <2>3. QED
    BY <1>14, <2>2 DEF OpenFails, FilesAgree, Control, fileVars
<1>15. ASSUME NEW part \in {"nothing", "torn", "whole"}, WriteFails(part) PROVE FilesAgree'
  <2>1. AttemptFails /\ task.pc # "idle"
    BY <1>15 DEF WriteFails
  <2>2. /\ handle' = "none" /\ rec' \in {"none", rec} /\ task'.pc \in {"idle", "start"}
    BY <2>1, AttemptFailsCases, TaskMade
  <2>3. task.pc = "write" /\ WrittenPart(part) /\ Owed
    BY <1>15 DEF WriteFails
  <2>4. \/ plain' = plain
        \/ handle = "plain" /\ plain' \in File
    BY <2>3, WrittenPartCases
  <2>5. handle = "plain" => rec = "live"
    BY DEF Control
  <2>6. QED
    BY <1>15, <2>2, <2>3, <2>4, <2>5 DEF WriteFails, FilesAgree, Control, TypeOK
<1>16. ASSUME NEW part \in {"nothing", "torn", "whole"}, Crash(part) PROVE FilesAgree'
  <2>1. WrittenPart(part) /\ (part # "nothing" => Owed)
    BY <1>16 DEF Crash
  <2>2. \/ plain' = plain
        \/ handle = "plain" /\ plain' \in File
    BY <2>1, WrittenPartCases
  <2>3. handle = "plain" => rec = "live"
    BY DEF Control
  <2>4. QED
    BY <1>16, <2>2, <2>3, TaskMade DEF Crash, FilesAgree, Control, TypeOK
<1>17. ASSUME WorkerDies PROVE FilesAgree'
  BY <1>17 DEF WorkerDies, FilesAgree, NoJob, fileVars
<1>18. ASSUME WorkerReads PROVE FilesAgree'
  <2>1. plain \in File
    BY <1>18 DEF WorkerReads, Readable, TypeOK, Files
  <2>2. worker'.pc = "read" /\ worker'.snap = plain
    BY <1>18 DEF WorkerReads
  <2>3. task.pc \notin {"unpack", "unlink"}
    BY <1>18, ConstantsAssumption DEF WorkerReads, FilesAgree
  <2>4. QED
    BY <1>18, <2>1, <2>2, <2>3 DEF WorkerReads, FilesAgree, fileVars, NoJob
<1>19. ASSUME WorkerPersists PROVE FilesAgree'
  <2>1. plain' = plain /\ plain \in File /\ worker.snap \in File /\ task.pc \notin {"unpack", "unlink"}
    BY <1>19 DEF WorkerPersists, FilesAgree, NoJob
  <2>2. /\ rec' = rec /\ handle' = handle /\ task' = task /\ swept' = swept
    BY <1>19 DEF WorkerPersists
  <2>3. CASE SameFile /\ zst = NoFile
    <3>1. zst' = worker.snap /\ worker'.pc = "check" /\ worker'.snap = worker.snap
      BY <1>19, <2>3, JobFacts DEF WorkerPersists, TypeOK
    <3>2. plain # NoFile
      BY <2>1, FileFacts
    <3>3. QED
      BY <2>1, <2>2, <3>1, <3>2 DEF FilesAgree
  <2>4. CASE ~(SameFile /\ zst = NoFile)
    BY <1>19, <2>1, <2>2, <2>4 DEF WorkerPersists, FilesAgree, NoJob
  <2>5. QED
    BY <2>3, <2>4
<1>20. ASSUME WorkerChecks PROVE FilesAgree'
  <2>1. /\ plain' = plain /\ plain \in File /\ worker.snap \in File /\ zst = worker.snap
        /\ task.pc \notin {"unpack", "unlink"}
    BY <1>20 DEF WorkerChecks, FilesAgree, NoJob
  <2>2. rec' = rec /\ handle' = handle /\ task' = task
    BY <1>20 DEF WorkerChecks
  <2>3. CASE SameFile
    <3>1. /\ zst' = zst /\ worker'.pc = "remove" /\ worker'.snap = worker.snap
          /\ swept' = (swept \/ rec # "none") /\ plain = worker.snap
      BY <1>20, <2>3, JobFacts DEF WorkerChecks, TypeOK, SameFile
    <3>2. plain # NoFile
      BY <2>1, FileFacts
    <3>3. QED
      BY <2>1, <2>2, <3>1, <3>2 DEF FilesAgree, TypeOK
  <2>4. CASE ~SameFile
    <3>1. zst' = NoFile /\ worker' = NoJob /\ swept' = swept
      BY <1>20, <2>4 DEF WorkerChecks
    <3>2. QED
      BY <2>1, <2>2, <3>1 DEF FilesAgree, NoJob
  <2>5. QED
    BY <2>3, <2>4
<1>21. ASSUME WorkerRemoves PROVE FilesAgree'
  <2>1. /\ zst' = zst /\ rec' = rec /\ task' = task /\ swept' = swept /\ worker' = NoJob
        /\ handle' = IF handle = "plain" THEN "unlinked" ELSE handle
        /\ task.pc \notin {"unpack", "unlink"} /\ worker.pc = "remove"
    BY <1>21 DEF WorkerRemoves, FilesAgree, NoJob
  <2>2. handle = "plain" => rec = "live"
    BY DEF Control
  <2>3. QED
    BY <2>1, <2>2 DEF FilesAgree, NoJob
<1>22. ASSUME Ages PROVE FilesAgree'
  BY <1>22 DEF Ages, FilesAgree
<1>23. CASE UNCHANGED vars
  BY <1>23 DEF FilesAgree, vars
<1>24. QED
  BY <1>1, <1>2, <1>3, <1>4, <1>5, <1>6, <1>7, <1>8, <1>9, <1>10, <1>11, <1>12, <1>13, <1>14,
     <1>15, <1>16, <1>17, <1>18, <1>19, <1>20, <1>21, <1>22, <1>23 DEF Next, Store, Writer,
     Faults, Worker

LEMMA FilesAgreeInit == Init => FilesAgree
  BY TaskMade DEF Init, FilesAgree, NoJob

-----------------------------------------------------------------------------
(* What a step does to the queue.                                          *)

Starts(c) ==
  /\ stage[c] = "idle" /\ stage'[c] # "idle"
  /\ \A d \in 1 .. c - 1 : stage[d] # "idle"
  /\ \A d \in Calls : d # c => stage'[d] = stage[d]
NoneStarts == \A d \in Calls : (stage'[d] = "idle") <=> (stage[d] = "idle")

\* A call starts and queues its item, ...
Adds(c) ==
  /\ Starts(c) /\ cmds' = Append(cmds, [op |-> "add", call |-> c])
  /\ writer'.pending = writer.pending /\ sent' = sent \cup {c} /\ task' = task
\* ... asks for something else, or for its flush, ...
Asks(c, o) ==
  /\ Starts(c) \/ (NoneStarts /\ stage[c] = "queueing")
  /\ cmds' = Append(cmds, [op |-> o, call |-> c])
  /\ writer'.pending = writer.pending /\ sent' = sent /\ task' = task
\* ... or leaves the queue alone.
Only(c) ==
  /\ Starts(c) /\ cmds' = cmds /\ writer'.pending = writer.pending /\ sent' = sent
  /\ task' = task \/ (cmds = <<>> /\ task'.call = c)
\* The writer takes the first command, ...
Takes ==
  /\ NoneStarts /\ cmds # <<>> /\ cmds' = Tail(cmds) /\ sent' = sent
  /\ writer'.pending = IF Head(cmds).op = "add" THEN Append(writer.pending, Head(cmds).call)
                       ELSE writer.pending
  /\ task'.call \in {Nobody, Head(cmds).call}
\* ... writes the first item, ...
Drops ==
  /\ NoneStarts /\ cmds' = cmds /\ sent' = sent /\ task' = task
  /\ writer.pending # <<>> /\ writer'.pending = Tail(writer.pending)
\* ... or stops, crashes or starts anew.
Clears ==
  /\ NoneStarts /\ cmds' = <<>> /\ sent' = sent
  /\ writer'.pending \in {writer.pending, <<>>} /\ task'.call = Nobody
  /\ rec # "live" \/ rec' # "live"
Stays ==
  /\ NoneStarts /\ cmds' = cmds /\ writer'.pending = writer.pending /\ sent' = sent
  /\ task'.call \in {Nobody, task.call}

QueueStep ==
  \/ \E c \in Calls : Adds(c) \/ Only(c)
  \/ \E c \in Calls, o \in {"persist", "flush", "shutdown"} : Asks(c, o)
  \/ Takes \/ Drops \/ Clears \/ Stays

LEMMA QueueSteps ==
  ASSUME TypeOK, Control, [Next]_vars
  PROVE  QueueStep
<1>1. ASSUME NEW c \in Calls, AppendItems(c) PROVE QueueStep
  <2>1. Starts(c)
    BY <1>1 DEF AppendItems, Begin, Starts, TypeOK
  <2>2. Adds(c)
    BY <1>1, <2>1 DEF AppendItems, Adds
  <2>3. QED
    BY <2>2 DEF QueueStep
<1>2. ASSUME NEW c \in Calls, ThenFlush(c) PROVE QueueStep
  <2>1. NoneStarts
    BY <1>2 DEF ThenFlush, NoneStarts, TypeOK
  <2>2. QED
    BY <1>2, <2>1 DEF ThenFlush, QueueStep, Asks, Stays
<1>3. ASSUME NEW c \in Calls, Resume(c) PROVE QueueStep
  <2>1. Starts(c)
    BY <1>3 DEF Resume, Begin, Starts, TypeOK
  <2>2. cmds = <<>>
    BY <1>3 DEF Resume, Control
  <2>3. QED
    BY <1>3, <2>1, <2>2 DEF Resume, QueueStep, Only
<1>4. ASSUME NEW c \in Calls, Refused(c) PROVE QueueStep
  <2>1. Starts(c)
    BY <1>4 DEF Refused, Begin, Starts, TypeOK
  <2>2. QED
    BY <1>4, <2>1 DEF Refused, QueueStep, Only
<1>5. ASSUME NEW c \in Calls, Cancel(c) PROVE QueueStep
  <2>1. NoneStarts
    BY <1>5 DEF Cancel, NoneStarts, TypeOK
  <2>2. QED
    BY <1>5, <2>1 DEF Cancel, QueueStep, Stays
<1>6. ASSUME NEW c \in Calls, NEW o \in {"persist", "flush", "shutdown"}, Ask(c, o) PROVE QueueStep
  <2>1. Starts(c)
    BY <1>6 DEF Ask, Begin, Starts, TypeOK
  <2>2. cmds' = Append(cmds, [op |-> o, call |-> c])
    BY <1>6 DEF Ask
  <2>3. writer' = writer /\ sent' = sent /\ task' = task
    BY <1>6 DEF Ask
  <2>4. Asks(c, o)
    BY <2>1, <2>2, <2>3, Zenon DEF Asks
  <2>5. QED
    BY <2>4 DEF QueueStep
<1>7. ASSUME Take PROVE QueueStep
  <2>1. Take
    BY <1>7
  <2>2. /\ task = Idle /\ cmds # <<>> /\ Head(cmds).call \in Calls /\ sent' = sent
        /\ Head(cmds).op \in {"add", "persist", "flush", "shutdown"}
    BY <2>1, TakeCases
  <2>3. writer'.pending = IF Head(cmds).op = "add" THEN Append(writer.pending, Head(cmds).call)
                          ELSE writer.pending
    BY <2>1, TakeQueues
  <2>4. CASE TakenForWrite
    BY <2>2, <2>3, <2>4 DEF TakenForWrite, QueueStep, Takes, NoneStarts
  <2>5. CASE TakenIdle /\ Head(cmds).op = "shutdown"
    <3>1. Finish("shutdown", Head(cmds).call, "ok") /\ task' = Idle
      BY <2>5 DEF TakenIdle
    <3>2. NoneStarts /\ cmds' = <<>> /\ rec' # "live"
      BY <2>2, <3>1, FinishStops DEF NoneStarts
    <3>3. QED
      BY <2>2, <2>3, <2>5, <3>1, <3>2, TaskMade DEF QueueStep, Clears
  <2>6. CASE TakenIdle /\ Head(cmds).op # "shutdown"
    <3>1. Finish(Head(cmds).op, Head(cmds).call, "ok") /\ task' = Idle /\ cmds' = Tail(cmds)
      BY <2>6 DEF TakenIdle
    <3>2. NoneStarts
      BY <2>2, <2>6, <3>1, FinishAnswers DEF NoneStarts
    <3>3. QED
      BY <2>2, <2>3, <3>1, <3>2, TaskMade DEF QueueStep, Takes
  <2>7. QED
    BY <2>1, <2>4, <2>5, <2>6, TakeCases
<1>8. ASSUME Open PROVE QueueStep
  <2>1. NoneStarts
    BY <1>8 DEF Open, NoneStarts, callVars
  <2>2. task'.call = task.call
    BY <1>8, TaskMoved DEF Open, TypeOK
  <2>3. QED
    BY <1>8, <2>1, <2>2 DEF Open, QueueStep, Stays, callVars
<1>9. ASSUME Unpack PROVE QueueStep
  <2>1. NoneStarts
    BY <1>9 DEF Unpack, NoneStarts, callVars
  <2>2. task'.call = task.call
    BY <1>9, TaskMoved DEF Unpack, TypeOK
  <2>3. QED
    BY <1>9, <2>1, <2>2 DEF Unpack, QueueStep, Stays, callVars
<1>10. ASSUME RemovePacked PROVE QueueStep
  <2>1. NoneStarts
    BY <1>10 DEF RemovePacked, NoneStarts, callVars
  <2>2. task'.call = task.call
    BY <1>10, TaskMoved DEF RemovePacked, TypeOK
  <2>3. QED
    BY <1>10, <2>1, <2>2 DEF RemovePacked, QueueStep, Stays, callVars
<1>11. ASSUME OpenFile PROVE QueueStep
  <2>1. OpenFile
    BY <1>11
  <2>2. task.call \in Calls /\ sent' = sent
    BY <2>1, OpenFileCases
  <2>3. CASE OpenedForWrite
    <3>1. task'.call = task.call /\ writer'.pending = writer.pending
      BY <2>3, TaskMoved, WriterOpened DEF OpenedForWrite, TypeOK
    <3>2. QED
      BY <2>2, <2>3, <3>1 DEF OpenedForWrite, QueueStep, Stays, NoneStarts
  <2>4. CASE ResumeRefused
    <3>1. NoneStarts /\ task' = Idle
      BY <2>2, <2>4, FinishAnswers, FinishIdle DEF ResumeRefused, NoneStarts
    <3>2. QED
      BY <2>2, <2>4, <3>1, TaskMade DEF ResumeRefused, QueueStep, Stays
  <2>5. CASE Resumed
    <3>1. NoneStarts /\ task' = Idle
      BY <2>2, <2>5, FinishAnswers, FinishIdle DEF Resumed, NoneStarts
    <3>2. writer'.pending = <<>> /\ cmds' = <<>> /\ rec # "live"
      BY <2>5 DEF Resumed, Control
    <3>3. QED
      BY <2>2, <3>1, <3>2, TaskMade DEF QueueStep, Clears
  <2>6. QED
    BY <2>1, <2>3, <2>4, <2>5, OpenFileCases
<1>12. ASSUME WriteItem PROVE QueueStep
  <2>1. NoneStarts /\ sent' = sent /\ cmds' = cmds /\ task' = task
    BY <1>12 DEF WriteItem, NoneStarts, callVars
  <2>2. Owed
    BY <1>12 DEF WriteItem
  <2>3. \/ writer'.pending = writer.pending
        \/ writer.pending # <<>> /\ writer'.pending = Tail(writer.pending)
    BY <1>12, <2>2, NextItemType DEF WriteItem
  <2>4. QED
    BY <2>1, <2>3 DEF QueueStep, Stays, Drops
<1>13. ASSUME WriteDone PROVE QueueStep
  <2>1. /\ task.call \in Calls /\ Finish(task.op, task.call, "ok") /\ sent' = sent
        /\ writer' = writer
    BY <1>13 DEF WriteDone, Control
  <2>2. task' = Idle
    BY <2>1, FinishIdle
  <2>3. CASE task.op = "shutdown"
    <3>1. NoneStarts /\ cmds' = <<>> /\ rec' # "live"
      BY <2>1, <2>3, FinishStops DEF NoneStarts
    <3>2. QED
      BY <2>1, <2>2, <3>1, TaskMade DEF QueueStep, Clears
  <2>4. CASE task.op # "shutdown"
    <3>1. cmds' = cmds
      BY <1>13, <2>4 DEF WriteDone
    <3>2. NoneStarts
      BY <2>1, <2>4, FinishAnswers DEF NoneStarts
    <3>3. QED
      BY <2>1, <2>2, <3>1, <3>2, TaskMade DEF QueueStep, Stays
  <2>5. QED
    BY <2>3, <2>4
<1>14. ASSUME OpenFails PROVE QueueStep
  <2>1. AttemptFails /\ task.pc # "idle" /\ task.call \in Calls
    BY <1>14 DEF OpenFails, Control
  <2>2. cmds' = cmds /\ task'.call \in {Nobody, task.call}
    BY <2>1, AttemptFailsCases, TaskMade
  <2>3. NoneStarts
    BY <2>1, AttemptFailsCases DEF NoneStarts
  <2>4. QED
    BY <1>14, <2>2, <2>3 DEF OpenFails, QueueStep, Stays
<1>15. ASSUME NEW part \in {"nothing", "torn", "whole"}, WriteFails(part) PROVE QueueStep
  <2>1. AttemptFails /\ task.pc # "idle" /\ task.call \in Calls
    BY <1>15 DEF WriteFails, Control
  <2>2. cmds' = cmds /\ task'.call \in {Nobody, task.call}
    BY <2>1, AttemptFailsCases, TaskMade
  <2>3. NoneStarts
    BY <2>1, AttemptFailsCases DEF NoneStarts
  <2>4. QED
    BY <1>15, <2>2, <2>3 DEF WriteFails, QueueStep, Stays
<1>16. ASSUME NEW part \in {"nothing", "torn", "whole"}, Crash(part) PROVE QueueStep
  <2>1. NoneStarts
    BY <1>16 DEF Crash, NoneStarts, Active, TypeOK
  <2>2. QED
    BY <1>16, <2>1, TaskMade DEF Crash, QueueStep, Clears
<1>17. ASSUME WorkerDies PROVE QueueStep
  BY <1>17 DEF WorkerDies, QueueStep, Stays, NoneStarts, callVars
<1>18. ASSUME WorkerReads PROVE QueueStep
  BY <1>18 DEF WorkerReads, QueueStep, Stays, NoneStarts, callVars
<1>19. ASSUME WorkerPersists PROVE QueueStep
  BY <1>19 DEF WorkerPersists, QueueStep, Stays, NoneStarts, callVars
<1>20. ASSUME WorkerChecks PROVE QueueStep
  BY <1>20 DEF WorkerChecks, QueueStep, Stays, NoneStarts, callVars
<1>21. ASSUME WorkerRemoves PROVE QueueStep
  BY <1>21 DEF WorkerRemoves, QueueStep, Stays, NoneStarts, callVars
<1>22. ASSUME Ages PROVE QueueStep
  BY <1>22 DEF Ages, QueueStep, Stays, NoneStarts, callVars
<1>23. CASE UNCHANGED vars
  BY <1>23 DEF QueueStep, Stays, NoneStarts, vars
<1>24. QED
  BY <1>1, <1>2, <1>3, <1>4, <1>5, <1>6, <1>7, <1>8, <1>9, <1>10, <1>11, <1>12, <1>13, <1>14,
     <1>15, <1>16, <1>17, <1>18, <1>19, <1>20, <1>21, <1>22, <1>23 DEF Next, Store, Writer,
     Faults, Worker

-----------------------------------------------------------------------------
(* The order of the queue.                                                 *)

LEMMA BegunGrows ==
  ASSUME BegunFirst
  PROVE  /\ \A c \in Calls : Starts(c) => Begun' = Begun \cup {c} /\ \A d \in Begun : d < c
         /\ NoneStarts => Begun' = Begun
<1>1. ASSUME NEW c \in Calls, Starts(c) PROVE Begun' = Begun \cup {c}
  BY <1>1 DEF Starts, Begun
<1>2. ASSUME NEW c \in Calls, Starts(c), NEW d \in Begun PROVE d < c
  BY <1>2 DEF Starts, Begun, BegunFirst, Calls
<1>3. NoneStarts => Begun' = Begun
  BY DEF NoneStarts, Begun
<1>4. QED
  BY <1>1, <1>2, <1>3

LEMMA BegunFirstNext ==
  ASSUME TypeOK, Control, BegunFirst, [Next]_vars
  PROVE  BegunFirst'
<1>0. QueueStep /\ cmds \in Seq(Cmd) /\ writer.pending \in Seq(Calls) /\ sent \subseteq Calls
  BY QueueSteps DEF TypeOK, Writers
<1>1. ASSUME NEW c \in Calls, Adds(c) PROVE BegunFirst'
  <2>1. Begun' = Begun \cup {c} /\ writer'.pending = writer.pending /\ sent' = sent \cup {c} /\ task' = task
    BY <1>1, BegunGrows DEF Adds
  <2>2. \A d, e \in Calls : d < e /\ stage'[d] = "idle" => stage'[e] = "idle"
    BY <1>1 DEF BegunFirst, Starts, Calls, Adds
  <2>3. /\ Len(cmds') = Len(cmds) + 1 /\ Len(cmds) \in Nat
        /\ \A i \in 1 .. Len(cmds) : cmds'[i] = cmds[i]
        /\ cmds'[Len(cmds) + 1] = [op |-> "add", call |-> c]
    BY <1>1, <1>0 DEF Adds
  <2>4. \A i \in 1 .. Len(cmds') : cmds'[i].call \in Begun'
    BY <2>1, <2>3 DEF BegunFirst
  <2>5. QED
    BY <2>1, <2>2, <2>4 DEF BegunFirst
<1>2. ASSUME NEW c \in Calls, Only(c) PROVE BegunFirst'
  <2>1. Begun' = Begun \cup {c} /\ writer'.pending = writer.pending /\ sent' = sent /\ cmds' = cmds
    BY <1>2, BegunGrows DEF Only
  <2>2. \A d, e \in Calls : d < e /\ stage'[d] = "idle" => stage'[e] = "idle"
    BY <1>2 DEF BegunFirst, Starts, Calls, Only
  <2>3. task'.call \in {task.call, c}
    BY <1>2 DEF Only
  <2>4. QED
    BY <2>1, <2>2, <2>3 DEF BegunFirst
<1>3. ASSUME NEW c \in Calls, NEW o \in {"persist", "flush", "shutdown"}, Asks(c, o)
      PROVE  BegunFirst'
  <2>1. writer'.pending = writer.pending /\ sent' = sent /\ task' = task
    BY <1>3 DEF Asks
  <2>2. Begun \subseteq Begun' /\ c \in Begun'
    BY <1>3, BegunGrows DEF Asks, Begun
  <2>3. \A d, e \in Calls : d < e /\ stage'[d] = "idle" => stage'[e] = "idle"
    BY <1>3 DEF BegunFirst, Starts, NoneStarts, Calls, Asks
  <2>4. /\ Len(cmds') = Len(cmds) + 1 /\ Len(cmds) \in Nat
        /\ \A i \in 1 .. Len(cmds) : cmds'[i] = cmds[i]
        /\ cmds'[Len(cmds) + 1] = [op |-> o, call |-> c]
    BY <1>3, <1>0 DEF Asks
  <2>5. \A i \in 1 .. Len(cmds') : cmds'[i].call \in Begun'
    BY <2>2, <2>4 DEF BegunFirst
  <2>6. QED
    BY <2>1, <2>2, <2>3, <2>5 DEF BegunFirst
<1>4. ASSUME Takes PROVE BegunFirst'
  <2>1. NoneStarts /\ Begun' = Begun /\ sent' = sent
    BY <1>4, BegunGrows DEF Takes
  <2>2. \A d, e \in Calls : d < e /\ stage'[d] = "idle" => stage'[e] = "idle"
    BY <2>1 DEF BegunFirst, NoneStarts
  <2>3. Len(cmds') = Len(cmds) - 1 /\ \A i \in 1 .. Len(cmds') : cmds'[i] = cmds[i + 1]
    BY <1>4, <1>0 DEF Takes
  <2>4. Len(cmds) \in Nat \ {0} /\ Head(cmds) = cmds[1]
    BY <1>4, <1>0 DEF Takes
  <2>5. \A i \in 1 .. Len(cmds') : cmds'[i].call \in Begun'
    BY <2>1, <2>3, <2>4 DEF BegunFirst
  <2>6. Head(cmds).call \in Begun
    BY <2>4 DEF BegunFirst
  <2>7. \A i \in 1 .. Len(writer'.pending) : writer'.pending[i] \in Begun
    <3>1. CASE writer'.pending = writer.pending
      BY <3>1 DEF BegunFirst
    <3>2. CASE writer'.pending = Append(writer.pending, Head(cmds).call)
      <4>1. /\ Len(writer'.pending) = Len(writer.pending) + 1 /\ Len(writer.pending) \in Nat
            /\ \A i \in 1 .. Len(writer.pending) : writer'.pending[i] = writer.pending[i]
            /\ writer'.pending[Len(writer.pending) + 1] = Head(cmds).call
        BY <1>0, <3>2
      <4>2. \A i \in 1 .. Len(writer'.pending) :
              i \in 1 .. Len(writer.pending) \/ i = Len(writer.pending) + 1
        BY <4>1
      <4>3. \A i \in 1 .. Len(writer.pending) : writer.pending[i] \in Begun
        BY DEF BegunFirst
      <4>4. QED
        BY <2>6, <4>1, <4>2, <4>3, Zenon
    <3>3. QED
      BY <1>4, <3>1, <3>2 DEF Takes
  <2>8. task'.call \in {Nobody, Head(cmds).call}
    BY <1>4 DEF Takes
  <2>9. QED
    BY <2>1, <2>2, <2>5, <2>6, <2>7, <2>8 DEF BegunFirst
<1>5. ASSUME Drops PROVE BegunFirst'
  <2>1. NoneStarts /\ Begun' = Begun /\ sent' = sent
    BY <1>5, BegunGrows DEF Drops
  <2>2. \A d, e \in Calls : d < e /\ stage'[d] = "idle" => stage'[e] = "idle"
    BY <2>1 DEF BegunFirst, NoneStarts
  <2>3. /\ Len(writer'.pending) = Len(writer.pending) - 1 /\ Len(writer.pending) \in Nat
        /\ \A i \in 1 .. Len(writer'.pending) : writer'.pending[i] = writer.pending[i + 1]
    BY <1>5, <1>0 DEF Drops
  <2>4. \A i \in 1 .. Len(writer'.pending) : writer'.pending[i] \in Begun
    BY <2>3 DEF BegunFirst
  <2>5. cmds' = cmds /\ task' = task
    BY <1>5 DEF Drops
  <2>6. QED
    BY <2>1, <2>2, <2>4, <2>5 DEF BegunFirst
<1>6. ASSUME Clears PROVE BegunFirst'
  <2>1. NoneStarts /\ Begun' = Begun /\ sent' = sent
    BY <1>6, BegunGrows DEF Clears
  <2>2. \A d, e \in Calls : d < e /\ stage'[d] = "idle" => stage'[e] = "idle"
    BY <2>1 DEF BegunFirst, NoneStarts
  <2>3. Len(cmds') = 0 /\ writer'.pending \in {writer.pending, <<>>} /\ task'.call = Nobody
    BY <1>6 DEF Clears
  <2>4. \A i \in 1 .. Len(writer'.pending) : writer'.pending[i] \in Begun
    BY <2>3 DEF BegunFirst
  <2>5. QED
    BY <2>1, <2>2, <2>3, <2>4 DEF BegunFirst
<1>7. ASSUME Stays PROVE BegunFirst'
  <2>1. NoneStarts /\ Begun' = Begun /\ sent' = sent
    BY <1>7, BegunGrows DEF Stays
  <2>2. \A d, e \in Calls : d < e /\ stage'[d] = "idle" => stage'[e] = "idle"
    BY <2>1 DEF BegunFirst, NoneStarts
  <2>3. cmds' = cmds /\ writer'.pending = writer.pending /\ task'.call \in {Nobody, task.call}
    BY <1>7 DEF Stays
  <2>4. QED
    BY <2>1, <2>2, <2>3 DEF BegunFirst
<1>8. QED
  BY <1>0, <1>1, <1>2, <1>3, <1>4, <1>5, <1>6, <1>7 DEF QueueStep

LEMMA BegunFirstInit == Init => BegunFirst
  BY TaskMade DEF Init, BegunFirst, NewWriter


LEMMA QueueSortedNext ==
  ASSUME TypeOK, Control, BegunFirst, QueueSorted, [Next]_vars
  PROVE  QueueSorted'
<1>0. QueueStep /\ cmds \in Seq(Cmd) /\ writer.pending \in Seq(Calls) /\ sent \subseteq Calls
  BY QueueSteps DEF TypeOK, Writers
<1>g. task.call \in Calls \cup {Nobody}
  BY DEF TypeOK, Tasks
<1>a. \A i \in 1 .. Len(cmds) : cmds[i].call \in Calls
  BY DEF BegunFirst, Begun
<1>b. \A c \in Calls : c \in Int
  BY DEF Calls
<1>c. \A c \in Calls : Starts(c) => \A d \in Begun : d < c
  BY BegunGrows
<1>d. /\ \A i \in 1 .. Len(cmds) : cmds[i].call \in Begun
      /\ \A i \in 1 .. Len(writer.pending) : writer.pending[i] \in Begun
  BY DEF BegunFirst
<1>e. \A i \in 1 .. Len(writer.pending) : writer.pending[i] \in Calls
  BY <1>0
<1>f. task.call \in Calls \cup {Nobody} /\ \A c \in Calls : Nobody < c
  BY DEF TypeOK, Tasks, Calls, Nobody
<1>1. ASSUME NEW c \in Calls, Adds(c) PROVE QueueSorted'
  <2>1. /\ \A i \in 1 .. Len(cmds') : cmds'[i] = IF i <= Len(cmds) THEN cmds[i] ELSE [op |-> "add", call |-> c]
        /\ Len(cmds') = Len(cmds) + 1 /\ Len(cmds) \in Nat
    BY <1>1, <1>0 DEF Adds
  <2>2. Starts(c) /\ writer'.pending = writer.pending /\ task' = task
    BY <1>1 DEF Adds
  <2>3. \A i \in 1 .. Len(cmds) : cmds[i].call < c
    BY <1>a, <1>c, <1>d, <2>2
  <2>4. \A i \in 1 .. Len(writer.pending) : writer.pending[i] < c
    BY <1>c, <1>d, <1>e, <2>2
  <2>5. task.call < c
    BY <1>c, <1>f, <2>2 DEF BegunFirst
  <2>6. \A i, j \in 1 .. Len(cmds') : i < j /\ cmds'[j].op = "add" => cmds'[i].call < cmds'[j].call
    BY <2>1, <2>3 DEF QueueSorted
  <2>7. \A j \in 1 .. Len(cmds') : cmds'[j].op = "add" =>
          /\ task'.call < cmds'[j].call
          /\ \A i \in 1 .. Len(writer'.pending) : writer'.pending[i] < cmds'[j].call
    BY <2>1, <2>2, <2>4, <2>5 DEF QueueSorted
  <2>8. QED
    BY <2>2, <2>6, <2>7 DEF QueueSorted
<1>2. ASSUME NEW c \in Calls, Only(c) PROVE QueueSorted'
  <2>1. /\ writer'.pending = writer.pending /\ cmds' = cmds /\ (task' = task \/ cmds = <<>>)
    BY <1>2 DEF Only
  <2>2. QED
    BY <2>1 DEF QueueSorted
<1>3. ASSUME NEW c \in Calls, NEW o \in {"persist", "flush", "shutdown"}, Asks(c, o)
      PROVE  QueueSorted'
  <2>1. /\ \A i \in 1 .. Len(cmds') : cmds'[i] = IF i <= Len(cmds) THEN cmds[i] ELSE [op |-> o, call |-> c]
        /\ Len(cmds') = Len(cmds) + 1 /\ Len(cmds) \in Nat
    BY <1>3, <1>0 DEF Asks
  <2>2. writer'.pending = writer.pending /\ task' = task
    BY <1>3 DEF Asks
  <2>3. \A i, j \in 1 .. Len(cmds') : i < j /\ cmds'[j].op = "add" => cmds'[i].call < cmds'[j].call
    BY <2>1 DEF QueueSorted
  <2>4. QED
    BY <2>1, <2>2, <2>3 DEF QueueSorted
<1>4. ASSUME Takes PROVE QueueSorted'
  <2>1. Len(cmds') = Len(cmds) - 1 /\ \A i \in 1 .. Len(cmds') : cmds'[i] = cmds[i + 1]
    BY <1>4, <1>0 DEF Takes
  <2>2. Len(cmds) \in Nat \ {0} /\ Head(cmds) = cmds[1]
    BY <1>4, <1>0 DEF Takes
  <2>3. \A j \in 1 .. Len(cmds') : cmds'[j].op = "add" => cmds[1].call < cmds'[j].call
    BY <2>1, <2>2 DEF QueueSorted
  <2>4. \A i, j \in 1 .. Len(cmds') : i < j /\ cmds'[j].op = "add" => cmds'[i].call < cmds'[j].call
    BY <2>1, <2>2 DEF QueueSorted
  <2>5. \A j \in 1 .. Len(cmds') : cmds'[j].op = "add" => task'.call < cmds'[j].call
    <3>1. \A j \in 1 .. Len(cmds') : cmds'[j].call \in Calls
      BY <1>a, <2>1, <2>2
    <3>2. task'.call \in {Nobody, cmds[1].call}
      BY <1>4, <2>2 DEF Takes
    <3>3. QED
      BY <1>f, <2>3, <3>1, <3>2
  <2>6. /\ \A i \in 1 .. Len(writer'.pending), j \in 1 .. Len(cmds') :
             cmds'[j].op = "add" => writer'.pending[i] < cmds'[j].call
        /\ \A i, j \in 1 .. Len(writer'.pending) : i < j => writer'.pending[i] < writer'.pending[j]
    <3>1. CASE writer'.pending = writer.pending
      BY <2>1, <2>2, <3>1 DEF QueueSorted
    <3>2. CASE Head(cmds).op = "add" /\ writer'.pending = Append(writer.pending, Head(cmds).call)
      <4>1. /\ Len(writer'.pending) = Len(writer.pending) + 1 /\ Len(writer.pending) \in Nat
            /\ \A i \in 1 .. Len(writer'.pending) :
                 writer'.pending[i] = IF i <= Len(writer.pending) THEN writer.pending[i] ELSE cmds[1].call
        BY <1>0, <2>2, <3>2
      <4>2. \A i \in 1 .. Len(writer.pending) : writer.pending[i] < cmds[1].call
        BY <2>2, <3>2 DEF QueueSorted
      <4>3. \A i, j \in 1 .. Len(writer'.pending) : i < j => writer'.pending[i] < writer'.pending[j]
        BY <4>1, <4>2 DEF QueueSorted
      <4>4. \A i \in 1 .. Len(writer.pending), j \in 1 .. Len(cmds') :
              cmds'[j].op = "add" => writer.pending[i] < cmds'[j].call
        <5>1. ASSUME NEW j \in 1 .. Len(cmds') PROVE cmds'[j] = cmds[j + 1] /\ j + 1 \in 1 .. Len(cmds)
          BY <2>1, <2>2
        <5>2. \A j \in 1 .. Len(cmds) : cmds[j].op = "add" =>
                \A i \in 1 .. Len(writer.pending) : writer.pending[i] < cmds[j].call
          BY DEF QueueSorted
        <5>3. QED
          BY <5>1, <5>2, Zenon
      <4>5. QED
        BY <2>3, <4>1, <4>3, <4>4
    <3>3. QED
      BY <1>4, <3>1, <3>2 DEF Takes
  <2>7. QED
    BY <2>4, <2>5, <2>6 DEF QueueSorted
<1>5. ASSUME Drops PROVE QueueSorted'
  <2>1. /\ Len(writer'.pending) = Len(writer.pending) - 1 /\ Len(writer.pending) \in Nat
        /\ \A i \in 1 .. Len(writer'.pending) : writer'.pending[i] = writer.pending[i + 1]
    BY <1>5, <1>0 DEF Drops
  <2>2. cmds' = cmds /\ task' = task
    BY <1>5 DEF Drops
  <2>3. \A i, j \in 1 .. Len(writer'.pending) : i < j => writer'.pending[i] < writer'.pending[j]
    BY <2>1 DEF QueueSorted
  <2>4. \A j \in 1 .. Len(cmds) : cmds[j].op = "add" =>
          \A i \in 1 .. Len(writer'.pending) : writer'.pending[i] < cmds[j].call
    BY <2>1 DEF QueueSorted
  <2>5. QED
    BY <2>2, <2>3, <2>4 DEF QueueSorted
<1>6. ASSUME Clears PROVE QueueSorted'
  <2>1. Len(cmds') = 0 /\ writer'.pending \in {writer.pending, <<>>}
    BY <1>6 DEF Clears
  <2>2. \A i, j \in 1 .. Len(writer'.pending) : i < j => writer'.pending[i] < writer'.pending[j]
    BY <2>1 DEF QueueSorted
  <2>3. QED
    BY <2>1, <2>2 DEF QueueSorted
<1>7. ASSUME Stays PROVE QueueSorted'
  <2>1. cmds' = cmds /\ writer'.pending = writer.pending /\ task'.call \in {Nobody, task.call}
    BY <1>7 DEF Stays
  <2>2. \A j \in 1 .. Len(cmds) : cmds[j].op = "add" => task'.call < cmds[j].call
    BY <1>a, <1>f, <2>1 DEF QueueSorted
  <2>3. QED
    BY <2>1, <2>2 DEF QueueSorted
<1>8. QED
  BY <1>0, <1>1, <1>2, <1>3, <1>4, <1>5, <1>6, <1>7 DEF QueueStep

LEMMA QueueSortedInit == Init => QueueSorted
  BY DEF Init, QueueSorted, NewWriter

-----------------------------------------------------------------------------
(* Nobody waits for an answer that will not come.                          *)

LEMMA AskedAppend ==
  ASSUME NEW m, cmds \in Seq(Cmd), cmds' = Append(cmds, m), NEW d \in Calls, Asked(d)
  PROVE  Asked(d)'
<1>1. PICK i \in 1 .. Len(cmds) : cmds[i].call = d /\ cmds[i].op # "add"
  BY DEF Asked
<1>2. i \in 1 .. Len(cmds') /\ cmds'[i] = cmds[i]
  OBVIOUS
<1>3. QED
  BY <1>1, <1>2 DEF Asked

LEMMA AskedLast ==
  ASSUME NEW c \in Calls, NEW o \in {"persist", "flush", "shutdown"}, cmds \in Seq(Cmd),
         cmds' = Append(cmds, [op |-> o, call |-> c])
  PROVE  Asked(c)'
<1>1. Len(cmds) + 1 \in 1 .. Len(cmds') /\ cmds'[Len(cmds) + 1] = [op |-> o, call |-> c]
  OBVIOUS
<1>2. QED
  BY <1>1 DEF Asked

LEMMA AskedTail ==
  ASSUME cmds \in Seq(Cmd), cmds # <<>>, cmds' = Tail(cmds), NEW d \in Calls, Asked(d)
  PROVE  Asked(d)' \/ (d = Head(cmds).call /\ Head(cmds).op # "add")
<1>1. PICK i \in 1 .. Len(cmds) : cmds[i].call = d /\ cmds[i].op # "add"
  BY DEF Asked
<1>2. CASE i = 1
  BY <1>1, <1>2
<1>3. CASE i # 1
  <2>1. i - 1 \in 1 .. Len(cmds') /\ cmds'[i - 1] = cmds[i]
    BY <1>3
  <2>2. QED
    BY <1>1, <2>1 DEF Asked
<1>4. QED
  BY <1>2, <1>3

LEMMA WaitersServedNext ==
  ASSUME TypeOK, Control, BegunFirst, WaitersServed, [Next]_vars
  PROVE  WaitersServed'
<1>1. ASSUME NEW c \in Calls, AppendItems(c) PROVE WaitersServed'
  <2>1. rec = "live" /\ rec' = rec /\ task' = task /\ stage[c] = "idle"
    BY <1>1 DEF AppendItems, Begin
  <2>2. cmds' = Append(cmds, [op |-> "add", call |-> c])
    BY <1>1 DEF AppendItems
  <2>3. \A d \in Calls : d # c => stage'[d] = stage[d]
    BY <1>1 DEF AppendItems, Begin, TypeOK
  <2>4. \A d \in Calls : Asked(d) => Asked(d)'
    BY <2>2, AskedAppend, NoCommands DEF TypeOK
  <2>5. stage'[c] = "queueing" /\ sent' = sent \cup {c}
    BY <1>1 DEF AppendItems, Begin, TypeOK
  <2>6. QED
    BY <2>1, <2>3, <2>4, <2>5 DEF WaitersServed
<1>2. ASSUME NEW c \in Calls, ThenFlush(c) PROVE WaitersServed'
  <2>1. rec' = rec /\ task' = task /\ sent' = sent /\ stage[c] = "queueing"
    BY <1>2 DEF ThenFlush
  <2>2. \A d \in Calls : d # c => stage'[d] = stage[d]
    BY <1>2 DEF ThenFlush, TypeOK
  <2>3. CASE rec = "live"
    <3>1. cmds' = Append(cmds, [op |-> "flush", call |-> c]) /\ stage'[c] = "waiting"
      BY <1>2, <2>3 DEF ThenFlush, TypeOK
    <3>2. \A d \in Calls : Asked(d) => Asked(d)'
      BY <3>1, AskedAppend DEF TypeOK
    <3>3. Asked(c)'
      BY <3>1, AskedLast DEF TypeOK
    <3>4. QED
      BY <2>1, <2>2, <2>3, <3>1, <3>2, <3>3 DEF WaitersServed
  <2>4. CASE rec # "live"
    <3>1. cmds' = cmds /\ stage'[c] = "err"
      BY <1>2, <2>4 DEF ThenFlush, TypeOK
    <3>2. QED
      BY <2>1, <2>2, <2>4, <3>1 DEF WaitersServed, Asked
  <2>5. QED
    BY <2>3, <2>4
<1>3. ASSUME NEW c \in Calls, Resume(c) PROVE WaitersServed'
  <2>1. rec = "none" /\ rec' = "opening" /\ task'.op = "resume" /\ task'.call = c /\ sent' = sent
    BY <1>3 DEF Resume
  <2>2. /\ stage[c] = "idle" /\ stage'[c] = "resuming"
        /\ \A d \in Calls : d # c => stage'[d] = stage[d]
    BY <1>3 DEF Resume, Begin, TypeOK
  <2>3. c \notin sent
    BY <2>2 DEF BegunFirst, Begun
  <2>4. \A d \in Calls : stage[d] \notin {"waiting", "resuming"}
    BY <2>1 DEF WaitersServed, Control
  <2>5. QED
    BY <2>1, <2>2, <2>3, <2>4 DEF WaitersServed
<1>4. ASSUME NEW c \in Calls, Refused(c) PROVE WaitersServed'
  <2>1. rec' = rec /\ task' = task /\ sent' = sent /\ cmds' = cmds
    BY <1>4 DEF Refused
  <2>2. stage'[c] = "err" /\ \A d \in Calls : d # c => stage'[d] = stage[d]
    BY <1>4 DEF Refused, Begin, TypeOK
  <2>3. QED
    BY <2>1, <2>2 DEF WaitersServed, Asked
<1>5. ASSUME NEW c \in Calls, Cancel(c) PROVE WaitersServed'
  <2>1. rec' = rec /\ task' = task /\ sent' = sent /\ cmds' = cmds
    BY <1>5 DEF Cancel
  <2>2. stage'[c] = "cancelled" /\ \A d \in Calls : d # c => stage'[d] = stage[d]
    BY <1>5 DEF Cancel, TypeOK
  <2>3. QED
    BY <2>1, <2>2 DEF WaitersServed, Asked
<1>6. ASSUME NEW c \in Calls, NEW o \in {"persist", "flush", "shutdown"}, Ask(c, o)
      PROVE  WaitersServed'
  <2>1. rec = "live" /\ rec' = rec /\ task' = task /\ stage[c] = "idle"
    BY <1>6 DEF Ask, Begin
  <2>2. cmds' = Append(cmds, [op |-> o, call |-> c])
    BY <1>6 DEF Ask
  <2>3. \A d \in Calls : d # c => stage'[d] = stage[d]
    BY <1>6 DEF Ask, Begin, TypeOK
  <2>4. \A d \in Calls : Asked(d) => Asked(d)'
    BY <2>2, AskedAppend, NoCommands DEF TypeOK
  <2>5. stage'[c] = "waiting" /\ sent' = sent
    BY <1>6 DEF Ask, Begin, TypeOK
  <2>6. Asked(c)'
    BY <2>2, AskedLast DEF TypeOK
  <2>7. QED
    BY <2>1, <2>3, <2>4, <2>5, <2>6 DEF WaitersServed
<1>7. ASSUME Take PROVE WaitersServed'
  <2>1. Take
    BY <1>7
  <2>2. /\ rec = "live" /\ task = Idle /\ cmds # <<>> /\ Head(cmds).call \in Calls /\ sent' = sent
        /\ Head(cmds).op \in {"add", "persist", "flush", "shutdown"}
    BY <2>1, TakeCases
  <2>3. \A d \in Calls : stage[d] # "resuming" /\ (stage[d] = "waiting" => Asked(d))
    BY <2>2, TaskMade DEF WaitersServed, Nobody, Calls
  <2>4. cmds' = Tail(cmds) =>
          \A d \in Calls : Asked(d) => Asked(d)' \/ (d = Head(cmds).call /\ Head(cmds).op # "add")
    BY <2>2, AskedTail DEF TypeOK
  <2>5. CASE TakenForWrite
    <3>1. /\ cmds' = Tail(cmds) /\ rec' = "live" /\ stage' = stage
          /\ task'.op = Head(cmds).op /\ task'.call = Head(cmds).call
      BY <2>2, <2>5 DEF TakenForWrite
    <3>2. QED
      BY <2>2, <2>3, <2>4, <3>1 DEF WaitersServed
  <2>6. CASE TakenIdle /\ Head(cmds).op = "shutdown"
    <3>1. \A d \in Calls : stage'[d] \notin {"waiting", "resuming"}
      BY <2>2, <2>3, <2>6, FinishStops DEF TakenIdle
    <3>2. QED
      BY <3>1 DEF WaitersServed
  <2>7. CASE TakenIdle /\ Head(cmds).op # "shutdown"
    <3>1. cmds' = Tail(cmds) /\ rec' = "live" /\ Finish(Head(cmds).op, Head(cmds).call, "ok")
      BY <2>2, <2>7, FinishAnswers DEF TakenIdle
    <3>2. /\ \A d \in Calls : stage'[d] \in {stage[d], "ok"}
          /\ Head(cmds).op # "add" => stage'[Head(cmds).call] \notin {"waiting", "resuming"}
      BY <2>2, <2>7, <3>1, FinishAnswers
    <3>3. QED
      BY <2>2, <2>3, <2>4, <3>1, <3>2 DEF WaitersServed
  <2>8. QED
    BY <2>1, <2>5, <2>6, <2>7, TakeCases
<1>8. ASSUME Open PROVE WaitersServed'
  <2>1. stage' = stage /\ sent' = sent /\ rec' = rec /\ cmds' = cmds
    BY <1>8 DEF Open, callVars
  <2>2. task'.op = task.op /\ task'.call = task.call
    BY <1>8, TaskMoved DEF Open, TypeOK
  <2>3. QED
    BY <2>1, <2>2 DEF WaitersServed, Asked
<1>9. ASSUME Unpack PROVE WaitersServed'
  <2>1. stage' = stage /\ sent' = sent /\ rec' = rec /\ cmds' = cmds
    BY <1>9 DEF Unpack, callVars
  <2>2. task'.op = task.op /\ task'.call = task.call
    BY <1>9, TaskMoved DEF Unpack, TypeOK
  <2>3. QED
    BY <2>1, <2>2 DEF WaitersServed, Asked
<1>10. ASSUME RemovePacked PROVE WaitersServed'
  <2>1. stage' = stage /\ sent' = sent /\ rec' = rec /\ cmds' = cmds
    BY <1>10 DEF RemovePacked, callVars
  <2>2. task'.op = task.op /\ task'.call = task.call
    BY <1>10, TaskMoved DEF RemovePacked, TypeOK
  <2>3. QED
    BY <2>1, <2>2 DEF WaitersServed, Asked
<1>11. ASSUME OpenFile PROVE WaitersServed'
  <2>1. OpenFile
    BY <1>11
  <2>2. task.call \in Calls /\ sent' = sent
    BY <2>1, OpenFileCases
  <2>3. CASE OpenedForWrite
    <3>1. task'.op = task.op /\ task'.call = task.call
      BY <2>3, TaskMoved DEF OpenedForWrite, TypeOK
    <3>2. stage' = stage /\ rec' = rec /\ cmds' = cmds
      BY <2>3 DEF OpenedForWrite
    <3>3. QED
      BY <2>2, <3>1, <3>2 DEF WaitersServed, Asked
  <2>4. CASE task.op = "resume" /\ (Finish("resume", task.call, "err") \/ Finish("resume", task.call, "ok"))
    <3>1. \A d \in Calls : stage[d] # "waiting"
      BY <2>4 DEF WaitersServed, Control
    <3>2. /\ \A d \in Calls : d # task.call => stage'[d] = stage[d]
          /\ stage'[task.call] \notin {"waiting", "resuming"}
      BY <2>2, <2>4, <3>1, FinishAnswers
    <3>3. \A d \in Calls : stage'[d] \notin {"waiting", "resuming"}
      BY <3>1, <3>2 DEF WaitersServed
    <3>4. QED
      BY <3>3 DEF WaitersServed
  <2>5. QED
    BY <2>1, <2>3, <2>4, OpenFileCases DEF ResumeRefused, Resumed
<1>12. ASSUME WriteItem PROVE WaitersServed'
  BY <1>12 DEF WriteItem, callVars, WaitersServed, Asked
<1>13. ASSUME WriteDone PROVE WaitersServed'
  <2>1. /\ task.call \in Calls /\ Finish(task.op, task.call, "ok") /\ sent' = sent /\ task.pc = "write"
    BY <1>13 DEF WriteDone, Control
  <2>2. rec = "live" /\ task.op # "resume" /\ \A d \in Calls : stage[d] # "resuming"
    BY <2>1 DEF Control, TypeOK, WaitersServed
  <2>3. CASE task.op = "shutdown"
    <3>1. \A d \in Calls : stage'[d] \notin {"waiting", "resuming"}
      BY <2>1, <2>2, <2>3, FinishStops
    <3>2. QED
      BY <3>1 DEF WaitersServed
  <2>4. CASE task.op # "shutdown"
    <3>1. cmds' = cmds /\ rec' = "live"
      BY <1>13, <2>1, <2>2, <2>4, FinishAnswers DEF WriteDone
    <3>2. /\ \A d \in Calls : stage'[d] \in {stage[d], "ok"}
          /\ task.op # "add" => stage'[task.call] \notin {"waiting", "resuming"}
      BY <2>1, <2>4, FinishAnswers
    <3>3. \A d \in Calls : stage[d] = "waiting" => Asked(d) \/ (task.call = d /\ task.op # "add")
      BY DEF WaitersServed
    <3>4. QED
      BY <2>2, <3>1, <3>2, <3>3 DEF WaitersServed, Asked
  <2>5. QED
    BY <2>3, <2>4
<1>14. ASSUME OpenFails PROVE WaitersServed'
  <2>1. AttemptFails /\ task.pc # "idle" /\ task.call \in Calls /\ sent' = sent
    BY <1>14 DEF OpenFails, Control
  <2>2. /\ cmds' = cmds
        /\ rec' = IF task.attempt # 1 /\ task.op = "resume" THEN "none" ELSE rec
        /\ \/ task' = Idle /\ task.attempt # 1
           \/ task.attempt = 1 /\ task'.pc = "start" /\ task'.op = task.op /\ task'.call = task.call
    BY <2>1, AttemptFailsCases
  <2>3. /\ \A d \in Calls : d # task.call => stage'[d] = stage[d]
        /\ task.attempt = 1 \/ task.op = "add" => stage'[task.call] = stage[task.call]
        /\ stage'[task.call] \in {stage[task.call], "err"}
        /\ task' = Idle /\ task.op # "add" => stage'[task.call] \notin {"waiting", "resuming"}
    BY <2>1, AttemptFailsCases
  <2>4. \A d \in Calls : stage[d] \in {"waiting", "resuming"} =>
           Asked(d)' \/ (task.call = d /\ task.op # "add")
    BY <2>2 DEF WaitersServed, Asked
  <2>5. CASE task' = Idle
    <3>1. task.op = "resume" => \A d \in Calls : stage[d] # "waiting" 
      BY DEF Control, WaitersServed
    <3>2. \A d \in Calls : stage'[d] # "resuming"
      BY <2>1, <2>3, <2>5 DEF WaitersServed
    <3>3. \A d \in Calls : stage'[d] = "waiting" => stage[d] = "waiting" /\ Asked(d)'
      BY <2>1, <2>3, <2>4, <2>5
    <3>4. rec' # "live" => \A d \in Calls : stage[d] # "waiting"
      BY <2>2, <3>1 DEF WaitersServed
    <3>5. QED
      BY <3>2, <3>3, <3>4 DEF WaitersServed
  <2>6. CASE task' # Idle
    BY <2>1, <2>2, <2>3, <2>4, <2>6 DEF WaitersServed
  <2>7. QED
    BY <2>5, <2>6
<1>15. ASSUME NEW part \in {"nothing", "torn", "whole"}, WriteFails(part) PROVE WaitersServed'
  <2>1. AttemptFails /\ task.pc # "idle" /\ task.call \in Calls /\ sent' = sent
    BY <1>15 DEF WriteFails, Control
  <2>2. /\ cmds' = cmds
        /\ rec' = IF task.attempt # 1 /\ task.op = "resume" THEN "none" ELSE rec
        /\ \/ task' = Idle /\ task.attempt # 1
           \/ task.attempt = 1 /\ task'.pc = "start" /\ task'.op = task.op /\ task'.call = task.call
    BY <2>1, AttemptFailsCases
  <2>3. /\ \A d \in Calls : d # task.call => stage'[d] = stage[d]
        /\ task.attempt = 1 \/ task.op = "add" => stage'[task.call] = stage[task.call]
        /\ stage'[task.call] \in {stage[task.call], "err"}
        /\ task' = Idle /\ task.op # "add" => stage'[task.call] \notin {"waiting", "resuming"}
    BY <2>1, AttemptFailsCases
  <2>4. \A d \in Calls : stage[d] \in {"waiting", "resuming"} =>
           Asked(d)' \/ (task.call = d /\ task.op # "add")
    BY <2>2 DEF WaitersServed, Asked
  <2>5. CASE task' = Idle
    <3>1. task.op = "resume" => \A d \in Calls : stage[d] # "waiting" 
      BY DEF Control, WaitersServed
    <3>2. \A d \in Calls : stage'[d] # "resuming"
      BY <2>1, <2>3, <2>5 DEF WaitersServed
    <3>3. \A d \in Calls : stage'[d] = "waiting" => stage[d] = "waiting" /\ Asked(d)'
      BY <2>1, <2>3, <2>4, <2>5
    <3>4. rec' # "live" => \A d \in Calls : stage[d] # "waiting"
      BY <2>2, <3>1 DEF WaitersServed
    <3>5. QED
      BY <3>2, <3>3, <3>4 DEF WaitersServed
  <2>6. CASE task' # Idle
    BY <2>1, <2>2, <2>3, <2>4, <2>6 DEF WaitersServed
  <2>7. QED
    BY <2>5, <2>6
<1>16. ASSUME NEW part \in {"nothing", "torn", "whole"}, Crash(part) PROVE WaitersServed'
  <2>1. \A d \in Calls : stage'[d] \notin {"waiting", "resuming"}
    BY <1>16 DEF Crash, Active
  <2>2. QED
    BY <2>1 DEF WaitersServed
<1>17. ASSUME WorkerDies PROVE WaitersServed'
  BY <1>17 DEF WorkerDies, WaitersServed, Asked, callVars
<1>18. ASSUME WorkerReads PROVE WaitersServed'
  BY <1>18 DEF WorkerReads, WaitersServed, Asked, callVars
<1>19. ASSUME WorkerPersists PROVE WaitersServed'
  BY <1>19 DEF WorkerPersists, WaitersServed, Asked, callVars
<1>20. ASSUME WorkerChecks PROVE WaitersServed'
  BY <1>20 DEF WorkerChecks, WaitersServed, Asked, callVars
<1>21. ASSUME WorkerRemoves PROVE WaitersServed'
  BY <1>21 DEF WorkerRemoves, WaitersServed, Asked, callVars
<1>22. ASSUME Ages PROVE WaitersServed'
  BY <1>22 DEF Ages, WaitersServed, Asked, callVars
<1>23. CASE UNCHANGED vars
  BY <1>23 DEF WaitersServed, Asked, vars
<1>24. QED
  BY <1>1, <1>2, <1>3, <1>4, <1>5, <1>6, <1>7, <1>8, <1>9, <1>10, <1>11, <1>12, <1>13, <1>14,
     <1>15, <1>16, <1>17, <1>18, <1>19, <1>20, <1>21, <1>22, <1>23 DEF Next, Store, Writer,
     Faults, Worker

LEMMA WaitersServedInit == Init => WaitersServed
  BY DEF Init, WaitersServed

\* A caller that waits has a command in the writer's hands, or in the queue of
\* a writer that runs, in every reachable state: a writer that stops takes its
\* queue with it and fails everyone in it.
THEOREM NobodyStranded == Spec => []NoneStranded
<1>1. Init => TypeOK /\ Control /\ BegunFirst /\ WaitersServed
  BY TypeInit, BegunFirstInit, WaitersServedInit
<1>2. TypeOK /\ Control /\ BegunFirst /\ WaitersServed /\ [Next]_vars
        => (TypeOK /\ Control /\ BegunFirst /\ WaitersServed)'
  BY TypeNext, ControlNext, BegunFirstNext, WaitersServedNext
<1>3. TypeOK /\ Control /\ WaitersServed => NoneStranded
  BY DEF NoneStranded, WaitersServed, Asked
<1>4. QED
  BY <1>1, <1>2, <1>3, PTL DEF Spec

-----------------------------------------------------------------------------
(* What a step does to the files.                                          *)

\* A record has been written, and the writer goes on to the next one.
Advances ==
  writer' = [deferred |-> writer.deferred, meta |-> FALSE,
             pending |-> IF writer.meta THEN writer.pending ELSE Tail(writer.pending),
             next |-> writer.next + 1]

\* A line is added to the plain file: the next record, whole and ended, or
\* what a failed write left of it.
Wrote(item) ==
  /\ handle = "plain" /\ plain \in File /\ plain' \in File /\ NewLine(item) \in Line
  /\ Owed /\ item \in {Torn, NextItem}
  /\ plain'.lines = Append(plain.lines, NewLine(item))
  /\ zst' = zst /\ worker' = worker /\ swept' = swept
  /\ cmds' \in {cmds, <<>>} /\ (rec' = "live" => rec = "live")
  /\ \/ item = NextItem /\ Advances /\ cmds' = cmds
     \/ writer' = writer /\ (item = NextItem /\ rec' = "live" => item \in leftWhole')

\* A recorder that is resumed goes on after the last record that parses.
ResumesAt(s) ==
  /\ ~writer'.meta /\ writer'.pending = <<>>
  /\ writer'.next = s[LastOf(s)].ord + 1 /\ 1 \in Parsed(s)

\* No line is written.  Unless the worker has met a recorder, what can be
\* loaded is what it was, and the writer has not moved.
Kept ==
  /\ LinesOf(plain') \in {LinesOf(plain), LinesOf(zst), <<>>}
  /\ LinesOf(zst') \in {LinesOf(zst), LinesOf(worker.snap), <<>>}
  /\ LinesOf(worker'.snap) \in {LinesOf(worker.snap), LinesOf(plain), <<>>}
  /\ swept => swept'
  /\ ~swept' =>
       /\ Log' = Log
       /\ \/ /\ writer'.meta = writer.meta /\ writer'.next = writer.next
             /\ rec' = "live" => rec = "live"
             /\ \/ writer'.pending = writer.pending
                \/ /\ cmds # <<>> /\ Head(cmds).op = "add"
                   /\ writer'.pending = Append(writer.pending, Head(cmds).call)
          \/ rec # "live" /\ Log = LinesOf(plain) /\ ResumesAt(LinesOf(plain))

FileStep == Kept \/ \E item \in Calls \cup {Meta, Torn} : Wrote(item)

LEMMA FileSteps ==
  ASSUME TypeOK, Control, FilesAgree, [Next]_vars
  PROVE  FileStep
<1>1. ASSUME NEW c \in Calls, AppendItems(c) PROVE FileStep
  <2>1. plain' = plain /\ zst' = zst /\ worker' = worker /\ swept' = swept /\ writer' = writer
    BY <1>1 DEF AppendItems, fileVars
  <2>2. rec' = "live" => rec = "live"
    BY <1>1 DEF AppendItems
  <2>3. QED
    BY <2>1, <2>2 DEF FileStep, Kept, Log, OnDisk
<1>2. ASSUME NEW c \in Calls, ThenFlush(c) PROVE FileStep
  <2>1. plain' = plain /\ zst' = zst /\ worker' = worker /\ swept' = swept /\ writer' = writer
    BY <1>2 DEF ThenFlush, fileVars
  <2>2. rec' = "live" => rec = "live"
    BY <1>2 DEF ThenFlush
  <2>3. QED
    BY <2>1, <2>2 DEF FileStep, Kept, Log, OnDisk
<1>3. ASSUME NEW c \in Calls, Resume(c) PROVE FileStep
  <2>1. plain' = plain /\ zst' = zst /\ worker' = worker /\ swept' = swept /\ writer' = writer
    BY <1>3 DEF Resume, fileVars
  <2>2. rec' = "live" => rec = "live"
    BY <1>3 DEF Resume
  <2>3. QED
    BY <2>1, <2>2 DEF FileStep, Kept, Log, OnDisk
<1>4. ASSUME NEW c \in Calls, Refused(c) PROVE FileStep
  <2>1. plain' = plain /\ zst' = zst /\ worker' = worker /\ swept' = swept /\ writer' = writer
    BY <1>4 DEF Refused, fileVars
  <2>2. rec' = "live" => rec = "live"
    BY <1>4 DEF Refused
  <2>3. QED
    BY <2>1, <2>2 DEF FileStep, Kept, Log, OnDisk
<1>5. ASSUME NEW c \in Calls, Cancel(c) PROVE FileStep
  <2>1. plain' = plain /\ zst' = zst /\ worker' = worker /\ swept' = swept /\ writer' = writer
    BY <1>5 DEF Cancel, fileVars
  <2>2. rec' = "live" => rec = "live"
    BY <1>5 DEF Cancel
  <2>3. QED
    BY <2>1, <2>2 DEF FileStep, Kept, Log, OnDisk
<1>6. ASSUME NEW c \in Calls, NEW o \in {"persist", "flush", "shutdown"}, Ask(c, o) PROVE FileStep
  <2>1. plain' = plain /\ zst' = zst /\ worker' = worker /\ swept' = swept /\ writer' = writer
    BY <1>6 DEF Ask, fileVars
  <2>2. rec' = "live" => rec = "live"
    BY <1>6 DEF Ask
  <2>3. QED
    BY <2>1, <2>2 DEF FileStep, Kept, Log, OnDisk
<1>7. ASSUME Take PROVE FileStep
  <2>1. Take
    BY <1>7
  <2>2. /\ plain' = plain /\ zst' = zst /\ worker' = worker /\ swept' = swept /\ rec = "live"
        /\ Head(cmds).call \in Calls
    BY <2>1, TakeCases
  <2>3. CASE Head(cmds).op = "add"
    <3>1. writer'.pending = Append(writer.pending, Head(cmds).call) /\ writer'.meta = writer.meta
          /\ writer'.next = writer.next /\ cmds # <<>>
      BY <2>1, <2>3, TakeCases, TakeQueues
    <3>2. QED
      BY <2>2, <2>3, <3>1 DEF FileStep, Kept, Log, OnDisk
  <2>4. CASE Head(cmds).op # "add"
    <3>1. writer' = writer
      BY <2>1, <2>4, TakeCases
    <3>2. QED
      BY <2>2, <3>1 DEF FileStep, Kept, Log, OnDisk
  <2>5. QED
    BY <2>3, <2>4
<1>8. ASSUME Open PROVE FileStep
  <2>1. plain' = plain /\ zst' = zst /\ worker' = worker /\ swept' = swept /\ writer' = writer
    BY <1>8 DEF Open, fileVars
  <2>2. rec' = "live" => rec = "live"
    BY <1>8 DEF Open
  <2>3. QED
    BY <2>1, <2>2 DEF FileStep, Kept, Log, OnDisk
<1>9. ASSUME Unpack PROVE FileStep
  <2>1. zst' = zst /\ worker' = worker /\ swept' = swept /\ writer' = writer /\ rec' = rec
    BY <1>9 DEF Unpack
  <2>2. plain' = IF plain = NoFile THEN zst ELSE plain
    BY <1>9 DEF Unpack
  <2>3. QED
    BY <2>1, <2>2 DEF FileStep, Kept, Log, OnDisk
<1>10. ASSUME RemovePacked PROVE FileStep
  <2>1. plain' = plain /\ worker' = worker /\ swept' = swept /\ writer' = writer /\ rec' = rec
    BY <1>10 DEF RemovePacked
  <2>2. zst' = NoFile /\ plain # NoFile
    BY <1>10, ConstantsAssumption DEF RemovePacked, FilesAgree
  <2>3. QED
    BY <2>1, <2>2 DEF FileStep, Kept, Log, OnDisk, LinesOf
<1>11. ASSUME OpenFile PROVE FileStep
  <2>1. OpenFile
    BY <1>11
  <2>2. /\ zst' = zst /\ worker' = worker /\ task.call \in Calls /\ task.pc \in {"open", "touch"}
        /\ Opened \in File /\ Opened # NoFile /\ Opened.lines = LinesOf(plain)
    BY <2>1, OpenFileCases, OpenedFacts, FileFacts DEF LinesOf
  <2>3. swept => swept'
    BY <2>1, OpenFileCases DEF OpenedForWrite, ResumeRefused, Resumed
  <2>4. CASE OpenedForWrite
    <3>1. plain' = Opened /\ rec' = rec /\ task.op # "resume"
      BY <2>4 DEF OpenedForWrite
    <3>2. /\ writer'.pending = writer.pending /\ writer'.meta = writer.meta
          /\ writer'.next = writer.next
      BY <2>4, WriterOpened DEF OpenedForWrite, TypeOK
    <3>3. ~swept' => Log' = Log
      <4>1. rec = "live"
        BY <2>2, <3>1 DEF Control, TypeOK
      <4>2. ~swept' /\ plain = NoFile => zst = NoFile
        BY <2>2, <2>3, <4>1 DEF FilesAgree
      <4>3. QED
        BY <2>2, <3>1, <4>2 DEF Log, OnDisk, LinesOf
    <3>4. QED
      BY <2>2, <2>3, <3>1, <3>2, <3>3 DEF FileStep, Kept, LinesOf
  <2>5. CASE ResumeRefused
    <3>1. rec' = "none" /\ writer' = writer
      BY <2>2, <2>5, FinishAnswers DEF ResumeRefused
    <3>2. CASE plain' = plain
      BY <2>2, <2>3, <3>1, <3>2 DEF FileStep, Kept, Log, OnDisk
    <3>3. CASE plain # NoFile /\ plain' = Opened
      BY <2>2, <2>3, <3>1, <3>3 DEF FileStep, Kept, Log, OnDisk, LinesOf
    <3>4. QED
      BY <2>5, <3>2, <3>3 DEF ResumeRefused
  <2>6. CASE Resumed
    <3>1. plain \in File /\ plain # NoFile /\ plain' = Opened /\ rec # "live"
      BY <2>6, FileFacts DEF Resumed, Control
    <3>2. /\ LinesOf(plain') = LinesOf(plain) /\ Log' = LinesOf(plain) /\ Log = LinesOf(plain)
      BY <2>2, <3>1 DEF LinesOf, Log, OnDisk
    <3>3. /\ ~writer'.meta /\ writer'.pending = <<>>
          /\ writer'.next = plain.lines[LastOf(plain.lines)].ord + 1 /\ 1 \in Parsed(plain.lines)
      BY <2>6 DEF Resumed
    <3>4. plain.lines = LinesOf(plain)
      BY <3>1 DEF LinesOf
    <3>5. ResumesAt(LinesOf(plain))
      BY <3>1, <3>3, <3>4 DEF ResumesAt
    <3>6. QED
      BY <2>2, <2>3, <3>1, <3>2, <3>5 DEF FileStep, Kept
  <2>7. QED
    BY <2>1, <2>4, <2>5, <2>6, OpenFileCases
<1>12. ASSUME WriteItem PROVE FileStep
  <2>1. Owed /\ Written(NextItem, TRUE) /\ task.pc = "write"
    BY <1>12 DEF WriteItem
  <2>2. NextItem \in Calls \cup {Meta, Torn}
    BY <2>1, NextItemType
  <2>3. zst' = zst /\ worker' = worker /\ swept' = swept /\ rec' = rec /\ cmds' = cmds /\ stage' = stage
    BY <1>12 DEF WriteItem, callVars
  <2>4. Advances
    BY <1>12 DEF WriteItem, Advances
  <2>5. CASE handle = "plain"
    <3>1. /\ plain \in File /\ NewLine(NextItem) \in Line /\ plain' \in File
          /\ plain' = [lines |-> Append(plain.lines, NewLine(NextItem)), ended |-> TRUE]
      BY <2>1, <2>2, <2>5, WrittenCases
    <3>2. plain'.lines = Append(plain.lines, NewLine(NextItem))
      BY <3>1
    <3>3. Wrote(NextItem)
      BY <2>1, <2>3, <2>4, <2>5, <3>1, <3>2 DEF Wrote
    <3>4. QED
      BY <2>2, <3>3 DEF FileStep
  <2>6. CASE handle # "plain"
    <3>1. plain' = plain
      BY <2>1, <2>2, <2>6, WrittenCases
    <3>2. swept
      BY <2>1, <2>6 DEF FilesAgree, Control, TypeOK
    <3>3. QED
      BY <2>3, <3>1, <3>2 DEF FileStep, Kept
  <2>7. QED
    BY <2>5, <2>6
<1>13. ASSUME WriteDone PROVE FileStep
  <2>1. plain' = plain /\ zst' = zst /\ worker' = worker /\ swept' = swept /\ writer' = writer
    BY <1>13 DEF WriteDone, fileVars
  <2>2. rec' = "live" => rec = "live"
    <3>1. task.pc = "write" /\ task.call \in Calls
      BY <1>13 DEF WriteDone, Control
    <3>2. QED
      BY <3>1 DEF Control, TypeOK
  <2>3. QED
    BY <2>1, <2>2 DEF FileStep, Kept, Log, OnDisk
<1>14. ASSUME OpenFails PROVE FileStep
  <2>1. plain' = plain /\ zst' = zst /\ worker' = worker /\ swept' = swept /\ writer' = writer
    BY <1>14 DEF OpenFails, fileVars
  <2>2. rec' = "live" => rec = "live"
    <3>1. AttemptFails /\ task.pc # "idle"
      BY <1>14 DEF OpenFails
    <3>2. QED
      BY <3>1, AttemptFailsCases
  <2>3. QED
    BY <2>1, <2>2 DEF FileStep, Kept, Log, OnDisk
<1>15. ASSUME NEW part \in {"nothing", "torn", "whole"}, WriteFails(part) PROVE FileStep
  <2>1. WrittenPart(part) /\ Owed /\ AttemptFails /\ task.pc # "idle" /\ Marked(part)
    BY <1>15 DEF WriteFails
  <2>2. /\ zst' = zst /\ worker' = worker /\ swept' = swept /\ writer' = writer
        /\ cmds' \in {cmds, <<>>} /\ (rec' = "live" => rec = "live")
    BY <1>15, <2>1, AttemptFailsCases DEF WriteFails
  <2>3. CASE plain' = plain
    BY <2>2, <2>3 DEF FileStep, Kept, Log, OnDisk
  <2>4. CASE plain' # plain
    <3>1. PICK item \in Calls \cup {Meta, Torn} :
              /\ handle = "plain" /\ plain \in File /\ NewLine(item) \in Line
              /\ Owed /\ item \in {Torn, NextItem} /\ plain' \in File
              /\ item = NextItem => part = "whole"
              /\ plain' = [lines |-> Append(plain.lines, NewLine(item)), ended |-> FALSE]
      BY <2>1, <2>4, WrittenPartCases
    <3>2. plain'.lines = Append(plain.lines, NewLine(item))
      BY <3>1
    <3>3. item = NextItem => item \in leftWhole'
      BY <2>1, <3>1 DEF Marked
    <3>4. Wrote(item)
      BY <2>2, <3>1, <3>2, <3>3 DEF Wrote
    <3>5. QED
      BY <3>4 DEF FileStep
  <2>5. QED
    BY <2>3, <2>4
<1>16. ASSUME NEW part \in {"nothing", "torn", "whole"}, Crash(part) PROVE FileStep
  <2>1. WrittenPart(part) /\ (part # "nothing" => Owed)
    BY <1>16 DEF Crash
  <2>2. /\ zst' = zst /\ worker' = worker /\ swept' = swept /\ writer' = writer
        /\ cmds' \in {cmds, <<>>} /\ rec' # "live"
    BY <1>16 DEF Crash
  <2>3. CASE plain' = plain
    BY <2>2, <2>3 DEF FileStep, Kept, Log, OnDisk
  <2>4. CASE plain' # plain
    <3>1. PICK item \in Calls \cup {Meta, Torn} :
              /\ handle = "plain" /\ plain \in File /\ NewLine(item) \in Line
              /\ Owed /\ item \in {Torn, NextItem} /\ plain' \in File
              /\ plain' = [lines |-> Append(plain.lines, NewLine(item)), ended |-> FALSE]
      BY <2>1, <2>4, WrittenPartCases
    <3>2. plain'.lines = Append(plain.lines, NewLine(item))
      BY <3>1
    <3>3. Wrote(item)
      BY <2>2, <3>1, <3>2 DEF Wrote
    <3>4. QED
      BY <3>3 DEF FileStep
  <2>5. QED
    BY <2>3, <2>4
<1>17. ASSUME WorkerDies PROVE FileStep
  <2>1. plain' = plain /\ zst' = zst /\ swept' = swept /\ writer' = writer /\ rec' = rec
    BY <1>17 DEF WorkerDies, fileVars
  <2>2. worker'.snap = NoFile
    BY <1>17 DEF WorkerDies, NoJob
  <2>3. QED
    BY <2>1, <2>2 DEF FileStep, Kept, Log, OnDisk, LinesOf
<1>18. ASSUME WorkerReads PROVE FileStep
  <2>1. plain' = plain /\ zst' = zst /\ swept' = swept /\ writer' = writer /\ rec' = rec
    BY <1>18 DEF WorkerReads, fileVars
  <2>2. worker'.snap = plain
    BY <1>18 DEF WorkerReads
  <2>3. QED
    BY <2>1, <2>2 DEF FileStep, Kept, Log, OnDisk, LinesOf
<1>19. ASSUME WorkerPersists PROVE FileStep
  <2>1. plain' = plain /\ swept' = swept /\ writer' = writer /\ rec' = rec
    BY <1>19 DEF WorkerPersists
  <2>2. plain # NoFile
    BY <1>19, ConstantsAssumption DEF WorkerPersists, FilesAgree
  <2>3. zst' \in {zst, worker.snap} /\ worker'.snap \in {worker.snap, NoFile}
    <3>1. worker \in Jobs
      BY DEF TypeOK
    <3>2. CASE worker' = NoJob /\ zst' = zst
      BY <3>2 DEF NoJob
    <3>3. CASE worker' = [worker EXCEPT !.pc = "check"] /\ zst' = worker.snap
      BY <3>1, <3>3, JobFacts
    <3>4. QED
      BY <1>19, <3>2, <3>3 DEF WorkerPersists
  <2>4. QED
    BY <2>1, <2>2, <2>3 DEF FileStep, Kept, Log, OnDisk, LinesOf
<1>20. ASSUME WorkerChecks PROVE FileStep
  <2>1. plain' = plain /\ (swept => swept') /\ writer' = writer /\ rec' = rec
    BY <1>20 DEF WorkerChecks
  <2>2. plain # NoFile
    BY <1>20, ConstantsAssumption DEF WorkerChecks, FilesAgree
  <2>3. zst' \in {zst, NoFile} /\ worker'.snap \in {worker.snap, NoFile}
    <3>1. worker \in Jobs
      BY DEF TypeOK
    <3>2. CASE worker' = NoJob /\ zst' = NoFile
      BY <3>2 DEF NoJob
    <3>3. CASE worker' = [worker EXCEPT !.pc = "remove"] /\ zst' = zst
      BY <3>1, <3>3, JobFacts
    <3>4. QED
      BY <1>20, <3>2, <3>3 DEF WorkerChecks
  <2>4. QED
    BY <2>1, <2>2, <2>3 DEF FileStep, Kept, Log, OnDisk, LinesOf
<1>21. ASSUME WorkerRemoves PROVE FileStep
  <2>1. /\ plain' = NoFile /\ zst' = zst /\ swept' = swept /\ writer' = writer /\ rec' = rec
        /\ worker' = NoJob
    BY <1>21 DEF WorkerRemoves
  <2>2. ~swept => plain = zst
    BY <1>21 DEF WorkerRemoves, FilesAgree
  <2>3. worker'.snap = NoFile
    BY <2>1 DEF NoJob
  <2>4. QED
    BY <2>1, <2>2, <2>3 DEF FileStep, Kept, Log, OnDisk, LinesOf
<1>22. ASSUME Ages PROVE FileStep
  <2>1. plain' = plain /\ zst' = zst /\ worker' = worker /\ swept' = swept /\ writer' = writer
    BY <1>22 DEF Ages
  <2>2. rec' = "live" => rec = "live"
    BY <1>22 DEF Ages
  <2>3. QED
    BY <2>1, <2>2 DEF FileStep, Kept, Log, OnDisk
<1>23. CASE UNCHANGED vars
  <2>1. plain' = plain /\ zst' = zst /\ worker' = worker /\ swept' = swept /\ writer' = writer
    BY <1>23 DEF vars
  <2>2. rec' = "live" => rec = "live"
    BY <1>23 DEF vars
  <2>3. QED
    BY <2>1, <2>2 DEF FileStep, Kept, Log, OnDisk

<1>24. QED
  BY <1>1, <1>2, <1>3, <1>4, <1>5, <1>6, <1>7, <1>8, <1>9, <1>10, <1>11, <1>12, <1>13, <1>14,
     <1>15, <1>16, <1>17, <1>18, <1>19, <1>20, <1>21, <1>22, <1>23 DEF Next, Store, Writer,
     Faults, Worker

-----------------------------------------------------------------------------
(* The order of the records.                                               *)

LEMMA ParsedAppend ==
  ASSUME NEW s \in Seq(Line), NEW l \in Line
  PROVE  /\ \A i \in Parsed(s) : i \in 1 .. Len(s) /\ Append(s, l)[i] = s[i]
         /\ Append(s, l)[Len(s) + 1] = l
         /\ l.item = Torn => Parsed(Append(s, l)) = Parsed(s)
         /\ l.item # Torn => Parsed(Append(s, l)) = Parsed(s) \cup {Len(s) + 1}
<1>1. /\ Len(s) \in Nat /\ Len(Append(s, l)) = Len(s) + 1 /\ Append(s, l)[Len(s) + 1] = l
      /\ \A i \in 1 .. Len(s) : Append(s, l)[i] = s[i]
  OBVIOUS
<1>2. QED
  BY <1>1 DEF Parsed

LEMMA SortedAppend ==
  ASSUME NEW s \in Seq(Line), NEW l \in Line, Sorted(s),
         l.item \in {Torn, Meta} \/ \A k \in Parsed(s) : s[k].item # Meta => s[k].item <= l.item
  PROVE  Sorted(Append(s, l))
<1>1. CASE l.item = Torn
  BY <1>1, ParsedAppend DEF Sorted
<1>2. CASE l.item # Torn
  <2>1. SUFFICES ASSUME NEW i \in Parsed(Append(s, l)), NEW j \in Parsed(Append(s, l)), i < j,
                        Append(s, l)[i].item # Meta, Append(s, l)[j].item # Meta
                 PROVE  Append(s, l)[i].item <= Append(s, l)[j].item
    BY DEF Sorted
  <2>2. i \in Parsed(s) /\ i \in 1 .. Len(s) /\ Append(s, l)[i] = s[i] /\ Len(s) \in Nat
    <3>1. \A k \in Parsed(s) : k <= Len(s)
      BY DEF Parsed
    <3>2. i # Len(s) + 1
      BY <1>2, <2>1, <3>1, ParsedAppend DEF Parsed
    <3>3. i \in Parsed(s)
      BY <1>2, <2>1, <3>2, ParsedAppend
    <3>4. QED
      BY <3>3, ParsedAppend
  <2>3. CASE j \in Parsed(s)
    BY <2>1, <2>2, <2>3, ParsedAppend DEF Sorted
  <2>4. CASE j = Len(s) + 1
    BY <1>2, <2>1, <2>2, <2>4, ParsedAppend
  <2>5. QED
    BY <1>2, <2>1, <2>3, <2>4, ParsedAppend
<1>3. QED
  BY <1>1, <1>2

LEMMA BehindAppend ==
  ASSUME NEW s \in Seq(Line), NEW l \in Line, NEW b, NEW p, NEW q, Behind(s, b, p, q),
         l.item \notin {Torn, Meta} =>
           /\ l.item \in b
           /\ \A i \in 1 .. Len(p) : l.item <= p[i] /\ (i > 1 => l.item < p[i])
           /\ \A j \in 1 .. Len(q) : q[j].op = "add" => l.item < q[j].call
  PROVE  Behind(Append(s, l), b, p, q)
<1> SUFFICES ASSUME NEW k \in Parsed(Append(s, l)), Append(s, l)[k].item # Meta
             PROVE  /\ Append(s, l)[k].item \in b
                    /\ \A i \in 1 .. Len(p) : Append(s, l)[k].item <= p[i]
                                              /\ (i > 1 => Append(s, l)[k].item < p[i])
                    /\ \A j \in 1 .. Len(q) : q[j].op = "add" => Append(s, l)[k].item < q[j].call
  BY DEF Behind
<1>1. CASE k \in Parsed(s)
  <2>1. Append(s, l)[k] = s[k]
    BY <1>1, ParsedAppend
  <2>2. QED
    BY <1>1, <2>1 DEF Behind
<1>2. CASE k \notin Parsed(s)
  <2>1. l.item # Torn /\ k = Len(s) + 1 /\ Append(s, l)[k] = l
    BY <1>2, ParsedAppend
  <2>2. QED
    BY <2>1
<1>3. QED
  BY <1>1, <1>2

LEMMA EmptyInOrder == \A b, p, q : Sorted(<<>>) /\ Behind(<<>>, b, p, q)
<1>1. Parsed(<<>>) = {}
  BY DEF Parsed
<1>2. QED
  BY <1>1 DEF Sorted, Behind

LEMMA LinesType ==
  ASSUME TypeOK
  PROVE  /\ LinesOf(plain) \in Seq(Line) /\ LinesOf(zst) \in Seq(Line)
         /\ LinesOf(worker.snap) \in Seq(Line)
<1>1. ASSUME NEW f \in Files PROVE LinesOf(f) \in Seq(Line)
  <2>1. CASE f = NoFile
    <3>1. LinesOf(f) = <<>>
      BY <2>1 DEF LinesOf
    <3>2. QED
      BY <3>1
  <2>2. CASE f # NoFile
    BY <2>2, FileFacts DEF Files, LinesOf
  <2>3. QED
    BY <2>1, <2>2
<1>2. worker.snap \in Files
  BY DEF TypeOK, Jobs
<1>3. QED
  BY <1>1, <1>2 DEF TypeOK

\* What a step does to the queue leaves a file that was behind it behind.
LEMMA StaysBehind ==
  ASSUME TypeOK, Control, BegunFirst, QueueSorted, [Next]_vars,
         NEW s \in Seq(Line), Behind(s, Begun, writer.pending, cmds)
  PROVE  Behind(s, Begun', writer'.pending, cmds')
<1>0. QueueStep /\ cmds \in Seq(Cmd) /\ writer.pending \in Seq(Calls) /\ sent \subseteq Calls
  BY QueueSteps DEF TypeOK, Writers
<1>g. task.call \in Calls \cup {Nobody}
  BY DEF TypeOK, Tasks
<1>a. \A i \in 1 .. Len(cmds) : cmds[i].call \in Calls
  BY DEF BegunFirst, Begun
<1>b. \A c \in Calls : c \in Int
  BY DEF Calls
<1>1. ASSUME NEW c \in Calls, Adds(c) PROVE Behind(s, Begun', writer'.pending, cmds')
  <2>1. Begun' = Begun \cup {c} /\ writer'.pending = writer.pending /\ \A d \in Begun : d < c
    BY <1>1, BegunGrows DEF Adds
  <2>2. /\ Len(cmds') = Len(cmds) + 1 /\ Len(cmds) \in Nat
        /\ \A i \in 1 .. Len(cmds) : cmds'[i] = cmds[i]
        /\ cmds'[Len(cmds) + 1] = [op |-> "add", call |-> c]
    BY <1>1, <1>0 DEF Adds
  <2>3. ASSUME NEW i \in Parsed(s), s[i].item # Meta, NEW j \in 1 .. Len(cmds'), cmds'[j].op = "add"
        PROVE  s[i].item < cmds'[j].call
    BY <2>1, <2>2, <2>3 DEF Behind
  <2>4. QED
    BY <2>1, <2>3 DEF Behind
<1>2. ASSUME NEW c \in Calls, Only(c) PROVE Behind(s, Begun', writer'.pending, cmds')
  <2>1. Begun' = Begun \cup {c} /\ writer'.pending = writer.pending /\ cmds' = cmds
    BY <1>2, BegunGrows DEF Only
  <2>2. QED
    BY <2>1 DEF Behind
<1>3. ASSUME NEW c \in Calls, NEW o \in {"persist", "flush", "shutdown"}, Asks(c, o)
      PROVE  Behind(s, Begun', writer'.pending, cmds')
  <2>1. Begun \subseteq Begun' /\ writer'.pending = writer.pending
    BY <1>3, BegunGrows DEF Asks
  <2>2. /\ Len(cmds') = Len(cmds) + 1 /\ Len(cmds) \in Nat
        /\ \A i \in 1 .. Len(cmds) : cmds'[i] = cmds[i]
        /\ cmds'[Len(cmds) + 1] = [op |-> o, call |-> c]
    BY <1>3, <1>0 DEF Asks
  <2>3. ASSUME NEW i \in Parsed(s), s[i].item # Meta, NEW j \in 1 .. Len(cmds'), cmds'[j].op = "add"
        PROVE  s[i].item < cmds'[j].call
    <3>1. j \in 1 .. Len(cmds)
      BY <2>2, <2>3
    <3>2. QED
      BY <2>2, <2>3, <3>1 DEF Behind
  <2>4. QED
    BY <2>1, <2>3 DEF Behind
<1>4. ASSUME Takes PROVE Behind(s, Begun', writer'.pending, cmds')
  <2>1. Begun' = Begun
    BY <1>4, BegunGrows DEF Takes
  <2>2. Len(cmds') = Len(cmds) - 1 /\ \A i \in 1 .. Len(cmds') : cmds'[i] = cmds[i + 1]
    BY <1>4, <1>0 DEF Takes
  <2>3. Len(cmds) \in Nat \ {0} /\ Head(cmds) = cmds[1]
    BY <1>4, <1>0 DEF Takes
  <2>4. ASSUME NEW i \in Parsed(s), s[i].item # Meta, NEW j \in 1 .. Len(cmds'), cmds'[j].op = "add"
        PROVE  s[i].item < cmds'[j].call
    BY <2>2, <2>3, <2>4 DEF Behind
  <2>5. ASSUME NEW i \in Parsed(s), s[i].item # Meta, NEW j \in 1 .. Len(writer'.pending)
        PROVE  s[i].item <= writer'.pending[j] /\ (j > 1 => s[i].item < writer'.pending[j])
    <3>1. CASE writer'.pending = writer.pending
      BY <2>5, <3>1 DEF Behind
    <3>2. CASE Head(cmds).op = "add" /\ writer'.pending = Append(writer.pending, Head(cmds).call)
      <4>1. /\ Len(writer'.pending) = Len(writer.pending) + 1 /\ Len(writer.pending) \in Nat
            /\ \A l \in 1 .. Len(writer.pending) : writer'.pending[l] = writer.pending[l]
            /\ writer'.pending[Len(writer.pending) + 1] = Head(cmds).call
        BY <1>0, <3>2
      <4>2. s[i].item < Head(cmds).call
        BY <2>3, <2>5, <3>2 DEF Behind
      <4>3. CASE j \in 1 .. Len(writer.pending)
        BY <2>5, <4>1, <4>3 DEF Behind
      <4>4. CASE j = Len(writer.pending) + 1
        <5>1. s[i].item \in Int /\ Head(cmds).call \in Int
          BY <1>a, <2>3, <2>5 DEF Behind, Begun, Calls
        <5>2. QED
          BY <4>1, <4>2, <4>4, <5>1
      <4>5. QED
        BY <4>1, <4>3, <4>4
    <3>3. QED
      BY <1>4, <3>1, <3>2 DEF Takes
  <2>6. QED
    BY <2>1, <2>4, <2>5 DEF Behind
<1>5. ASSUME Drops PROVE Behind(s, Begun', writer'.pending, cmds')
  <2>1. Begun' = Begun /\ cmds' = cmds
    BY <1>5, BegunGrows DEF Drops
  <2>2. /\ Len(writer'.pending) = Len(writer.pending) - 1 /\ Len(writer.pending) \in Nat
        /\ \A l \in 1 .. Len(writer'.pending) : writer'.pending[l] = writer.pending[l + 1]
    BY <1>5, <1>0 DEF Drops
  <2>3. ASSUME NEW i \in Parsed(s), s[i].item # Meta, NEW j \in 1 .. Len(writer'.pending)
        PROVE  s[i].item <= writer'.pending[j] /\ (j > 1 => s[i].item < writer'.pending[j])
    <3>0. j + 1 \in 1 .. Len(writer.pending) /\ j + 1 > 1 /\ writer'.pending[j] = writer.pending[j + 1]
      BY <2>2, <2>3
    <3>1. s[i].item < writer.pending[j + 1] /\ s[i].item \in Begun
      BY <2>3, <3>0 DEF Behind
    <3>2. writer.pending[j + 1] \in Calls
      BY <1>0, <3>0, ElementOfSeq
    <3>3. s[i].item \in Int /\ writer.pending[j + 1] \in Int
      BY <3>1, <3>2 DEF Begun, Calls
    <3>4. QED
      BY <3>0, <3>1, <3>3
  <2>4. QED
    BY <2>1, <2>3 DEF Behind
<1>6. ASSUME Clears PROVE Behind(s, Begun', writer'.pending, cmds')
  <2>1. Begun' = Begun /\ Len(cmds') = 0 /\ writer'.pending \in {writer.pending, <<>>}
    BY <1>6, BegunGrows DEF Clears
  <2>2. CASE writer'.pending = writer.pending
    BY <2>1, <2>2 DEF Behind
  <2>3. CASE writer'.pending = <<>>
    BY <2>1, <2>3 DEF Behind
  <2>4. QED
    BY <2>1, <2>2, <2>3
<1>7. ASSUME Stays PROVE Behind(s, Begun', writer'.pending, cmds')
  <2>1. Begun' = Begun /\ cmds' = cmds /\ writer'.pending = writer.pending
    BY <1>7, BegunGrows DEF Stays
  <2>2. QED
    BY <2>1 DEF Behind
<1>8. QED
  BY <1>0, <1>1, <1>2, <1>3, <1>4, <1>5, <1>6, <1>7 DEF QueueStep

LEMMA FilesInOrderNext ==
  ASSUME TypeOK, Control, FilesAgree, BegunFirst, QueueSorted, FilesInOrder, [Next]_vars
  PROVE  FilesInOrder'
<1>1. /\ LinesOf(plain) \in Seq(Line) /\ LinesOf(zst) \in Seq(Line)
      /\ LinesOf(worker.snap) \in Seq(Line)
  BY LinesType
<1>b. Begun \subseteq Begun'
  BY QueueSteps, BegunGrows DEF QueueStep, Adds, Asks, Only, Takes, Drops, Clears, Stays
<1> DEFINE Good(s) == Sorted(s) /\ Behind(s, Begun', writer'.pending, cmds')
<1>2. Good(LinesOf(plain)) /\ Good(LinesOf(zst)) /\ Good(LinesOf(worker.snap)) /\ Good(<<>>)
  <2>1. Good(LinesOf(plain))
    BY <1>1, StaysBehind DEF FilesInOrder, InOrder
  <2>2. Good(LinesOf(zst))
    BY <1>1, StaysBehind DEF FilesInOrder, InOrder
  <2>3. Good(LinesOf(worker.snap))
    BY <1>1, StaysBehind DEF FilesInOrder, InOrder
  <2>4. Good(<<>>)
    BY EmptyInOrder
  <2>5. QED
    BY <2>1, <2>2, <2>3, <2>4
<1>3. SUFFICES Good(LinesOf(plain')) /\ Good(LinesOf(zst')) /\ Good(LinesOf(worker'.snap))
  BY DEF FilesInOrder, InOrder
<1>4. CASE Kept
  <2> HIDE DEF Good
  <2>1. QED
    BY <1>2, <1>4 DEF Kept
<1>5. ASSUME NEW item \in Calls \cup {Meta, Torn}, Wrote(item)
      PROVE  Good(LinesOf(plain')) /\ Good(LinesOf(zst')) /\ Good(LinesOf(worker'.snap))
  <2>1. /\ LinesOf(plain') = Append(LinesOf(plain), NewLine(item)) /\ NewLine(item) \in Line
        /\ zst' = zst /\ worker' = worker /\ Owed
    BY <1>5, FileFacts DEF Wrote, LinesOf
  <2>2. writer.meta \in BOOLEAN /\ writer.pending \in Seq(Calls)
    BY DEF TypeOK, Writers
  <2>3. NewLine(item).item = item
    BY DEF NewLine, TornLine
  <2>4. CASE item \in {Torn, Meta}
    <3>1. Sorted(LinesOf(plain'))
      BY <1>1, <1>2, <2>1, <2>3, <2>4, SortedAppend
    <3>2. Behind(LinesOf(plain'), Begun', writer'.pending, cmds')
      BY <1>1, <1>2, <2>1, <2>3, <2>4, BehindAppend
    <3>3. QED
      BY <1>2, <2>1, <3>1, <3>2
  <2>5. CASE item \notin {Torn, Meta}
    <3>1. ~writer.meta /\ writer.pending # <<>> /\ item = Head(writer.pending) /\ item = writer.pending[1]
      BY <1>5, <2>1, <2>2, <2>5, NextItemType DEF Wrote
    <3>2. 1 \in 1 .. Len(writer.pending) /\ Len(writer.pending) \in Nat
      BY <2>2, <3>1
    <3>3. \A i \in Parsed(LinesOf(plain)) : LinesOf(plain)[i].item # Meta => LinesOf(plain)[i].item <= item
      BY <3>1, <3>2 DEF FilesInOrder, InOrder, Behind
    <3>4. Sorted(LinesOf(plain'))
      BY <1>1, <1>2, <2>1, <2>3, <3>3, SortedAppend
    <3>5. item \in Begun'
      BY <3>1, <3>2, <1>b DEF BegunFirst
    <3>6. \A j \in 1 .. Len(cmds') : cmds'[j].op = "add" => item < cmds'[j].call
      <4>1. cmds' \in {cmds, <<>>}
        BY <1>5 DEF Wrote
      <4>2. QED
        BY <3>1, <3>2, <4>1 DEF QueueSorted
    <3>7. \A i \in 1 .. Len(writer'.pending) : item <= writer'.pending[i] /\ (i > 1 => item < writer'.pending[i])
      <4>1. \A i \in 1 .. Len(writer.pending) : i > 1 => item < writer.pending[i]
        BY <3>1, <3>2 DEF QueueSorted
      <4>2. \A i \in 1 .. Len(writer.pending) : writer.pending[i] \in Int
        <5>1. \A i \in 1 .. Len(writer.pending) : writer.pending[i] \in Calls
          BY <2>2, ElementOfSeq
        <5>2. QED
          BY <5>1 DEF Calls
      <4>3. CASE writer' = writer
        BY <3>1, <3>2, <4>1, <4>2, <4>3
      <4>4. CASE Advances
        <5>1. writer'.pending = Tail(writer.pending)
          BY <3>1, <4>4 DEF Advances
        <5>2. /\ Len(writer'.pending) = Len(writer.pending) - 1
              /\ \A i \in 1 .. Len(writer'.pending) : writer'.pending[i] = writer.pending[i + 1]
          BY <2>2, <3>1, <5>1
        <5>3. \A i \in 1 .. Len(writer'.pending) : i + 1 \in 1 .. Len(writer.pending) /\ i + 1 > 1
          BY <3>2, <5>2
        <5>4. QED
          BY <3>1, <3>2, <4>1, <4>2, <5>2, <5>3
      <4>5. QED
        BY <1>5, <4>3, <4>4 DEF Wrote
    <3>8. Behind(LinesOf(plain'), Begun', writer'.pending, cmds')
      BY <1>1, <1>2, <2>1, <2>3, <3>5, <3>6, <3>7, BehindAppend
    <3>9. QED
      BY <1>2, <2>1, <3>4, <3>8
  <2>6. QED
    BY <2>4, <2>5
<1>6. QED
  BY <1>4, <1>5, FileSteps DEF FileStep

LEMMA FilesInOrderInit == Init => FilesInOrder
  BY EmptyInOrder DEF Init, FilesInOrder, InOrder, LinesOf, NoJob

\* The items of the log are in the order in which they were queued, whatever
\* was retried, cancelled, resumed or compressed, and even after the worker
\* has removed the file under a recorder.
THEOREM SentOrderKept == Spec => []InSentOrder
<1> DEFINE IInv == TypeOK /\ Control /\ FilesAgree /\ BegunFirst /\ QueueSorted /\ FilesInOrder
<1>1. Init => IInv
  BY TypeInit, FilesAgreeInit, BegunFirstInit, QueueSortedInit, FilesInOrderInit
<1>2. IInv /\ [Next]_vars => IInv'
  BY TypeNext, ControlNext, FilesAgreeNext, BegunFirstNext, QueueSortedNext, FilesInOrderNext
<1>3. IInv => InSentOrder
  BY DEF FilesInOrder, InOrder, InSentOrder, Log, OnDisk, LinesOf
<1>4. QED
  BY <1>1, <1>2, <1>3, PTL DEF Spec

-----------------------------------------------------------------------------
(* The thread's lock.                                                      *)

\* The end of a command makes nobody hold the lock, and leaves no resume.
LEMMA FinishHolds ==
  ASSUME TypeOK, NEW o, NEW c \in Calls, NEW r \in {"ok", "err"}, Finish(o, c, r)
  PROVE  /\ \A d \in Calls : stage'[d] \in Active => stage[d] \in Active
         /\ rec' = "opening" => rec = "opening" /\ o # "resume"
<1>1. CASE o = "shutdown" /\ r = "ok"
  BY <1>1, FinishStops DEF Active
<1>2. CASE o # "shutdown" \/ r # "ok"
  <2>1. /\ \A d \in Calls : d # c => stage'[d] = stage[d]
        /\ stage'[c] \in {stage[c], r}
    BY <1>2, FinishAnswers
  <2>2. rec' = IF o = "resume" THEN (IF r = "ok" THEN "live" ELSE "none") ELSE rec
    BY <1>2, FinishAnswers
  <2>3. QED
    BY <2>1, <2>2 DEF Active
<1>3. QED
  BY <1>1, <1>2

LEMMA OneHolderNext ==
  ASSUME TypeOK, Control, OneHolder, [Next]_vars
  PROVE  OneHolder'
<1>1. ASSUME NEW c \in Calls, AppendItems(c) PROVE OneHolder'
  <2>1. ~Held /\ rec' = rec /\ task' = task /\ \A d \in Calls : d # c => stage'[d] = stage[d]
    BY <1>1 DEF AppendItems, Begin, TypeOK
  <2>2. rec # "opening"
    BY <2>1, TaskMade DEF OneHolder, Control, Held, Active
  <2>3. QED
    BY <2>1, <2>2 DEF OneHolder, Held
<1>2. ASSUME NEW c \in Calls, ThenFlush(c) PROVE OneHolder'
  <2>1. /\ stage[c] = "queueing" /\ rec' = rec /\ task' = task
        /\ \A d \in Calls : d # c => stage'[d] = stage[d]
    BY <1>2 DEF ThenFlush, TypeOK
  <2>2. rec = "opening" => task.call # c /\ task.call \in Calls
    BY <2>1, TaskMade DEF OneHolder, Control
  <2>3. stage[c] \in Active
    BY <2>1 DEF Active
  <2>4. QED
    BY <2>1, <2>2, <2>3 DEF OneHolder
<1>3. ASSUME NEW c \in Calls, Resume(c) PROVE OneHolder'
  <2>1. /\ ~Held /\ task'.call = c /\ stage'[c] = "resuming"
        /\ \A d \in Calls : d # c => stage'[d] = stage[d]
    BY <1>3 DEF Resume, Begin, TypeOK
  <2>2. QED
    BY <2>1 DEF OneHolder, Held
<1>4. ASSUME NEW c \in Calls, Refused(c) PROVE OneHolder'
  <2>1. ~Held /\ rec' = rec /\ task' = task /\ \A d \in Calls : d # c => stage'[d] = stage[d]
    BY <1>4 DEF Refused, Begin, TypeOK
  <2>2. rec # "opening"
    BY <2>1, TaskMade DEF OneHolder, Control, Held, Active
  <2>3. QED
    BY <2>1, <2>2 DEF OneHolder, Held
<1>5. ASSUME NEW c \in Calls, Cancel(c) PROVE OneHolder'
  <2>1. /\ stage[c] \in {"queueing", "waiting"} /\ rec' = rec /\ task' = task
        /\ \A d \in Calls : d # c => stage'[d] = stage[d]
    BY <1>5 DEF Cancel, TypeOK
  <2>2. rec = "opening" => task.call # c /\ task.call \in Calls
    BY <2>1, TaskMade DEF OneHolder, Control
  <2>3. stage[c] \in Active
    BY <2>1 DEF Active
  <2>4. QED
    BY <2>1, <2>2, <2>3 DEF OneHolder
<1>6. ASSUME NEW c \in Calls, NEW o \in {"persist", "flush", "shutdown"}, Ask(c, o) PROVE OneHolder'
  <2>1. ~Held /\ rec' = rec /\ task' = task /\ \A d \in Calls : d # c => stage'[d] = stage[d]
    BY <1>6 DEF Ask, Begin, TypeOK
  <2>2. rec # "opening"
    BY <2>1, TaskMade DEF OneHolder, Control, Held, Active
  <2>3. QED
    BY <2>1, <2>2 DEF OneHolder, Held
<1>7. ASSUME Take PROVE OneHolder'
  <2>1. Take
    BY <1>7
  <2>2. rec = "live" /\ (TakenIdle \/ TakenForWrite)
    BY <2>1, TakeCases
  <2>3. CASE TakenForWrite
    BY <2>2, <2>3 DEF TakenForWrite, OneHolder
  <2>4. CASE TakenIdle
    <3>1. Finish(Head(cmds).op, Head(cmds).call, "ok") /\ Head(cmds).call \in Calls
      BY <2>1, <2>4, TakeCases DEF TakenIdle
    <3>2. QED
      BY <2>2, <3>1, FinishHolds DEF OneHolder
  <2>5. QED
    BY <2>2, <2>3, <2>4
<1>8. ASSUME Open PROVE OneHolder'
  <2>1. stage' = stage /\ rec' = rec
    BY <1>8 DEF Open, callVars
  <2>2. task'.call = task.call
    BY <1>8, TaskMoved DEF Open, TypeOK
  <2>3. QED
    BY <2>1, <2>2 DEF OneHolder
<1>9. ASSUME Unpack PROVE OneHolder'
  <2>1. stage' = stage /\ rec' = rec
    BY <1>9 DEF Unpack, callVars
  <2>2. task'.call = task.call
    BY <1>9, TaskMoved DEF Unpack, TypeOK
  <2>3. QED
    BY <2>1, <2>2 DEF OneHolder
<1>10. ASSUME RemovePacked PROVE OneHolder'
  <2>1. stage' = stage /\ rec' = rec
    BY <1>10 DEF RemovePacked, callVars
  <2>2. task'.call = task.call
    BY <1>10, TaskMoved DEF RemovePacked, TypeOK
  <2>3. QED
    BY <2>1, <2>2 DEF OneHolder
<1>11. ASSUME OpenFile PROVE OneHolder'
  <2>1. OpenFile
    BY <1>11
  <2>2. task.call \in Calls
    BY <2>1, OpenFileCases
  <2>3. CASE OpenedForWrite
    <3>1. stage' = stage /\ rec' = rec /\ rec # "opening"
      BY <2>3 DEF OpenedForWrite, Control
    <3>2. QED
      BY <3>1 DEF OneHolder
  <2>4. CASE Finish("resume", task.call, "err") \/ Finish("resume", task.call, "ok")
    BY <2>2, <2>4, FinishHolds DEF OneHolder
  <2>5. QED
    BY <2>1, <2>3, <2>4, OpenFileCases DEF ResumeRefused, Resumed
<1>12. ASSUME WriteItem PROVE OneHolder'
  BY <1>12 DEF WriteItem, callVars, OneHolder
<1>13. ASSUME WriteDone PROVE OneHolder'
  <2>1. /\ task.call \in Calls /\ Finish(task.op, task.call, "ok")
        /\ task.op = "resume" <=> rec = "opening"
    BY <1>13 DEF WriteDone, Control
  <2>2. QED
    BY <2>1, FinishHolds DEF OneHolder
<1>14. ASSUME OpenFails PROVE OneHolder'
  <2>1. AttemptFails /\ task.pc # "idle" /\ task.call \in Calls
    BY <1>14 DEF OpenFails, Control
  <2>2. CASE task.attempt = 1
    <3>1. stage' = stage /\ rec' = rec /\ task'.call = task.call
      BY <2>1, <2>2 DEF AttemptFails
    <3>2. QED
      BY <3>1 DEF OneHolder
  <2>3. CASE task.attempt # 1
    <3>1. Finish(task.op, task.call, "err") /\ (task.op = "resume" <=> rec = "opening")
      BY <2>1, <2>3 DEF AttemptFails, Control
    <3>2. QED
      BY <2>1, <3>1, FinishHolds DEF OneHolder
  <2>4. QED
    BY <2>2, <2>3
<1>15. ASSUME NEW part \in {"nothing", "torn", "whole"}, WriteFails(part) PROVE OneHolder'
  <2>1. AttemptFails /\ task.pc # "idle" /\ task.call \in Calls
    BY <1>15 DEF WriteFails, Control
  <2>2. CASE task.attempt = 1
    <3>1. stage' = stage /\ rec' = rec /\ task'.call = task.call
      BY <2>1, <2>2 DEF AttemptFails
    <3>2. QED
      BY <3>1 DEF OneHolder
  <2>3. CASE task.attempt # 1
    <3>1. Finish(task.op, task.call, "err") /\ (task.op = "resume" <=> rec = "opening")
      BY <2>1, <2>3 DEF AttemptFails, Control
    <3>2. QED
      BY <2>1, <3>1, FinishHolds DEF OneHolder
  <2>4. QED
    BY <2>2, <2>3
<1>16. ASSUME NEW part \in {"nothing", "torn", "whole"}, Crash(part) PROVE OneHolder'
  <2>1. rec' = "none" /\ \A d \in Calls : stage'[d] \notin Active
    BY <1>16 DEF Crash, Active
  <2>2. QED
    BY <2>1 DEF OneHolder
<1>17. ASSUME WorkerDies PROVE OneHolder'
  BY <1>17 DEF WorkerDies, OneHolder, callVars
<1>18. ASSUME WorkerReads PROVE OneHolder'
  BY <1>18 DEF WorkerReads, OneHolder, callVars
<1>19. ASSUME WorkerPersists PROVE OneHolder'
  BY <1>19 DEF WorkerPersists, OneHolder, callVars
<1>20. ASSUME WorkerChecks PROVE OneHolder'
  BY <1>20 DEF WorkerChecks, OneHolder, callVars
<1>21. ASSUME WorkerRemoves PROVE OneHolder'
  BY <1>21 DEF WorkerRemoves, OneHolder, callVars
<1>22. ASSUME Ages PROVE OneHolder'
  BY <1>22 DEF Ages, OneHolder, callVars
<1>23. CASE UNCHANGED vars
  BY <1>23 DEF OneHolder, vars
<1>24. QED
  BY <1>1, <1>2, <1>3, <1>4, <1>5, <1>6, <1>7, <1>8, <1>9, <1>10, <1>11, <1>12, <1>13, <1>14,
     <1>15, <1>16, <1>17, <1>18, <1>19, <1>20, <1>21, <1>22, <1>23 DEF Next, Store, Writer,
     Faults, Worker

LEMMA OneHolderInit == Init => OneHolder
  BY DEF Init, OneHolder, Active

-----------------------------------------------------------------------------
(* What has been acknowledged can be loaded.                               *)

\* A step that answers an append with Ok finds nothing pending and its item
\* no longer in the queue; and a caller that still waits after a step has
\* waited before it, for the same recorder, or has just queued its item.
Answers(c) ==
  c \in sent' =>
    /\ stage'[c] = "ok" =>
         /\ c \in sent
         /\ stage[c] # "ok" =>
              stage[c] = "waiting" /\ rec = "live" /\ writer.pending = <<>> /\ ~Queued(c)
    /\ rec' = "live" /\ stage'[c] \in {"queueing", "waiting"} =>
         \/ Queued(c)'
         \/ c \in sent /\ rec = "live" /\ stage[c] \in {"queueing", "waiting"}

LEMMA FinishOk ==
  ASSUME TypeOK, WaitersServed, rec = "live", NEW o, NEW c \in Calls, Finish(o, c, "ok"), sent' = sent,
         o # "add" => writer.pending = <<>> /\ ~Queued(c)
  PROVE  \A d \in Calls : Answers(d)
<1>1. CASE o = "shutdown"
  <2>1. rec' # "live"
    BY <1>1, FinishStops
  <2>2. \A d \in Calls : stage'[d] = stage[d] \/ (stage[d] = "waiting" /\ stage'[d] = IF d = c THEN "ok" ELSE "err")
    BY <1>1, FinishStops
  <2>3. QED
    BY <1>1, <2>1, <2>2 DEF Answers
<1>2. CASE o # "shutdown"
  <2>1. \A d \in Calls : d # c => stage'[d] = stage[d]
    BY <1>2, FinishAnswers
  <2>2. stage'[c] = stage[c] \/ (o # "add" /\ stage[c] \in {"waiting", "resuming"} /\ stage'[c] = "ok")
    BY <1>2, FinishAnswers
  <2>3. c \in sent => stage[c] # "resuming"
    BY DEF WaitersServed
  <2>4. QED
    BY <2>1, <2>2, <2>3 DEF Answers
<1>3. QED
  BY <1>1, <1>2

LEMMA AnswerSteps ==
  ASSUME TypeOK, Control, BegunFirst, QueueSorted, WaitersServed, OneHolder, [Next]_vars
  PROVE  \A d \in Calls : Answers(d)
<1>1. ASSUME NEW c \in Calls, AppendItems(c) PROVE \A d \in Calls : Answers(d)
  <2>1. /\ sent' = sent \cup {c} /\ stage'[c] = "queueing" /\ rec' = rec /\ rec = "live"
        /\ \A d \in Calls : d # c => stage'[d] = stage[d]
    BY <1>1 DEF AppendItems, Begin, TypeOK
  <2>2. Len(cmds) + 1 \in 1 .. Len(cmds') /\ cmds'[Len(cmds) + 1] = [op |-> "add", call |-> c]
    BY <1>1 DEF AppendItems, TypeOK
  <2>3. Queued(c)'
    BY <2>2 DEF Queued
  <2>4. QED
    BY <2>1, <2>3 DEF Answers
<1>2. ASSUME NEW c \in Calls, ThenFlush(c) PROVE \A d \in Calls : Answers(d)
  <2>1. /\ sent' = sent /\ stage[c] = "queueing" /\ stage'[c] \in {"waiting", "err"} /\ rec' = rec
        /\ \A d \in Calls : d # c => stage'[d] = stage[d]
    BY <1>2 DEF ThenFlush, TypeOK
  <2>2. QED
    BY <2>1 DEF Answers
<1>3. ASSUME NEW c \in Calls, Resume(c) PROVE \A d \in Calls : Answers(d)
  <2>1. /\ sent' = sent /\ stage[c] = "idle" /\ (rec' = "live" => rec = "live")
        /\ \A d \in Calls : d # c => stage'[d] = stage[d]
    BY <1>3 DEF Resume, Begin, TypeOK
  <2>2. c \notin sent
    BY <2>1 DEF BegunFirst, Begun
  <2>3. QED
    BY <2>1, <2>2 DEF Answers
<1>4. ASSUME NEW c \in Calls, Refused(c) PROVE \A d \in Calls : Answers(d)
  <2>1. /\ sent' = sent /\ stage[c] = "idle" /\ (rec' = "live" => rec = "live")
        /\ \A d \in Calls : d # c => stage'[d] = stage[d]
    BY <1>4 DEF Refused, Begin, TypeOK
  <2>2. c \notin sent
    BY <2>1 DEF BegunFirst, Begun
  <2>3. QED
    BY <2>1, <2>2 DEF Answers
<1>5. ASSUME NEW c \in Calls, Cancel(c) PROVE \A d \in Calls : Answers(d)
  <2>1. /\ sent' = sent /\ stage[c] \in {"queueing", "waiting"} /\ stage'[c] = "cancelled" /\ rec' = rec
        /\ \A d \in Calls : d # c => stage'[d] = stage[d]
    BY <1>5 DEF Cancel, TypeOK
  <2>2. QED
    BY <2>1 DEF Answers
<1>6. ASSUME NEW c \in Calls, NEW o \in {"persist", "flush", "shutdown"}, Ask(c, o)
      PROVE  \A d \in Calls : Answers(d)
  <2>1. /\ sent' = sent /\ stage[c] = "idle" /\ rec' = rec /\ rec = "live"
        /\ \A d \in Calls : d # c => stage'[d] = stage[d]
    BY <1>6 DEF Ask, Begin, TypeOK
  <2>2. c \notin sent
    BY <2>1 DEF BegunFirst, Begun
  <2>3. QED
    BY <2>1, <2>2 DEF Answers
<1>7. ASSUME Take PROVE \A d \in Calls : Answers(d)
  <2>1. Take
    BY <1>7
  <2>2. rec = "live" /\ sent' = sent /\ Head(cmds).call \in Calls /\ cmds # <<>>
    BY <2>1, TakeCases
  <2>3. CASE TakenForWrite
    BY <2>2, <2>3 DEF TakenForWrite, Answers
  <2>4. CASE TakenIdle
    <3>1. Finish(Head(cmds).op, Head(cmds).call, "ok")
      BY <2>4 DEF TakenIdle
    <3>2. Head(cmds).op # "add" => writer.pending = <<>> /\ ~Queued(Head(cmds).call)
      <4>1. 1 \in 1 .. Len(cmds) /\ Head(cmds) = cmds[1] /\ Len(cmds) \in Nat
        BY <2>2 DEF TypeOK
      <4>2. \A j \in 1 .. Len(cmds) : j > 1 /\ cmds[j].op = "add" => Head(cmds).call < cmds[j].call
        BY <4>1 DEF QueueSorted
      <4>3. Head(cmds).call \in Int
        BY <2>2 DEF Calls
      <4>4. Head(cmds).op # "add" => ~Queued(Head(cmds).call)
        BY <4>1, <4>2, <4>3 DEF Queued
      <4>5. QED
        BY <2>4, <4>4 DEF TakenIdle
    <3>3. QED
      BY <2>2, <3>1, <3>2, FinishOk
  <2>5. QED
    BY <2>1, <2>3, <2>4, TakeCases
<1>8. ASSUME Open PROVE \A d \in Calls : Answers(d)
  BY <1>8 DEF Open, Answers, callVars
<1>9. ASSUME Unpack PROVE \A d \in Calls : Answers(d)
  BY <1>9 DEF Unpack, Answers, callVars
<1>10. ASSUME RemovePacked PROVE \A d \in Calls : Answers(d)
  BY <1>10 DEF RemovePacked, Answers, callVars
<1>11. ASSUME OpenFile PROVE \A d \in Calls : Answers(d)
  <2>1. OpenFile
    BY <1>11
  <2>2. task.call \in Calls /\ sent' = sent
    BY <2>1, OpenFileCases
  <2>3. CASE OpenedForWrite
    BY <2>2, <2>3 DEF OpenedForWrite, Answers
  <2>4. CASE task.op = "resume" /\ \E r \in {"ok", "err"} : Finish("resume", task.call, r)
    <3>1. rec = "opening" /\ stage[task.call] = "resuming" /\ task.call \notin sent
      BY <2>2, <2>4 DEF Control, OneHolder, WaitersServed
    <3>2. \A d \in Calls : d # task.call => stage[d] \notin Active /\ stage'[d] = stage[d]
      BY <2>2, <2>4, <3>1, FinishAnswers DEF OneHolder, Active
    <3>3. QED
      BY <2>2, <3>1, <3>2 DEF Answers, Active
  <2>5. QED
    BY <2>1, <2>3, <2>4, OpenFileCases DEF ResumeRefused, Resumed
<1>12. ASSUME WriteItem PROVE \A d \in Calls : Answers(d)
  BY <1>12 DEF WriteItem, Answers, callVars
<1>13. ASSUME WriteDone PROVE \A d \in Calls : Answers(d)
  <2>1. /\ task.pc = "write" /\ task.call \in Calls /\ Finish(task.op, task.call, "ok") /\ sent' = sent
        /\ ~Owed
    BY <1>13 DEF WriteDone, Control
  <2>2. rec = "live" /\ task.op # "resume" /\ writer.pending = <<>>
    BY <2>1 DEF Control, TypeOK, Owed
  <2>3. ~Queued(task.call)
    <3>1. \A j \in 1 .. Len(cmds) : cmds[j].op = "add" => task.call < cmds[j].call
      BY DEF QueueSorted
    <3>2. task.call \in Int
      BY <2>1 DEF Calls
    <3>3. QED
      BY <3>1, <3>2 DEF Queued
  <2>4. QED
    BY <2>1, <2>2, <2>3, FinishOk
<1>14. ASSUME OpenFails PROVE \A d \in Calls : Answers(d)
  <2>1. AttemptFails /\ task.pc # "idle" /\ task.call \in Calls /\ sent' = sent
    BY <1>14 DEF OpenFails, Control
  <2>2. /\ rec' = "live" => rec = "live"
        /\ \A d \in Calls : d # task.call => stage'[d] = stage[d]
        /\ stage'[task.call] \in {stage[task.call], "err"}
    BY <2>1, AttemptFailsCases
  <2>3. QED
    BY <2>1, <2>2 DEF Answers
<1>15. ASSUME NEW part \in {"nothing", "torn", "whole"}, WriteFails(part)
       PROVE  \A d \in Calls : Answers(d)
  <2>1. AttemptFails /\ task.pc # "idle" /\ task.call \in Calls /\ sent' = sent
    BY <1>15 DEF WriteFails, Control
  <2>2. /\ rec' = "live" => rec = "live"
        /\ \A d \in Calls : d # task.call => stage'[d] = stage[d]
        /\ stage'[task.call] \in {stage[task.call], "err"}
    BY <2>1, AttemptFailsCases
  <2>3. QED
    BY <2>1, <2>2 DEF Answers
<1>16. ASSUME NEW part \in {"nothing", "torn", "whole"}, Crash(part)
       PROVE  \A d \in Calls : Answers(d)
  <2>1. rec' = "none" /\ sent' = sent /\ \A d \in Calls : stage'[d] \in {stage[d], "err"}
    BY <1>16 DEF Crash
  <2>2. QED
    BY <2>1 DEF Answers
<1>17. ASSUME WorkerDies PROVE \A d \in Calls : Answers(d)
  BY <1>17 DEF WorkerDies, Answers, callVars
<1>18. ASSUME WorkerReads PROVE \A d \in Calls : Answers(d)
  BY <1>18 DEF WorkerReads, Answers, callVars
<1>19. ASSUME WorkerPersists PROVE \A d \in Calls : Answers(d)
  BY <1>19 DEF WorkerPersists, Answers, callVars
<1>20. ASSUME WorkerChecks PROVE \A d \in Calls : Answers(d)
  BY <1>20 DEF WorkerChecks, Answers, callVars
<1>21. ASSUME WorkerRemoves PROVE \A d \in Calls : Answers(d)
  BY <1>21 DEF WorkerRemoves, Answers, callVars
<1>22. ASSUME Ages PROVE \A d \in Calls : Answers(d)
  BY <1>22 DEF Ages, Answers, callVars
<1>23. CASE UNCHANGED vars
  BY <1>23 DEF Answers, vars
<1>24. QED
  BY <1>1, <1>2, <1>3, <1>4, <1>5, <1>6, <1>7, <1>8, <1>9, <1>10, <1>11, <1>12, <1>13, <1>14,
     <1>15, <1>16, <1>17, <1>18, <1>19, <1>20, <1>21, <1>22, <1>23 DEF Next, Store, Writer,
     Faults, Worker

\* What can be loaded stays so, until the worker meets a recorder.
LEMMA LogGrows ==
  ASSUME TypeOK, Control, FilesAgree, [Next]_vars, ~swept'
  PROVE  ~swept /\ ItemsOf(Log) \subseteq ItemsOf(Log')
<1>1. CASE Kept
  BY <1>1 DEF Kept
<1>2. ASSUME NEW item \in Calls \cup {Meta, Torn}, Wrote(item)
      PROVE  ~swept /\ ItemsOf(Log) \subseteq ItemsOf(Log')
  <2>1. /\ plain.lines \in Seq(Line) /\ NewLine(item) \in Line
        /\ Log = plain.lines /\ Log' = Append(plain.lines, NewLine(item))
    BY <1>2, FileFacts DEF Wrote, Log, OnDisk
  <2>2. \A i \in Parsed(Log) : i \in Parsed(Log') /\ Log'[i] = Log[i]
    BY <2>1, ParsedAppend
  <2>3. QED
    BY <1>2, <2>2 DEF Wrote, ItemsOf
<1>3. QED
  BY <1>1, <1>2, FileSteps DEF FileStep

\* An item that is pending stays so until it is written, ...
LEMMA PendingKept ==
  ASSUME TypeOK, Control, FilesAgree, [Next]_vars, ~swept', rec = "live", rec' = "live",
         NEW c \in Calls, Pending(c)
  PROVE  Pending(c)' \/ c \in ItemsOf(Log')
<1>1. PICK i \in 1 .. Len(writer.pending) : writer.pending[i] = c
  BY DEF Pending
<1>2. writer.pending \in Seq(Calls) /\ writer.meta \in BOOLEAN
  BY DEF TypeOK, Writers
<1>3. CASE writer'.pending = writer.pending
  BY <1>3 DEF Pending
<1>4. ASSUME NEW d, writer'.pending = Append(writer.pending, d) PROVE Pending(c)'
  <2>1. i \in 1 .. Len(writer'.pending) /\ writer'.pending[i] = c
    BY <1>1, <1>2, <1>4
  <2>2. QED
    BY <2>1 DEF Pending
<1>5. CASE Kept
  BY <1>3, <1>4, <1>5 DEF Kept
<1>6. ASSUME NEW item \in Calls \cup {Meta, Torn}, Wrote(item)
      PROVE  Pending(c)' \/ c \in ItemsOf(Log')
  <2>1. /\ plain.lines \in Seq(Line) /\ NewLine(item) \in Line /\ Owed
        /\ Log' = Append(plain.lines, NewLine(item))
    BY <1>6, FileFacts DEF Wrote, Log, OnDisk
  <2>2. CASE Advances /\ item = NextItem /\ ~writer.meta
    <3>1. writer'.pending = Tail(writer.pending) /\ item = Head(writer.pending) /\ item # Torn
      BY <2>1, <2>2, NextItemType DEF Advances
    <3>2. CASE i = 1
      <4>1. item = c
        BY <1>1, <1>2, <3>1, <3>2
      <4>2. NewLine(item).item = c
        BY <3>1, <4>1 DEF NewLine
      <4>3. Len(plain.lines) + 1 \in Parsed(Log') /\ Log'[Len(plain.lines) + 1] = NewLine(item)
        BY <2>1, <3>1, <4>1, <4>2, ParsedAppend
      <4>4. QED
        BY <4>2, <4>3 DEF ItemsOf
    <3>3. CASE i # 1
      <4>1. i - 1 \in 1 .. Len(writer'.pending) /\ writer'.pending[i - 1] = c
        BY <1>1, <1>2, <3>1, <3>3
      <4>2. QED
        BY <4>1 DEF Pending
    <3>4. QED
      BY <3>2, <3>3
  <2>3. CASE Advances /\ writer.meta
    <3>1. writer'.pending = writer.pending
      BY <2>3 DEF Advances
    <3>2. QED
      BY <1>3, <3>1
  <2>4. CASE writer' = writer
    BY <1>3, <2>4
  <2>5. QED
    BY <1>2, <1>6, <2>2, <2>3, <2>4 DEF Wrote
<1>7. QED
  BY <1>5, <1>6, FileSteps DEF FileStep

\* ... and one that is queued until the writer takes it.
LEMMA QueuedKept ==
  ASSUME TypeOK, Control, [Next]_vars, rec = "live", rec' = "live", NEW c \in Calls, Queued(c)
  PROVE  Queued(c)' \/ Pending(c)'
<1>1. PICK i \in 1 .. Len(cmds) : cmds[i].op = "add" /\ cmds[i].call = c
  BY DEF Queued
<1>2. cmds \in Seq(Cmd) /\ writer.pending \in Seq(Calls) /\ QueueStep
  BY QueueSteps DEF TypeOK, Writers
<1>3. CASE cmds' = cmds
  BY <1>3 DEF Queued
<1>4. ASSUME NEW m, cmds' = Append(cmds, m) PROVE Queued(c)'
  <2>1. i \in 1 .. Len(cmds') /\ cmds'[i] = cmds[i]
    BY <1>2, <1>4
  <2>2. QED
    BY <1>1, <2>1 DEF Queued
<1>5. CASE Takes
  <2>1. cmds # <<>> /\ cmds' = Tail(cmds)
    BY <1>5 DEF Takes
  <2>2. CASE i = 1
    <3>1. Head(cmds) = cmds[1]
      BY <1>2, <2>1
    <3>2. writer'.pending = Append(writer.pending, c)
      BY <1>1, <1>5, <2>2, <3>1 DEF Takes
    <3>3. Len(writer.pending) + 1 \in 1 .. Len(writer'.pending) /\ writer'.pending[Len(writer.pending) + 1] = c
      BY <1>2, <3>2
    <3>4. QED
      BY <3>3 DEF Pending
  <2>3. CASE i # 1
    <3>1. i - 1 \in 1 .. Len(cmds') /\ cmds'[i - 1] = cmds[i]
      BY <1>2, <2>1, <2>3
    <3>2. QED
      BY <1>1, <3>1 DEF Queued
  <2>4. QED
    BY <2>2, <2>3
<1>6. QED
  BY <1>2, <1>3, <1>4, <1>5 DEF QueueStep, Adds, Only, Asks, Drops, Clears, Stays

LEMMA ItemsKeptNext ==
  ASSUME TypeOK, Control, FilesAgree, BegunFirst, QueueSorted, WaitersServed, OneHolder, ItemsKept,
         [Next]_vars
  PROVE  ItemsKept'
<1>1. SUFFICES ASSUME ~swept', NEW c \in sent'
               PROVE  /\ stage'[c] = "ok" => c \in ItemsOf(Log')
                      /\ rec' = "live" /\ stage'[c] \in {"queueing", "waiting"} =>
                           c \in ItemsOf(Log') \/ Pending(c)' \/ Queued(c)'
  BY DEF ItemsKept
<1>2. c \in Calls
  BY TypeNext DEF TypeOK
<1>3. Answers(c) /\ ~swept /\ ItemsOf(Log) \subseteq ItemsOf(Log')
  BY <1>1, <1>2, AnswerSteps, LogGrows
<1>4. ASSUME stage'[c] = "ok" PROVE c \in ItemsOf(Log')
  <2>1. CASE stage[c] = "ok"
    BY <1>3, <1>4, <2>1 DEF Answers, ItemsKept
  <2>2. CASE stage[c] # "ok"
    <3>1. c \in sent /\ stage[c] = "waiting" /\ rec = "live" /\ writer.pending = <<>> /\ ~Queued(c)
      BY <1>1, <1>3, <1>4, <2>2 DEF Answers
    <3>2. ~Pending(c)
      BY <3>1 DEF Pending
    <3>3. QED
      BY <1>3, <3>1, <3>2 DEF ItemsKept
  <2>3. QED
    BY <2>1, <2>2
<1>5. ASSUME rec' = "live", stage'[c] \in {"queueing", "waiting"}
      PROVE  c \in ItemsOf(Log') \/ Pending(c)' \/ Queued(c)'
  <2>1. CASE Queued(c)'
    BY <2>1
  <2>2. CASE c \in sent /\ rec = "live" /\ stage[c] \in {"queueing", "waiting"}
    <3>1. c \in ItemsOf(Log) \/ Pending(c) \/ Queued(c)
      BY <1>3, <2>2 DEF ItemsKept
    <3>2. QED
      BY <1>1, <1>2, <1>3, <1>5, <2>2, <3>1, PendingKept, QueuedKept
  <2>3. QED
    BY <1>1, <1>3, <1>5, <2>1, <2>2 DEF Answers
<1>6. QED
  BY <1>4, <1>5

LEMMA ItemsKeptInit == Init => ItemsKept
  BY DEF Init, ItemsKept

\* An append that was answered Ok can be loaded in every later state, unless
\* the worker has removed the file under a recorder: whatever writes failed,
\* whenever the process was killed, and however far the compression was.
THEOREM AcknowledgedKept == Spec => []AckedKept
<1> DEFINE IInv == /\ TypeOK /\ Control /\ FilesAgree /\ BegunFirst /\ QueueSorted
                   /\ WaitersServed /\ OneHolder /\ ItemsKept
<1>1. Init => IInv
  BY TypeInit, FilesAgreeInit, BegunFirstInit, QueueSortedInit, WaitersServedInit,
     OneHolderInit, ItemsKeptInit
<1>2. IInv /\ [Next]_vars => IInv'
  BY TypeNext, ControlNext, FilesAgreeNext, BegunFirstNext, QueueSortedNext, WaitersServedNext,
     OneHolderNext, ItemsKeptNext
<1>3. IInv => AckedKept
  BY DEF ItemsKept, AckedKept, Durable, Acked
<1>4. QED
  BY <1>1, <1>2, <1>3, PTL DEF Spec

\* No step takes an item out of what can be loaded, until the worker has
\* removed the file under a recorder: not the removal of the compressed file
\* after it is unpacked, nor of the plain one after it is compressed, nor a
\* write that fails half way.
THEOREM LogOnlyGrows == Spec => [][~swept' => ItemsOf(Log) \subseteq ItemsOf(Log')]_vars
<1> DEFINE IInv == TypeOK /\ Control /\ FilesAgree
<1>1. Init => IInv
  BY TypeInit, FilesAgreeInit
<1>2. IInv /\ [Next]_vars => IInv'
  BY TypeNext, ControlNext, FilesAgreeNext
<1>3. IInv /\ [Next]_vars => [~swept' => ItemsOf(Log) \subseteq ItemsOf(Log')]_vars
  BY LogGrows
<1>4. QED
  BY <1>1, <1>2, <1>3, PTL DEF Spec

-----------------------------------------------------------------------------
(* The ordinals.                                                           *)

LEMMA LastAppend ==
  ASSUME NEW s \in Seq(Line), NEW l \in Line, NEW i, IsLast(Append(s, l), i)
  PROVE  /\ l.item # Torn => i = Len(s) + 1 /\ Append(s, l)[i] = l
         /\ l.item = Torn => IsLast(s, i) /\ Append(s, l)[i] = s[i]
<1>1. Len(s) \in Nat /\ \A k \in Parsed(s) : k \in 1 .. Len(s) /\ Append(s, l)[k] = s[k]
  BY ParsedAppend
<1>2. CASE l.item # Torn
  <2>1. Parsed(Append(s, l)) = Parsed(s) \cup {Len(s) + 1} /\ Append(s, l)[Len(s) + 1] = l
    BY <1>2, ParsedAppend
  <2>2. i \in Parsed(s) \cup {Len(s) + 1} /\ Len(s) + 1 <= i
    BY <2>1 DEF IsLast
  <2>3. i = Len(s) + 1
    BY <1>1, <2>2
  <2>4. QED
    BY <1>2, <2>1, <2>3
<1>3. CASE l.item = Torn
  <2>1. Parsed(Append(s, l)) = Parsed(s)
    BY <1>3, ParsedAppend
  <2>2. QED
    BY <1>1, <1>3, <2>1 DEF IsLast
<1>4. QED
  BY <1>2, <1>3

LEMMA DenseAppend ==
  ASSUME NEW s \in Seq(Line), NEW l \in Line, NEW C, Dense(s, C),
         \/ l.item = Torn
         \/ Parsed(s) = {} /\ l = [item |-> Meta, ord |-> 0]
         \/ /\ Parsed(s) # {}
            /\ \A i \in Parsed(s) : IsLast(s, i) =>
                 (l = s[i] /\ s[i].item \in C) \/ (l.ord = s[i].ord + 1 /\ l.item # s[i].item)
  PROVE  Dense(Append(s, l), C)
<1> DEFINE t == Append(s, l)
<1>1. Len(s) \in Nat /\ \A k \in Parsed(s) : k \in 1 .. Len(s) /\ t[k] = s[k]
  BY ParsedAppend
<1>2. CASE l.item = Torn
  <2>1. Parsed(t) = Parsed(s)
    BY <1>2, ParsedAppend
  <2> HIDE DEF t
  <2>2. QED
    BY <1>1, <2>1 DEF Dense, Consecutive, IsFirst, t
<1>3. CASE l.item # Torn
  <2>1. Parsed(t) = Parsed(s) \cup {Len(s) + 1} /\ t[Len(s) + 1] = l
    BY <1>3, ParsedAppend
  <2> HIDE DEF t
  <2>2. ASSUME NEW i \in Parsed(t), IsFirst(t, i)
        PROVE  t[i] = [item |-> Meta, ord |-> 0]
    <3>1. CASE Parsed(s) = {}
      BY <1>3, <2>1, <2>2, <3>1
    <3>2. CASE Parsed(s) # {}
      <4>1. PICK k \in Parsed(s) : TRUE
        BY <3>2
      <4>2. i <= k
        BY <2>1, <2>2, <4>1 DEF IsFirst
      <4>3. i \in Parsed(s)
        BY <1>1, <2>1, <2>2, <4>1, <4>2
      <4>4. IsFirst(s, i)
        BY <2>1, <2>2, <4>3 DEF IsFirst
      <4>5. QED
        BY <1>1, <4>3, <4>4 DEF Dense
    <3>3. QED
      BY <3>1, <3>2
  <2>3. ASSUME NEW i \in Parsed(t), NEW j \in Parsed(t), i < j,
               \A k \in Parsed(t) : k <= i \/ j <= k
        PROVE  (t[j] = t[i] /\ t[i].item \in C) \/ (t[j].ord = t[i].ord + 1 /\ t[j].item # t[i].item)
    <3>0. \A k \in Parsed(s) : k <= i \/ j <= k
      BY <2>1, <2>3
    <3>1. i \in Parsed(s)
      <4>1. j <= Len(s) + 1
        BY <1>1, <2>1, <2>3
      <4>2. j \in Int /\ i \in Int
        BY <1>1, <2>1, <2>3
      <4>3. i # Len(s) + 1
        BY <1>1, <2>3, <4>1, <4>2
      <4>4. QED
        BY <2>1, <2>3, <4>3
    <3>2. CASE j \in Parsed(s)
      <4>1. (s[j] = s[i] /\ s[i].item \in C) \/ (s[j].ord = s[i].ord + 1 /\ s[j].item # s[i].item)
        BY <2>3, <3>0, <3>1, <3>2 DEF Dense, Consecutive
      <4>2. QED
        BY <1>1, <3>1, <3>2, <4>1
    <3>3. CASE j = Len(s) + 1
      <4>0. Len(s) \in Nat /\ \A k \in Parsed(s) : k \in 1 .. Len(s)
        BY <1>1
      <4>1. \A k \in Parsed(s) : k <= i
        <5>1. ASSUME NEW k \in Parsed(s) PROVE ~(j <= k)
          BY <3>3, <4>0, <5>1
        <5>2. QED
          BY <3>0, <5>1
      <4>2. IsLast(s, i)
        BY <3>1, <4>1 DEF IsLast
      <4>3. (l = s[i] /\ s[i].item \in C) \/ (l.ord = s[i].ord + 1 /\ l.item # s[i].item)
        BY <1>3, <3>1, <4>2
      <4>4. QED
        BY <1>1, <2>1, <3>1, <3>3, <4>3
    <3>4. QED
      BY <2>1, <2>3, <3>2, <3>3
  <2>4. Dense(t, C)
    BY <2>2, <2>3 DEF Dense, Consecutive
  <2>5. QED
    BY <2>4 DEF t
<1>4. QED
  BY <1>2, <1>3

\* Failed writes are never forgotten, and to know of more of them excuses
\* no less.
LEMMA LeftWholeGrows ==
  ASSUME [Next]_vars
  PROVE  leftWhole \subseteq leftWhole'
  BY DEF Next, Store, Writer, Faults, Worker, vars, boundVars, AppendItems, ThenFlush, Resume,
     Refused, Cancel, Ask, Take, Open, Unpack, RemovePacked, OpenFile, WriteItem, WriteDone,
     OpenFails, WriteFails, Marked, Crash, WorkerDies, WorkerReads, WorkerPersists, WorkerChecks,
     WorkerRemoves, Ages

LEMMA DenseWeaker ==
  ASSUME NEW s, NEW C, NEW D, C \subseteq D, Dense(s, C)
  PROVE  Dense(s, D)
  BY DEF Dense

LEMMA FitsWeaker ==
  ASSUME NEW s, NEW w, NEW C, NEW D, C \subseteq D, NextFits(s, w, C)
  PROVE  NextFits(s, w, D)
  BY DEF NextFits

LEMMA EmptyDense == \A C : Dense(<<>>, C)
<1>1. Parsed(<<>>) = {}
  BY DEF Parsed
<1>2. QED
  BY <1>1 DEF Dense

\* What the recorder writes next fits the log it is written to, ...
LEMMA NextIsDense ==
  ASSUME TypeOK, Control, NEW s \in Seq(Line), NEW C, Dense(s, C), NextFits(s, writer, C), Owed,
         NEW item \in {Torn, NextItem}, NewLine(item) \in Line
  PROVE  Dense(Append(s, NewLine(item)), C)
<1>1. CASE item = Torn
  <2>1. NewLine(item).item = Torn
    BY <1>1 DEF NewLine, TornLine
  <2>2. QED
    BY <2>1, DenseAppend
<1>2. CASE item = NextItem
  <2>1. NewLine(item) = [item |-> NextItem, ord |-> writer.next]
    BY <1>2, NextItemType DEF NewLine
  <2>2. CASE writer.meta
    <3>1. NewLine(item) = [item |-> Meta, ord |-> 0]
      BY <2>1, <2>2, NextItemType DEF NextFits
    <3>2. \A i \in Parsed(s) : s[i] = NewLine(item) /\ s[i].item \in C
      BY <2>2, <3>1 DEF NextFits
    <3>3. QED
      BY <3>1, <3>2, DenseAppend
  <2>3. CASE ~writer.meta
    <3>1. writer.pending # <<>> /\ NextItem = Head(writer.pending)
      BY <2>3, NextItemType
    <3>2. NewLine(item).ord = writer.next /\ NewLine(item).item = NextItem
      BY <2>1
    <3>3. Parsed(s) # {}
      BY <2>3 DEF NextFits
    <3>4. ASSUME NEW i \in Parsed(s), IsLast(s, i)
          PROVE  \/ NewLine(item) = s[i] /\ s[i].item \in C
                 \/ NewLine(item).ord = s[i].ord + 1 /\ NewLine(item).item # s[i].item
      BY <2>1, <2>3, <3>1, <3>2, <3>4 DEF NextFits
    <3>5. QED
      BY <3>3, <3>4, DenseAppend
  <2>4. QED
    BY <2>2, <2>3 DEF TypeOK, Writers
<1>3. QED
  BY <1>1, <1>2

\* ... and after the write the recorder is at its next record, or at the
\* same one when the write failed.
LEMMA FitsAfterWrite ==
  ASSUME TypeOK, Control, QueueSorted, NEW s \in Seq(Line), NEW C, NextFits(s, writer, C), Owed,
         NEW item \in {Torn, NextItem}, NewLine(item) \in Line,
         \/ writer' = writer /\ (item = NextItem => item \in C)
         \/ item = NextItem /\ Advances
  PROVE  NextFits(Append(s, NewLine(item)), writer', C)
<1> DEFINE t == Append(s, NewLine(item))
<1>0. /\ writer.meta \in BOOLEAN /\ writer.pending \in Seq(Calls) /\ writer.next \in Nat
      /\ Len(s) \in Nat /\ \A k \in Parsed(s) : k \in 1 .. Len(s) /\ t[k] = s[k]
  BY ParsedAppend DEF TypeOK, Writers
<1>1. CASE item = Torn
  <2>1. NewLine(item).item = Torn /\ writer' = writer
    BY <1>1, NextItemType DEF NewLine, TornLine
  <2>2. Parsed(t) = Parsed(s)
    BY <2>1, ParsedAppend
  <2>3. \A i \in Parsed(t) : t[i] = s[i] /\ (IsLast(t, i) <=> IsLast(s, i))
    BY <1>0, <2>2 DEF IsLast
  <2> HIDE DEF t
  <2>4. NextFits(t, writer, C)
    <3>1. CASE writer.meta
      BY <2>2, <2>3, <3>1 DEF NextFits
    <3>2. CASE ~writer.meta
      BY <2>2, <2>3, <3>2 DEF NextFits
    <3>3. QED
      BY <1>0, <3>1, <3>2
  <2>5. QED
    BY <2>1, <2>4 DEF t
<1>2. CASE item = NextItem
  <2>1. NewLine(item) = [item |-> NextItem, ord |-> writer.next] /\ item # Torn
    BY <1>2, NextItemType DEF NewLine
  <2>2. NewLine(item).ord = writer.next /\ NewLine(item).item = NextItem /\ NewLine(item).item # Torn
    BY <1>2, <2>1
  <2>3. Parsed(t) = Parsed(s) \cup {Len(s) + 1} /\ t[Len(s) + 1] = NewLine(item)
    BY <2>2, ParsedAppend
  <2>4. \A i \in Parsed(t) : IsLast(t, i) => t[i] = NewLine(item)
    BY <2>2, LastAppend
  <2> HIDE DEF t
  <2>5. CASE writer' = writer /\ item \in C /\ writer.meta
    <3>1. NewLine(item) = [item |-> Meta, ord |-> 0]
      BY <2>1, <2>5, NextItemType DEF NextFits
    <3>2. \A i \in Parsed(t) : t[i] = [item |-> Meta, ord |-> 0] /\ Meta \in C
      BY <1>0, <1>2, NextItemType, <2>3, <2>5, <3>1 DEF NextFits
    <3>3. NextFits(t, writer, C)
      BY <2>5, <3>2 DEF NextFits
    <3>4. QED
      BY <2>5, <3>3 DEF t
  <2>6. CASE writer' = writer /\ item \in C /\ ~writer.meta
    <3>1. /\ writer.pending # <<>> /\ Head(writer.pending) \in C
          /\ NewLine(item) = [item |-> Head(writer.pending), ord |-> writer.next]
      BY <1>2, <2>1, <2>6, NextItemType
    <3>2. Parsed(t) # {}
      BY <2>3
    <3>3. NextFits(t, writer, C)
      BY <2>4, <2>6, <3>1, <3>2 DEF NextFits
    <3>4. QED
      BY <2>6, <3>3 DEF t
  <2>7. CASE Advances
    <3>1. /\ writer'.meta = FALSE /\ writer'.next = writer.next + 1
          /\ writer'.pending = IF writer.meta THEN writer.pending ELSE Tail(writer.pending)
      BY <2>7 DEF Advances
    <3>2. writer'.pending # <<>> => NextItem # Head(writer'.pending)
      <4>1. CASE writer.meta
        <5>1. NextItem = Meta /\ writer'.pending = writer.pending
          BY <3>1, <4>1, NextItemType
        <5>2. writer.pending # <<>> => Head(writer.pending) \in Calls
          BY <1>0
        <5>3. QED
          BY <5>1, <5>2, ConstantsAssumption DEF Calls
      <4>2. CASE ~writer.meta
        <5>1. /\ NextItem = Head(writer.pending) /\ writer.pending # <<>>
              /\ writer'.pending = Tail(writer.pending)
          BY <3>1, <4>2, NextItemType
        <5>2. SUFFICES ASSUME writer'.pending # <<>> PROVE NextItem # Head(writer'.pending)
          OBVIOUS
        <5>3. Len(writer.pending) > 1 /\ Len(writer.pending) \in Nat
              /\ NextItem = writer.pending[1] /\ Head(writer'.pending) = writer.pending[2]
          BY <1>0, <5>1, <5>2
        <5>4. writer.pending[1] < writer.pending[2]
          BY <5>3 DEF QueueSorted
        <5>5. writer.pending[1] \in Calls
          BY <1>0, <5>3, ElementOfSeq
        <5>6. QED
          BY <5>3, <5>4, <5>5 DEF Calls
      <4>3. QED
        BY <1>0, <4>1, <4>2
    <3>3. Parsed(t) # {}
      BY <2>3
    <3>4. \A i \in Parsed(t) : IsLast(t, i) =>
             t[i].ord + 1 = writer'.next /\ (writer'.pending # <<>> => t[i].item # Head(writer'.pending))
      BY <2>2, <2>4, <3>1, <3>2
    <3>5. NextFits(t, writer', C)
      BY <3>1, <3>3, <3>4 DEF NextFits
    <3>6. QED
      BY <3>5 DEF t
  <2>8. QED
    BY <1>0, <1>2, <2>5, <2>6, <2>7
<1>3. QED
  BY <1>1, <1>2

\* A step that writes nothing leaves the recorder where it fits, an item it
\* takes from the queue being younger than the log, and a resume finds the
\* place.
LEMMA FitsAfterRest ==
  ASSUME TypeOK, Control, FilesInOrder, Kept, ~swept', rec' = "live",
         NEW C, rec = "live" => NextFits(Log, writer, C)
  PROVE  NextFits(Log', writer', C)
<1>0. Log' = Log /\ writer.pending \in Seq(Calls) /\ writer.meta \in BOOLEAN /\ Log \in Seq(Line)
      /\ cmds \in Seq(Cmd)
  BY LinesType DEF Kept, TypeOK, Writers, Log, OnDisk, LinesOf
<1> DEFINE s == Log
<1>1. CASE /\ writer'.meta = writer.meta /\ writer'.next = writer.next /\ rec = "live"
           /\ writer'.pending = writer.pending
  BY <1>0, <1>1 DEF NextFits
<1>2. CASE /\ writer'.meta = writer.meta /\ writer'.next = writer.next /\ rec = "live"
           /\ cmds # <<>> /\ Head(cmds).op = "add"
           /\ writer'.pending = Append(writer.pending, Head(cmds).call)
  <2>1. NextFits(s, writer, C)
    BY <1>2
  <2>2. CASE writer.meta
    BY <1>0, <1>2, <2>1, <2>2 DEF NextFits
  <2>3. CASE ~writer.meta
    <3>1. Head(cmds) = cmds[1] /\ 1 \in 1 .. Len(cmds) /\ Head(cmds) \in Cmd
      BY <1>0, <1>2
    <3>2. Head(cmds).call \in Calls
      BY <3>1 DEF Cmd
    <3>3. InOrder(s)
      BY DEF FilesInOrder, Log, OnDisk, LinesOf
    <3>4. \A i \in Parsed(s) : s[i].item # Meta => s[i].item < Head(cmds).call /\ s[i].item \in Begun
      BY <1>2, <3>1, <3>3 DEF InOrder, Behind
    <3>5. \A i \in Parsed(s) : s[i].item # Head(cmds).call
      BY <3>2, <3>4, ConstantsAssumption DEF Begun, Calls
    <3>6. /\ writer'.pending # <<>>
          /\ Head(writer'.pending) = IF writer.pending = <<>> THEN Head(cmds).call ELSE Head(writer.pending)
      <4>1. /\ Len(writer'.pending) = Len(writer.pending) + 1 /\ Len(writer.pending) \in Nat
            /\ writer'.pending[Len(writer.pending) + 1] = Head(cmds).call
            /\ \A i \in 1 .. Len(writer.pending) : writer'.pending[i] = writer.pending[i]
        BY <1>0, <1>2, <3>2
      <4>2. writer'.pending \in Seq(Calls) /\ writer'.pending # <<>>
        <5>1. writer'.pending \in Seq(Calls)
          BY <1>0, <1>2, <3>2
        <5>2. QED
          BY <4>1, <5>1
      <4>3. Head(writer'.pending) = writer'.pending[1]
        BY <4>2
      <4>4. CASE writer.pending = <<>>
        BY <4>1, <4>2, <4>3, <4>4
      <4>5. CASE writer.pending # <<>>
        <5>1. 1 \in 1 .. Len(writer.pending) /\ Head(writer.pending) = writer.pending[1]
          BY <1>0, <4>5
        <5>2. QED
          BY <4>1, <4>2, <4>3, <4>5, <5>1
      <4>6. QED
        BY <4>4, <4>5
    <3>7. \A i \in Parsed(s) : IsLast(s, i) =>
            \/ s[i].ord + 1 = writer'.next /\ (writer'.pending # <<>> => s[i].item # Head(writer'.pending))
            \/ /\ writer'.pending # <<>> /\ s[i] = [item |-> Head(writer'.pending), ord |-> writer'.next]
               /\ Head(writer'.pending) \in C
      BY <1>2, <2>1, <2>3, <3>5, <3>6 DEF NextFits
    <3>8. Parsed(s) # {}
      BY <2>1, <2>3 DEF NextFits
    <3>9. QED
      BY <1>0, <1>2, <2>3, <3>7, <3>8 DEF NextFits
  <2>4. QED
    BY <1>0, <2>2, <2>3
<1>3. CASE ResumesAt(LinesOf(plain)) /\ Log = LinesOf(plain)
  <2>1. Parsed(s) # {} /\ ~writer'.meta /\ writer'.pending = <<>> /\ writer'.next = s[LastOf(s)].ord + 1
    BY <1>3 DEF ResumesAt
  <2>2. IsLast(s, LastOf(s))
    BY <1>0, <2>1, LastExists
  <2>3. \A i \in Parsed(s) : i \in Int
    BY <1>0 DEF Parsed
  <2>4. \A i \in Parsed(s) : IsLast(s, i) => i = LastOf(s)
    BY <2>2, <2>3 DEF IsLast
  <2>5. QED
    BY <1>0, <2>1, <2>4 DEF NextFits
<1>4. QED
  BY <1>1, <1>2, <1>3 DEF Kept

LEMMA OrdinalsFitNext ==
  ASSUME TypeOK, Control, FilesAgree, QueueSorted, FilesInOrder, OrdinalsFit, [Next]_vars
  PROVE  OrdinalsFit'
<1> DEFINE C == leftWhole'
           Fine == /\ Dense(LinesOf(plain'), C) /\ Dense(LinesOf(zst'), C)
                   /\ Dense(LinesOf(worker'.snap), C)
                   /\ rec' = "live" => NextFits(Log', writer', C)
<1>1. SUFFICES ASSUME ~swept' PROVE Fine
  BY DEF OrdinalsFit
<1>2. ~swept
  BY <1>1, LogGrows
<1>3. /\ Dense(LinesOf(plain), C) /\ Dense(LinesOf(zst), C) /\ Dense(LinesOf(worker.snap), C)
      /\ rec = "live" => NextFits(Log, writer, C)
  BY <1>2, LeftWholeGrows, DenseWeaker, FitsWeaker DEF OrdinalsFit
<1> HIDE DEF C
<1>4. CASE Kept
  <2>1. rec' = "live" => NextFits(Log', writer', C)
    BY <1>1, <1>3, <1>4, FitsAfterRest
  <2>2. Dense(LinesOf(plain'), C) /\ Dense(LinesOf(zst'), C) /\ Dense(LinesOf(worker'.snap), C)
    BY <1>3, <1>4, EmptyDense DEF Kept
  <2>3. QED
    BY <2>1, <2>2
<1>5. ASSUME NEW item \in Calls \cup {Meta, Torn}, Wrote(item) PROVE Fine
  <2>1. /\ plain.lines \in Seq(Line) /\ NewLine(item) \in Line /\ Owed /\ item \in {Torn, NextItem}
        /\ Log = plain.lines /\ Log' = Append(plain.lines, NewLine(item))
        /\ LinesOf(plain) = plain.lines /\ LinesOf(plain') = Append(plain.lines, NewLine(item))
    BY <1>5, FileFacts DEF Wrote, Log, OnDisk, LinesOf
  <2>2. /\ zst' = zst /\ worker' = worker /\ rec = "live"
        /\ \/ writer' = writer /\ (item = NextItem /\ rec' = "live" => item \in C)
           \/ item = NextItem /\ Advances
    BY <1>5 DEF Wrote, Control, C
  <2>3. NextFits(plain.lines, writer, C) /\ Dense(plain.lines, C)
    BY <1>3, <2>1, <2>2
  <2>4. Dense(LinesOf(plain'), C)
    BY <2>1, <2>3, NextIsDense
  <2>5. ASSUME rec' = "live" PROVE NextFits(Log', writer', C)
    BY <2>1, <2>2, <2>3, <2>5, FitsAfterWrite
  <2>6. QED
    BY <1>3, <2>2, <2>4, <2>5
<1>6. QED
  BY <1>4, <1>5, FileSteps DEF FileStep

LEMMA OrdinalsFitInit == Init => OrdinalsFit
<1>1. Parsed(<<>>) = {}
  BY DEF Parsed
<1>2. QED
  BY <1>1, EmptyDense DEF Init, OrdinalsFit, NextFits, NewWriter, Log, OnDisk, LinesOf, NoJob

\* The ordinals, with the layers they rest on.
OrdinalsInv ==
  /\ TypeOK /\ Control /\ FilesAgree /\ BegunFirst /\ QueueSorted
  /\ FilesInOrder /\ OrdinalsFit

LEMMA OrdinalsInvariant == Spec => []OrdinalsInv
<1>1. Init => OrdinalsInv
  BY TypeInit, FilesAgreeInit, BegunFirstInit, QueueSortedInit, FilesInOrderInit,
     OrdinalsFitInit DEF OrdinalsInv
<1>2. OrdinalsInv /\ [Next]_vars => OrdinalsInv'
  BY TypeNext, ControlNext, FilesAgreeNext, BegunFirstNext, QueueSortedNext, FilesInOrderNext,
     OrdinalsFitNext DEF OrdinalsInv
<1>3. QED
  BY <1>1, <1>2, PTL DEF Spec

\* The ordinals of what can be loaded are dense from the metadata's 0, and an
\* ordinal is repeated only by a record whose write failed on its last byte,
\* as long as the worker has not removed the file under a recorder: the
\* writer, its retries and the resume that reads the last record agree on the
\* next ordinal.
THEOREM OrdinalsStayDense == Spec => []OrdinalsDense
<1>1. OrdinalsInv => OrdinalsDense
  BY DEF OrdinalsInv, OrdinalsFit, OrdinalsDense, Log, OnDisk, LinesOf
<1>2. QED
  BY <1>1, OrdinalsInvariant, PTL

\* The projection of the thread's history takes every log the recorder
\* writes, through torn lines, crashes, resumes and compressions, unless some
\* write failed on its last byte: that is the one way in which the retry and
\* the reader disagree.
THEOREM ProjectedUnlessLeftWhole == Spec => [](leftWhole = {} => Projectable)
<1>1. ASSUME OrdinalsInv, leftWhole = {}, ~swept, plain # NoFile PROVE Projects(plain)
  <2>1. Dense(plain.lines, {}) /\ plain.lines \in Seq(Line)
    BY <1>1, FileFacts DEF OrdinalsInv, OrdinalsFit, LinesOf, TypeOK, Files
  <2>2. \A i \in Parsed(plain.lines) : i \in 1 .. Len(plain.lines) /\ plain.lines[i].ord \in Nat
    <3>1. \A i \in 1 .. Len(plain.lines) : plain.lines[i] \in Line
      BY <2>1, ElementOfSeq
    <3>2. QED
      BY <3>1 DEF Parsed, Line
  <2>3. \A j \in Parsed(plain.lines) : IsFirst(plain.lines, j) => plain.lines[j].ord < j
    BY <2>1, <2>2 DEF Dense
  <2>4. \A i, j \in Parsed(plain.lines) : Consecutive(plain.lines, i, j) =>
          i < j /\ plain.lines[j].ord = plain.lines[i].ord + 1
    BY <2>1 DEF Dense, Consecutive
  <2>5. \A i, j \in Parsed(plain.lines) : Consecutive(plain.lines, i, j) =>
          plain.lines[j].ord - plain.lines[i].ord \in 1 .. j - i
    BY <2>1, <2>2, <2>4
  <2>6. QED
    BY <2>3, <2>5 DEF Projects
<1>2. OrdinalsInv => (leftWhole = {} => Projectable)
  BY <1>1 DEF Projectable
<1>3. QED
  BY <1>2, OrdinalsInvariant, PTL
==============================================================================
