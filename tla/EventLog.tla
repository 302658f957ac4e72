------------------------------ MODULE EventLog ------------------------------
(***************************************************************************)
(* The event log of one deployment, events.jsonl: its writers, which cache *)
(* the last number they used, the watcher that copies the event files of a *)
(* runner, the removal of those files, and a subscriber of the stream.     *)
(*                                                                         *)
(* Everything a coroutine does between two awaits is one step, a scan of   *)
(* the runner's files included.  The lifecycle is reduced to what decides  *)
(* who writes when: a row is under way or finished, and a closing sequence *)
(* is run by the attempt's own task or by the recovery pass.  The log_line *)
(* of a runtime readback is written like attempt_end and left out.         *)
(***************************************************************************)
EXTENDS Naturals, Sequences, FiniteSets, SequencesExt, FiniteSetsExt

CONSTANTS Att,        \* attempts of the deployment
          Recovery,   \* the recovery pass
          Null,
          MaxEvents,  \* event files a runner writes
          MaxLines    \* log length from which on no line is torn

ASSUME ProcAssumption == Recovery \notin Att /\ Null \notin Att \cup {Recovery}
ASSUME BoundAssumption == MaxEvents \in Nat /\ MaxLines \in Nat

VARIABLES
  file,      \* the complete lines of events.jsonl
  partial,   \* the file ends in an unfinished line
  synced,    \* lines that survive a power loss
  context,   \* attempts whose redaction.json is on disk
  raw,       \* job_events: the event files of a runner that are on disk
  emitted,   \* event files the runner has written so far
  runner,    \* the process: "none", "live" or "dead"
  published, \* attempts whose process can be identified
  active,    \* the attempt whose row is under way and locks the workspace
  finished,  \* attempts whose row is terminal
  lossy,     \* attempts that gave up their event files (history)
  phase,     \* what the task of an attempt, or the pass, does next
  writer,    \* EventsWriter._seq of that process
  seen,      \* EventsWatcher._seen of an attempt's observer
  blind,     \* attempts whose watcher has failed
  taken,     \* the row the pass has selected
  subscriber \* the stream of one client: last number, lines received

log == <<file, partial, synced>>
host == <<context, raw, emitted, runner, published>>
rows == <<active, finished>>
faults == <<blind, lossy>>
memory == <<phase, writer, seen, faults, taken>>
vars == <<log, host, rows, memory, subscriber>>

Proc == Att \cup {Recovery}
Files == 1..MaxEvents
Phases == {"none", "setup", "started", "spawned", "launched", "watching", "adopted",
           "stopping", "orphaned", "undrained", "drained", "open", "cleaned", "ending",
           "refused", "dropped", "broken", "failing", "failed", "queued"}

\* Phases in which the attempt has an entry in the table of tasks.
Tracked(a) == phase[a] \notin {"none", "failed"}

NoStream == [last |-> 0, got |-> <<>>]
Garbage == [att |-> Null, kind |-> "garbage", n |-> 0, seq |-> 0]
Event(a, kind, n, s) == [att |-> a, kind |-> kind, n |-> n, seq |-> s]
Lines == {Garbage}
         \cup [att : Att, kind : {"start", "end", "failure"}, n : {0}, seq : Nat]
         \cup [att : Att, kind : {"runner"}, n : Files, seq : Nat]

TypeOK ==
  /\ file \in Seq(Lines) /\ partial \in BOOLEAN /\ synced \in 0..Len(file)
  /\ raw \in [Att -> SUBSET Files] /\ emitted \in [Att -> 0..MaxEvents]
  /\ runner \in [Att -> {"none", "live", "dead"}]
  /\ context \subseteq Att /\ published \subseteq Att /\ blind \subseteq Att
  /\ active \in Att \cup {Null} /\ finished \subseteq Att /\ lossy \subseteq Att
  /\ phase \in [Proc -> Phases] /\ writer \in [Proc -> Nat]
  /\ seen \in [Att -> SUBSET Files] /\ taken \in Att \cup {Null}
  /\ subscriber \in [last : Nat, got : Seq(1..Len(file))]

Init ==
  /\ file = <<>> /\ partial = FALSE /\ synced = 0
  /\ raw = [a \in Att |-> {}] /\ emitted = [a \in Att |-> 0]
  /\ runner = [a \in Att |-> "none"] /\ published = {} /\ context = {}
  /\ active = Null /\ finished = {} /\ lossy = {}
  /\ phase = [p \in Proc |-> "none"] /\ writer = [p \in Proc |-> 0]
  /\ seen = [a \in Att |-> {}] /\ blind = {} /\ taken = Null
  /\ subscriber = NoStream

-----------------------------------------------------------------------------
(* The file.                                                               *)

\* EventsWriter._recover_seq: the greatest number that can be parsed.
LastSeq(f) == Max({0} \cup {f[i].seq : i \in DOMAIN f})

\* Fault: the append does not carry runner_event_id.
NoReceipts(f, a) == {}

\* The runner events of an attempt that the log identifies.
Receipts(f, a) == {f[i].n : i \in {j \in DOMAIN f : f[j].att = a /\ f[j].kind = "runner"}}

\* A set of numbers in ascending order.
InOrder(S) ==
  [i \in 1..Cardinality(S) |-> CHOOSE x \in S : Cardinality({y \in S : y < x}) = i - 1]

\* One event per file, in the order of the files, numbered from s + 1 on.
Batch(a, files, s) ==
  LET order == InOrder(files)
  IN [i \in 1..Len(order) |-> Event(a, "runner", order[i], s + i)]

\* A line that is appended to an unfinished one is lost with it.
Written(lines) ==
  IF lines = <<>> THEN file
  ELSE file \o (IF partial THEN <<Garbage>> \o Tail(lines) ELSE lines)

Write(lines) ==
  /\ file' = Written(lines)
  /\ partial' = (partial /\ lines = <<>>)

\* Start and end of an attempt are also flushed to the disk.
WriteBoundary(line) == Write(<<line>>) /\ synced' = Len(file')

\* The j-th append raises: its line is whole or not, and ends with a part of the
\* line or of the sentinel, or with nothing of it.
WriteFails(lines, j) ==
  /\ Len(file) + j <= MaxLines
  /\ \E whole, torn \in BOOLEAN :
       LET done == SubSeq(lines, 1, IF whole THEN j ELSE j - 1)
       IN /\ file' = Written(done)
          /\ partial' = (torn \/ (partial /\ done = <<>>))
  /\ UNCHANGED synced

-----------------------------------------------------------------------------
(* An attempt until its runner is observed.                                *)

Go(p, next) == phase' = [phase EXCEPT ![p] = next]

\* The reservation finds no attempt under way.
Reserve(a) ==
  /\ active = Null /\ a \notin finished
  /\ active' = a
  /\ Go(a, "setup")
  /\ UNCHANGED <<log, host, finished, writer, seen, faults, taken, subscriber>>

\* A new EventsWriter, and its first event.
StartEvent(a) ==
  /\ phase[a] = "setup"
  /\ WriteBoundary(Event(a, "start", 0, LastSeq(file) + 1))
  /\ writer' = [writer EXCEPT ![a] = LastSeq(file) + 1]
  /\ Go(a, "started")
  /\ UNCHANGED <<host, rows, seen, faults, taken, subscriber>>

StartEventFails(a) ==
  /\ phase[a] = "setup"
  /\ WriteFails(<<Event(a, "start", 0, LastSeq(file) + 1)>>, 1)
  /\ Go(a, "failing")
  /\ UNCHANGED <<host, rows, writer, seen, faults, taken, subscriber>>

\* An exception before start() has returned a handle, even after the spawn.
SetupFails(a) ==
  /\ phase[a] \in {"setup", "started", "spawned"}
  /\ context' = context \ {a}
  /\ Go(a, "failing")
  /\ UNCHANGED <<log, raw, emitted, runner, published, rows, writer, seen,
                 faults, taken, subscriber>>

\* redaction.json is written just before.
Spawn(a) ==
  /\ phase[a] = "started"
  /\ context' = context \cup {a}
  /\ runner' = [runner EXCEPT ![a] = "live"]
  /\ Go(a, "spawned")
  /\ UNCHANGED <<log, raw, emitted, published, rows, writer, seen, faults,
                 taken, subscriber>>

Publish(a) ==
  /\ phase[a] = "spawned"
  /\ published' = published \cup {a}
  /\ Go(a, "launched")
  /\ UNCHANGED <<log, context, raw, emitted, runner, rows, writer, seen,
                 faults, taken, subscriber>>

\* mark_attempt_running succeeds: the watcher starts with the log's receipts.
Watch(a) ==
  /\ phase[a] = "launched"
  /\ seen' = [seen EXCEPT ![a] = Receipts(file, a)]
  /\ Go(a, "watching")
  /\ UNCHANGED <<log, host, rows, writer, faults, taken, subscriber>>

\* Cancelled meanwhile, or the database failed: the runner is killed.
LaunchRefused(a) ==
  /\ phase[a] = "launched"
  /\ runner' = [runner EXCEPT ![a] = "dead"]
  /\ Go(a, "refused") \/ Go(a, "broken")
  /\ lossy' = lossy \cup {a}
  /\ UNCHANGED <<log, context, raw, emitted, published, rows, writer, seen,
                 blind, taken, subscriber>>

\* finish_attempt for the setup; reserve_attempt then opens a writer of its
\* own and appends attempt_end, unless the event file cannot be written.
FailureEvent(a) ==
  /\ phase[a] = "failed"
  /\ \/ WriteBoundary(Event(a, "failure", 0, LastSeq(file) + 1))
     \/ WriteFails(<<Event(a, "failure", 0, LastSeq(file) + 1)>>, 1)
  /\ Go(a, "none")
  /\ UNCHANGED <<host, rows, writer, seen, faults, taken, subscriber>>

-----------------------------------------------------------------------------
(* The runner and its watcher.                                             *)

RunnerEmits(a) ==
  /\ runner[a] = "live" /\ emitted[a] < MaxEvents
  /\ emitted' = [emitted EXCEPT ![a] = @ + 1]
  /\ raw' = [raw EXCEPT ![a] = @ \cup {emitted[a] + 1}]
  /\ UNCHANGED <<log, context, runner, published, rows, memory, subscriber>>

RunnerExits(a) ==
  /\ runner[a] = "live"
  /\ runner' = [runner EXCEPT ![a] = "dead"]
  /\ UNCHANGED <<log, context, raw, emitted, published, rows, memory, subscriber>>

\* What a watcher still has to copy.  Without redaction.json there is none.
Unread(a, known) == IF a \in context THEN raw[a] \ known ELSE {}

\* One scan of job_events: every file not seen before is appended.
Scan(a, next) ==
  LET new == Unread(a, seen[a])
  IN /\ Write(Batch(a, new, writer[a]))
     /\ writer' = [writer EXCEPT ![a] = @ + Cardinality(new)]
     /\ seen' = [seen EXCEPT ![a] = @ \cup new]
     /\ Go(a, next)
     /\ UNCHANGED <<synced, host, rows, faults, taken, subscriber>>

\* An append raises and ends the watcher; its file already counts as seen.
ScanFails(a, next) ==
  \E j \in 1..Cardinality(Unread(a, seen[a])) :
    /\ WriteFails(Batch(a, Unread(a, seen[a]), writer[a]), j)
    /\ writer' = [writer EXCEPT ![a] = @ + j]
    /\ Go(a, next)
    /\ UNCHANGED <<host, rows, seen, taken, subscriber>>

Poll(a) ==
  /\ phase[a] \in {"watching", "adopted"} /\ a \notin blind
  /\ Unread(a, seen[a]) # {}
  /\ Scan(a, phase[a])

\* The process is gone and stop is set: only a scan that begins now is final.
RunnerObserved(a) ==
  /\ runner[a] = "dead"
  /\ \/ phase[a] = "watching" /\ Go(a, IF a \in blind THEN "open" ELSE "stopping")
     \/ phase[a] = "adopted" /\ Go(a, "orphaned")
  /\ UNCHANGED <<log, host, rows, writer, seen, faults, taken, subscriber>>

\* Fault: the scan under way when the runner ends is taken for the last one.
FinalScanSkipped(a) ==
  /\ phase[a] \in {"stopping", "orphaned"}
  /\ Go(a, IF phase[a] = "stopping" THEN "open" ELSE "undrained")
  /\ UNCHANGED <<log, host, rows, writer, seen, faults, taken, subscriber>>

FinalScan(a) ==
  \/ phase[a] = "stopping" /\ Scan(a, "open")
  \/ phase[a] = "orphaned" /\ Scan(a, "undrained")

\* The watcher of a run dies alone, the one of an adopted run takes its
\* observer along.
WatcherFails(a) ==
  \/ /\ a \notin blind
     /\ \/ phase[a] = "watching" /\ ScanFails(a, "watching")
        \/ phase[a] = "stopping" /\ ScanFails(a, "open")
     /\ blind' = blind \cup {a} /\ lossy' = lossy \cup {a}
  \/ /\ phase[a] \in {"adopted", "orphaned"} /\ ScanFails(a, "none")
     /\ UNCHANGED faults

-----------------------------------------------------------------------------
(* Closing: the same sequence for a task and for the recovery pass.        *)

Subject(p) == IF p = Recovery THEN taken ELSE p

\* A task ends with its writer; a pass forgets its row.
Leave(p) == /\ Go(p, "none")
            /\ writer' = [writer EXCEPT ![p] = 0]
            /\ taken' = IF p = Recovery THEN Null ELSE taken

\* _drain_events: a watcher with a writer and receipts of its own.
DrainTo(p, a) ==
  /\ Write(Batch(a, Unread(a, Receipts(file, a)), LastSeq(file)))
  /\ Go(p, "drained")
  /\ UNCHANGED <<synced, host, rows, writer, seen, faults, taken, subscriber>>

DrainFails(p, a) ==
  /\ \E j \in 1..Cardinality(Unread(a, Receipts(file, a))) :
       WriteFails(Batch(a, Unread(a, Receipts(file, a)), LastSeq(file)), j)
  /\ Leave(p)
  /\ UNCHANGED <<host, rows, seen, faults, subscriber>>

Drain(a) == phase[a] = "undrained" /\ (DrainTo(a, a) \/ DrainFails(a, a))

\* _finish_recovered opens the writer of attempt_end before it finishes.
OpenWriter(p) ==
  /\ phase[p] = "drained"
  /\ writer' = [writer EXCEPT ![p] = LastSeq(file)]
  /\ Go(p, "open")
  /\ UNCHANGED <<log, host, rows, seen, faults, taken, subscriber>>

\* Fault: copies are not made durable first.
RemoveUnsynced(a) ==
  /\ raw' = [raw EXCEPT ![a] = @ \ Receipts(file, a)]
  /\ UNCHANGED synced

\* cleanup_attempt_output: every line is parsed and flushed first.  A log that
\* does not parse (an unfinished sentinel may), or a runner without an rc file,
\* keeps its raw files.
RemoveRaw(a) ==
  \/ /\ runner[a] = "dead"
     /\ \A i \in DOMAIN file : file[i] # Garbage
     /\ synced' = Len(file)
     /\ raw' = [raw EXCEPT ![a] = @ \ Receipts(file, a)]
  \/ UNCHANGED <<synced, raw>>

\* The raw output and redaction.json go before the row is finished.  That the
\* task of a run tries again at its very end changes nothing and is left out.
CleanOutput(p) ==
  /\ \/ phase[p] = "open" /\ Go(p, "cleaned")
     \/ phase[p] = "broken" /\ Go(p, "failing")
     \/ phase[p] = "refused" /\ Go(p, "dropped")
  /\ RemoveRaw(Subject(p))
  /\ context' = context \ {Subject(p)}
  /\ UNCHANGED <<file, partial, emitted, runner, published, rows, writer, seen, faults,
                 taken, subscriber>>

\* finish_attempt: from here on another attempt can be reserved.  Only a run
\* that was observed or recovered goes on to its attempt_end.
FinishRow(p) ==
  LET a == Subject(p) IN
  /\ \/ phase[p] = "cleaned" /\ Go(p, "ending")
     \/ phase[p] = "dropped" /\ Go(p, "none")
     \/ phase[p] = "failing" /\ Go(p, "failed")
  /\ active' = IF active = a THEN Null ELSE active
  /\ finished' = finished \cup {a}
  /\ UNCHANGED <<log, host, writer, seen, faults, taken, subscriber>>

\* attempt_end is written with the number that the writer remembers.
EndEvent(p) ==
  LET line == Event(Subject(p), "end", 0, writer[p] + 1) IN
  /\ phase[p] = "ending"
  /\ WriteBoundary(line) \/ WriteFails(<<line>>, 1)
  /\ Leave(p)
  /\ UNCHANGED <<host, rows, seen, faults, subscriber>>

-----------------------------------------------------------------------------
(* The recovery pass: one row of this deployment, read before others.      *)

PassSelects ==
  /\ phase[Recovery] = "none" /\ active # Null
  /\ taken' = active
  /\ Go(Recovery, "queued")
  /\ UNCHANGED <<log, host, rows, writer, seen, faults, subscriber>>

\* A task observes it, or it is too young to be judged without a process.
PassSkips ==
  /\ phase[Recovery] = "queued"
  /\ Tracked(taken) \/ taken \notin published
  /\ Leave(Recovery)
  /\ UNCHANGED <<log, host, rows, seen, faults, subscriber>>

PassAdopts ==
  /\ phase[Recovery] = "queued"
  /\ ~Tracked(taken) /\ taken \in published /\ runner[taken] = "live"
  /\ phase' = [phase EXCEPT ![taken] = "adopted", ![Recovery] = "none"]
  /\ writer' = [writer EXCEPT ![taken] = LastSeq(file)]
  /\ seen' = [seen EXCEPT ![taken] = Receipts(file, taken)]
  /\ taken' = Null
  /\ UNCHANGED <<log, host, rows, faults, subscriber>>

PassRecovers ==
  /\ phase[Recovery] = "queued"
  /\ ~Tracked(taken) /\ ~(taken \in published /\ runner[taken] = "live")
  /\ DrainTo(Recovery, taken) \/ DrainFails(Recovery, taken)

-----------------------------------------------------------------------------
(* The subscriber of the stream.                                           *)

Readable(f) == {i \in DOMAIN f : f[i].kind # "garbage"}

\* Fault: the cursor is the last number that was received.
StreamRepeats ==
  LET new == {i \in Readable(file) : file[i].seq >= subscriber.last}
      batch == InOrder(new)
  IN /\ new # {}
     /\ subscriber' = [last |-> file[Last(batch)].seq, got |-> subscriber.got \o batch]
     /\ UNCHANGED <<log, host, rows, memory>>

\* The replay, or one look of the tail: every event above the last number
\* received, in the order of the file.
Stream ==
  LET new == {i \in Readable(file) : file[i].seq > subscriber.last}
      batch == InOrder(new)
  IN /\ new # {}
     /\ subscriber' = [last |-> file[Last(batch)].seq, got |-> subscriber.got \o batch]
     /\ UNCHANGED <<log, host, rows, memory>>

-----------------------------------------------------------------------------
(* Crashes.                                                                *)

Forget ==
  /\ phase' = [p \in Proc |-> "none"]
  /\ writer' = [p \in Proc |-> 0]
  /\ seen' = [a \in Att |-> {}]
  /\ blind' = {} /\ taken' = Null
  /\ subscriber' = NoStream

\* The API process ends at any point and starts again; runners work on.
Crash ==
  /\ Forget
  /\ UNCHANGED <<log, host, rows, lossy>>

\* The host fails: what was not flushed is lost, perhaps within a line.  The
\* runner's own files are taken to be durable.
PowerLoss ==
  /\ \E n \in synced..Len(file) :
       /\ file' = SubSeq(file, 1, n)
       /\ partial' \in {FALSE, partial \/ (n < Len(file) /\ n < MaxLines)}
  /\ runner' = [a \in Att |-> IF runner[a] = "live" THEN "dead" ELSE runner[a]]
  /\ lossy' = lossy \cup ({active} \ ({Null} \cup context))
  /\ Forget
  /\ UNCHANGED <<synced, context, raw, emitted, published, rows>>

-----------------------------------------------------------------------------
Work(a) ==
  \/ StartEvent(a) \/ StartEventFails(a) \/ SetupFails(a) \/ Spawn(a) \/ Publish(a)
  \/ Watch(a) \/ LaunchRefused(a) \/ FailureEvent(a)
  \/ Poll(a) \/ RunnerObserved(a) \/ FinalScan(a) \/ WatcherFails(a) \/ Drain(a)

Close(p) == OpenWriter(p) \/ CleanOutput(p) \/ FinishRow(p) \/ EndEvent(p)

Pass == PassSkips \/ PassAdopts \/ PassRecovers

Next ==
  \/ \E a \in Att : Reserve(a) \/ RunnerEmits(a) \/ RunnerExits(a) \/ Work(a)
  \/ \E p \in Proc : Close(p)
  \/ PassSelects \/ Pass
  \/ Stream
  \/ Crash \/ PowerLoss

Spec == Init /\ [][Next]_vars

-----------------------------------------------------------------------------
(* Safety.                                                                 *)

Intact == ~partial /\ \A i \in DOMAIN file : file[i] # Garbage

\* No event file of a runner is copied twice, whatever watchers take turns:
\* the observer, an adopting one after a restart, the drains of recovery.
CopiedOnce ==
  \A i, j \in DOMAIN file :
    /\ file[i].kind = "runner" /\ file[j].kind = "runner"
    /\ file[i].att = file[j].att /\ file[i].n = file[j].n
    => i = j

\* An event of a runner is never lost: its file is on disk, or its copy is in
\* the part of the log that even a power loss leaves alone.
NothingLost ==
  \A a \in Att : 1..emitted[a] \subseteq raw[a] \cup Receipts(SubSeq(file, 1, synced), a)

\* The two directions of one promise of EventsWatcher and cleanup_attempt_output:
\* what a runner emitted is in the log once, and until that is durable its
\* file stays.
CopiesAreExact == TypeOK /\ CopiedOnce /\ NothingLost

\* attempt_end comes after everything the identified runner wrote, unless the
\* launch was refused, the attempt's own watcher failed, a power loss took the
\* copies when recovery could no longer repeat them, or the log is damaged.
EndIsLast ==
  Intact => \A i \in DOMAIN file :
    file[i].kind = "end" /\ file[i].att \in published \ lossy =>
      1..emitted[file[i].att] \subseteq Receipts(SubSeq(file, 1, i), file[i].att)

\* While numbers identify events, a subscriber has received a prefix of the
\* log: its cursor neither skips nor repeats one across replay and tail.
Identifying == \A i, j \in Readable(file) : i < j => file[i].seq < file[j].seq
StreamIsPrefix ==
  Identifying => IsPrefix(subscriber.got, InOrder(Readable(file)))

-----------------------------------------------------------------------------
(* Statements of the repository that the code does not keep.               *)

\* "monotonic event_seq per deployment"
MonotonicSeq == Identifying

\* "attempt_end is emitted when the subprocess exits."
Ends(a) == \E i \in DOMAIN file : file[i].kind \in {"end", "failure"} /\ file[i].att = a
EndIsEmitted == \A a \in Att : phase[a] = "watching" ~> Ends(a)

\* Tasks and runners go on, and passes are started again after failures.
Fairness ==
  /\ \A a \in Att : WF_vars(RunnerExits(a)) /\ WF_vars(Work(a))
  /\ \A p \in Proc : WF_vars(Close(p))
  /\ SF_vars(PassSelects) /\ SF_vars(PassAdopts) /\ SF_vars(PassRecovers)

FairSpec == Spec /\ Fairness
=============================================================================
