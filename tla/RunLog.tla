------------------------------- MODULE RunLog -------------------------------
(***************************************************************************)
(* The records of a run (bobr-core run.rs and logging.rs, and the life cycle *)
(* of a run in bobr realize.rs): the workspaces of the subjects, their index *)
(* and metadata, the event log with its numbers and its buffered writer, the *)
(* counts for the summary, and the raw logs.                                 *)
(*                                                                          *)
(* The threads of a run work at once.  The process may be killed at any      *)
(* moment: what is left are the directories and the first `written` pieces   *)
(* of `stream`, so whatever holds of these in every state holds after a      *)
(* crash.  Any write to the log may fail; what a failed write left in the    *)
(* buffer is tried again by the next one.                                    *)
(***************************************************************************)
EXTENDS Naturals, Sequences, FiniteSets, SequencesExt

CONSTANTS
  Threads,       \* the threads that work on subjects
  NameOf,        \* the name each thread gives its subject
  Emitted,       \* the events that each thread may emit
  MaxEvents,     \* bound on the events of each thread
  MaxRaw,        \* bound on the raw logs of each thread
  MaxFaults      \* bound on the writes that fail

VARIABLES
  serial,        \* next_serial of the run
  dirs,          \* the directories there are, by their path
  metadata,      \* the directories that have a meta.json
  index,         \* what was appended to index.jsonl, piece by piece
  seq,           \* the next number of the event log
  stream,        \* what was appended to the event log, piece by piece
  written,       \* how many pieces have left the writer's buffer
  errors,        \* the logging errors counted
  counts,        \* the counters of OutcomeSink and RetrySink
  raw,           \* the raw log paths handed out
  thread,        \* what each thread does
  main,          \* what the task that runs the request does
  faults,        \* history: how many writes failed
  returned       \* history: the events whose emit has returned, and how much
                 \* of the stream each of them must have brought to the file

logVars == <<serial, dirs, metadata, index, seq, stream, written, errors, counts, raw, thread, main, faults, returned>>

------------------------------------------------------------------------------
(* The events.                                                              *)

Event(status, level, outcome) == [status |-> status, level |-> level, outcome |-> outcome, retry |-> FALSE]
\* Of a builder, of a source, and of the transfers of a repository.
Events ==
  {Event("running", "progress", "none"), Event("running", "info", "none"), Event("running", "warn", "none"),
   Event("done", "info", "built"), Event("failed", "error", "failed"), Event("failed", "warn", "lifecycle"),
   Event("done", "info", "downloaded"), [Event("running", "info", "none") EXCEPT !.retry = TRUE]}
Outcomes == {"built", "failed", "downloaded"}
Persistent(e) == e.level # "progress"
run_finished(e) == e.status = "run-finished"
flush_now_finished(e) == run_finished(e)
flush_now(e) == e.level \in {"warn", "error"} \/ run_finished(e)
Important(e) == e.level \in {"warn", "error"} \/ e.status \in {"failed", "run-finished"}

Line(e, number, subject, own) == [nl |-> FALSE, seq |-> number, subject |-> subject, own |-> own, event |-> e]
Newline == [nl |-> TRUE]
NoEvent == Event("none", "progress", "none")
Finished == Event("run-finished", "info", "none")

Fresh == [pc |-> "new", serial |-> 0, event |-> NoEvent, own |-> 0, number |-> 0, left |-> 0, before |-> 0, made |-> 0]
LogInit ==
  /\ serial = 0 /\ dirs = {} /\ metadata = {} /\ index = <<>>
  /\ seq = 0 /\ stream = <<>> /\ written = 0 /\ errors = 0
  /\ counts = [o \in Outcomes \cup {"retries"} |-> 0] /\ raw = <<>>
  /\ thread = [t \in Threads |-> [Fresh EXCEPT !.left = MaxEvents[t]]] /\ main = [pc |-> "working", stats |-> counts, number |-> 0, before |-> 0]
  /\ faults = 0 /\ returned = {}

At(t, pc) == thread[t].pc = pc
Set(t, r) == thread' = [thread EXCEPT ![t] = r]
Goto(t, pc) == Set(t, [thread[t] EXCEPT !.pc = pc])
filesVars == <<serial, dirs, metadata, index>>
emitVars == <<seq, stream, written, errors, counts, faults, returned>>

------------------------------------------------------------------------------
(* Workspaces.                                                              *)

workspace_directory_name(number, name) == <<number, name>>
Named(t) == workspace_directory_name(thread[t].serial, NameOf[t])

\* create_workspace: the serial, the three directories, which must not exist,
\* then the metadata and the line of the index; an error ends it there.
TakeSerial(t) ==
  /\ At(t, "new") /\ serial' = serial + 1
  /\ Set(t, [thread[t] EXCEPT !.pc = "log", !.serial = serial])
  /\ UNCHANGED <<dirs, metadata, index, raw, main>> /\ UNCHANGED emitVars
CreateDir(t, pc, dir, next) ==
  /\ At(t, pc)
  /\ IF dir \in dirs THEN Goto(t, "ended") /\ UNCHANGED dirs
     ELSE \/ dirs' = dirs \cup {dir} /\ Goto(t, next)
          \/ UNCHANGED dirs /\ Goto(t, "ended")
  /\ UNCHANGED <<serial, metadata, index, raw, main>> /\ UNCHANGED emitVars
CreateDirs(t) ==
  \/ CreateDir(t, "log", <<"log", Named(t)>>, "raw")
  \/ CreateDir(t, "raw", <<"raw", Named(t)>>, "temp")
  \/ CreateDir(t, "temp", <<"temp", Named(t)>>, "meta")
write_workspace_metadata(t) ==
  /\ At(t, "meta")
  /\ \/ metadata' = metadata \cup {Named(t)} /\ Goto(t, "index")
     \/ UNCHANGED metadata /\ Goto(t, "ended")
  /\ UNCHANGED <<serial, dirs, index, raw, main>> /\ UNCHANGED emitVars
\* The end of a line of the index, and a part of a record.
IndexEnd == <<"end">>
Torn == <<"torn">>
\* A failed append leaves nothing, a part of the record, or all but its end.
append_workspace_index(t) ==
  /\ At(t, "index")
  /\ \/ index' = index \o <<Named(t), IndexEnd>> /\ Goto(t, "idle")
     \/ index' \in {index, Append(index, Torn), Append(index, Named(t))} /\ Goto(t, "ended")
  /\ UNCHANGED <<serial, dirs, metadata, raw, main>> /\ UNCHANGED emitVars

\* allocate_raw_log_path: the second path of a label is numbered.  The steps
\* of a thread all have names that come to the same label.
unique_path(dir, base, used) == <<dir, base, Len(SelectSeq(used, LAMBDA p : p[1] = dir /\ p[2] = base)) + 1>>
allocate_raw_log_path(t) ==
  /\ At(t, "idle") /\ thread[t].made < MaxRaw[t]
  /\ raw' = Append(raw, unique_path(Named(t), "step", raw))
  /\ Set(t, [thread[t] EXCEPT !.made = @ + 1])
  /\ UNCHANGED main /\ UNCHANGED filesVars /\ UNCHANGED emitVars

------------------------------------------------------------------------------
(* emit.                                                                    *)

\* log_event of a bound logger: the subject's own number first.
log_event(t) ==
  /\ At(t, "idle") /\ thread[t].left > 0
  /\ \E e \in Emitted[t] :
       Set(t, [thread[t] EXCEPT !.pc = "number", !.event = e, !.left = @ - 1, !.before = Len(stream)])
  /\ UNCHANGED <<raw, main>> /\ UNCHANGED filesVars /\ UNCHANGED emitVars
Number(t) ==
  /\ At(t, "number")
  /\ Set(t, [thread[t] EXCEPT !.pc = "append", !.number = seq, !.own = IF Persistent(thread[t].event) THEN @ + 1 ELSE @])
  /\ seq' = IF Persistent(thread[t].event) THEN seq + 1 ELSE seq
  /\ UNCHANGED <<raw, main, stream, written, errors, counts, faults, returned>> /\ UNCHANGED filesVars

\* The file sink, under its mutex: append and, for some events, flush.  The
\* writer may write out its buffer whenever something is appended.
Fault == faults < MaxFaults /\ faults' = faults + 1 /\ errors' = errors + 1
write_event(e, line) ==
  IF ~Persistent(e) THEN UNCHANGED <<stream, written, errors, faults>>
  ELSE LET full == stream \o <<line, Newline>> IN
    \/ /\ stream' = full /\ UNCHANGED <<errors, faults>>
       /\ written' \in IF flush_now(e) THEN {Len(full)} ELSE {written, Len(stream)}
    \/ /\ Fault /\ stream' \in {stream, Append(stream, line)}
       /\ written' \in written..Len(stream)
    \/ /\ flush_now(e) /\ Fault /\ stream' = full
       /\ written' \in written..(Len(full) - 1)
AppendEvent(t) ==
  /\ At(t, "append")
  /\ write_event(thread[t].event, Line(thread[t].event, thread[t].number, t, thread[t].own - 1))
  /\ Goto(t, "count")
  /\ UNCHANGED <<seq, counts, raw, main, returned>> /\ UNCHANGED filesVars

\* RetrySink and OutcomeSink: the transfers of a repository fail and are
\* cancelled without a subject's being so.
Counted(e) ==
  [o \in DOMAIN counts |-> counts[o] + (IF e.outcome = o \/ (o = "retries" /\ e.retry) THEN 1 ELSE 0)]
Returned(number, before, failures) == [number |-> number, before |-> before, errors |-> failures]
Count(t) ==
  /\ At(t, "count")
  /\ counts' = Counted(thread[t].event) /\ Goto(t, "idle")
  /\ returned' = returned \cup (IF Important(thread[t].event) THEN {Returned(thread[t].number, thread[t].before, errors)} ELSE {})
  /\ UNCHANGED <<seq, stream, written, errors, faults, raw, main>> /\ UNCHANGED filesVars
End(t) ==
  /\ At(t, "idle") /\ Goto(t, "ended")
  /\ UNCHANGED <<raw, main>> /\ UNCHANGED filesVars /\ UNCHANGED emitVars

------------------------------------------------------------------------------
(* The end of the run.                                                      *)

\* realize waits for the goals and for the executor's shutdown; then the
\* counters are read into the event that finishes the run.
log_run_finished ==
  /\ main.pc = "working" /\ \A t \in Threads : At(t, "ended")
  /\ main' = [main EXCEPT !.pc = "number", !.stats = counts, !.before = Len(stream)]
  /\ UNCHANGED <<thread, raw>> /\ UNCHANGED filesVars /\ UNCHANGED emitVars
NumberFinish ==
  /\ main.pc = "number" /\ main' = [main EXCEPT !.pc = "append", !.number = seq] /\ seq' = seq + 1
  /\ UNCHANGED <<thread, raw, stream, written, errors, counts, faults, returned>> /\ UNCHANGED filesVars
AppendFinish ==
  /\ main.pc = "append" /\ write_event(Finished, Line(Finished, main.number, "run", 0))
  /\ main' = [main EXCEPT !.pc = "flush"]
  /\ returned' = returned \cup {Returned(main.number, main.before, errors')}
  /\ UNCHANGED <<thread, raw, seq, counts>> /\ UNCHANGED filesVars
\* flush, and the writer's own when the logger is dropped.
flush ==
  /\ main.pc = "flush" /\ main' = [main EXCEPT !.pc = "ended"]
  /\ \/ written' = Len(stream) /\ UNCHANGED <<errors, faults>>
     \/ Fault /\ written' \in written..(Len(stream) - 1)
  /\ UNCHANGED <<thread, raw, seq, stream, counts, returned>> /\ UNCHANGED filesVars

LogNext ==
  \/ \E t \in Threads :
       \/ TakeSerial(t) \/ CreateDirs(t) \/ write_workspace_metadata(t) \/ append_workspace_index(t)
       \/ allocate_raw_log_path(t) \/ log_event(t) \/ Number(t) \/ AppendEvent(t) \/ Count(t) \/ End(t)
  \/ log_run_finished \/ NumberFinish \/ AppendFinish \/ flush

------------------------------------------------------------------------------
(* What the records are for.                                                *)

Lines(pieces) == {i \in DOMAIN pieces : ~pieces[i].nl}
InFile == SubSeq(stream, 1, written)
\* The numbers of the event log are its records': none twice, none without a
\* record unless an error was counted, and a subject's own numbers in order
\* along them.
NumbersExact ==
  /\ \A i, j \in Lines(stream) : i # j => stream[i].seq # stream[j].seq
  /\ \A i, j \in Lines(stream) : (i < j /\ stream[i].subject = stream[j].subject /\ stream[i].subject # "run") =>
       stream[i].own < stream[j].own /\ stream[i].seq < stream[j].seq
  /\ (errors = 0 /\ main.pc \in {"flush", "ended"}) => {stream[i].seq : i \in Lines(stream)} = 0..(seq - 1)
\* Without an error every line is one record.
LinesWhole == errors = 0 => \A i \in DOMAIN stream : stream[i].nl <=> i % 2 = 0
\* An error, a warning and the end of the run are in the file once their emit
\* has returned, with all that was logged before, unless an error was counted;
\* a crash then loses nothing of it.
ImportantDurable ==
  \A r \in returned : r.errors = 0 =>
    /\ written >= r.before
    /\ \E i \in Lines(InFile) : InFile[i].seq = r.number
RunLogDurable == NumbersExact /\ LinesWhole /\ ImportantDurable

\* Workspaces are never shared, one that the index has is complete, and the
\* index has those that are worked in, whatever else failed to be written.
Working(t) == thread[t].pc \in {"idle", "number", "append", "count"}
WorkspacesOwn ==
  LET records == {i \in DOMAIN index : index[i] \notin {IndexEnd, Torn}} IN
  /\ \A i, j \in records : i # j => index[i] # index[j]
  /\ \A i \in records : index[i] \in metadata /\ \A d \in {"log", "raw", "temp"} : <<d, index[i]>> \in dirs
  /\ \A t \in Threads : Working(t) => \E i \in records : index[i] = Named(t)
  /\ \A t, u \in Threads : (Working(t) /\ Working(u) /\ t # u) => Named(t) # Named(u)
  /\ \A i, j \in DOMAIN raw : i # j => raw[i] # raw[j]
\* The counts that the end of the run reports are those of its own log.
SummaryMatchesLog ==
  (errors = 0 /\ main.pc \in {"flush", "ended"}) =>
    \A o \in Outcomes : main.stats[o] = Cardinality({i \in Lines(stream) : stream[i].event.outcome = o})
RunRecordsAgree == WorkspacesOwn /\ SummaryMatchesLog
\* What is left of a run after it, or after a crash, tells what happened.
RecordsTrue == RunLogDurable /\ RunRecordsAgree
=============================================================================
