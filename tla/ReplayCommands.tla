---------------------------- MODULE ReplayCommands ----------------------------
(***************************************************************************)
(* The commands that replay or write one telemetry stream: inspect and     *)
(* analyze of cowbot/cli.py, the lazy reader and write_path of             *)
(* cowbot/stream.py, and the report of cowbot/report.py.  A stream is      *)
(* taken a line at a time by its consumer, who learns only after the last  *)
(* one whether all of it was acceptable.  Outputs are staged beside their  *)
(* name, synced, and renamed (--overwrite) or linked.  Commands run at the *)
(* same time; any call may fail, a command may be killed, and the machine  *)
(* may crash, which cuts files that were not synced.                       *)
(***************************************************************************)
EXTENDS Integers, Sequences

CONSTANTS
    Commands,         \* invocations on the same stream and report
    MaxSamples,       \* MAX_SAMPLES
    CalibrationEnd,   \* rows before the first monitored one
    MaxObservations,  \* MAX_REPORT_OBSERVATIONS, for one metric
    Streams           \* what files and the callers of write_path may hold

ASSUME LimitsAssumption ==
    /\ MaxSamples \in Nat \ {0}
    /\ CalibrationEnd \in Nat
    /\ MaxObservations \in Nat
    /\ Streams \subseteq [schema : BOOLEAN, samples : Seq(Int)]

Kinds == {"inspect", "analyze", "write"}
Names == {"stream", "report"}

\* A sample's line is its index if every other check of the line passes, and
\* Bad if one does not: length, encoding, nesting, duplicate fields, types,
\* timestamp, metrics, bounds.
Bad == -1

\* A stream without a sample, standing also for what no command wrote.
Empty == [schema |-> TRUE, samples |-> <<>>]

\* What a name leads to; a report is told by the telemetry it is of and the
\* digest it gives for it.
Entry(type, data, digest, synced) ==
    [type |-> type, data |-> data, digest |-> digest, synced |-> synced]
Absent == Entry("absent", Empty, Empty, TRUE)
Link == Entry("link", Empty, Empty, TRUE)
Old == Entry("regular", Empty, Empty, TRUE)
Present(s) == Entry("regular", s, s, TRUE)

VARIABLES
    pc,        \* pc[c]: what the command does next
    kind,      \* kind[c]: which command it is
    overwrite, \* the commands with --overwrite
    supply,    \* supply[c]: the samples write_path is given
    reading,   \* reading[c]: the bytes of the file the command has open
    digest,    \* digest[c]: the bytes it has hashed
    count,     \* count[c]: samples taken so far
    stage,     \* stage[c]: "none", "cut" or "whole", its temporary file
    synced,    \* the commands whose temporary file is synced
    status,    \* status[c]: "none", "ok" or "failed"
    files,     \* files[n]: what the name leads to
    replaced,  \* history: commands during which the stream was replaced
    crashed    \* the machine has crashed

inputs == <<kind, overwrite, supply>>
reader == <<reading, digest, count>>
staging == <<stage, synced>>
vars == <<pc, inputs, reader, staging, status, files, replaced, crashed>>

Steps == {"begin", "open", "schema", "samples", "print", "monitor", "check",
          "stage", "payload", "append", "sync", "publish", "unlink", "tidy", "done"}
Data == [schema : BOOLEAN, samples : Seq(Int)]
Entries == [type : {"absent", "link", "regular", "cut"}, data : Data,
            digest : Data, synced : BOOLEAN]

TypeOK ==
    /\ pc \in [Commands -> Steps]
    /\ kind \in [Commands -> Kinds]
    /\ overwrite \in SUBSET Commands
    /\ supply \in [Commands -> Data]
    /\ reading \in [Commands -> Data]
    /\ digest \in [Commands -> Data]
    /\ count \in [Commands -> 0 .. MaxSamples]
    /\ stage \in [Commands -> {"none", "cut", "whole"}]
    /\ synced \in SUBSET Commands
    /\ status \in [Commands -> {"none", "ok", "failed"}]
    /\ files \in [Names -> Entries]
    /\ replaced \in SUBSET Commands
    /\ crashed \in BOOLEAN

Init ==
    /\ kind \in [Commands -> Kinds]
    /\ overwrite \in SUBSET Commands
    /\ supply \in [Commands -> Streams]
    /\ \A c \in Commands : kind[c] # "write" => supply[c] = Empty
    /\ pc = [c \in Commands |-> "begin"]
    /\ reading = [c \in Commands |-> Empty]
    /\ digest = [c \in Commands |-> Empty]
    /\ count = [c \in Commands |-> 0]
    /\ stage = [c \in Commands |-> "none"]
    /\ synced = {}
    /\ status = [c \in Commands |-> "none"]
    /\ \E s \in {Absent} \cup {Present(t) : t \in Streams},
          r \in {Absent, Link, Old} :
         files = [n \in Names |-> IF n = "stream" THEN s ELSE r]
    /\ replaced = {}
    /\ crashed = FALSE

Step(c, from, to) == pc[c] = from /\ pc' = [pc EXCEPT ![c] = to]

Finish(c, from, how) ==
    /\ Step(c, from, "done")
    /\ status' = [status EXCEPT ![c] = how]

Output(c) == IF kind[c] = "write" THEN "stream" ELSE "report"

-------------------------------------------------------------------------------
(* Reading.                                                                 *)

\* analyze looks at its output first, and again before it stages anything.
OutputsAreSafe(c) ==
    /\ files["report"].type # "link"
    /\ c \in overwrite \/ files["report"].type = "absent"

BeginAnalyze(c) ==
    /\ kind[c] = "analyze"
    /\ Step(c, "begin", "open")
    /\ OutputsAreSafe(c)
    /\ UNCHANGED <<inputs, reader, staging, status, files, replaced, crashed>>

\* inspect hashes the file, closes it and opens it again.
HashStream(c) ==
    /\ kind[c] = "inspect"
    /\ files["stream"].type = "regular"
    /\ Step(c, "begin", "open")
    /\ digest' = [digest EXCEPT ![c] = files["stream"].data]
    /\ UNCHANGED <<inputs, reading, count, staging, status, files, replaced,
                   crashed>>

OpenStream(c) ==
    /\ kind[c] = "inspect"
    /\ files["stream"].type = "regular"
    /\ Step(c, "open", "schema")
    /\ reading' = [reading EXCEPT ![c] = files["stream"].data]
    /\ UNCHANGED <<inputs, digest, count, staging, status, files, replaced,
                   crashed>>

\* analyze reads the bytes once, refuses a link, and hashes what it read.
ReadTelemetry(c) ==
    /\ kind[c] = "analyze"
    /\ files["stream"].type = "regular"
    /\ Step(c, "open", "schema")
    /\ reading' = [reading EXCEPT ![c] = files["stream"].data]
    /\ digest' = [digest EXCEPT ![c] = files["stream"].data]
    /\ UNCHANGED <<inputs, count, staging, status, files, replaced, crashed>>

ReadSchema(c) ==
    /\ reading[c].schema
    /\ Step(c, "schema", "samples")
    /\ UNCHANGED <<inputs, reader, staging, status, files, replaced, crashed>>

NextIs(s, n) == n < Len(s) /\ s[n + 1] = n

\* One sample is handed to the consumer.
TakeSample(c) ==
    /\ count[c] < MaxSamples
    /\ NextIs(reading[c].samples, count[c])
    /\ Step(c, "samples", "samples")
    /\ count' = [count EXCEPT ![c] = @ + 1]
    /\ UNCHANGED <<inputs, reading, digest, staging, status, files, replaced,
                   crashed>>

AfterSamples(c) == IF kind[c] = "analyze" THEN "monitor" ELSE "print"

\* Mutant: nothing is read past the last sample that is allowed.
EndOfStream_Cut(c) ==
    /\ count[c] = MaxSamples \/ Len(reading[c].samples) = count[c]
    /\ count[c] > 0
    /\ Step(c, "samples", AfterSamples(c))
    /\ UNCHANGED <<inputs, reader, staging, status, files, replaced, crashed>>

\* The end of the file, or one character looked for after MAX_SAMPLES.
EndOfStream(c) ==
    /\ Len(reading[c].samples) = count[c]
    /\ count[c] > 0
    /\ Step(c, "samples", AfterSamples(c))
    /\ UNCHANGED <<inputs, reader, staging, status, files, replaced, crashed>>

PrintInspection(c) ==
    /\ Finish(c, "print", "ok")
    /\ UNCHANGED <<inputs, reader, staging, files, replaced, crashed>>

-------------------------------------------------------------------------------
(* The report.                                                              *)

\* Rows to monitor, and no more observations than a report may have.
Reportable(n) == n > CalibrationEnd /\ n - CalibrationEnd <= MaxObservations

PrepareReport(c) ==
    /\ Reportable(count[c])
    /\ Step(c, "monitor", "check")
    /\ UNCHANGED <<inputs, reader, staging, status, files, replaced, crashed>>

\* publish_report_path refuses a link, and only a link: the name may be taken.
CheckOutput(c) ==
    /\ files["report"].type # "link"
    /\ Step(c, "check", "stage")
    /\ UNCHANGED <<inputs, reader, staging, status, files, replaced, crashed>>

StageReport(c) ==
    /\ kind[c] = "analyze"
    /\ \/ /\ Step(c, "stage", "payload")
          /\ stage' = [stage EXCEPT ![c] = "cut"]
       \/ /\ Step(c, "payload", "sync")
          /\ stage' = [stage EXCEPT ![c] = "whole"]
    /\ UNCHANGED <<inputs, reader, synced, status, files, replaced, crashed>>

-------------------------------------------------------------------------------
(* write_path: samples are validated and written one by one to the stage.   *)

BeginWrite(c) ==
    /\ kind[c] = "write"
    /\ Step(c, "begin", "append")
    /\ stage' = [stage EXCEPT ![c] = "cut"]
    /\ UNCHANGED <<inputs, reader, synced, status, files, replaced, crashed>>

AppendSample(c) ==
    /\ count[c] < MaxSamples
    /\ NextIs(supply[c].samples, count[c])
    /\ Step(c, "append", "append")
    /\ count' = [count EXCEPT ![c] = @ + 1]
    /\ UNCHANGED <<inputs, reading, digest, staging, status, files, replaced,
                   crashed>>

EndOfSamples(c) ==
    /\ Len(supply[c].samples) = count[c]
    /\ count[c] > 0
    /\ Step(c, "append", "sync")
    /\ stage' = [stage EXCEPT ![c] = "whole"]
    /\ UNCHANGED <<inputs, reader, synced, status, files, replaced, crashed>>

-------------------------------------------------------------------------------
(* Publication of a staged file.                                            *)

\* Mutant: the file is flushed, not synced.
Sync_Flush(c) ==
    /\ Step(c, "sync", "publish")
    /\ UNCHANGED <<inputs, reader, staging, status, files, replaced, crashed>>

Sync(c) ==
    /\ Step(c, "sync", "publish")
    /\ synced' = synced \cup {c}
    /\ UNCHANGED <<inputs, reader, stage, status, files, replaced, crashed>>

Staged(c) ==
    IF kind[c] = "write"
      THEN Entry("regular", [schema |-> TRUE, samples |-> supply[c].samples],
                 [schema |-> TRUE, samples |-> supply[c].samples], c \in synced)
      ELSE Entry("regular", reading[c], digest[c], c \in synced)

Publishes(c) ==
    /\ files' = [files EXCEPT ![Output(c)] = Staged(c)]
    /\ replaced' = IF kind[c] = "write"
                     THEN replaced \cup {d \in Commands : pc[d] # "begin"}
                     ELSE replaced

\* os.replace: the name changes over at once, the temporary one is gone.
Replace(c) ==
    /\ c \in overwrite
    /\ Step(c, "publish", "tidy")
    /\ Publishes(c)
    /\ stage' = [stage EXCEPT ![c] = "none"]
    /\ status' = [status EXCEPT ![c] = "ok"]
    /\ UNCHANGED <<inputs, reader, synced, crashed>>

\* Mutant: the name is looked at, and then replaced.
LinkStage_Look(c) ==
    /\ c \notin overwrite
    /\ \/ /\ files[Output(c)].type = "absent"
          /\ Step(c, "publish", "move")
          /\ UNCHANGED <<files, replaced>>
       \/ /\ Step(c, "move", "unlink")
          /\ Publishes(c)
    /\ UNCHANGED <<inputs, reader, staging, status, crashed>>

\* os.link fails if the name is taken, by a file or a link.
LinkStage(c) ==
    /\ c \notin overwrite
    /\ files[Output(c)].type = "absent"
    /\ Step(c, "publish", "unlink")
    /\ Publishes(c)
    /\ UNCHANGED <<inputs, reader, staging, status, crashed>>

UnlinkStage(c) ==
    /\ Step(c, "unlink", "tidy")
    /\ stage' = [stage EXCEPT ![c] = "none"]
    /\ status' = [status EXCEPT ![c] = "ok"]
    /\ UNCHANGED <<inputs, reader, synced, files, replaced, crashed>>

\* The finally block: the temporary file is removed if it is still there.  If
\* that fails it stays and the command reports the error.
Tidy(c) ==
    /\ Step(c, "tidy", "done")
    /\ \/ stage' = [stage EXCEPT ![c] = "none"] /\ UNCHANGED status
       \/ /\ stage[c] # "none"
          /\ status' = [status EXCEPT ![c] = "failed"]
          /\ UNCHANGED stage
    /\ UNCHANGED <<inputs, reader, synced, files, replaced, crashed>>

\* A check that does not hold, an OSError, an interrupt.
FailCommand(c) ==
    /\ pc[c] \notin {"tidy", "done"}
    /\ pc' = [pc EXCEPT ![c] = IF stage[c] = "none" THEN "done" ELSE "tidy"]
    /\ status' = [status EXCEPT ![c] = "failed"]
    /\ UNCHANGED <<inputs, reader, staging, files, replaced, crashed>>

Kill(c) ==
    /\ pc[c] # "done"
    /\ pc' = [pc EXCEPT ![c] = "done"]
    /\ status' = [status EXCEPT ![c] = "failed"]
    /\ UNCHANGED <<inputs, reader, staging, files, replaced, crashed>>

\* Every command dies.  Bytes that were not synced are gone; that the name may
\* have gone back too is what a kill just before leaves.
Crash ==
    /\ ~crashed
    /\ crashed' = TRUE
    /\ pc' = [c \in Commands |-> "done"]
    /\ status' = [c \in Commands |->
                    IF pc[c] = "done" THEN status[c] ELSE "failed"]
    /\ files' = [n \in Names |->
                   IF files[n].synced THEN files[n]
                   ELSE [files[n] EXCEPT !.type = "cut"]]
    /\ UNCHANGED <<inputs, reader, staging, replaced>>

Reading(c) ==
    \/ BeginAnalyze(c)
    \/ HashStream(c)
    \/ OpenStream(c)
    \/ ReadTelemetry(c)
    \/ ReadSchema(c)
    \/ TakeSample(c)
    \/ EndOfStream(c)
    \/ PrintInspection(c)

Writing(c) ==
    \/ PrepareReport(c)
    \/ CheckOutput(c)
    \/ StageReport(c)
    \/ BeginWrite(c)
    \/ AppendSample(c)
    \/ EndOfSamples(c)
    \/ Sync(c)
    \/ Replace(c)
    \/ LinkStage(c)
    \/ UnlinkStage(c)
    \/ Tidy(c)

Next ==
    \/ \E c \in Commands : Reading(c) \/ Writing(c) \/ FailCommand(c) \/ Kill(c)
    \/ Crash

Spec == Init /\ [][Next]_vars

-------------------------------------------------------------------------------
(* Properties.                                                              *)

\* Exactly the samples 0 .. n-1, at least one and no more than MAX_SAMPLES.
Exact(s) ==
    /\ s.schema
    /\ Len(s.samples) \in 1 .. MaxSamples
    /\ \A i \in 1 .. Len(s.samples) : s.samples[i] = i - 1

\* A command that reports success has replayed all of an acceptable stream:
\* the consumer of the lazy reader did not stop at a prefix.  The digest that
\* goes with it is of the same bytes; inspect, which opens the file twice,
\* promises that only while nobody replaces the stream.
AcceptedIsExact ==
    \A c \in Commands : status[c] = "ok" /\ kind[c] # "write" =>
      /\ Exact(reading[c])
      /\ digest[c] = reading[c] \/ (kind[c] = "inspect" /\ c \in replaced)

\* "published as one complete file" (docs/method.md): under either name there
\* is never a part of a file, also after a crash, and never a report of a
\* stream that could not be replayed, or of another than it names.
OutputsAreWhole ==
    /\ \A n \in Names : files[n].type # "cut"
    /\ files["report"].type = "regular" /\ files["report"] # Old =>
         /\ Exact(files["report"].data)
         /\ Reportable(Len(files["report"].data.samples))
         /\ files["report"].digest = files["report"].data

\* "Existing output is preserved unless --overwrite is explicit"
\* (docs/method.md), whatever was there when the command looked.
ExistingIsKept ==
    [][\A n \in Names :
         files[n].type # "absent" /\ files'[n] # files[n] =>
           \/ \E c \in overwrite : pc[c] = "publish" /\ Output(c) = n
           \/ crashed' # crashed]_vars
==============================================================================
