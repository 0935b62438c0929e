------------------------- MODULE ReplayCommandsProofs -------------------------
(***************************************************************************)
(* Any number of commands on one stream and one report, with any limits.   *)
(* A command is followed along its own program counter: how much of its    *)
(* stream it has seen in order (Prefix), that it passed the end only when  *)
(* that was all (Complete), and that what it gives a name is synced.       *)
(* Nothing another command does matters to it but that the stream may be   *)
(* replaced between the two times inspect opens it (Digested).             *)
(***************************************************************************)
EXTENDS ReplayCommands, TLAPS

\* The samples a command goes through.
Source(c) == IF kind[c] = "write" THEN supply[c] ELSE reading[c]

\* A command that has to report has only so much to report.
Fitting(c) == kind[c] = "analyze" => Reportable(count[c])

\* Which steps belong to which command.
Route(c) ==
    /\ kind[c] = "inspect" =>
         pc[c] \in {"begin", "open", "schema", "samples", "print", "tidy", "done"}
    /\ kind[c] = "write" =>
         pc[c] \in {"begin", "append", "sync", "publish", "unlink", "tidy", "done"}
    /\ kind[c] = "analyze" => pc[c] \notin {"print", "append"}

Unstarted == {"begin", "open", "schema"}
Counting == {"samples", "append"}
Ended == {"print", "monitor", "check", "stage", "payload", "sync", "publish",
          "unlink"}
Fit == {"check", "stage", "payload", "sync", "publish", "unlink"}

\* The samples taken so far are 0 .. count - 1, in order.
Prefix(c) ==
    /\ pc[c] \in Unstarted => count[c] = 0
    /\ pc[c] \in Counting =>
         /\ kind[c] # "write" => reading[c].schema
         /\ count[c] <= Len(Source(c).samples)
         /\ \A i \in 1 .. count[c] : Source(c).samples[i] = i - 1

\* All of it was seen.
Whole(c) ==
    /\ kind[c] # "write" => reading[c].schema
    /\ Len(Source(c).samples) = count[c]
    /\ count[c] > 0
    /\ \A i \in 1 .. count[c] : Source(c).samples[i] = i - 1

Complete(c) ==
    /\ pc[c] \in Ended => Whole(c)
    /\ pc[c] \in Fit => Fitting(c)
    /\ status[c] = "ok" => pc[c] \in {"tidy", "done"} /\ Whole(c) /\ Fitting(c)

Opened == {"schema", "samples"} \cup Ended

\* The digest is of what is read.
Digested(c) ==
    /\ kind[c] = "analyze" /\ (pc[c] \in Opened \/ status[c] = "ok") =>
         digest[c] = reading[c]
    /\ kind[c] = "inspect" =>
         /\ pc[c] = "open" => digest[c] = files["stream"].data \/ c \in replaced
         /\ pc[c] \in Opened \/ status[c] = "ok" =>
              digest[c] = reading[c] \/ c \in replaced

Durable(c) == pc[c] \in {"publish", "unlink"} => c \in synced

CommandInv(c) ==
    Route(c) /\ Prefix(c) /\ Complete(c) /\ Digested(c) /\ Durable(c)

GoodReport(f) ==
    /\ Exact(f.data)
    /\ Reportable(Len(f.data.samples))
    /\ f.digest = f.data

FilesInv ==
    /\ \A n \in Names : files[n].synced /\ files[n].type # "cut"
    /\ files["report"].type = "regular" /\ files["report"] # Old =>
         GoodReport(files["report"])

Inv == TypeOK /\ (\A c \in Commands : CommandInv(c)) /\ FilesInv

-------------------------------------------------------------------------------
(* Types and initial states.                                                *)

LEMMA ConstantTypes ==
    /\ MaxSamples \in Nat \ {0}
    /\ CalibrationEnd \in Nat
    /\ MaxObservations \in Nat
    /\ Streams \subseteq Data
    /\ Empty \in Data
    /\ {Absent, Link, Old} \subseteq Entries
<1>1. Empty \in Data
  BY DEF Empty, Data
<1> QED
  BY <1>1, LimitsAssumption DEF Data, Absent, Link, Old, Entry, Entries

LEMMA Initially == Init => Inv
<1> SUFFICES ASSUME Init PROVE Inv
  OBVIOUS
<1>1. PICK s \in {Absent} \cup {Present(t) : t \in Streams},
           r \in {Absent, Link, Old} :
        files = [n \in Names |-> IF n = "stream" THEN s ELSE r]
  BY DEF Init
<1>2. s \in Entries /\ s.synced /\ s.type # "cut"
  <2>1. CASE s = Absent
    BY <2>1, ConstantTypes DEF Absent, Entry
  <2>2. ASSUME NEW t \in Streams, s = Present(t) PROVE s \in Entries /\ s.synced /\ s.type # "cut"
    <3>1. t \in Data
      BY ConstantTypes
    <3> QED
      BY <2>2, <3>1 DEF Present, Entry, Entries
  <2> QED
    BY <2>1, <2>2
<1>3. r \in Entries /\ r.synced /\ r.type # "cut" /\ (r.type = "regular" => r = Old)
  BY ConstantTypes DEF Entry, Entries, Absent, Link, Old
<1>4. TypeOK
  <2>1. files \in [Names -> Entries]
    BY <1>1, <1>2, <1>3
  <2>2. supply \in [Commands -> Data]
    BY ConstantTypes DEF Init
  <2>3. reading \in [Commands -> Data] /\ digest \in [Commands -> Data]
    BY ConstantTypes DEF Init
  <2>4. count \in [Commands -> 0 .. MaxSamples]
    <3>1. 0 \in 0 .. MaxSamples
      BY ConstantTypes
    <3> QED
      BY <3>1 DEF Init
  <2>5. pc \in [Commands -> Steps]
    BY DEF Init, Steps
  <2> QED
    BY <2>1, <2>2, <2>3, <2>4, <2>5 DEF Init, TypeOK
<1>5. \A c \in Commands : CommandInv(c)
  BY DEF Init, CommandInv, Route, Prefix, Complete, Digested, Durable, Unstarted,
         Counting, Ended, Fit, Opened
<1>6. FilesInv
  BY <1>1, <1>2, <1>3 DEF FilesInv, Names
<1> QED
  BY <1>4, <1>5, <1>6 DEF Inv

-------------------------------------------------------------------------------
(* What moves.                                                              *)

LEMMA StepTypes ==
  ASSUME TypeOK, NEW c \in Commands, NEW from, NEW to \in Steps, Step(c, from, to)
  PROVE  /\ pc' \in [Commands -> Steps]
         /\ pc'[c] = to
         /\ \A d \in Commands : d # c => pc'[d] = pc[d]
BY DEF TypeOK, Step

LEMMA StagedEntry ==
  ASSUME TypeOK, NEW c \in Commands
  PROVE  /\ Staged(c) \in Entries
         /\ Staged(c).type = "regular"
         /\ Staged(c).synced = (c \in synced)
         /\ kind[c] = "analyze" => Staged(c).data = reading[c] /\ Staged(c).digest = digest[c]
<1>1. reading[c] \in Data /\ digest[c] \in Data /\ supply[c] \in Data
  BY DEF TypeOK
<1>2. [schema |-> TRUE, samples |-> supply[c].samples] \in Data
  BY <1>1 DEF Data
<1> QED
  BY <1>1, <1>2 DEF Staged, Entry, Entries

LEMMA PublishTypes ==
  ASSUME TypeOK, NEW c \in Commands, Publishes(c)
  PROVE  files' \in [Names -> Entries] /\ replaced' \in SUBSET Commands
<1>1. Output(c) \in Names
  BY DEF Output, Names
<1> QED
  BY <1>1, StagedEntry DEF TypeOK, Publishes

LEMMA TypesOfReading ==
  ASSUME TypeOK, NEW c \in Commands, Reading(c)
  PROVE  TypeOK'
<1> USE DEF TypeOK, inputs, reader, staging, Steps, Step
<1>1. files["stream"].data \in Data
  BY DEF Names, Entries
<1>2. CASE BeginAnalyze(c)
  BY <1>2 DEF BeginAnalyze
<1>3. CASE HashStream(c)
  BY <1>1, <1>3 DEF HashStream
<1>4. CASE OpenStream(c)
  BY <1>1, <1>4 DEF OpenStream
<1>5. CASE ReadTelemetry(c)
  BY <1>1, <1>5 DEF ReadTelemetry
<1>6. CASE ReadSchema(c)
  BY <1>6 DEF ReadSchema
<1>7. CASE TakeSample(c)
  <2>1. count[c] + 1 \in 0 .. MaxSamples
    BY <1>7, ConstantTypes DEF TakeSample
  <2> QED
    BY <1>7, <2>1 DEF TakeSample
<1>8. CASE EndOfStream(c)
  BY <1>8 DEF EndOfStream, AfterSamples
<1>9. CASE PrintInspection(c)
  BY <1>9 DEF PrintInspection, Finish
<1> QED
  BY <1>2, <1>3, <1>4, <1>5, <1>6, <1>7, <1>8, <1>9 DEF Reading

LEMMA TypesOfWriting ==
  ASSUME TypeOK, NEW c \in Commands, Writing(c)
  PROVE  TypeOK'
<1> USE DEF TypeOK, inputs, reader, staging, Steps, Step
<1>1. CASE PrepareReport(c)
  BY <1>1 DEF PrepareReport
<1>2. CASE CheckOutput(c)
  BY <1>2 DEF CheckOutput
<1>3. CASE StageReport(c)
  BY <1>3 DEF StageReport
<1>4. CASE BeginWrite(c)
  BY <1>4 DEF BeginWrite
<1>5. CASE AppendSample(c)
  <2>1. count[c] + 1 \in 0 .. MaxSamples
    BY <1>5, ConstantTypes DEF AppendSample
  <2> QED
    BY <1>5, <2>1 DEF AppendSample
<1>6. CASE EndOfSamples(c)
  BY <1>6 DEF EndOfSamples
<1>7. CASE Sync(c)
  BY <1>7 DEF Sync
<1>8. CASE Replace(c)
  <2>1. files' \in [Names -> Entries] /\ replaced' \in SUBSET Commands
    BY <1>8, PublishTypes DEF Replace
  <2> QED
    BY <1>8, <2>1 DEF Replace
<1>9. CASE LinkStage(c)
  <2>1. files' \in [Names -> Entries] /\ replaced' \in SUBSET Commands
    BY <1>9, PublishTypes DEF LinkStage
  <2> QED
    BY <1>9, <2>1 DEF LinkStage
<1>10. CASE UnlinkStage(c)
  BY <1>10 DEF UnlinkStage
<1>11. CASE Tidy(c)
  BY <1>11 DEF Tidy
<1> QED
  BY <1>1, <1>2, <1>3, <1>4, <1>5, <1>6, <1>7, <1>8, <1>9, <1>10, <1>11 DEF Writing

LEMMA TypesKept == TypeOK /\ [Next]_vars => TypeOK'
<1> SUFFICES ASSUME TypeOK, [Next]_vars PROVE TypeOK'
  OBVIOUS
<1>1. ASSUME NEW c \in Commands, FailCommand(c) PROVE TypeOK'
  BY <1>1 DEF FailCommand, TypeOK, inputs, reader, staging, Steps
<1>2. ASSUME NEW c \in Commands, Kill(c) PROVE TypeOK'
  BY <1>2 DEF Kill, TypeOK, inputs, reader, staging, Steps
<1>3. CASE Crash
  <2>1. files' \in [Names -> Entries]
    BY <1>3 DEF Crash, TypeOK, Entries
  <2> QED
    BY <1>3, <2>1 DEF Crash, TypeOK, inputs, reader, staging, Steps
<1>4. CASE UNCHANGED vars
  BY <1>4 DEF vars, TypeOK, inputs, reader, staging
<1> QED
  BY <1>1, <1>2, <1>3, <1>4, TypesOfReading, TypesOfWriting DEF Next

-------------------------------------------------------------------------------
(* A command, while another one takes a step.                               *)

\* d itself stands still; the stream is as it was, or d is known to have seen
\* it replaced.
StandsStill(d) ==
    /\ pc'[d] = pc[d]
    /\ kind'[d] = kind[d]
    /\ supply'[d] = supply[d]
    /\ reading'[d] = reading[d]
    /\ digest'[d] = digest[d]
    /\ count'[d] = count[d]
    /\ status'[d] = status[d]
    /\ d \in synced => d \in synced'
    /\ d \in replaced => d \in replaced'
    /\ files'["stream"].data = files["stream"].data
         \/ (pc[d] # "begin" => d \in replaced')

LEMMA StillKeeps ==
  ASSUME NEW d \in Commands, CommandInv(d), StandsStill(d)
  PROVE  CommandInv(d)'
<1> USE DEF StandsStill, CommandInv
<1>1. Source(d)' = Source(d)
  BY DEF Source
<1>2. Whole(d)' = Whole(d) /\ Fitting(d)' = Fitting(d)
  BY <1>1 DEF Whole, Fitting, Reportable
<1>3. Route(d)' /\ Durable(d)'
  BY DEF Route, Durable
<1>4. Prefix(d)'
  BY <1>1 DEF Prefix
<1>5. Complete(d)'
  BY <1>2 DEF Complete
<1>6. Digested(d)'
  BY DEF Digested, Opened
<1> QED
  BY <1>3, <1>4, <1>5, <1>6

LEMMA PublishDisturbs ==
  ASSUME TypeOK, NEW c \in Commands, NEW d \in Commands, Publishes(c)
  PROVE  /\ d \in replaced => d \in replaced'
         /\ files'["stream"].data = files["stream"].data
              \/ (pc[d] # "begin" => d \in replaced')
BY DEF TypeOK, Publishes, Output, Names

LEMMA OthersStandStill ==
  ASSUME TypeOK, NEW c \in Commands, NEW d \in Commands, d # c,
         Reading(c) \/ Writing(c) \/ FailCommand(c) \/ Kill(c)
  PROVE  StandsStill(d)
<1> USE DEF TypeOK, inputs, reader, staging, Step, StandsStill
<1>1. CASE Reading(c)
  BY <1>1 DEF Reading, BeginAnalyze, HashStream, OpenStream, ReadTelemetry,
         ReadSchema, TakeSample, EndOfStream, PrintInspection, Finish
<1>2. CASE Replace(c)
  BY <1>2, PublishDisturbs DEF Replace
<1>3. CASE LinkStage(c)
  BY <1>3, PublishDisturbs DEF LinkStage
<1>4. CASE PrepareReport(c) \/ CheckOutput(c) \/ StageReport(c) \/ BeginWrite(c)
             \/ AppendSample(c) \/ EndOfSamples(c) \/ Sync(c) \/ UnlinkStage(c)
             \/ Tidy(c)
  BY <1>4 DEF PrepareReport, CheckOutput, StageReport, BeginWrite, AppendSample,
         EndOfSamples, Sync, UnlinkStage, Tidy
<1>5. CASE FailCommand(c) \/ Kill(c)
  BY <1>5 DEF FailCommand, Kill
<1> QED
  BY <1>1, <1>2, <1>3, <1>4, <1>5 DEF Writing

-------------------------------------------------------------------------------
(* A command, when it takes a step itself.                                  *)

\* The next sample extends what was seen in order.
LEMMA OneMore ==
  ASSUME NEW n \in Nat, NEW s \in Seq(Int), NextIs(s, n),
         \A i \in 1 .. n : s[i] = i - 1
  PROVE  n + 1 <= Len(s) /\ \A i \in 1 .. n + 1 : s[i] = i - 1
BY DEF NextIs

LEMMA ReadingKeeps ==
  ASSUME TypeOK, NEW c \in Commands, CommandInv(c), Reading(c)
  PROVE  CommandInv(c)'
<1> USE DEF TypeOK, inputs, reader, staging, CommandInv, Step
<1>1. CASE BeginAnalyze(c)
  BY <1>1 DEF BeginAnalyze, Route, Prefix, Complete, Digested, Durable, Unstarted,
         Counting, Ended, Fit, Opened
<1>2. CASE HashStream(c)
  BY <1>2 DEF HashStream, Route, Prefix, Complete, Digested, Durable, Unstarted,
         Counting, Ended, Fit, Opened
<1>3. CASE OpenStream(c)
  BY <1>3 DEF OpenStream, Route, Prefix, Complete, Digested, Durable, Unstarted,
         Counting, Ended, Fit, Opened
<1>4. CASE ReadTelemetry(c)
  BY <1>4 DEF ReadTelemetry, Route, Prefix, Complete, Digested, Durable, Unstarted,
         Counting, Ended, Fit, Opened
<1>5. CASE ReadSchema(c)
  <2>1. kind[c] # "write"
    BY <1>5 DEF ReadSchema, Route
  <2>2. reading[c] \in Data /\ count[c] = 0
    BY <1>5 DEF ReadSchema, Prefix, Unstarted
  <2>3. 0 <= Len(reading[c].samples)
    BY <2>2 DEF Data
  <2>4. Prefix(c)'
    <3>1. Source(c)' = reading[c] /\ count'[c] = 0 /\ pc'[c] = "samples"
      BY <1>5, <2>1, <2>2 DEF ReadSchema, Source
    <3>2. reading'[c].schema
      BY <1>5 DEF ReadSchema
    <3>3. \A i \in 1 .. 0 : reading[c].samples[i] = i - 1
      OBVIOUS
    <3> QED
      BY <2>3, <3>1, <3>2, <3>3 DEF Prefix, Unstarted
  <2> QED
    BY <1>5, <2>4 DEF ReadSchema, Route, Complete, Digested, Durable, Ended, Fit,
         Opened
<1>6. CASE TakeSample(c)
  <2>1. kind[c] # "write" /\ Source(c) = reading[c] /\ Source(c)' = reading[c]
    BY <1>6 DEF TakeSample, Route, Source
  <2>2. reading[c].samples \in Seq(Int) /\ count[c] \in Nat
    BY ConstantTypes DEF Data
  <2>3. /\ count[c] + 1 <= Len(reading[c].samples)
        /\ \A i \in 1 .. count[c] + 1 : reading[c].samples[i] = i - 1
    <3>1. NextIs(reading[c].samples, count[c])
      BY <1>6 DEF TakeSample
    <3>2. \A i \in 1 .. count[c] : reading[c].samples[i] = i - 1
      BY <1>6, <2>1 DEF TakeSample, Prefix, Counting
    <3> HIDE DEF TypeOK, CommandInv
    <3> QED
      BY <2>2, <3>1, <3>2, OneMore
  <2>4. Prefix(c)'
    BY <1>6, <2>1, <2>3 DEF TakeSample, Prefix, Counting, Unstarted
  <2> QED
    BY <1>6, <2>4 DEF TakeSample, Route, Complete, Digested, Durable, Ended, Fit, Opened
<1>7. CASE EndOfStream(c)
  <2>1. kind[c] # "write" /\ Source(c) = reading[c]
    BY <1>7 DEF EndOfStream, Route, Source
  <2>2. Whole(c)
    BY <1>7, <2>1 DEF EndOfStream, Prefix, Counting, Whole
  <2>3. Whole(c)'
    BY <1>7, <2>2 DEF EndOfStream, Whole, Source
  <2> QED
    BY <1>7, <2>1, <2>3 DEF EndOfStream, AfterSamples, Kinds, Route, Prefix, Complete,
         Digested, Durable, Unstarted, Counting, Ended, Fit, Opened
<1>8. CASE PrintInspection(c)
  <2>1. kind[c] = "inspect" /\ Whole(c)
    BY <1>8 DEF PrintInspection, Finish, Route, Complete, Ended, Kinds
  <2>2. Whole(c)' /\ Fitting(c)'
    BY <1>8, <2>1 DEF PrintInspection, Finish, Whole, Source, Fitting
  <2> QED
    BY <1>8, <2>1, <2>2 DEF PrintInspection, Finish, Route, Prefix, Complete,
         Digested, Durable, Unstarted, Counting, Ended, Fit, Opened
<1> QED
  BY <1>1, <1>2, <1>3, <1>4, <1>5, <1>6, <1>7, <1>8 DEF Reading

LEMMA WritingKeeps ==
  ASSUME TypeOK, NEW c \in Commands, CommandInv(c), Writing(c)
  PROVE  CommandInv(c)'
<1> USE DEF TypeOK, inputs, reader, staging, CommandInv, Step
\* What was seen does not change once all of it was.
<1>b. ASSUME Whole(c), UNCHANGED <<inputs, reader>> PROVE Whole(c)'
  BY <1>b DEF Whole, Source
<1>c. ASSUME Fitting(c), UNCHANGED <<inputs, reader>> PROVE Fitting(c)'
  BY <1>c DEF Fitting, Reportable
<1>1. CASE PrepareReport(c)
  <2>1. Whole(c)' /\ Fitting(c)'
    BY <1>1, <1>b DEF PrepareReport, Complete, Ended, Fitting, Reportable
  <2> QED
    BY <1>1, <2>1 DEF PrepareReport, Route, Prefix, Complete, Digested, Durable,
         Unstarted, Counting, Ended, Fit, Opened
<1>2. CASE CheckOutput(c)
  <2>1. Whole(c)' /\ Fitting(c)'
    BY <1>2, <1>b, <1>c DEF CheckOutput, Complete, Ended, Fit
  <2> QED
    BY <1>2, <2>1 DEF CheckOutput, Route, Prefix, Complete, Digested, Durable,
         Unstarted, Counting, Ended, Fit, Opened
<1>3. CASE StageReport(c)
  <2>1. Whole(c)' /\ Fitting(c)'
    BY <1>3, <1>b, <1>c DEF StageReport, Complete, Ended, Fit
  <2> QED
    BY <1>3, <2>1 DEF StageReport, Route, Prefix, Complete, Digested, Durable,
         Unstarted, Counting, Ended, Fit, Opened
<1>4. CASE BeginWrite(c)
  <2>1. /\ count'[c] = 0 /\ pc'[c] = "append" /\ kind'[c] = "write"
        /\ Source(c)' = supply[c]
    BY <1>4 DEF BeginWrite, Prefix, Unstarted, Source
  <2>2. 0 <= Len(supply[c].samples)
    BY DEF Data
  <2>3. \A i \in 1 .. 0 : supply[c].samples[i] = i - 1
    OBVIOUS
  <2>4. Prefix(c)'
    BY <2>1, <2>2, <2>3 DEF Prefix, Unstarted
  <2> QED
    BY <1>4, <2>1, <2>4 DEF BeginWrite, Route, Complete, Digested, Durable, Ended,
         Fit, Opened
<1>5. CASE AppendSample(c)
  <2>1. kind[c] = "write" /\ Source(c) = supply[c] /\ Source(c)' = supply[c]
    BY <1>5 DEF AppendSample, Route, Source, Kinds
  <2>2. supply[c].samples \in Seq(Int) /\ count[c] \in Nat
    BY ConstantTypes DEF Data
  <2>3. /\ count[c] + 1 <= Len(supply[c].samples)
        /\ \A i \in 1 .. count[c] + 1 : supply[c].samples[i] = i - 1
    <3>1. NextIs(supply[c].samples, count[c])
      BY <1>5 DEF AppendSample
    <3>2. \A i \in 1 .. count[c] : supply[c].samples[i] = i - 1
      BY <1>5, <2>1 DEF AppendSample, Prefix, Counting
    <3> HIDE DEF TypeOK, CommandInv
    <3> QED
      BY <2>2, <3>1, <3>2, OneMore
  <2>4. Prefix(c)'
    BY <1>5, <2>1, <2>3 DEF AppendSample, Prefix, Counting, Unstarted
  <2> QED
    BY <1>5, <2>4 DEF AppendSample, Route, Complete, Digested, Durable, Ended, Fit, Opened
<1>6. CASE EndOfSamples(c)
  <2>1. kind[c] = "write" /\ Source(c) = supply[c]
    BY <1>6 DEF EndOfSamples, Route, Source, Kinds
  <2>2. Whole(c)
    BY <1>6, <2>1 DEF EndOfSamples, Prefix, Counting, Whole
  <2>3. Whole(c)' /\ Fitting(c)' /\ kind'[c] = "write"
    BY <1>6, <2>1, <2>2, <1>b DEF EndOfSamples, Fitting
  <2> QED
    BY <1>6, <2>3 DEF EndOfSamples, Route, Prefix, Complete, Digested, Durable,
         Unstarted, Counting, Ended, Fit, Opened
<1>7. CASE Sync(c)
  <2>1. Whole(c)' /\ Fitting(c)'
    BY <1>7, <1>b, <1>c DEF Sync, Complete, Ended, Fit
  <2> QED
    BY <1>7, <2>1 DEF Sync, Route, Prefix, Complete, Digested, Durable, Unstarted,
         Counting, Ended, Fit, Opened
<1>8. CASE Replace(c)
  <2>1. Whole(c)' /\ Fitting(c)'
    BY <1>8, <1>b, <1>c DEF Replace, Complete, Ended, Fit
  <2>2. kind[c] # "inspect"
    BY <1>8 DEF Replace, Route
  <2> QED
    BY <1>8, <2>1, <2>2 DEF Replace, Route, Prefix, Complete, Digested, Durable,
         Unstarted, Counting, Ended, Fit, Opened
<1>9. CASE LinkStage(c)
  <2>1. Whole(c)' /\ Fitting(c)'
    BY <1>9, <1>b, <1>c DEF LinkStage, Complete, Ended, Fit
  <2>2. kind[c] # "inspect"
    BY <1>9 DEF LinkStage, Route
  <2> QED
    BY <1>9, <2>1, <2>2 DEF LinkStage, Route, Prefix, Complete, Digested, Durable,
         Unstarted, Counting, Ended, Fit, Opened
<1>10. CASE UnlinkStage(c)
  <2>1. Whole(c)' /\ Fitting(c)'
    BY <1>10, <1>b, <1>c DEF UnlinkStage, Complete, Ended, Fit
  <2>2. kind[c] # "inspect"
    BY <1>10 DEF UnlinkStage, Route
  <2> QED
    BY <1>10, <2>1, <2>2 DEF UnlinkStage, Route, Prefix, Complete, Digested, Durable,
         Unstarted, Counting, Ended, Fit, Opened
<1>11. CASE Tidy(c)
  <2>1. status'[c] = "ok" => status[c] = "ok"
    BY <1>11 DEF Tidy
  <2>2. status'[c] = "ok" => Whole(c)' /\ Fitting(c)'
    BY <1>11, <2>1, <1>b, <1>c DEF Tidy, Complete
  <2> QED
    BY <1>11, <2>1, <2>2 DEF Tidy, Route, Prefix, Complete, Digested, Durable,
         Unstarted, Counting, Ended, Fit, Opened
<1> QED
  BY <1>1, <1>2, <1>3, <1>4, <1>5, <1>6, <1>7, <1>8, <1>9, <1>10, <1>11 DEF Writing

LEMMA StoppingKeeps ==
  ASSUME TypeOK, NEW c \in Commands, CommandInv(c), FailCommand(c) \/ Kill(c)
  PROVE  CommandInv(c)'
BY DEF TypeOK, inputs, reader, staging, CommandInv, FailCommand, Kill, Route, Prefix,
   Complete, Digested, Durable, Unstarted, Counting, Ended, Fit, Opened

LEMMA CrashKeeps ==
  ASSUME TypeOK, NEW c \in Commands, CommandInv(c), Crash
  PROVE  CommandInv(c)'
<1> USE DEF TypeOK, inputs, reader, staging, CommandInv, Crash
<1>1. status'[c] = "ok" => status[c] = "ok"
  OBVIOUS
<1>2. status[c] = "ok" => Whole(c)' /\ Fitting(c)'
  BY DEF Complete, Whole, Source, Fitting, Reportable
<1> QED
  BY <1>1, <1>2 DEF Route, Prefix, Complete, Digested, Durable, Unstarted, Counting,
     Ended, Fit, Opened

LEMMA CommandsKept ==
  Inv /\ [Next]_vars => \A c \in Commands : CommandInv(c)'
<1> SUFFICES ASSUME Inv, [Next]_vars, NEW d \in Commands PROVE CommandInv(d)'
  OBVIOUS
<1> USE DEF Inv
<1>1. ASSUME NEW c \in Commands, Reading(c) \/ Writing(c) \/ FailCommand(c) \/ Kill(c)
      PROVE  CommandInv(d)'
  <2>1. CASE d = c
    BY <1>1, <2>1, ReadingKeeps, WritingKeeps, StoppingKeeps
  <2>2. CASE d # c
    BY <1>1, <2>2, OthersStandStill, StillKeeps
  <2> QED
    BY <2>1, <2>2
<1>2. CASE Crash
  BY <1>2, CrashKeeps
<1>3. CASE UNCHANGED vars
  <2>1. StandsStill(d)
    BY <1>3 DEF vars, inputs, reader, staging, StandsStill
  <2> QED
    BY <2>1, StillKeeps
<1> QED
  BY <1>1, <1>2, <1>3 DEF Next

-------------------------------------------------------------------------------
(* The two files.                                                           *)

\* What a command gives a name is synced and all of an acceptable stream.
LEMMA PublishedIsGood ==
  ASSUME Inv, NEW c \in Commands, pc[c] = "publish", Publishes(c)
  PROVE  FilesInv'
<1> USE DEF Inv
<1>1. CommandInv(c)
  OBVIOUS
<1>2. c \in synced /\ Whole(c) /\ Fitting(c) /\ kind[c] \in {"write", "analyze"}
  BY <1>1 DEF CommandInv, Durable, Complete, Ended, Fit, Route, TypeOK, Kinds
<1>3. \A n \in Names : files'[n] = IF n = Output(c) THEN Staged(c) ELSE files[n]
  BY DEF Publishes, TypeOK
<1>4. Staged(c).synced /\ Staged(c).type = "regular"
  BY <1>2, StagedEntry
<1>5. \A n \in Names : files'[n].synced /\ files'[n].type # "cut"
  BY <1>3, <1>4 DEF FilesInv
<1>6. CASE kind[c] = "write"
  <2>1. files'["report"] = files["report"]
    BY <1>3, <1>6 DEF Output, Names
  <2> QED
    BY <1>5, <2>1 DEF FilesInv
<1>7. CASE kind[c] = "analyze"
  <2>1. files'["report"] = Staged(c)
    BY <1>3, <1>7 DEF Output, Names
  <2>2. Staged(c).data = reading[c] /\ Staged(c).digest = reading[c]
    BY <1>1, <1>7, StagedEntry DEF CommandInv, Digested, Opened, Ended
  <2>3. Len(reading[c].samples) = count[c] /\ count[c] \in 1 .. MaxSamples
    BY <1>2, <1>7, ConstantTypes DEF Whole, Source, TypeOK
  <2>4. Exact(reading[c])
    BY <1>2, <1>7, <2>3 DEF Whole, Source, Exact
  <2>5. Reportable(Len(reading[c].samples))
    BY <1>2, <1>7, <2>3 DEF Fitting
  <2>6. GoodReport(files'["report"])
    BY <2>1, <2>2, <2>4, <2>5 DEF GoodReport
  <2> QED
    BY <1>5, <2>6 DEF FilesInv
<1> QED
  BY <1>2, <1>6, <1>7

LEMMA FilesKept == Inv /\ [Next]_vars => FilesInv'
<1> SUFFICES ASSUME Inv, [Next]_vars PROVE FilesInv'
  OBVIOUS
<1>1. ASSUME NEW c \in Commands, Replace(c) \/ LinkStage(c) PROVE FilesInv'
  BY <1>1, PublishedIsGood DEF Replace, LinkStage, Step
<1>2. ASSUME files' = files PROVE FilesInv'
  BY <1>2 DEF Inv, FilesInv
<1>3. CASE Crash
  <2>1. files' = files
    BY <1>3 DEF Crash, Inv, FilesInv, TypeOK
  <2> QED
    BY <1>2, <2>1
<1>4. ASSUME NEW c \in Commands, Reading(c) PROVE files' = files
  BY <1>4 DEF Reading, BeginAnalyze, HashStream, OpenStream, ReadTelemetry,
         ReadSchema, TakeSample, EndOfStream, PrintInspection
<1>5. ASSUME NEW c \in Commands, Writing(c), ~Replace(c), ~LinkStage(c)
      PROVE  files' = files
  BY <1>5 DEF Writing, PrepareReport, CheckOutput, StageReport, BeginWrite, AppendSample,
         EndOfSamples, Sync, UnlinkStage, Tidy
<1>6. ASSUME NEW c \in Commands, FailCommand(c) \/ Kill(c) PROVE files' = files
  BY <1>6 DEF FailCommand, Kill
<1>7. CASE UNCHANGED vars
  BY <1>2, <1>7 DEF vars
<1> QED
  BY <1>1, <1>2, <1>3, <1>4, <1>5, <1>6, <1>7 DEF Next

LEMMA Invariant == Spec => []Inv
<1>1. Inv /\ [Next]_vars => Inv'
  BY TypesKept, CommandsKept, FilesKept DEF Inv
<1> QED
  BY Initially, <1>1, PTL DEF Spec

-------------------------------------------------------------------------------
\* Every variable keeps its type, for any number of commands and any limits.
THEOREM TypeCorrect == Spec => []TypeOK
<1>1. Inv => TypeOK
  BY DEF Inv
<1> QED
  BY Invariant, <1>1, PTL

\* A command that reports success has replayed the whole of an acceptable
\* stream, of any length up to the limit, and its digest is of those bytes.
THEOREM AcceptedStreamsAreExact == Spec => []AcceptedIsExact
<1>1. Inv => AcceptedIsExact
  <2> SUFFICES ASSUME Inv, NEW c \in Commands, status[c] = "ok", kind[c] # "write"
               PROVE  /\ Exact(reading[c])
                      /\ digest[c] = reading[c]
                           \/ (kind[c] = "inspect" /\ c \in replaced)
    BY DEF AcceptedIsExact
  <2>1. CommandInv(c)
    BY DEF Inv
  <2>2. Whole(c) /\ Source(c) = reading[c]
    BY <2>1 DEF CommandInv, Complete, Source
  <2>3. count[c] \in 0 .. MaxSamples /\ kind[c] \in Kinds
    BY DEF Inv, TypeOK
  <2>4. Len(reading[c].samples) \in 1 .. MaxSamples
    BY <2>2, <2>3, ConstantTypes DEF Whole
  <2>5. Exact(reading[c])
    BY <2>2, <2>4 DEF Whole, Exact
  <2>6. digest[c] = reading[c] \/ (kind[c] = "inspect" /\ c \in replaced)
    BY <2>1, <2>3 DEF CommandInv, Digested, Kinds
  <2> QED
    BY <2>5, <2>6
<1> QED
  BY Invariant, <1>1, PTL

\* Neither name ever leads to a part of a file, also after a crash of the
\* machine, nor the report to one of a stream that was not accepted.
THEOREM PublishedFilesAreWhole == Spec => []OutputsAreWhole
<1>1. Inv => OutputsAreWhole
  BY DEF Inv, FilesInv, GoodReport, OutputsAreWhole
<1> QED
  BY Invariant, <1>1, PTL

\* What a name leads to is replaced by commands with --overwrite only.
THEOREM ExistingOutputIsKept == Spec => ExistingIsKept
<1>1. Inv /\ [Next]_vars =>
        [\A n \in Names :
           files[n].type # "absent" /\ files'[n] # files[n] =>
             \/ \E c \in overwrite : pc[c] = "publish" /\ Output(c) = n
             \/ crashed' # crashed]_vars
  <2> SUFFICES ASSUME Inv, Next, NEW n \in Names,
                      files[n].type # "absent", files'[n] # files[n]
               PROVE  \/ \E c \in overwrite : pc[c] = "publish" /\ Output(c) = n
                      \/ crashed' # crashed
    OBVIOUS
  <2>1. CASE Crash
    BY <2>1 DEF Crash
  <2>2. ASSUME NEW c \in Commands, Replace(c)
        PROVE  \E e \in overwrite : pc[e] = "publish" /\ Output(e) = n
    BY <2>2 DEF Replace, Step, Publishes, Inv, TypeOK
  <2>3. ASSUME NEW c \in Commands, LinkStage(c) PROVE FALSE
    BY <2>3 DEF LinkStage, Publishes, Inv, TypeOK
  <2>4. ASSUME NEW c \in Commands, Reading(c) PROVE FALSE
    BY <2>4 DEF Reading, BeginAnalyze, HashStream, OpenStream, ReadTelemetry,
           ReadSchema, TakeSample, EndOfStream, PrintInspection
  <2>5. ASSUME NEW c \in Commands, Writing(c), ~Replace(c), ~LinkStage(c) PROVE FALSE
    BY <2>5 DEF Writing, PrepareReport, CheckOutput, StageReport, BeginWrite, AppendSample,
           EndOfSamples, Sync, UnlinkStage, Tidy
  <2>6. ASSUME NEW c \in Commands, FailCommand(c) \/ Kill(c) PROVE FALSE
    BY <2>6 DEF FailCommand, Kill
  <2> QED
    BY <2>1, <2>2, <2>3, <2>4, <2>5, <2>6 DEF Next
<1> QED
  BY Invariant, <1>1, PTL DEF Spec, ExistingIsKept
===============================================================================
