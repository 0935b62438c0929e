--------------------- MODULE EvaluationPublicationProofs ---------------------
(***************************************************************************)
(* Theorems about EvaluationPublication, for any number of runners and of  *)
(* inodes: type correctness; that a repository nobody meddles with is      *)
(* evaluated at most once, with a record of it that survives any crash;    *)
(* what its directory holds at each moment, and after each outcome; that   *)
(* the boundary implements OneShotNamespace; and, with a bystander, how    *)
(* often it can be evaluated and what a disturbed run still does.          *)
(***************************************************************************)
EXTENDS EvaluationPublication, FiniteSetTheorems, TLAPS

(***************************************************************************)
(* Type correctness.                                                       *)
(***************************************************************************)

\* Each program counter belongs to certain stages only.
Fits(p, s) ==
  /\ p \in Resting \cup {"mkdir", "open", "sync_empty", "sync_claim"}
       => s = "claim"
  /\ p \in {"create", "write", "interrupted", "written", "sync_file",
              "sync_dir"}
       => s \in {"claim", "per_seed", "summary"}
  /\ p \in Callbacks => s = "evaluate"
  /\ p \in {"link", "sync_link", "unlink", "sync_unlink"}
       => s \in Artifacts
  /\ p \in {"secure_sync", "secure_check"}
       => s \in {"per_seed", "summary", "final"}
  /\ p \in {"unlink_attempt", "sync_final", "sync_parent", "check_final"}
       => s = "final"

\* A descriptor is held from the open to the end of the run.
Holding == Active \ {"mkdir", "open"}

RunInv ==
  /\ pc \in [Runners -> Resting \cup Active]
  /\ stage \in [Runners -> Stages]
  /\ fd \in [Runners -> Inodes \cup {NoDir}]
  /\ \A r \in Runners :
       /\ Fits(pc[r], stage[r])
       /\ fd[r] \in Inodes <=> pc[r] \in Holding

NameInv ==
  /\ entry \in Inodes \cup {NoDir}
  /\ diskEntry \in Inodes \cup {NoDir}

FileInv ==
  /\ live \in [Inodes -> SUBSET Names]
  /\ disk \in [Inodes -> SUBSET Names]
  /\ content \in [Inodes -> [Files -> {"none", "torn", "whole"}]]
  /\ synced \in [Inodes -> SUBSET Files]

HistoryInv ==
  /\ evaluations \in Nat
  /\ receipt \in Inodes \cup {NoDir}
  /\ meddles \in 0..MaxMeddles
  /\ harmed \in [Runners -> {"no", "early", "late"}]

CallInv == RunInv /\ NameInv /\ FileInv /\ HistoryInv

\* Inside its loop a write has not counted every byte yet.
LoopInv ==
  /\ offset \in [Runners -> 0 .. Payload - 1]
  /\ written \in [Runners -> 0 .. Payload]

ControlInv == CallInv /\ LoopInv

(***************************************************************************)
(* CallInv is inductive.  How a run moves is settled once for the three *)
(* ways it can: on, into another stage, or to its end.                     *)
(***************************************************************************)
LEMMA EnterKeeps ==
  ASSUME RunInv, NEW r \in Runners, pc[r] \in Holding,
         NEW s \in Stages, NEW next \in Holding, Fits(next, s),
         Enter(r, s, next)
  PROVE  RunInv'
  BY DEF RunInv, Enter, Fits, Holding, Active, SystemCalls, Looping, Callbacks, Stages

LEMMA GotoKeeps ==
  ASSUME RunInv, NEW r \in Runners, pc[r] \in Holding,
         NEW next \in Holding, Fits(next, stage[r]), Goto(r, next)
  PROVE  RunInv'
  BY DEF RunInv, Goto, Fits, Holding, Active, SystemCalls, Looping, Callbacks, Stages

LEMMA StopKeeps ==
  ASSUME RunInv, NEW r \in Runners, NEW outcome \in Outcomes,
         Stop(r, outcome)
  PROVE  RunInv'
<1> USE DEF RunInv, Stop, Stages
<1>1. /\ outcome \notin Holding
      /\ Fits(outcome, "claim")
  BY DEF Fits, Holding, Active, SystemCalls, Looping, Callbacks, Resting, Outcomes,
         ErrorCodes
<1>2. /\ pc' \in [Runners -> Resting \cup Active]
      /\ stage' \in [Runners -> Stages]
      /\ fd' \in [Runners -> Inodes \cup {NoDir}]
  BY DEF Resting
<1>3. ASSUME NEW q \in Runners
      PROVE  /\ Fits(pc[q], stage[q])'
             /\ (fd[q] \in Inodes <=> pc[q] \in Holding)'
  <2>1. CASE q = r
    BY <2>1, <1>1, NoDirAssumption DEF Fits
  <2>2. CASE q # r
    BY <2>2 DEF Fits
  <2> QED
    BY <2>1, <2>2
<1> QED
  BY <1>2, <1>3

LEMMA FailKeeps ==
  ASSUME RunInv, NEW r \in Runners, Fail(r)
  PROVE  RunInv'
<1>1. FailCode(stage[r]) \in Outcomes
  BY DEF RunInv, FailCode, Stages, Artifacts, Outcomes, ErrorCodes
<1> QED
  BY <1>1, StopKeeps DEF Fail

\* The table of Fits, read from its right-hand side.
LEMMA Fitting ==
  /\ \A s \in {"claim", "per_seed", "summary"} :
       /\ Fits("create", s) /\ Fits("write", s)
       /\ Fits("interrupted", s) /\ Fits("written", s)
       /\ Fits("sync_file", s) /\ Fits("sync_dir", s)
  /\ \A s \in Artifacts :
       /\ Fits("link", s) /\ Fits("sync_link", s)
       /\ Fits("unlink", s) /\ Fits("sync_unlink", s)
  /\ \A s \in {"per_seed", "summary", "final"} :
       Fits("secure_sync", s) /\ Fits("secure_check", s)
  /\ Fits("sync_claim", "claim")
  /\ Fits("factory", "evaluate")
  /\ Fits("building", "evaluate")
  /\ Fits("validate", "evaluate")
  /\ Fits("unlink_attempt", "final")
  /\ Fits("sync_final", "final")
  /\ Fits("sync_parent", "final")
  /\ Fits("check_final", "final")
BY DEF Fits, Resting, Outcomes, ErrorCodes, Callbacks, Artifacts

LEMMA Steps ==
  /\ Holding = {"factory", "building", "validate", "sync_empty",
       "sync_claim", "create", "write", "interrupted", "written",
       "sync_file", "sync_dir", "link",
       "sync_link", "unlink", "sync_unlink", "secure_sync", "secure_check",
       "unlink_attempt", "sync_final", "sync_parent", "check_final"}
  /\ Artifacts \subseteq Stages
  /\ ErrorCodes \subseteq Outcomes
BY DEF Holding, Active, Callbacks, SystemCalls, Looping, Artifacts, Stages,
       Outcomes

LEMMA CallInit == Init => CallInv
  BY NoDirAssumption, MeddlesAssumption
  DEF Init, CallInv, RunInv, NameInv, FileInv, HistoryInv, Fits, Holding,
      Resting, Outcomes, ErrorCodes, Active, Callbacks, SystemCalls, Looping, Stages,
      Names, Files, Artifacts

\* The steps of the call, one by one.  Each is split into what it does to
\* the runs and what it does to the file system.
LEMMA StepKeepsCall ==
  ASSUME CallInv, NEW r \in Runners, Step(r)
  PROVE  CallInv'
<1> USE DEF CallInv, nameVars, fileVars, historyVars
<1>a. stage[r] \in Stages /\ Fits(pc[r], stage[r])
  BY DEF RunInv
<1>h. (pc[r] \in Holding) => fd[r] \in Inodes
  BY DEF RunInv
<1>1. CASE Refuse(r)
  <2>1. RunInv'
    BY <1>1, StopKeeps, Steps
    DEF Refuse, RefuseAttempt, RefuseCallbacks, RefuseRoot, ErrorCodes
  <2> QED
    BY <1>1, <2>1 DEF Refuse, NameInv, FileInv, HistoryInv
<1>2. CASE Mkdir(r)
  <2>1. CASE entry # NoDir
    <3>1. Stop(r, "namespace_claimed")
      BY <1>2, <2>1 DEF Mkdir
    <3>2. RunInv'
      BY <3>1, StopKeeps, Steps DEF ErrorCodes
    <3> QED
      BY <1>2, <2>1, <3>2 DEF Mkdir, NameInv, FileInv, HistoryInv
  <2>2. CASE entry = NoDir
    <3>1. pc[r] = "mkdir" /\ Goto(r, "open")
      BY <1>2, <2>2 DEF Mkdir
    <3>2. RunInv'
      BY <3>1 DEF RunInv, Goto, Fits, Holding, Active, SystemCalls, Looping, Callbacks,
                  Resting, Outcomes, ErrorCodes
    <3>3. PICK d \in Inodes :
            /\ entry' = d
            /\ live' = [live EXCEPT ![d] = {}]
            /\ disk' = [disk EXCEPT ![d] = {}]
            /\ content' = [content EXCEPT ![d] = [f \in Files |-> "none"]]
            /\ synced' = [synced EXCEPT ![d] = {}]
      BY <1>2, <2>2 DEF Mkdir, Unused
    <3>4. FileInv'
      BY <3>3 DEF FileInv
    <3> QED
      BY <1>2, <3>2, <3>3, <3>4 DEF Mkdir, NameInv, HistoryInv
  <2> QED
    BY <2>1, <2>2
<1>3. CASE OpenResults(r)
  <2>1. RunInv'
    <3>1. CASE entry = NoDir
      BY <1>3, <3>1, FailKeeps DEF OpenResults
    <3>2. CASE entry # NoDir
      <4>1. /\ pc[r] = "open"
            /\ entry \in Inodes
            /\ fd' = [fd EXCEPT ![r] = entry]
            /\ pc' = [pc EXCEPT ![r] = "sync_empty"]
            /\ stage' = stage
        BY <1>3, <3>2 DEF OpenResults, NameInv
      <4> QED
        BY <4>1 DEF RunInv, Fits, Holding, Active, SystemCalls, Looping, Callbacks,
                    Resting, Outcomes, ErrorCodes
    <3> QED
      BY <3>1, <3>2
  <2> QED
    BY <1>3, <2>1 DEF OpenResults, NameInv, FileInv, HistoryInv
<1>4. CASE SyncEvaluation(r)
  <2>1. RunInv'
    <3>1. CASE pc[r] = "sync_claim" /\ Goto(r, "create")
      <4>1. stage[r] = "claim"
        BY <3>1, <1>a DEF Fits
      <4> QED
        BY <3>1, <4>1, Fitting, Steps, GotoKeeps
    <3>2. CASE pc[r] = "sync_parent" /\ Goto(r, "check_final")
      <4>1. stage[r] = "final"
        BY <3>2, <1>a DEF Fits
      <4> QED
        BY <3>2, <4>1, Fitting, Steps, GotoKeeps
    <3> QED
      BY <1>4, <3>1, <3>2 DEF SyncEvaluation
  <2> QED
    BY <1>4, <2>1 DEF SyncEvaluation, NameInv, FileInv, HistoryInv
<1>5. CASE CreateFile(r)
  <2>1. pc[r] = "create" /\ stage[r] \in {"claim", "per_seed", "summary"}
    BY <1>5, <1>a DEF CreateFile, Fits
  <2>2. fd[r] \in Inodes
    BY <2>1, <1>h, Steps
  <2>3. /\ CreatedName(stage[r]) \in Names
        /\ FileOf(stage[r]) \in Files
    BY <2>1 DEF CreatedName, FileOf, Names, Files, Artifacts
  <2>4. RunInv'
    <3>1. Goto(r, "write") \/ Fail(r)
      BY <1>5 DEF CreateFile
    <3> QED
      BY <3>1, <2>1, Fitting, Steps, GotoKeeps, FailKeeps
  <2>5. FileInv'
    <3> DEFINE d == fd[r]
               name == CreatedName(stage[r])
               file == FileOf(stage[r])
    <3>1. disk' = disk
      BY <1>5 DEF CreateFile
    <3>2. CASE name \in live[d]
      BY <1>5, <3>1, <3>2 DEF CreateFile, FileInv
    <3>3. CASE name \notin live[d]
      <4>1. /\ live' = [live EXCEPT ![d] = @ \cup {name}]
            /\ content' = [content EXCEPT ![d][file] = "torn"]
            /\ synced' = [synced EXCEPT ![d] = @ \ {file}]
        BY <1>5, <3>3 DEF CreateFile
      <4>2. d \in Inodes /\ name \in Names /\ file \in Files
        BY <2>2, <2>3
      <4> HIDE DEF d, name, file
      <4>3. live' \in [Inodes -> SUBSET Names]
        BY <4>1, <4>2 DEF FileInv
      <4>4. content' \in [Inodes -> [Files -> {"none", "torn", "whole"}]]
        BY <4>1, <4>2 DEF FileInv
      <4>5. synced' \in [Inodes -> SUBSET Files]
        BY <4>1, <4>2 DEF FileInv
      <4> QED
        BY <3>1, <4>3, <4>4, <4>5 DEF FileInv
    <3> QED
      BY <3>2, <3>3
  <2> QED
    BY <1>5, <2>4, <2>5 DEF CreateFile, NameInv, HistoryInv
<1>6. CASE InterruptWrite(r) \/ RetryWrite(r)
  <2>1. /\ pc[r] \in {"write", "interrupted"}
        /\ stage[r] \in {"claim", "per_seed", "summary"}
        /\ Goto(r, "interrupted") \/ Goto(r, "write")
    BY <1>6, <1>a DEF InterruptWrite, RetryWrite, Fits
  <2>2. RunInv'
    BY <2>1, Fitting, Steps, GotoKeeps
  <2> QED
    BY <1>6, <2>2
    DEF InterruptWrite, RetryWrite, NameInv, FileInv, HistoryInv
<1>18. CASE OsWrite(r)
  <2>1. pc[r] = "write" /\ stage[r] \in {"claim", "per_seed", "summary"}
    BY <1>18, <1>a DEF OsWrite, Fits
  <2>2. fd[r] \in Inodes
    BY <2>1, <1>h, Steps
  <2>3. FileOf(stage[r]) \in Files
    BY <2>1 DEF FileOf, Files, Artifacts
  <2>4. RunInv'
    BY <1>18, <2>1, Fitting, Steps, GotoKeeps DEF OsWrite
  <2>5. \/ content' = content
        \/ content' = [content EXCEPT ![fd[r]][FileOf(stage[r])] = "whole"]
    BY <1>18 DEF OsWrite
  <2>6. FileInv'
    BY <1>18, <2>2, <2>3, <2>5 DEF OsWrite, FileInv
  <2> QED
    BY <1>18, <2>4, <2>6 DEF OsWrite, NameInv, HistoryInv
<1>19. CASE AccountWrite(r)
  <2>1. pc[r] = "written" /\ stage[r] \in {"claim", "per_seed", "summary"}
    BY <1>19, <1>a DEF AccountWrite, Fits
  <2>2. Fail(r) \/ Goto(r, "write") \/ Goto(r, "sync_file")
    BY <1>19 DEF AccountWrite, CountBytes
  <2>3. RunInv'
    BY <2>1, <2>2, Fitting, Steps, GotoKeeps, FailKeeps
  <2> QED
    BY <1>19, <2>3 DEF AccountWrite, NameInv, FileInv, HistoryInv
<1>7. CASE SyncFile(r)
  <2>1. pc[r] = "sync_file" /\ stage[r] \in {"claim", "per_seed", "summary"}
    BY <1>7, <1>a DEF SyncFile, Fits
  <2>2. fd[r] \in Inodes
    BY <2>1, <1>h, Steps
  <2>3. FileOf(stage[r]) \in Files
    BY <2>1 DEF FileOf, Files, Artifacts
  <2>4. RunInv'
    BY <1>7, <2>1, Fitting, Steps, GotoKeeps DEF SyncFile
  <2>5. FileInv'
    BY <1>7, <2>2, <2>3 DEF SyncFile, FileInv
  <2> QED
    BY <1>7, <2>4, <2>5 DEF SyncFile, NameInv, HistoryInv
<1>8. CASE SyncDirectory(r)
  <2>1. RunInv'
    <3>1. CASE pc[r] = "sync_empty" /\ Goto(r, "sync_claim")
      <4>1. stage[r] = "claim"
        BY <3>1, <1>a DEF Fits
      <4> QED
        BY <3>1, <4>1, Fitting, Steps, GotoKeeps
    <3>2. CASE pc[r] = "sync_dir" /\ Enter(r, "evaluate", "factory")
      BY <3>2, Fitting, Steps, EnterKeeps DEF Stages
    <3>3. CASE pc[r] = "sync_dir" /\ stage[r] # "claim" /\ Goto(r, "link")
      <4>1. stage[r] \in Artifacts
        BY <3>3, <1>a DEF Fits, Artifacts
      <4> QED
        BY <3>3, <4>1, Fitting, Steps, GotoKeeps
    <3>4. CASE pc[r] = "sync_link" /\ Goto(r, "unlink")
      <4>1. stage[r] \in Artifacts
        BY <3>4, <1>a DEF Fits
      <4> QED
        BY <3>4, <4>1, Fitting, Steps, GotoKeeps
    <3>5. CASE /\ pc[r] = "sync_unlink"
               /\ Enter(r, Following(stage[r]), "secure_sync")
      <4>1. Following(stage[r]) \in {"summary", "final"}
        BY DEF Following
      <4> QED
        BY <3>5, <4>1, Fitting, Steps, EnterKeeps DEF Stages
    <3>6. CASE pc[r] = "sync_final" /\ Goto(r, "sync_parent")
      <4>1. stage[r] = "final"
        BY <3>6, <1>a DEF Fits
      <4> QED
        BY <3>6, <4>1, Fitting, Steps, GotoKeeps
    <3> QED
      BY <1>8, <3>1, <3>2, <3>3, <3>4, <3>5, <3>6 DEF SyncDirectory
  <2>2. FileInv'
    BY <1>8 DEF SyncDirectory, FileInv
  <2> QED
    BY <1>8, <2>1, <2>2 DEF SyncDirectory, NameInv, HistoryInv
<1>9. CASE EnterFactory(r)
  <2>1. stage[r] = "evaluate"
    BY <1>9, <1>a DEF EnterFactory, Fits, Callbacks
  <2>2. RunInv'
    BY <1>9, <2>1, Fitting, Steps, GotoKeeps DEF EnterFactory
  <2> QED
    BY <1>9, <2>2 DEF EnterFactory, NameInv, FileInv, HistoryInv
<1>10. CASE LeaveFactory(r)
  <2>1. stage[r] = "evaluate"
    BY <1>10, <1>a DEF LeaveFactory, Fits, Callbacks
  <2>2. RunInv'
    <3>1. CASE pc[r] = "building" /\ Goto(r, "validate")
      BY <3>1, <2>1, Fitting, Steps, GotoKeeps
    <3>2. CASE Stop(r, "factory_failed")
      BY <3>2, Steps, StopKeeps DEF ErrorCodes
    <3> QED
      BY <1>10, <3>1, <3>2 DEF LeaveFactory
  <2> QED
    BY <1>10, <2>2 DEF LeaveFactory, NameInv, FileInv, HistoryInv
<1>11. CASE ValidateBundle(r)
  <2>1. RunInv'
    <3>1. CASE pc[r] = "validate" /\ Enter(r, "per_seed", "secure_sync")
      BY <3>1, Fitting, Steps, EnterKeeps DEF Stages
    <3>2. CASE Stop(r, "invalid_bundle")
      BY <3>2, Steps, StopKeeps DEF ErrorCodes
    <3> QED
      BY <1>11, <3>1, <3>2 DEF ValidateBundle
  <2> QED
    BY <1>11, <2>1 DEF ValidateBundle, NameInv, FileInv, HistoryInv
<1>12. CASE SecureSync(r)
  <2>1. pc[r] = "secure_sync" /\ stage[r] \in {"per_seed", "summary", "final"}
    BY <1>12, <1>a DEF SecureSync, Fits
  <2>2. RunInv'
    BY <1>12, <2>1, Fitting, Steps, GotoKeeps DEF SecureSync
  <2>3. FileInv'
    BY <1>12 DEF SecureSync, FileInv
  <2> QED
    BY <1>12, <2>2, <2>3 DEF SecureSync, NameInv, HistoryInv
<1>13. CASE SecureCheck(r)
  <2>1. pc[r] = "secure_check" /\ stage[r] \in {"per_seed", "summary", "final"}
    BY <1>13, <1>a DEF SecureCheck, Fits
  <2>2. RunInv'
    <3>1. CASE Goto(r, "unlink_attempt") /\ stage[r] = "final"
      BY <3>1, <2>1, Fitting, Steps, GotoKeeps
    <3>2. CASE Goto(r, "create") /\ stage[r] # "final"
      BY <3>2, <2>1, Fitting, Steps, GotoKeeps
    <3>3. CASE Fail(r)
      BY <3>3, FailKeeps
    <3> QED
      BY <1>13, <3>1, <3>2, <3>3 DEF SecureCheck
  <2>3. FileInv'
    BY <1>13 DEF SecureCheck, FileInv, Files
  <2> QED
    BY <1>13, <2>2, <2>3 DEF SecureCheck, NameInv, HistoryInv
<1>14. CASE LinkPublic(r)
  <2>1. pc[r] = "link" /\ stage[r] \in Artifacts
    BY <1>14, <1>a DEF LinkPublic, Fits
  <2>2. RunInv'
    <3>1. Goto(r, "sync_link") \/ Fail(r)
      BY <1>14 DEF LinkPublic
    <3> QED
      BY <3>1, <2>1, Fitting, Steps, GotoKeeps, FailKeeps
  <2>3. FileInv'
    <3>1. stage[r] \in Names
      BY <2>1 DEF Names, Files
    <3>2. live' = live \/ live' = [live EXCEPT ![fd[r]] = @ \cup {stage[r]}]
      BY <1>14 DEF LinkPublic
    <3>3. UNCHANGED <<disk, content, synced>>
      BY <1>14 DEF LinkPublic
    <3> QED
      BY <3>1, <3>2, <3>3 DEF FileInv
  <2> QED
    BY <1>14, <2>2, <2>3 DEF LinkPublic, NameInv, HistoryInv
<1>15. CASE UnlinkStage(r)
  <2>1. pc[r] = "unlink" /\ stage[r] \in Artifacts
    BY <1>15, <1>a DEF UnlinkStage, Fits
  <2>2. RunInv'
    BY <1>15, <2>1, Fitting, Steps, GotoKeeps DEF UnlinkStage
  <2>3. FileInv'
    BY <1>15 DEF UnlinkStage, FileInv
  <2> QED
    BY <1>15, <2>2, <2>3 DEF UnlinkStage, NameInv, HistoryInv
<1>16. CASE UnlinkAttempt(r)
  <2>1. pc[r] = "unlink_attempt" /\ stage[r] = "final"
    BY <1>16, <1>a DEF UnlinkAttempt, Fits
  <2>2. RunInv'
    <3>1. Goto(r, "sync_final") \/ Fail(r)
      BY <1>16 DEF UnlinkAttempt
    <3> QED
      BY <3>1, <2>1, Fitting, Steps, GotoKeeps, FailKeeps
  <2>3. FileInv'
    BY <1>16 DEF UnlinkAttempt, FileInv
  <2> QED
    BY <1>16, <2>2, <2>3 DEF UnlinkAttempt, NameInv, HistoryInv
<1>17. CASE CheckFinal(r)
  <2>1. RunInv'
    <3>1. Stop(r, "published") \/ Fail(r)
      BY <1>17 DEF CheckFinal
    <3> QED
      BY <3>1, StopKeeps, FailKeeps DEF Outcomes
  <2>2. receipt' \in Inodes \cup {NoDir}
    BY <1>17, <1>h, Steps DEF CheckFinal, HistoryInv
  <2> QED
    BY <1>17, <2>1, <2>2 DEF CheckFinal, NameInv, FileInv, HistoryInv
<1> QED
  BY <1>1, <1>2, <1>3, <1>4, <1>5, <1>6, <1>7, <1>8, <1>9, <1>10, <1>11,
     <1>12, <1>13, <1>14, <1>15, <1>16, <1>17, <1>18, <1>19 DEF Step

LEMMA CallStep == CallInv /\ [Next]_vars => CallInv'
<1> SUFFICES ASSUME CallInv, [Next]_vars
             PROVE  CallInv'
  OBVIOUS
<1> USE DEF CallInv, nameVars, fileVars, historyVars
<1>1. ASSUME NEW r \in Runners, Step(r)
      PROVE  CallInv'
  BY <1>1, StepKeepsCall
<1>2. ASSUME NEW r \in Runners, Begin(r)
      PROVE  CallInv'
  <2>1. RunInv'
    BY <1>2 DEF Begin, Goto, RunInv, Fits, Holding, Active, SystemCalls, Looping,
                Callbacks, Resting, Outcomes, ErrorCodes
  <2> QED
    BY <1>2, <2>1 DEF Begin, NameInv, FileInv, HistoryInv
<1>3. ASSUME NEW r \in Runners, Fault(r) \/ Kill(r)
      PROVE  CallInv'
  <2>1. Fail(r) \/ Stop(r, "killed")
    BY <1>3 DEF Fault, Kill
  <2>2. RunInv'
    BY <2>1, FailKeeps, StopKeeps DEF Outcomes
  <2> QED
    BY <1>3, <2>2 DEF Fault, Kill, NameInv, FileInv, HistoryInv
<1>4. CASE Crash
  <2>1. RunInv'
    <3>1. /\ pc' \in [Runners -> Resting]
          /\ stage' = [r \in Runners |-> "claim"]
          /\ fd' = [r \in Runners |-> NoDir]
      BY <1>4 DEF Crash, RunInv, Resting, Outcomes
    <3>2. \A p \in Resting : p \notin Holding /\ Fits(p, "claim")
      BY DEF Fits, Holding, Active, SystemCalls, Looping, Callbacks, Resting, Outcomes,
             ErrorCodes
    <3> QED
      BY <3>1, <3>2, NoDirAssumption DEF RunInv, Stages
  <2>2. NameInv'
    BY <1>4 DEF Crash, NameInv
  <2>3. FileInv'
    <3>1. CASE entry' = NoDir
      BY <1>4, <3>1 DEF Crash, FileInv
    <3>2. CASE entry' # NoDir
      <4> DEFINE d == entry'
      <4>1. d \in Inodes
        BY <2>2, <3>2 DEF NameInv
      <4>2. PICK kept \in SUBSET (live[d] \cup disk[d]),
                 torn \in SUBSET (Files \ synced[d]) :
              /\ live' = [live EXCEPT ![d] = kept]
              /\ disk' = [disk EXCEPT ![d] = kept]
              /\ content' = [content EXCEPT ![d] =
                   [f \in Files |-> IF f \in torn THEN "torn" ELSE @[f]]]
              /\ synced' = [synced EXCEPT ![d] = Files]
        BY <1>4, <3>2 DEF Crash
      <4>3. kept \in SUBSET Names
        BY <4>1 DEF FileInv
      <4> HIDE DEF d
      <4>4. live' \in [Inodes -> SUBSET Names] /\ disk' \in [Inodes -> SUBSET Names]
        BY <4>1, <4>2, <4>3 DEF FileInv
      <4>5. content' \in [Inodes -> [Files -> {"none", "torn", "whole"}]]
        BY <4>1, <4>2 DEF FileInv
      <4>6. synced' \in [Inodes -> SUBSET Files]
        BY <4>1, <4>2 DEF FileInv
      <4> QED
        BY <4>4, <4>5, <4>6 DEF FileInv
    <3> QED
      BY <3>1, <3>2
  <2> QED
    BY <1>4, <2>1, <2>2, <2>3 DEF Crash, HistoryInv
<1>5. CASE MoveAside \/ RemoveMarker
  <2>1. /\ UNCHANGED <<runVars, diskEntry, disk, content, synced,
                        evaluations, receipt>>
        /\ meddles < MaxMeddles
        /\ meddles' = meddles + 1
        /\ harmed' \in [Runners -> {"no", "early", "late"}]
    BY <1>5 DEF MoveAside, RemoveMarker, Harm, HistoryInv
  <2>2. RunInv'
    BY <2>1 DEF RunInv, runVars
  <2>3. NameInv'
    BY <1>5, <2>1 DEF MoveAside, RemoveMarker, NameInv
  <2>4. FileInv'
    BY <1>5, <2>1 DEF MoveAside, RemoveMarker, FileInv
  <2>5. HistoryInv'
    BY <2>1, MeddlesAssumption DEF HistoryInv
  <2> QED
    BY <2>2, <2>3, <2>4, <2>5
<1>6. CASE UNCHANGED vars
  BY <1>6 DEF vars, RunInv, NameInv, FileInv, HistoryInv
<1> QED
  BY <1>1, <1>2, <1>3, <1>4, <1>5, <1>6 DEF Next

(***************************************************************************)
(* ... and so is LoopInv: the loop is left with nothing counted.           *)
(***************************************************************************)
LEMMA LoopInit == Init => LoopInv
  BY PayloadAssumption DEF Init, LoopInv

LEMMA LeavingKeepsLoop ==
  ASSUME LoopInv, NEW r \in Runners, LeaveLoop(r)
  PROVE  LoopInv'
  BY PayloadAssumption DEF LoopInv, LeaveLoop

LEMMA LoopStep == LoopInv /\ [Next]_vars => LoopInv'
<1> SUFFICES ASSUME LoopInv, [Next]_vars
             PROVE  LoopInv'
  OBVIOUS
<1>k. CASE UNCHANGED loopVars
  BY <1>k DEF LoopInv, loopVars
<1>1. ASSUME NEW r \in Runners, Step(r)
      PROVE  LoopInv'
  <2>1. CASE OsWrite(r)
    <3>1. PICK n \in 0 .. Payload - offset[r] :
            written' = [written EXCEPT ![r] = n]
      BY <2>1 DEF OsWrite
    <3>2. n \in 0 .. Payload
      BY <3>1, PayloadAssumption DEF LoopInv
    <3> QED
      BY <2>1, <3>1, <3>2 DEF OsWrite, LoopInv
  <2>2. CASE AccountWrite(r)
    <3>1. CASE LeaveLoop(r)
      BY <3>1, LeavingKeepsLoop
    <3>2. CASE ~LeaveLoop(r)
      <4>1. /\ offset[r] + written[r] < Payload
            /\ offset' = [offset EXCEPT ![r] = @ + written[r]]
            /\ written' = [written EXCEPT ![r] = 0]
        BY <2>2, <3>2 DEF AccountWrite, CountBytes
      <4>2. offset[r] + written[r] \in 0 .. Payload - 1
        BY <4>1, PayloadAssumption DEF LoopInv
      <4> QED
        BY <4>1, <4>2, PayloadAssumption DEF LoopInv
    <3> QED
      BY <3>1, <3>2
  <2>3. CASE ~(OsWrite(r) \/ AccountWrite(r))
    BY <1>1, <2>3, <1>k
    DEF Step, Refuse, Mkdir, OpenResults, SyncEvaluation, CreateFile, InterruptWrite,
        RetryWrite, SyncFile, SyncDirectory, EnterFactory, LeaveFactory, ValidateBundle,
        SecureSync, SecureCheck, LinkPublic, UnlinkStage, UnlinkAttempt, CheckFinal
  <2> QED
    BY <2>1, <2>2, <2>3
<1>2. ASSUME NEW r \in Runners, Begin(r)
      PROVE  LoopInv'
  BY <1>2, <1>k DEF Begin
<1>3. ASSUME NEW r \in Runners, Fault(r) \/ Kill(r)
      PROVE  LoopInv'
  BY <1>3, LeavingKeepsLoop DEF Fault, Kill
<1>4. CASE Crash
  BY <1>4, PayloadAssumption DEF Crash, LoopInv
<1>5. CASE MoveAside \/ RemoveMarker
  BY <1>5, <1>k DEF MoveAside, RemoveMarker, Harm
<1>6. CASE UNCHANGED vars
  BY <1>6, <1>k DEF vars, loopVars
<1> QED
  BY <1>1, <1>2, <1>3, <1>4, <1>5, <1>6 DEF Next

LEMMA ControlInit == Init => ControlInv
  BY CallInit, LoopInit DEF ControlInv

LEMMA ControlStep == ControlInv /\ [Next]_vars => ControlInv'
  BY CallStep, LoopStep DEF ControlInv

\* Every variable keeps its type in every behaviour.
THEOREM TypeCorrect == Spec => []TypeOK
<1>1. ControlInv => TypeOK
  BY DEF ControlInv, CallInv, RunInv, NameInv, FileInv, HistoryInv, LoopInv, TypeOK
<1> QED
  BY <1>1, ControlInit, ControlStep, PTL DEF Spec

(***************************************************************************)
(* At most one evaluation.  The invariant: while nobody meddles, at most   *)
(* one run owns the namespace; its claim is durable before it enters the   *)
(* factory; and once a factory was entered the claim outlives every crash, *)
(* so that no later mkdir can succeed.                                     *)
(***************************************************************************)

\* A run that has passed its mkdir is responsible for the namespace.
Owner(r) == pc[r] \in Holding \cup {"open"}

\* Its claim has been synced to evaluation/.
Durable(r) ==
  Owner(r) /\ pc[r] \notin {"open", "sync_empty", "sync_claim"}

\* It has not entered its factory yet.
Fresh(r) == Owner(r) /\ (stage[r] = "claim" \/ pc[r] = "factory")

OwnsEntry(r) ==
  /\ Owner(r) => entry # NoDir /\ (pc[r] # "open" => fd[r] = entry)
  /\ Durable(r) => diskEntry = entry
  /\ Fresh(r) => evaluations = 0

ClaimInv ==
  /\ \A r \in Runners : OwnsEntry(r)
  /\ \A r, q \in Runners : Owner(r) /\ Owner(q) => r = q
  /\ evaluations > 0 => entry # NoDir /\ diskEntry = entry
  /\ evaluations <= 1

Quiet == meddles = 0 => ClaimInv

LEMMA ClaimInit == Init => Quiet
<1> SUFFICES ASSUME Init PROVE ClaimInv
  BY DEF Quiet
<1>1. \A r \in Runners : ~Owner(r)
  BY Steps DEF Init, Owner
<1> QED
  BY <1>1 DEF Init, ClaimInv, OwnsEntry, Durable, Fresh

\* The owner goes on: nothing changes for anybody else.
LEMMA OwnerGoesOn ==
  ASSUME ControlInv, ClaimInv, NEW r \in Runners, pc[r] \in Holding,
         NEW s \in Stages, NEW next \in Holding, Enter(r, s, next),
         entry' = entry, evaluations' = evaluations,
         diskEntry' \in {entry, diskEntry},
         Durable(r)' => Durable(r) \/ diskEntry' = entry,
         Fresh(r)' => Fresh(r)
  PROVE  ClaimInv'
<1>1. /\ pc' = [pc EXCEPT ![r] = next]
      /\ stage' = [stage EXCEPT ![r] = s]
      /\ fd' = fd
      /\ pc \in [Runners -> Resting \cup Active]
      /\ stage \in [Runners -> Stages]
  BY DEF Enter, ControlInv, CallInv, RunInv
<1>2. Owner(r) /\ pc[r] # "open"
  BY Steps DEF Owner
<1>3. /\ entry # NoDir
      /\ fd[r] = entry
      /\ Durable(r) => diskEntry = entry
      /\ Fresh(r) => evaluations = 0
  BY <1>2 DEF ClaimInv, OwnsEntry
<1>4. \A q \in Runners \ {r} : ~Owner(q)
  BY <1>2 DEF ClaimInv
<1>5. \A q \in Runners \ {r} : ~Owner(q)'
  BY <1>1, <1>4 DEF Owner
<1>6. OwnsEntry(r)'
  BY <1>1, <1>3 DEF OwnsEntry
<1>7. \A q \in Runners : OwnsEntry(q)'
  BY <1>5, <1>6 DEF OwnsEntry, Durable, Fresh
<1> QED
  BY <1>3, <1>5, <1>7 DEF ClaimInv

\* A run ends: it owns nothing any more.
LEMMA RunEnds ==
  ASSUME ControlInv, ClaimInv, NEW r \in Runners, NEW outcome \in Outcomes,
         Stop(r, outcome),
         UNCHANGED <<entry, diskEntry, evaluations>>
  PROVE  ClaimInv'
<1>1. outcome \notin Holding \cup {"open"}
  BY Steps DEF Outcomes, ErrorCodes
<1>2. /\ pc' = [pc EXCEPT ![r] = outcome]
      /\ stage' = [stage EXCEPT ![r] = "claim"]
      /\ fd' = [fd EXCEPT ![r] = NoDir]
      /\ pc \in [Runners -> Resting \cup Active]
      /\ stage \in [Runners -> Stages]
      /\ fd \in [Runners -> Inodes \cup {NoDir}]
  BY DEF Stop, ControlInv, CallInv, RunInv
<1>3. ~Owner(r)'
  BY <1>1, <1>2 DEF Owner
<1>4. ASSUME NEW q \in Runners \ {r}
      PROVE  /\ Owner(q)' <=> Owner(q)
             /\ OwnsEntry(q)'
  <2>1. pc'[q] = pc[q] /\ stage'[q] = stage[q] /\ fd'[q] = fd[q]
    BY <1>2
  <2> QED
    BY <2>1 DEF ClaimInv, OwnsEntry, Owner, Durable, Fresh
<1>5. OwnsEntry(r)'
  BY <1>3 DEF OwnsEntry, Durable, Fresh
<1> QED
  BY <1>3, <1>4, <1>5 DEF ClaimInv

LEMMA FailEnds ==
  ASSUME ControlInv, ClaimInv, NEW r \in Runners, Fail(r),
         UNCHANGED <<entry, diskEntry, evaluations>>
  PROVE  ClaimInv'
<1>1. FailCode(stage[r]) \in Outcomes
  BY DEF ControlInv, CallInv, RunInv, FailCode, Stages, Artifacts, Outcomes, ErrorCodes
<1> QED
  BY <1>1, RunEnds DEF Fail

\* Going on within a stage is a special case.
LEMMA OwnerGoesTo ==
  ASSUME ControlInv, ClaimInv, NEW r \in Runners, pc[r] \in Holding,
         NEW next \in Holding, next # "factory", Goto(r, next),
         entry' = entry, evaluations' = evaluations,
         diskEntry' \in {entry, diskEntry},
         \/ next \in {"sync_empty", "sync_claim"}
         \/ pc[r] \notin {"sync_empty", "sync_claim"}
         \/ diskEntry' = entry
  PROVE  ClaimInv'
<1>1. /\ pc' = [pc EXCEPT ![r] = next]
      /\ stage' = stage
      /\ fd' = fd
      /\ pc \in [Runners -> Resting \cup Active]
      /\ stage \in [Runners -> Stages]
  BY DEF Goto, ControlInv, CallInv, RunInv
<1>2. Enter(r, stage[r], next)
  BY <1>1 DEF Enter
<1>3. Durable(r)' => Durable(r) \/ diskEntry' = entry
  BY <1>1, Steps DEF Durable, Owner
<1>4. Fresh(r)' => Fresh(r)
  BY <1>1, Steps DEF Fresh, Owner
<1>5. stage[r] \in Stages
  BY <1>1
<1> QED
  BY <1>2, <1>3, <1>4, <1>5, OwnerGoesOn

LEMMA StepKeepsClaim ==
  ASSUME ControlInv, ClaimInv, NEW r \in Runners, Step(r)
  PROVE  ClaimInv'
<1> USE DEF nameVars, fileVars, historyVars
<1>a. Fits(pc[r], stage[r])
  BY DEF ControlInv, CallInv, RunInv
<1>1. CASE Refuse(r)
  BY <1>1, RunEnds DEF Refuse, RefuseAttempt, RefuseCallbacks, RefuseRoot,
                       Outcomes, ErrorCodes
<1>2. CASE Mkdir(r)
  <2>1. CASE entry # NoDir
    <3>1. Stop(r, "namespace_claimed") /\ UNCHANGED <<entry, diskEntry, evaluations>>
      BY <1>2, <2>1 DEF Mkdir
    <3> QED
      BY <3>1, RunEnds DEF Outcomes, ErrorCodes
  <2>2. CASE entry = NoDir
    <3>1. /\ pc' = [pc EXCEPT ![r] = "open"]
          /\ stage' = stage
          /\ entry' \in Inodes
          /\ evaluations' = evaluations
          /\ pc \in [Runners -> Resting \cup Active]
      BY <1>2, <2>2 DEF Mkdir, Unused, Goto, ControlInv, CallInv, RunInv
    <3>2. \A q \in Runners : ~Owner(q)
      BY <2>2 DEF ClaimInv, OwnsEntry
    <3>3. \A q \in Runners \ {r} : ~Owner(q)'
      BY <3>1, <3>2 DEF Owner
    <3>4. evaluations = 0
      BY <2>2 DEF ClaimInv, ControlInv, CallInv, HistoryInv
    <3>5. OwnsEntry(r)'
      BY <3>1, <3>4, NoDirAssumption DEF OwnsEntry, Durable, Fresh
    <3>6. \A q \in Runners : OwnsEntry(q)'
      BY <3>3, <3>5 DEF OwnsEntry, Durable, Fresh
    <3> QED
      BY <3>1, <3>3, <3>4, <3>6 DEF ClaimInv
  <2> QED
    BY <2>1, <2>2
<1>3. CASE OpenResults(r)
  <2>1. CASE entry = NoDir
    BY <1>3, <2>1, FailEnds DEF OpenResults
  <2>2. CASE entry # NoDir
    <3>1. /\ pc[r] = "open"
          /\ pc' = [pc EXCEPT ![r] = "sync_empty"]
          /\ fd' = [fd EXCEPT ![r] = entry]
          /\ UNCHANGED <<stage, entry, diskEntry, evaluations>>
          /\ pc \in [Runners -> Resting \cup Active]
          /\ fd \in [Runners -> Inodes \cup {NoDir}]
      BY <1>3, <2>2 DEF OpenResults, ControlInv, CallInv, RunInv
    <3>2. Owner(r) /\ Fresh(r)
      BY <3>1, <1>a DEF Owner, Fresh, Fits
    <3>3. \A q \in Runners \ {r} : ~Owner(q)'
      BY <3>1, <3>2 DEF ClaimInv, Owner
    <3>4. OwnsEntry(r)'
      BY <2>2, <3>1, <3>2 DEF OwnsEntry, Durable, ClaimInv
    <3>5. \A q \in Runners : OwnsEntry(q)'
      BY <3>3, <3>4 DEF OwnsEntry, Durable, Fresh
    <3> QED
      BY <3>1, <3>3, <3>5 DEF ClaimInv
  <2> QED
    BY <2>1, <2>2
<1>4. CASE SyncEvaluation(r)
  BY <1>4, OwnerGoesTo, Steps DEF SyncEvaluation
<1>5. CASE CreateFile(r)
  BY <1>5, OwnerGoesTo, FailEnds, Steps DEF CreateFile
<1>6. CASE InterruptWrite(r) \/ RetryWrite(r) \/ OsWrite(r)
  BY <1>6, OwnerGoesTo, Steps DEF InterruptWrite, RetryWrite, OsWrite
<1>18. CASE AccountWrite(r)
  BY <1>18, OwnerGoesTo, FailEnds, Steps DEF AccountWrite, CountBytes
<1>7. CASE SyncFile(r)
  BY <1>7, OwnerGoesTo, Steps DEF SyncFile
<1>8. CASE SyncDirectory(r)
  <2>1. UNCHANGED <<entry, diskEntry, evaluations>>
    BY <1>8 DEF SyncDirectory
  <2>2. CASE pc[r] = "sync_dir" /\ stage[r] = "claim"
             /\ Enter(r, "evaluate", "factory")
    <3>1. Durable(r) /\ Fresh(r)
      BY <2>2, Steps DEF Durable, Fresh, Owner
    <3> QED
      BY <2>1, <2>2, <3>1, OwnerGoesOn, Steps DEF Stages
  <2>3. CASE pc[r] = "sync_unlink"
             /\ Enter(r, Following(stage[r]), "secure_sync")
    <3>1. Following(stage[r]) \in {"summary", "final"}
      BY DEF Following
    <3>2. Durable(r)
      BY <2>3, Steps DEF Durable, Owner
    <3>3. ~Fresh(r)'
      <4>1. /\ stage' = [stage EXCEPT ![r] = Following(stage[r])]
            /\ pc' = [pc EXCEPT ![r] = "secure_sync"]
            /\ stage \in [Runners -> Stages]
            /\ pc \in [Runners -> Resting \cup Active]
        BY <2>3 DEF Enter, ControlInv, CallInv, RunInv
      <4> QED
        BY <3>1, <4>1 DEF Fresh
    <3> QED
      BY <2>1, <2>3, <3>1, <3>2, <3>3, OwnerGoesOn, Steps DEF Stages
  <2>4. CASE \/ pc[r] = "sync_empty" /\ Goto(r, "sync_claim")
             \/ pc[r] = "sync_dir" /\ Goto(r, "link")
             \/ pc[r] = "sync_link" /\ Goto(r, "unlink")
             \/ pc[r] = "sync_final" /\ Goto(r, "sync_parent")
    BY <2>1, <2>4, OwnerGoesTo, Steps
  <2> QED
    BY <1>8, <2>2, <2>3, <2>4 DEF SyncDirectory
<1>9. CASE EnterFactory(r)
  <2>1. /\ pc[r] = "factory"
        /\ pc' = [pc EXCEPT ![r] = "building"]
        /\ UNCHANGED <<stage, fd, entry, diskEntry>>
        /\ evaluations' = evaluations + 1
        /\ pc \in [Runners -> Resting \cup Active]
    BY <1>9 DEF EnterFactory, Goto, ControlInv, CallInv, RunInv
  <2>2. Owner(r) /\ Durable(r) /\ Fresh(r)
    BY <2>1, Steps DEF Owner, Durable, Fresh
  <2>3. /\ entry # NoDir
        /\ fd[r] = entry
        /\ diskEntry = entry
        /\ evaluations = 0
    BY <2>1, <2>2 DEF ClaimInv, OwnsEntry
  <2>4. stage[r] = "evaluate"
    BY <2>1, <1>a DEF Fits, Callbacks
  <2>5. \A q \in Runners \ {r} : ~Owner(q)'
    BY <2>1, <2>2 DEF ClaimInv, Owner
  <2>6. OwnsEntry(r)'
    BY <2>1, <2>3, <2>4 DEF OwnsEntry, Fresh
  <2>7. \A q \in Runners : OwnsEntry(q)'
    BY <2>5, <2>6 DEF OwnsEntry, Durable, Fresh
  <2> QED
    BY <2>1, <2>3, <2>5, <2>7 DEF ClaimInv
<1>10. CASE LeaveFactory(r)
  BY <1>10, OwnerGoesTo, RunEnds, Steps DEF LeaveFactory, ErrorCodes
<1>11. CASE ValidateBundle(r)
  <2>1. CASE Enter(r, "per_seed", "secure_sync")
    <3>1. Durable(r)
      BY <1>11, Steps DEF ValidateBundle, Durable, Owner
    <3>2. ~Fresh(r)'
      <4>1. /\ stage' = [stage EXCEPT ![r] = "per_seed"]
            /\ pc' = [pc EXCEPT ![r] = "secure_sync"]
            /\ stage \in [Runners -> Stages]
            /\ pc \in [Runners -> Resting \cup Active]
        BY <2>1 DEF Enter, ControlInv, CallInv, RunInv
      <4> QED
        BY <4>1 DEF Fresh
    <3> QED
      BY <1>11, <2>1, <3>1, <3>2, OwnerGoesOn, Steps DEF ValidateBundle, Stages
  <2>2. CASE Stop(r, "invalid_bundle")
    BY <1>11, <2>2, RunEnds, Steps DEF ValidateBundle, ErrorCodes
  <2> QED
    BY <1>11, <2>1, <2>2 DEF ValidateBundle
<1>12. CASE SecureSync(r)
  BY <1>12, OwnerGoesTo, Steps DEF SecureSync
<1>13. CASE SecureCheck(r)
  BY <1>13, OwnerGoesTo, FailEnds, Steps DEF SecureCheck
<1>14. CASE LinkPublic(r)
  BY <1>14, OwnerGoesTo, FailEnds, Steps DEF LinkPublic
<1>15. CASE UnlinkStage(r)
  BY <1>15, OwnerGoesTo, Steps DEF UnlinkStage
<1>16. CASE UnlinkAttempt(r)
  BY <1>16, OwnerGoesTo, FailEnds, Steps DEF UnlinkAttempt
<1>17. CASE CheckFinal(r)
  BY <1>17, RunEnds, FailEnds DEF CheckFinal, Outcomes
<1> QED
  BY <1>1, <1>2, <1>3, <1>4, <1>5, <1>6, <1>7, <1>8, <1>9, <1>10, <1>11,
     <1>12, <1>13, <1>14, <1>15, <1>16, <1>17, <1>18 DEF Step

LEMMA ClaimStep == ControlInv /\ Quiet /\ [Next]_vars => Quiet'
<1> SUFFICES ASSUME ControlInv, Quiet, [Next]_vars, meddles' = 0
             PROVE  ClaimInv'
  BY DEF Quiet
<1> USE DEF nameVars, fileVars, historyVars
<1>1. meddles = 0 /\ ~MoveAside /\ ~RemoveMarker
  <2>1. meddles \in Nat
    BY MeddlesAssumption DEF ControlInv, CallInv, HistoryInv
  <2>2. ~MoveAside /\ ~RemoveMarker
    BY <2>1 DEF MoveAside, RemoveMarker, Harm
  <2>3. meddles' = meddles
    BY <2>2 DEF Next, Step, vars, Begin, Fault, Kill, Crash, Refuse, Mkdir, OpenResults,
       SyncEvaluation, CreateFile, InterruptWrite, RetryWrite, OsWrite, AccountWrite,
       SyncFile, SyncDirectory, EnterFactory, LeaveFactory, ValidateBundle, SecureSync,
       SecureCheck, LinkPublic, UnlinkStage, UnlinkAttempt, CheckFinal
  <2> QED
    BY <2>2, <2>3
<1>2. ClaimInv
  BY <1>1 DEF Quiet
<1>3. ASSUME NEW r \in Runners, Step(r)
      PROVE  ClaimInv'
  BY <1>2, <1>3, StepKeepsClaim
<1>4. ASSUME NEW r \in Runners, Begin(r)
      PROVE  ClaimInv'
  <2>1. /\ pc' = [pc EXCEPT ![r] = "mkdir"]
        /\ UNCHANGED <<stage, fd, entry, diskEntry, evaluations>>
        /\ pc \in [Runners -> Resting \cup Active]
    BY <1>4 DEF Begin, Goto, ControlInv, CallInv, RunInv
  <2>2. ~Owner(r)'
    BY <2>1, Steps DEF Owner
  <2>3. \A q \in Runners \ {r} : pc'[q] = pc[q]
    BY <2>1
  <2>4. \A q \in Runners : OwnsEntry(q)'
    BY <1>2, <2>1, <2>2, <2>3 DEF ClaimInv, OwnsEntry, Owner, Durable, Fresh
  <2>5. \A q \in Runners : Owner(q)' => Owner(q)
    BY <2>2, <2>3 DEF Owner
  <2> QED
    BY <1>2, <2>1, <2>4, <2>5 DEF ClaimInv
<1>5. ASSUME NEW r \in Runners, Fault(r) \/ Kill(r)
      PROVE  ClaimInv'
  BY <1>2, <1>5, FailEnds, RunEnds DEF Fault, Kill, Outcomes
<1>6. CASE Crash
  <2>1. \A q \in Runners : ~Owner(q)'
    BY <1>6, Steps DEF Crash, Owner, ControlInv, CallInv, RunInv, Active, SystemCalls,
                       Callbacks, Resting, Outcomes, ErrorCodes
  <2>2. /\ evaluations' = evaluations
        /\ entry' \in {entry, diskEntry}
        /\ diskEntry' = entry'
    BY <1>6 DEF Crash
  <2> QED
    BY <1>2, <2>1, <2>2 DEF ClaimInv, OwnsEntry, Durable, Fresh
<1>7. CASE UNCHANGED vars
  BY <1>2, <1>7 DEF vars, ClaimInv, OwnsEntry, Owner, Durable, Fresh
<1> QED
  BY <1>1, <1>3, <1>4, <1>5, <1>6, <1>7 DEF Next

\* Left alone, a repository is evaluated at most once, whatever calls are
\* made, fail, are killed or follow a crash, and however many there are.
THEOREM AtMostOneEvaluation == Spec => []OneEvaluation
<1>1. ControlInv /\ Quiet => OneEvaluation
  BY DEF Quiet, ClaimInv, OneEvaluation
<1>2. Init => ControlInv /\ Quiet
  BY ControlInit, ClaimInit
<1>3. ControlInv /\ Quiet /\ [Next]_vars => (ControlInv /\ Quiet)'
  BY ControlStep, ClaimStep
<1> QED
  BY <1>1, <1>2, <1>3, PTL DEF Spec

(***************************************************************************)
(* What is in the directory.  While nobody meddles, the stage and the      *)
(* system call an owner has come to tell exactly which names its directory *)
(* holds, which of them are durable, and which bytes are whole (Progress). *)
(* What is left by a run that has ended follows, and survives a crash.     *)
(***************************************************************************)

\* The names at the beginning of a stage, all of them durable.
Base(s) ==
  IF s = "claim" THEN {}
  ELSE IF s \in {"evaluate", "per_seed"} THEN {"attempt"}
  ELSE IF s = "summary" THEN {"attempt", "per_seed"}
  ELSE Files

LiveAt(s, p) ==
  IF p \in {"sync_final", "sync_parent", "check_final"} THEN Artifacts
  ELSE IF p \in {"write", "interrupted", "written", "sync_file", "sync_dir", "link"}
    THEN Base(s) \cup {CreatedName(s)}
  ELSE IF p \in {"sync_link", "unlink"} THEN Base(s) \cup {CreatedName(s), s}
  ELSE IF p = "sync_unlink" THEN Base(s) \cup {s}
  ELSE Base(s)

DiskAt(s, p) ==
  IF p \in {"sync_parent", "check_final"} THEN Artifacts
  ELSE IF p \in {"link", "sync_link"} THEN Base(s) \cup {CreatedName(s)}
  ELSE IF p \in {"unlink", "sync_unlink"} THEN Base(s) \cup {CreatedName(s), s}
  ELSE Base(s)

Flushed == {"sync_dir", "link", "sync_link", "unlink", "sync_unlink"}
Filled == Flushed \cup {"sync_file"}

Progress(r) ==
  /\ live[entry] = LiveAt(stage[r], pc[r])
  /\ disk[entry] = DiskAt(stage[r], pc[r])
  /\ \A f \in Base(stage[r]) :
       f \in synced[entry] /\ content[entry][f] = "whole"
  /\ \/ pc[r] \in Filled
     \/ pc[r] = "written" /\ offset[r] + written[r] = Payload
     => content[entry][FileOf(stage[r])] = "whole"
  /\ pc[r] \in Flushed => FileOf(stage[r]) \in synced[entry]

Good(d) ==
  /\ \A a \in Artifacts :
       a \in live[d] \cup disk[d] => a \in synced[d] /\ content[d][a] = "whole"
  /\ "summary" \in live[d] \cup disk[d] => Survives(d, "per_seed")

RecordedIn(d) ==
  Survives(d, "attempt") \/ \A a \in Artifacts : Survives(d, a)

Abandoned == \A q \in Runners : ~Owner(q)

Finished(d) ==
  /\ entry = d
  /\ diskEntry = d
  /\ live[d] = Artifacts
  /\ disk[d] = Artifacts
  /\ \A f \in Artifacts : f \in synced[d] /\ content[d][f] = "whole"

\* What a failed finalization leaves, with or without the marker.
Complete(d) ==
  /\ live[d] \in {Artifacts, Files}
  /\ disk[d] \in {Artifacts, Files}
  /\ \A f \in Files : f \in synced[d] /\ content[d][f] = "whole"

Judged == {"factory_failed", "invalid_bundle", "finalization_failed"}

\* What the outcome of a run says about its directory.
Leaves(o) ==
  /\ o \in {"factory_failed", "invalid_bundle"} =>
       (live[entry] \cup disk[entry]) \cap Artifacts = {}
  /\ o = "finalization_failed" => Complete(entry)

PubInv ==
  /\ diskEntry \in {NoDir, entry}
  /\ \A d \in Inodes : Good(d)
  /\ \A r \in Runners : Owner(r) =>
       Progress(r) /\ (~Fresh(r) => evaluations > 0)
  /\ evaluations > 0 => RecordedIn(entry)
  /\ receipt # NoDir => Abandoned /\ Finished(receipt)
  /\ \A r \in Runners : pc[r] \in Judged =>
       evaluations > 0 /\ Abandoned /\ Leaves(pc[r])

QuietPub == meddles = 0 => PubInv

LEMMA PubInit == Init => QuietPub
<1> SUFFICES ASSUME Init PROVE PubInv
  BY DEF QuietPub
<1>1. \A r \in Runners : ~Owner(r) /\ pc[r] \notin Judged
  BY Steps DEF Init, Owner, Judged
<1>2. \A d \in Inodes : Good(d)
  BY DEF Init, Good
<1> QED
  BY <1>1, <1>2 DEF Init, PubInv

\* The tables, for each stage.
LEMMA Tables ==
  /\ Stages = {"claim", "evaluate", "per_seed", "summary", "final"}
  /\ Artifacts = {"per_seed", "summary"}
  /\ Files = {"attempt", "per_seed", "summary"}
  /\ Base("claim") = {}
  /\ Base("evaluate") = {"attempt"}
  /\ Base("per_seed") = {"attempt"}
  /\ Base("summary") = {"attempt", "per_seed"}
  /\ Base("final") = Files
  /\ CreatedName("claim") = "attempt"
  /\ CreatedName("per_seed") = "per_seed_stage"
  /\ CreatedName("summary") = "summary_stage"
  /\ FileOf("claim") = "attempt"
  /\ FileOf("per_seed") = "per_seed"
  /\ FileOf("summary") = "summary"
BY DEF Stages, Artifacts, Files, Base, CreatedName, FileOf

\* Where an owner has come to tells that its directory is in order, and that
\* the evaluation is recorded in it once it was entered.
InOrder ==
  \A r \in Runners :
    Owner(r) /\ Progress(r) /\ stage[r] \in Stages /\ Fits(pc[r], stage[r]) =>
      Good(entry) /\ (~Fresh(r) => RecordedIn(entry))

LEMMA ProgressTells == InOrder
<1> SUFFICES ASSUME NEW r \in Runners, Owner(r), Progress(r), stage[r] \in Stages,
                    Fits(pc[r], stage[r])
             PROVE  Good(entry) /\ (~Fresh(r) => RecordedIn(entry))
  BY DEF InOrder
<1>1. Good(entry)
  <2> USE Tables DEF Good, Survives, Progress, LiveAt, DiskAt, Filled, Flushed, Fits,
                     Owner
  <2>1. CASE stage[r] \in {"claim", "evaluate"}
    BY <2>1, Steps DEF Callbacks
  <2>2. CASE stage[r] = "per_seed"
    BY <2>2
  <2>3. CASE stage[r] = "summary"
    BY <2>3
  <2>4. CASE stage[r] = "final"
    BY <2>4
  <2> QED
    BY <2>1, <2>2, <2>3, <2>4
<1>2. ASSUME ~Fresh(r) PROVE RecordedIn(entry)
  <2> USE <1>2, Tables DEF RecordedIn, Survives, Progress, LiveAt, DiskAt, Fits, Owner,
                           Fresh
  <2>1. stage[r] # "claim"
    OBVIOUS
  <2>2. CASE stage[r] \in {"evaluate", "per_seed", "summary"}
    BY <2>2, Steps DEF Callbacks
  <2>3. CASE stage[r] = "final"
    BY <2>3
  <2> QED
    BY <2>1, <2>2, <2>3
<1> QED
  BY <1>1, <1>2

LEMMA ProgressTellsThen == InOrder'
BY ProgressTells, PTL

\* An owner that goes on: its progress is in its own directory, nothing
\* happens in another.
Advances(r) ==
  /\ Progress(r)'
  /\ entry' = entry
  /\ receipt' = receipt
  /\ diskEntry' \in {diskEntry, entry}
  /\ evaluations' \in {evaluations, evaluations + 1}
  /\ ~Fresh(r)' => ~Fresh(r) \/ evaluations' = evaluations + 1
  /\ \A d \in Inodes \ {entry} :
       /\ live'[d] = live[d]
       /\ disk'[d] = disk[d]
       /\ content'[d] = content[d]
       /\ synced'[d] = synced[d]

LEMMA OwnerAdvances ==
  ASSUME ControlInv, NEW r \in Runners, Owner(r), Progress(r),
         entry \in Inodes, pc[r] # "open" => fd[r] = entry,
         Step(r), Owner(r)'
  PROVE  Advances(r)
<1> USE DEF nameVars, fileVars, historyVars, ControlInv, CallInv
<1>a. stage[r] \in Stages /\ Fits(pc[r], stage[r]) /\ pc[r] \in Holding \cup {"open"}
  BY DEF RunInv, Owner
<1>b. pc \in [Runners -> Resting \cup Active] /\ stage \in [Runners -> Stages]
  BY DEF RunInv
<1>s. ASSUME NEW o \in Outcomes, Stop(r, o) PROVE FALSE
  BY <1>b, <1>s, Steps DEF Stop, Owner, Outcomes, ErrorCodes
<1>f. ASSUME Fail(r) PROVE FALSE
  <2>1. FailCode(stage[r]) \in Outcomes
    BY <1>a DEF FailCode, Stages, Artifacts, Outcomes, ErrorCodes
  <2> QED
    BY <1>f, <2>1, <1>s DEF Fail
<1>g. ASSUME NEW p \in Active, Goto(r, p) PROVE pc'[r] = p /\ stage'[r] = stage[r]
  BY <1>b, <1>g DEF Goto
<1>e. ASSUME NEW p, NEW t, Enter(r, t, p) PROVE pc'[r] = p /\ stage'[r] = t
  BY <1>b, <1>e DEF Enter
<1>t. /\ live \in [Inodes -> SUBSET Names]
      /\ disk \in [Inodes -> SUBSET Names]
      /\ content \in [Inodes -> [Files -> {"none", "torn", "whole"}]]
      /\ synced \in [Inodes -> SUBSET Files]
  BY DEF FileInv
<1>1. CASE Refuse(r) \/ Mkdir(r)
  BY <1>1, <1>a, Steps DEF Refuse, Mkdir
<1>3. CASE OpenResults(r)
  <2>1. pc[r] = "open" /\ stage[r] = "claim"
    BY <1>3, <1>a DEF OpenResults, Fits
  <2>2. pc'[r] = "sync_empty" /\ stage' = stage
    BY <1>3, <1>b, <1>f DEF OpenResults
  <2>3. UNCHANGED <<entry, diskEntry, live, disk, content, synced, evaluations, receipt>>
    BY <1>3 DEF OpenResults
  <2>4. Progress(r)'
    BY <2>1, <2>2, <2>3, Tables DEF Progress, LiveAt, DiskAt, Filled, Flushed
  <2> QED
    BY <2>1, <2>2, <2>3, <2>4, Steps DEF Advances, Fresh, Owner
<1>4. CASE SyncEvaluation(r)
  <2>1. \/ pc[r] = "sync_claim" /\ pc'[r] = "create" /\ stage[r] = "claim"
        \/ pc[r] = "sync_parent" /\ pc'[r] = "check_final" /\ stage[r] = "final"
    BY <1>4, <1>a, <1>g DEF SyncEvaluation, Fits, Active, SystemCalls
  <2>2. stage' = stage /\ diskEntry' = entry
        /\ UNCHANGED <<entry, live, disk, content, synced, evaluations, receipt>>
    BY <1>4 DEF SyncEvaluation, Goto
  <2>3. Progress(r)'
    BY <2>1, <2>2, Tables DEF Progress, LiveAt, DiskAt, Filled, Flushed
  <2> QED
    BY <2>1, <2>2, <2>3, Steps DEF Advances, Fresh, Owner
<1>5. CASE CreateFile(r)
  <2>1. /\ pc[r] = "create" /\ pc'[r] = "write" /\ stage' = stage
        /\ stage[r] \in {"claim", "per_seed", "summary"}
        /\ live' = [live EXCEPT ![entry] = @ \cup {CreatedName(stage[r])}]
        /\ content' = [content EXCEPT ![entry][FileOf(stage[r])] = "torn"]
        /\ synced' = [synced EXCEPT ![entry] = @ \ {FileOf(stage[r])}]
        /\ UNCHANGED <<entry, diskEntry, disk, evaluations, receipt>>
    BY <1>5, <1>a, <1>b, <1>f DEF CreateFile, Fits, Goto
  <2>2. FileOf(stage[r]) \notin Base(stage[r])
    BY <2>1, Tables
  <2>3. \A f \in Base(stage[r]) :
          f \in synced'[entry] /\ content'[entry][f] = "whole"
    <3>1. Base(stage[r]) \subseteq Files
      BY <2>1, Tables
    <3> QED
      BY <2>1, <2>2, <3>1, <1>t DEF Progress
  <2>4. live'[entry] = live[entry] \cup {CreatedName(stage[r])}
    BY <2>1, <1>t
  <2>5. Progress(r)'
    BY <2>1, <2>3, <2>4, Tables DEF Progress, LiveAt, DiskAt, Filled, Flushed
  <2> QED
    BY <2>1, <2>5, <1>t, Steps DEF Advances, Fresh, Owner
<1>6. CASE InterruptWrite(r) \/ RetryWrite(r)
  <2>1. /\ pc[r] \in {"write", "interrupted"} /\ pc'[r] \in {"write", "interrupted"}
        /\ stage' = stage /\ stage[r] \in {"claim", "per_seed", "summary"}
        /\ UNCHANGED <<entry, diskEntry, live, disk, content, synced, evaluations,
                       receipt>>
    BY <1>6, <1>a, <1>b DEF InterruptWrite, RetryWrite, Fits, Goto
  <2>2. Progress(r)'
    BY <2>1, Tables DEF Progress, LiveAt, DiskAt, Filled, Flushed
  <2> QED
    BY <2>1, <2>2, Steps DEF Advances, Fresh, Owner
<1>18. CASE OsWrite(r)
  <2>1. /\ pc[r] = "write" /\ pc'[r] = "written" /\ stage' = stage
        /\ stage[r] \in {"claim", "per_seed", "summary"}
        /\ UNCHANGED <<entry, diskEntry, live, disk, synced, offset, evaluations,
                       receipt>>
    BY <1>18, <1>a, <1>b DEF OsWrite, Fits, Goto
  <2>2. FileOf(stage[r]) \in Files /\ Base(stage[r]) \subseteq Files
    BY <2>1, Tables
  <2>3. PICK n \in 0 .. Payload - offset[r] :
          /\ written' = [written EXCEPT ![r] = n]
          /\ content' = IF offset[r] + n < Payload THEN content
               ELSE [content EXCEPT ![entry][FileOf(stage[r])] = "whole"]
    BY <1>18, <1>a, <2>1 DEF OsWrite
  <2>4. written'[r] = n /\ offset[r] \in Nat /\ n \in Nat
    BY <2>3, PayloadAssumption DEF LoopInv
  <2>5. CASE offset[r] + n < Payload
    <3>1. content' = content /\ offset'[r] + written'[r] # Payload
      BY <2>1, <2>3, <2>4, <2>5, PayloadAssumption
    <3>2. Progress(r)'
      BY <2>1, <3>1, Tables DEF Progress, LiveAt, DiskAt, Filled, Flushed
    <3> QED
      BY <2>1, <3>1, <3>2, Steps DEF Advances, Fresh, Owner
  <2>6. CASE ~(offset[r] + n < Payload)
    <3>1. content' = [content EXCEPT ![entry][FileOf(stage[r])] = "whole"]
      BY <2>3, <2>6
    <3>2. /\ content'[entry][FileOf(stage[r])] = "whole"
          /\ \A f \in Base(stage[r]) : content'[entry][f] = "whole"
      BY <2>2, <3>1, <1>t DEF Progress
    <3>3. Progress(r)'
      BY <2>1, <3>2, Tables DEF Progress, LiveAt, DiskAt, Filled, Flushed
    <3> QED
      BY <2>1, <3>1, <3>3, <1>t, Steps DEF Advances, Fresh, Owner
  <2> QED
    BY <2>5, <2>6
<1>19. CASE AccountWrite(r)
  <2>1. /\ pc[r] = "written" /\ stage' = stage
        /\ stage[r] \in {"claim", "per_seed", "summary"}
        /\ \/ pc'[r] = "write"
           \/ pc'[r] = "sync_file" /\ offset[r] + written[r] = Payload
        /\ UNCHANGED <<entry, diskEntry, live, disk, content, synced, evaluations,
                       receipt>>
    BY <1>19, <1>a, <1>b, <1>f DEF AccountWrite, CountBytes, Fits, Goto
  <2>2. Progress(r)'
    BY <2>1, Tables DEF Progress, LiveAt, DiskAt, Filled, Flushed
  <2> QED
    BY <2>1, <2>2, Steps DEF Advances, Fresh, Owner
<1>7. CASE SyncFile(r)
  <2>1. /\ pc[r] = "sync_file" /\ pc'[r] = "sync_dir" /\ stage' = stage
        /\ stage[r] \in {"claim", "per_seed", "summary"}
        /\ synced' = [synced EXCEPT ![entry] = @ \cup {FileOf(stage[r])}]
        /\ UNCHANGED <<entry, diskEntry, live, disk, content, evaluations, receipt>>
    BY <1>7, <1>a, <1>b DEF SyncFile, Fits, Goto
  <2>2. synced'[entry] = synced[entry] \cup {FileOf(stage[r])}
    BY <2>1, <1>t
  <2>3. Progress(r)'
    BY <2>1, <2>2, Tables DEF Progress, LiveAt, DiskAt, Filled, Flushed
  <2> QED
    BY <2>1, <2>3, <1>t, Steps DEF Advances, Fresh, Owner
<1>8. CASE SyncDirectory(r)
  <2>1. /\ disk' = [disk EXCEPT ![entry] = live[entry]]
        /\ UNCHANGED <<entry, diskEntry, live, content, synced, evaluations, receipt>>
    BY <1>8, <1>a DEF SyncDirectory
  <2>2. disk'[entry] = live[entry]
    BY <2>1, <1>t
  <2>3. CASE \/ pc[r] = "sync_empty" /\ Goto(r, "sync_claim")
             \/ pc[r] = "sync_dir" /\ stage[r] # "claim" /\ Goto(r, "link")
             \/ pc[r] = "sync_link" /\ Goto(r, "unlink")
             \/ pc[r] = "sync_final" /\ Goto(r, "sync_parent")
    <3>1. /\ stage'[r] = stage[r]
          /\ \/ pc[r] = "sync_empty" /\ pc'[r] = "sync_claim" /\ stage[r] = "claim"
             \/ pc[r] = "sync_dir" /\ stage[r] \in Artifacts /\ pc'[r] = "link"
             \/ pc[r] = "sync_link" /\ stage[r] \in Artifacts /\ pc'[r] = "unlink"
             \/ pc[r] = "sync_final" /\ stage[r] = "final" /\ pc'[r] = "sync_parent"
      BY <2>3, <1>a, <1>g DEF Fits, Active, SystemCalls, Artifacts
    <3>2. Progress(r)'
      BY <2>1, <2>2, <3>1, Tables DEF Progress, LiveAt, DiskAt, Filled, Flushed
    <3> QED
      BY <2>1, <3>1, <3>2, <1>t, Steps DEF Advances, Fresh, Owner
  <2>4. CASE pc[r] = "sync_dir" /\ stage[r] = "claim" /\ Enter(r, "evaluate", "factory")
    <3>1. pc'[r] = "factory" /\ stage'[r] = "evaluate"
      BY <2>4, <1>e
    <3>2. Progress(r)'
      BY <2>1, <2>2, <2>4, <3>1, Tables DEF Progress, LiveAt, DiskAt, Filled, Flushed
    <3> QED
      BY <2>1, <3>1, <3>2, <1>t, Steps DEF Advances, Fresh, Owner
  <2>5. CASE pc[r] = "sync_unlink" /\ Enter(r, Following(stage[r]), "secure_sync")
    <3>1. /\ pc'[r] = "secure_sync" /\ stage'[r] = Following(stage[r])
          /\ stage[r] \in Artifacts
      BY <2>5, <1>a, <1>e DEF Fits
    <3>2. Base(Following(stage[r])) = Base(stage[r]) \cup {stage[r]}
      BY <3>1, Tables DEF Following
    <3>3. Progress(r)'
      BY <2>1, <2>2, <2>5, <3>1, <3>2, Tables DEF Progress, LiveAt, DiskAt, Filled,
         Flushed, Following
    <3>4. ~Fresh(r)
      BY <2>5, <3>1, Steps, Tables DEF Fresh, Owner
    <3> QED
      BY <2>1, <3>1, <3>3, <3>4, <1>t, Steps DEF Advances
  <2> QED
    BY <1>8, <2>3, <2>4, <2>5 DEF SyncDirectory
<1>9. CASE EnterFactory(r)
  <2>1. /\ pc[r] = "factory" /\ pc'[r] = "building" /\ stage' = stage
        /\ stage[r] = "evaluate"
        /\ evaluations' = evaluations + 1
        /\ UNCHANGED <<entry, diskEntry, live, disk, content, synced, receipt>>
    BY <1>9, <1>a, <1>b DEF EnterFactory, Fits, Goto, Callbacks
  <2>2. Progress(r)'
    BY <2>1, Tables DEF Progress, LiveAt, DiskAt, Filled, Flushed
  <2> QED
    BY <2>1, <2>2 DEF Advances
<1>10. CASE LeaveFactory(r)
  <2>1. /\ pc[r] = "building" /\ pc'[r] = "validate" /\ stage' = stage
        /\ stage[r] = "evaluate"
        /\ UNCHANGED <<entry, diskEntry, live, disk, content, synced, evaluations,
                       receipt>>
    BY <1>10, <1>a, <1>b, <1>s DEF LeaveFactory, Fits, Goto, Callbacks, Outcomes,
       ErrorCodes
  <2>2. Progress(r)'
    BY <2>1, Tables DEF Progress, LiveAt, DiskAt, Filled, Flushed
  <2> QED
    BY <2>1, <2>2, Steps DEF Advances, Fresh, Owner
<1>11. CASE ValidateBundle(r)
  <2>1. /\ pc[r] = "validate" /\ pc'[r] = "secure_sync" /\ stage'[r] = "per_seed"
        /\ stage[r] = "evaluate"
        /\ UNCHANGED <<entry, diskEntry, live, disk, content, synced, evaluations,
                       receipt>>
    BY <1>11, <1>a, <1>e, <1>s DEF ValidateBundle, Fits, Callbacks, Outcomes, ErrorCodes
  <2>2. Progress(r)'
    BY <2>1, Tables DEF Progress, LiveAt, DiskAt, Filled, Flushed
  <2> QED
    BY <2>1, <2>2, Steps DEF Advances, Fresh, Owner
<1>12. CASE SecureSync(r)
  <2>1. /\ pc[r] = "secure_sync" /\ pc'[r] = "secure_check" /\ stage' = stage
        /\ stage[r] \in {"per_seed", "summary", "final"}
        /\ disk' = [disk EXCEPT ![entry] = live[entry]]
        /\ diskEntry' = entry
        /\ UNCHANGED <<entry, live, content, synced, evaluations, receipt>>
    BY <1>12, <1>a, <1>b DEF SecureSync, Fits, Goto
  <2>2. disk'[entry] = live[entry]
    BY <2>1, <1>t
  <2>3. Progress(r)'
    BY <2>1, <2>2, Tables DEF Progress, LiveAt, DiskAt, Filled, Flushed
  <2> QED
    BY <2>1, <2>3, <1>t, Steps DEF Advances, Fresh, Owner
<1>13. CASE SecureCheck(r)
  <2>1. /\ pc[r] = "secure_check" /\ stage' = stage
        /\ pc'[r] = IF stage[r] = "final" THEN "unlink_attempt" ELSE "create"
        /\ stage[r] \in {"per_seed", "summary", "final"}
        /\ synced' = [synced EXCEPT ![entry] = @ \cup {"attempt"}]
        /\ UNCHANGED <<entry, diskEntry, live, disk, content, evaluations, receipt>>
    BY <1>13, <1>a, <1>b, <1>f DEF SecureCheck, Fits, Goto
  <2>2. synced'[entry] = synced[entry] \cup {"attempt"}
    BY <2>1, <1>t
  <2>3. Progress(r)'
    BY <2>1, <2>2, Tables DEF Progress, LiveAt, DiskAt, Filled, Flushed
  <2> QED
    BY <2>1, <2>3, <1>t, Steps DEF Advances, Fresh, Owner
<1>14. CASE LinkPublic(r)
  <2>1. /\ pc[r] = "link" /\ pc'[r] = "sync_link" /\ stage' = stage
        /\ stage[r] \in Artifacts
        /\ live' = [live EXCEPT ![entry] = @ \cup {stage[r]}]
        /\ UNCHANGED <<entry, diskEntry, disk, content, synced, evaluations, receipt>>
    BY <1>14, <1>a, <1>b, <1>f DEF LinkPublic, Fits, Goto
  <2>2. live'[entry] = live[entry] \cup {stage[r]}
    BY <2>1, <1>t
  <2>3. Progress(r)'
    BY <2>1, <2>2, Tables DEF Progress, LiveAt, DiskAt, Filled, Flushed
  <2> QED
    BY <2>1, <2>3, <1>t, Steps DEF Advances, Fresh, Owner
<1>15. CASE UnlinkStage(r)
  <2>1. /\ pc[r] = "unlink" /\ pc'[r] = "sync_unlink" /\ stage' = stage
        /\ stage[r] \in Artifacts
        /\ live' = [live EXCEPT ![entry] = @ \ {CreatedName(stage[r])}]
        /\ UNCHANGED <<entry, diskEntry, disk, content, synced, evaluations, receipt>>
    BY <1>15, <1>a, <1>b DEF UnlinkStage, Fits, Goto
  <2>2. live'[entry] = live[entry] \ {CreatedName(stage[r])}
    BY <2>1, <1>t
  <2>3. Progress(r)'
    BY <2>1, <2>2, Tables DEF Progress, LiveAt, DiskAt, Filled, Flushed
  <2> QED
    BY <2>1, <2>3, <1>t, Steps DEF Advances, Fresh, Owner
<1>16. CASE UnlinkAttempt(r)
  <2>1. /\ pc[r] = "unlink_attempt" /\ pc'[r] = "sync_final" /\ stage' = stage
        /\ stage[r] = "final"
        /\ live' = [live EXCEPT ![entry] = @ \ {"attempt"}]
        /\ UNCHANGED <<entry, diskEntry, disk, content, synced, evaluations, receipt>>
    BY <1>16, <1>a, <1>b, <1>f DEF UnlinkAttempt, Fits, Goto
  <2>2. live'[entry] = live[entry] \ {"attempt"}
    BY <2>1, <1>t
  <2>3. Progress(r)'
    BY <2>1, <2>2, Tables DEF Progress, LiveAt, DiskAt, Filled, Flushed
  <2> QED
    BY <2>1, <2>3, <1>t, Steps DEF Advances, Fresh, Owner
<1>17. CASE CheckFinal(r)
  BY <1>17, <1>f, <1>s DEF CheckFinal, Outcomes
<1> QED
  BY <1>1, <1>3, <1>4, <1>5, <1>6, <1>7, <1>8, <1>9, <1>10, <1>11, <1>12, <1>13,
     <1>14, <1>15, <1>16, <1>17, <1>18, <1>19 DEF Step

\* A step of an owner that goes on keeps the whole invariant.
LEMMA AdvanceKeepsPub ==
  ASSUME ControlInv, ClaimInv, PubInv, NEW r \in Runners, Owner(r), Step(r),
         Owner(r)', ControlInv', ClaimInv',
         \A q \in Runners \ {r} : pc'[q] = pc[q] /\ ~Owner(q)'
  PROVE  PubInv'
<1>1. /\ entry \in Inodes
      /\ pc[r] # "open" => fd[r] = entry
      /\ Progress(r)
      /\ evaluations \in Nat
      /\ ~Fresh(r) => evaluations > 0
  BY NoDirAssumption DEF ControlInv, CallInv, NameInv, HistoryInv, ClaimInv, OwnsEntry, PubInv
<1>2. Advances(r)
  BY <1>1, OwnerAdvances
<1>3. receipt = NoDir /\ \A q \in Runners : pc[q] \notin Judged
  BY DEF PubInv, Abandoned
<1>4. stage'[r] \in Stages /\ Fits(pc'[r], stage'[r])
  BY DEF ControlInv, CallInv, RunInv
<1>5. Good(entry)'
  BY <1>2, <1>4, ProgressTellsThen DEF Advances, InOrder
<1>6. \A d \in Inodes : Good(d)'
  BY <1>2, <1>5 DEF Advances, PubInv, Good, Survives
<1>7. ~Fresh(r)' => evaluations' > 0
  BY <1>1, <1>2 DEF Advances
<1>8. evaluations' > 0 => ~Fresh(r)'
  <2>1. Fresh(r)' => evaluations' = 0
    BY DEF ClaimInv, OwnsEntry
  <2> QED
    BY <2>1
<1>9. evaluations' > 0 => RecordedIn(entry)'
  BY <1>2, <1>4, <1>8, ProgressTellsThen DEF Advances, InOrder
<1>10. pc'[r] \notin Judged
  BY Steps DEF Judged, Owner
<1> QED
  BY <1>1, <1>2, <1>3, <1>6, <1>7, <1>9, <1>10 DEF Advances, PubInv

\* A run that ends, or one that begins, changes nothing in the directory; what
\* its outcome says is so.
LEMMA EndKeepsPub ==
  ASSUME ControlInv, ClaimInv, PubInv, NEW r \in Runners,
         \A q \in Runners \ {r} :
           /\ pc'[q] = pc[q] /\ stage'[q] = stage[q]
           /\ offset'[q] = offset[q] /\ written'[q] = written[q],
         ~Owner(r)',
         UNCHANGED <<entry, diskEntry, fileVars, evaluations, receipt>>,
         pc'[r] \in Judged =>
           Owner(r) /\ ~Fresh(r) /\ Leaves(pc'[r])
  PROVE  PubInv'
<1> USE DEF fileVars
<1>1. \A q \in Runners : Owner(q)' => q # r /\ Owner(q)
  BY DEF Owner
<1>2. ASSUME NEW q \in Runners, Owner(q)'
      PROVE  Progress(q)' /\ (~Fresh(q)' => evaluations' > 0)
  <2>1. /\ Owner(q) /\ pc'[q] = pc[q] /\ stage'[q] = stage[q]
        /\ offset'[q] = offset[q] /\ written'[q] = written[q]
    BY <1>1, <1>2
  <2>2. Progress(q) /\ (~Fresh(q) => evaluations > 0)
    BY <2>1 DEF PubInv
  <2>3. Progress(q)'
    BY <2>1, <2>2 DEF Progress
  <2> QED
    BY <2>1, <2>2, <2>3 DEF Fresh, Owner
<1>3. \A d \in Inodes : Good(d)'
  BY DEF PubInv, Good, Survives
<1>4. evaluations' > 0 => RecordedIn(entry)'
  BY DEF PubInv, RecordedIn, Survives
<1>5. Abandoned => Abandoned'
  BY <1>1 DEF Abandoned
<1>6. Owner(r) => Abandoned'
  BY <1>1 DEF Abandoned, ClaimInv
<1>7. receipt' # NoDir => Abandoned' /\ Finished(receipt)'
  BY <1>5 DEF PubInv, Finished
<1>8. ASSUME NEW q \in Runners, pc'[q] \in Judged
      PROVE  evaluations' > 0 /\ Abandoned' /\ Leaves(pc[q])'
  <2>1. CASE q = r
    <3>1. Owner(r) /\ ~Fresh(r) /\ Leaves(pc'[r])
      BY <1>8, <2>1
    <3>2. evaluations > 0
      BY <3>1 DEF PubInv
    <3>3. Leaves(pc[r])'
      BY <3>1 DEF Leaves, Complete
    <3> QED
      BY <1>6, <2>1, <3>1, <3>2, <3>3
  <2>2. CASE q # r
    <3>1. evaluations > 0 /\ Abandoned /\ Leaves(pc[q]) /\ pc'[q] = pc[q]
      BY <1>8, <2>2 DEF PubInv
    <3>2. Leaves(pc[q])'
      BY <3>1 DEF Leaves, Complete
    <3> QED
      BY <1>5, <3>1, <3>2
  <2> QED
    BY <2>1, <2>2
<1>9. diskEntry' \in {NoDir, entry'}
  BY DEF PubInv
<1> QED
  BY <1>2, <1>3, <1>4, <1>7, <1>8, <1>9 DEF PubInv

\* A run counts the bytes of its own writes only.
LEMMA OneCounts ==
  ASSUME ControlInv, NEW r \in Runners,
         Step(r) \/ Begin(r) \/ Fault(r) \/ Kill(r)
  PROVE  \A q \in Runners \ {r} :
           offset'[q] = offset[q] /\ written'[q] = written[q]
<1>1. CASE UNCHANGED loopVars
  BY <1>1 DEF loopVars
<1>2. CASE OsWrite(r) \/ AccountWrite(r) \/ LeaveLoop(r)
  BY <1>2 DEF OsWrite, AccountWrite, CountBytes, LeaveLoop, ControlInv, LoopInv
<1>3. \/ UNCHANGED loopVars
      \/ OsWrite(r) \/ AccountWrite(r) \/ LeaveLoop(r)
  BY DEF Step, Begin, Fault, Kill, Refuse, Mkdir, OpenResults, SyncEvaluation,
     CreateFile, InterruptWrite, RetryWrite, SyncFile, SyncDirectory, EnterFactory,
     LeaveFactory, ValidateBundle, SecureSync, SecureCheck, LinkPublic, UnlinkStage,
     UnlinkAttempt, CheckFinal
<1> QED
  BY <1>1, <1>2, <1>3

\* A run moves itself only.
LEMMA OneMoves ==
  ASSUME ControlInv, NEW r \in Runners,
         Step(r) \/ Begin(r) \/ Fault(r) \/ Kill(r)
  PROVE  \A q \in Runners \ {r} :
           /\ pc'[q] = pc[q] /\ stage'[q] = stage[q] /\ (Owner(q)' <=> Owner(q))
           /\ offset'[q] = offset[q] /\ written'[q] = written[q]
<1> SUFFICES \A q \in Runners \ {r} :
               pc'[q] = pc[q] /\ stage'[q] = stage[q] /\ (Owner(q)' <=> Owner(q))
  BY OneCounts
<1>1. ASSUME \/ \E p : Goto(r, p)
             \/ \E s, p : Enter(r, s, p)
             \/ \E o : Stop(r, o)
             \/ pc' = [pc EXCEPT ![r] = "sync_empty"] /\ stage' = stage
      PROVE  \A q \in Runners \ {r} :
               pc'[q] = pc[q] /\ stage'[q] = stage[q] /\ (Owner(q)' <=> Owner(q))
  BY <1>1 DEF ControlInv, CallInv, RunInv, Goto, Enter, Stop, Owner
<1>2. CASE Step(r)
  <2>1. CASE Refuse(r)
    BY <1>1, <2>1 DEF Refuse, RefuseAttempt, RefuseCallbacks, RefuseRoot
  <2>2. CASE Mkdir(r) \/ OpenResults(r) \/ SyncEvaluation(r) \/ CreateFile(r)
    BY <1>1, <2>2 DEF Mkdir, OpenResults, SyncEvaluation, CreateFile, Fail
  <2>3. CASE SyncFile(r) \/ SyncDirectory(r) \/ EnterFactory(r)
    BY <1>1, <2>3 DEF SyncFile, SyncDirectory, EnterFactory
  <2>6. CASE InterruptWrite(r) \/ RetryWrite(r) \/ OsWrite(r) \/ AccountWrite(r)
    BY <1>1, <2>6 DEF InterruptWrite, RetryWrite, OsWrite, AccountWrite, CountBytes, Fail
  <2>4. CASE LeaveFactory(r) \/ ValidateBundle(r) \/ SecureSync(r) \/ SecureCheck(r)
    BY <1>1, <2>4 DEF LeaveFactory, ValidateBundle, SecureSync, SecureCheck, Fail
  <2>5. CASE LinkPublic(r) \/ UnlinkStage(r) \/ UnlinkAttempt(r) \/ CheckFinal(r)
    BY <1>1, <2>5 DEF LinkPublic, UnlinkStage, UnlinkAttempt, CheckFinal, Fail
  <2> QED
    BY <1>2, <2>1, <2>2, <2>3, <2>4, <2>5, <2>6 DEF Step
<1>3. CASE Begin(r) \/ Fault(r) \/ Kill(r)
  BY <1>1, <1>3 DEF Begin, Fault, Kill, Fail
<1> QED
  BY <1>2, <1>3

\* An error code tells what is left, since it is fixed by the stage.
LEMMA FailTells ==
  ASSUME ControlInv, PubInv, NEW r \in Runners, Fail(r), pc[r] \notin Callbacks,
         Owner(r)
  PROVE  /\ ~Owner(r)'
         /\ pc'[r] \in Judged => ~Fresh(r) /\ Leaves(pc'[r])
<1>1. /\ pc'[r] = FailCode(stage[r])
      /\ stage[r] \in Stages
      /\ Fits(pc[r], stage[r])
      /\ Progress(r)
  BY DEF Fail, Stop, ControlInv, CallInv, RunInv, PubInv
<1>2. stage[r] # "evaluate"
  BY <1>1, Steps DEF Fits, Owner, Artifacts, Callbacks
<1>3. CASE stage[r] \in {"claim", "per_seed", "summary"}
  <2>1. pc'[r] \in {"claim_failed", "publication_failed"}
    BY <1>1, <1>3 DEF FailCode, Artifacts
  <2> QED
    BY <2>1, Steps DEF Judged, Owner
<1>4. CASE stage[r] = "final"
  <2>1. pc'[r] = "finalization_failed"
    BY <1>1, <1>4 DEF FailCode, Artifacts
  <2>2. ~Fresh(r)
    BY <1>1, <1>4 DEF Fresh, Fits, Callbacks
  <2>3. Complete(entry)
    BY <1>1, <1>4, Tables DEF Progress, LiveAt, DiskAt, Complete, Fits
  <2> QED
    BY <2>1, <2>2, <2>3, Steps DEF Leaves, Owner
<1> QED
  BY <1>1, <1>2, <1>3, <1>4, Tables

\* How a run can end: an OSError, a callback that refuses, or the receipt.
LEMMA StepEnds ==
  ASSUME ControlInv, ClaimInv, PubInv, NEW r \in Runners, Step(r), Owner(r), ~Owner(r)'
  PROVE  /\ UNCHANGED <<entry, diskEntry, fileVars, evaluations>>
         /\ pc'[r] \in Judged => ~Fresh(r) /\ Leaves(pc'[r])
         /\ \/ receipt' = receipt
            \/ /\ receipt' = entry
               /\ pc'[r] = "published"
               /\ stage[r] = "final" /\ pc[r] = "check_final"
<1> USE DEF nameVars, fileVars, historyVars
<1>a. /\ stage[r] \in Stages /\ Fits(pc[r], stage[r])
      /\ pc \in [Runners -> Resting \cup Active]
      /\ pc[r] # "open" => fd[r] = entry
      /\ Progress(r)
  BY DEF ControlInv, CallInv, RunInv, ClaimInv, OwnsEntry, PubInv
<1>g. ASSUME NEW p \in Holding, Goto(r, p) PROVE FALSE
  BY <1>a, <1>g DEF Goto, Owner
<1>e. ASSUME NEW p \in Holding, NEW s, Enter(r, s, p) PROVE FALSE
  BY <1>a, <1>e DEF Enter, Owner
<1>1. CASE Refuse(r) \/ Mkdir(r)
  BY <1>1, Steps DEF Refuse, Mkdir, Owner
<1>2. CASE OpenResults(r)
  <2>1. pc'[r] # "sync_empty"
    BY Steps DEF Owner
  <2> QED
    BY <1>2, <1>a, <2>1, FailTells DEF OpenResults, Callbacks
<1>3. CASE SyncEvaluation(r) \/ SyncFile(r) \/ EnterFactory(r)
  BY <1>3, <1>g, Steps DEF SyncEvaluation, SyncFile, EnterFactory
<1>12. CASE InterruptWrite(r) \/ RetryWrite(r) \/ OsWrite(r)
  BY <1>12, <1>g, Steps DEF InterruptWrite, RetryWrite, OsWrite
<1>13. CASE AccountWrite(r)
  BY <1>13, <1>g, FailTells, Steps DEF AccountWrite, CountBytes, Callbacks
<1>4. CASE SyncDirectory(r)
  BY <1>4, <1>g, <1>e, Steps DEF SyncDirectory
<1>5. CASE SecureSync(r) \/ UnlinkStage(r)
  BY <1>5, <1>g, Steps DEF SecureSync, UnlinkStage
<1>6. CASE CreateFile(r)
  BY <1>6, <1>g, FailTells, Steps DEF CreateFile, Callbacks
<1>7. CASE SecureCheck(r)
  BY <1>7, <1>g, FailTells, Steps DEF SecureCheck, Callbacks
<1>8. CASE LinkPublic(r)
  BY <1>8, <1>g, FailTells, Steps DEF LinkPublic, Callbacks
<1>9. CASE UnlinkAttempt(r)
  BY <1>9, <1>g, FailTells, Steps DEF UnlinkAttempt, Callbacks
<1>10. CASE LeaveFactory(r) \/ ValidateBundle(r)
  <2>1. /\ pc[r] \in {"building", "validate"} /\ stage[r] = "evaluate"
        /\ pc'[r] \in {"factory_failed", "invalid_bundle"}
        /\ UNCHANGED <<entry, diskEntry, fileVars, evaluations, receipt>>
    BY <1>10, <1>a, <1>g, <1>e, Steps
       DEF LeaveFactory, ValidateBundle, Stop, Fits, Callbacks
  <2>2. live[entry] = {"attempt"} /\ disk[entry] = {"attempt"}
    BY <1>a, <2>1, Tables DEF Progress, LiveAt, DiskAt
  <2>3. (live[entry] \cup disk[entry]) \cap Artifacts = {}
    BY <2>2, Tables
  <2>4. Leaves(pc'[r])
    BY <2>1, <2>3 DEF Leaves
  <2> QED
    BY <2>1, <2>4 DEF Fresh
<1>11. CASE CheckFinal(r)
  <2>1. pc[r] = "check_final" /\ stage[r] = "final" /\ fd[r] = entry
    BY <1>11, <1>a DEF CheckFinal, Fits
  <2>2. receipt' = fd[r] /\ Stop(r, "published")
    BY <1>11, <2>1 DEF CheckFinal, NamespaceIsCurrent
  <2>3. pc'[r] = "published"
    BY <2>2, <1>a DEF Stop
  <2> QED
    BY <1>11, <2>1, <2>2, <2>3 DEF CheckFinal, Judged
<1> QED
  BY <1>1, <1>2, <1>3, <1>4, <1>5, <1>6, <1>7, <1>8, <1>9, <1>10, <1>11,
     <1>12, <1>13 DEF Step

\* The receipt: the directory is as the last stage has left it.
LEMMA ReceiptKeepsPub ==
  ASSUME ControlInv, ClaimInv, PubInv, NEW r \in Runners, Owner(r), ~Owner(r)',
         stage[r] = "final", pc[r] = "check_final", pc'[r] = "published",
         receipt' = entry,
         UNCHANGED <<entry, diskEntry, fileVars, evaluations>>,
         \A q \in Runners \ {r} : pc'[q] = pc[q] /\ (Owner(q)' <=> Owner(q))
  PROVE  PubInv'
<1> USE DEF fileVars
<1>1. Abandoned'
  BY DEF Abandoned, ClaimInv
<1>2. \A q \in Runners : pc'[q] \notin Judged
  BY DEF PubInv, Abandoned, Judged
<1>3. Finished(receipt)'
  <2>1. Durable(r)
    BY DEF Durable
  <2>2. diskEntry = entry /\ Progress(r)
    BY <2>1 DEF ClaimInv, OwnsEntry, PubInv
  <2> QED
    BY <2>2, Tables DEF Finished, Progress, LiveAt, DiskAt
<1>4. \A d \in Inodes : Good(d)'
  BY DEF PubInv, Good, Survives
<1>5. evaluations' > 0 => RecordedIn(entry)'
  BY DEF PubInv, RecordedIn, Survives
<1> QED
  BY <1>1, <1>2, <1>3, <1>4, <1>5 DEF PubInv, Abandoned

\* The claim: a directory that nothing refers to is emptied and owned.
LEMMA MkdirKeepsPub ==
  ASSUME ControlInv, ClaimInv, PubInv, NEW r \in Runners, Mkdir(r), entry = NoDir,
         \A q \in Runners \ {r} : pc'[q] = pc[q] /\ (Owner(q)' <=> Owner(q))
  PROVE  PubInv'
<1> USE DEF nameVars, fileVars, historyVars
<1>1. PICK d \in Unused :
        /\ entry' = d
        /\ live' = [live EXCEPT ![d] = {}]
        /\ disk' = [disk EXCEPT ![d] = {}]
        /\ content' = [content EXCEPT ![d] = [f \in Files |-> "none"]]
        /\ synced' = [synced EXCEPT ![d] = {}]
  BY DEF Mkdir
<1>2. /\ pc'[r] = "open" /\ stage' = stage /\ stage[r] = "claim"
      /\ UNCHANGED <<diskEntry, evaluations, receipt>>
  BY NoDirAssumption, Steps DEF Mkdir, Goto, ControlInv, CallInv, RunInv, Fits
<1>3. d \in Inodes
  BY DEF Unused
<1>4. /\ live'[d] = {} /\ disk'[d] = {}
      /\ \A e \in Inodes \ {d} :
           /\ live'[e] = live[e] /\ disk'[e] = disk[e]
           /\ content'[e] = content[e] /\ synced'[e] = synced[e]
  BY <1>1, <1>3 DEF ControlInv, CallInv, FileInv
<1>5. \A q \in Runners : ~Owner(q)
  BY DEF ClaimInv, OwnsEntry
<1>6. /\ evaluations = 0
      /\ diskEntry = NoDir
      /\ receipt = NoDir
      /\ \A q \in Runners : pc[q] \notin Judged
  BY DEF ClaimInv, ControlInv, CallInv, HistoryInv, PubInv, Finished
<1>7. Progress(r)'
  BY <1>1, <1>2, <1>4, Tables DEF Progress, LiveAt, DiskAt, Filled, Flushed
<1>8. Fresh(r)'
  BY <1>2 DEF Fresh, Owner
<1>9. \A e \in Inodes : Good(e)'
  BY <1>4 DEF PubInv, Good, Survives
<1>10. \A q \in Runners : pc'[q] \notin Judged
  BY <1>2, <1>6 DEF Judged
<1> QED
  BY <1>2, <1>5, <1>6, <1>7, <1>8, <1>9, <1>10 DEF PubInv

LEMMA StepKeepsPub ==
  ASSUME ControlInv, ClaimInv, PubInv, NEW r \in Runners, Step(r), ControlInv', ClaimInv'
  PROVE  PubInv'
<1>1. \A q \in Runners \ {r} :
        /\ pc'[q] = pc[q] /\ stage'[q] = stage[q] /\ (Owner(q)' <=> Owner(q))
        /\ offset'[q] = offset[q] /\ written'[q] = written[q]
  BY OneMoves
<1>2. CASE Owner(r) /\ Owner(r)'
  <2>1. \A q \in Runners \ {r} : pc'[q] = pc[q] /\ ~Owner(q)'
    BY <1>1, <1>2 DEF ClaimInv
  <2> QED
    BY <1>2, <2>1, AdvanceKeepsPub
<1>3. CASE Owner(r) /\ ~Owner(r)'
  <2>1. /\ UNCHANGED <<entry, diskEntry, fileVars, evaluations>>
        /\ pc'[r] \in Judged => ~Fresh(r) /\ Leaves(pc'[r])
        /\ \/ receipt' = receipt
           \/ /\ receipt' = entry
              /\ pc'[r] = "published"
              /\ stage[r] = "final" /\ pc[r] = "check_final"
    BY <1>3, StepEnds
  <2>2. CASE receipt' = receipt
    BY <1>1, <1>3, <2>1, <2>2, EndKeepsPub
  <2>3. CASE receipt' # receipt
    BY <1>1, <1>3, <2>1, <2>3, ReceiptKeepsPub
  <2> QED
    BY <2>2, <2>3
<1>4. CASE ~Owner(r)
  <2>1. Refuse(r) \/ Mkdir(r)
    BY <1>4, Steps DEF Owner, Step, OpenResults, SyncEvaluation, CreateFile,
       InterruptWrite, RetryWrite, OsWrite, AccountWrite, SyncFile, SyncDirectory,
       EnterFactory, LeaveFactory, ValidateBundle, SecureSync, SecureCheck, LinkPublic,
       UnlinkStage, UnlinkAttempt, CheckFinal
  <2>2. CASE Refuse(r) \/ entry # NoDir
    <3>1. /\ UNCHANGED <<entry, diskEntry, fileVars, evaluations, receipt>>
          /\ pc'[r] \in {"invalid_attempt", "invalid_callback", "invalid_root",
                         "namespace_claimed"}
      BY <2>1, <2>2 DEF Refuse, RefuseAttempt, RefuseCallbacks, RefuseRoot, Mkdir, Stop,
         nameVars, historyVars, fileVars, ControlInv, CallInv, RunInv
    <3>2. ~Owner(r)' /\ pc'[r] \notin Judged
      BY <3>1, Steps DEF Owner, Judged
    <3> QED
      BY <1>1, <3>1, <3>2, EndKeepsPub
  <2>3. CASE Mkdir(r) /\ entry = NoDir
    BY <1>1, <2>3, MkdirKeepsPub
  <2> QED
    BY <2>1, <2>2, <2>3
<1> QED
  BY <1>2, <1>3, <1>4

\* A call that begins, fails or is killed leaves the directory alone.
LEMMA OthersKeepPub ==
  ASSUME ControlInv, ClaimInv, PubInv, NEW r \in Runners, Begin(r) \/ Fault(r) \/ Kill(r)
  PROVE  PubInv'
<1> USE DEF nameVars, fileVars, historyVars
<1>1. \A q \in Runners \ {r} :
        /\ pc'[q] = pc[q] /\ stage'[q] = stage[q]
        /\ offset'[q] = offset[q] /\ written'[q] = written[q]
  BY OneMoves
<1>2. UNCHANGED <<entry, diskEntry, fileVars, evaluations, receipt>>
  BY DEF Begin, Fault, Kill
<1>3. /\ ~Owner(r)'
      /\ pc'[r] \in Judged => Owner(r) /\ ~Fresh(r) /\ Leaves(pc'[r])
  <2>1. CASE Begin(r) \/ Kill(r)
    <3>1. pc'[r] \in {"mkdir", "killed"}
      BY <2>1 DEF Begin, Goto, Kill, Stop, ControlInv, CallInv, RunInv
    <3> QED
      BY <3>1, Steps DEF Owner, Judged
  <2>2. CASE Fault(r) /\ Owner(r)
    <3>1. pc[r] \notin Callbacks
      BY <2>2 DEF Fault, SystemCalls, Callbacks
    <3> QED
      BY <2>2, <3>1, FailTells DEF Fault
  <2>3. CASE Fault(r) /\ ~Owner(r)
    <3>1. pc[r] = "mkdir"
      BY <2>3, Steps DEF Fault, SystemCalls, Owner
    <3>2. stage[r] = "claim"
      BY <3>1 DEF ControlInv, CallInv, RunInv, Fits
    <3>3. FailCode(stage[r]) = "claim_failed"
      BY <3>2 DEF FailCode, Artifacts
    <3>4. pc'[r] = "claim_failed"
      BY <2>3, <3>3 DEF Fault, Fail, Stop, ControlInv, CallInv, RunInv
    <3> QED
      BY <3>4, Steps DEF Owner, Judged
  <2> QED
    BY <2>1, <2>2, <2>3
<1> QED
  BY <1>1, <1>2, <1>3, EndKeepsPub

\* What is durable is what a crash leaves.
LEMMA CrashSpares ==
  ASSUME ControlInv, Crash, entry' # NoDir
  PROVE  /\ entry' \in Inodes
         /\ live[entry'] \cap disk[entry'] \subseteq live'[entry']
         /\ live'[entry'] \subseteq live[entry'] \cup disk[entry']
         /\ disk'[entry'] = live'[entry']
         /\ synced'[entry'] = Files
         /\ \A f \in synced[entry'] : content'[entry'][f] = content[entry'][f]
         /\ \A d \in Inodes \ {entry'} :
              /\ live'[d] = live[d] /\ disk'[d] = disk[d]
              /\ content'[d] = content[d] /\ synced'[d] = synced[d]
<1>1. entry' \in Inodes
  BY DEF Crash, ControlInv, CallInv, NameInv
<1>2. PICK kept \in SUBSET (live[entry'] \cup disk[entry']),
           torn \in SUBSET (Files \ synced[entry']) :
        /\ live[entry'] \cap disk[entry'] \subseteq kept
        /\ live' = [live EXCEPT ![entry'] = kept]
        /\ disk' = [disk EXCEPT ![entry'] = kept]
        /\ content' = [content EXCEPT ![entry'] =
             [f \in Files |-> IF f \in torn THEN "torn" ELSE @[f]]]
        /\ synced' = [synced EXCEPT ![entry'] = Files]
  BY DEF Crash
<1>3. /\ live'[entry'] = kept /\ disk'[entry'] = kept /\ synced'[entry'] = Files
      /\ content'[entry'] =
           [f \in Files |-> IF f \in torn THEN "torn" ELSE content[entry'][f]]
  BY <1>1, <1>2 DEF ControlInv, CallInv, FileInv
<1>4. \A f \in synced[entry'] : f \in Files /\ f \notin torn
  BY <1>1, <1>2 DEF ControlInv, CallInv, FileInv
<1> QED
  BY <1>1, <1>2, <1>3, <1>4 DEF ControlInv, CallInv, FileInv

LEMMA CrashKeepsPub ==
  ASSUME ControlInv, ClaimInv, PubInv, Crash
  PROVE  PubInv'
<1> USE DEF fileVars, historyVars
<1>1. /\ evaluations' = evaluations /\ receipt' = receipt /\ diskEntry' = entry'
      /\ entry' \in {entry, diskEntry}
      /\ \A q \in Runners :
           pc'[q] = IF pc[q] \in Active THEN "killed" ELSE pc[q]
  BY DEF Crash
<1>2. Abandoned'
  BY <1>1, Steps DEF Abandoned, Owner, ControlInv, CallInv, RunInv, Active, Resting, Outcomes,
     ErrorCodes, Callbacks, SystemCalls, Looping
<1>3. \A q \in Runners : pc'[q] \in Judged => pc'[q] = pc[q]
  BY <1>1 DEF Judged
<1>4. CASE entry' = NoDir
  <2>1. UNCHANGED fileVars
    BY <1>4 DEF Crash
  <2>2. evaluations = 0
    BY <1>1, <1>4 DEF ClaimInv, ControlInv, CallInv, HistoryInv
  <2>3. receipt = NoDir
    BY <1>1, <1>4 DEF PubInv, Finished
  <2>4. \A q \in Runners : pc[q] \notin Judged
    BY <2>2 DEF PubInv
  <2>5. \A d \in Inodes : Good(d)'
    BY <2>1 DEF PubInv, Good, Survives
  <2> QED
    BY <1>1, <1>2, <1>3, <2>2, <2>3, <2>4, <2>5 DEF PubInv, Abandoned
<1>5. CASE entry' # NoDir
  <2>0. entry' = entry
    BY <1>1, <1>5 DEF PubInv
  <2>1. /\ entry \in Inodes
        /\ live[entry] \cap disk[entry] \subseteq live'[entry]
        /\ live'[entry] \subseteq live[entry] \cup disk[entry]
        /\ disk'[entry] = live'[entry]
        /\ synced'[entry] = Files
        /\ \A f \in synced[entry] : content'[entry][f] = content[entry][f]
        /\ \A d \in Inodes \ {entry} :
             /\ live'[d] = live[d] /\ disk'[d] = disk[d]
             /\ content'[d] = content[d] /\ synced'[d] = synced[d]
    BY <1>5, <2>0, CrashSpares
  <2>2. \A f \in Files : Survives(entry, f) => Survives(entry, f)'
    BY <2>0, <2>1 DEF Survives
  <2>3. Good(entry)'
    BY <2>0, <2>1, <2>2, Tables DEF PubInv, Good
  <2>4. \A d \in Inodes : Good(d)'
    BY <2>0, <2>1, <2>3 DEF PubInv, Good, Survives
  <2>5. evaluations' > 0 => RecordedIn(entry)'
    BY <1>1, <2>0, <2>2, Tables DEF PubInv, RecordedIn
  <2>6. receipt' # NoDir => Finished(receipt)'
    BY <1>1, <2>0, <2>1, Tables DEF PubInv, Finished
  <2>7. ASSUME NEW o, Leaves(o) PROVE Leaves(o)'
    <3>1. (live'[entry] \cup disk'[entry]) \subseteq live[entry] \cup disk[entry]
      BY <2>1
    <3>2. Complete(entry) => Complete(entry)'
      <4> SUFFICES ASSUME Complete(entry) PROVE Complete(entry)'
        OBVIOUS
      <4>1. live'[entry] \in {Artifacts, Files}
        BY <2>1, Tables DEF Complete
      <4> QED
        BY <2>0, <2>1, <4>1 DEF Complete
    <3> QED
      BY <2>0, <2>7, <3>1, <3>2 DEF Leaves
  <2>8. \A q \in Runners : pc'[q] \in Judged => evaluations' > 0 /\ Leaves(pc[q])'
    BY <1>1, <1>3, <2>7 DEF PubInv
  <2> QED
    BY <1>1, <1>2, <2>4, <2>5, <2>6, <2>8 DEF PubInv, Abandoned
<1> QED
  BY <1>4, <1>5

LEMMA PubStep ==
  (ControlInv /\ Quiet /\ QuietPub) /\ [Next]_vars /\ (ControlInv /\ Quiet)' => QuietPub'
<1> SUFFICES ASSUME ControlInv, Quiet, QuietPub, [Next]_vars, ControlInv', Quiet',
                    meddles' = 0
             PROVE  PubInv'
  BY DEF QuietPub
<1> USE DEF nameVars, fileVars, historyVars
<1>1. meddles = 0 /\ ~MoveAside /\ ~RemoveMarker
  <2>1. meddles \in Nat
    BY MeddlesAssumption DEF ControlInv, CallInv, HistoryInv
  <2>2. ~MoveAside /\ ~RemoveMarker
    BY <2>1 DEF MoveAside, RemoveMarker, Harm
  <2>3. meddles' = meddles
    BY <2>2 DEF Next, Step, vars, Begin, Fault, Kill, Crash, Refuse, Mkdir, OpenResults,
       SyncEvaluation, CreateFile, InterruptWrite, RetryWrite, OsWrite, AccountWrite,
       SyncFile, SyncDirectory, EnterFactory, LeaveFactory, ValidateBundle, SecureSync,
       SecureCheck, LinkPublic, UnlinkStage, UnlinkAttempt, CheckFinal
  <2> QED
    BY <2>2, <2>3
<1>2. ClaimInv /\ PubInv /\ ClaimInv'
  BY <1>1 DEF Quiet, QuietPub
<1>3. ASSUME NEW r \in Runners, Step(r) PROVE PubInv'
  BY <1>2, <1>3, StepKeepsPub
<1>4. ASSUME NEW r \in Runners, Begin(r) \/ Fault(r) \/ Kill(r) PROVE PubInv'
  BY <1>2, <1>4, OthersKeepPub
<1>5. CASE Crash
  BY <1>2, <1>5, CrashKeepsPub
<1>6. CASE UNCHANGED vars
  BY <1>2, <1>6 DEF vars, PubInv, Good, Survives, Owner, Fresh, Progress, RecordedIn,
     Abandoned, Finished, Leaves, Complete
<1> QED
  BY <1>1, <1>3, <1>4, <1>5, <1>6 DEF Next

\* The whole invariant.
PublicationInv == ControlInv /\ Quiet /\ QuietPub

LEMMA PublicationInvariant == Spec => []PublicationInv
<1>1. Init => PublicationInv
  BY ControlInit, ClaimInit, PubInit DEF PublicationInv
<1>2. PublicationInv /\ [Next]_vars => PublicationInv'
  BY ControlStep, ClaimStep, PubStep DEF PublicationInv
<1> QED
  BY <1>1, <1>2, PTL DEF Spec

\* Once a bundle factory was entered, the claimed directory holds, durably,
\* either the attempt marker or both artifacts: no failure, kill or crash of
\* any number of runners makes the repository look unevaluated again.
THEOREM EvaluationOutlivesEverything == Spec => []EvaluationIsRecorded
<1>1. PublicationInv => EvaluationIsRecorded
  BY DEF PublicationInv, Quiet, QuietPub, ClaimInv, PubInv, RecordedIn,
     EvaluationIsRecorded
<1> QED
  BY <1>1, PublicationInvariant, PTL

\* Wherever the name of the summary is visible, or may come back after a
\* crash, the per-seed rows are durable: the order of the two publications
\* and the syncs between them.
THEOREM SummaryComesLast == Spec => []SummaryIsLast
<1>1. PublicationInv => SummaryIsLast
  BY DEF PublicationInv, QuietPub, PubInv, Good, SummaryIsLast
<1> QED
  BY <1>1, PublicationInvariant, PTL

\* A public name is never bound to an incomplete or unsynced inode, at no
\* instant and after no crash (_publish_staged_file).
THEOREM NamesAreBoundToWholeFiles == Spec => []PublicNamesAreWhole
<1>1. PublicationInv => PublicNamesAreWhole
  BY DEF PublicationInv, QuietPub, PubInv, Good, PublicNamesAreWhole
<1> QED
  BY <1>1, PublicationInvariant, PTL

\* Once a receipt was returned, the directory it names holds the two complete
\* artifacts and nothing else for ever: every later call is refused by the
\* mkdir, and no crash brings the marker back.
THEOREM ReceiptsAreFinal == Spec => []ReceiptIsFinal
<1>1. PublicationInv => ReceiptIsFinal
  BY DEF PublicationInv, QuietPub, PubInv, Finished, Survives, ReceiptIsFinal
<1> QED
  BY <1>1, PublicationInvariant, PTL

\* The error code tells what is left, and goes on doing so: no artifact after
\* a failed factory or bundle, a directory that the result verifier accepts
\* after a failed finalization.
THEOREM ErrorCodesTellWhatIsLeft == Spec => []OutcomeTellsWhatIsLeft
<1>1. Complete(entry) => VerifierAccepts(entry)
  BY Tables DEF Complete, VerifierAccepts
<1>2. PublicationInv => OutcomeTellsWhatIsLeft
  BY <1>1 DEF PublicationInv, QuietPub, PubInv, Judged, Leaves, OutcomeTellsWhatIsLeft
<1> QED
  BY <1>2, PublicationInvariant, PTL

(***************************************************************************)
(* The refinement.  A step is one of the abstract namespace, or none: how  *)
(* the abstract state may change is settled once for each phase, and a     *)
(* step of the code is then shown to change it in no other way.            *)
(***************************************************************************)
AbstractStep == [OneShot!Next]_(OneShot!vars)

\* Before the evaluation the namespace is claimed and forgotten.
LEMMA Unevaluated ==
  ASSUME evaluations = 0, evaluations' = 0, receipt' = receipt
  PROVE  AbstractStep
BY DEF AbstractStep, OneShot!Next, OneShot!vars, OneShot!Claim, OneShot!Forget, Recorded

\* After it the artifacts become durable, one at a time and in their order.
LEMMA Recording ==
  ASSUME evaluations > 0, evaluations' = evaluations, receipt' = receipt,
         entry \in Inodes, entry' = entry, Good(entry),
         Recorded \subseteq Recorded',
         Recorded' \subseteq live[entry] \cup disk[entry]
  PROVE  AbstractStep
<1> USE NoDirAssumption, Tables
<1>1. entry # NoDir /\ Recorded = live[entry] \cap disk[entry] \cap Artifacts
      /\ Recorded' = live'[entry] \cap disk'[entry] \cap Artifacts
  BY DEF Recorded
<1>2. "summary" \in Recorded' => "per_seed" \in Recorded
  BY <1>1 DEF Good, Survives
<1>3. \/ Recorded' = Recorded
      \/ Recorded = {} /\ Recorded' = {"per_seed"}
      \/ Recorded = {"per_seed"} /\ Recorded' = Artifacts
  BY <1>1, <1>2
<1>4. CASE Recorded' = Recorded
  BY <1>1, <1>4 DEF AbstractStep, OneShot!vars
<1>5. CASE Recorded = {} /\ Recorded' = {"per_seed"}
  BY <1>1, <1>5 DEF AbstractStep, OneShot!Next, OneShot!RecordPerSeed
<1>6. CASE Recorded = {"per_seed"} /\ Recorded' = Artifacts
  BY <1>1, <1>6 DEF AbstractStep, OneShot!Next, OneShot!RecordSummary, OneShot!Artifacts
<1> QED
  BY <1>3, <1>4, <1>5, <1>6

LEMMA FactoryIsEvaluate ==
  ASSUME ControlInv, ClaimInv, PubInv, NEW r \in Runners, EnterFactory(r)
  PROVE  AbstractStep
<1> USE NoDirAssumption, Tables DEF nameVars, fileVars
<1>1. /\ pc[r] = "factory" /\ stage[r] = "evaluate"
      /\ UNCHANGED <<entry, live, disk, receipt>>
      /\ evaluations' = evaluations + 1
  BY DEF EnterFactory, ControlInv, CallInv, RunInv, Fits, Callbacks
<1>2. Owner(r) /\ Fresh(r)
  BY <1>1, Steps DEF Owner, Fresh
<1>3. evaluations = 0 /\ entry # NoDir /\ Progress(r)
  BY <1>2 DEF ClaimInv, OwnsEntry, PubInv
<1>4. live[entry] = {"attempt"}
  BY <1>1, <1>3 DEF Progress, LiveAt
<1>5. Recorded = {} /\ Recorded' = {}
  BY <1>1, <1>3, <1>4 DEF Recorded
<1> QED
  BY <1>1, <1>3, <1>5 DEF AbstractStep, OneShot!Next, OneShot!Evaluate

LEMMA ReceiptIsConfirm ==
  ASSUME ControlInv, ClaimInv, PubInv, NEW r \in Runners, CheckFinal(r)
  PROVE  AbstractStep
<1> USE NoDirAssumption, Tables DEF nameVars, fileVars
<1>1. /\ pc[r] = "check_final" /\ stage[r] = "final"
      /\ UNCHANGED <<entry, live, disk, evaluations>>
  BY DEF CheckFinal, ControlInv, CallInv, RunInv, Fits
<1>2. Owner(r) /\ ~Fresh(r)
  BY <1>1, Steps DEF Owner, Fresh
<1>3. /\ evaluations > 0 /\ fd[r] = entry /\ entry # NoDir /\ Progress(r)
      /\ receipt = NoDir
  BY <1>1, <1>2 DEF ClaimInv, OwnsEntry, PubInv, Abandoned
<1>4. live[entry] = Artifacts /\ disk[entry] = Artifacts
  BY <1>1, <1>3 DEF Progress, LiveAt, DiskAt
<1>5. receipt' = entry
  BY <1>3 DEF CheckFinal, NamespaceIsCurrent
<1>6. Recorded = Artifacts /\ Recorded' = Artifacts
  BY <1>1, <1>3, <1>4 DEF Recorded
<1> QED
  BY <1>1, <1>3, <1>5, <1>6
     DEF AbstractStep, OneShot!Next, OneShot!Confirm, OneShot!Artifacts

\* Within the evaluated directory artifacts are linked, never unlinked, and a
\* sync or a crash makes durable what is visible.
LEMMA RecordedGrows ==
  ASSUME ControlInv, ClaimInv, PubInv, [Next]_vars, ~MoveAside, ~RemoveMarker,
         evaluations > 0, evaluations' = evaluations
  PROVE  /\ entry \in Inodes /\ entry' = entry
         /\ Recorded \subseteq Recorded'
         /\ Recorded' \subseteq live[entry] \cup disk[entry]
<1> USE NoDirAssumption, Tables DEF nameVars, fileVars, historyVars
<1>1. /\ entry \in Inodes /\ diskEntry = entry
      /\ live \in [Inodes -> SUBSET Names] /\ disk \in [Inodes -> SUBSET Names]
      /\ Recorded = live[entry] \cap disk[entry] \cap Artifacts
  BY DEF ClaimInv, ControlInv, CallInv, NameInv, FileInv, Recorded
<1>2. entry' = entry => Recorded' = live'[entry] \cap disk'[entry] \cap Artifacts
  BY <1>1 DEF Recorded
<1>3. ASSUME entry' = entry, live' = live, disk' = disk
      PROVE  Recorded' = Recorded
  BY <1>1, <1>2, <1>3
<1>4. ASSUME NEW r \in Runners, Step(r)
      PROVE  /\ entry' = entry
             /\ Recorded \subseteq Recorded'
             /\ Recorded' \subseteq live[entry] \cup disk[entry]
  <2>0. /\ Fits(pc[r], stage[r])
        /\ stage[r] \in Stages
        /\ pc[r] \in Holding => fd[r] = entry /\ Progress(r)
    BY Steps DEF ControlInv, CallInv, RunInv, ClaimInv, OwnsEntry, Owner, PubInv
  <2>1. CASE Refuse(r) \/ Mkdir(r) \/ OpenResults(r) \/ SyncEvaluation(r)
    BY <1>1, <1>3, <2>1 DEF Refuse, Mkdir, OpenResults, SyncEvaluation
  <2>2. CASE SyncFile(r) \/ EnterFactory(r) \/ LeaveFactory(r)
    BY <1>1, <1>3, <2>2 DEF SyncFile, EnterFactory, LeaveFactory
  <2>9. CASE InterruptWrite(r) \/ RetryWrite(r) \/ OsWrite(r) \/ AccountWrite(r)
    BY <1>1, <1>3, <2>9 DEF InterruptWrite, RetryWrite, OsWrite, AccountWrite
  <2>3. CASE ValidateBundle(r) \/ SecureCheck(r) \/ CheckFinal(r)
    BY <1>1, <1>3, <2>3 DEF ValidateBundle, SecureCheck, CheckFinal
  <2>4. CASE SyncDirectory(r) \/ SecureSync(r)
    <3>1. /\ entry' = entry /\ live' = live
          /\ disk' = [disk EXCEPT ![entry] = live[entry]]
      BY <2>0, <2>4, Steps DEF SyncDirectory, SecureSync
    <3>2. Recorded' = live[entry] \cap Artifacts
      BY <1>1, <1>2, <3>1
    <3> QED
      BY <1>1, <3>1, <3>2
  <2>5. CASE CreateFile(r)
    <3>1. /\ entry' = entry /\ disk' = disk /\ fd[r] = entry
          /\ stage[r] \in {"claim", "per_seed", "summary"}
      BY <2>0, <2>5, Steps DEF CreateFile, Fits
    <3>2. CreatedName(stage[r]) \in {"attempt", "per_seed_stage", "summary_stage"}
      BY <3>1
    <3>3. \/ live' = live
          \/ live' = [live EXCEPT ![entry] = @ \cup {CreatedName(stage[r])}]
      BY <2>5, <3>1 DEF CreateFile
    <3>4. /\ live[entry] \subseteq live'[entry]
          /\ CreatedName(stage[r]) \notin Artifacts
          /\ live'[entry] \subseteq live[entry] \cup {CreatedName(stage[r])}
      BY <1>1, <3>2, <3>3
    <3>5. live'[entry] \cap Artifacts = live[entry] \cap Artifacts
      BY <3>4
    <3> QED
      BY <1>1, <1>2, <3>1, <3>5
  <2>6. CASE LinkPublic(r)
    <3>1. /\ entry' = entry /\ disk' = disk /\ fd[r] = entry /\ Progress(r)
          /\ pc[r] = "link" /\ stage[r] \in Artifacts
      BY <2>0, <2>6, Steps DEF LinkPublic, Fits
    <3>2. stage[r] \notin disk[entry]
      BY <3>1 DEF Progress, DiskAt
    <3>3. live' = live \/ live' = [live EXCEPT ![entry] = @ \cup {stage[r]}]
      BY <2>6, <3>1 DEF LinkPublic
    <3>4. live[entry] \subseteq live'[entry]
          /\ live'[entry] \subseteq live[entry] \cup {stage[r]}
      BY <1>1, <3>3
    <3> QED
      BY <1>1, <1>2, <3>1, <3>2, <3>4
  <2>7. CASE UnlinkStage(r)
    <3>1. /\ entry' = entry /\ disk' = disk /\ fd[r] = entry
          /\ stage[r] \in Artifacts
          /\ live' = [live EXCEPT ![entry] = @ \ {CreatedName(stage[r])}]
      BY <2>0, <2>7, Steps DEF UnlinkStage, Fits
    <3>2. CreatedName(stage[r]) \notin Artifacts
      BY <3>1
    <3> QED
      BY <1>1, <1>2, <3>1, <3>2
  <2>8. CASE UnlinkAttempt(r)
    <3>1. /\ entry' = entry /\ disk' = disk
          /\ live' = live \/ live' = [live EXCEPT ![entry] = @ \ {"attempt"}]
      BY <2>0, <2>8, Steps DEF UnlinkAttempt
    <3> QED
      BY <1>1, <1>2, <3>1
  <2> QED
    BY <1>4, <2>1, <2>2, <2>3, <2>4, <2>5, <2>6, <2>7, <2>8, <2>9 DEF Step
<1>5. ASSUME NEW r \in Runners, Begin(r) \/ Fault(r) \/ Kill(r)
      PROVE  entry' = entry /\ Recorded' = Recorded
  BY <1>3, <1>5 DEF Begin, Fault, Kill
<1>6. CASE Crash
  <2>1. entry' = entry
    BY <1>1, <1>6 DEF Crash
  <2>2. /\ live[entry] \cap disk[entry] \subseteq live'[entry]
        /\ live'[entry] \subseteq live[entry] \cup disk[entry]
        /\ disk'[entry] = live'[entry]
    BY <1>1, <1>6, <2>1, CrashSpares
  <2> QED
    BY <1>1, <1>2, <2>1, <2>2
<1>7. CASE UNCHANGED vars
  BY <1>1, <1>3, <1>7 DEF vars
<1> QED
  BY <1>1, <1>4, <1>5, <1>6, <1>7 DEF Next

\* Only two actions move the counter and the receipt.
LEMMA RestIsHistory ==
  ASSUME ControlInv, [Next]_vars, ~MoveAside, ~RemoveMarker,
         \A r \in Runners : ~EnterFactory(r) /\ ~CheckFinal(r)
  PROVE  evaluations' = evaluations /\ receipt' = receipt
BY DEF Next, Step, vars, nameVars, fileVars, historyVars, Begin, Fault, Kill, Crash,
   Refuse, Mkdir, OpenResults, SyncEvaluation, CreateFile, InterruptWrite, RetryWrite,
   OsWrite, AccountWrite, SyncFile, SyncDirectory, LeaveFactory, ValidateBundle,
   SecureSync, SecureCheck, LinkPublic, UnlinkStage, UnlinkAttempt

LEMMA StepRefines ==
  ASSUME MaxMeddles = 0, PublicationInv, [Next]_vars
  PROVE  AbstractStep
<1>1. meddles = 0 /\ ~MoveAside /\ ~RemoveMarker
  BY DEF PublicationInv, ControlInv, CallInv, HistoryInv, MoveAside, RemoveMarker, Harm
<1>2. ControlInv /\ ClaimInv /\ PubInv
  BY <1>1 DEF PublicationInv, Quiet, QuietPub
<1>3. CASE \E r \in Runners : EnterFactory(r)
  BY <1>2, <1>3, FactoryIsEvaluate
<1>4. CASE \E r \in Runners : CheckFinal(r)
  BY <1>2, <1>4, ReceiptIsConfirm
<1>5. CASE \A r \in Runners : ~EnterFactory(r) /\ ~CheckFinal(r)
  <2>1. evaluations' = evaluations /\ receipt' = receipt /\ evaluations \in Nat
    BY <1>1, <1>2, <1>5, RestIsHistory DEF ControlInv, CallInv, HistoryInv
  <2>2. CASE evaluations = 0
    BY <2>1, <2>2, Unevaluated
  <2>3. CASE evaluations > 0
    <3>1. /\ entry \in Inodes /\ entry' = entry
          /\ Recorded \subseteq Recorded'
          /\ Recorded' \subseteq live[entry] \cup disk[entry]
      BY <1>1, <1>2, <2>1, <2>3, RecordedGrows
    <3>2. Good(entry)
      BY <1>2, <3>1 DEF PubInv
    <3> QED
      BY <2>1, <2>3, <3>1, <3>2, Recording
  <2> QED
    BY <2>1, <2>2, <2>3
<1> QED
  BY <1>3, <1>4, <1>5

\* Left alone, the publication boundary implements the one-shot namespace:
\* behind every failure, kill, crash and rival call there are only its steps,
\* a claim, one evaluation, the two artifacts in their order and the receipt.
THEOREM PublicationImplementsOneShot ==
  ASSUME MaxMeddles = 0
  PROVE  Spec => ImplementsOneShot
<1>1. Init => OneShot!Init
  BY DEF Init, OneShot!Init, Recorded
<1>2. PublicationInv /\ [Next]_vars => [OneShot!Next]_(OneShot!vars)
  BY StepRefines DEF AbstractStep
<1> QED
  BY <1>1, <1>2, PublicationInvariant, PTL DEF Spec, ImplementsOneShot, OneShot!Spec

(***************************************************************************)
(* Acts of a bystander.  How often the holdout can be evaluated: every     *)
(* call between its mkdir and its factory may still evaluate, and so may   *)
(* one more while no directory is there to refuse its mkdir.  Only the     *)
(* bystander adds to that sum, one with each act.  A crash makes room for  *)
(* one more if the claim was not synced; what had been evaluated until     *)
(* then was in directories taken away.                                     *)
(***************************************************************************)
Claimants == {r \in Runners : Fresh(r)}

\* The claimants that have synced evaluation/.
Pending == {r \in Claimants : Durable(r)}

Room == IF entry = NoDir THEN 1 ELSE 0

BudgetInv ==
  /\ IsFiniteSet(Claimants)
  /\ evaluations + Cardinality(Claimants) + Room <= 1 + meddles
  /\ entry # NoDir /\ diskEntry = NoDir => evaluations + Cardinality(Pending) <= meddles

LEMMA BudgetInit == Init => BudgetInv
<1> SUFFICES ASSUME Init PROVE BudgetInv
  OBVIOUS
<1>1. Claimants = {}
  BY Steps DEF Init, Claimants, Fresh, Owner
<1> QED
  BY <1>1, FS_EmptySet DEF Init, BudgetInv, Room

\* How a run spends or takes a claim.
ClaimIsTaken(r) ==
  /\ ~Owner(r) /\ Fresh(r)' /\ ~Durable(r)'
  /\ entry = NoDir /\ entry' # NoDir
  /\ evaluations' = evaluations

ClaimIsSpent(r) ==
  /\ Fresh(r) /\ Durable(r) /\ ~Fresh(r)'
  /\ entry' = entry /\ diskEntry' = diskEntry
  /\ evaluations' = evaluations + 1

ClaimIsKept(r) ==
  /\ Fresh(r)' => Fresh(r)
  /\ entry' = entry
  /\ diskEntry' = entry \/ (diskEntry' = diskEntry /\ (Fresh(r)' /\ Durable(r)' => Durable(r)))
  /\ evaluations' = evaluations

LEMMA RunsClaim ==
  ASSUME ControlInv, NEW r \in Runners, Step(r) \/ Begin(r) \/ Fault(r) \/ Kill(r)
  PROVE  /\ meddles' = meddles
         /\ ClaimIsTaken(r) \/ ClaimIsSpent(r) \/ ClaimIsKept(r)
<1> USE DEF nameVars, fileVars, historyVars
<1>0. /\ Fits(pc[r], stage[r]) /\ stage[r] \in Stages
      /\ pc \in [Runners -> Resting \cup Active] /\ stage \in [Runners -> Stages]
  BY DEF ControlInv, CallInv, RunInv
<1>m. meddles' = meddles
  BY DEF Step, Begin, Fault, Kill, Refuse, Mkdir, OpenResults, SyncEvaluation,
     CreateFile, InterruptWrite, RetryWrite, OsWrite, AccountWrite, SyncFile,
     SyncDirectory, EnterFactory, LeaveFactory, ValidateBundle, SecureSync, SecureCheck,
     LinkPublic, UnlinkStage, UnlinkAttempt, CheckFinal
<1>s. ASSUME NEW o, Stop(r, o), o \in Outcomes, entry' = entry, diskEntry' = diskEntry,
             evaluations' = evaluations
      PROVE  ClaimIsKept(r)
  <2>1. pc'[r] = o
    BY <1>0, <1>s DEF Stop
  <2>2. ~Owner(r)'
    BY <1>s, <2>1, Steps DEF Owner, Outcomes, ErrorCodes
  <2> QED
    BY <1>s, <2>2 DEF ClaimIsKept, Fresh
<1>f. ASSUME Fail(r), entry' = entry, diskEntry' = diskEntry, evaluations' = evaluations
      PROVE  ClaimIsKept(r)
  <2>1. FailCode(stage[r]) \in Outcomes
    BY <1>0 DEF FailCode, Stages, Artifacts, Outcomes, ErrorCodes
  <2> QED
    BY <1>f, <1>s, <2>1 DEF Fail
<1>g. ASSUME NEW p \in Holding, Goto(r, p), pc[r] \in Holding, p # "factory",
             entry' = entry, evaluations' = evaluations,
             \/ diskEntry' = entry
             \/ diskEntry' = diskEntry /\ (pc[r] \in {"sync_empty", "sync_claim"} => p = "sync_claim")
      PROVE  ClaimIsKept(r)
  <2>1. pc'[r] = p /\ stage'[r] = stage[r]
    BY <1>0, <1>g DEF Goto
  <2> QED
    BY <1>g, <2>1, Steps DEF ClaimIsKept, Fresh, Durable, Owner
<1>1. CASE Begin(r) \/ Fault(r) \/ Kill(r)
  <2>1. CASE Begin(r)
    <3>1. pc'[r] = "mkdir"
      BY <1>0, <2>1 DEF Begin, Goto
    <3> QED
      BY <2>1, <3>1, Steps DEF Begin, ClaimIsKept, Fresh, Owner
  <2> QED
    BY <1>1, <2>1, <1>f, <1>s, <1>m DEF Fault, Kill, Outcomes
<1>2. CASE Refuse(r)
  BY <1>2, <1>s, <1>m, Steps DEF Refuse, RefuseAttempt, RefuseCallbacks, RefuseRoot, ErrorCodes
<1>3. CASE Mkdir(r)
  <2>1. CASE entry # NoDir
    BY <1>3, <2>1, <1>s, <1>m, Steps DEF Mkdir, ErrorCodes
  <2>2. CASE entry = NoDir
    <3>1. /\ pc[r] = "mkdir" /\ pc'[r] = "open" /\ stage'[r] = stage[r]
          /\ entry' \in Inodes /\ evaluations' = evaluations
      BY <1>0, <1>3, <2>2 DEF Mkdir, Goto, Unused
    <3> QED
      BY <1>0, <1>m, <2>2, <3>1, Steps, NoDirAssumption
         DEF ClaimIsTaken, Fresh, Durable, Owner, Fits
  <2> QED
    BY <2>1, <2>2
<1>4. CASE OpenResults(r)
  <2>1. CASE entry = NoDir
    BY <1>4, <2>1, <1>f, <1>m DEF OpenResults
  <2>2. CASE entry # NoDir
    <3>1. /\ pc[r] = "open" /\ pc'[r] = "sync_empty" /\ stage'[r] = stage[r]
          /\ UNCHANGED <<nameVars, historyVars>>
      BY <1>0, <1>4, <2>2 DEF OpenResults
    <3> QED
      BY <1>0, <1>m, <3>1, Steps DEF ClaimIsKept, Fresh, Durable, Owner, Fits
  <2> QED
    BY <2>1, <2>2
<1>5. CASE SyncEvaluation(r)
  BY <1>5, <1>g, <1>m, Steps DEF SyncEvaluation
<1>6. CASE CreateFile(r) \/ SyncFile(r)
  BY <1>6, <1>f, <1>g, <1>m, Steps DEF CreateFile, SyncFile
<1>14. CASE InterruptWrite(r) \/ RetryWrite(r) \/ OsWrite(r) \/ AccountWrite(r)
  BY <1>14, <1>f, <1>g, <1>m, Steps
     DEF InterruptWrite, RetryWrite, OsWrite, AccountWrite, CountBytes
<1>7. CASE SyncDirectory(r)
  <2>1. CASE pc[r] = "sync_dir" /\ stage[r] = "claim"
    <3>1. /\ pc'[r] = "factory" /\ UNCHANGED <<nameVars, historyVars>>
      BY <1>0, <1>7, <2>1 DEF SyncDirectory, Enter
    <3> QED
      BY <1>m, <2>1, <3>1, Steps DEF ClaimIsKept, Fresh, Durable, Owner
  <2>2. CASE pc[r] = "sync_unlink"
    <3>1. /\ pc'[r] = "secure_sync" /\ stage'[r] \in {"summary", "final"}
          /\ UNCHANGED <<nameVars, historyVars>>
      BY <1>0, <1>7, <2>2 DEF SyncDirectory, Enter, Following
    <3> QED
      BY <1>m, <3>1 DEF ClaimIsKept, Fresh
  <2>3. CASE ~(pc[r] = "sync_dir" /\ stage[r] = "claim") /\ pc[r] # "sync_unlink"
    BY <1>7, <2>3, <1>g, <1>m, Steps DEF SyncDirectory
  <2> QED
    BY <2>1, <2>2, <2>3
<1>8. CASE EnterFactory(r)
  <2>1. /\ pc[r] = "factory" /\ stage[r] = "evaluate" /\ pc'[r] = "building"
        /\ stage'[r] = "evaluate" /\ UNCHANGED nameVars /\ evaluations' = evaluations + 1
    BY <1>0, <1>8 DEF EnterFactory, Goto, Fits, Callbacks
  <2> QED
    BY <1>m, <2>1, Steps DEF ClaimIsSpent, Fresh, Durable, Owner
<1>9. CASE LeaveFactory(r)
  BY <1>9, <1>s, <1>g, <1>m, Steps DEF LeaveFactory, ErrorCodes
<1>10. CASE ValidateBundle(r)
  <2>1. CASE Stop(r, "invalid_bundle")
    BY <1>10, <2>1, <1>s, <1>m, Steps DEF ValidateBundle, ErrorCodes
  <2>2. CASE Enter(r, "per_seed", "secure_sync")
    <3>1. pc'[r] = "secure_sync" /\ stage'[r] = "per_seed"
      BY <1>0, <2>2 DEF Enter
    <3> QED
      BY <1>10, <1>m, <3>1 DEF ValidateBundle, ClaimIsKept, Fresh
  <2> QED
    BY <1>10, <2>1, <2>2 DEF ValidateBundle
<1>11. CASE SecureSync(r) \/ SecureCheck(r)
  BY <1>11, <1>f, <1>g, <1>m, Steps DEF SecureSync, SecureCheck
<1>12. CASE LinkPublic(r) \/ UnlinkStage(r) \/ UnlinkAttempt(r)
  BY <1>12, <1>f, <1>g, <1>m, Steps DEF LinkPublic, UnlinkStage, UnlinkAttempt
<1>13. CASE CheckFinal(r)
  BY <1>13, <1>f, <1>s, <1>m DEF CheckFinal, Outcomes
<1> QED
  BY <1>1, <1>2, <1>3, <1>4, <1>5, <1>6, <1>7, <1>8, <1>9, <1>10, <1>11, <1>12,
     <1>13, <1>14 DEF Step

LEMMA StepKeepsBudget ==
  ASSUME ControlInv, ControlInv', BudgetInv, NEW r \in Runners,
         Step(r) \/ Begin(r) \/ Fault(r) \/ Kill(r)
  PROVE  BudgetInv'
<1>0. /\ \A q \in Runners \ {r} : (Fresh(q)' <=> Fresh(q)) /\ (Durable(q)' <=> Durable(q))
      /\ meddles' = meddles
      /\ meddles \in Nat /\ evaluations \in Nat /\ evaluations' \in Nat
  BY OneMoves, RunsClaim, MeddlesAssumption DEF Fresh, Durable, ControlInv, CallInv, HistoryInv
<1>1. /\ IsFiniteSet(Claimants) /\ Cardinality(Claimants) \in Nat
      /\ evaluations + Cardinality(Claimants) + Room <= 1 + meddles
      /\ entry # NoDir /\ diskEntry = NoDir => evaluations + Cardinality(Pending) <= meddles
  BY FS_CardinalityType DEF BudgetInv
<1>2. /\ Pending \subseteq Claimants /\ IsFiniteSet(Pending)
      /\ Cardinality(Pending) \in Nat /\ Cardinality(Pending) <= Cardinality(Claimants)
  <2>1. Pending \in SUBSET Claimants
    BY DEF Pending
  <2> QED
    BY <1>1, <2>1, FS_Subset, FS_CardinalityType
<1>3. CASE ClaimIsTaken(r)
  <2>1. r \notin Claimants /\ Claimants' = Claimants \cup {r} /\ Pending' = Pending
    BY <1>0, <1>3 DEF ClaimIsTaken, Claimants, Pending, Fresh
  <2>2. IsFiniteSet(Claimants') /\ Cardinality(Claimants') = Cardinality(Claimants) + 1
    BY <1>1, <2>1, FS_AddElement
  <2>3. Room = 1 /\ Room' = 0 /\ evaluations' = evaluations
    BY <1>3 DEF ClaimIsTaken, Room
  <2>4. evaluations + Cardinality(Pending) <= meddles
    BY <1>0, <1>1, <1>2, <2>3
  <2> QED
    BY <1>0, <1>1, <2>1, <2>2, <2>3, <2>4 DEF BudgetInv
<1>4. CASE ClaimIsSpent(r)
  <2>1. r \in Pending /\ r \in Claimants /\ Claimants' = Claimants \ {r} /\ Pending' = Pending \ {r}
    BY <1>0, <1>4 DEF ClaimIsSpent, Claimants, Pending
  <2>2. /\ IsFiniteSet(Claimants') /\ Cardinality(Claimants') = Cardinality(Claimants) - 1
        /\ Cardinality(Pending') = Cardinality(Pending) - 1
    BY <1>1, <1>2, <2>1, FS_RemoveElement
  <2>3. Room' = Room /\ Room \in Nat /\ evaluations' = evaluations + 1
        /\ entry' = entry /\ diskEntry' = diskEntry
    BY <1>4 DEF ClaimIsSpent, Room
  <2> QED
    BY <1>0, <1>1, <1>2, <2>2, <2>3 DEF BudgetInv
<1>5. CASE ClaimIsKept(r)
  <2>1. Claimants' \in SUBSET Claimants
    BY <1>0, <1>5 DEF ClaimIsKept, Claimants
  <2>2. /\ IsFiniteSet(Claimants') /\ Cardinality(Claimants') <= Cardinality(Claimants)
        /\ Cardinality(Claimants') \in Nat
    BY <1>1, <2>1, FS_Subset, FS_CardinalityType
  <2>3. Room' = Room /\ Room \in Nat /\ evaluations' = evaluations /\ entry' = entry
    BY <1>5 DEF ClaimIsKept, Room
  <2>4. ASSUME entry' # NoDir, diskEntry' = NoDir
        PROVE  evaluations' + Cardinality(Pending') <= meddles'
    <3>1. diskEntry' = diskEntry /\ (Fresh(r)' /\ Durable(r)' => Fresh(r) /\ Durable(r))
      BY <1>5, <2>3, <2>4 DEF ClaimIsKept
    <3>2. Pending' \in SUBSET Pending
      BY <1>0, <3>1 DEF Pending, Claimants
    <3>3. Cardinality(Pending') <= Cardinality(Pending) /\ Cardinality(Pending') \in Nat
      BY <1>2, <3>2, FS_Subset, FS_CardinalityType
    <3>4. evaluations + Cardinality(Pending) <= meddles
      BY <1>1, <2>3, <2>4, <3>1
    <3> QED
      BY <1>0, <1>2, <2>3, <3>3, <3>4
  <2>5. evaluations' + Cardinality(Claimants') + Room' <= 1 + meddles'
    BY <1>0, <1>1, <2>2, <2>3
  <2> QED
    BY <2>2, <2>4, <2>5 DEF BudgetInv
<1> QED
  BY <1>3, <1>4, <1>5, RunsClaim

LEMMA BudgetStep ==
  ASSUME ControlInv, ControlInv', BudgetInv, [Next]_vars
  PROVE  BudgetInv'
<1>0. /\ meddles \in Nat /\ evaluations \in Nat
      /\ IsFiniteSet(Claimants) /\ Cardinality(Claimants) \in Nat
  BY MeddlesAssumption, FS_CardinalityType DEF ControlInv, CallInv, HistoryInv, BudgetInv
<1>1. ASSUME NEW r \in Runners, Step(r) \/ Begin(r) \/ Fault(r) \/ Kill(r)
      PROVE  BudgetInv'
  BY <1>1, StepKeepsBudget
<1>2. CASE Crash
  <2>1. \A q \in Runners : ~Owner(q)'
    BY <1>2, Steps DEF Crash, Owner, ControlInv, CallInv, RunInv, Active, SystemCalls,
                       Callbacks, Resting, Outcomes, ErrorCodes
  <2>2. Claimants' = {}
    BY <2>1 DEF Claimants, Fresh
  <2>3. /\ evaluations' = evaluations /\ meddles' = meddles
        /\ entry' \in {entry, diskEntry} /\ diskEntry' = entry'
    BY <1>2 DEF Crash, historyVars
  <2>4. evaluations + Room' <= 1 + meddles
    <3>1. CASE entry' = entry
      BY <1>0, <3>1 DEF BudgetInv, Room
    <3>2. CASE entry' # entry /\ entry' = NoDir
      <4>1. Pending \in SUBSET Claimants
        BY DEF Pending
      <4>2. Cardinality(Pending) \in Nat
        BY <1>0, <4>1, FS_Subset, FS_CardinalityType
      <4>3. evaluations + Cardinality(Pending) <= meddles
        BY <2>3, <3>2 DEF BudgetInv
      <4> QED
        BY <1>0, <4>2, <4>3 DEF Room
    <3>3. CASE entry' # NoDir
      BY <1>0, <3>3 DEF BudgetInv, Room
    <3> QED
      BY <3>1, <3>2, <3>3
  <2>5. Room' \in Nat
    BY DEF Room
  <2>6. IsFiniteSet(Claimants') /\ Cardinality(Claimants') = 0
    BY <2>2, FS_EmptySet
  <2>7. evaluations' + Cardinality(Claimants') + Room' <= 1 + meddles'
    <3>1. evaluations' + Cardinality(Claimants') = evaluations
      BY <1>0, <2>3, <2>6
    <3> QED
      BY <2>3, <2>4, <3>1
  <2>8. ~(entry' # NoDir /\ diskEntry' = NoDir)
    BY <2>3
  <2> QED
    BY <2>6, <2>7, <2>8 DEF BudgetInv
<1>3. CASE MoveAside \/ RemoveMarker
  <2>1. /\ pc' = pc /\ stage' = stage /\ diskEntry' = diskEntry
        /\ evaluations' = evaluations /\ meddles' = meddles + 1
        /\ entry' \in {entry, NoDir}
    BY <1>3 DEF MoveAside, RemoveMarker, Harm, runVars
  <2>2. Claimants' = Claimants /\ Pending' = Pending
    BY <2>1 DEF Claimants, Pending, Fresh, Durable, Owner
  <2>3. Pending \in SUBSET Claimants
    BY DEF Pending
  <2>4. Cardinality(Pending) \in Nat
    BY <1>0, <2>3, FS_Subset, FS_CardinalityType
  <2>5. Room \in {0, 1} /\ Room' \in {0, 1}
    BY DEF Room
  <2> QED
    BY <1>0, <2>1, <2>2, <2>4, <2>5 DEF BudgetInv
<1>4. CASE UNCHANGED vars
  BY <1>4 DEF vars, BudgetInv, Claimants, Pending, Fresh, Durable, Owner, Room
<1> QED
  BY <1>1, <1>2, <1>3, <1>4 DEF Next

\* Each act of a bystander allows one more evaluation and no more, whatever
\* calls run, fail, are killed or follow a crash, and however many there are.
THEOREM EvaluationsAreBounded == Spec => []EvaluationsBounded
<1>1. ControlInv /\ BudgetInv => EvaluationsBounded
  <2> SUFFICES ASSUME ControlInv, BudgetInv PROVE evaluations <= 1 + meddles
    BY DEF EvaluationsBounded
  <2>1. /\ Cardinality(Claimants) \in Nat /\ Room \in Nat
        /\ evaluations \in Nat /\ meddles \in Nat
        /\ evaluations + Cardinality(Claimants) + Room <= 1 + meddles
    BY MeddlesAssumption, FS_CardinalityType DEF BudgetInv, Room, ControlInv, CallInv, HistoryInv
  <2> QED
    BY <2>1
<1>2. Init => ControlInv /\ BudgetInv
  BY ControlInit, BudgetInit
<1>3. ControlInv /\ BudgetInv /\ [Next]_vars => (ControlInv /\ BudgetInv)'
  BY ControlStep, BudgetStep
<1> QED
  BY <1>1, <1>2, <1>3, PTL DEF Spec

(***************************************************************************)
(* What a run can still do after the one act of a bystander.  Either its   *)
(* directory is not the current one any more, or it is, without a marker,  *)
(* and the run is the only one and past creating it.  In both cases the    *)
(* next look at the namespace ends the run.                                *)
(***************************************************************************)
Unmarked(r) ==
  /\ entry = fd[r]
  /\ "attempt" \notin live[entry]
  /\ stage[r] = "claim" => pc[r] \notin {"sync_empty", "sync_claim", "create"}
  /\ pc[r] \notin {"sync_final", "sync_parent", "check_final"}
  /\ \A q \in Runners \ {r} : ~Owner(q)

\* Nothing but a look at the namespace on the way to the summary.
BeforeSummary(r) ==
  /\ stage[r] = "summary" => pc[r] \in {"secure_sync", "secure_check"}
  /\ stage[r] # "final"
  /\ pc[r] # "finalization_failed"

Disturbed(r) ==
  /\ meddles = 1
  /\ pc[r] \notin {"mkdir", "open", "published"}
  /\ pc[r] \in Holding => fd[r] # entry \/ Unmarked(r)
  /\ harmed[r] = "early" => BeforeSummary(r)

MeddledInv == meddles <= 1 => \A r \in Runners : harmed[r] # "no" => Disturbed(r)

LEMMA MeddledInit == Init => MeddledInv
BY DEF Init, MeddledInv

\* A disturbed run ends, without a receipt.
LEMMA DisturbedEnds ==
  ASSUME ControlInv, NEW r \in Runners, Disturbed(r), pc[r] \in Holding,
         Stop(r, FailCode(stage[r])) \/
         \E o \in {"factory_failed", "invalid_bundle", "killed"} : Stop(r, o),
         harmed' = harmed, meddles' = meddles
  PROVE  Disturbed(r)'
<1>0. /\ pc \in [Runners -> Resting \cup Active] /\ stage \in [Runners -> Stages]
      /\ stage[r] \in Stages
  BY DEF ControlInv, CallInv, RunInv
<1>1. PICK o \in Outcomes \ {"published"} :
        Stop(r, o) /\ (o = "finalization_failed" => stage[r] = "final")
  BY <1>0 DEF FailCode, Stages, Artifacts, Outcomes, ErrorCodes
<1>2. pc'[r] = o /\ stage'[r] = "claim"
  BY <1>0, <1>1 DEF Stop
<1>3. o \notin Holding /\ o \notin {"mkdir", "open", "published"}
  BY <1>1, Steps DEF Outcomes, ErrorCodes
<1> QED
  BY <1>1, <1>2, <1>3 DEF Disturbed, BeforeSummary

\* A disturbed run goes on.
LEMMA DisturbedGoesOn ==
  ASSUME ControlInv, NEW r \in Runners, Disturbed(r), pc[r] \in Holding,
         Step(r), NEW s \in Stages, NEW p \in Holding, Enter(r, s, p),
         s = "claim" => stage[r] = "claim",
         s = "claim" /\ p \in {"sync_empty", "sync_claim", "create"} =>
           pc[r] \in {"sync_empty", "sync_claim", "create"},
         p \in {"sync_final", "sync_parent", "check_final"} =>
           fd[r] # entry \/ pc[r] \in {"sync_final", "sync_parent", "check_final"},
         harmed[r] = "early" => s # "final" /\ (s = "summary" => p \in {"secure_sync", "secure_check"}),
         entry' = entry, harmed' = harmed, meddles' = meddles,
         Unmarked(r) => "attempt" \notin live'[entry]
  PROVE  Disturbed(r)'
<1>0. /\ pc'[r] = p /\ stage'[r] = s /\ fd' = fd
  BY DEF ControlInv, CallInv, RunInv, Enter
<1>1. p \notin {"mkdir", "open", "published", "finalization_failed"}
  BY Steps
<1>2. \A q \in Runners \ {r} : Owner(q)' <=> Owner(q)
  BY OneMoves
<1>3. Unmarked(r) => Unmarked(r)'
  <2> SUFFICES ASSUME Unmarked(r) PROVE Unmarked(r)'
    OBVIOUS
  <2>1. /\ entry' = fd'[r] /\ "attempt" \notin live'[entry']
        /\ s = "claim" => p \notin {"sync_empty", "sync_claim", "create"}
        /\ p \notin {"sync_final", "sync_parent", "check_final"}
    BY <1>0 DEF Unmarked
  <2> QED
    BY <1>0, <1>2, <2>1 DEF Unmarked
<1> QED
  BY <1>0, <1>1, <1>3 DEF Disturbed, BeforeSummary

LEMMA StepKeepsDisturbed ==
  ASSUME ControlInv, NEW r \in Runners, Disturbed(r), pc[r] \in Holding, Step(r)
  PROVE  Disturbed(r)'
<1> USE DEF nameVars, fileVars, historyVars
<1>0. /\ Fits(pc[r], stage[r]) /\ stage[r] \in Stages /\ fd[r] \in Inodes
      /\ stage \in [Runners -> Stages]
      /\ live \in [Inodes -> SUBSET Names]
      /\ fd[r] # entry \/ Unmarked(r)
      /\ harmed[r] = "early" => BeforeSummary(r)
  BY DEF ControlInv, CallInv, RunInv, FileInv, Disturbed
<1>e. ASSUME NEW p, Goto(r, p)
      PROVE  Enter(r, stage[r], p)
  BY <1>0, <1>e DEF Goto, Enter
<1>1. ~Refuse(r) /\ ~Mkdir(r) /\ ~OpenResults(r)
  BY Steps DEF Refuse, Mkdir, OpenResults
<1>f. ASSUME Fail(r), harmed' = harmed, meddles' = meddles
      PROVE  Disturbed(r)'
  BY <1>f, DisturbedEnds DEF Fail
<1>2. CASE SyncEvaluation(r)
  <2>1. PICK p \in Holding :
          /\ Goto(r, p) /\ p \in {"create", "check_final"}
          /\ p = "create" => pc[r] = "sync_claim"
          /\ p = "check_final" => pc[r] = "sync_parent"
          /\ entry' = entry /\ live' = live /\ harmed' = harmed /\ meddles' = meddles
    BY <1>2, Steps DEF SyncEvaluation
  <2> QED
    BY <1>0, <1>e, <2>1, DisturbedGoesOn DEF Unmarked, BeforeSummary, Fits
<1>3. CASE CreateFile(r)
  <2>1. /\ pc[r] = "create" /\ stage[r] \in {"claim", "per_seed", "summary"}
        /\ entry' = entry /\ harmed' = harmed /\ meddles' = meddles
    BY <1>0, <1>3 DEF CreateFile, Fits
  <2>2. CASE Fail(r)
    BY <1>f, <2>1, <2>2
  <2>3. CASE Goto(r, "write") /\ live' = [live EXCEPT ![fd[r]] = @ \cup {CreatedName(stage[r])}]
    <3>1. Unmarked(r) => "attempt" \notin live'[entry]
      <4> SUFFICES ASSUME Unmarked(r) PROVE "attempt" \notin live'[entry]
        OBVIOUS
      <4>1. CreatedName(stage[r]) \in {"per_seed_stage", "summary_stage"}
        BY <2>1, Tables DEF Unmarked
      <4> QED
        BY <1>0, <2>3, <4>1 DEF Unmarked
    <3> QED
      BY <1>0, <1>e, <2>1, <2>3, <3>1, Steps, DisturbedGoesOn DEF BeforeSummary
  <2> QED
    BY <1>3, <2>2, <2>3 DEF CreateFile
<1>4. CASE InterruptWrite(r) \/ RetryWrite(r) \/ OsWrite(r) \/ AccountWrite(r) \/ SyncFile(r)
  <2>1. /\ pc[r] \in {"write", "interrupted", "written", "sync_file"}
        /\ entry' = entry /\ live' = live /\ harmed' = harmed /\ meddles' = meddles
        /\ \/ Fail(r)
           \/ \E p \in {"write", "interrupted", "written", "sync_file", "sync_dir"} :
                Goto(r, p)
    BY <1>4 DEF InterruptWrite, RetryWrite, OsWrite, AccountWrite, CountBytes, SyncFile
  <2>2. CASE Fail(r)
    BY <1>f, <2>1, <2>2
  <2>3. ASSUME NEW p \in {"write", "interrupted", "written", "sync_file", "sync_dir"},
               Goto(r, p)
        PROVE  Disturbed(r)'
    BY <1>0, <1>e, <2>1, <2>3, Steps, DisturbedGoesOn DEF Unmarked, BeforeSummary, Fits
  <2> QED
    BY <2>1, <2>2, <2>3
<1>5. CASE SyncDirectory(r)
  <2>1. /\ entry' = entry /\ live' = live /\ harmed' = harmed /\ meddles' = meddles
    BY <1>5 DEF SyncDirectory
  <2>2. CASE pc[r] = "sync_empty" /\ Goto(r, "sync_claim")
    BY <1>0, <1>e, <2>1, <2>2, Steps, DisturbedGoesOn DEF Unmarked, BeforeSummary, Fits
  <2>3. CASE pc[r] = "sync_dir" /\ Enter(r, "evaluate", "factory")
    BY <1>0, <2>1, <2>3, Steps, Tables, DisturbedGoesOn DEF Unmarked
  <2>4. CASE pc[r] = "sync_dir" /\ stage[r] # "claim" /\ Goto(r, "link")
    BY <1>0, <1>e, <2>1, <2>4, Steps, DisturbedGoesOn DEF Unmarked, BeforeSummary
  <2>5. CASE pc[r] = "sync_link" /\ Goto(r, "unlink")
    BY <1>0, <1>e, <2>1, <2>5, Steps, DisturbedGoesOn DEF Unmarked, BeforeSummary
  <2>6. CASE pc[r] = "sync_unlink" /\ Enter(r, Following(stage[r]), "secure_sync")
    <3>1. stage[r] \in {"per_seed", "summary"}
      BY <1>0, <2>6 DEF Fits, Artifacts
    <3>2. harmed[r] = "early" => stage[r] = "per_seed"
      BY <1>0, <2>6, <3>1 DEF BeforeSummary
    <3>3. Following(stage[r]) \in {"summary", "final"}
          /\ (harmed[r] = "early" => Following(stage[r]) = "summary")
      BY <3>1, <3>2 DEF Following
    <3> QED
      BY <2>1, <2>6, <3>3, Steps, Tables, DisturbedGoesOn DEF Unmarked
  <2>7. CASE pc[r] = "sync_final" /\ Goto(r, "sync_parent")
    <3>1. stage[r] = "final" /\ harmed[r] # "early"
      BY <1>0, <2>7 DEF Fits, BeforeSummary
    <3> QED
      BY <1>0, <1>e, <2>1, <2>7, <3>1, Steps, DisturbedGoesOn DEF Unmarked
  <2> QED
    BY <1>5, <2>2, <2>3, <2>4, <2>5, <2>6, <2>7 DEF SyncDirectory
<1>6. CASE EnterFactory(r)
  <2>1. /\ pc[r] = "factory" /\ stage[r] = "evaluate" /\ Goto(r, "building")
        /\ entry' = entry /\ live' = live /\ harmed' = harmed /\ meddles' = meddles
    BY <1>0, <1>6 DEF EnterFactory, Fits, Callbacks
  <2> QED
    BY <1>0, <1>e, <2>1, Steps, DisturbedGoesOn DEF Unmarked
<1>7. CASE LeaveFactory(r) \/ ValidateBundle(r)
  <2>1. /\ pc[r] \in {"building", "validate"} /\ stage[r] = "evaluate"
        /\ entry' = entry /\ live' = live /\ harmed' = harmed /\ meddles' = meddles
    BY <1>0, <1>7 DEF LeaveFactory, ValidateBundle, Fits, Callbacks
  <2>2. CASE Goto(r, "validate")
    BY <1>0, <1>e, <2>1, <2>2, Steps, DisturbedGoesOn DEF Unmarked
  <2>3. CASE Enter(r, "per_seed", "secure_sync")
    BY <2>1, <2>3, Steps, Tables, DisturbedGoesOn DEF Unmarked
  <2>4. CASE Stop(r, "factory_failed") \/ Stop(r, "invalid_bundle")
    BY <2>1, <2>4, DisturbedEnds
  <2> QED
    BY <1>7, <2>2, <2>3, <2>4 DEF LeaveFactory, ValidateBundle
<1>8. CASE SecureSync(r)
  <2>1. /\ pc[r] = "secure_sync" /\ stage[r] \in {"per_seed", "summary", "final"}
        /\ Goto(r, "secure_check")
        /\ entry' = entry /\ live' = live /\ harmed' = harmed /\ meddles' = meddles
    BY <1>0, <1>8 DEF SecureSync, Fits
  <2> QED
    BY <1>0, <1>e, <2>1, Steps, DisturbedGoesOn DEF Unmarked, BeforeSummary
<1>9. CASE SecureCheck(r)
  <2>1. ~(NamespaceIsCurrent(r) /\ AttemptMarkerIsSecure(r))
    BY <1>0 DEF NamespaceIsCurrent, AttemptMarkerIsSecure, Unmarked
  <2> QED
    BY <1>9, <1>f, <2>1 DEF SecureCheck
<1>10. CASE LinkPublic(r)
  <2>1. /\ pc[r] = "link" /\ stage[r] \in Artifacts
        /\ entry' = entry /\ harmed' = harmed /\ meddles' = meddles
    BY <1>0, <1>10 DEF LinkPublic, Fits
  <2>2. CASE Fail(r)
    BY <1>f, <2>1, <2>2
  <2>3. CASE Goto(r, "sync_link") /\ live' = [live EXCEPT ![fd[r]] = @ \cup {stage[r]}]
    <3>1. Unmarked(r) => "attempt" \notin live'[entry]
      BY <1>0, <2>1, <2>3, Tables DEF Unmarked
    <3> QED
      BY <1>0, <1>e, <2>1, <2>3, <3>1, Steps, Tables, DisturbedGoesOn DEF BeforeSummary
  <2> QED
    BY <1>10, <2>2, <2>3 DEF LinkPublic
<1>11. CASE UnlinkStage(r)
  <2>1. /\ pc[r] = "unlink" /\ stage[r] \in Artifacts /\ Goto(r, "sync_unlink")
        /\ entry' = entry /\ harmed' = harmed /\ meddles' = meddles
        /\ live' = [live EXCEPT ![fd[r]] = @ \ {CreatedName(stage[r])}]
    BY <1>0, <1>11 DEF UnlinkStage, Fits
  <2>2. Unmarked(r) => "attempt" \notin live'[entry]
    BY <1>0, <2>1 DEF Unmarked
  <2> QED
    BY <1>0, <1>e, <2>1, <2>2, Steps, Tables, DisturbedGoesOn DEF BeforeSummary
<1>12. CASE UnlinkAttempt(r)
  <2>1. /\ pc[r] = "unlink_attempt" /\ stage[r] = "final"
        /\ entry' = entry /\ harmed' = harmed /\ meddles' = meddles
    BY <1>0, <1>12 DEF UnlinkAttempt, Fits
  <2>2. CASE Fail(r)
    BY <1>f, <2>1, <2>2
  <2>3. CASE Goto(r, "sync_final") /\ "attempt" \in live[fd[r]]
    <3>1. fd[r] # entry /\ ~Unmarked(r) /\ harmed[r] # "early"
      BY <1>0, <2>1, <2>3 DEF Unmarked, BeforeSummary
    <3> QED
      BY <1>0, <1>e, <2>1, <2>3, <3>1, Steps, DisturbedGoesOn
  <2> QED
    BY <1>12, <2>2, <2>3 DEF UnlinkAttempt
<1>13. CASE CheckFinal(r)
  <2>1. ~NamespaceIsCurrent(r)
    BY <1>0, <1>13 DEF NamespaceIsCurrent, Unmarked, CheckFinal
  <2> QED
    BY <1>13, <1>f, <2>1 DEF CheckFinal
<1> QED
  BY <1>1, <1>2, <1>3, <1>4, <1>5, <1>6, <1>7, <1>8, <1>9, <1>10, <1>11, <1>12, <1>13 DEF Step

\* What a step of another run leaves of a disturbed run.
LEMMA OthersKeepDisturbed ==
  ASSUME ControlInv, NEW q \in Runners, Disturbed(q), NEW r \in Runners \ {q},
         Step(r) \/ Begin(r) \/ Fault(r) \/ Kill(r)
  PROVE  Disturbed(q)'
<1> USE DEF nameVars, fileVars, historyVars
<1>1. /\ pc'[q] = pc[q] /\ stage'[q] = stage[q] /\ meddles' = meddles
      /\ \A p \in Runners \ {r} : Owner(p)' <=> Owner(p)
  BY OneMoves, RunsClaim
<1>2. harmed'[q] = harmed[q]
  BY DEF Step, Begin, Fault, Kill, Refuse, Mkdir, OpenResults, SyncEvaluation,
     CreateFile, InterruptWrite, RetryWrite, OsWrite, AccountWrite, SyncFile,
     SyncDirectory, EnterFactory, LeaveFactory, ValidateBundle, SecureSync, SecureCheck,
     LinkPublic, UnlinkStage, UnlinkAttempt, CheckFinal, ControlInv, CallInv, HistoryInv
<1>3. fd'[q] = fd[q]
  BY DEF Step, Begin, Fault, Kill, Refuse, RefuseAttempt, RefuseCallbacks, RefuseRoot,
     Mkdir, OpenResults, SyncEvaluation, CreateFile, InterruptWrite, RetryWrite,
     OsWrite, AccountWrite, SyncFile, SyncDirectory, EnterFactory, LeaveFactory,
     ValidateBundle, SecureSync, SecureCheck, LinkPublic, UnlinkStage, UnlinkAttempt,
     CheckFinal, CountBytes, Goto, Enter, Stop, Fail, ControlInv, CallInv, RunInv
<1>4. entry' = entry \/ entry' \in Unused
  BY DEF Step, Begin, Fault, Kill, Refuse, Mkdir, OpenResults, SyncEvaluation,
     CreateFile, InterruptWrite, RetryWrite, OsWrite, AccountWrite, SyncFile,
     SyncDirectory, EnterFactory, LeaveFactory, ValidateBundle, SecureSync, SecureCheck,
     LinkPublic, UnlinkStage, UnlinkAttempt, CheckFinal
<1>5. ASSUME pc[q] \in Holding
      PROVE  fd'[q] # entry' \/ Unmarked(q)'
  <2>1. CASE fd[q] # entry
    BY <1>3, <1>4, <2>1 DEF Unused
  <2>2. CASE Unmarked(q)
    <3>1. ~Owner(r) /\ entry # NoDir
      BY <1>5, <2>2, NoDirAssumption DEF Unmarked, ControlInv, CallInv, RunInv
    <3>2. Begin(r) \/ Fault(r) \/ Kill(r) \/ Refuse(r) \/ Mkdir(r)
      BY <3>1, Steps DEF Owner, Step, OpenResults, SyncEvaluation, CreateFile,
         InterruptWrite, RetryWrite, OsWrite, AccountWrite, SyncFile, SyncDirectory,
         EnterFactory, LeaveFactory, ValidateBundle, SecureSync, SecureCheck,
         LinkPublic, UnlinkStage, UnlinkAttempt, CheckFinal
    <3>3. entry' = entry /\ live' = live
      BY <3>1, <3>2 DEF Begin, Fault, Kill, Refuse, Mkdir
    <3>4. ~Owner(r)'
      <4>1. CASE Begin(r)
        <5>1. pc'[r] = "mkdir"
          BY <4>1 DEF Begin, Goto, ControlInv, CallInv, RunInv
        <5> QED
          BY <5>1, Steps DEF Owner
      <4>2. CASE ~Begin(r)
        <5>1. Fail(r) \/ \E o \in Outcomes : Stop(r, o)
          BY <3>1, <3>2, <4>2, Steps DEF Fault, Kill, Refuse, RefuseAttempt,
             RefuseCallbacks, RefuseRoot, Mkdir, Outcomes, ErrorCodes
        <5>2. FailCode(stage[r]) \in Outcomes
          BY DEF ControlInv, CallInv, RunInv, FailCode, Stages, Artifacts, Outcomes, ErrorCodes
        <5>3. pc'[r] \in Outcomes
          BY <5>1, <5>2 DEF Fail, Stop, ControlInv, CallInv, RunInv
        <5> QED
          BY <5>3, Steps DEF Owner, Outcomes, ErrorCodes
      <4> QED
        BY <4>1, <4>2
    <3> QED
      BY <1>1, <1>3, <2>2, <3>3, <3>4 DEF Unmarked
  <2> QED
    BY <1>5, <2>1, <2>2 DEF Disturbed
<1> QED
  BY <1>1, <1>2, <1>5 DEF Disturbed, BeforeSummary

\* The act itself: it finds one owner at most, and what the directory of that
\* owner holds tells how far it is.
LEMMA HarmDisturbs ==
  ASSUME ControlInv, ClaimInv, PubInv, meddles = 0,
         \A q \in Runners : harmed[q] = "no",
         MoveAside \/ RemoveMarker, NEW r \in Runners, harmed'[r] # "no"
  PROVE  Disturbed(r)'
<1>1. /\ meddles' = 1 /\ entry # NoDir
      /\ pc' = pc /\ stage' = stage /\ fd' = fd
      /\ fd[r] = entry
      /\ harmed'[r] = "early" => "per_seed" \notin live[entry]
  BY DEF MoveAside, RemoveMarker, Harm, runVars
<1>2. /\ pc[r] \in Holding /\ stage[r] \in Stages /\ Fits(pc[r], stage[r])
      /\ entry \in Inodes /\ live \in [Inodes -> SUBSET Names]
  BY <1>1 DEF ControlInv, CallInv, RunInv, NameInv, FileInv
<1>3. Owner(r) /\ live[entry] = LiveAt(stage[r], pc[r])
  BY <1>2 DEF Owner, PubInv, Progress
<1>4. \A q \in Runners \ {r} : ~Owner(q)
  BY <1>3 DEF ClaimInv
<1>5. pc[r] \notin {"mkdir", "open", "published", "finalization_failed"}
  BY <1>2, Steps
<1>6. harmed'[r] = "early" => stage[r] \notin {"summary", "final"}
  BY <1>1, <1>3, Tables DEF LiveAt
<1>7. CASE MoveAside
  <2>1. fd[r] # entry'
    BY <1>1, <1>7 DEF MoveAside
  <2> QED
    BY <1>1, <1>5, <1>6, <2>1 DEF Disturbed, BeforeSummary
<1>8. CASE RemoveMarker
  <2>1. /\ "attempt" \in live[entry] /\ entry' = entry
        /\ live' = [live EXCEPT ![entry] = @ \ {"attempt"}]
    BY <1>8 DEF RemoveMarker
  <2>2. stage[r] = "claim" => pc[r] \notin {"sync_empty", "sync_claim", "create"}
    BY <1>3, <2>1, Tables DEF LiveAt
  <2>3. pc[r] \notin {"sync_final", "sync_parent", "check_final"}
    BY <1>3, <2>1, Tables DEF LiveAt
  <2>4. "attempt" \notin live'[entry]
    BY <1>2, <2>1
  <2>5. \A q \in Runners \ {r} : ~Owner(q)'
    BY <1>1, <1>4 DEF Owner
  <2>6. Unmarked(r)'
    BY <1>1, <2>1, <2>2, <2>3, <2>4, <2>5 DEF Unmarked
  <2> QED
    BY <1>1, <1>5, <1>6, <2>6 DEF Disturbed, BeforeSummary
<1> QED
  BY <1>7, <1>8

LEMMA MeddledStep ==
  ASSUME ControlInv, Quiet, QuietPub, MeddledInv, [Next]_vars
  PROVE  MeddledInv'
<1> USE DEF historyVars
<1>0. meddles \in Nat
  BY MeddlesAssumption DEF ControlInv, CallInv, HistoryInv
<1>1. ASSUME NEW r \in Runners, Step(r) \/ Begin(r) \/ Fault(r) \/ Kill(r)
      PROVE  MeddledInv'
  <2> SUFFICES ASSUME meddles' <= 1, NEW q \in Runners, harmed'[q] # "no"
               PROVE  Disturbed(q)'
    BY DEF MeddledInv
  <2>1. meddles' = meddles
    BY <1>1, RunsClaim
  <2>2. CASE q # r
    <3>1. harmed'[q] = harmed[q]
      BY <1>1, <2>2
         DEF Step, Begin, Fault, Kill, Refuse, Mkdir, OpenResults, SyncEvaluation,
         CreateFile, InterruptWrite, RetryWrite, OsWrite, AccountWrite, SyncFile,
         SyncDirectory, EnterFactory, LeaveFactory, ValidateBundle, SecureSync,
         SecureCheck, LinkPublic, UnlinkStage, UnlinkAttempt, CheckFinal, ControlInv,
         CallInv, HistoryInv
    <3> QED
      BY <1>1, <2>1, <2>2, <3>1, OthersKeepDisturbed DEF MeddledInv
  <2>3. CASE q = r
    <3>1. ~Begin(r)
      BY <2>3 DEF Begin, ControlInv, CallInv, HistoryInv
    <3>2. harmed' = harmed
      BY <1>1, <3>1
         DEF Step, Fault, Kill, Refuse, Mkdir, OpenResults, SyncEvaluation, CreateFile,
         InterruptWrite, RetryWrite, OsWrite, AccountWrite, SyncFile, SyncDirectory,
         EnterFactory, LeaveFactory, ValidateBundle, SecureSync, SecureCheck,
         LinkPublic, UnlinkStage, UnlinkAttempt, CheckFinal
    <3>3. Disturbed(r)
      BY <2>1, <2>3, <3>2 DEF MeddledInv
    <3>4. pc[r] \in Holding
      <4>1. CASE Fault(r) \/ Kill(r)
        BY <4>1, <3>3 DEF Fault, Kill, Disturbed, Holding, Active
      <4>2. CASE Step(r)
        BY <4>2, <3>3, Steps DEF Disturbed,
           Step, Refuse, Mkdir, OpenResults, SyncEvaluation, CreateFile, InterruptWrite,
           RetryWrite, OsWrite, AccountWrite, SyncFile, SyncDirectory, EnterFactory,
           LeaveFactory, ValidateBundle, SecureSync, SecureCheck, LinkPublic,
           UnlinkStage, UnlinkAttempt, CheckFinal
      <4> QED
        BY <1>1, <3>1, <4>1, <4>2
    <3>5. CASE Step(r)
      BY <2>3, <3>3, <3>4, <3>5, StepKeepsDisturbed
    <3>6. CASE Fault(r) \/ Kill(r)
      BY <2>1, <2>3, <3>2, <3>3, <3>4, <3>6, DisturbedEnds DEF Fault, Kill, Fail
    <3> QED
      BY <1>1, <3>1, <3>5, <3>6
  <2> QED
    BY <2>2, <2>3
<1>2. CASE Crash
  <2>1. /\ pc' = [r \in Runners |-> IF pc[r] \in Active THEN "killed" ELSE pc[r]]
        /\ stage' = [r \in Runners |-> "claim"]
        /\ harmed' = harmed /\ meddles' = meddles
    BY <1>2 DEF Crash
  <2>2. ASSUME NEW q \in Runners, Disturbed(q)
        PROVE  Disturbed(q)'
    <3>1. pc'[q] \in {"killed", pc[q]} /\ stage'[q] = "claim" /\ pc'[q] \notin Active
      BY <2>1, Steps DEF Active, Callbacks, SystemCalls, Looping
    <3> QED
      BY <2>1, <2>2, <3>1 DEF Disturbed, BeforeSummary, Holding
  <2> QED
    BY <2>1, <2>2 DEF MeddledInv
<1>3. CASE MoveAside \/ RemoveMarker
  <2> SUFFICES ASSUME meddles' <= 1, NEW q \in Runners, harmed'[q] # "no"
               PROVE  Disturbed(q)'
    BY DEF MeddledInv
  <2>1. meddles' = meddles + 1
    BY <1>3 DEF MoveAside, RemoveMarker, Harm
  <2>2. meddles = 0
    BY <1>0, <2>1
  <2>3. \A r \in Runners : harmed[r] = "no"
    BY <2>2 DEF MeddledInv, Disturbed
  <2> QED
    BY <1>3, <2>2, <2>3, HarmDisturbs DEF Quiet, QuietPub
<1>4. CASE UNCHANGED vars
  BY <1>4 DEF vars, MeddledInv, Disturbed, Unmarked, BeforeSummary, Owner
<1> QED
  BY <1>1, <1>2, <1>3, <1>4 DEF Next

LEMMA MeddledInvariant == Spec => [](PublicationInv /\ MeddledInv)
<1>1. PublicationInv /\ MeddledInv /\ [Next]_vars => (PublicationInv /\ MeddledInv)'
  BY ControlStep, ClaimStep, PubStep, MeddledStep DEF PublicationInv
<1>2. Init => PublicationInv /\ MeddledInv
  BY ControlInit, ClaimInit, PubInit, MeddledInit DEF PublicationInv
<1> QED
  BY <1>1, <1>2, PTL DEF Spec

\* A run whose directory was moved away or lost its marker before the per-seed
\* rows were public never writes a summary, also when the directory is claimed
\* again by another run in the meantime.
THEOREM NoSummaryAfterHarm == Spec => []NoSummaryAfterEarlyHarm
<1>1. MeddledInv => NoSummaryAfterEarlyHarm
  BY DEF MeddledInv, Disturbed, BeforeSummary, NoSummaryAfterEarlyHarm
<1> QED
  BY <1>1, MeddledInvariant, PTL

\* A receipt is returned only by a run whose directory stayed in place, with
\* its marker, up to the last check.
THEOREM ReceiptsMeanUndisturbed == Spec => []ReceiptMeansUndisturbed
<1>1. MeddledInv => ReceiptMeansUndisturbed
  BY DEF MeddledInv, Disturbed, ReceiptMeansUndisturbed
<1> QED
  BY <1>1, MeddledInvariant, PTL
=============================================================================
