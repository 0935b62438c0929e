------------------------ MODULE EvaluationPublication ------------------------
(***************************************************************************)
(* The one-shot publication boundary, cowbot/evaluation_publication.py.    *)
(*                                                                         *)
(* Several runners may call publish_evaluation_results on one repository,  *)
(* one after the other or at the same time.  Each call is a sequence of    *)
(* system calls with a loop around os.write; any of them may fail, the     *)
(* process may be killed between any two of them, and the machine may      *)
(* crash.  The file system is seen as POSIX promises it: a name is visible *)
(* at once, and survives a crash for certain only after an fsync of its    *)
(* directory; the bytes of a file survive for certain only after an fsync  *)
(* of the file.                                                            *)
(*                                                                         *)
(* "entry" is what evaluation/results resolves to.  The two levels the     *)
(* code opens (the root and evaluation/) are folded into that one entry.   *)
(***************************************************************************)
EXTENDS Naturals, FiniteSets

CONSTANTS
  Runners,     \* calls of publish_evaluation_results that may overlap
  Inodes,      \* directories that can be created under evaluation/
  NoDir,       \* no directory
  MaxMeddles,  \* bound on the acts of a bystander in the result directory
  Payload      \* bytes of a file, as many as tell a part from the whole

ASSUME NoDirAssumption == NoDir \notin Inodes
ASSUME MeddlesAssumption == MaxMeddles \in Nat
ASSUME PayloadAssumption == Payload \in Nat \ {0}

VARIABLES
  pc,          \* pc[r]: the next system call or callback, or the outcome
  stage,       \* stage[r]: the part of the call, which fixes the error code
  fd,          \* fd[r]: the open results directory
  offset,      \* offset[r]: the bytes _write_all has counted
  written,     \* written[r]: what its last os.write returned
  entry,       \* the directory evaluation/results names now
  diskEntry,   \* the directory it names after a crash, once synced
  live,        \* live[d]: the names in directory d
  disk,        \* disk[d]: the names of d known to be durable
  content,     \* content[d][f]: the bytes of the inode behind file f
  synced,      \* synced[d]: the files whose bytes are durable
  evaluations, \* how many times a bundle factory was entered
  receipt,     \* the directory a PublicationReceipt was returned for
  meddles,     \* acts of the bystander so far
  harmed       \* harmed[r]: when the directory of r was meddled with

runVars == <<pc, stage, fd>>
loopVars == <<offset, written>>
nameVars == <<entry, diskEntry>>
fileVars == <<live, disk, content, synced>>
historyVars == <<evaluations, receipt, meddles, harmed>>
vars == <<pc, stage, fd, offset, written, entry, diskEntry, live,
          disk, content, synced, evaluations, receipt, meddles, harmed>>

Artifacts == {"per_seed", "summary"}
Files == {"attempt"} \cup Artifacts
Names == Files \cup {"per_seed_stage", "summary_stage"}

\* The private name a file is first written under: the marker has no stage.
CreatedName(s) ==
  CASE s = "claim" -> "attempt"
    [] s = "per_seed" -> "per_seed_stage"
    [] s = "summary" -> "summary_stage"

\* The file the current stage writes.
FileOf(s) == IF s = "claim" THEN "attempt" ELSE s

Stages == {"claim", "evaluate", "per_seed", "summary", "final"}

ErrorCodes ==
  {"invalid_root", "invalid_attempt", "invalid_callback",
   "namespace_claimed", "claim_failed", "factory_failed", "invalid_bundle",
   "publication_failed", "finalization_failed"}

Outcomes == ErrorCodes \cup {"published", "killed"}
Resting == {"idle"} \cup Outcomes

Callbacks == {"factory", "building", "validate"}
SystemCalls ==
  {"mkdir", "open", "sync_empty", "sync_claim", "create", "write",
   "sync_file", "sync_dir", "link", "sync_link", "unlink", "sync_unlink",
   "secure_sync", "secure_check", "unlink_attempt", "sync_final",
   "sync_parent", "check_final"}
\* Between two calls of os.write.
Looping == {"interrupted", "written"}

Active == Callbacks \cup SystemCalls \cup Looping

\* The code an OSError is turned into depends only on the stage.
FailCode(s) ==
  CASE s = "claim" -> "claim_failed"
    [] s = "evaluate" -> "factory_failed"
    [] s \in Artifacts -> "publication_failed"
    [] s = "final" -> "finalization_failed"

TypeOK ==
  /\ pc \in [Runners -> Resting \cup Active]
  /\ stage \in [Runners -> Stages]
  /\ fd \in [Runners -> Inodes \cup {NoDir}]
  /\ offset \in [Runners -> 0 .. Payload - 1]
  /\ written \in [Runners -> 0 .. Payload]
  /\ entry \in Inodes \cup {NoDir}
  /\ diskEntry \in Inodes \cup {NoDir}
  /\ live \in [Inodes -> SUBSET Names]
  /\ disk \in [Inodes -> SUBSET Names]
  /\ content \in [Inodes -> [Files -> {"none", "torn", "whole"}]]
  /\ synced \in [Inodes -> SUBSET Files]
  /\ evaluations \in Nat
  /\ receipt \in Inodes \cup {NoDir}
  /\ meddles \in 0..MaxMeddles
  /\ harmed \in [Runners -> {"no", "early", "late"}]

Init ==
  /\ pc = [r \in Runners |-> "idle"]
  /\ stage = [r \in Runners |-> "claim"]
  /\ fd = [r \in Runners |-> NoDir]
  /\ offset = [r \in Runners |-> 0]
  /\ written = [r \in Runners |-> 0]
  /\ entry = NoDir
  /\ diskEntry = NoDir
  /\ live = [d \in Inodes |-> {}]
  /\ disk = [d \in Inodes |-> {}]
  /\ content = [d \in Inodes |-> [f \in Files |-> "none"]]
  /\ synced = [d \in Inodes |-> {}]
  /\ evaluations = 0
  /\ receipt = NoDir
  /\ meddles = 0
  /\ harmed = [r \in Runners |-> "no"]

(***************************************************************************)
(* Control: a step goes on to the next call, enters the next stage, or     *)
(* ends the run and closes its descriptors.                                *)
(***************************************************************************)
Goto(r, next) ==
  /\ pc' = [pc EXCEPT ![r] = next]
  /\ UNCHANGED <<stage, fd>>

Enter(r, s, next) ==
  /\ pc' = [pc EXCEPT ![r] = next]
  /\ stage' = [stage EXCEPT ![r] = s]
  /\ fd' = fd

Stop(r, outcome) ==
  /\ pc' = [pc EXCEPT ![r] = outcome]
  /\ stage' = [stage EXCEPT ![r] = "claim"]
  /\ fd' = [fd EXCEPT ![r] = NoDir]

Fail(r) == Stop(r, FailCode(stage[r]))

\* The loop of _write_all is left, and its variables with it.
LeaveLoop(r) ==
  /\ offset' = [offset EXCEPT ![r] = 0]
  /\ written' = [written EXCEPT ![r] = 0]

(***************************************************************************)
(* Entry checks and the claim.                                             *)
(***************************************************************************)

\* Someone calls publish_evaluation_results, for the first time or again.
Begin(r) ==
  /\ pc[r] \in Resting
  /\ Goto(r, "mkdir")
  /\ harmed' = [harmed EXCEPT ![r] = "no"]
  /\ UNCHANGED <<loopVars, nameVars, fileVars, evaluations, receipt, meddles>>

\* The attempt is not a canonical object, a callback is not callable, or the
\* root or evaluation/ cannot be opened: nothing has been created yet.
RefuseAttempt(r) == Stop(r, "invalid_attempt")
RefuseCallbacks(r) == Stop(r, "invalid_callback")
RefuseRoot(r) == Stop(r, "invalid_root")

Refuse(r) ==
  /\ pc[r] = "mkdir"
  /\ RefuseAttempt(r) \/ RefuseCallbacks(r) \/ RefuseRoot(r)
  /\ UNCHANGED <<loopVars, nameVars, fileVars, historyVars>>

\* A directory that nothing refers to: its inode may be used again.
Unused == Inodes \ ({entry, diskEntry, receipt} \cup {fd[s] : s \in Runners})

\* Mutant: an existing directory is taken over (exist_ok).
Mkdir_ExistOk(r) ==
  /\ pc[r] = "mkdir"
  /\ \/ /\ entry # NoDir
        /\ UNCHANGED <<entry, fileVars>>
     \/ /\ entry = NoDir
        /\ \E d \in Unused : entry' = d
        /\ UNCHANGED fileVars
  /\ Goto(r, "open")
  /\ UNCHANGED <<loopVars, diskEntry, historyVars>>

Mkdir(r) ==
  /\ pc[r] = "mkdir"
  /\ \/ /\ entry # NoDir
        /\ Stop(r, "namespace_claimed")
        /\ UNCHANGED <<entry, fileVars>>
     \/ /\ entry = NoDir
        /\ \E d \in Unused :
             /\ entry' = d
             /\ live' = [live EXCEPT ![d] = {}]
             /\ disk' = [disk EXCEPT ![d] = {}]
             /\ content' = [content EXCEPT ![d] = [f \in Files |-> "none"]]
             /\ synced' = [synced EXCEPT ![d] = {}]
        /\ Goto(r, "open")
  /\ UNCHANGED <<loopVars, diskEntry, historyVars>>

\* The descriptor is opened by name, in a call of its own after the mkdir.
OpenResults(r) ==
  /\ pc[r] = "open"
  /\ \/ /\ entry = NoDir
        /\ Fail(r)
     \/ /\ entry # NoDir
        /\ fd' = [fd EXCEPT ![r] = entry]
        /\ pc' = [pc EXCEPT ![r] = "sync_empty"]
        /\ UNCHANGED stage
  /\ UNCHANGED <<loopVars, nameVars, fileVars, historyVars>>

\* Mutant: the parent directory is not synced.
SyncEvaluation_Skipped(r) ==
  /\ \/ pc[r] = "sync_claim" /\ Goto(r, "create")
     \/ pc[r] = "sync_parent" /\ Goto(r, "check_final")
  /\ UNCHANGED <<loopVars, nameVars, fileVars, historyVars>>

\* fsync of evaluation/: after the mkdir, and as the last sync of all.
SyncEvaluation(r) ==
  /\ \/ pc[r] = "sync_claim" /\ Goto(r, "create")
     \/ pc[r] = "sync_parent" /\ Goto(r, "check_final")
  /\ diskEntry' = entry
  /\ UNCHANGED <<loopVars, entry, fileVars, historyVars>>

(***************************************************************************)
(* _create_file: exclusive create, write, fsync, fsync of the directory.   *)
(***************************************************************************)
CreateFile(r) ==
  LET d == fd[r]
      name == CreatedName(stage[r])
      file == FileOf(stage[r])
  IN  /\ pc[r] = "create"
      /\ \/ /\ name \in live[d]
            /\ Fail(r)
            /\ UNCHANGED <<live, content, synced>>
         \/ /\ name \notin live[d]
            /\ live' = [live EXCEPT ![d] = @ \cup {name}]
            /\ content' = [content EXCEPT ![d][file] = "torn"]
            /\ synced' = [synced EXCEPT ![d] = @ \ {file}]
            /\ Goto(r, "write")
      /\ UNCHANGED <<loopVars, nameVars, disk, historyVars>>

(***************************************************************************)
(* _write_all: os.write until every byte is counted.  A turn of its loop   *)
(* ends in one of two ways: os.write is interrupted before it took a byte, *)
(* or it took some of what is left, none or all of it.                     *)
(***************************************************************************)
InterruptWrite(r) ==
  /\ pc[r] = "write"
  /\ Goto(r, "interrupted")
  /\ UNCHANGED <<loopVars, nameVars, fileVars, historyVars>>

\* except InterruptedError: continue.
RetryWrite(r) ==
  /\ pc[r] = "interrupted"
  /\ Goto(r, "write")
  /\ UNCHANGED <<loopVars, nameVars, fileVars, historyVars>>

OsWrite(r) ==
  /\ pc[r] = "write"
  /\ \E n \in 0 .. Payload - offset[r] :
       /\ written' = [written EXCEPT ![r] = n]
       /\ content' = IF offset[r] + n < Payload THEN content
                     ELSE [content EXCEPT ![fd[r]][FileOf(stage[r])] = "whole"]
  /\ Goto(r, "written")
  /\ UNCHANGED <<offset, nameVars, live, disk, synced, historyVars>>

\* The bytes are counted, and the loop goes on until none is left.
CountBytes(r, done) ==
  /\ written[r] > 0
  /\ \/ /\ offset[r] + written[r] < Payload
        /\ offset' = [offset EXCEPT ![r] = @ + written[r]]
        /\ written' = [written EXCEPT ![r] = 0]
        /\ Goto(r, "write")
     \/ /\ offset[r] + written[r] = Payload
        /\ LeaveLoop(r)
        /\ Goto(r, done)

\* Mutant: a write of no bytes is tried again.
AccountWrite_Zero(r) ==
  /\ pc[r] = "written"
  /\ \/ /\ written[r] = 0
        /\ Goto(r, "write")
        /\ UNCHANGED loopVars
     \/ CountBytes(r, "sync_file")
  /\ UNCHANGED <<nameVars, fileVars, historyVars>>

\* Mutant: the file is closed without an fsync.
AccountWrite_Unsynced(r) ==
  /\ pc[r] = "written"
  /\ \/ /\ written[r] = 0
        /\ Fail(r)
        /\ LeaveLoop(r)
     \/ CountBytes(r, "sync_dir")
  /\ UNCHANGED <<nameVars, fileVars, historyVars>>

\* A write of no bytes is an error, and not another turn.
AccountWrite(r) ==
  /\ pc[r] = "written"
  /\ \/ /\ written[r] = 0
        /\ Fail(r)
        /\ LeaveLoop(r)
     \/ CountBytes(r, "sync_file")
  /\ UNCHANGED <<nameVars, fileVars, historyVars>>

(***************************************************************************)
(* ... and the two fsyncs.                                                 *)
(***************************************************************************)
\* Mutant: fsync is called on another descriptor.
SyncFile_Elsewhere(r) ==
  /\ pc[r] = "sync_file"
  /\ Goto(r, "sync_dir")
  /\ UNCHANGED <<loopVars, nameVars, fileVars, historyVars>>

SyncFile(r) ==
  /\ pc[r] = "sync_file"
  /\ synced' = [synced EXCEPT ![fd[r]] = @ \cup {FileOf(stage[r])}]
  /\ Goto(r, "sync_dir")
  /\ UNCHANGED <<loopVars, nameVars, live, disk, content, historyVars>>

\* The stage that follows the publication of an artifact.
Following(s) == IF s = "per_seed" THEN "summary" ELSE "final"

\* Mutant: the removal of the marker is not synced.
SyncDirectory_NotFinal(r) ==
  /\ \/ pc[r] = "sync_empty" /\ Goto(r, "sync_claim")
     \/ pc[r] = "sync_dir" /\ stage[r] = "claim"
        /\ Enter(r, "evaluate", "factory")
     \/ pc[r] = "sync_dir" /\ stage[r] # "claim" /\ Goto(r, "link")
     \/ pc[r] = "sync_link" /\ Goto(r, "unlink")
     \/ pc[r] = "sync_unlink"
        /\ Enter(r, Following(stage[r]), "secure_sync")
     \/ pc[r] = "sync_final" /\ Goto(r, "sync_parent")
  /\ disk' = IF pc[r] = "sync_final" THEN disk
             ELSE [disk EXCEPT ![fd[r]] = live[fd[r]]]
  /\ UNCHANGED <<loopVars, nameVars, live, content, synced, historyVars>>

\* fsync of results/: every name change so far becomes durable.
SyncDirectory(r) ==
  /\ \/ pc[r] = "sync_empty" /\ Goto(r, "sync_claim")
     \/ pc[r] = "sync_dir" /\ stage[r] = "claim"
        /\ Enter(r, "evaluate", "factory")
     \/ pc[r] = "sync_dir" /\ stage[r] # "claim" /\ Goto(r, "link")
     \/ pc[r] = "sync_link" /\ Goto(r, "unlink")
     \/ pc[r] = "sync_unlink"
        /\ Enter(r, Following(stage[r]), "secure_sync")
     \/ pc[r] = "sync_final" /\ Goto(r, "sync_parent")
  /\ disk' = [disk EXCEPT ![fd[r]] = live[fd[r]]]
  /\ UNCHANGED <<loopVars, nameVars, live, content, synced, historyVars>>

(***************************************************************************)
(* The callbacks: the bundle factory is the evaluation.                    *)
(***************************************************************************)
EnterFactory(r) ==
  /\ pc[r] = "factory"
  /\ evaluations' = evaluations + 1
  /\ Goto(r, "building")
  /\ UNCHANGED <<loopVars, nameVars, fileVars, receipt, meddles, harmed>>

LeaveFactory(r) ==
  /\ pc[r] = "building"
  /\ Goto(r, "validate") \/ Stop(r, "factory_failed")
  /\ UNCHANGED <<loopVars, nameVars, fileVars, historyVars>>

\* Mutant: the summary is published first.
ValidateBundle_SummaryFirst(r) ==
  /\ pc[r] = "validate"
  /\ Enter(r, "summary", "secure_sync") \/ Stop(r, "invalid_bundle")
  /\ UNCHANGED <<loopVars, nameVars, fileVars, historyVars>>

\* validate_bundle and then _validated_artifacts on what it returned.
ValidateBundle(r) ==
  /\ pc[r] = "validate"
  /\ Enter(r, "per_seed", "secure_sync") \/ Stop(r, "invalid_bundle")
  /\ UNCHANGED <<loopVars, nameVars, fileVars, historyVars>>

(***************************************************************************)
(* _secure_namespace, called before each artifact and before the marker is *)
(* removed: modes and syncs first, then the identity of the directory and  *)
(* the bytes of the marker.                                                *)
(***************************************************************************)
SecureSync(r) ==
  /\ pc[r] = "secure_sync"
  /\ disk' = [disk EXCEPT ![fd[r]] = live[fd[r]]]
  /\ diskEntry' = entry
  /\ Goto(r, "secure_check")
  /\ UNCHANGED <<loopVars, entry, live, content, synced, historyVars>>

NamespaceIsCurrent(r) == entry = fd[r]

\* Mutant: the marker is not read back.
AttemptMarkerIsSecure_Assumed(r) == pc[r] = "secure_check"

AttemptMarkerIsSecure(r) ==
  "attempt" \in live[fd[r]] /\ content[fd[r]]["attempt"] = "whole"

SecureCheck(r) ==
  /\ pc[r] = "secure_check"
  /\ \/ /\ NamespaceIsCurrent(r) /\ AttemptMarkerIsSecure(r)
        /\ synced' = [synced EXCEPT ![fd[r]] = @ \cup {"attempt"}]
        /\ Goto(r, IF stage[r] = "final" THEN "unlink_attempt" ELSE "create")
     \/ /\ ~(NamespaceIsCurrent(r) /\ AttemptMarkerIsSecure(r))
        /\ Fail(r)
        /\ UNCHANGED synced
  /\ UNCHANGED <<loopVars, nameVars, live, disk, content, historyVars>>

(***************************************************************************)
(* _publish_staged_file after the stage is complete: link it to the public *)
(* name, which fails rather than overwrite, and drop the stage name.       *)
(***************************************************************************)
LinkPublic(r) ==
  /\ pc[r] = "link"
  /\ \/ /\ stage[r] \in live[fd[r]]
        /\ Fail(r)
        /\ UNCHANGED live
     \/ /\ stage[r] \notin live[fd[r]]
        /\ live' = [live EXCEPT ![fd[r]] = @ \cup {stage[r]}]
        /\ Goto(r, "sync_link")
  /\ UNCHANGED <<loopVars, nameVars, disk, content, synced, historyVars>>

\* Mutant: the stage name is left in the directory.
UnlinkStage_Skipped(r) ==
  /\ pc[r] = "unlink"
  /\ Goto(r, "sync_unlink")
  /\ UNCHANGED <<loopVars, nameVars, fileVars, historyVars>>

UnlinkStage(r) ==
  /\ pc[r] = "unlink"
  /\ live' = [live EXCEPT ![fd[r]] = @ \ {CreatedName(stage[r])}]
  /\ Goto(r, "sync_unlink")
  /\ UNCHANGED <<loopVars, nameVars, disk, content, synced, historyVars>>

(***************************************************************************)
(* Finalization: the marker goes, and only then is a receipt returned.     *)
(***************************************************************************)
UnlinkAttempt(r) ==
  /\ pc[r] = "unlink_attempt"
  /\ \/ /\ "attempt" \notin live[fd[r]]
        /\ Fail(r)
        /\ UNCHANGED live
     \/ /\ "attempt" \in live[fd[r]]
        /\ live' = [live EXCEPT ![fd[r]] = @ \ {"attempt"}]
        /\ Goto(r, "sync_final")
  /\ UNCHANGED <<loopVars, nameVars, disk, content, synced, historyVars>>

\* Mutant: the receipt is returned without looking at the namespace again.
CheckFinal_Blind(r) ==
  /\ pc[r] = "check_final"
  /\ receipt' = fd[r]
  /\ Stop(r, "published")
  /\ UNCHANGED <<loopVars, nameVars, fileVars, evaluations, meddles, harmed>>

CheckFinal(r) ==
  /\ pc[r] = "check_final"
  /\ \/ /\ NamespaceIsCurrent(r)
        /\ receipt' = fd[r]
        /\ Stop(r, "published")
     \/ /\ ~NamespaceIsCurrent(r)
        /\ Fail(r)
        /\ UNCHANGED receipt
  /\ UNCHANGED <<loopVars, nameVars, fileVars, evaluations, meddles, harmed>>

(***************************************************************************)
(* What can go wrong.                                                      *)
(***************************************************************************)

\* A system call raises OSError.  A write that fails leaves the file torn,
\* which it is from its creation on.
Fault(r) ==
  /\ pc[r] \in SystemCalls
  /\ Fail(r)
  /\ LeaveLoop(r)
  /\ UNCHANGED <<nameVars, fileVars, historyVars>>

\* The process is killed, or MemoryError, RecursionError or
\* KeyboardInterrupt leaves the call: nothing is cleaned up.
Kill(r) ==
  /\ pc[r] \in Active
  /\ Stop(r, "killed")
  /\ LeaveLoop(r)
  /\ UNCHANGED <<nameVars, fileVars, historyVars>>

\* The machine crashes: every running call is gone, and each name and each
\* file that was not synced may or may not be there afterwards.
Crash ==
  /\ pc' = [r \in Runners |-> IF pc[r] \in Active THEN "killed" ELSE pc[r]]
  /\ stage' = [r \in Runners |-> "claim"]
  /\ fd' = [r \in Runners |-> NoDir]
  /\ offset' = [r \in Runners |-> 0]
  /\ written' = [r \in Runners |-> 0]
  /\ entry' \in {entry, diskEntry}
  /\ diskEntry' = entry'
  /\ IF entry' = NoDir
       THEN UNCHANGED fileVars
       ELSE \E kept \in SUBSET (live[entry'] \cup disk[entry']),
               torn \in SUBSET (Files \ synced[entry']) :
              /\ live[entry'] \cap disk[entry'] \subseteq kept
              /\ live' = [live EXCEPT ![entry'] = kept]
              /\ disk' = [disk EXCEPT ![entry'] = kept]
              /\ content' = [content EXCEPT ![entry'] =
                   [f \in Files |-> IF f \in torn THEN "torn" ELSE @[f]]]
              /\ synced' = [synced EXCEPT ![entry'] = Files]
  /\ UNCHANGED historyVars

\* A bystander acts on the directory while a run holds it open.
Harm ==
  /\ meddles < MaxMeddles
  /\ entry # NoDir
  /\ meddles' = meddles + 1
  /\ harmed' = [r \in Runners |->
       IF fd[r] # entry \/ harmed[r] = "early" THEN harmed[r]
       ELSE IF "per_seed" \in live[entry] THEN "late" ELSE "early"]
  /\ UNCHANGED <<runVars, loopVars, diskEntry, disk, content, synced,
                 evaluations, receipt>>

\* ... by renaming it away,
MoveAside ==
  /\ Harm
  /\ entry' = NoDir
  /\ UNCHANGED live

\* ... or by removing the attempt marker.
RemoveMarker ==
  /\ Harm
  /\ "attempt" \in live[entry]
  /\ live' = [live EXCEPT ![entry] = @ \ {"attempt"}]
  /\ UNCHANGED entry

(***************************************************************************)
(* Specification.                                                          *)
(***************************************************************************)

\* The steps of publish_evaluation_results itself.
Step(r) ==
  \/ Refuse(r)
  \/ Mkdir(r)
  \/ OpenResults(r)
  \/ SyncEvaluation(r)
  \/ CreateFile(r)
  \/ InterruptWrite(r)
  \/ RetryWrite(r)
  \/ OsWrite(r)
  \/ AccountWrite(r)
  \/ SyncFile(r)
  \/ SyncDirectory(r)
  \/ EnterFactory(r)
  \/ LeaveFactory(r)
  \/ ValidateBundle(r)
  \/ SecureSync(r)
  \/ SecureCheck(r)
  \/ LinkPublic(r)
  \/ UnlinkStage(r)
  \/ UnlinkAttempt(r)
  \/ CheckFinal(r)

Next ==
  \/ \E r \in Runners : Step(r) \/ Begin(r) \/ Fault(r) \/ Kill(r)
  \/ Crash
  \/ MoveAside
  \/ RemoveMarker

Spec == Init /\ [][Next]_vars

\* A call waits for nothing but its callbacks, which are bounded computations:
\* once started it is carried on.  Its one loop can be held up only by signals,
\* and these do not interrupt every call of os.write for ever; the interpreter
\* itself repeats an interrupted write before InterruptedError can be seen.  How
\* much a call takes is left open: a short write may follow a short write.
Fairness ==
  \A r \in Runners : WF_vars(Step(r)) /\ SF_vars(OsWrite(r))

FairSpec == Spec /\ Fairness

(***************************************************************************)
(* Properties.                                                             *)
(***************************************************************************)

\* File f of directory d, name and bytes, is there after any crash.
Survives(d, f) ==
  /\ f \in live[d] \cap disk[d]
  /\ f \in synced[d]
  /\ content[d][f] = "whole"

\* What the result verifier asks of the directory: exactly the two artifacts,
\* with or without the attempt marker, each complete.
VerifierAccepts(d) ==
  /\ live[d] \in {Artifacts, Files}
  /\ \A f \in live[d] : content[d][f] = "whole"

\* The holdout is evaluated once: however many runners call, fail, are killed
\* or come back after a crash, a second evaluation needs a bystander to have
\* taken the claimed directory away (module docstring, "claims ... durably
\* before invoking caller-supplied code").
EvaluationsBounded == evaluations <= 1 + meddles

\* Left alone, publish_evaluation_results enters a bundle factory at most
\* once in the life of the repository.
OneEvaluation == meddles = 0 => evaluations <= 1

\* Once a factory was entered, what survives any crash says so: the claimed
\* directory with its complete marker, or with the complete pair.
EvaluationIsRecorded ==
  meddles = 0 /\ evaluations > 0 =>
    /\ entry # NoDir
    /\ diskEntry = entry
    /\ \/ Survives(entry, "attempt")
       \/ \A a \in Artifacts : Survives(entry, a)

\* The summary is the completeness marker: wherever its name is visible or
\* could reappear after a crash, the per-seed rows are durable next to it.
SummaryIsLast ==
  meddles = 0 => \A d \in Inodes :
    "summary" \in live[d] \cup disk[d] => Survives(d, "per_seed")

\* A public name is bound to a complete, synced inode from the moment it is
\* visible, through any crash (_publish_staged_file: "expose a complete
\* inode without overwrite").
PublicNamesAreWhole ==
  meddles = 0 => \A d \in Inodes, a \in Artifacts :
    a \in live[d] \cup disk[d] => a \in synced[d] /\ content[d][a] = "whole"

\* A receipt is final: from its return on, the directory holds the two
\* artifacts and nothing else, and no crash can bring the marker back.
ReceiptIsFinal ==
  meddles = 0 /\ receipt # NoDir =>
    /\ entry = receipt
    /\ diskEntry = receipt
    /\ live[receipt] = Artifacts
    /\ disk[receipt] = Artifacts
    /\ \A a \in Artifacts : Survives(receipt, a)

\* The error code tells what is left: a failed factory or bundle leaves no
\* artifact, ever, and a failed finalization leaves a bundle that verifies,
\* also after a crash.
OutcomeTellsWhatIsLeft ==
  meddles = 0 => \A r \in Runners :
    /\ pc[r] \in {"factory_failed", "invalid_bundle"} =>
         (live[entry] \cup disk[entry]) \cap Artifacts = {}
    /\ pc[r] = "finalization_failed" => VerifierAccepts(entry)

\* A directory that was moved away or lost its marker before the per-seed
\* rows were public never gets a summary from the run that holds it open.
\* One act of a bystander is meant: two could restore what the first broke.
NoSummaryAfterEarlyHarm ==
  meddles <= 1 => \A r \in Runners : harmed[r] = "early" =>
    /\ stage[r] = "summary" => pc[r] \in {"secure_sync", "secure_check"}
    /\ stage[r] # "final"
    /\ pc[r] \notin {"published", "finalization_failed"}

\* A receipt is returned only by a run whose directory stayed in place, with
\* its marker, from the open to the last check.
ReceiptMeansUndisturbed ==
  meddles <= 1 => \A r \in Runners : pc[r] = "published" => harmed[r] = "no"

\* The boundary implements the one-shot namespace.  An artifact counts as
\* recorded when its name is durable in the claimed directory.
Recorded ==
  IF evaluations = 0 \/ entry = NoDir THEN {}
  ELSE live[entry] \cap disk[entry] \cap Artifacts

OneShot == INSTANCE OneShotNamespace WITH
  phase <- IF evaluations > 0 THEN "evaluated"
           ELSE IF entry = NoDir THEN "open" ELSE "claimed",
  recorded <- Recorded,
  receipted <- receipt # NoDir

ImplementsOneShot == OneShot!Spec

\* "The summary is the sole completeness marker" (docs/frozen-execution.md:93):
\* with no publisher at work, a visible summary means that the directory
\* verifies.
SummaryAloneMarksCompleteness ==
  /\ entry # NoDir
  /\ "summary" \in live[entry]
  /\ \A r \in Runners : pc[r] \in Resting
  => VerifierAccepts(entry)

\* Every call comes to an end, with a receipt or with an error code, however
\* often os.write is interrupted and however little it takes at a time: nothing
\* at all is an error and not another turn (_write_all).
EveryRunEnds == \A r \in Runners : pc[r] \in Active ~> pc[r] \in Resting
=============================================================================
