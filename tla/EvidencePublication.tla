------------------------- MODULE EvidencePublication -------------------------
(***************************************************************************)
(* How the recorders replace committed files, manifest last.               *)
(* tools/record_evidence.py copies a backup of each target, replaces it    *)
(* and rolls everything back on any error (transactional);                 *)
(* tools/record_holdout_harness_evidence.py and                            *)
(* tools/render_protocol_visual.py only replace, in order.  There is one   *)
(* writer, as docs/evidence/README.md says; a call may fail, a             *)
(* KeyboardInterrupt may arrive anywhere, the process may be killed.       *)
(* No name of it is one of StagedOutputs, whose theorems OutputProofs      *)
(* proves together with those of this module.                              *)
(***************************************************************************)
EXTENDS Naturals

CONSTANT Total   \* number of targets; the last one is the manifest

ASSUME TotalAssumption == Total \in Nat \ {0}

Targets == 1..Total
Manifest == Total

VARIABLES
  transactional, \* which of the recorders runs
  step,          \* what it does next
  target,        \* the target it does it to
  committed,     \* committed[t]: "absent", "old" or "new"
  former,        \* committed when the recorder began
  copies,        \* targets whose old bytes the transaction directory holds
  published,     \* targets noted as replaced
  unrestored,    \* targets the rollback could not restore
  place,         \* where the transaction directory is: "stage", "recovery"
  preserve,      \* preserve_stage
  result,        \* what will be reported
  interrupted    \* a KeyboardInterrupt arrived

record == <<transactional, former>>
transaction == <<copies, published, unrestored>>
recorderVars ==
  <<transactional, step, target, committed, former, copies, published,
    unrestored, place, preserve, result, interrupted>>

\* The steps inside the try block of _publish.
Publishing == {"backup", "replace", "note", "sync", "validate"}
Recording == {"preflight", "stage", "prepare", "rollback", "retain", "clean"}
             \cup Publishing

RecorderTypeOK ==
  /\ transactional \in BOOLEAN
  /\ step \in Recording \cup {"done"}
  /\ target \in Targets
  /\ committed \in [Targets -> {"absent", "old", "new"}]
  /\ former \in [Targets -> {"absent", "old"}]
  /\ {copies, published, unrestored} \subseteq SUBSET Targets
  /\ place \in {"stage", "recovery"}
  /\ preserve \in BOOLEAN
  /\ result \in {"failed", "written", "recovery", "interrupted", "killed"}
  /\ interrupted \in BOOLEAN

RecorderInit ==
  /\ transactional \in BOOLEAN
  /\ step = "preflight"
  /\ target = 1
  /\ committed \in [Targets -> {"absent", "old"}]
  /\ former = committed
  /\ copies = {} /\ published = {} /\ unrestored = {}
  /\ place = "stage"
  /\ preserve = FALSE
  /\ result = "failed"
  /\ interrupted = FALSE

Proceed(next) == step' = next /\ UNCHANGED target
Quiet == UNCHANGED <<record, place, preserve, result, interrupted>>

\* The read-only inventory, the private stage with the regenerated files, and
\* the inventory again before the directories are pinned.
Prepare ==
  /\ \/ step = "preflight" /\ Proceed("stage")
     \/ step = "stage" /\ Proceed("prepare")
     \/ /\ step = "prepare"
        /\ Proceed(IF transactional THEN "backup" ELSE "replace")
  /\ UNCHANGED <<committed, transaction>>
  /\ Quiet

\* The old bytes are copied and synced, if there is a file.
CopyBackup ==
  /\ step = "backup"
  /\ copies' = IF committed[target] = "absent" THEN copies
               ELSE copies \cup {target}
  /\ Proceed("replace")
  /\ UNCHANGED <<committed, published, unrestored>>
  /\ Quiet

ReplaceTarget ==
  /\ step = "replace"
  /\ committed' = [committed EXCEPT ![target] = "new"]
  /\ Proceed("note")
  /\ UNCHANGED transaction
  /\ Quiet

\* Mutant: a target counts as published only if there was a file before.
Note_Replaced ==
  /\ step = "note"
  /\ published' = IF target \in copies THEN published \cup {target}
                  ELSE published
  /\ IF target = Total THEN Proceed("sync")
     ELSE /\ target' = target + 1
          /\ step' = IF transactional THEN "backup" ELSE "replace"
  /\ UNCHANGED <<committed, copies, unrestored>>
  /\ Quiet

\* published.append, and on to the next target.
Note ==
  /\ step = "note"
  /\ published' = published \cup {target}
  /\ IF target = Total THEN Proceed("sync")
     ELSE /\ target' = target + 1
          /\ step' = IF transactional THEN "backup" ELSE "replace"
  /\ UNCHANGED <<committed, copies, unrestored>>
  /\ Quiet

\* fsync of the directories; only record_evidence then looks at the result.
Finish ==
  /\ \/ /\ step = "sync" /\ transactional
        /\ Proceed("validate")
        /\ UNCHANGED result
     \/ /\ step = "validate" \/ (step = "sync" /\ ~transactional)
        /\ Proceed("clean")
        /\ result' = "written"
  /\ UNCHANGED <<record, committed, transaction, place, preserve, interrupted>>

\* Mutant: the rollback restores in the order of publication.
Backwards_Not(i) == Total + 1 - i

\* reversed(published): the manifest, published last, is restored first.
Backwards(i) == i

\* One restoration: the backup is moved back, or the new file is unlinked; a
\* failure is noted and the others are still restored.
Restore ==
  LET t == Backwards(target) IN
  /\ step = "rollback"
  /\ \/ /\ t \in published
        /\ committed' = [committed EXCEPT ![t] =
                       IF t \in copies THEN "old" ELSE "absent"]
        /\ copies' = copies \ {t}
        /\ UNCHANGED unrestored
     \/ /\ t \in published
        /\ unrestored' = unrestored \cup {t}
        /\ UNCHANGED <<committed, copies>>
     \/ /\ t \notin published
        /\ UNCHANGED <<committed, copies, unrestored>>
  /\ IF target > 1 THEN target' = target - 1 /\ UNCHANGED step
     ELSE Proceed(IF unrestored' = {} THEN "clean" ELSE "retain")
  /\ UNCHANGED published
  /\ Quiet

\* Mutant: main is not told to keep the stage when the move fails.
Retain_Forgets ==
  /\ step = "retain"
  /\ \/ place' = "recovery" /\ UNCHANGED preserve
     \/ UNCHANGED <<place, preserve>>
  /\ Proceed("clean")
  /\ result' = "recovery"
  /\ UNCHANGED <<record, committed, transaction, interrupted>>

\* _retain_failed_transaction: move the directory out of the stage, or, if
\* that fails, have the whole stage kept.
Retain ==
  /\ step = "retain"
  /\ \/ place' = "recovery" /\ UNCHANGED preserve
     \/ preserve' = TRUE /\ UNCHANGED place
  /\ Proceed("clean")
  /\ result' = "recovery"
  /\ UNCHANGED <<record, committed, transaction, interrupted>>

\* The finally block of main: the stage goes, with the transaction in it.
Clean ==
  /\ step = "clean"
  /\ copies' = IF place = "stage" /\ ~preserve THEN {} ELSE copies
  /\ Proceed("done")
  /\ UNCHANGED <<committed, published, unrestored>>
  /\ Quiet

\* Where an exception that is not about the rollback itself goes.
Unwind ==
  IF step \in Publishing /\ transactional
    THEN step' = "rollback" /\ target' = Total
    ELSE /\ step' = (IF step = "clean" THEN "done" ELSE "clean")
         /\ UNCHANGED target

\* A call fails before it had an effect: OSError, an unexpected entry, staged
\* bytes that changed, a committed file set that is not exact.
RecorderFault ==
  /\ step \in (Recording \ {"rollback", "retain", "clean", "note"})
  /\ Unwind
  /\ UNCHANGED <<committed, transaction>>
  /\ Quiet

\* _publish rolls back on BaseException, but neither its rollback nor
\* _retain_failed_transaction is protected from a second one.
RecorderInterrupt ==
  /\ step \in Recording
  /\ Unwind
  /\ result' = "interrupted"
  /\ interrupted' = TRUE
  /\ UNCHANGED <<record, committed, transaction, place, preserve>>

RecorderKill ==
  /\ step \in Recording
  /\ Proceed("done")
  /\ result' = "killed"
  /\ UNCHANGED <<record, committed, transaction, place, preserve, interrupted>>

RecorderNext ==
  \/ Prepare \/ CopyBackup \/ ReplaceTarget \/ Note \/ Finish
  \/ Restore \/ Retain \/ Clean
  \/ RecorderFault \/ RecorderInterrupt \/ RecorderKill

RecorderSpec == RecorderInit /\ [][RecorderNext]_recorderVars

(***************************************************************************)
(* Properties.                                                             *)
(***************************************************************************)

\* The new files are always a prefix of the order, the manifest last, also
\* while a rollback is going on or after a kill ("manifest.json is replaced
\* last, after all payloads and visuals are present").
NewIsPrefix ==
  ~interrupted /\ unrestored = {} =>
    \A s, t \in Targets : s < t /\ committed[t] = "new" => committed[s] = "new"

\* A transactional write that reports a plain failure changed nothing.
FailureRestores ==
  transactional /\ ~interrupted /\ step = "done" /\ result = "failed"
  => committed = former

\* Old bytes of a transactional write exist, in place or as a backup, at any
\* time until every target is new: through failures, failed restorations and
\* kills.
OldBytesExist ==
  transactional /\ ~interrupted => \A t \in Targets :
    former[t] = "old" =>
      \/ committed[t] = "old"
      \/ t \in copies
      \/ \A s \in Targets : committed[s] = "new"

\* "rolls back earlier replacements if a later one fails ... If restoration
\* itself fails, the only backup bytes are retained"
\* (docs/evidence/README.md:29-34): after a write that did not succeed, each
\* former file is in place or its bytes are retained.
FailedWriteKeepsBackups ==
  transactional /\ step = "done" /\ result \notin {"written", "killed"} =>
    \A t \in Targets : former[t] = "old" => committed[t] = "old" \/ t \in copies
=============================================================================
