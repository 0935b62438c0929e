---------------------------- MODULE StagedOutputs ----------------------------
(***************************************************************************)
(* cowbot simulate: the telemetry stream and its truth are written to      *)
(* private stages and then published as a pair, cowbot/cli.py              *)
(* (_preflight_outputs, _stage_for, _backup_path, _publish_staged,         *)
(* _simulate).  With --overwrite the outputs are replaced, after a backup  *)
(* link of each was taken; without it they are linked, which fails if the  *)
(* name exists.  Every call may fail with OSError, a KeyboardInterrupt may *)
(* arrive at any point (only the finally blocks run), and the process may  *)
(* be killed (nothing runs).                                               *)
(***************************************************************************)
EXTENDS Naturals

CONSTANTS
  Runs,        \* invocations of cowbot simulate on the same two paths
  Old,         \* a file that none of them wrote
  Absent       \* no file

ASSUME FilesAssumption == Old \notin Runs /\ Absent \notin Runs \cup {Old}

Order == <<"stream", "truth">>
Outputs == {"stream", "truth"}
Versions == Runs \cup {Old, Absent}

VARIABLES
  pc,       \* pc[r]: what the run does next
  at,       \* at[r]: the index in Order it does it to
  outcome,  \* outcome[r]: what it will report
  files,    \* files[d]: whose bytes the path holds
  before,   \* before[r]: the two paths when r began
  stages,   \* stages[r]: the stage files that exist
  backups,  \* backups[r][d]: what the backup link of r for d holds
  touched,  \* touched[r]: "published" or "linked", the outputs put in place
  placeholders, \* placeholders[r]: outputs whose empty mkstemp file exists
  stuck,    \* stuck[r]: outputs the rollback could not restore
  latest,   \* the last run to begin
  stopped,  \* the runs that a KeyboardInterrupt reached
  displaced, \* displaced[r]: outputs of r that somebody else took away
  overwriting, \* the runs with --overwrite
  alone,    \* nobody else touches the two paths while a run works
  gentle    \* other programs only create files that are not there

settings == <<overwriting, alone, gentle>>
history == <<latest, stopped, settings>>
paths == <<files, displaced>>
aside == <<stages, backups, placeholders>>
private == <<before, aside, touched, stuck>>
vars == <<pc, at, outcome, files, before, stages, backups, touched,
          placeholders, stuck, latest, stopped, displaced, overwriting, alone,
          gentle>>

Backing == {"backup", "unplace", "copy"}
Working == {"preflight", "stage", "replace", "rollback", "link", "unlink",
            "tidy_backups", "tidy_stages"} \cup Backing
Outcomes == {"published", "refused", "failed", "restored", "recovery",
             "unkept", "partial", "untidy", "interrupted", "killed"}

TypeOK ==
  /\ pc \in [Runs -> Working \cup {"idle", "done"}]
  /\ at \in [Runs -> 1..2]
  /\ outcome \in [Runs -> Outcomes \cup {"none"}]
  /\ files \in [Outputs -> Versions]
  /\ before \in [Runs -> [Outputs -> Versions]]
  /\ stages \in [Runs -> SUBSET Outputs]
  /\ backups \in [Runs -> [Outputs -> Versions]]
  /\ touched \in [Runs -> SUBSET Outputs]
  /\ placeholders \in [Runs -> SUBSET Outputs]
  /\ stuck \in [Runs -> SUBSET Outputs]
  /\ latest \in Runs
  /\ stopped \in SUBSET Runs
  /\ displaced \in [Runs -> SUBSET Outputs]
  /\ overwriting \in SUBSET Runs
  /\ alone \in BOOLEAN
  /\ gentle \in BOOLEAN

Init ==
  /\ pc = [r \in Runs |-> "idle"]
  /\ at = [r \in Runs |-> 1]
  /\ outcome = [r \in Runs |-> "none"]
  /\ files \in [Outputs -> {Absent, Old}]
  /\ before = [r \in Runs |-> files]
  /\ stages = [r \in Runs |-> {}]
  /\ backups = [r \in Runs |-> [d \in Outputs |-> Absent]]
  /\ touched = [r \in Runs |-> {}]
  /\ placeholders = [r \in Runs |-> {}]
  /\ stuck = [r \in Runs |-> {}]
  /\ latest \in Runs
  /\ stopped = {}
  /\ displaced = [r \in Runs |-> {}]
  /\ overwriting \in SUBSET Runs
  /\ alone \in BOOLEAN
  /\ gentle \in BOOLEAN
  /\ alone => gentle

\* The output the run is at.
Here(r) == Order[at[r]]

Goto(r, next, i) ==
  /\ pc' = [pc EXCEPT ![r] = next]
  /\ at' = [at EXCEPT ![r] = i]

\* One more output in this loop, or on to what comes after it.
Advance(r, next) ==
  IF at[r] = 1 THEN Goto(r, pc[r], 2) ELSE Goto(r, next, 1)

Report(r, what) == outcome' = [outcome EXCEPT ![r] = what]

Moves(r) == pc'[r] # pc[r] \/ at'[r] # at[r]

\* The outputs a step takes away from runs other than the one that takes it.
Displace ==
  displaced' = [r \in Runs |-> displaced[r] \cup
    {d \in Outputs : /\ r \notin overwriting /\ ~Moves(r)
                     /\ files[d] = r /\ files'[d] # r}]

Begin(r) ==
  /\ pc[r] = "idle"
  /\ alone => \A q \in Runs : pc[q] \notin Working
  /\ Goto(r, "preflight", 1)
  /\ before' = [before EXCEPT ![r] = files]
  /\ latest' = r
  /\ UNCHANGED <<outcome, paths, aside, touched, stuck, stopped, settings>>

Preflight(r) ==
  /\ pc[r] = "preflight"
  /\ IF r \in overwriting \/ \A d \in Outputs : files[d] = Absent
       THEN Goto(r, "stage", 1) /\ UNCHANGED outcome
       ELSE Goto(r, "done", 1) /\ Report(r, "refused")
  /\ UNCHANGED <<paths, private, history>>

\* mkstemp, and the bytes: the truth carries the digest of the staged stream,
\* so the two stages of a run always belong together.
Stage(r) ==
  /\ pc[r] = "stage"
  /\ stages' = [stages EXCEPT ![r] = @ \cup {Here(r)}]
  /\ Advance(r, IF r \in overwriting THEN "backup" ELSE "link")
  /\ UNCHANGED <<outcome, paths, before, backups, placeholders, touched, stuck,
                 history>>

Exists(d) == files[d] # Absent

\* mkstemp makes an empty file, if there is anything to back up.
Backup(r) ==
  /\ pc[r] = "backup"
  /\ IF Exists(Here(r))
       THEN /\ placeholders' = [placeholders EXCEPT ![r] = @ \cup {Here(r)}]
            /\ Goto(r, "unplace", at[r])
       ELSE /\ Advance(r, "replace")
            /\ UNCHANGED placeholders
  /\ UNCHANGED <<outcome, paths, before, stages, backups, touched, stuck,
                 history>>

\* Only its name was wanted.
Unplace(r) ==
  /\ pc[r] = "unplace"
  /\ placeholders' = [placeholders EXCEPT ![r] = @ \ {Here(r)}]
  /\ Goto(r, "copy", at[r])
  /\ UNCHANGED <<outcome, paths, before, stages, backups, touched, stuck,
                 history>>

\* A second link to what the path holds, unless that is gone by now.
Copy(r) ==
  /\ pc[r] = "copy"
  /\ IF Exists(Here(r))
       THEN /\ backups' = [backups EXCEPT ![r][Here(r)] = files[Here(r)]]
            /\ IF at[r] = 1 THEN Goto(r, "backup", 2) ELSE Goto(r, "replace", 1)
       ELSE /\ Goto(r, "rollback", 2)
            /\ UNCHANGED backups
  /\ UNCHANGED <<outcome, paths, before, stages, placeholders, touched, stuck,
                 history>>

\* Mutant: the output is not noted as published.
Replace_Unnoted(r) ==
  /\ pc[r] = "replace"
  /\ files' = [files EXCEPT ![Here(r)] = r]
  /\ stages' = [stages EXCEPT ![r] = @ \ {Here(r)}]
  /\ Advance(r, "tidy_backups")
  /\ IF at[r] = 2 THEN Report(r, "published") ELSE UNCHANGED outcome
  /\ Displace
  /\ UNCHANGED <<before, backups, placeholders, touched, stuck, history>>

Replace(r) ==
  /\ pc[r] = "replace"
  /\ files' = [files EXCEPT ![Here(r)] = r]
  /\ stages' = [stages EXCEPT ![r] = @ \ {Here(r)}]
  /\ touched' = [touched EXCEPT ![r] = @ \cup {Here(r)}]
  /\ Advance(r, "tidy_backups")
  /\ IF at[r] = 2 THEN Report(r, "published") ELSE UNCHANGED outcome
  /\ Displace
  /\ UNCHANGED <<before, backups, placeholders, stuck, history>>

\* In reverse order: remove what was not there, move the backup back over
\* what was; a failure of either is noted and the loop goes on.
Rollback(r) ==
  /\ pc[r] = "rollback"
  /\ LET d == Here(r)
         restore == d \in touched[r]
     IN  \/ /\ restore
            /\ files' = [files EXCEPT ![d] = backups[r][d]]
            /\ backups' = [backups EXCEPT ![r][d] = Absent]
            /\ UNCHANGED stuck
         \/ /\ restore
            /\ stuck' = [stuck EXCEPT ![r] = @ \cup {d}]
            /\ UNCHANGED <<files, backups>>
         \/ /\ ~restore
            /\ UNCHANGED <<files, backups, stuck>>
  /\ IF at[r] = 2
       THEN Goto(r, "rollback", 1) /\ UNCHANGED outcome
       ELSE /\ Goto(r, "tidy_backups", 1)
            /\ Report(r, IF stuck'[r] = {} THEN "restored" ELSE "recovery")
  /\ Displace
  /\ UNCHANGED <<before, stages, placeholders, touched, history>>

\* Mutant: every backup is removed, those of failed restorations included.
TidyBackups_All(r) ==
  /\ pc[r] = "tidy_backups"
  /\ backups' = [backups EXCEPT ![r][Here(r)] = Absent]
  /\ Advance(r, "tidy_stages")
  /\ UNCHANGED <<outcome, paths, before, stages, placeholders, touched, stuck,
                 history>>

\* The finally block of _publish_staged.
TidyBackups(r) ==
  /\ pc[r] = "tidy_backups"
  /\ backups' = IF Here(r) \in stuck[r] THEN backups
                ELSE [backups EXCEPT ![r][Here(r)] = Absent]
  /\ Advance(r, "tidy_stages")
  /\ UNCHANGED <<outcome, paths, before, stages, placeholders, touched, stuck,
                 history>>

\* Mutant: the stage is moved over the destination.
Link_Over(r) ==
  /\ pc[r] = "link"
  /\ files' = [files EXCEPT ![Here(r)] = r]
  /\ touched' = [touched EXCEPT ![r] = @ \cup {Here(r)}]
  /\ Advance(r, "tidy_stages")
  /\ IF at[r] = 2 THEN Report(r, "published") ELSE UNCHANGED outcome
  /\ Displace
  /\ UNCHANGED <<before, aside, stuck, history>>

Link(r) ==
  /\ pc[r] = "link"
  /\ IF ~Exists(Here(r))
       THEN /\ files' = [files EXCEPT ![Here(r)] = r]
            /\ touched' = [touched EXCEPT ![r] = @ \cup {Here(r)}]
            /\ Advance(r, "tidy_stages")
            /\ IF at[r] = 2 THEN Report(r, "published") ELSE UNCHANGED outcome
       ELSE /\ Goto(r, "unlink", 1)
            /\ UNCHANGED <<outcome, files, touched>>
  /\ Displace
  /\ UNCHANGED <<before, aside, stuck, history>>

\* Mutant: every destination is removed, linked by this run or not.
Linked_Any(r, d) == TRUE

\* The outputs this run linked, the only ones its clean-up may remove.
Linked(r, d) == d \in touched[r]

\* The clean-up after a failed link: the names this run linked are removed.
Unlink(r) ==
  /\ pc[r] = "unlink"
  /\ \/ /\ Linked(r, Here(r))
        /\ files' = [files EXCEPT ![Here(r)] = Absent]
        /\ UNCHANGED stuck
     \/ /\ Linked(r, Here(r))
        /\ stuck' = [stuck EXCEPT ![r] = @ \cup {Here(r)}]
        /\ UNCHANGED files
     \/ /\ ~Linked(r, Here(r))
        /\ UNCHANGED <<files, stuck>>
  /\ Advance(r, "tidy_stages")
  /\ IF at[r] = 2
       THEN Report(r, IF stuck'[r] = {} THEN "unkept" ELSE "partial")
       ELSE UNCHANGED outcome
  /\ Displace
  /\ UNCHANGED <<before, aside, touched, history>>

\* The finally block of _simulate.
TidyStages(r) ==
  /\ pc[r] = "tidy_stages"
  /\ stages' = [stages EXCEPT ![r] = @ \ {Here(r)}]
  /\ Advance(r, "done")
  /\ UNCHANGED <<outcome, paths, before, backups, placeholders, touched, stuck,
                 history>>

(***************************************************************************)
(* What can go wrong.                                                      *)
(***************************************************************************)

\* Where the finally blocks pick up when an exception leaves a step.
Finally(r) ==
  IF pc[r] \in {"preflight", "tidy_stages"} THEN "done"
  ELSE IF pc[r] \in Backing \cup {"replace", "rollback"} THEN "tidy_backups"
  ELSE "tidy_stages"

\* A call of the step raises OSError, and has had no effect.
Fault(r) ==
  /\ \/ /\ pc[r] \in {"preflight", "stage"}
        /\ Goto(r, Finally(r), 1)
        /\ Report(r, "failed")
     \/ /\ pc[r] \in Backing \cup {"replace"}
        /\ Goto(r, "rollback", 2)
        /\ UNCHANGED outcome
     \/ /\ pc[r] = "link"
        /\ Goto(r, "unlink", 1)
        /\ UNCHANGED outcome
     \/ /\ pc[r] \in {"tidy_backups", "tidy_stages"}
        /\ Goto(r, Finally(r), 1)
        /\ Report(r, "untidy")
  /\ UNCHANGED <<paths, private, history>>

\* KeyboardInterrupt: no handler, only the finally blocks.
Interrupt(r) ==
  /\ pc[r] \in Working
  /\ Goto(r, Finally(r), 1)
  /\ Report(r, "interrupted")
  /\ stopped' = stopped \cup {r}
  /\ UNCHANGED <<paths, private, latest, settings>>

Kill(r) ==
  /\ pc[r] \in Working
  /\ Goto(r, "done", 1)
  /\ Report(r, "killed")
  /\ UNCHANGED <<paths, private, history>>

\* Another program creates one of the two files, renames a file of its own
\* over it, or removes it.
Foreign(d) ==
  /\ ~alone
  /\ \E v \in {Old, Absent} :
       /\ gentle => files[d] = Absent
       /\ files' = [files EXCEPT ![d] = v]
  /\ UNCHANGED <<pc, at, outcome>>
  /\ Displace
  /\ UNCHANGED <<private, history>>

Step(r) ==
  \/ Begin(r) \/ Preflight(r) \/ Stage(r)
  \/ Backup(r) \/ Unplace(r) \/ Copy(r)
  \/ Replace(r) \/ Rollback(r) \/ TidyBackups(r)
  \/ Link(r) \/ Unlink(r) \/ TidyStages(r)

Next ==
  \/ \E r \in Runs : Step(r) \/ Fault(r) \/ Interrupt(r) \/ Kill(r)
  \/ \E d \in Outputs : Foreign(d)

Spec == Init /\ [][Next]_vars

(***************************************************************************)
(* Properties.                                                             *)
(***************************************************************************)

Said(r, words) == pc[r] = "done" /\ outcome[r] \in words

\* A run that is alone tells the truth about the pair: "published" is both
\* new outputs, "previous outputs restored" and "no new output was kept" are
\* both former ones, and none of the three leaves a stage or a backup behind.
\* Only "restored" may leave an empty placeholder, the one whose removal
\* failed: no handler knows its name (_backup_path).
ReportIsTrue ==
  alone => \A r \in Runs, d \in Outputs :
    /\ r = latest /\ Said(r, {"published"}) => files[d] = r
    /\ r = latest /\ Said(r, {"restored", "unkept", "failed", "refused"})
       => files[d] = before[r][d]
    /\ Said(r, {"published", "restored", "unkept"})
       => stages[r] = {} /\ backups[r][d] = Absent
    /\ Said(r, {"published", "unkept"}) => placeholders[r] = {}

\* A run that is alone loses no former output unless it replaced the pair or
\* was interrupted: the path or its backup still holds it, also when the run
\* is killed or its rollback fails ("restore ... from retained backup").
PreviousIsRecoverable ==
  alone /\ latest \notin stopped => \A d \in Outputs :
    before[latest][d] # Absent =>
      \/ before[latest][d] \in {files[d], backups[latest][d]}
      \/ \A e \in Outputs : files[e] = latest

\* Without --overwrite, overlapping runs never mix their outputs, and what
\* one of them published stays: the stream, linked first, acts as the claim.
\* Other programs may create the files meanwhile, not take them away.
RivalsNeverMix ==
  overwriting = {} /\ gentle =>
    /\ \A q, r \in Runs :
         files["stream"] = q /\ files["truth"] = r => q = r
    /\ \A r \in Runs : Said(r, {"published"}) => \A d \in Outputs : files[d] = r

\* Whatever other runs, with --overwrite or not, and other programs do
\* meanwhile: a run without --overwrite replaces or removes the file of
\* somebody else only at a name where its own output stood until that one
\* took it away.  There it does: the clean-up after a failed link unlinks by
\* name, without looking whose file the name holds now.
OthersAreKept ==
  [][\A r \in Runs \ overwriting, d \in Outputs :
       Moves(r) /\ d \notin displaced[r] /\ files[d] \notin {Absent, r}
       => files'[d] = files[d]]_vars
=============================================================================
