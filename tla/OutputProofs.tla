----------------------------- MODULE OutputProofs -----------------------------
(***************************************************************************)
(* Replacing files that somebody may need: cowbot simulate, for any number *)
(* of runs, and the recorders of evidence, for any number of targets.      *)
(*                                                                         *)
(* Rivals without --overwrite never mix their outputs.  The stream is      *)
(* linked first, so its name acts as a claim: a run goes on to the truth,  *)
(* or to its clean-up, only while the stream it linked is still there      *)
(* (ClaimInv); it is the only one to remove it.                            *)
(*                                                                         *)
(* A run without --overwrite takes nobody's file away, also among runs     *)
(* with --overwrite and ruder programs, but where its own output was       *)
(* taken away first: a name it linked and may still unlink holds its own   *)
(* file, or was displaced (HoldInv).                                       *)
(*                                                                         *)
(* A run that is alone reports what it did, and loses no former output.    *)
(* What it leaves of its stages and backups is its own affair (TidyInv);   *)
(* what the two paths hold is told by the step it has come to (AloneInv).  *)
(*                                                                         *)
(* A recorder, likewise: until a KeyboardInterrupt, the step it is at      *)
(* tells exactly which targets are new and, in a transaction, which of the *)
(* former files have a backup (Phase).  An interrupted recorder promises   *)
(* nothing (README, section 9).                                            *)
(***************************************************************************)
EXTENDS StagedOutputs, EvidencePublication, TLAPS

\* Where only a run that overwrites can be.
Replacing == Backing \cup {"replace", "rollback", "tidy_backups"}

\* Where a run that does not overwrite can be, and what it has linked there.
Claim(r) ==
  /\ pc[r] \notin Replacing
  /\ pc[r] \in {"idle", "preflight", "stage"} \/ (pc[r] = "link" /\ at[r] = 1) =>
       touched[r] = {}
  /\ pc[r] = "link" /\ at[r] = 2 => touched[r] = {"stream"} /\ files["stream"] = r
  /\ pc[r] = "unlink" =>
       /\ touched[r] \subseteq {"stream"}
       /\ at[r] = 1 /\ "stream" \in touched[r] => files["stream"] = r
  /\ files["truth"] = r => "truth" \in touched[r]
  /\ "truth" \in touched[r] =>
       /\ pc[r] \in {"tidy_stages", "done"}
       /\ files["stream"] = r
       /\ files["truth"] = r
  /\ outcome[r] = "published" => "truth" \in touched[r]

ClaimInv == overwriting = {} /\ gentle => \A r \in Runs : Claim(r)

\* The same of a run among others that replace and remove what they please:
\* what it linked, it still has to unlink only while nobody displaced it.
Hold(r) ==
  /\ pc[r] \notin Replacing
  /\ pc[r] \in {"idle", "preflight", "stage"} \/ (pc[r] = "link" /\ at[r] = 1) =>
       touched[r] = {}
  /\ pc[r] \in {"link", "unlink"} => touched[r] \subseteq {"stream"}
  /\ pc[r] = "link" \/ (pc[r] = "unlink" /\ at[r] = 1) =>
       \A d \in touched[r] : d \in displaced[r] \/ files[d] = r

HoldInv == \A r \in Runs \ overwriting : Hold(r)

Inv == TypeOK /\ ClaimInv /\ HoldInv

-----------------------------------------------------------------------------
LEMMA HereIsOutput ==
  ASSUME TypeOK, NEW r \in Runs
  PROVE  /\ Here(r) \in Outputs
         /\ at[r] = 1 => Here(r) = "stream"
         /\ at[r] = 2 => Here(r) = "truth"
BY DEF TypeOK, Here, Order, Outputs

LEMMA InitInv == Init => Inv
<1> SUFFICES ASSUME Init PROVE Inv
  OBVIOUS
<1>1. TypeOK
  BY DEF Init, TypeOK, Versions, Outputs, Working, Backing, Outcomes
<1>2. ClaimInv
  BY FilesAssumption DEF Init, ClaimInv, Claim, Outputs, Replacing, Backing
<1>3. HoldInv
  BY DEF Init, HoldInv, Hold, Replacing, Backing
<1> QED
  BY <1>1, <1>2, <1>3 DEF Inv

LEMMA GotoTypes ==
  ASSUME TypeOK, NEW r \in Runs, NEW i \in 1..2,
         NEW next \in Working \cup {"idle", "done"}, Goto(r, next, i)
  PROVE  /\ pc' \in [Runs -> Working \cup {"idle", "done"}]
         /\ at' \in [Runs -> 1..2]
BY DEF TypeOK, Goto

LEMMA AdvanceTypes ==
  ASSUME TypeOK, NEW r \in Runs, NEW next \in Working \cup {"idle", "done"},
         Advance(r, next)
  PROVE  /\ pc' \in [Runs -> Working \cup {"idle", "done"}]
         /\ at' \in [Runs -> 1..2]
<1>1. pc[r] \in Working \cup {"idle", "done"}
  BY DEF TypeOK
<1>2. CASE Goto(r, pc[r], 2)
  BY <1>1, <1>2, GotoTypes
<1>3. CASE Goto(r, next, 1)
  BY <1>3, GotoTypes
<1> QED
  BY <1>2, <1>3 DEF Advance

LEMMA DisplaceTypes ==
  ASSUME TypeOK, Displace
  PROVE  displaced' \in [Runs -> SUBSET Outputs]
BY DEF TypeOK, Displace

\* Each step of a run keeps the types.
LEMMA StepTypes ==
  ASSUME TypeOK, NEW r \in Runs, Step(r)
  PROVE  TypeOK'
<1> DEFINE Control == /\ pc' \in [Runs -> Working \cup {"idle", "done"}]
                      /\ at' \in [Runs -> 1..2]
<1>0. Here(r) \in Outputs
  BY HereIsOutput
<1>a. {"preflight", "stage", "backup", "unplace", "copy", "replace", "rollback", "link",
       "unlink", "tidy_backups", "tidy_stages", "idle", "done"}
        = Working \cup {"idle", "done"}
  BY DEF Working, Backing
<1> USE DEF private, aside, paths, history, settings
<1>1. CASE Begin(r)
  <2>1. Control
    BY <1>1, <1>a, GotoTypes DEF Begin
  <2> QED
    BY <1>1, <2>1 DEF Begin, TypeOK
<1>2. CASE Preflight(r)
  <2>1. Control
    BY <1>2, <1>a, GotoTypes DEF Preflight
  <2> QED
    BY <1>2, <2>1 DEF Preflight, TypeOK, Report, Outcomes
<1>3. CASE Stage(r)
  <2>1. Control
    BY <1>3, <1>a, AdvanceTypes DEF Stage
  <2> QED
    BY <1>0, <1>3, <2>1 DEF Stage, TypeOK
<1>4. CASE Backup(r) \/ Unplace(r) \/ Copy(r)
  <2>0. at[r] \in 1..2
    BY DEF TypeOK
  <2>1. CASE Backup(r)
    <3>1. Control
      BY <1>a, <2>0, <2>1, AdvanceTypes, GotoTypes DEF Backup
    <3>2. placeholders' \in [Runs -> SUBSET Outputs]
      <4>1. placeholders' \in {placeholders, [placeholders EXCEPT ![r] = @ \cup {Here(r)}]}
        BY <2>1 DEF Backup
      <4>2. placeholders \in [Runs -> SUBSET Outputs]
        BY DEF TypeOK
      <4> QED
        BY <1>0, <4>1, <4>2
    <3> QED
      BY <2>1, <3>1, <3>2 DEF Backup, TypeOK
  <2>2. CASE Unplace(r)
    <3>1. Control
      BY <1>a, <2>0, <2>2, GotoTypes DEF Unplace
    <3> QED
      BY <1>0, <2>2, <3>1 DEF Unplace, TypeOK
  <2>3. CASE Copy(r)
    <3>1. Control
      BY <1>a, <2>3, GotoTypes DEF Copy
    <3>2. backups' \in [Runs -> [Outputs -> Versions]]
      <4>1. backups' \in {backups, [backups EXCEPT ![r][Here(r)] = files[Here(r)]]}
        BY <2>3 DEF Copy
      <4>2. files[Here(r)] \in Versions /\ backups \in [Runs -> [Outputs -> Versions]]
        BY <1>0 DEF TypeOK
      <4> QED
        BY <1>0, <4>1, <4>2
    <3> QED
      BY <2>3, <3>1, <3>2 DEF Copy, TypeOK
  <2> QED
    BY <1>4, <2>1, <2>2, <2>3
<1>5. CASE Replace(r)
  <2>1. Control
    BY <1>5, <1>a, AdvanceTypes DEF Replace
  <2>2. files' \in [Outputs -> Versions]
    BY <1>0, <1>5 DEF Replace, Versions, TypeOK
  <2>3. outcome' \in [Runs -> Outcomes \cup {"none"}]
    BY <1>5 DEF Replace, TypeOK, Report, Outcomes
  <2>4. /\ stages' \in [Runs -> SUBSET Outputs]
        /\ touched' \in [Runs -> SUBSET Outputs]
    BY <1>0, <1>5 DEF Replace, TypeOK
  <2> QED
    BY <1>5, <2>1, <2>2, <2>3, <2>4, DisplaceTypes DEF Replace, TypeOK
<1>6. CASE Rollback(r)
  <2>1. Control
    BY <1>6, <1>a, GotoTypes DEF Rollback
  <2>2. /\ files' \in [Outputs -> Versions]
        /\ backups' \in [Runs -> [Outputs -> Versions]]
    <3>1. \/ files' = files /\ backups' = backups
          \/ /\ files' = [files EXCEPT ![Here(r)] = backups[r][Here(r)]]
             /\ backups' = [backups EXCEPT ![r][Here(r)] = Absent]
      BY <1>6 DEF Rollback
    <3>2. /\ files \in [Outputs -> Versions]
          /\ backups \in [Runs -> [Outputs -> Versions]]
      BY DEF TypeOK
    <3> QED
      BY <1>0, <3>1, <3>2 DEF Versions
  <2>3. stuck' \in [Runs -> SUBSET Outputs]
    <3>1. \/ stuck' = stuck
          \/ stuck' = [stuck EXCEPT ![r] = @ \cup {Here(r)}]
      BY <1>6 DEF Rollback
    <3>2. stuck \in [Runs -> SUBSET Outputs]
      BY DEF TypeOK
    <3> QED
      BY <1>0, <3>1, <3>2
  <2>4. outcome' \in [Runs -> Outcomes \cup {"none"}]
    BY <1>6 DEF Rollback, TypeOK, Report, Outcomes
  <2> QED
    BY <1>6, <2>1, <2>2, <2>3, <2>4, DisplaceTypes DEF Rollback, TypeOK
<1>7. CASE TidyBackups(r)
  <2>1. Control
    BY <1>7, <1>a, AdvanceTypes DEF TidyBackups
  <2>2. backups' \in [Runs -> [Outputs -> Versions]]
    BY <1>0, <1>7 DEF TidyBackups, Versions, TypeOK
  <2> QED
    BY <1>7, <2>1, <2>2 DEF TidyBackups, TypeOK
<1>8. CASE Link(r)
  <2>1. Control
    BY <1>8, <1>a, AdvanceTypes, GotoTypes DEF Link
  <2>2. files' \in [Outputs -> Versions]
    BY <1>0, <1>8 DEF Link, Versions, TypeOK
  <2>3. touched' \in [Runs -> SUBSET Outputs]
    <3>1. touched' \in {touched, [touched EXCEPT ![r] = @ \cup {Here(r)}]}
      BY <1>8 DEF Link
    <3>2. touched \in [Runs -> SUBSET Outputs]
      BY DEF TypeOK
    <3> QED
      BY <1>0, <3>1, <3>2
  <2>4. outcome' \in [Runs -> Outcomes \cup {"none"}]
    BY <1>8 DEF Link, TypeOK, Report, Outcomes
  <2> QED
    BY <1>8, <2>1, <2>2, <2>3, <2>4, DisplaceTypes DEF Link, TypeOK
<1>9. CASE Unlink(r)
  <2>1. Control
    BY <1>9, <1>a, AdvanceTypes DEF Unlink
  <2>2. files' \in [Outputs -> Versions]
    BY <1>0, <1>9 DEF Unlink, Versions, TypeOK
  <2>3. stuck' \in [Runs -> SUBSET Outputs]
    <3>1. \/ stuck' = stuck
          \/ stuck' = [stuck EXCEPT ![r] = @ \cup {Here(r)}]
      BY <1>9 DEF Unlink
    <3>2. stuck \in [Runs -> SUBSET Outputs]
      BY DEF TypeOK
    <3> QED
      BY <1>0, <3>1, <3>2
  <2>4. outcome' \in [Runs -> Outcomes \cup {"none"}]
    <3>1. outcome \in [Runs -> Outcomes \cup {"none"}]
      BY DEF TypeOK
    <3>2. CASE at[r] = 2
      BY <1>9, <3>1, <3>2 DEF Unlink, Report, Outcomes
    <3>3. CASE at[r] # 2
      BY <1>9, <3>1, <3>3 DEF Unlink
    <3> QED
      BY <3>2, <3>3
  <2> QED
    BY <1>9, <2>1, <2>2, <2>3, <2>4, DisplaceTypes DEF Unlink, TypeOK
<1>10. CASE TidyStages(r)
  <2>1. Control
    BY <1>10, <1>a, AdvanceTypes DEF TidyStages
  <2> QED
    BY <1>10, <2>1 DEF TidyStages, TypeOK
<1> QED
  BY <1>1, <1>2, <1>3, <1>4, <1>5, <1>6, <1>7, <1>8, <1>9, <1>10 DEF Step

LEMMA TypesKept ==
  ASSUME TypeOK, [Next]_vars
  PROVE  TypeOK'
<1> USE DEF private, aside, paths, history, settings
<1>a. {"rollback", "unlink", "tidy_backups", "tidy_stages", "done"}
        \subseteq Working \cup {"idle", "done"}
  BY DEF Working
<1>1. ASSUME NEW r \in Runs, Step(r) PROVE TypeOK'
  BY <1>1, StepTypes
<1>2. ASSUME NEW r \in Runs, Fault(r) PROVE TypeOK'
  <2>1. Finally(r) \in Working \cup {"idle", "done"}
    BY <1>a DEF Finally
  <2>2. /\ pc' \in [Runs -> Working \cup {"idle", "done"}]
        /\ at' \in [Runs -> 1..2]
    BY <1>2, <1>a, <2>1, GotoTypes DEF Fault
  <2> QED
    BY <1>2, <2>2 DEF Fault, Report, TypeOK, Outcomes
<1>3. ASSUME NEW r \in Runs, Interrupt(r) PROVE TypeOK'
  <2>1. Finally(r) \in Working \cup {"idle", "done"}
    BY <1>a DEF Finally
  <2>2. /\ pc' \in [Runs -> Working \cup {"idle", "done"}]
        /\ at' \in [Runs -> 1..2]
    BY <1>3, <2>1, GotoTypes DEF Interrupt
  <2> QED
    BY <1>3, <2>2 DEF Interrupt, Report, TypeOK, Outcomes
<1>4. ASSUME NEW r \in Runs, Kill(r) PROVE TypeOK'
  <2>1. /\ pc' \in [Runs -> Working \cup {"idle", "done"}]
        /\ at' \in [Runs -> 1..2]
    BY <1>4, GotoTypes DEF Kill
  <2> QED
    BY <1>4, <2>1 DEF Kill, Report, TypeOK, Outcomes
<1>5. ASSUME NEW d \in Outputs, Foreign(d) PROVE TypeOK'
  BY <1>5, DisplaceTypes DEF Foreign, TypeOK, Versions
<1>6. ASSUME UNCHANGED vars PROVE TypeOK'
  BY <1>6 DEF vars, TypeOK
<1> QED
  BY <1>1, <1>2, <1>3, <1>4, <1>5, <1>6 DEF Next

\* A step of a run changes nothing of another.
LEMMA RunsAreLocal ==
  ASSUME TypeOK, NEW r \in Runs, Step(r) \/ Fault(r) \/ Interrupt(r) \/ Kill(r)
  PROVE  \A q \in Runs \ {r} :
           /\ pc'[q] = pc[q] /\ at'[q] = at[q] /\ outcome'[q] = outcome[q]
           /\ before'[q] = before[q] /\ stages'[q] = stages[q]
           /\ backups'[q] = backups[q] /\ touched'[q] = touched[q]
           /\ stuck'[q] = stuck[q] /\ placeholders'[q] = placeholders[q]
<1> USE DEF Goto, Advance, Report, private, aside, TypeOK
<1>1. CASE Step(r)
  <2>1. CASE Begin(r) \/ Preflight(r) \/ Stage(r) \/ TidyStages(r)
    BY <2>1 DEF Begin, Preflight, Stage, TidyStages
  <2>2. CASE Backup(r) \/ Unplace(r) \/ Copy(r) \/ Replace(r)
    BY <2>2 DEF Backup, Unplace, Copy, Replace
  <2>3. CASE Rollback(r)
    BY <2>3 DEF Rollback
  <2>4. CASE TidyBackups(r) \/ Link(r)
    BY <2>4 DEF TidyBackups, Link
  <2>5. CASE Unlink(r)
    BY <2>5 DEF Unlink
  <2> QED
    BY <1>1, <2>1, <2>2, <2>3, <2>4, <2>5 DEF Step
<1>2. CASE Fault(r) \/ Interrupt(r) \/ Kill(r)
  BY <1>2 DEF Fault, Interrupt, Kill
<1> QED
  BY <1>1, <1>2

-----------------------------------------------------------------------------
(* The claim.                                                              *)

\* What a step of run r leaves of the claim of another run q.
LEMMA OthersClaim ==
  ASSUME TypeOK, NEW q \in Runs, NEW r \in Runs, q # r, Claim(q),
         pc'[q] = pc[q], at'[q] = at[q], touched'[q] = touched[q],
         outcome'[q] = outcome[q],
         files["stream"] = q => files'["stream"] = q,
         files["truth"] = q => files'["truth"] = q,
         files'["truth"] = q => files["truth"] = q
  PROVE  Claim(q)'
BY DEF Claim

\* A step of a run disturbs no claim but its own, and keeps that.
LEMMA StepKeepsClaim ==
  ASSUME TypeOK, ClaimInv, overwriting = {}, gentle, NEW r \in Runs,
         Step(r) \/ Fault(r) \/ Interrupt(r) \/ Kill(r)
  PROVE  \A q \in Runs : Claim(q)'
<1>b. /\ Here(r) \in Outputs
      /\ at[r] \in 1..2
      /\ at[r] = 1 => Here(r) = "stream"
      /\ at[r] = 2 => Here(r) = "truth"
      /\ r # Absent
  BY HereIsOutput, FilesAssumption DEF TypeOK
<1> USE DEF Goto, Advance, Report, private, aside, paths, history, settings, Replacing,
            Backing
<1>a. /\ Claim(r)
      /\ \A q \in Runs : Claim(q)
  BY DEF ClaimInv
<1>0. /\ ~Backup(r) /\ ~Unplace(r) /\ ~Copy(r)
      /\ ~Replace(r)
      /\ ~Rollback(r)
      /\ ~TidyBackups(r)
  BY <1>a DEF Claim, Backup, Unplace, Copy, Replace, Rollback, TidyBackups
<1>1. \A q \in Runs \ {r} :
        /\ pc'[q] = pc[q] /\ at'[q] = at[q] /\ touched'[q] = touched[q]
        /\ outcome'[q] = outcome[q]
  BY RunsAreLocal
<1>2. CASE Link(r)
  <2>1. /\ files["stream"] # Absent => files'["stream"] = files["stream"]
        /\ files["truth"] # Absent => files'["truth"] = files["truth"]
        /\ files'["truth"] \in {files["truth"], r}
    BY <1>b, <1>2 DEF Link, Exists, TypeOK, Outputs
  <2>2. Claim(r)'
    BY <1>a, <1>b, <1>2 DEF Link, Exists, TypeOK, Claim, Outputs
  <2>3. ASSUME NEW q \in Runs, q # r PROVE Claim(q)'
    BY <1>a, <1>1, <2>1, <2>3, OthersClaim, FilesAssumption
  <2> QED
    BY <2>2, <2>3
<1>3. CASE Unlink(r)
  <2>1. /\ files'["truth"] = files["truth"]
        /\ files["stream"] # r => files'["stream"] = files["stream"]
    BY <1>a, <1>b, <1>3 DEF Unlink, Linked, Claim, TypeOK, Outputs
  <2>2. Claim(r)'
    BY <1>a, <1>b, <1>3 DEF Unlink, Linked, TypeOK, Claim, Outputs
  <2>3. ASSUME NEW q \in Runs, q # r PROVE Claim(q)'
    BY <1>a, <1>1, <2>1, <2>3, OthersClaim, FilesAssumption
  <2> QED
    BY <2>2, <2>3
<1>4. CASE ~Link(r) /\ ~Unlink(r)
  <2>1. files' = files
    BY <1>0, <1>4 DEF Step, Begin, Preflight, Stage, TidyStages, Fault, Interrupt, Kill
  <2>2. Claim(r)'
    <3>1. CASE Step(r)
      <4>1. CASE Begin(r) \/ Preflight(r)
        <5>1. CASE Begin(r)
          BY <1>a, <2>1, <5>1 DEF Begin, TypeOK, Claim
        <5>2. CASE Preflight(r)
          <6>1. /\ pc[r] = "preflight" /\ touched' = touched
                /\ \/ pc'[r] = "stage" /\ outcome' = outcome
                   \/ pc'[r] = "done" /\ outcome'[r] = "refused"
            BY <5>2 DEF Preflight, TypeOK
          <6> QED
            BY <1>a, <2>1, <6>1 DEF Claim
        <5> QED
          BY <4>1, <5>1, <5>2
      <4>2. CASE Stage(r)
        <5>1. /\ pc[r] = "stage" /\ touched'[r] = touched[r] /\ outcome' = outcome
              /\ pc'[r] = "stage" \/ (pc'[r] = "link" /\ at'[r] = 1)
          BY <1>a, <4>2 DEF Stage, Claim, TypeOK
        <5> QED
          BY <1>a, <2>1, <5>1 DEF Claim
      <4>3. CASE TidyStages(r)
        BY <1>a, <1>b, <2>1, <4>3 DEF TidyStages, TypeOK, Claim
      <4> QED
        BY <1>0, <1>4, <3>1, <4>1, <4>2, <4>3 DEF Step
    <3>2. CASE Fault(r)
      BY <1>a, <3>2, <2>1 DEF Fault, Finally, TypeOK, Claim
    <3>3. CASE Interrupt(r)
      BY <1>a, <3>3, <2>1 DEF Interrupt, Finally, Working, TypeOK, Claim
    <3>4. CASE Kill(r)
      BY <1>a, <3>4, <2>1 DEF Kill, Working, TypeOK, Claim
    <3> QED
      BY <3>1, <3>2, <3>3, <3>4
  <2>3. ASSUME NEW q \in Runs, q # r PROVE Claim(q)'
    BY <1>a, <1>1, <2>1, <2>3, OthersClaim, FilesAssumption
  <2> QED
    BY <2>2, <2>3
<1> QED
  BY <1>2, <1>3, <1>4

LEMMA SettingsAreFixed ==
  ASSUME [Next]_vars
  PROVE  overwriting' = overwriting /\ alone' = alone /\ gentle' = gentle
BY DEF Next, Step, Begin, Preflight, Stage, Backup, Unplace, Copy, Replace, Rollback,
       TidyBackups, Link, Unlink, TidyStages, Fault, Interrupt, Kill, Foreign, vars,
       history, settings

LEMMA ClaimKept ==
  ASSUME TypeOK, ClaimInv, [Next]_vars
  PROVE  ClaimInv'
<1> SUFFICES ASSUME overwriting = {}, gentle PROVE \A q \in Runs : Claim(q)'
  BY SettingsAreFixed DEF ClaimInv
<1>2. ASSUME NEW d \in Outputs, Foreign(d) PROVE \A q \in Runs : Claim(q)'
  <2>1. files[d] = Absent /\ files' = [files EXCEPT ![d] = files'[d]]
    BY <1>2 DEF Foreign, TypeOK
  <2>2. files'[d] \in {Old, Absent}
    BY <1>2 DEF Foreign, TypeOK
  <2> QED
    BY <1>2, <2>1, <2>2, FilesAssumption DEF Foreign, ClaimInv, Claim, private, Outputs, TypeOK
<1>3. ASSUME UNCHANGED vars PROVE \A q \in Runs : Claim(q)'
  BY <1>3 DEF vars, ClaimInv, Claim
<1> QED
  BY <1>2, <1>3, StepKeepsClaim DEF Next

-----------------------------------------------------------------------------
(* What a run without --overwrite holds.                                   *)

\* What others do to an output that r has put in place, they displace.
LEMMA OthersDisplace ==
  ASSUME TypeOK, NEW r \in Runs \ overwriting, ~Moves(r), Displace \/ UNCHANGED paths,
         touched'[r] = touched[r], Hold(r)
  PROVE  Hold(r)'
<1>1. pc'[r] = pc[r] /\ at'[r] = at[r]
  BY DEF Moves
<1>2. ASSUME NEW d \in Outputs, d \in displaced[r] \/ files[d] = r
      PROVE  d \in displaced'[r] \/ files'[d] = r
  BY <1>2 DEF Displace, paths, TypeOK
<1>3. touched[r] \subseteq Outputs
  BY DEF TypeOK
<1> QED
  BY <1>1, <1>2, <1>3 DEF Hold

\* Its own steps.
LEMMA StepKeepsHold ==
  ASSUME TypeOK, NEW r \in Runs \ overwriting, Hold(r),
         Step(r) \/ Fault(r) \/ Interrupt(r) \/ Kill(r)
  PROVE  Hold(r)'
<1> USE DEF Goto, Advance, private, aside, paths, history, settings, Replacing, Backing
<1>0. /\ ~Backup(r) /\ ~Unplace(r) /\ ~Copy(r)
      /\ ~Replace(r) /\ ~Rollback(r) /\ ~TidyBackups(r)
  BY DEF Hold, Backup, Unplace, Copy, Replace, Rollback, TidyBackups
<1>1. /\ Here(r) \in Outputs
      /\ at[r] = 1 => Here(r) = "stream"
      /\ at[r] \in 1..2
  BY HereIsOutput DEF TypeOK
<1>2. CASE Begin(r) \/ Preflight(r) \/ Stage(r) \/ TidyStages(r)
  BY <1>1, <1>2 DEF Begin, Preflight, Stage, TidyStages, Hold, TypeOK
<1>3. CASE Link(r)
  BY <1>1, <1>3 DEF Link, Hold, TypeOK, Displace, Moves
<1>4. CASE Unlink(r)
  BY <1>1, <1>4 DEF Unlink, Hold, TypeOK
<1>5. CASE Fault(r)
  BY <1>5 DEF Fault, Finally, Hold, TypeOK, Displace
<1>6. CASE Interrupt(r) \/ Kill(r)
  BY <1>6 DEF Interrupt, Kill, Finally, Hold, TypeOK, Working
<1> QED
  BY <1>0, <1>2, <1>3, <1>4, <1>5, <1>6 DEF Step

\* Every step notes what it displaces.
LEMMA StepDisplaces ==
  ASSUME TypeOK, NEW r \in Runs, Step(r) \/ Fault(r) \/ Interrupt(r) \/ Kill(r)
  PROVE  Displace \/ UNCHANGED paths
BY DEF Step, Begin, Preflight, Stage, Backup, Unplace, Copy, Replace, Rollback,
       TidyBackups, Link, Unlink, TidyStages, Fault, Interrupt, Kill

LEMMA HoldKept ==
  ASSUME TypeOK, HoldInv, [Next]_vars
  PROVE  HoldInv'
<1> SUFFICES ASSUME NEW q \in Runs \ overwriting PROVE Hold(q)'
  BY SettingsAreFixed DEF HoldInv
<1>0. Hold(q)
  BY DEF HoldInv
<1>1. ASSUME NEW r \in Runs, Step(r) \/ Fault(r) \/ Interrupt(r) \/ Kill(r)
      PROVE  Hold(q)'
  <2>1. CASE q = r
    BY <1>0, <1>1, <2>1, StepKeepsHold
  <2>2. CASE q # r
    BY <1>0, <1>1, <2>2, RunsAreLocal, StepDisplaces, OthersDisplace DEF Moves
  <2> QED
    BY <2>1, <2>2
<1>2. ASSUME NEW d \in Outputs, Foreign(d) PROVE Hold(q)'
  BY <1>0, <1>2, OthersDisplace DEF Foreign, private, Moves
<1>3. CASE UNCHANGED vars
  BY <1>0, <1>3, OthersDisplace DEF vars, paths, Moves
<1> QED
  BY <1>1, <1>2, <1>3 DEF Next

-----------------------------------------------------------------------------
\* Every variable keeps its type, for any number of runs.
THEOREM TypeCorrect == Spec => []TypeOK
<1>1. Init => TypeOK
  BY InitInv DEF Inv
<1>2. TypeOK /\ [Next]_vars => TypeOK'
  BY TypesKept
<1> QED
  BY <1>1, <1>2, PTL DEF Spec

LEMMA Invariant == Spec => []Inv
<1>1. Inv /\ [Next]_vars => Inv'
  BY TypesKept, ClaimKept, HoldKept DEF Inv
<1> QED
  BY InitInv, <1>1, PTL DEF Spec

\* However many runs without --overwrite overlap, fail, are interrupted or
\* killed, while other programs only create files: never the stream of one
\* beside the truth of another, and a pair reported as published stays.
THEOREM RivalsAreKeptApart == Spec => []RivalsNeverMix
<1>1. Inv => RivalsNeverMix
  <2> SUFFICES ASSUME Inv, overwriting = {}, gentle PROVE RivalsNeverMix
    BY DEF RivalsNeverMix
  <2>1. \A r \in Runs : Claim(r)
    BY DEF Inv, ClaimInv
  <2> QED
    BY <2>1 DEF RivalsNeverMix, Claim, Said, Outputs
<1> QED
  BY Invariant, <1>1, PTL

\* Among any number of runs, with --overwrite or not, and any other programs:
\* a run without --overwrite replaces or removes the file of somebody else only
\* at a name where its own output was taken away, also in its clean-up.
THEOREM NothingForeignIsLost == Spec => OthersAreKept
<1>1. Inv /\ [Next]_vars =>
        [\A r \in Runs \ overwriting, d \in Outputs :
           Moves(r) /\ d \notin displaced[r] /\ files[d] \notin {Absent, r}
           => files'[d] = files[d]]_vars
  <2> SUFFICES ASSUME Inv, Next, NEW r \in Runs \ overwriting, NEW d \in Outputs,
                      Moves(r), d \notin displaced[r], files[d] \notin {Absent, r}
               PROVE  files'[d] = files[d]
    OBVIOUS
  <2> USE DEF Inv
  <2>1. Hold(r)
    BY DEF HoldInv
  <2>2. ~\E e \in Outputs : Foreign(e)
    BY DEF Foreign, Moves
  <2>3. Step(r) \/ Fault(r) \/ Interrupt(r) \/ Kill(r)
    BY <2>2, RunsAreLocal DEF Next, Moves
  <2>4. CASE Link(r)
    BY <2>4 DEF Link, Exists, TypeOK
  <2>5. CASE Unlink(r)
    BY <2>1, <2>5, HereIsOutput DEF Unlink, Linked, Hold, TypeOK
  <2>6. CASE Step(r) /\ ~Link(r) /\ ~Unlink(r)
    BY <2>1, <2>6
       DEF Step, Begin, Preflight, Stage, Backup, Unplace, Copy, Replace, Rollback,
           TidyBackups, TidyStages, Hold, Replacing, Backing, paths
  <2>7. CASE Fault(r) \/ Interrupt(r) \/ Kill(r)
    BY <2>7 DEF Fault, Interrupt, Kill, paths
  <2> QED
    BY <2>3, <2>4, <2>5, <2>6, <2>7
<1> QED
  BY Invariant, <1>1, PTL DEF Spec, OthersAreKept

-----------------------------------------------------------------------------
(***************************************************************************)
(* A run that is alone.  What it leaves behind is its own affair (Tidy);   *)
(* what the two paths hold can be told from the step it has come to, as    *)
(* long as nobody else touches them (Lone).                                *)
(***************************************************************************)
Early == {"idle", "preflight", "stage"}

\* The outcomes that promise that nothing is left behind.
TidyOutcomes == {"published", "restored", "unkept"}

NoBackup(r) == \A d \in Outputs : backups[r][d] = Absent

Tidy(r) ==
  /\ pc[r] \in Early => touched[r] = {} /\ stuck[r] = {}
  /\ pc[r] \in Early \cup {"link", "unlink"} => NoBackup(r)
  /\ pc[r] \in Backing =>
       backups[r]["truth"] = Absent /\ (at[r] = 1 => backups[r]["stream"] = Absent)
  /\ pc[r] \in Backing \cup {"replace", "link"} => stuck[r] = {}
  /\ pc[r] \in Early \cup {"backup", "copy", "replace", "link", "unlink"} =>
       placeholders[r] = {}
  /\ pc[r] = "unplace" => placeholders[r] \subseteq {Here(r)}
  /\ outcome[r] \in {"published", "unkept"} => placeholders[r] = {}
  /\ outcome[r] # "none" => pc[r] \in {"tidy_backups", "tidy_stages", "done"}
  /\ outcome[r] \in TidyOutcomes =>
       /\ pc[r] = "tidy_backups" =>
            stuck[r] = {} /\ (at[r] = 2 => backups[r]["stream"] = Absent)
       /\ pc[r] \in {"tidy_stages", "done"} => NoBackup(r)
       /\ pc[r] = "tidy_stages" /\ at[r] = 2 => "stream" \notin stages[r]
       /\ pc[r] = "done" => stages[r] = {}

Former(r, d) == files[d] = before[r][d]

AllNew(r) == \A d \in Outputs : files[d] = r

\* Each former output is in place, or could not be restored and is kept.
Rescued(r) ==
  \A d \in Outputs : Former(r, d) \/ (d \in stuck[r] /\ backups[r][d] = before[r][d])

\* There were no former outputs.
Vacant(r) == \A d \in Outputs : before[r][d] = Absent

\* The weaker fact that a kill leaves.
Recoverable(r) ==
  \A d \in Outputs :
    before[r][d] # Absent => before[r][d] \in {files[d], backups[r][d]}

Lone(r) ==
  /\ pc[r] \in Early => \A d \in Outputs : Former(r, d)
  /\ pc[r] \in Backing =>
       /\ touched[r] = {}
       /\ \A d \in Outputs : Former(r, d)
       /\ at[r] = 2 => backups[r]["stream"] = before[r]["stream"]
  /\ pc[r] = "replace" =>
       /\ \A d \in Outputs : backups[r][d] = before[r][d]
       /\ Former(r, "truth")
       /\ at[r] = 1 => touched[r] = {} /\ Former(r, "stream")
       /\ at[r] = 2 => touched[r] = {"stream"} /\ files["stream"] = r
  /\ pc[r] = "rollback" =>
       /\ stuck[r] = {}
       /\ "truth" \notin touched[r]
       /\ \A d \in Outputs :
            IF d \in touched[r] THEN backups[r][d] = before[r][d] ELSE Former(r, d)
  /\ pc[r] \in {"link", "unlink"} \/ (pc[r] = "stage" /\ r \notin overwriting) => Vacant(r)
  /\ pc[r] = "link" =>
       /\ files["truth"] = Absent
       /\ at[r] = 1 => touched[r] = {} /\ files["stream"] = Absent
       /\ at[r] = 2 => touched[r] = {"stream"} /\ files["stream"] = r
  /\ pc[r] = "unlink" =>
       /\ files["truth"] = Absent /\ "truth" \notin touched[r]
       /\ at[r] = 1 => stuck[r] = {} /\ ("stream" \notin touched[r] => files["stream"] = Absent)
       /\ at[r] = 2 /\ "stream" \notin stuck[r] => files["stream"] = Absent
  /\ outcome[r] = "published" => AllNew(r)
  /\ outcome[r] \in {"restored", "unkept", "failed", "refused"} =>
       \A d \in Outputs : Former(r, d)
  /\ r \notin stopped /\ pc[r] \in {"tidy_backups", "tidy_stages"} =>
       AllNew(r) \/ Rescued(r) \/ Vacant(r)
  /\ r \notin stopped /\ pc[r] = "done" => AllNew(r) \/ Recoverable(r)

AloneInv ==
  alone =>
    /\ \A q \in Runs : pc[q] \in Working => q = latest
    /\ Lone(latest)

TidyInv == \A r \in Runs : Tidy(r)

LEMMA TidyInit == Init => TidyInv
<1> SUFFICES ASSUME Init, NEW r \in Runs PROVE Tidy(r)
  BY DEF TidyInv
<1>1. pc[r] = "idle" /\ outcome[r] = "none" /\ touched[r] = {} /\ stuck[r] = {}
  BY DEF Init
<1>2. NoBackup(r)
  BY DEF Init, NoBackup
<1> QED
  BY <1>1, <1>2 DEF Init, Tidy, TidyOutcomes, Early, Backing

LEMMA AloneInit == Init => AloneInv
<1> SUFFICES ASSUME Init PROVE AloneInv
  OBVIOUS
<1>1. \A r \in Runs : /\ pc[r] = "idle" /\ outcome[r] = "none"
                      /\ \A d \in Outputs : files[d] = before[r][d]
  BY DEF Init
<1>2. \A r \in Runs : Lone(r)
  BY <1>1 DEF Lone, Early, Former, Backing
<1> QED
  BY <1>1, <1>2 DEF Init, AloneInv, Working, Backing

LEMMA StepKeepsTidy ==
  ASSUME TypeOK, NEW r \in Runs, Tidy(r), Step(r) \/ Fault(r) \/ Interrupt(r) \/ Kill(r)
  PROVE  Tidy(r)'
<1> USE DEF Goto, Advance, Report, private, aside, TypeOK, Tidy, TidyOutcomes, Early,
            NoBackup, Outputs, Backing
<1>0. /\ at[r] = 1 => Here(r) = "stream"
      /\ at[r] = 2 => Here(r) = "truth"
      /\ at[r] \in 1..2
  BY HereIsOutput
<1>1. CASE Begin(r) \/ Preflight(r)
  BY <1>1 DEF Begin, Preflight
<1>2. CASE Stage(r)
  BY <1>0, <1>2 DEF Stage
<1>3. CASE Backup(r) \/ Unplace(r) \/ Copy(r)
  <2>1. CASE Backup(r)
    BY <1>0, <2>1 DEF Backup, Here
  <2>2. CASE Unplace(r)
    BY <1>0, <2>2 DEF Unplace
  <2>3. CASE Copy(r)
    BY <1>0, <2>3 DEF Copy
  <2> QED
    BY <1>3, <2>1, <2>2, <2>3
<1>4. CASE Replace(r)
  BY <1>0, <1>4 DEF Replace
<1>5. CASE Rollback(r)
  BY <1>0, <1>5 DEF Rollback
<1>6. CASE TidyBackups(r)
  BY <1>0, <1>6 DEF TidyBackups
<1>7. CASE Link(r)
  BY <1>0, <1>7 DEF Link
<1>8. CASE Unlink(r)
  BY <1>0, <1>8 DEF Unlink
<1>9. CASE TidyStages(r)
  BY <1>0, <1>9 DEF TidyStages
<1>10. CASE Fault(r)
  BY <1>10 DEF Fault, Finally
<1>11. CASE Interrupt(r)
  BY <1>11 DEF Interrupt, Finally, Working
<1>12. CASE Kill(r)
  BY <1>12 DEF Kill, Working
<1> QED
  BY <1>1, <1>2, <1>3, <1>4, <1>5, <1>6, <1>7, <1>8, <1>9, <1>10, <1>11, <1>12 DEF Step

LEMMA TidyKept ==
  ASSUME TypeOK, TidyInv, [Next]_vars
  PROVE  TidyInv'
<1>1. ASSUME NEW r \in Runs, Step(r) \/ Fault(r) \/ Interrupt(r) \/ Kill(r)
      PROVE  TidyInv'
  <2>1. Tidy(r)'
    BY <1>1, StepKeepsTidy DEF TidyInv
  <2>2. ASSUME NEW q \in Runs \ {r} PROVE Tidy(q)'
    BY <1>1, RunsAreLocal DEF TidyInv, Tidy, NoBackup, Here
  <2> QED
    BY <2>1, <2>2 DEF TidyInv
<1>2. ASSUME NEW d \in Outputs, Foreign(d) PROVE TidyInv'
  BY <1>2 DEF Foreign, private, aside, TidyInv, Tidy, NoBackup, Here
<1>3. CASE UNCHANGED vars
  BY <1>3 DEF vars, TidyInv, Tidy, NoBackup, Here
<1> QED
  BY <1>1, <1>2, <1>3 DEF Next

\* A run that begins alone finds the two paths as it notes them.
LEMMA BeginIsLone ==
  ASSUME TypeOK, NEW r \in Runs, Tidy(r), Begin(r)
  PROVE  Lone(r)'
BY DEF Begin, Goto, TypeOK, Tidy, TidyOutcomes, Lone, Former, Early, Outputs, Outcomes,
       paths, Backing

\* Alone, the two paths hold what the step the run has come to says.
LEMMA StepKeepsLone ==
  ASSUME TypeOK, NEW r \in Runs, Tidy(r), Lone(r), pc[r] \in Working,
         Step(r) \/ Fault(r) \/ Interrupt(r) \/ Kill(r)
  PROVE  Lone(r)'
<1> USE DEF Goto, Advance, Report, private, aside, paths, history, settings, TypeOK,
            Early, Outputs, Backing
<1>0. /\ at[r] = 1 => Here(r) = "stream"
      /\ at[r] = 2 => Here(r) = "truth"
      /\ at[r] \in 1..2
  BY HereIsOutput
<1>1. CASE Preflight(r)
  BY <1>1 DEF Preflight, Tidy, Lone, Former, Vacant, Recoverable
<1>2. CASE Stage(r)
  BY <1>0, <1>2 DEF Stage, Tidy, Lone, Former, Vacant
<1>3. CASE Backup(r) \/ Unplace(r) \/ Copy(r)
  <2>1. CASE Backup(r)
    BY <1>0, <2>1 DEF Backup, Exists, Tidy, Lone, Former
  <2>2. CASE Unplace(r)
    BY <1>0, <2>2 DEF Unplace, Tidy, Lone, Former
  <2>3. CASE Copy(r)
    BY <1>0, <2>3 DEF Copy, Tidy, Lone, Former
  <2> QED
    BY <1>3, <2>1, <2>2, <2>3
<1>4. CASE Replace(r)
  BY <1>0, <1>4 DEF Replace, Tidy, Lone, Former, AllNew
<1>5. CASE Rollback(r)
  <2>1. /\ pc[r] = "rollback" /\ outcome[r] = "none" /\ stuck[r] = {}
        /\ "truth" \notin touched[r]
        /\ \A d \in Outputs :
             IF d \in touched[r] THEN backups[r][d] = before[r][d] ELSE Former(r, d)
    BY <1>5 DEF Rollback, Tidy, Lone
  <2>2. before' = before /\ touched' = touched /\ stopped' = stopped
    BY <1>5 DEF Rollback
  <2>3. CASE at[r] = 2
    <3>1. /\ files' = files /\ backups' = backups /\ stuck' = stuck
          /\ pc'[r] = "rollback" /\ outcome'[r] = "none"
      BY <1>0, <1>5, <2>1, <2>3 DEF Rollback
    <3> QED
      BY <2>1, <2>2, <3>1 DEF Lone, Former
  <2>4. CASE at[r] = 1
    <3>1. pc'[r] = "tidy_backups" /\ outcome'[r] = IF stuck'[r] = {} THEN "restored" ELSE "recovery"
      BY <1>0, <1>5, <2>4 DEF Rollback
    <3>2. Former(r, "truth") /\ files'["truth"] = files["truth"]
      BY <1>0, <1>5, <2>1, <2>4 DEF Rollback
    <3>3. \/ files'["stream"] = before[r]["stream"] /\ stuck'[r] = {}
          \/ stuck'[r] = {"stream"} /\ backups'[r]["stream"] = before[r]["stream"]
      BY <1>0, <1>5, <2>1, <2>4 DEF Rollback, Former
    <3> QED
      BY <2>2, <3>1, <3>2, <3>3 DEF Lone, Former, Rescued
  <2> QED
    BY <1>0, <2>3, <2>4
<1>6. CASE TidyBackups(r)
  BY <1>0, <1>6 DEF TidyBackups, Tidy, Lone, Former, AllNew, Rescued, Vacant
<1>7. CASE Link(r)
  BY <1>0, <1>7 DEF Link, Exists, Tidy, Lone, Former, AllNew, Vacant
<1>8. CASE Unlink(r)
  BY <1>0, <1>8 DEF Unlink, Linked, Tidy, Lone, Former, Vacant
<1>9. CASE TidyStages(r)
  BY <1>0, <1>9 DEF TidyStages, Tidy, Lone, Former, AllNew, Rescued, Vacant, Recoverable
<1>10. CASE Fault(r)
  BY <1>0, <1>10 DEF Fault, Finally, Tidy, Lone, Former, AllNew, Rescued, Vacant, Recoverable
<1>11. CASE Interrupt(r)
  BY <1>11 DEF Interrupt, Finally, Working, Tidy, Lone
<1>12. CASE Kill(r)
  BY <1>0, <1>12 DEF Kill, Working, Tidy, Lone, Former, AllNew, Rescued, Vacant, Recoverable
<1>13. ~Begin(r)
  BY DEF Begin, Working
<1> QED
  BY <1>1, <1>2, <1>3, <1>4, <1>5, <1>6, <1>7, <1>8, <1>9, <1>10, <1>11, <1>12, <1>13 DEF Step

\* What only Begin changes.
LEMMA OnlyBeginIsLatest ==
  ASSUME NEW r \in Runs, Step(r) \/ Fault(r) \/ Interrupt(r) \/ Kill(r)
  PROVE  /\ alone' = alone
         /\ Begin(r) \/ (pc[r] \in Working /\ latest' = latest)
<1> USE DEF private, history, settings, Working, Backing
<1>1. CASE Step(r)
  BY <1>1 DEF Step, Begin, Preflight, Stage, Backup, Unplace, Copy, Replace, Rollback,
              TidyBackups, Link, Unlink, TidyStages
<1>2. CASE Fault(r) \/ Interrupt(r) \/ Kill(r)
  BY <1>2 DEF Fault, Interrupt, Kill
<1> QED
  BY <1>1, <1>2

LEMMA AloneKept ==
  ASSUME TypeOK, TidyInv, AloneInv, [Next]_vars
  PROVE  AloneInv'
<1>1. ASSUME NEW r \in Runs, Step(r) \/ Fault(r) \/ Interrupt(r) \/ Kill(r)
      PROVE  AloneInv'
  <2>1. SUFFICES ASSUME alone
                 PROVE  /\ \A q \in Runs : pc'[q] \in Working => q = latest'
                        /\ Lone(latest)'
    BY <1>1, OnlyBeginIsLatest DEF AloneInv
  <2>2. Tidy(r) /\ \A q \in Runs \ {r} : pc'[q] = pc[q]
    BY <1>1, RunsAreLocal DEF TidyInv
  <2>3. CASE Begin(r)
    <3>1. latest' = r /\ Lone(r)'
      BY <2>2, <2>3, BeginIsLone DEF Begin
    <3>2. Lone(latest)'
      BY <3>1 DEF Lone, Former, AllNew, Rescued, Vacant, Recoverable
    <3>3. \A q \in Runs : pc[q] \notin Working
      BY <2>1, <2>3 DEF Begin
    <3> QED
      BY <2>2, <3>1, <3>2, <3>3
  <2>4. CASE pc[r] \in Working /\ latest' = latest
    <3>1. latest = r /\ Lone(r) /\ \A q \in Runs : pc[q] \in Working => q = r
      BY <2>1, <2>4 DEF AloneInv
    <3>2. Lone(r)'
      BY <1>1, <2>2, <2>4, <3>1, StepKeepsLone
    <3>3. Lone(latest)'
      BY <2>4, <3>1, <3>2 DEF Lone, Former, AllNew, Rescued, Vacant, Recoverable
    <3> QED
      BY <2>2, <2>4, <3>1, <3>3
  <2> QED
    BY <1>1, <2>3, <2>4, OnlyBeginIsLatest
<1>2. ASSUME NEW d \in Outputs, Foreign(d) PROVE AloneInv'
  BY <1>2 DEF Foreign, history, settings, AloneInv
<1>3. CASE UNCHANGED vars
  BY <1>3 DEF vars, AloneInv, Lone, Former, AllNew, Rescued, Vacant, Recoverable
<1> QED
  BY <1>1, <1>2, <1>3 DEF Next

LEMMA AloneIsInvariant == Spec => [](TypeOK /\ TidyInv /\ AloneInv)
<1>1. Init => TypeOK /\ TidyInv /\ AloneInv
  BY InitInv, TidyInit, AloneInit DEF Inv
<1>2. TypeOK /\ TidyInv /\ AloneInv /\ [Next]_vars => (TypeOK /\ TidyInv /\ AloneInv)'
  BY TypesKept, TidyKept, AloneKept
<1> QED
  BY <1>1, <1>2, PTL DEF Spec

\* A run that nobody disturbs reports what it has done to the pair, whatever
\* failed on the way.
THEOREM ReportsAreTrue == Spec => []ReportIsTrue
<1>1. TypeOK /\ TidyInv /\ AloneInv => ReportIsTrue
  <2> SUFFICES ASSUME TypeOK, TidyInv, AloneInv, alone, NEW r \in Runs, NEW d \in Outputs
               PROVE  /\ r = latest /\ Said(r, {"published"}) => files[d] = r
                      /\ r = latest /\ Said(r, {"restored", "unkept", "failed", "refused"})
                         => files[d] = before[r][d]
                      /\ Said(r, {"published", "restored", "unkept"})
                         => stages[r] = {} /\ backups[r][d] = Absent
                      /\ Said(r, {"published", "unkept"}) => placeholders[r] = {}
    BY DEF ReportIsTrue
  <2>1. Tidy(r) /\ Lone(latest)
    BY DEF TidyInv, AloneInv
  <2> QED
    BY <2>1 DEF Said, Tidy, TidyOutcomes, NoBackup, Lone, AllNew, Former
<1> QED
  BY AloneIsInvariant, <1>1, PTL

\* Whatever fails, and wherever the run is killed: as long as it was not
\* interrupted, a former output is in place, in its backup, or replaced by a
\* complete new pair.
THEOREM PreviousIsNotLost == Spec => []PreviousIsRecoverable
<1>1. TypeOK /\ TidyInv /\ AloneInv => PreviousIsRecoverable
  <2> SUFFICES ASSUME TypeOK, TidyInv, AloneInv, alone, latest \notin stopped,
                      NEW d \in Outputs, before[latest][d] # Absent
               PROVE  \/ before[latest][d] \in {files[d], backups[latest][d]}
                      \/ \A e \in Outputs : files[e] = latest
    BY DEF PreviousIsRecoverable
  <2>1. Lone(latest) /\ latest \in Runs
    BY DEF AloneInv, TypeOK
  <2>2. pc[latest] \in Early \cup Backing \cup
          {"replace", "rollback", "link", "unlink", "tidy_backups", "tidy_stages", "done"}
    BY DEF TypeOK, Working, Early
  <2>3. CASE pc[latest] \in Early \cup Backing \cup {"replace", "rollback"}
    BY <2>1, <2>3 DEF Lone, Former, Early, Backing
  <2>4. CASE pc[latest] \in {"link", "unlink"}
    BY <2>1, <2>4 DEF Lone, Vacant
  <2>5. CASE pc[latest] \in {"tidy_backups", "tidy_stages"}
    BY <2>1, <2>5 DEF Lone, AllNew, Rescued, Vacant, Former
  <2>6. CASE pc[latest] = "done"
    BY <2>1, <2>6 DEF Lone, AllNew, Recoverable
  <2> QED
    BY <2>2, <2>3, <2>4, <2>5, <2>6
<1> QED
  BY AloneIsInvariant, <1>1, PTL

-----------------------------------------------------------------------------
(***************************************************************************)
(* The recorders.                                                          *)
(***************************************************************************)
\* The first n targets are new, the others as they were.
ReplacedUpTo(n) ==
  \A t \in Targets : committed[t] = IF t <= n THEN "new" ELSE former[t]

\* A transaction holds the former files of the first n targets.
SavedUpTo(n) ==
  transactional => \A t \in Targets : t \in copies <=> t <= n /\ former[t] = "old"

\* What holds while targets are replaced in order.
Forward ==
  /\ step \in {"preflight", "stage", "prepare", "backup", "replace", "note", "sync",
             "validate"} => unrestored = {}
  /\ step \in {"preflight", "stage", "prepare"} =>
       target = 1 /\ ReplacedUpTo(0) /\ SavedUpTo(0) /\ published = {}
  /\ step = "backup" =>
       /\ transactional
       /\ ReplacedUpTo(target - 1) /\ SavedUpTo(target - 1) /\ published = 1 .. target - 1
  /\ step = "replace" =>
       ReplacedUpTo(target - 1) /\ SavedUpTo(target) /\ published = 1 .. target - 1
  /\ step = "note" => ReplacedUpTo(target) /\ SavedUpTo(target) /\ published = 1 .. target - 1
  /\ step \in {"sync", "validate"} =>
       ReplacedUpTo(Total) /\ SavedUpTo(Total) /\ published = Targets

\* What holds while they are restored, backwards: a published target is still
\* new if the loop has not come to it or could not restore it.
Backward ==
  step = "rollback" =>
    /\ transactional
    /\ \A t \in unrestored : t > target
    /\ \A s, t \in Targets : s < t /\ t \in published => s \in published
    /\ \A t \in Targets :
         committed[t] = IF t \in published /\ (t <= target \/ t \in unrestored)
                      THEN "new" ELSE former[t]
    /\ \A t \in copies : former[t] = "old"
    /\ \A t \in Targets : committed[t] = "new" /\ former[t] = "old" => t \in copies

\* What holds when all is replaced, restored or retained.
Settled ==
  transactional =>
    /\ step = "retain" =>
         /\ unrestored # {}
         /\ \A t \in Targets : former[t] = "old" => committed[t] = "old" \/ t \in copies
    /\ step = "clean" =>
         \/ committed = former
         \/ result # "failed" /\ \A t \in Targets : committed[t] = "new"
         \/ result # "failed" /\ (place = "recovery" \/ preserve)

Phase == /\ Forward /\ Backward /\ Settled
         /\ NewIsPrefix /\ OldBytesExist /\ FailureRestores

RecorderInv == RecorderTypeOK /\ (~interrupted => Phase)

-----------------------------------------------------------------------------
LEMMA RecorderTypes ==
  ASSUME RecorderTypeOK, [RecorderNext]_recorderVars
  PROVE  RecorderTypeOK'
<1> USE TotalAssumption DEF RecorderTypeOK, Targets, Recording, Publishing,
   Proceed, Quiet, record, transaction
<1>1. CASE Prepare
  BY <1>1 DEF Prepare
<1>2. CASE CopyBackup
  BY <1>2 DEF CopyBackup
<1>3. CASE ReplaceTarget
  BY <1>3 DEF ReplaceTarget
<1>4. CASE Note
  BY <1>4 DEF Note
<1>5. CASE Finish
  BY <1>5 DEF Finish
<1>6. CASE Restore
  <2>1. target \in Targets /\ Backwards(target) \in Targets
    BY DEF Backwards
  <2>2. committed' \in [Targets -> {"absent", "old", "new"}]
    BY <1>6, <2>1 DEF Restore
  <2>3. unrestored' \in SUBSET Targets /\ copies' \in SUBSET Targets
    BY <1>6, <2>1 DEF Restore
  <2>4. target' \in Targets /\ step' \in Recording
    BY <1>6 DEF Restore
  <2> QED
    BY <1>6, <2>2, <2>3, <2>4 DEF Restore
<1>7. CASE Retain
  BY <1>7 DEF Retain
<1>8. CASE Clean
  BY <1>8 DEF Clean
<1>9. CASE RecorderFault \/ RecorderInterrupt
  <2>1. step' \in Recording \cup {"done"} /\ target' \in Targets
    BY <1>9 DEF RecorderFault, RecorderInterrupt, Unwind
  <2> QED
    BY <1>9, <2>1 DEF RecorderFault, RecorderInterrupt
<1>10. CASE RecorderKill
  BY <1>10 DEF RecorderKill
<1>11. CASE UNCHANGED recorderVars
  BY <1>11 DEF recorderVars
<1> QED
  BY <1>1, <1>2, <1>3, <1>4, <1>5, <1>6, <1>7, <1>8, <1>9, <1>10, <1>11 DEF RecorderNext

\* One restoration moves the line between new and former targets by one.
LEMMA RestoreKeepsPhase ==
  ASSUME RecorderTypeOK, Phase, ~interrupted, Restore
  PROVE  Phase'
<1> USE TotalAssumption DEF Targets
<1>0. /\ step = "rollback" /\ Backwards(target) = target /\ target \in Targets
      /\ transactional' = transactional /\ published' = published
      /\ former' = former /\ interrupted' = interrupted /\ transactional
      /\ step' \in {"rollback", "clean", "retain"}
  BY DEF Restore, Backwards, Quiet, record, Proceed, RecorderTypeOK, Phase,
     Backward
<1>1. /\ \A s, t \in Targets : s < t /\ t \in published => s \in published
      /\ \A t \in Targets :
           committed[t] = IF t \in published /\ (t <= target \/ t \in unrestored)
                        THEN "new" ELSE former[t]
      /\ \A t \in copies : former[t] = "old"
      /\ \A t \in Targets : committed[t] = "new" /\ former[t] = "old" => t \in copies
      /\ \A t \in Targets : former[t] \in {"absent", "old"}
      /\ committed \in [Targets -> {"absent", "old", "new"}]
      /\ former \in [Targets -> {"absent", "old"}]
      /\ unrestored \subseteq Targets
      /\ \A t \in unrestored : t > target
  BY <1>0 DEF Phase, Backward, RecorderTypeOK
<1>2. \/ /\ target \in published /\ unrestored' = unrestored /\ copies' = copies \ {target}
         /\ committed' = [committed EXCEPT ![target] = IF target \in copies THEN "old" ELSE "absent"]
      \/ /\ target \in published /\ unrestored' = unrestored \cup {target}
         /\ committed' = committed /\ copies' = copies
      \/ /\ target \notin published
         /\ committed' = committed /\ copies' = copies /\ unrestored' = unrestored
  BY <1>0 DEF Restore
<1>3. /\ \A t \in Targets :
           committed'[t] = IF t \in published /\ (t < target \/ t \in unrestored')
                         THEN "new" ELSE former[t]
      /\ \A t \in copies' : former[t] = "old"
      /\ \A t \in Targets : committed'[t] = "new" /\ former[t] = "old" => t \in copies'
  <2>1. target \notin unrestored /\ \A t \in Targets : t <= target <=> t < target \/ t = target
    BY <1>0, <1>1
  <2>2. CASE target \in published /\ unrestored' = unrestored
    BY <1>0, <1>1, <1>2, <2>1, <2>2
  <2>3. CASE target \in published /\ unrestored' = unrestored \cup {target}
    BY <1>0, <1>1, <1>2, <2>1, <2>3
  <2>4. CASE target \notin published
    BY <1>0, <1>1, <1>2, <2>1, <2>4
  <2> QED
    BY <1>2, <2>2, <2>3, <2>4
<1>4. CASE target > 1
  <2>1. /\ step' = "rollback" /\ target' = target - 1
        /\ \A t \in Targets : t <= target' <=> t < target
    BY <1>0, <1>4 DEF Restore
  <2>2. Backward'
    <3>1. \A t \in unrestored' : t > target'
      <4>1. unrestored' \subseteq unrestored \cup {target}
        BY <1>2
      <4>2. /\ target \in Nat /\ unrestored \subseteq Nat
            /\ \A t \in unrestored : t > target
        BY <1>0, <1>1
      <4> QED
        BY <2>1, <4>1, <4>2
    <3>2. \A t \in Targets :
            committed'[t] = IF t \in published' /\ (t <= target' \/ t \in unrestored')
                          THEN "new" ELSE former'[t]
      BY <1>0, <1>3, <2>1
    <3> QED
      BY <1>0, <1>1, <1>3, <3>1, <3>2 DEF Backward
  <2>3. NewIsPrefix' /\ OldBytesExist'
    BY <1>0, <1>1, <1>3, <2>1 DEF NewIsPrefix, OldBytesExist
  <2> QED
    BY <2>1, <2>2, <2>3 DEF Phase, Forward, Settled, FailureRestores
<1>5. CASE ~(target > 1)
  BY <1>0, <1>1, <1>3, <1>5
     DEF Restore, Quiet, Proceed, Phase, Forward, Backward, Settled,
         NewIsPrefix, OldBytesExist, FailureRestores
<1> QED
  BY <1>4, <1>5

LEMMA PhaseKept ==
  ASSUME RecorderTypeOK, Phase, ~interrupted, [RecorderNext]_recorderVars,
         ~interrupted'
  PROVE  Phase'
<1> USE TotalAssumption
<1>0. /\ target \in 1 .. Total
      /\ committed \in [Targets -> {"absent", "old", "new"}]
      /\ former \in [Targets -> {"absent", "old"}]
      /\ copies \subseteq Targets
  BY DEF RecorderTypeOK, Targets
<1>1. CASE Prepare
  <2>1. /\ target = 1 /\ ReplacedUpTo(0) /\ SavedUpTo(0) /\ published = {} /\ unrestored = {}
        /\ step' \in {"stage", "prepare", "backup", "replace"}
        /\ step' = "backup" => transactional
        /\ step' = "replace" => ~transactional
        /\ UNCHANGED <<target, committed, transaction, record>>
    BY <1>1 DEF Prepare, Proceed, Quiet, Phase, Forward
  <2>2. Forward'
    BY <1>0, <2>1
       DEF record, transaction, Forward, ReplacedUpTo, SavedUpTo, Targets
  <2>3. NewIsPrefix' /\ OldBytesExist'
    BY <1>0, <2>1
       DEF record, transaction, NewIsPrefix, OldBytesExist,
           ReplacedUpTo, Targets
  <2> QED
    BY <2>1, <2>2, <2>3 DEF Phase, Backward, Settled, FailureRestores
<1>2. CASE CopyBackup
  BY <1>0, <1>2
     DEF CopyBackup, Proceed, Quiet, record, Phase, Forward, Backward,
         Settled, NewIsPrefix, OldBytesExist, FailureRestores, ReplacedUpTo,
         SavedUpTo, Targets
<1>3. CASE ReplaceTarget
  BY <1>0, <1>3
     DEF ReplaceTarget, Proceed, Quiet, record, transaction, Phase, Forward,
         Backward, Settled, NewIsPrefix, OldBytesExist, FailureRestores,
         ReplacedUpTo, SavedUpTo, Targets
<1>4. CASE Note
  BY <1>0, <1>4
     DEF Note, Proceed, Quiet, record, Phase, Forward, Backward, Settled,
         NewIsPrefix, OldBytesExist, FailureRestores, ReplacedUpTo,
         SavedUpTo, Targets
<1>5. CASE Finish
  BY <1>0, <1>5
     DEF Finish, Proceed, record, transaction, Phase, Forward, Backward,
         Settled, NewIsPrefix, OldBytesExist, FailureRestores, ReplacedUpTo,
         SavedUpTo, Targets
<1>6. CASE Restore
  BY <1>6, RestoreKeepsPhase
<1>7. CASE Retain
  BY <1>0, <1>7
     DEF Retain, Proceed, record, transaction, Phase, Forward, Backward,
         Settled, NewIsPrefix, OldBytesExist, FailureRestores
<1>8. CASE Clean
  BY <1>0, <1>8
     DEF Clean, Proceed, Quiet, record, Phase, Forward, Backward, Settled,
         NewIsPrefix, OldBytesExist, FailureRestores
<1>9. CASE RecorderFault
  <2>1. /\ UNCHANGED <<committed, copies, published, unrestored, transactional, former>>
        /\ unrestored = {}
        /\ step \in {"preflight", "stage", "prepare", "backup", "replace", "sync",
                   "validate"}
    BY <1>9 DEF RecorderFault, Quiet, record, transaction, Phase, Forward,
       Recording, Publishing
  <2>2. NewIsPrefix' /\ OldBytesExist'
    BY <1>9, <2>1 DEF RecorderFault, Quiet, Phase, NewIsPrefix, OldBytesExist
  <2>3. CASE step' = "rollback" /\ target' = Total /\ transactional
    <3>1. PICK n \in Nat, m \in Nat :
            /\ published = 1 .. n /\ n <= m
            /\ ReplacedUpTo(n) /\ SavedUpTo(m)
      <4>1. CASE step = "backup" \/ step = "replace"
        <5>1. target - 1 \in Nat /\ target \in Nat /\ target - 1 <= target
          BY <1>0
        <5> QED
          BY <4>1, <5>1 DEF Phase, Forward
      <4>2. CASE step \in {"sync", "validate"}
        BY <4>2 DEF Phase, Forward, Targets
      <4> QED
        BY <1>9, <2>1, <2>3, <4>1, <4>2 DEF RecorderFault, Unwind, Publishing
    <3>2. \A t \in Targets : t <= Total /\ (t \in published <=> t <= n)
      BY <3>1 DEF Targets
    <3>3. Backward'
      BY <1>0, <2>1, <2>3, <3>1, <3>2 DEF Backward, ReplacedUpTo, SavedUpTo, Targets
    <3> QED
      BY <2>2, <2>3, <3>3 DEF Phase, Forward, Settled, FailureRestores
  <2>4. CASE step' = "clean" /\ (transactional => step \in {"preflight", "stage", "prepare"})
    <3>1. transactional => committed' = former'
      BY <1>0, <2>1, <2>4 DEF Phase, Forward, ReplacedUpTo, Targets
    <3> QED
      BY <2>1, <2>2, <2>4, <3>1
         DEF Phase, Forward, Backward, Settled, FailureRestores
  <2> QED
    BY <1>9, <2>1, <2>3, <2>4 DEF RecorderFault, Unwind, Publishing
<1>10. CASE RecorderInterrupt
  BY <1>10 DEF RecorderInterrupt
<1>11. CASE RecorderKill
  BY <1>0, <1>11
     DEF RecorderKill, Proceed, record, transaction, Phase, Forward, Backward,
         Settled, NewIsPrefix, OldBytesExist, FailureRestores
<1>12. CASE UNCHANGED recorderVars
  BY <1>12 DEF recorderVars, Phase, Forward, Backward, Settled, NewIsPrefix,
     OldBytesExist, FailureRestores, ReplacedUpTo, SavedUpTo
<1> QED
  BY <1>1, <1>2, <1>3, <1>4, <1>5, <1>6, <1>7, <1>8, <1>9, <1>10, <1>11, <1>12
     DEF RecorderNext

LEMMA RecorderInvariant == RecorderSpec => []RecorderInv
<1>1. RecorderInit => RecorderTypeOK
  <2> SUFFICES ASSUME RecorderInit PROVE RecorderTypeOK
    OBVIOUS
  <2>1. target \in Targets
    BY TotalAssumption DEF RecorderInit, Targets
  <2>2. committed \in [Targets -> {"absent", "old", "new"}]
    BY DEF RecorderInit
  <2> QED
    BY <2>1, <2>2 DEF RecorderInit, RecorderTypeOK, Recording
<1>2. RecorderInit => Phase
  BY TotalAssumption
     DEF RecorderInit, Targets, Phase, Forward, Backward, Settled, NewIsPrefix,
         OldBytesExist, FailureRestores, ReplacedUpTo, SavedUpTo
<1>3. [RecorderNext]_recorderVars /\ interrupted => interrupted'
  BY DEF RecorderNext, Prepare, CopyBackup, ReplaceTarget, Note, Finish,
     Restore, Retain, Clean, RecorderFault, RecorderInterrupt, RecorderKill, Quiet,
     recorderVars
<1>4. RecorderInv /\ [RecorderNext]_recorderVars => RecorderInv'
  BY <1>3, RecorderTypes, PhaseKept DEF RecorderInv
<1> QED
  BY <1>1, <1>2, <1>4, PTL DEF RecorderSpec, RecorderInv

-----------------------------------------------------------------------------
\* Every variable keeps its type, for any number of targets.
THEOREM RecorderTypeCorrect == RecorderSpec => []RecorderTypeOK
BY RecorderInvariant, PTL DEF RecorderInv

\* For any number of targets the new files are a prefix of the order: a
\* manifest that is new stands beside nothing but new payloads.
THEOREM ManifestIsLast == RecorderSpec => []NewIsPrefix
<1>1. RecorderInv => NewIsPrefix
  BY DEF RecorderInv, Phase, NewIsPrefix
<1> QED
  BY RecorderInvariant, <1>1, PTL

\* A transactional write that fails plainly leaves every target as it was.
THEOREM PlainFailureRestores == RecorderSpec => []FailureRestores
<1>1. RecorderInv => FailureRestores
  BY DEF RecorderInv, Phase, FailureRestores
<1> QED
  BY RecorderInvariant, <1>1, PTL

\* At any time, in place or as a backup, the former bytes of a transactional
\* write exist until every target is new.
THEOREM FormerBytesExist == RecorderSpec => []OldBytesExist
<1>1. RecorderInv => OldBytesExist
  BY DEF RecorderInv, Phase, OldBytesExist
<1> QED
  BY RecorderInvariant, <1>1, PTL
=============================================================================
