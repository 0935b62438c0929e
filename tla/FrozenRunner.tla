----------------------------- MODULE FrozenRunner -----------------------------
(***************************************************************************)
(* tools/run_frozen_holdout.py: perform_preflight and run_once, from the   *)
(* distribution gate whose directory the operator hands over to the        *)
(* receipt of the published holdout.  Everything the runner relies on is   *)
(* looked at one thing after another and may be changed by somebody else   *)
(* at any moment: the gate's files while it builds and afterwards, the     *)
(* runner's private copies, the worktree and HEAD, what the names of the   *)
(* repository and of evaluation/ lead to, the result namespace, the        *)
(* receipt's name.  Any call may fail and the runner may be killed.        *)
(***************************************************************************)
EXTENDS DistributionGate, PrivateTree, Sequences

CONSTANT MaxDisturbances   \* acts of somebody else, for exploration; HEAD may be
                           \* moved any number of times

ASSUME DisturbancesAssumption == MaxDisturbances \in Nat

\* The order in which the gate's files are retained, and compared again; the
\* receipts are read between the first five and the artifacts.
RetainOrder == <<"distribution", "smoke", "source-primary.tar",
                 "source-rebuild.tar", "wheel-runtime",
                 "primary_wheel", "sdist", "rebuilt_wheel">>
Retainable == {RetainOrder[i] : i \in 1..8}
Artifacts == {"source-primary.tar", "source-rebuild.tar", "wheel-runtime",
              "primary_wheel", "sdist", "rebuilt_wheel"}
ReceiptFiles == {"distribution", "smoke"}

\* The worktree in the order it is gone through: the listed files of package
\* and tools, the listed protocol, and all that no list names.
PartOrder == <<"package", "protocol", "elsewhere">>
Sources == {"package", "protocol"}
Parts == Sources \cup {"elsewhere"}

\* The directories that evaluation/ may lead to: the one the runner opened and
\* another.  The same for the name of the repository.
Directories == {"home", "spare"}

VARIABLES
  pc,        \* what the runner does next
  at,        \* the file a pass over the gate has come to
  part,      \* the part that a look at the worktree has come to
  expected,  \* digests of the two receipts, taken down by the operator
  kept,      \* digests of the retained artifacts
  retained,  \* files of the gate whose descriptor and signature are kept
  touched,   \* of those, the ones somebody has changed since
  sealed,    \* the wheel in the sealed memory file
  edited,    \* parts of the worktree that are not as in the commit meant
  head,      \* HEAD is the commit the operator means
  steady,    \* HEAD was not moved from the last status until it was resolved
  names,     \* what the two names lead to
  results,   \* results[d]: what the evaluation directory d holds
  place,     \* where the publisher made its claim
  published, \* the publisher has returned the digests of the pair
  receipt,   \* the receipt file of the run
  outcome,   \* how the run ended
  disturbances,
  accepted,  \* history: the preflight succeeded
  misread,   \* history: files read while their bytes were not those kept
  witnessed, \* history: what the last look at it found, the gate unchanged
  strayed,   \* history: a name led elsewhere after the runner opened it
  vouched    \* history: what the verifier saw was what this run published

runnerVars == <<pc, at, part, expected, kept, retained, touched, sealed, place,
                published, outcome>>
checkout == <<edited, head, steady>>
world == <<checkout, names, results, receipt>>
history == <<disturbances, accepted, misread, witnessed, strayed, vouched>>
vars == <<gateVars, treeVars, runnerVars, world, history>>

Preflight ==
  {"runtime", "roots", "opened", "status", "format", "commit", "tree", "epoch",
   "contracts", "namespace", "inventory", "retain", "receipts", "compare",
   "evidence", "regenerate", "manifest", "copy", "verdict", "binding", "seal",
   "smoke", "probe", "target", "status_again", "format_again", "commit_again",
   "tree_again", "epoch_again", "runtime_again", "anchors_again",
   "inventory_again", "recheck", "namespace_again", "target_again"}
Published == {"anchors_published", "verify", "anchors_verified", "emit", "write"}
Working == Preflight \cup {"anchors", "claim", "execute", "bundle", "rows", "summary"}
             \cup Published
Outcomes == {"refused", "invalid_root", "aborted", "verification_failed",
             "receipt_exists", "receipt_write_failed", "killed", "emitted"}

TypeOK ==
  /\ GateTypeOK
  /\ TreeTypeOK
  /\ pc \in Working \cup {"idle", "done"}
  /\ at \in 1..8
  /\ part \in 1..3
  /\ expected \in [ReceiptFiles -> Receipts]
  /\ kept \in [Artifacts -> Contents]
  /\ retained \in SUBSET Retainable
  /\ touched \in SUBSET retained
  /\ sealed \in Contents
  /\ edited \in SUBSET Parts
  /\ head \in BOOLEAN
  /\ steady \in BOOLEAN
  /\ names \in [{"root", "evaluation"} -> Directories]
  /\ results \in [Directories -> {"absent", "claimed", "rows", "pair", "other"}]
  /\ place \in Directories \cup {"none"}
  /\ published \in BOOLEAN
  /\ receipt \in {"absent", "foreign", "torn", "whole"}
  /\ outcome \in Outcomes \cup {"none"}
  /\ disturbances \in 0..MaxDisturbances
  /\ accepted \in BOOLEAN
  /\ misread \in SUBSET Artifacts
  /\ witnessed \in SUBSET (Parts \cup {"head"})
  /\ strayed \in BOOLEAN
  /\ vouched \in BOOLEAN

Init ==
  /\ GateInit
  /\ TreeInit
  /\ pc = "idle"
  /\ at = 1
  /\ part = 1
  /\ expected = receipts
  /\ kept = [f \in Artifacts |-> "absent"]
  /\ retained = {}
  /\ touched = {}
  /\ sealed = "absent"
  /\ edited \in SUBSET Parts
  /\ head \in BOOLEAN
  /\ steady = FALSE
  /\ names = [n \in {"root", "evaluation"} |-> "home"]
  /\ results = [d \in Directories |-> "absent"]
  /\ place = "none"
  /\ published = FALSE
  /\ receipt = "absent"
  /\ outcome = "none"
  /\ disturbances = 0
  /\ accepted = FALSE
  /\ misread = {}
  /\ witnessed = {}
  /\ strayed = FALSE
  /\ vouched = FALSE

-------------------------------------------------------------------------------
(* Moves of the runner.                                                     *)

Goto(next) ==
  /\ pc' = next
  /\ UNCHANGED <<at, part, expected, kept, retained, touched, sealed, place,
                 published, outcome>>

\* A look at one part after another: at the next part, or through.
NextPart(last, next) ==
  /\ part' = IF part = last THEN 1 ELSE part + 1
  /\ pc' = IF part = last THEN next ELSE pc
  /\ UNCHANGED <<at, expected, kept, retained, touched, sealed, place,
                 published, outcome>>

\* A check that reads and lets the runner go on.
Check(step, holds, next) ==
  /\ pc = step
  /\ holds
  /\ Goto(next)
  /\ UNCHANGED <<gateVars, treeVars, world, history>>

End(how) ==
  /\ pc' = "done"
  /\ outcome' = how
  /\ UNCHANGED <<at, part, expected, kept, retained, touched, sealed, place,
                 published>>

\* What an OSError, a child that fails or a comparison that does not hold
\* make of the run: before the claim a refusal, then what each part reports.
FailCode ==
  IF pc \in Preflight THEN "refused"
  ELSE IF pc \in {"anchors", "anchors_published", "anchors_verified"}
    THEN "invalid_root"
  ELSE IF pc \in {"claim", "execute", "bundle", "rows", "summary"} THEN "aborted"
  ELSE IF pc = "verify" THEN "verification_failed"
  ELSE "receipt_write_failed"

Fail ==
  /\ pc \in Working
  /\ End(FailCode)
  /\ UNCHANGED <<gateVars, treeVars, world, history>>

Killed ==
  /\ pc \in Working
  /\ End("killed")
  /\ UNCHANGED <<gateVars, treeVars, world, history>>

-------------------------------------------------------------------------------
(* The preflight.                                                           *)

\* The operator takes the digests of the receipts from the gate's directory,
\* however the gate ended, and starts the runner with them.
Start ==
  /\ pc = "idle"
  /\ gpc \in {"done", "failed"}
  /\ expected' = receipts
  /\ pc' = "runtime"
  /\ UNCHANGED <<at, part, kept, retained, touched, sealed, place, published,
                 outcome, gateVars, treeVars, world, history>>

\* Not root, no privileges to gain, executables nobody else can write.
CheckRuntime == Check("runtime", TRUE, "roots")

\* Both directories are opened; from here "home" is what they were.
OpenRoots == Check("roots", TRUE, "opened")

\* Mutant: the names are opened but not compared with what is retained.
Anchored_Any == TRUE

\* Both names still lead to the directories that are retained.
Anchored == names["root"] = "home" /\ names["evaluation"] = "home"

CheckRoots == Check("opened", Anchored, "status")

\* What a look found, and whether at that moment the receipts were those the
\* operator took down and the artifacts those that are retained.
Witness(fact, holds) ==
  /\ witnessed' =
       IF holds /\ receipts = expected /\ \A f \in Artifacts : gate[f] = kept[f]
       THEN witnessed \cup {fact} ELSE witnessed \ {fact}
  /\ UNCHANGED <<disturbances, accepted, misread, strayed, vouched>>

\* The question to git is five children, one after the other, each by the name
\* of the repository.  If that leads elsewhere the answer is about some other
\* repository and may be anything.  The first compares the worktree with the
\* commit HEAD names as it starts; if that is another one, or HEAD is moved
\* meanwhile, what it says of ours may be anything too.
AskStatus(step, next) ==
  /\ pc = step
  /\ steady' = (part = 1 \/ steady)
  /\ names["root"] = "home" /\ head /\ steady' => PartOrder[part] \notin edited
  /\ NextPart(3, next)
  /\ Witness(PartOrder[part], PartOrder[part] \notin edited)
  /\ UNCHANGED <<gateVars, treeVars, edited, head, names, results, receipt>>

\* The commit HEAD is resolved to; it is compared after the last child.
AskHead(step, next) ==
  /\ pc = step
  /\ names["root"] = "home" => head
  /\ Goto(next)
  /\ Witness("head", head)
  /\ UNCHANGED <<gateVars, treeVars, world>>

\* Object format, tree of HEAD and the second of its commit are resolved by
\* children of their own: another commit may have the same.
AskGit ==
  \/ AskStatus("status", "format")
  \/ Check("format", TRUE, "commit")
  \/ AskHead("commit", "tree")
  \/ Check("tree", TRUE, "epoch")
  \/ Check("epoch", TRUE, "contracts")

\* Protocol and plan are read by name too, compared with the digests the
\* operator gave, and sealed.
ReadContracts ==
  Check("contracts", names["root"] = "home" => "protocol" \notin edited,
        "namespace")

Unclaimed == names["root"] = "home" => results[names["evaluation"]] = "absent"

CheckNamespace == Check("namespace", Unclaimed, "inventory")

\* Mutant: a listed file is not compared with its blob.
BlobMatches_Any(p) == TRUE

\* The files of a list have the blob ids they have in the expected tree.
BlobMatches(p) == p \notin edited

\* The listed files, one after the other, below the retained root; the list
\* comes from git by the tree's object id.
ReadListed(step, next) ==
  /\ pc = step
  /\ BlobMatches(PartOrder[part])
  /\ NextPart(2, next)
  /\ Witness(PartOrder[part], PartOrder[part] \notin edited)
  /\ UNCHANGED <<gateVars, treeVars, world>>

TakeInventory == ReadListed("inventory", "retain")

\* The digest of a file that is open: the bytes it holds now.
Present(f) ==
  IF f \in ReceiptFiles THEN receipts[f].state # "absent" ELSE gate[f] # "absent"

RetainFile ==
  /\ pc \in {"retain", "receipts"}
  /\ pc = "retain" => at <= 5
  /\ pc = "receipts" => at > 5
  /\ LET f == RetainOrder[at]
     IN  /\ Present(f)
         /\ retained' = retained \cup {f}
         /\ kept' = IF f \in Artifacts THEN [kept EXCEPT ![f] = gate[f]] ELSE kept
  /\ at' = IF at = 8 THEN 1 ELSE at + 1
  /\ pc' = IF at = 8 THEN "compare" ELSE pc
  /\ UNCHANGED <<part, expected, touched, sealed, place, published, outcome,
                 gateVars, treeVars, world, history>>

\* Canonical JSON with exactly the fields of a receipt.
Decodes(r) == receipts[r].state = "whole"

\* Both receipts are the ones the operator took down, and can be decoded.
ReadReceipts ==
  /\ pc = "retain"
  /\ at = 6
  /\ touched \cap ReceiptFiles = {}
  /\ \A r \in ReceiptFiles : receipts[r] = expected[r] /\ Decodes(r)
  /\ Goto("receipts")
  /\ UNCHANGED <<gateVars, treeVars, world, history>>

\* Reading a retained file again: what a change in between has made of it.
Reads(files) ==
  /\ misread' = misread \cup {f \in files : gate[f] # kept[f]}
  /\ UNCHANGED <<disturbances, accepted, witnessed, strayed, vouched>>

\* Device, inode, mode, owner, links, size and both times are as retained; a
\* change of the bytes, even one that is taken back, changes a time.
SignatureKept(f) == f \notin touched

\* A read that is followed by a look at the signature.
Held(files) == \A f \in files : SignatureKept(f) /\ gate[f] = kept[f]

CompareCopies ==
  /\ pc = "compare"
  /\ Held({"source-primary.tar", "source-rebuild.tar", "primary_wheel",
           "rebuilt_wheel"})
  /\ kept["source-primary.tar"] = kept["source-rebuild.tar"]
  /\ kept["primary_wheel"] = kept["rebuilt_wheel"]
  /\ Goto("evidence")
  /\ UNCHANGED <<gateVars, treeVars, world, history>>

ArtifactsBound ==
  /\ expected["distribution"].wheel = kept["primary_wheel"]
  /\ expected["distribution"].rebuilt = kept["rebuilt_wheel"]
  /\ expected["distribution"].sdist = kept["sdist"]

\* The distribution receipt is of the expected commit, and about the retained
\* export and wheel.
DistributionEvidence ==
  /\ expected["distribution"].source = "right"
  /\ expected["distribution"].archive = kept["source-primary.tar"]
  /\ gate["primary_wheel"] = expected["distribution"].wheel

\* The smoke receipt is about the same distribution receipt and the retained
\* outputs.
SmokeEvidence ==
  /\ [expected["smoke"] EXCEPT !.outputs = "absent"] = expected["distribution"]
  /\ expected["smoke"].outputs = kept["wheel-runtime"]

JudgeEvidence ==
  /\ pc = "evidence"
  /\ ArtifactsBound
  /\ DistributionEvidence
  /\ SmokeEvidence
  /\ Goto("regenerate")
  /\ Reads({"primary_wheel"})
  /\ UNCHANGED <<gateVars, treeVars, world>>

\* Mutant: the export is not made again.
SameExport_Any == TRUE

\* The export made again from the object database, by object id.
SameExport ==
  Held({"source-primary.tar"}) /\ kept["source-primary.tar"] = "right"

RegenerateArchive == Check("regenerate", SameExport, "manifest")

\* The package in the export is the package in the worktree.
BindManifest ==
  Check("manifest",
        Held({"source-primary.tar"}) /\ kept["source-primary.tar"] # "package",
        "copy")

\* Export, wheels and sdist are copied below a private directory.
CopyToPrivateTree ==
  /\ pc = "copy"
  /\ tpc = "unused"
  /\ Held({"source-primary.tar", "primary_wheel", "sdist", "rebuilt_wheel"})
  /\ WriteCopies
  /\ Goto("verdict")
  /\ UNCHANGED <<gateVars, world, history>>

PrivateTreeStep ==
  /\ pc = "verdict"
  /\ TreeNext
  /\ UNCHANGED <<gateVars, runnerVars, world, history>>

\* The child's verdict is that of the verifier in the export, on the bytes it
\* read; another verifier, or other bytes, may give any.
VerdictHolds ==
  \/ Consistent(kept["source-primary.tar"], kept["primary_wheel"],
                kept["rebuilt_wheel"], kept["sdist"])
  \/ kept["source-primary.tar"] = "other"
  \/ childSaw # {}

AcceptVerdict == Check("verdict", tpc = "unchanged" /\ VerdictHolds, "binding")

\* Every member of the wheel's package against the export.
BindWheel ==
  /\ pc = "binding"
  /\ gate["primary_wheel"] # "package"
  /\ Goto("seal")
  /\ Reads({"primary_wheel"})
  /\ UNCHANGED <<gateVars, treeVars, world>>

\* The wheel is copied into memory and sealed if it has the digest.
SealWheel ==
  /\ pc = "seal"
  /\ gate["primary_wheel"] = expected["distribution"].wheel
  /\ sealed' = gate["primary_wheel"]
  /\ pc' = "smoke"
  /\ Reads({"primary_wheel"})
  /\ UNCHANGED <<at, part, expected, kept, retained, touched, place, published,
                 outcome, gateVars, treeVars, world>>

\* Simulation, inspection and analysis again, by the modules of the sealed
\* wheel; each output is compared with the retained one.
SmokeAgrees == gate["wheel-runtime"] \in OutputsOf(sealed)

\* A child does that.
SmokeAgain ==
  /\ pc = "smoke"
  /\ SmokeAgrees
  /\ Goto("probe")
  /\ Reads({"wheel-runtime"})
  /\ UNCHANGED <<gateVars, treeVars, world>>

\* What the child that will evaluate asks of its two descriptors.
WorkerAccepts == sealed = expected["distribution"].wheel

\* It loads the sealed wheel and the sealed protocol, and stops.
Probe == Check("probe", WorkerAccepts, "target")

TargetFree == receipt = "absent"

CheckTarget == Check("target", TargetFree, "status_again")

\* Format and second must be the first answers.
AskGitAgain ==
  \/ AskStatus("status_again", "format_again")
  \/ Check("format_again", TRUE, "commit_again")
  \/ AskHead("commit_again", "tree_again")
  \/ Check("tree_again", TRUE, "epoch_again")
  \/ Check("epoch_again", TRUE, "runtime_again")

CheckAnchorsAgain == Check("anchors_again", Anchored, "inventory_again")

TakeInventoryAgain == ReadListed("inventory_again", "recheck")

CheckRuntimeAgain == Check("runtime_again", TRUE, "anchors_again")

\* Mutant: digests are compared, signatures are not.
Unchanged_Digest(f) == f \in Artifacts => gate[f] = kept[f]

\* Signature and digest of one retained file, by its name.
Unchanged(f) ==
  SignatureKept(f) /\ (f \in Artifacts => gate[f] = kept[f])

RecheckFile ==
  /\ pc = "recheck"
  /\ Unchanged(RetainOrder[at])
  /\ at' = IF at = 8 THEN 1 ELSE at + 1
  /\ pc' = IF at = 8 THEN "namespace_again" ELSE pc
  /\ UNCHANGED <<part, expected, kept, retained, touched, sealed, place,
                 published, outcome, gateVars, treeVars, world, history>>

CheckNamespaceAgain == Check("namespace_again", Unclaimed, "target_again")

\* The last check; the descriptors of the gate are closed.
CheckTargetAgain ==
  /\ pc = "target_again"
  /\ TargetFree
  /\ accepted' = TRUE
  /\ Goto("anchors")
  /\ UNCHANGED <<disturbances, misread, witnessed, strayed, vouched,
                 gateVars, treeVars, world>>

-------------------------------------------------------------------------------
(* The run proper, and the receipt.                                         *)

CheckAnchors == Check("anchors", Anchored, "claim")

\* The publisher is given the retained root and takes the directory its name
\* evaluation leads to; EvaluationPublication has what it does there.
Claim ==
  /\ pc = "claim"
  /\ place' = names["evaluation"]
  /\ results[place'] = "absent"
  /\ results' = [results EXCEPT ![place'] = "claimed"]
  /\ pc' = "execute"
  /\ UNCHANGED <<at, part, expected, kept, retained, touched, sealed, published,
                 outcome, gateVars, treeVars, checkout, names, receipt, history>>

\* The worker loads the sealed wheel and sends the rows.
Execute == Check("execute", WorkerAccepts, "bundle")

\* The parent reduces the rows itself and validates the encoded bundle.
PrepareBundle == Check("bundle", TRUE, "rows")

\* The publisher's own check: its directory is still where the name leads.
Record(step, before, after, next) ==
  /\ pc = step
  /\ names["evaluation"] = place
  /\ results[place] = before
  /\ results' = [results EXCEPT ![place] = after]
  /\ pc' = next
  /\ published' = (after = "pair")
  /\ UNCHANGED <<at, part, expected, kept, retained, touched, sealed, place,
                 outcome, gateVars, treeVars, checkout, names, receipt, history>>

RecordRows == Record("rows", "claimed", "rows", "summary")
RecordSummary == Record("summary", "rows", "pair", "anchors_published")

CheckAnchorsPublished == Check("anchors_published", Anchored, "verify")

\* Mutant: the verifier's digests are not compared with the publisher's.
DigestsAgree_Any == TRUE

\* What the verifier read has digests and sizes of what was published.
DigestsAgree == results["home"] = "pair"

\* A child loads the verifier from the sealed wheel and anchors it to the
\* retained directories; ResultVerifier has what it does.  Any complete pair
\* for the listed files in the worktree satisfies it.
VerifierAccepts ==
  /\ WorkerAccepts
  /\ names["evaluation"] = "home"
  /\ edited \cap Sources = {}
  /\ results["home"] \in {"pair", "other"}

Verify ==
  /\ pc = "verify"
  /\ VerifierAccepts
  /\ DigestsAgree
  /\ vouched' = (results["home"] = "pair")
  /\ Goto("anchors_verified")
  /\ UNCHANGED <<gateVars, treeVars, world, disturbances, accepted, misread,
                 witnessed, strayed>>

CheckAnchorsVerified == Check("anchors_verified", Anchored, "emit")

\* Without a directory the receipt goes to the standard output.
EmitToOutput ==
  /\ pc = "emit"
  /\ End("emitted")
  /\ UNCHANGED <<gateVars, treeVars, world, history>>

\* In a directory it is created exclusively, then written.
CreateReceipt ==
  /\ pc = "emit"
  /\ receipt = "absent"
  /\ receipt' = "torn"
  /\ Goto("write")
  /\ UNCHANGED <<gateVars, treeVars, checkout, names, results, history>>

ReceiptExists ==
  /\ pc = "emit"
  /\ receipt # "absent"
  /\ End("receipt_exists")
  /\ UNCHANGED <<gateVars, treeVars, world, history>>

WriteReceiptFile ==
  /\ pc = "write"
  /\ receipt' = "whole"
  /\ End("emitted")
  /\ UNCHANGED <<gateVars, treeVars, checkout, names, results, history>>

-------------------------------------------------------------------------------
(* Somebody else.                                                           *)

Disturb ==
  /\ disturbances < MaxDisturbances
  /\ disturbances' = disturbances + 1
  /\ UNCHANGED <<accepted, misread, witnessed, vouched>>

\* The gate directory is private to the user, not to the gate.  What is done to
\* it once nobody reads it any more is left out.
GateIsRead == ~accepted /\ pc # "done"

TamperGate(f, bytes) ==
  /\ Disturb
  /\ GateIsRead
  /\ gate[f] \notin {"absent", bytes}
  /\ gate' = [gate EXCEPT ![f] = bytes]
  /\ touched' = touched \cup ({f} \cap retained)
  /\ UNCHANGED <<gpc, treeish, noted, receipts, treeVars, pc, at, part, expected,
                 kept, retained, sealed, place, published, outcome, world, strayed>>

DamageReceipt(r) ==
  /\ Disturb
  /\ GateIsRead
  /\ receipts[r].state = "whole"
  /\ receipts' = [receipts EXCEPT ![r].state = "torn"]
  /\ touched' = touched \cup ({r} \cap retained)
  /\ UNCHANGED <<gpc, treeish, gate, noted, treeVars, pc, at, part, expected,
                 kept, retained, sealed, place, published, outcome, world, strayed>>

Meddle(c) ==
  /\ Disturb
  /\ MeddleWithCopy(c)
  /\ UNCHANGED <<gateVars, runnerVars, world, strayed>>

\* A part of the worktree is changed, or changed back.
EditWorktree(p) ==
  /\ Disturb
  /\ pc \in Working
  /\ edited' = IF p \in edited THEN edited \ {p} ELSE edited \cup {p}
  /\ UNCHANGED <<gateVars, treeVars, runnerVars, head, steady, names, results,
                 receipt, strayed>>

\* Between these steps HEAD is what the status was about.
UntilResolved == {"status", "status_again", "format_again", "commit_again"}

\* Another commit is checked out, or the one the operator means; how often is
\* not counted.
MoveHead ==
  /\ pc \in Preflight
  /\ head' = ~head
  /\ steady' = (steady /\ pc \notin UntilResolved)
  /\ UNCHANGED <<gateVars, treeVars, runnerVars, edited, names, results, receipt,
                 history>>

\* A directory is renamed and another put in its place, or back.
MoveName(n) ==
  /\ Disturb
  /\ pc \in Working \ {"roots"}
  /\ names' = [names EXCEPT ![n] = IF names[n] = "home" THEN "spare" ELSE "home"]
  /\ strayed' = TRUE
  /\ UNCHANGED <<gateVars, treeVars, runnerVars, checkout, results, receipt>>

\* Another run's pair appears, or takes the place of this run's.
PutOtherPair(d) ==
  /\ Disturb
  /\ pc \in Working
  /\ results[d] \in {"absent", "pair"}
  /\ results' = [results EXCEPT ![d] = "other"]
  /\ UNCHANGED <<gateVars, treeVars, runnerVars, checkout, names, receipt, strayed>>

PutOtherReceipt ==
  /\ Disturb
  /\ pc \in Working
  /\ receipt = "absent"
  /\ receipt' = "foreign"
  /\ UNCHANGED <<gateVars, treeVars, runnerVars, checkout, names, results, strayed>>

SomebodyElse ==
  \/ \E f \in Files, bytes \in Flavours : TamperGate(f, bytes)
  \/ \E r \in ReceiptFiles : DamageReceipt(r)
  \/ \E c \in Copies : Meddle(c)
  \/ \E p \in Parts : EditWorktree(p)
  \/ MoveHead
  \/ \E n \in DOMAIN names : MoveName(n)
  \/ \E d \in Directories : PutOtherPair(d)
  \/ PutOtherReceipt

-------------------------------------------------------------------------------
GateWorks == GateNext /\ UNCHANGED <<treeVars, runnerVars, world, history>>

Prepare ==
  \/ CheckRuntime
  \/ OpenRoots
  \/ CheckRoots
  \/ AskGit
  \/ ReadContracts
  \/ CheckNamespace
  \/ TakeInventory
  \/ RetainFile
  \/ ReadReceipts
  \/ CompareCopies
  \/ JudgeEvidence
  \/ RegenerateArchive
  \/ BindManifest
  \/ CopyToPrivateTree
  \/ PrivateTreeStep
  \/ AcceptVerdict
  \/ BindWheel
  \/ SealWheel
  \/ SmokeAgain
  \/ Probe
  \/ CheckTarget

LookAgain ==
  \/ AskGitAgain
  \/ CheckRuntimeAgain
  \/ CheckAnchorsAgain
  \/ TakeInventoryAgain
  \/ RecheckFile
  \/ CheckNamespaceAgain
  \/ CheckTargetAgain

RunOnce ==
  \/ CheckAnchors
  \/ Claim
  \/ Execute
  \/ PrepareBundle
  \/ RecordRows
  \/ RecordSummary
  \/ CheckAnchorsPublished
  \/ Verify
  \/ CheckAnchorsVerified
  \/ EmitToOutput
  \/ CreateReceipt
  \/ ReceiptExists
  \/ WriteReceiptFile

Next ==
  \/ GateWorks
  \/ Start
  \/ Prepare
  \/ LookAgain
  \/ RunOnce
  \/ Fail
  \/ Killed
  \/ SomebodyElse

Spec == Init /\ [][Next]_vars

-------------------------------------------------------------------------------
(* Properties.                                                              *)

\* docs/distribution-integrity.md leaves it to the one-shot runner to bind the
\* completed artifacts independently: whatever happened to files while the
\* gate built them and afterwards, the wheel that is sealed and executed is
\* the one of the tree the operator named.
SealedWheelIsOfTheTree == accepted => sealed = "right"

\* The retained gate files are read several times, and nothing was read in
\* between that is not what the final check finds.
GateIsAsRead == accepted => misread = {}

\* The verifier in the private tree judged the bytes that were retained.
ChildReadTheCopies == tpc = "unchanged" => childSaw = {}

\* What the attempt records was not all true at one instant: git and the lists
\* are asked one thing after another, and anything may be changed in between
\* and changed back.  But each of it was true at an instant of the last look,
\* and at each of these instants the receipts and all artifacts were the
\* recorded ones, although the gate is compared only after the last of them.
\* The listed files are read below the retained root and need no more.  HEAD is
\* asked for by name, and an exchanged repository is told from the first only
\* when a check falls into the exchange.  The rest of the worktree is compared
\* with whatever HEAD names just then: it was as in the commit recorded if HEAD
\* stood still from there until it was resolved.
IntentWasTrue ==
  accepted =>
    /\ Sources \subseteq witnessed
    /\ ~strayed => "head" \in witnessed
    /\ ~strayed /\ steady => "elsewhere" \in witnessed

\* A receipt, even one cut short by a kill, is only there when the verifier
\* was satisfied by the very pair this run published.
ReceiptIsTrue ==
  receipt \in {"torn", "whole"} \/ outcome = "emitted" =>
    accepted /\ published /\ vouched
==============================================================================
