------------------------- MODULE FrozenRunnerProofs -------------------------
(***************************************************************************)
(* The one-shot runner, however often somebody else changes something.     *)
(*                                                                         *)
(* The argument has seven parts beside the types.  SealInv follows digests *)
(* from the export that was made again over the verdict of the child to    *)
(* the sealed wheel.  RetainInv and ReadInv: a retained file that nobody   *)
(* touched has the bytes whose digest is kept, and a file misread is one   *)
(* that was touched; the last pass finds none.  PartInv: a look at one     *)
(* part after another leaves none out.  IntentInv: whatever was not found  *)
(* by the last look, with all that is recorded, a touched file tells, and  *)
(* the last pass has yet to come to it.  TreeInv: once all copies are      *)
(* watched, no change is without its event.  ReceiptInv follows the        *)
(* published pair to the verifier and the receipt.                         *)
(***************************************************************************)
EXTENDS FrozenRunner, TLAPS

-----------------------------------------------------------------------------
(* Types.                                                                  *)

LEMMA GateTypes ==
  ASSUME GateTypeOK, GateNext
  PROVE  GateTypeOK'
<1> USE DEF GateTypeOK, GateSteps
<1>1. ASSUME NEW step, NEW f \in Files, NEW bytes \in Contents, NEW next \in GateSteps,
             Make(step, f, bytes, next)
      PROVE  GateTypeOK'
  BY <1>1 DEF Make
<1>2. treeish \in Contents /\ \A f \in Files : gate[f] \in Contents
  BY DEF Contents
<1>a. CASE ArchiveRepository \/ Export
  BY <1>1, <1>2, <1>a DEF ArchiveRepository, Export, Files
<1>b. CASE Extract \/ Install
  BY <1>1, <1>2, <1>b DEF Extract, Install, Files
<1>c. CASE Simulate
  <2>1. OutputsOf(gate["wheel-venv"]) \subseteq Contents
    BY DEF OutputsOf, Contents, Flavours
  <2> QED
    BY <1>1, <1>c, <2>1 DEF Simulate, Files
<1>d. CASE Build
  <2>1. CASE gpc = "build"
    BY <1>2, <1>d, <2>1 DEF Build, Make, Files
  <2>2. CASE gpc # "build"
    BY <1>1, <1>2, <1>d, <2>2 DEF Build, Files
  <2> QED
    BY <2>1, <2>2
<1>e. CASE CompareExports \/ ReadOutputs
  <2>1. noted' \in Receipts
    BY <1>2, <1>e DEF CompareExports, ReadOutputs, Receipts, Files
  <2> QED
    BY <1>e, <2>1 DEF CompareExports, ReadOutputs
<1>f. CASE VerifyDistribution
  <2>1. noted' \in Receipts
    BY <1>2, <1>f DEF VerifyDistribution, Receipts, Files
  <2> QED
    BY <1>f, <2>1 DEF VerifyDistribution
<1>g. ASSUME NEW step, NEW r \in {"distribution", "smoke"},
             NEW next \in GateSteps \cup {"done"}, WriteReceipt(step, r, next)
      PROVE  GateTypeOK'
  <2>1. /\ [noted EXCEPT !.state = "whole"] \in Receipts
        /\ [receipts[r] EXCEPT !.state = "torn"] \in Receipts
    BY DEF Receipts
  <2>2. \/ receipts' = [receipts EXCEPT ![r] = [noted EXCEPT !.state = "whole"]]
        \/ receipts' = [receipts EXCEPT ![r] = [receipts[r] EXCEPT !.state = "torn"]]
    BY <1>g DEF WriteReceipt
  <2>3. receipts' \in [{"distribution", "smoke"} -> Receipts]
    BY <2>1, <2>2
  <2> QED
    BY <1>g, <2>3 DEF WriteReceipt
<1>h. CASE WriteDistributionReceipt \/ WriteSmokeReceipt
  BY <1>g, <1>h DEF WriteDistributionReceipt, WriteSmokeReceipt
<1>i. CASE UnpackSdist \/ ExerciseSdist \/ CheckCandidate \/ GateFails
  BY <1>i DEF UnpackSdist, ExerciseSdist, CheckCandidate, GateFails
<1> QED
  BY <1>a, <1>b, <1>c, <1>d, <1>e, <1>f, <1>h, <1>i DEF GateNext

-----------------------------------------------------------------------------
(* The private tree.  Once every copy is watched, a change of one leaves an *)
(* event for good; so if there is none, all copies a pass has looked at are *)
(* still what was written, and the child between two passes read just that. *)

Begun == {"recheck_before", "child", "recheck_after", "unchanged"}

TreeInv ==
  /\ tpc = "unused" => copyAt = 1 /\ childSaw = {}
  /\ tpc \in {"visit", "watch", "child"} => copyAt \in 1..2
  /\ tpc = "visit" /\ copyAt = 2 => "source" \in hashed
  /\ tpc \in {"watch"} \cup Passes \cup Begun => hashed = Copies
  /\ tpc = "watch" /\ copyAt = 2 => "source" \in watched
  /\ tpc \in Passes \cup Begun => watched = Copies
  /\ tpc \in Passes /\ ~events =>
       /\ copyAt > 1 => "source" \notin altered
       /\ copyAt > 2 => "artifacts" \notin altered
  /\ tpc \in Begun /\ ~events => altered = {} /\ childSaw = {}
  /\ tpc \in {"visit", "watch", "recheck_begun", "recheck_before"} => childSaw = {}
  /\ tpc = "child" /\ ~events => childSaw = {}
  /\ tpc = "unchanged" => ~events

LEMMA OneMoreCopy ==
  ASSUME NEW S \in SUBSET Copies
  PROVE  /\ S \cup {"source"} \in SUBSET Copies
         /\ S \cup {"artifacts"} \in SUBSET Copies
         /\ "source" \in S => S \cup {"artifacts"} = Copies
BY DEF Copies

LEMMA TreeKept ==
  ASSUME TreeTypeOK, TreeInv, TreeNext \/ \E c \in Copies : MeddleWithCopy(c)
  PROVE  TreeTypeOK' /\ TreeInv'
<1> USE DEF TreeTypeOK, TreeInv, TreeSteps, Passes, Begun, Copies
<1>0. /\ copyAt = 1 => Here = "source"
      /\ copyAt = 2 => Here = "artifacts"
  BY DEF Here, CopyOrder
<1>1. CASE VisitCopy
  <2>1. \/ /\ copyAt = 1 /\ tpc' = "visit" /\ copyAt' = 2
           /\ hashed' = hashed \cup {"source"}
        \/ /\ copyAt = 2 /\ tpc' = "watch" /\ copyAt' = 1
           /\ hashed' = hashed \cup {"artifacts"}
    BY <1>0, <1>1 DEF VisitCopy, NextCopy
  <2>2. tpc = "visit" /\ UNCHANGED <<altered, stamped, watched, events, childSaw>>
    BY <1>1 DEF VisitCopy
  <2>3. /\ "source" \in hashed' /\ hashed \subseteq hashed' /\ hashed' \subseteq Copies
        /\ copyAt = 2 => hashed' = Copies
    <3>1. hashed \in SUBSET Copies /\ (copyAt = 2 => "source" \in hashed)
      BY <2>2
    <3>2. \/ copyAt = 1 /\ hashed' = hashed \cup {"source"}
          \/ copyAt = 2 /\ hashed' = hashed \cup {"artifacts"}
      BY <2>1
    <3> HIDE DEF TreeTypeOK, TreeInv, Copies
    <3> QED
      BY <3>1, <3>2, OneMoreCopy
  <2>4. TreeTypeOK'
    BY <2>1, <2>2, <2>3
  <2> QED
    BY <2>1, <2>2, <2>3, <2>4
<1>2. CASE WatchCopy
  <2>1. \/ /\ copyAt = 1 /\ tpc' = "watch" /\ copyAt' = 2
           /\ watched' = watched \cup {"source"}
        \/ /\ copyAt = 2 /\ tpc' = "recheck_begun" /\ copyAt' = 1
           /\ watched' = watched \cup {"artifacts"}
    BY <1>0, <1>2 DEF WatchCopy, NextCopy
  <2>2. /\ tpc = "watch" /\ hashed = Copies
        /\ UNCHANGED <<altered, hashed, stamped, events, childSaw>>
    BY <1>2 DEF WatchCopy
  <2>3. /\ "source" \in watched' /\ watched' \subseteq Copies
        /\ copyAt = 2 => watched' = Copies
    <3>1. watched \in SUBSET Copies /\ (copyAt = 2 => "source" \in watched)
      BY <2>2
    <3>2. \/ copyAt = 1 /\ watched' = watched \cup {"source"}
          \/ copyAt = 2 /\ watched' = watched \cup {"artifacts"}
      BY <2>1
    <3> HIDE DEF TreeTypeOK, TreeInv, Copies
    <3> QED
      BY <3>1, <3>2, OneMoreCopy
  <2>4. TreeTypeOK'
    BY <2>1, <2>2, <2>3
  <2> QED
    BY <2>1, <2>2, <2>3, <2>4
<1>3. CASE RecheckCopy
  <2>1. copyAt \in 1..2
    BY <1>3 DEF RecheckCopy
  <2> QED
    BY <1>0, <1>3, <2>1 DEF RecheckCopy
<1>4. CASE EndPass
  BY <1>4 DEF EndPass, AfterPass, Quiet
<1>5. CASE ChildReads
  <2>1. \/ copyAt = 1 /\ tpc' = "child" /\ copyAt' = 2
        \/ copyAt = 2 /\ tpc' = "recheck_after" /\ copyAt' = 1
    BY <1>5 DEF ChildReads, NextCopy
  <2>2. /\ tpc = "child" /\ hashed = Copies /\ watched = Copies
        /\ childSaw' \subseteq Copies
        /\ ~events => childSaw' = {} /\ altered = {}
        /\ UNCHANGED <<altered, hashed, stamped, watched, events>>
    BY <1>0, <1>5 DEF ChildReads
  <2>3. TreeTypeOK'
    BY <2>1, <2>2
  <2> QED
    BY <2>1, <2>2, <2>3
<1>6. CASE TreeChanged
  BY <1>6 DEF TreeChanged
<1>7. ASSUME NEW c \in Copies, MeddleWithCopy(c) PROVE TreeTypeOK' /\ TreeInv'
  BY <1>7 DEF MeddleWithCopy
<1> QED
  BY <1>1, <1>2, <1>3, <1>4, <1>5, <1>6, <1>7 DEF TreeNext

-----------------------------------------------------------------------------
(* The runner's steps, by what they change.                                *)

\* Checks: the runner goes on, or notes something for the properties.
Looks ==
  \/ CheckRuntime \/ OpenRoots \/ CheckRoots \/ ReadContracts \/ CheckNamespace
  \/ ReadReceipts \/ CompareCopies \/ RegenerateArchive \/ BindManifest
  \/ AcceptVerdict \/ Probe \/ CheckTarget \/ CheckRuntimeAgain
  \/ CheckAnchorsAgain \/ CheckNamespaceAgain \/ CheckAnchors \/ Execute
  \/ PrepareBundle \/ CheckAnchorsPublished \/ CheckAnchorsVerified

\* The questions to git and the lists: what they find is noted.
Asks == AskGit \/ AskGitAgain \/ TakeInventory \/ TakeInventoryAgain

ReadsGate == JudgeEvidence \/ BindWheel \/ SmokeAgain

LEMMA LooksMoveOn ==
  ASSUME Looks
  PROVE  /\ pc' \in Working /\ pc \in Working
         /\ UNCHANGED <<gateVars, treeVars, world, history>>
         /\ UNCHANGED <<at, part, expected, kept, retained, touched, sealed, place,
                        published, outcome>>
BY DEF Looks, Check, Goto, Working, Preflight, Published, CheckRuntime, OpenRoots,
       CheckRoots, ReadContracts, CheckNamespace, ReadReceipts,
       CompareCopies, RegenerateArchive, BindManifest, AcceptVerdict, Probe,
       CheckTarget, CheckRuntimeAgain, CheckAnchorsAgain,
       CheckNamespaceAgain, CheckAnchors, Execute, PrepareBundle,
       CheckAnchorsPublished, CheckAnchorsVerified

\* One question to git, or one listed file: whatever it finds, the runner goes
\* from one step to the next, or looks at another part.
Turn(step, next) ==
  AskStatus(step, next) \/ AskHead(step, next) \/ ReadListed(step, next)
    \/ Check(step, TRUE, next)

LEMMA AsksTurn ==
  ASSUME Asks
  PROVE  \/ Turn("status", "format") \/ Turn("format", "commit")
         \/ Turn("commit", "tree") \/ Turn("tree", "epoch") \/ Turn("epoch", "contracts")
         \/ Turn("inventory", "retain")
         \/ Turn("status_again", "format_again") \/ Turn("format_again", "commit_again")
         \/ Turn("commit_again", "tree_again") \/ Turn("tree_again", "epoch_again")
         \/ Turn("epoch_again", "runtime_again") \/ Turn("inventory_again", "recheck")
BY DEF Asks, AskGit, AskGitAgain, TakeInventory, TakeInventoryAgain, Turn

LEMMA TurnFrame ==
  ASSUME NEW step, NEW next, Turn(step, next)
  PROVE  /\ pc = step /\ pc' \in {step, next}
         /\ UNCHANGED <<gateVars, treeVars, edited, head, names, results, receipt>>
         /\ UNCHANGED <<disturbances, accepted, misread, strayed, vouched>>
         /\ UNCHANGED <<at, expected, kept, retained, touched, sealed, place,
                        published, outcome>>
BY DEF Turn, AskStatus, AskHead, ReadListed, Check, NextPart, Goto, Witness, world,
       checkout, history

LEMMA AsksMoveOn ==
  ASSUME Asks
  PROVE  /\ pc \in Preflight /\ pc' \in Preflight
         /\ UNCHANGED <<gateVars, treeVars, edited, head, names, results, receipt>>
         /\ UNCHANGED <<disturbances, accepted, misread, strayed, vouched>>
         /\ UNCHANGED <<at, expected, kept, retained, touched, sealed, place,
                        published, outcome>>
BY AsksTurn, TurnFrame DEF Preflight

LEMMA ReadsMoveOn ==
  ASSUME ReadsGate
  PROVE  /\ pc' \in Working /\ pc \in Working
         /\ misread' \subseteq misread
              \cup {f \in {"primary_wheel", "wheel-runtime"} : gate[f] # kept[f]}
         /\ UNCHANGED <<gateVars, treeVars, world, disturbances, accepted, witnessed,
                        strayed, vouched>>
         /\ UNCHANGED <<at, part, expected, kept, retained, touched, sealed, place,
                        published, outcome>>
BY DEF ReadsGate, JudgeEvidence, BindWheel, SmokeAgain, Reads, Goto, Working, Preflight

LEMMA FailCodeTypes == FailCode \in Outcomes
BY DEF FailCode, Outcomes

\* The types, part by part.
RunnerTypes ==
  /\ pc \in Working \cup {"idle", "done"}
  /\ at \in 1..8
  /\ part \in 1..3
  /\ expected \in [ReceiptFiles -> Receipts]
  /\ kept \in [Artifacts -> Contents]
  /\ retained \in SUBSET Retainable
  /\ touched \in SUBSET retained
  /\ sealed \in Contents
  /\ place \in Directories \cup {"none"}
  /\ published \in BOOLEAN
  /\ outcome \in Outcomes \cup {"none"}

WorldTypes ==
  /\ edited \in SUBSET Parts
  /\ head \in BOOLEAN
  /\ steady \in BOOLEAN
  /\ names \in [{"root", "evaluation"} -> Directories]
  /\ results \in [Directories -> {"absent", "claimed", "rows", "pair", "other"}]
  /\ receipt \in {"absent", "foreign", "torn", "whole"}

HistoryTypes ==
  /\ disturbances \in 0..MaxDisturbances
  /\ accepted \in BOOLEAN
  /\ misread \in SUBSET Artifacts
  /\ witnessed \in SUBSET (Parts \cup {"head"})
  /\ strayed \in BOOLEAN
  /\ vouched \in BOOLEAN

Types == GateTypeOK /\ TreeTypeOK /\ RunnerTypes /\ WorldTypes /\ HistoryTypes

LEMMA TypesAreTypeOK == Types <=> TypeOK
BY DEF Types, RunnerTypes, WorldTypes, HistoryTypes, TypeOK

\* A look at one part after another begins at the first, and the lists end
\* where no list names a file.
PartInv ==
  /\ pc \notin {"status", "status_again", "inventory", "inventory_again", "done"} =>
       part = 1
  /\ pc \in {"inventory", "inventory_again"} => part \in 1..2

LEMMA PartNames ==
  /\ PartOrder[1] = "package" /\ PartOrder[2] = "protocol"
  /\ PartOrder[3] = "elsewhere"
  /\ \A i \in 1..3 : PartOrder[i] \in Parts
BY DEF PartOrder, Parts, Sources

LEMMA AskTypes ==
  ASSUME Types, PartInv, Asks
  PROVE  /\ part' \in 1..3 /\ steady' \in BOOLEAN
         /\ witnessed' \in SUBSET (Parts \cup {"head"})
<1> USE DEF Types, RunnerTypes, WorldTypes, HistoryTypes
<1> DEFINE Good == /\ part' \in 1..3 /\ steady' \in BOOLEAN
                   /\ witnessed' \in SUBSET (Parts \cup {"head"})
<1>1. ASSUME NEW fact \in Parts \cup {"head"}, NEW holds, Witness(fact, holds)
      PROVE  witnessed' \in SUBSET (Parts \cup {"head"})
  BY <1>1 DEF Witness
<1>2. PartOrder[part] \in Parts
  BY PartNames
<1>3. ASSUME NEW step, NEW next, AskStatus(step, next) PROVE Good
  BY <1>1, <1>2, <1>3 DEF AskStatus, NextPart
<1>4. ASSUME NEW step, NEW next, AskHead(step, next) PROVE Good
  BY <1>1, <1>4 DEF AskHead, Goto, world, checkout
<1>5. ASSUME NEW step \in {"inventory", "inventory_again"}, NEW next,
             ReadListed(step, next)
      PROVE  Good
  <2>1. pc = step /\ part \in 1..2
    BY <1>5 DEF ReadListed, PartInv
  <2>2. part' \in 1..3 /\ UNCHANGED steady
    BY <1>5, <2>1 DEF ReadListed, NextPart, world, checkout
  <2> QED
    BY <1>1, <1>2, <1>5, <2>2 DEF ReadListed
<1>6. ASSUME NEW step, NEW next, Check(step, TRUE, next) PROVE Good
  BY <1>6 DEF Check, Goto, world, checkout, history
<1> QED
  BY <1>3, <1>4, <1>5, <1>6
     DEF Asks, AskGit, AskGitAgain, TakeInventory, TakeInventoryAgain

LEMMA RetainTypes ==
  ASSUME Types, RetainFile
  PROVE  RunnerTypes'
<1> USE DEF Types, RunnerTypes
<1>1. PICK f \in Retainable :
        /\ retained' = retained \cup {f}
        /\ kept' = IF f \in Artifacts THEN [kept EXCEPT ![f] = gate[f]] ELSE kept
  BY DEF RetainFile, Retainable
<1>2. Artifacts \subseteq Files
  BY DEF Artifacts, Files
<1>3. kept' \in [Artifacts -> Contents]
  BY <1>1, <1>2 DEF GateTypeOK
<1>4. pc' \in Working /\ at' \in 1..8
  BY DEF RetainFile, Working, Preflight
<1> QED
  BY <1>1, <1>3, <1>4 DEF RetainFile

LEMMA RunnerTypesKept ==
  ASSUME Types, TreeInv, PartInv, [Next]_vars
  PROVE  Types'
<1> USE DEF Types, RunnerTypes, WorldTypes, HistoryTypes
<1> USE DEF gateVars, treeVars, world, checkout, history, runnerVars
<1>a. /\ Artifacts \subseteq Files
      /\ {"primary_wheel", "wheel-runtime"} \subseteq Artifacts
      /\ \A f \in Files : gate[f] \in Contents
  BY DEF Artifacts, Files, GateTypeOK
<1>b. ASSUME UNCHANGED gateVars PROVE GateTypeOK'
  BY <1>b DEF GateTypeOK
<1>c. ASSUME UNCHANGED treeVars PROVE TreeTypeOK'
  BY <1>c DEF TreeTypeOK
<1>1. CASE GateWorks
  BY <1>1, <1>c, GateTypes DEF GateWorks
<1>2. CASE Start
  <2>1. expected' \in [ReceiptFiles -> Receipts]
    BY <1>2 DEF Start, GateTypeOK, ReceiptFiles
  <2> QED
    BY <1>2, <1>b, <1>c, <2>1 DEF Start, Working, Preflight
<1>3. CASE Looks
  BY <1>3, <1>b, <1>c, LooksMoveOn
<1>4. CASE ReadsGate
  BY <1>4, <1>a, <1>b, <1>c, ReadsMoveOn
<1>5. CASE RetainFile
  <2>1. RunnerTypes'
    BY <1>5, RetainTypes
  <2> QED
    BY <1>5, <2>1, <1>b, <1>c DEF RetainFile
<1>6. CASE CopyToPrivateTree
  BY <1>6, <1>b DEF CopyToPrivateTree, WriteCopies, Goto, Working, Preflight, TreeTypeOK,
     TreeSteps
<1>7. CASE PrivateTreeStep
  <2>1. TreeTypeOK'
    BY <1>7, TreeKept DEF PrivateTreeStep
  <2> QED
    BY <1>7, <2>1, <1>b DEF PrivateTreeStep
<1>8. CASE SealWheel
  <2>1. /\ pc' \in Working
        /\ sealed' \in Contents
        /\ misread' \in SUBSET Artifacts
        /\ UNCHANGED <<gateVars, treeVars, world, disturbances, accepted, witnessed,
                       strayed, vouched>>
        /\ UNCHANGED <<at, part, expected, kept, retained, touched, place, published,
                       outcome>>
    BY <1>8, <1>a DEF SealWheel, Reads, Working, Preflight, Files
  <2> QED
    BY <2>1, <1>b, <1>c
<1>9. CASE CheckTargetAgain \/ Verify
  <2>1. UNCHANGED witnessed /\ vouched' \in BOOLEAN /\ accepted' \in BOOLEAN
    BY <1>9 DEF CheckTargetAgain, Verify
  <2>2. /\ pc' \in Working
        /\ UNCHANGED <<gateVars, treeVars, world, disturbances, misread, strayed>>
        /\ UNCHANGED <<at, part, expected, kept, retained, touched, sealed, place,
                       published, outcome>>
    BY <1>9
       DEF CheckTargetAgain, Verify, Goto, Working, Preflight, Published
  <2> QED
    BY <2>1, <2>2, <1>b, <1>c
<1>10. CASE RecheckFile
  BY <1>10, <1>b, <1>c DEF RecheckFile, Working, Preflight
<1>11. CASE Claim
  BY <1>11, <1>b, <1>c DEF Claim, Working
<1>12. CASE RecordRows \/ RecordSummary
  <2>1. /\ pc' \in Working
        /\ published' \in BOOLEAN
        /\ \E after \in {"rows", "pair"} : results' = [results EXCEPT ![place] = after]
        /\ UNCHANGED <<at, part, expected, kept, retained, touched, sealed, place, outcome,
                       gateVars, treeVars, checkout, names, receipt, history>>
    BY <1>12 DEF RecordRows, RecordSummary, Record, Working, Published
  <2> QED
    BY <2>1, <1>b, <1>c
<1>13. CASE EmitToOutput \/ ReceiptExists \/ Fail \/ Killed
  BY <1>13, <1>b, <1>c, FailCodeTypes
     DEF EmitToOutput, ReceiptExists, Fail, Killed, End, Outcomes
<1>14. CASE CreateReceipt \/ WriteReceiptFile
  BY <1>14, <1>b, <1>c
     DEF CreateReceipt, WriteReceiptFile, Goto, End, Outcomes, Working, Published
<1>15. CASE SomebodyElse
  <2>0. Disturb => /\ disturbances' \in 0..MaxDisturbances
                   /\ UNCHANGED <<accepted, misread, witnessed, vouched>>
    BY DisturbancesAssumption DEF Disturb
  <2>1. ASSUME NEW f \in Files, NEW bytes \in Flavours, TamperGate(f, bytes) PROVE Types'
    BY <2>0, <2>1, <1>c DEF TamperGate, GateTypeOK, Contents
  <2>2. ASSUME NEW r \in ReceiptFiles, DamageReceipt(r) PROVE Types'
    <3>1. [receipts[r] EXCEPT !.state = "torn"] \in Receipts
      BY DEF Receipts, GateTypeOK, ReceiptFiles
    <3>2. GateTypeOK'
      BY <2>2, <3>1 DEF DamageReceipt, GateTypeOK, ReceiptFiles
    <3> QED
      BY <2>0, <2>2, <3>2, <1>c DEF DamageReceipt
  <2>3. ASSUME NEW c \in Copies, Meddle(c) PROVE Types'
    <3>1. TreeTypeOK'
      BY <2>3, TreeKept DEF Meddle
    <3> QED
      BY <2>0, <2>3, <3>1, <1>b DEF Meddle
  <2>4. CASE (\E q \in Parts : EditWorktree(q)) \/ MoveHead \/ PutOtherReceipt
    <3>1. /\ edited' \in SUBSET Parts
          /\ receipt' \in {"absent", "foreign", "torn", "whole"}
      BY <2>4 DEF EditWorktree, MoveHead, PutOtherReceipt
    <3>2. head' \in BOOLEAN /\ steady' \in BOOLEAN
      BY <2>4 DEF EditWorktree, MoveHead, PutOtherReceipt
    <3>3. UNCHANGED <<gateVars, treeVars, runnerVars, names, results, strayed>>
      BY <2>4 DEF EditWorktree, MoveHead, PutOtherReceipt
    <3>4. Disturb \/ UNCHANGED <<disturbances, accepted, misread, witnessed, vouched>>
      BY <2>4 DEF EditWorktree, MoveHead, PutOtherReceipt
    <3> QED
      BY <2>0, <3>1, <3>2, <3>3, <3>4, <1>b, <1>c
  <2>5. ASSUME NEW n \in DOMAIN names, MoveName(n) PROVE Types'
    BY <2>0, <2>5, <1>b, <1>c DEF MoveName, Directories
  <2>6. ASSUME NEW d \in Directories, PutOtherPair(d) PROVE Types'
    BY <2>0, <2>6, <1>b, <1>c DEF PutOtherPair
  <2> QED
    BY <1>15, <2>1, <2>2, <2>3, <2>4, <2>5, <2>6 DEF SomebodyElse
<1>16. CASE Asks
  BY <1>16, <1>b, <1>c, AsksMoveOn, AskTypes DEF Working
<1>17. CASE UNCHANGED vars
  BY <1>17, <1>b, <1>c DEF vars
<1> QED
  BY <1>1, <1>2, <1>3, <1>4, <1>5, <1>6, <1>7, <1>8, <1>9, <1>10, <1>11, <1>12, <1>13,
     <1>14, <1>15, <1>16, <1>17
     DEF Next, Prepare, LookAgain, RunOnce, Looks, ReadsGate, Asks

-----------------------------------------------------------------------------
(* What the runner has established, by the step it is at.                  *)

Early == {"runtime", "roots", "opened", "status", "format", "commit", "tree", "epoch",
          "contracts", "namespace", "inventory"}
ListSeen == {"recheck", "namespace_again", "target_again"}
HeadSeen == {"tree_again", "epoch_again", "runtime_again", "anchors_again",
             "inventory_again"} \cup ListSeen
Looking == {"format_again", "commit_again"} \cup HeadSeen
Running == Working \ Preflight
AfterSeal == {"smoke", "probe", "target", "status_again"} \cup Looking \cup Running
AfterVerdict == {"binding", "seal"} \cup AfterSeal
AfterArchive == {"manifest", "copy", "verdict"} \cup AfterVerdict
AfterEvidence == {"regenerate"} \cup AfterArchive
AfterRetain == {"compare", "evidence"} \cup AfterEvidence

\* The digests that lead from the expected tree to the sealed wheel.
SealInv ==
  /\ pc \in AfterEvidence => expected["distribution"].wheel = kept["primary_wheel"]
  /\ pc \in AfterArchive => kept["source-primary.tar"] = "right"
  /\ pc \in AfterVerdict => kept["primary_wheel"] = "right"
  /\ pc \in AfterSeal => sealed = "right"
  /\ accepted => sealed = "right" /\ pc \in Running \cup {"done"}

\* What is retained: a file that nobody has changed since holds what was read,
\* and what was misread has been changed.
RetainInv ==
  /\ pc # "idle" => gpc \in {"done", "failed"}
  /\ pc \in Early \cup {"idle"} => retained = {} /\ at = 1
  /\ pc = "retain" => at \in 1..6 /\ \A i \in 1..8 : i < at => RetainOrder[i] \in retained
  /\ pc = "receipts" => at \in 6..8 /\ \A i \in 1..8 : i < at => RetainOrder[i] \in retained
  /\ pc \in AfterRetain => retained = Retainable /\ (pc # "recheck" => at = 1)
  /\ \A f \in (retained \cap Artifacts) \ touched : gate[f] = kept[f]
  /\ pc \in {"receipts"} \cup AfterRetain /\ ~accepted =>
       \A r \in ReceiptFiles \ touched : receipts[r] = expected[r]

\* Nothing misread escapes the last comparison.
ReadInv ==
  /\ misread \subseteq touched
  /\ pc = "recheck" => \A i \in 1..8 : i < at => RetainOrder[i] \notin misread
  /\ pc \in {"namespace_again", "target_again"} \cup Running \/ accepted => misread = {}

\* What the last look has come to, as far as the property asks for it.
Due(fact) ==
  \/ /\ fact \in Sources
     /\ \/ accepted \/ pc \in ListSeen \cup Running
        \/ fact = "package" /\ pc = "inventory_again" /\ part = 2
  \/ /\ fact = "head" /\ ~strayed
     /\ accepted \/ pc \in HeadSeen \cup Running
  \/ /\ fact = "elsewhere" /\ ~strayed /\ steady
     /\ \/ accepted \/ pc \in HeadSeen \cup Running
        \/ pc \in {"format_again", "commit_again"} /\ head

\* A retained file that has been touched, from the n-th on.
Tells(n) == \E i \in 1..8 : i >= n /\ RetainOrder[i] \in touched

\* If one of these was not found, with all that is recorded, a retained file
\* tells, and the last comparison has not come to it.
IntentInv ==
  /\ ~strayed => names["root"] = "home" /\ names["evaluation"] = "home"
  /\ \A fact \in Parts \cup {"head"} : Due(fact) /\ fact \notin witnessed =>
       /\ Tells(IF pc = "recheck" THEN at ELSE 1)
       /\ pc \notin {"namespace_again", "target_again"} \cup Running
       /\ ~accepted

\* The last steps.
ReceiptInv ==
  /\ pc \in Running => accepted
  /\ pc \in Published => published
  /\ pc \in {"anchors_verified", "emit", "write"} => vouched
  /\ receipt \in {"torn", "whole"} \/ outcome = "emitted" =>
       pc \in {"write", "done"} /\ accepted /\ published /\ vouched

Inv ==
  /\ Types /\ TreeInv /\ PartInv
  /\ SealInv /\ RetainInv /\ ReadInv /\ IntentInv /\ ReceiptInv

LEMMA InitInv == Init => Inv
<1> SUFFICES ASSUME Init PROVE Inv
  OBVIOUS
<1>1. GateTypeOK
  BY DEF Init, GateInit, GateTypeOK, GateSteps, Flavours, Contents, Receipts, NoReceipt
<1>2. TreeTypeOK /\ TreeInv
  <2>1. TreeTypeOK
    <3>1. events \in BOOLEAN
      BY DEF Init, TreeInit
    <3>2. /\ tpc = "unused" /\ copyAt \in 1..3
          /\ altered \in SUBSET Copies /\ hashed \in SUBSET Copies
          /\ stamped \in SUBSET hashed /\ watched \in SUBSET hashed
          /\ childSaw \in SUBSET Copies
      BY DEF Init, TreeInit
    <3> QED
      BY <3>1, <3>2 DEF TreeTypeOK
  <2>2. TreeInv
    BY DEF Init, TreeInit, TreeInv, Passes, Begun
  <2> QED
    BY <2>1, <2>2
<1>3. RunnerTypes
  <2>1. expected \in [ReceiptFiles -> Receipts]
    BY <1>1 DEF Init, GateTypeOK, ReceiptFiles
  <2>2. kept \in [Artifacts -> Contents] /\ sealed \in Contents
    BY DEF Init, Contents
  <2>3. retained \in SUBSET Retainable /\ touched \in SUBSET retained
    BY DEF Init
  <2>4. published \in BOOLEAN
    BY DEF Init
  <2>5. pc = "idle" /\ at \in 1..8 /\ part \in 1..3 /\ place = "none" /\ outcome = "none"
    BY DEF Init
  <2> QED
    BY <2>1, <2>2, <2>3, <2>4, <2>5 DEF RunnerTypes
<1>4. WorldTypes /\ HistoryTypes
  <2>1. /\ names \in [{"root", "evaluation"} -> Directories]
        /\ results \in [Directories -> {"absent", "claimed", "rows", "pair", "other"}]
    BY DEF Init, Directories
  <2>2. misread \in SUBSET Artifacts /\ disturbances \in 0..MaxDisturbances
    BY DisturbancesAssumption DEF Init
  <2>3. edited \in SUBSET Parts /\ head \in BOOLEAN /\ steady \in BOOLEAN
    BY DEF Init
  <2>4. accepted = FALSE /\ witnessed = {} /\ strayed = FALSE /\ vouched = FALSE
    BY DEF Init
  <2> QED
    BY <2>1, <2>2, <2>3, <2>4 DEF Init, WorldTypes, HistoryTypes
<1>5. PartInv /\ SealInv /\ RetainInv /\ ReadInv /\ IntentInv /\ ReceiptInv
  BY DEF Init, PartInv, SealInv, RetainInv, ReadInv, IntentInv, Due, ReceiptInv,
         AfterEvidence, AfterArchive, AfterVerdict, AfterSeal, AfterRetain, Running,
         Looking, HeadSeen, ListSeen, Early, Working, Preflight, Published
<1> QED
  BY <1>1, <1>2, <1>3, <1>4, <1>5 DEF Inv, Types

LEMMA TreeInvKept ==
  ASSUME Inv, [Next]_vars
  PROVE  TreeInv'
<1> USE DEF Inv, Types, treeVars
<1>1. CASE UNCHANGED treeVars
  BY <1>1 DEF TreeInv
<1>2. CASE CopyToPrivateTree
  BY <1>2 DEF CopyToPrivateTree, WriteCopies, TreeInv, Passes, Begun
<1>3. CASE PrivateTreeStep
  BY <1>3, TreeKept DEF PrivateTreeStep
<1>4. CASE \E c \in Copies : Meddle(c)
  BY <1>4, TreeKept DEF Meddle
<1>5. Looks \/ ReadsGate \/ Asks => UNCHANGED treeVars
  BY LooksMoveOn, ReadsMoveOn, AsksMoveOn
<1>6. GateWorks \/ Start \/ RetainFile \/ SealWheel \/ CheckTargetAgain
        \/ Verify \/ RecheckFile \/ Claim \/ RecordRows \/ RecordSummary => UNCHANGED treeVars
  BY DEF GateWorks, Start, RetainFile, SealWheel, CheckTargetAgain, Verify,
         RecheckFile, Claim, RecordRows, RecordSummary, Record
<1>7. EmitToOutput \/ ReceiptExists \/ Fail \/ Killed \/ CreateReceipt \/ WriteReceiptFile
        => UNCHANGED treeVars
  BY DEF EmitToOutput, ReceiptExists, Fail, Killed, CreateReceipt, WriteReceiptFile
<1>8. SomebodyElse => UNCHANGED treeVars \/ \E c \in Copies : Meddle(c)
  BY DEF SomebodyElse, TamperGate, DamageReceipt, EditWorktree, MoveHead, MoveName,
         PutOtherPair, PutOtherReceipt
<1> QED
  BY <1>1, <1>2, <1>3, <1>4, <1>5, <1>6, <1>7, <1>8
     DEF Next, Prepare, LookAgain, RunOnce, Looks, ReadsGate, Asks, vars

\* The steps by which somebody else, or the end of the run, interrupts it.
Ends == EmitToOutput \/ ReceiptExists \/ Fail \/ Killed

Records == RecordRows \/ RecordSummary

\* A disjunct of Next, in the groups the lemmas below go through.
LEMMA StepCases ==
  ASSUME [Next]_vars
  PROVE  \/ GateWorks \/ Start \/ Looks \/ Asks \/ ReadsGate \/ RetainFile
         \/ CopyToPrivateTree \/ PrivateTreeStep \/ SealWheel \/ CheckTargetAgain \/ Verify
         \/ RecheckFile \/ Claim \/ Records \/ CreateReceipt \/ WriteReceiptFile
         \/ Ends \/ SomebodyElse \/ UNCHANGED vars
BY DEF Next, Prepare, LookAgain, RunOnce, Looks, Asks, ReadsGate, Ends, Records

\* What the questions do to the steps that the invariants speak of.
LEMMA AsksAt ==
  ASSUME Asks
  PROVE  /\ pc' \in Early => pc \in Early
         /\ pc' = "retain" => pc = "inventory"
         /\ pc' \notin {"idle", "receipts", "done"} /\ pc # "idle"
         /\ pc \notin {"retain", "receipts", "done"}
         /\ pc' \in AfterRetain => pc \in AfterRetain
         /\ pc' \in AfterSeal => pc \in AfterSeal
         /\ pc' \in AfterRetain => pc' \in AfterSeal
         /\ pc' = "recheck" => pc = "inventory_again"
         /\ pc # "recheck"
         /\ pc \notin Running
         /\ pc' \notin {"namespace_again", "target_again"} \cup Running
<1> USE DEF AfterRetain, AfterEvidence, AfterArchive, AfterVerdict, AfterSeal, Running,
            Looking, HeadSeen, ListSeen, Early, Working, Preflight, Published
<1>1. CASE \/ Turn("status", "format") \/ Turn("format", "commit")
           \/ Turn("commit", "tree") \/ Turn("tree", "epoch")
           \/ Turn("epoch", "contracts") \/ Turn("inventory", "retain")
  <2>1. /\ pc \in {"status", "format", "commit", "tree", "epoch", "inventory"}
        /\ pc' \in {"status", "format", "commit", "tree", "epoch", "contracts",
                    "inventory", "retain"}
        /\ pc' = "retain" => pc = "inventory"
    BY <1>1, TurnFrame
  <2> QED
    BY <2>1
<1>2. CASE \/ Turn("status_again", "format_again") \/ Turn("format_again", "commit_again")
           \/ Turn("commit_again", "tree_again") \/ Turn("tree_again", "epoch_again")
           \/ Turn("epoch_again", "runtime_again") \/ Turn("inventory_again", "recheck")
  <2>1. /\ pc \in {"status_again", "format_again", "commit_again", "tree_again",
                   "epoch_again", "inventory_again"}
        /\ pc' \in {"status_again", "format_again", "commit_again", "tree_again",
                    "epoch_again", "runtime_again", "inventory_again", "recheck"}
        /\ pc' = "recheck" => pc = "inventory_again"
    BY <1>2, TurnFrame
  <2> QED
    BY <2>1
<1> QED
  BY <1>1, <1>2, AsksTurn

\* Every other step leaves alone which part a look has come to and what was
\* found; only HEAD may move.
LEMMA NotAsking ==
  ASSUME [Next]_vars, ~Asks
  PROVE  /\ UNCHANGED <<part, witnessed>>
         /\ \/ pc' \in {pc, "done"}
            \/ pc \in (Working \cup {"idle"}) \ {"status", "status_again", "inventory",
                                                "inventory_again"}
         /\ UNCHANGED <<steady, head>> \/ MoveHead
<1> USE DEF Working, Preflight, Published
<1> USE DEF world, checkout, history, runnerVars, Goto, End
<1>1. CASE Looks
  BY <1>1
     DEF Looks, Check, CheckRuntime, OpenRoots, CheckRoots,
         ReadContracts, CheckNamespace, ReadReceipts, CompareCopies,
         RegenerateArchive, BindManifest, AcceptVerdict, Probe, CheckTarget,
         CheckRuntimeAgain, CheckAnchorsAgain,
         CheckNamespaceAgain, CheckAnchors, Execute, PrepareBundle,
         CheckAnchorsPublished, CheckAnchorsVerified
<1>2. CASE ReadsGate \/ SealWheel \/ RetainFile \/ RecheckFile
  BY <1>2 DEF ReadsGate, JudgeEvidence, BindWheel, SmokeAgain, SealWheel, RetainFile,
     RecheckFile, Reads
<1>3. CASE GateWorks \/ Start \/ CopyToPrivateTree \/ PrivateTreeStep
  BY <1>3 DEF GateWorks, Start, CopyToPrivateTree, PrivateTreeStep
<1>4. CASE CheckTargetAgain \/ Verify
  BY <1>4 DEF CheckTargetAgain, Verify
<1>5. CASE Claim \/ Records \/ CreateReceipt \/ WriteReceiptFile \/ Ends
  BY <1>5 DEF Claim, Records, RecordRows, RecordSummary, Record, CreateReceipt,
     WriteReceiptFile, Ends, EmitToOutput, ReceiptExists, Fail, Killed
<1>6. CASE SomebodyElse
  BY <1>6
     DEF SomebodyElse, Disturb, TamperGate, DamageReceipt, Meddle, EditWorktree,
         MoveHead, MoveName, PutOtherPair, PutOtherReceipt
<1>7. CASE UNCHANGED vars
  BY <1>7 DEF vars
<1> QED
  BY <1>1, <1>2, <1>3, <1>4, <1>5, <1>6, <1>7, StepCases

LEMMA PartKept ==
  ASSUME Inv, [Next]_vars
  PROVE  PartInv'
<1> DEFINE Turning == {"status", "status_again", "inventory", "inventory_again"}
<1> USE DEF Inv
<1>1. CASE ~Asks
  <2>1. UNCHANGED part
    BY <1>1, NotAsking
  <2>2. CASE pc' \in {pc, "done"}
    BY <2>1, <2>2 DEF PartInv
  <2>3. CASE pc \in (Working \cup {"idle"}) \ Turning
    <3>1. "done" \notin Working \cup {"idle"}
      BY DEF Working, Preflight, Published
    <3> QED
      BY <2>1, <2>3, <3>1 DEF PartInv
  <2> QED
    BY <1>1, <2>2, <2>3, NotAsking
<1>2. CASE Asks
  <2>1. ASSUME NEW step \in {"status", "status_again"}, NEW next, next \notin Turning,
               AskStatus(step, next)
        PROVE  PartInv'
    BY <2>1 DEF AskStatus, NextPart, PartInv
  <2>2. ASSUME NEW step, step \notin Turning \cup {"done"}, NEW next, next \notin Turning,
               AskHead(step, next) \/ Check(step, TRUE, next)
        PROVE  PartInv'
    BY <2>2 DEF AskHead, Check, Goto, PartInv
  <2>3. ASSUME NEW step \in {"inventory", "inventory_again"}, NEW next, next \notin Turning,
               ReadListed(step, next)
        PROVE  PartInv'
    <3>1. part \in 1..2 /\ pc = step
      BY <2>3 DEF ReadListed, PartInv
    <3> QED
      BY <2>3, <3>1 DEF ReadListed, NextPart, PartInv
  <2> QED
    BY <1>2, <2>1, <2>2, <2>3
       DEF Asks, AskGit, AskGitAgain, TakeInventory, TakeInventoryAgain
<1> QED
  BY <1>1, <1>2

LEMMA SealKept ==
  ASSUME Inv, [Next]_vars
  PROVE  SealInv'
<1> USE DEF SealInv, AfterSeal, AfterVerdict, AfterArchive, AfterEvidence, Running,
            Looking, HeadSeen, ListSeen, Working, Preflight, Published
<1> USE DEF Inv, gateVars, treeVars, world, history, runnerVars
<1>1. CASE Looks
  <2>1. pc \in Working /\ pc' \in Working /\ UNCHANGED <<expected, kept, sealed, accepted>>
    BY <1>1, LooksMoveOn
  <2>2. pc = "verdict" /\ pc' = "binding" => kept["primary_wheel"] = "right"
    <3>1. pc = "verdict" /\ pc' = "binding" =>
            tpc = "unchanged" /\ VerdictHolds
      BY <1>1
         DEF Looks, Check, Goto, CheckRuntime, OpenRoots, CheckRoots,
             ReadContracts, CheckNamespace, ReadReceipts, CompareCopies,
             RegenerateArchive, BindManifest, AcceptVerdict, Probe, CheckTarget,
             CheckRuntimeAgain, CheckAnchorsAgain,
             CheckNamespaceAgain, CheckAnchors, Execute, PrepareBundle,
             CheckAnchorsPublished, CheckAnchorsVerified
    <3>2. tpc = "unchanged" => childSaw = {}
      BY DEF TreeInv, Begun
    <3> QED
      BY <3>1, <3>2 DEF VerdictHolds, Consistent, WheelMatches
  <2>3. /\ pc' \in AfterEvidence => pc \in AfterEvidence
        /\ pc' \in AfterArchive =>
             \/ pc \in AfterArchive
             \/ kept["source-primary.tar"] = "right"
        /\ pc' \in AfterVerdict =>
             \/ pc \in AfterVerdict
             \/ pc = "verdict" /\ pc' = "binding"
        /\ pc' \in AfterSeal => pc \in AfterSeal
        /\ pc \in Running => pc' \in Running
    BY <1>1
       DEF Looks, Check, Goto, CheckRuntime, OpenRoots, CheckRoots,
           ReadContracts, CheckNamespace, ReadReceipts, CompareCopies,
           RegenerateArchive, BindManifest, AcceptVerdict, Probe, CheckTarget,
           CheckRuntimeAgain, CheckAnchorsAgain,
           CheckNamespaceAgain, CheckAnchors, Execute, PrepareBundle,
           CheckAnchorsPublished, CheckAnchorsVerified, SameExport
  <2> QED
    BY <2>1, <2>2, <2>3
<1>2. CASE ReadsGate
  BY <1>2 DEF ReadsGate, JudgeEvidence, BindWheel, SmokeAgain, Reads, Goto, ArtifactsBound
<1>3. CASE RetainFile
  BY <1>3 DEF RetainFile
<1>4. CASE SealWheel
  BY <1>4 DEF SealWheel, Reads
<1>5. CASE CheckTargetAgain \/ Verify
  <2>1. /\ UNCHANGED <<expected, kept, sealed>>
        /\ \/ pc = "target_again" /\ pc' = "anchors"
           \/ pc = "verify" /\ pc' = "anchors_verified" /\ accepted' = accepted
    BY <1>5 DEF CheckTargetAgain, Verify, Goto
  <2> QED
    BY <2>1
<1>6. CASE RecheckFile
  BY <1>6 DEF RecheckFile
<1>7. CASE Claim \/ Records
  BY <1>7 DEF Claim, Records, RecordRows, RecordSummary, Record
<1>8. CASE CreateReceipt \/ WriteReceiptFile
  BY <1>8 DEF CreateReceipt, WriteReceiptFile, Goto, End
<1>9. CASE Ends
  BY <1>9 DEF Ends, EmitToOutput, ReceiptExists, Fail, Killed, End
<1>10. CASE GateWorks \/ Start \/ CopyToPrivateTree \/ PrivateTreeStep
  BY <1>10 DEF GateWorks, Start, CopyToPrivateTree, PrivateTreeStep, Goto
<1>11. CASE SomebodyElse \/ UNCHANGED vars
  <2>1. UNCHANGED <<pc, expected, kept, sealed, accepted>>
    BY <1>11
       DEF SomebodyElse, Disturb, TamperGate, DamageReceipt, Meddle, EditWorktree,
           MoveHead, MoveName, PutOtherPair, PutOtherReceipt, vars
  <2> QED
    BY <2>1
<1>12. CASE Asks
  <2>1. /\ UNCHANGED <<expected, kept, sealed, accepted>>
        /\ pc \notin Running \cup {"done"}
        /\ pc' \in AfterSeal => pc \in AfterSeal
        /\ pc' \in AfterRetain => pc' \in AfterSeal
    BY <1>12, AsksMoveOn, AsksAt
  <2> HIDE DEF AfterSeal, Running
  <2>2. AfterSeal \subseteq AfterVerdict /\ AfterEvidence \subseteq AfterRetain
    BY DEF AfterRetain
  <2> QED
    BY <2>1, <2>2 DEF AfterRetain
<1> QED
  BY <1>1, <1>2, <1>3, <1>4, <1>5, <1>6, <1>7, <1>8, <1>9, <1>10, <1>11, <1>12, StepCases

LEMMA ReceiptKept ==
  ASSUME Inv, [Next]_vars
  PROVE  ReceiptInv'
<1> USE DEF ReceiptInv, Running, Working, Preflight, Published
<1> USE DEF Inv, gateVars, treeVars, world, history, runnerVars
<1>1. CASE Looks
  BY <1>1
     DEF Looks, Check, Goto, CheckRuntime, OpenRoots, CheckRoots,
         ReadContracts, CheckNamespace, ReadReceipts, CompareCopies,
         RegenerateArchive, BindManifest, AcceptVerdict, Probe, CheckTarget,
         CheckRuntimeAgain, CheckAnchorsAgain,
         CheckNamespaceAgain, CheckAnchors, Execute, PrepareBundle,
         CheckAnchorsPublished, CheckAnchorsVerified
<1>2. CASE ReadsGate
  BY <1>2 DEF ReadsGate, JudgeEvidence, BindWheel, SmokeAgain, Reads, Goto
<1>3. CASE RetainFile
  BY <1>3 DEF RetainFile
<1>4. CASE SealWheel
  BY <1>4 DEF SealWheel, Reads
<1>5. CASE CheckTargetAgain \/ Verify
  BY <1>5 DEF CheckTargetAgain, Verify, Goto, DigestsAgree
<1>6. CASE RecheckFile
  BY <1>6 DEF RecheckFile
<1>7. CASE Claim \/ Records
  BY <1>7 DEF Claim, Records, RecordRows, RecordSummary, Record
<1>8. CASE CreateReceipt \/ WriteReceiptFile
  BY <1>8 DEF CreateReceipt, WriteReceiptFile, Goto, End
<1>9. CASE Ends
  <2>1. FailCode # "emitted"
    BY DEF FailCode
  <2> QED
    BY <1>9, <2>1 DEF Ends, EmitToOutput, ReceiptExists, Fail, Killed, End
<1>10. CASE GateWorks \/ Start \/ CopyToPrivateTree \/ PrivateTreeStep
  BY <1>10 DEF GateWorks, Start, CopyToPrivateTree, PrivateTreeStep, Goto
<1>11. CASE SomebodyElse \/ UNCHANGED vars
  <2>1. /\ UNCHANGED <<pc, accepted, published, vouched, outcome>>
        /\ receipt' \in {receipt, "foreign"}
    BY <1>11
       DEF SomebodyElse, Disturb, TamperGate, DamageReceipt, Meddle, EditWorktree,
           MoveHead, MoveName, PutOtherPair, PutOtherReceipt, vars
  <2> QED
    BY <2>1
<1>12. CASE Asks
  <2>1. /\ pc \in Preflight /\ pc' \in Preflight
        /\ UNCHANGED <<accepted, published, vouched, receipt, outcome>>
    BY <1>12, AsksMoveOn
  <2> QED
    BY <2>1
<1> QED
  BY <1>1, <1>2, <1>3, <1>4, <1>5, <1>6, <1>7, <1>8, <1>9, <1>10, <1>11, <1>12, StepCases

\* What the checks do to the two indices of the passes over the gate's files.
LEMMA LooksAt ==
  ASSUME Looks
  PROVE  /\ pc' \in Early => pc \in Early
         /\ pc' # "retain"
         /\ pc' = "receipts" =>
              /\ pc = "retain" /\ at = 6
              /\ \A r \in ReceiptFiles : receipts[r] = expected[r]
         /\ pc' \in AfterRetain => pc \in AfterRetain
         /\ pc # "recheck" /\ pc' # "recheck"
         /\ pc' \notin {"format_again", "commit_again"}
         /\ pc' \in HeadSeen => pc \in HeadSeen
         /\ pc' \in ListSeen => pc \in ListSeen
         /\ pc' \in {"namespace_again", "target_again"} =>
              pc \in {"namespace_again", "target_again"}
         /\ pc' \in Running => pc \in Running
BY DEF Looks, Check, Goto, CheckRuntime, OpenRoots, CheckRoots,
       ReadContracts, CheckNamespace, ReadReceipts, CompareCopies,
       RegenerateArchive, BindManifest, AcceptVerdict, Probe, CheckTarget,
       CheckRuntimeAgain, CheckAnchorsAgain,
       CheckNamespaceAgain, CheckAnchors, Execute, PrepareBundle,
       CheckAnchorsPublished, CheckAnchorsVerified, AfterRetain, AfterEvidence,
       AfterArchive, AfterVerdict, AfterSeal, Running, Looking, HeadSeen, ListSeen,
       Early, Working, Preflight, Published

\* The steps after the gate's files are retained that leave them alone.
Onward == ReadsGate \/ CopyToPrivateTree \/ PrivateTreeStep \/ SealWheel
            \/ CheckTargetAgain \/ Verify \/ Claim \/ Records \/ CreateReceipt
            \/ WriteReceiptFile

LEMMA OnwardMoves ==
  ASSUME Onward
  PROVE  /\ pc \in AfterRetain /\ pc # "recheck"
         /\ pc' \in AfterRetain \cup {"done"} /\ pc' # "recheck"
         /\ pc' \notin Looking
         /\ pc' \in Running => pc \in Running \/ CheckTargetAgain
<1> USE DEF AfterRetain, AfterEvidence, AfterArchive, AfterVerdict, AfterSeal, Running,
            Looking, HeadSeen, ListSeen, Working, Preflight, Published, Goto, End
<1>1. CASE ReadsGate
  BY <1>1 DEF ReadsGate, JudgeEvidence, BindWheel, SmokeAgain
<1>2. CASE CopyToPrivateTree
  BY <1>2 DEF CopyToPrivateTree
<1>3. CASE PrivateTreeStep
  BY <1>3 DEF PrivateTreeStep, runnerVars
<1>4. CASE SealWheel
  BY <1>4 DEF SealWheel
<1>6. CASE CheckTargetAgain
  <2>1. pc = "target_again" /\ pc' = "anchors"
    BY <1>6 DEF CheckTargetAgain
  <2> QED
    BY <1>6, <2>1
<1>7. CASE Verify
  BY <1>7 DEF Verify
<1>8. CASE Claim
  BY <1>8 DEF Claim
<1>9. CASE Records
  BY <1>9 DEF Records, RecordRows, RecordSummary, Record
<1>10. CASE CreateReceipt \/ WriteReceiptFile
  BY <1>10 DEF CreateReceipt, WriteReceiptFile
<1> QED
  BY <1>1, <1>2, <1>3, <1>4, <1>6, <1>7, <1>8, <1>9, <1>10 DEF Onward

LEMMA OnwardFrame ==
  ASSUME Onward
  PROVE  /\ UNCHANGED <<gpc, gate, receipts, at, expected, kept, retained, touched>>
         /\ UNCHANGED <<strayed, names>>
         /\ CheckTargetAgain \/ UNCHANGED accepted
         /\ ReadsGate \/ SealWheel \/ UNCHANGED misread
         /\ UNCHANGED witnessed
<1> USE DEF gateVars, history, world, Goto, End, Reads
<1>1. CASE ReadsGate
  BY <1>1 DEF ReadsGate, JudgeEvidence, BindWheel, SmokeAgain
<1>2. CASE CopyToPrivateTree \/ PrivateTreeStep
  BY <1>2 DEF CopyToPrivateTree, PrivateTreeStep, runnerVars
<1>3. CASE SealWheel
  BY <1>3 DEF SealWheel
<1>5. CASE CheckTargetAgain
  BY <1>5 DEF CheckTargetAgain
<1>6. CASE Verify
  BY <1>6 DEF Verify
<1>7. CASE Claim \/ Records
  BY <1>7 DEF Claim, Records, RecordRows, RecordSummary, Record
<1>8. CASE CreateReceipt \/ WriteReceiptFile
  BY <1>8 DEF CreateReceipt, WriteReceiptFile
<1> QED
  BY <1>1, <1>2, <1>3, <1>5, <1>6, <1>7, <1>8 DEF Onward

LEMMA RetainableFiles ==
  /\ \A i \in 1..8 : RetainOrder[i] \in Retainable
  /\ \A f \in Retainable : \E i \in 1..8 : f = RetainOrder[i]
  /\ Artifacts \subseteq Retainable /\ ReceiptFiles \subseteq Retainable
  /\ RetainOrder[1] = "distribution" /\ RetainOrder[2] = "smoke"
<1>1. /\ RetainOrder[1] = "distribution" /\ RetainOrder[2] = "smoke"
      /\ RetainOrder[3] = "source-primary.tar" /\ RetainOrder[4] = "source-rebuild.tar"
      /\ RetainOrder[5] = "wheel-runtime" /\ RetainOrder[6] = "primary_wheel"
      /\ RetainOrder[7] = "sdist" /\ RetainOrder[8] = "rebuilt_wheel"
  BY DEF RetainOrder
<1>2. \A i \in 1..8 : RetainOrder[i] \in Retainable
  BY DEF Retainable
<1> HIDE DEF RetainOrder
<1>3. Artifacts \subseteq Retainable /\ ReceiptFiles \subseteq Retainable
  BY <1>1, <1>2 DEF Artifacts, ReceiptFiles
<1> QED
  BY <1>1, <1>2, <1>3 DEF Retainable

\* Retaining one more file keeps what is retained.
LEMMA RetainFileKeeps ==
  ASSUME Inv, RetainFile
  PROVE  RetainInv'
<1> USE DEF Inv, gateVars, treeVars, world, history
<1> DEFINE f == RetainOrder[at]
<1>1. /\ pc \in {"retain", "receipts"} /\ at \in 1..8 /\ f \in Retainable
      /\ pc = "retain" => at <= 5
      /\ pc = "receipts" => at > 5
      /\ retained \subseteq Retainable
      /\ \A i \in 1..8 : i < at => RetainOrder[i] \in retained
  BY RetainableFiles DEF RetainFile, Types, RunnerTypes, RetainInv
<1>2. /\ retained' = retained \cup {f}
      /\ kept' = IF f \in Artifacts THEN [kept EXCEPT ![f] = gate[f]] ELSE kept
      /\ at' = IF at = 8 THEN 1 ELSE at + 1
      /\ pc' = IF at = 8 THEN "compare" ELSE pc
      /\ UNCHANGED <<gpc, gate, receipts, expected, touched, accepted>>
  BY DEF RetainFile
<1>3. \A i \in 1..8 : i <= at => RetainOrder[i] \in retained'
  BY <1>1, <1>2
<1>4. \A g \in (retained' \cap Artifacts) \ touched' : gate'[g] = kept'[g]
  BY <1>2 DEF RetainInv, Types, RunnerTypes
<1>5. at = 8 => retained' = Retainable
  BY <1>1, <1>2, <1>3, RetainableFiles
<1>6. pc = "receipts" /\ ~accepted' =>
        \A r \in ReceiptFiles \ touched' : receipts'[r] = expected'[r]
  BY <1>2 DEF RetainInv
<1>7. pc = "receipts" \/ at # 8
  BY <1>1
<1> QED
  BY <1>1, <1>2, <1>3, <1>4, <1>5, <1>6, <1>7
     DEF RetainInv, Early, AfterRetain, AfterEvidence, AfterArchive, AfterVerdict,
         AfterSeal, Running, Looking, HeadSeen, ListSeen, Working, Preflight, Published

LEMMA RetainKept ==
  ASSUME Inv, [Next]_vars
  PROVE  RetainInv'
<1> USE DEF Inv, gateVars, world
<1>0. /\ Early \cap (AfterRetain \cup {"retain", "receipts", "idle", "done"}) = {}
      /\ AfterRetain \cap {"retain", "receipts", "idle", "done"} = {}
  BY DEF Early, AfterRetain, AfterEvidence, AfterArchive, AfterVerdict, AfterSeal,
         Running, Looking, HeadSeen, ListSeen, Working, Preflight, Published
<1>1. CASE GateWorks
  <2>1. gpc \in GateSteps
    BY <1>1 DEF GateWorks, GateNext, GateSteps, ArchiveRepository, Export, CompareExports,
       Extract, Build, VerifyDistribution, WriteDistributionReceipt, UnpackSdist,
       ExerciseSdist, CheckCandidate, Install, Simulate, ReadOutputs, WriteSmokeReceipt,
       GateFails, Make, WriteReceipt
  <2>2. pc = "idle"
    BY <2>1 DEF RetainInv, GateSteps
  <2> QED
    BY <1>0, <1>1, <2>2 DEF GateWorks, RetainInv, runnerVars
<1>2. CASE Start
  <2>1. "runtime" \in Early
    BY DEF Early
  <2> QED
    BY <1>0, <1>2, <2>1 DEF Start, RetainInv
<1>3. CASE Looks
  <2>1. /\ pc \in Working /\ pc' \in Working
        /\ UNCHANGED <<gpc, gate, receipts, at, expected, kept, retained, touched, accepted>>
    BY <1>3, LooksMoveOn DEF history
  <2>2. pc # "idle" /\ pc' # "idle"
    BY <2>1 DEF Working, Preflight, Published
  <2> QED
    BY <1>0, <1>3, <2>1, <2>2, LooksAt DEF RetainInv
<1>4. CASE RetainFile
  BY <1>4, RetainFileKeeps
<1>5. CASE Onward
  <2>1. accepted => accepted'
    BY <1>5, OnwardFrame DEF CheckTargetAgain
  <2> QED
    BY <1>0, <1>5, <2>1, OnwardMoves, OnwardFrame DEF RetainInv
<1>6. CASE RecheckFile
  <2>1. /\ pc = "recheck" /\ pc' \in {"recheck", "namespace_again"}
        /\ pc' = "namespace_again" => at' = 1
        /\ UNCHANGED <<gpc, gate, receipts, expected, kept, retained, touched, accepted>>
    BY <1>6 DEF RecheckFile, history
  <2>2. {"recheck", "namespace_again"} \subseteq AfterRetain
    BY DEF AfterRetain, AfterEvidence, AfterArchive, AfterVerdict, AfterSeal, Looking,
       HeadSeen, ListSeen
  <2> QED
    BY <1>0, <2>1, <2>2 DEF RetainInv
<1>7. CASE Ends
  <2>1. /\ pc' = "done" /\ pc \in Working
        /\ UNCHANGED <<gpc, gate, receipts, kept, retained, touched>>
    BY <1>7 DEF Ends, EmitToOutput, ReceiptExists, Fail, Killed, End, Working, Published
  <2>2. pc # "idle"
    BY <2>1 DEF Working, Preflight, Published
  <2> QED
    BY <1>0, <2>1, <2>2 DEF RetainInv
<1>8. CASE SomebodyElse
  <2>1. ASSUME NEW g \in Files, NEW bytes \in Flavours, TamperGate(g, bytes)
        PROVE  RetainInv'
    BY <2>1 DEF TamperGate, RetainInv, Types, GateTypeOK, Disturb
  <2>2. ASSUME NEW r \in ReceiptFiles, DamageReceipt(r) PROVE RetainInv'
    <3>1. /\ UNCHANGED <<gpc, gate, pc, at, expected, kept, retained, accepted>>
          /\ touched' = touched \cup ({r} \cap retained)
          /\ receipts' = [receipts EXCEPT ![r].state = "torn"]
      BY <2>2 DEF DamageReceipt, Disturb
    <3>2. pc \in {"receipts"} \cup AfterRetain => r \in retained
      BY RetainableFiles DEF RetainInv, ReceiptFiles
    <3>3. \A q \in ReceiptFiles \ {r} : receipts'[q] = receipts[q]
      BY <3>1 DEF Types, GateTypeOK, ReceiptFiles
    <3> QED
      BY <3>1, <3>2, <3>3 DEF RetainInv
  <2>3. CASE \/ (\E q \in Parts : EditWorktree(q)) \/ MoveHead \/ PutOtherReceipt
             \/ \E c \in Copies : Meddle(c)
             \/ \E n \in DOMAIN names : MoveName(n)
             \/ \E d \in Directories : PutOtherPair(d)
    <3>1. UNCHANGED <<gpc, gate, receipts, pc, at, expected, kept, retained, touched, accepted>>
      BY <2>3
         DEF EditWorktree, MoveHead, PutOtherReceipt, Meddle, MoveName, PutOtherPair,
             Disturb, runnerVars, history
    <3> QED
      BY <3>1 DEF RetainInv
  <2> QED
    BY <1>8, <2>1, <2>2, <2>3 DEF SomebodyElse
<1>9. CASE UNCHANGED vars
  BY <1>9 DEF vars, runnerVars, history, RetainInv
<1>10. CASE Asks
  <2>1. UNCHANGED <<gpc, gate, receipts, at, expected, kept, retained, touched, accepted>>
    BY <1>10, AsksMoveOn
  <2>2. "inventory" \in Early
    BY DEF Early
  <2>3. pc' = "retain" => at = 1
    BY <1>10, <2>2, AsksAt DEF RetainInv
  <2> QED
    BY <1>0, <1>10, <2>1, <2>3, AsksAt DEF RetainInv
<1> QED
  BY <1>1, <1>2, <1>3, <1>4, <1>5, <1>6, <1>7, <1>8, <1>9, <1>10, StepCases DEF Onward

\* A step of somebody else, the gate or the end of the run: the runner has not
\* moved on and no retained file lost its mark.
Aside == GateWorks \/ Start \/ Ends \/ SomebodyElse \/ UNCHANGED vars

LEMMA AsideFrame ==
  ASSUME Inv, Aside
  PROVE  /\ UNCHANGED <<pc, at>> \/ pc' \in {"runtime", "done"}
         /\ touched \subseteq touched'
         /\ UNCHANGED <<misread, accepted>>
         /\ strayed' \/ UNCHANGED <<strayed, names>>
<1> USE DEF gateVars, history, world, runnerVars
<1>1. CASE GateWorks \/ Start
  BY <1>1 DEF GateWorks, Start
<1>2. CASE Ends
  BY <1>2 DEF Ends, EmitToOutput, ReceiptExists, Fail, Killed, End
<1>3. CASE SomebodyElse
  BY <1>3
     DEF SomebodyElse, Disturb, TamperGate, DamageReceipt, Meddle, EditWorktree,
         MoveHead, MoveName, PutOtherPair, PutOtherReceipt
<1>4. CASE UNCHANGED vars
  BY <1>4 DEF vars
<1> QED
  BY <1>1, <1>2, <1>3, <1>4 DEF Aside

LEMMA ReadKept ==
  ASSUME Inv, [Next]_vars
  PROVE  ReadInv'
<1> USE DEF Inv
<1>0. /\ {"runtime", "done"} \cap ({"recheck", "namespace_again", "target_again"} \cup Running) = {}
      /\ {"recheck", "namespace_again"} \cap Running = {}
      /\ {"retain", "receipts"} \cap ({"recheck", "namespace_again", "target_again"}
            \cup Running) = {}
  BY DEF Running, Working, Preflight, Published
<1>1. CASE Aside
  BY <1>0, <1>1, AsideFrame DEF ReadInv
<1>2. CASE Looks
  <2>1. UNCHANGED <<misread, touched, at, accepted>>
    BY <1>2, LooksMoveOn DEF history
  <2>2. pc' \in {"namespace_again", "target_again"} =>
          pc \in {"namespace_again", "target_again"}
    BY <1>2, LooksAt DEF ListSeen
  <2> QED
    BY <1>2, <2>1, <2>2, LooksAt DEF ReadInv
<1>3. CASE RetainFile
  <2>1. /\ pc' \in {"retain", "receipts", "compare"}
        /\ UNCHANGED <<misread, touched, accepted>>
    BY <1>3 DEF RetainFile, history
  <2>2. "compare" \notin {"recheck", "namespace_again", "target_again"} \cup Running
    BY DEF Running, Preflight
  <2> QED
    BY <1>0, <2>1, <2>2 DEF ReadInv
<1>4. CASE Onward
  <2>0. /\ pc \in AfterRetain
        /\ pc' \in AfterRetain \cup {"done"} /\ pc' # "recheck"
        /\ pc' \notin {"namespace_again", "target_again"}
        /\ pc' \in Running => pc \in Running \/ CheckTargetAgain
        /\ UNCHANGED <<gate, kept, retained, touched>>
    BY <1>4, OnwardMoves, OnwardFrame DEF Looking, HeadSeen, ListSeen
  <2>1. CASE ReadsGate \/ SealWheel
    <3>1. /\ misread' \subseteq misread \cup
               {f \in {"primary_wheel", "wheel-runtime"} : gate[f] # kept[f]}
          /\ UNCHANGED accepted
      BY <2>1, ReadsMoveOn DEF SealWheel, Reads
    <3>2. /\ pc \in {"evidence", "binding", "smoke", "seal"}
          /\ pc' \in {"regenerate", "seal", "probe", "smoke"}
      BY <2>1 DEF ReadsGate, JudgeEvidence, BindWheel, SmokeAgain, SealWheel, Goto
    <3>3. ~accepted /\ pc' \notin {"recheck", "namespace_again", "target_again"} \cup Running
      BY <3>2 DEF SealInv, Running, Preflight
    <3>4. {"primary_wheel", "wheel-runtime"} \subseteq retained \cap Artifacts
      BY <2>0, RetainableFiles DEF RetainInv, Artifacts
    <3>5. misread' \subseteq touched'
      BY <2>0, <3>1, <3>4 DEF RetainInv, ReadInv
    <3> QED
      BY <3>1, <3>3, <3>5 DEF ReadInv
  <2>2. CASE ~ReadsGate /\ ~SealWheel
    <3>1. misread' = misread
      BY <1>4, <2>2, OnwardFrame
    <3>2. CASE CheckTargetAgain
      <4>1. pc = "target_again" /\ pc' = "anchors"
        BY <3>2 DEF CheckTargetAgain, Goto
      <4> QED
        BY <2>0, <3>1, <4>1 DEF ReadInv
    <3>3. CASE ~CheckTargetAgain
      <4>1. accepted' = accepted
        BY <1>4, <3>3, OnwardFrame
      <4> QED
        BY <2>0, <3>1, <3>3, <4>1 DEF ReadInv
    <3> QED
      BY <3>2, <3>3
  <2> QED
    BY <2>1, <2>2
<1>5. CASE RecheckFile
  <2>1. /\ pc = "recheck" /\ RetainOrder[at] \notin touched
        /\ at' = IF at = 8 THEN 1 ELSE at + 1
        /\ pc' = IF at = 8 THEN "namespace_again" ELSE pc
        /\ UNCHANGED <<touched, misread, accepted>>
    BY <1>5 DEF RecheckFile, Unchanged, SignatureKept, history
  <2>2. /\ at \in 1..8 /\ misread \subseteq Retainable
    BY RetainableFiles DEF Types, RunnerTypes, HistoryTypes
  <2>3. \A i \in 1..8 : i <= at => RetainOrder[i] \notin misread
    BY <2>1, <2>2 DEF ReadInv
  <2>4. at = 8 => misread = {}
    BY <2>2, <2>3, RetainableFiles
  <2> QED
    BY <1>0, <2>1, <2>2, <2>3, <2>4 DEF ReadInv
<1>6. CASE Asks
  <2>1. UNCHANGED <<misread, touched, at, accepted>>
    BY <1>6, AsksMoveOn
  <2>2. "inventory_again" \in AfterRetain
    BY DEF AfterRetain, AfterEvidence, AfterArchive, AfterVerdict, AfterSeal, Looking,
           HeadSeen
  <2>3. pc' = "recheck" => at = 1
    BY <1>6, <2>2, AsksAt DEF RetainInv
  <2>4. at \in 1..8
    BY DEF Types, RunnerTypes
  <2> QED
    BY <1>6, <2>1, <2>3, <2>4, AsksAt DEF ReadInv
<1> QED
  BY <1>1, <1>2, <1>3, <1>4, <1>5, <1>6, StepCases DEF Aside, Onward

\* While no retained file tells, receipts and artifacts are all as recorded.
LEMMA GateStands ==
  ASSUME Inv, pc \in AfterRetain, ~accepted, ~Tells(1)
  PROVE  receipts = expected /\ \A f \in Artifacts : gate[f] = kept[f]
<1> USE DEF Inv
<1>1. \A i \in 1..8 : RetainOrder[i] \notin touched
  BY DEF Tells
<1>2. touched = {} /\ retained = Retainable
  BY <1>1, RetainableFiles DEF RetainInv, Types, RunnerTypes
<1>3. \A f \in Artifacts : gate[f] = kept[f]
  BY <1>2, RetainableFiles DEF RetainInv
<1>4. \A r \in ReceiptFiles : receipts[r] = expected[r]
  BY <1>2 DEF RetainInv
<1>5. receipts = expected
  BY <1>4 DEF Types, GateTypeOK, RunnerTypes, ReceiptFiles
<1> QED
  BY <1>3, <1>5

\* So what holds at a look is found then, unless a file tells, and all that was
\* found before stays so.
LEMMA WitnessFinds ==
  ASSUME Inv, pc \in AfterRetain, ~accepted, ~Tells(1), NEW fact, NEW holds,
         Witness(fact, holds)
  PROVE  /\ holds => fact \in witnessed'
         /\ \A f \in witnessed \ {fact} : f \in witnessed'
BY GateStands DEF Witness

\* The last questions, one by one.
LEMMA QuestionsKeep ==
  ASSUME Inv, AskGitAgain \/ TakeInventoryAgain
  PROVE  IntentInv'
<1> USE DEF Inv
<1>1. /\ UNCHANGED <<at, touched, strayed, accepted, names, head, edited>>
      /\ pc \in AfterRetain /\ ~accepted /\ pc # "recheck"
      /\ pc' \notin {"namespace_again", "target_again"} \cup Running
  <2>1. Asks
    BY DEF Asks
  <2>2. pc \in AfterRetain
    <3>1. /\ pc \in {"status_again", "format_again", "commit_again", "tree_again",
                     "epoch_again", "inventory_again"}
      BY DEF AskGitAgain, TakeInventoryAgain, AskStatus, AskHead, ReadListed, Check
    <3> QED
      BY <3>1 DEF AfterRetain, AfterEvidence, AfterArchive, AfterVerdict, AfterSeal,
         Looking, HeadSeen
  <2>3. ~accepted
    BY <2>1, AsksAt DEF SealInv
  <2> QED
    BY <2>1, <2>2, <2>3, AsksMoveOn, AsksAt
<1>2. /\ at = 1 /\ Tells(1)' <=> Tells(1)
      /\ pc' = "recheck" => at' = 1
  BY <1>1 DEF RetainInv, Tells
<1>3. /\ Due("head") => "head" \in witnessed \/ Tells(1)
      /\ Due("elsewhere") => "elsewhere" \in witnessed \/ Tells(1)
      /\ Due("package") => "package" \in witnessed \/ Tells(1)
  BY <1>1 DEF IntentInv, Parts, Sources
<1>4. ~strayed => names["root"] = "home"
  BY DEF IntentInv
<1>5. SUFFICES ASSUME ~Tells(1), NEW fact \in Parts \cup {"head"}, Due(fact)'
               PROVE  fact \in witnessed'
  BY <1>1, <1>2, <1>4 DEF IntentInv
<1>6. /\ "package" \in Sources /\ "protocol" \in Sources
      /\ "head" \notin Sources /\ "elsewhere" \notin Sources
      /\ fact \in {"package", "protocol", "elsewhere", "head"}
  BY DEF Sources, Parts
<1> USE DEF HeadSeen, ListSeen
<1>7. CASE AskStatus("status_again", "format_again")
  <2>1. pc' \in {"status_again", "format_again"} /\ (pc' = "format_again" => part = 3)
    BY <1>7 DEF AskStatus, NextPart
  <2>2. pc' = "format_again" /\ fact = "elsewhere" /\ ~strayed /\ steady' /\ head
    BY <1>1, <1>5, <1>6, <2>1 DEF Due
  <2>3. "elsewhere" \notin edited
    BY <1>4, <1>7, <2>1, <2>2, PartNames DEF AskStatus
  <2> QED
    BY <1>1, <1>5, <1>7, <2>1, <2>2, <2>3, PartNames, WitnessFinds DEF AskStatus
<1>8. CASE AskHead("commit_again", "tree_again")
  <2>1. /\ pc = "commit_again" /\ pc' = "tree_again" /\ UNCHANGED steady
        /\ Witness("head", head)
        /\ names["root"] = "home" => head
    BY <1>8 DEF AskHead, Goto, world, checkout
  <2>2. ~strayed /\ head /\ fact \in {"head", "elsewhere"}
    BY <1>1, <1>4, <1>5, <1>6, <2>1 DEF Due
  <2>3. fact = "elsewhere" => "elsewhere" \in witnessed
    BY <1>1, <1>3, <1>5, <1>6, <2>1, <2>2 DEF Due
  <2> QED
    BY <1>1, <1>5, <2>1, <2>2, <2>3, WitnessFinds
<1>9. CASE \/ Check("format_again", TRUE, "commit_again")
           \/ Check("tree_again", TRUE, "epoch_again")
           \/ Check("epoch_again", TRUE, "runtime_again")
  <2>1. /\ \/ pc = "format_again" /\ pc' = "commit_again"
           \/ pc = "tree_again" /\ pc' = "epoch_again"
           \/ pc = "epoch_again" /\ pc' = "runtime_again"
        /\ UNCHANGED <<steady, witnessed>>
    BY <1>9 DEF Check, Goto, world, checkout, history
  <2>2. Due(fact) /\ fact \in {"head", "elsewhere"}
    BY <1>1, <1>5, <1>6, <2>1 DEF Due
  <2> QED
    BY <1>3, <1>5, <2>1, <2>2
<1>10. CASE ReadListed("inventory_again", "recheck")
  <2>1. /\ pc = "inventory_again" /\ part \in 1..2 /\ UNCHANGED steady
        /\ Witness(PartOrder[part], PartOrder[part] \notin edited)
        /\ PartOrder[part] \notin edited
        /\ part = 1 => pc' = "inventory_again" /\ part' = 2
        /\ part = 2 => pc' = "recheck"
    BY <1>10 DEF ReadListed, NextPart, BlobMatches, PartInv, world, checkout
  <2>2. /\ PartOrder[part] \in witnessed'
        /\ \A f \in witnessed \ {PartOrder[part]} : f \in witnessed'
    BY <1>1, <1>5, <2>1, WitnessFinds
  <2>3. CASE fact = PartOrder[part]
    BY <2>2, <2>3
  <2>4. CASE fact # PartOrder[part]
    <3>1. Due(fact) /\ fact # "protocol"
      BY <1>1, <1>5, <1>6, <2>1, <2>4, PartNames DEF Due
    <3> QED
      BY <1>3, <1>5, <1>6, <2>2, <2>4, <3>1
  <2> QED
    BY <2>3, <2>4
<1> QED
  BY <1>7, <1>8, <1>9, <1>10 DEF AskGitAgain, TakeInventoryAgain

\* Nothing else makes the runner owe more than it did, but the last step of the
\* preflight, which comes when all of it is found.
LEMMA DueKept ==
  ASSUME Inv, [Next]_vars, ~Asks, NEW fact, Due(fact)'
  PROVE  Due(fact)
<1> USE DEF Inv
<1>0. /\ {"runtime", "done", "retain", "receipts", "compare"} \cap
           (Looking \cup Running) = {}
      /\ Looking \cap Running = {}
  BY DEF Looking, HeadSeen, ListSeen, Running, Working, Preflight, Published
<1>1. /\ UNCHANGED part
      /\ UNCHANGED <<steady, head>> \/ MoveHead
      /\ pc' \in {pc, "done"} \/ pc # "inventory_again"
  BY NotAsking
<1>2. /\ steady' => steady
      /\ steady' /\ head' /\ pc \in {"format_again", "commit_again"} => head
  BY <1>1 DEF MoveHead, UntilResolved, Types, WorldTypes
<1>3. strayed => strayed'
  <2>1. CASE Aside
    BY <2>1, AsideFrame
  <2>2. CASE Looks \/ RetainFile \/ RecheckFile
    BY <2>2, LooksMoveOn DEF RetainFile, RecheckFile, history
  <2>3. CASE Onward
    BY <2>3, OnwardFrame
  <2> QED
    BY <2>1, <2>2, <2>3, StepCases DEF Aside, Onward
<1>4. \/ /\ accepted' => accepted
         /\ pc' \in HeadSeen \cup Running => pc \in HeadSeen \cup Running
         /\ pc' \in ListSeen \cup Running => pc \in ListSeen \cup Running
         /\ pc' \in {"format_again", "commit_again"} => pc' = pc
         /\ pc' = "inventory_again" => pc' = pc \/ part = 1
      \/ pc = "target_again"
  <2> USE DEF Looking, HeadSeen, ListSeen
  <2>1. CASE Aside
    BY <1>0, <2>1, AsideFrame
  <2>2. CASE Looks
    <3>1. pc' = "inventory_again" => pc # "inventory_again" /\ part = 1
      <4>1. pc' = "inventory_again" => pc = "anchors_again"
        BY <2>2
           DEF Looks, Check, Goto, CheckRuntime, OpenRoots, CheckRoots,
               ReadContracts, CheckNamespace, ReadReceipts, CompareCopies,
               RegenerateArchive, BindManifest, AcceptVerdict, Probe, CheckTarget,
               CheckRuntimeAgain, CheckAnchorsAgain,
               CheckNamespaceAgain, CheckAnchors, Execute, PrepareBundle,
               CheckAnchorsPublished, CheckAnchorsVerified
      <4> QED
        BY <4>1 DEF PartInv
    <3> QED
      BY <2>2, <3>1, LooksAt, LooksMoveOn DEF history
  <2>3. CASE RetainFile
    <3>1. pc' \in {"retain", "receipts", "compare"} /\ UNCHANGED accepted
      BY <2>3 DEF RetainFile, history
    <3> QED
      BY <1>0, <3>1
  <2>4. CASE RecheckFile
    <3>1. /\ pc = "recheck" /\ pc' \in {"recheck", "namespace_again"}
          /\ UNCHANGED accepted
      BY <2>4 DEF RecheckFile, history
    <3> QED
      BY <1>0, <3>1
  <2>5. CASE CheckTargetAgain
    BY <2>5 DEF CheckTargetAgain
  <2>6. CASE Onward /\ ~CheckTargetAgain
    BY <2>6, OnwardMoves, OnwardFrame
  <2> QED
    BY <2>1, <2>2, <2>3, <2>4, <2>5, <2>6, StepCases DEF Aside, Onward
<1>5. CASE pc = "target_again"
  BY <1>2, <1>3, <1>5 DEF Due, HeadSeen, ListSeen
<1> QED
  BY <1>1, <1>2, <1>3, <1>4, <1>5 DEF Due

LEMMA IntentKept ==
  ASSUME Inv, [Next]_vars
  PROVE  IntentInv'
<1> USE DEF Inv
<1>0. {"runtime", "done", "retain", "receipts", "compare", "recheck", "namespace_again"}
         \cap Running = {}
  BY DEF Running, Working, Preflight, Published
<1>1. CASE AskGit \/ TakeInventory
  <2>1. /\ pc' \in Preflight /\ ~accepted'
        /\ UNCHANGED <<strayed, names>>
        /\ pc' \in {"status", "format", "commit", "tree", "epoch", "contracts",
                    "inventory", "retain"}
    <3>1. Asks
      BY <1>1 DEF Asks
    <3>2. ~accepted
      BY <3>1, AsksAt DEF SealInv
    <3>3. pc' \in {"status", "format", "commit", "tree", "epoch", "contracts",
                   "inventory", "retain"}
      BY <1>1 DEF AskGit, TakeInventory, AskStatus, AskHead, ReadListed, Check, Goto,
         NextPart
    <3> QED
      BY <3>1, <3>2, <3>3, AsksMoveOn
  <2>2. pc' \notin Running \cup Looking
    BY <2>1 DEF Running, Looking, HeadSeen, ListSeen
  <2> QED
    BY <2>1, <2>2 DEF IntentInv, Due, Looking, HeadSeen
<1>2. CASE AskGitAgain \/ TakeInventoryAgain
  BY <1>2, QuestionsKeep
<1>3. ASSUME ~Asks PROVE IntentInv'
  <2>1. /\ ~strayed' => UNCHANGED <<strayed, names>>
        /\ touched \subseteq touched'
    <3>1. CASE Aside
      BY <3>1, AsideFrame DEF Types, HistoryTypes
    <3>2. CASE Looks \/ RetainFile \/ RecheckFile
      BY <3>2, LooksMoveOn DEF RetainFile, RecheckFile, history, world
    <3>3. CASE Onward
      BY <3>3, OnwardFrame
    <3> QED
      BY <1>3, <3>1, <3>2, <3>3, StepCases DEF Aside, Onward
  <2>2. SUFFICES ASSUME NEW fact \in Parts \cup {"head"}, Due(fact)',
                        fact \notin witnessed'
                 PROVE  /\ Tells(IF pc = "recheck" THEN at ELSE 1)'
                        /\ pc' \notin {"namespace_again", "target_again"} \cup Running
                        /\ ~accepted'
    BY <2>1 DEF IntentInv
  <2>3. /\ Tells(IF pc = "recheck" THEN at ELSE 1)
        /\ pc \notin {"namespace_again", "target_again"} \cup Running
        /\ ~accepted
    BY <1>3, <2>2, NotAsking, DueKept DEF IntentInv
  <2>4. CASE Aside
    <3>1. /\ UNCHANGED <<pc, at>> \/ pc' \in {"runtime", "done"}
          /\ UNCHANGED accepted
      BY <2>4, AsideFrame
    <3>2. Due(fact)' => pc' \notin {"runtime", "done"} \/ accepted'
      BY <1>0 DEF Due, HeadSeen, ListSeen
    <3> QED
      BY <2>1, <2>2, <2>3, <3>1, <3>2 DEF Tells
  <2>5. CASE Looks
    <3>1. UNCHANGED <<at, accepted, touched>>
      BY <2>5, LooksMoveOn DEF history
    <3>2. pc' \in {"namespace_again", "target_again"} =>
            pc \in {"namespace_again", "target_again"}
      BY <2>5, LooksAt DEF ListSeen
    <3> QED
      BY <2>3, <2>5, <3>1, <3>2, LooksAt DEF Tells
  <2>6. CASE RetainFile
    <3>1. pc' \in {"retain", "receipts", "compare"} /\ UNCHANGED accepted
      BY <2>6 DEF RetainFile, history
    <3>2. ~Due(fact)'
      BY <1>0, <2>3, <3>1 DEF Due, HeadSeen, ListSeen
    <3> QED
      BY <2>2, <3>2
  <2>7. CASE RecheckFile
    <3>1. /\ pc = "recheck" /\ RetainOrder[at] \notin touched
          /\ at' = IF at = 8 THEN 1 ELSE at + 1
          /\ pc' = IF at = 8 THEN "namespace_again" ELSE pc
          /\ UNCHANGED <<touched, accepted>>
      BY <2>7 DEF RecheckFile, Unchanged, SignatureKept, history
    <3>2. at \in 1..8
      BY DEF Types, RunnerTypes
    <3>3. PICK i \in 1..8 : i >= at /\ RetainOrder[i] \in touched
      BY <2>3, <3>1 DEF Tells
    <3>4. i > at /\ at # 8
      BY <3>1, <3>2, <3>3
    <3> QED
      BY <1>0, <2>3, <3>1, <3>2, <3>3, <3>4 DEF Tells
  <2>8. CASE Onward
    <3>1. /\ pc' \notin {"namespace_again", "target_again"} /\ pc # "recheck"
          /\ pc' # "recheck"
          /\ pc' \in Running => pc \in Running \/ CheckTargetAgain
          /\ UNCHANGED <<at, touched>>
          /\ CheckTargetAgain \/ UNCHANGED accepted
      BY <2>8, OnwardMoves, OnwardFrame DEF Looking, HeadSeen, ListSeen
    <3>2. ~CheckTargetAgain
      BY <2>3 DEF CheckTargetAgain
    <3> QED
      BY <2>3, <3>1, <3>2 DEF Tells
  <2> QED
    BY <1>3, <2>4, <2>5, <2>6, <2>7, <2>8, StepCases DEF Aside, Onward
<1> QED
  BY <1>1, <1>2, <1>3 DEF Asks

LEMMA Invariant == Spec => []Inv
<1>1. Inv /\ [Next]_vars => Inv'
  BY RunnerTypesKept, TreeInvKept, PartKept, SealKept, RetainKept, ReadKept, IntentKept,
     ReceiptKept
     DEF Inv
<1> QED
  BY InitInv, <1>1, PTL DEF Spec

-----------------------------------------------------------------------------
\* Every variable keeps its type, whatever somebody else does.
THEOREM TypeCorrect == Spec => []TypeOK
<1>1. Inv => TypeOK
  BY TypesAreTypeOK DEF Inv
<1> QED
  BY Invariant, <1>1, PTL

\* However often files of the gate are changed, and changed back: an accepted
\* preflight has sealed the wheel of the tree the operator named.
THEOREM TheRightWheelIsSealed == Spec => []SealedWheelIsOfTheTree
<1>1. Inv => SealedWheelIsOfTheTree
  BY DEF Inv, SealInv, SealedWheelIsOfTheTree
<1> QED
  BY Invariant, <1>1, PTL

\* ... and has read nothing that the last comparison does not find.
THEOREM NothingWasMisread == Spec => []GateIsAsRead
<1>1. Inv => GateIsAsRead
  BY DEF Inv, ReadInv, GateIsAsRead
<1> QED
  BY Invariant, <1>1, PTL

\* However often the private copies are changed and put back, within one tick of
\* the clock or not: a tree found unchanged was read as it was written.
THEOREM TheChildReadTheCopies == Spec => []ChildReadTheCopies
<1>1. Inv => ChildReadTheCopies
  BY DEF Inv, TreeInv, Begun, ChildReadTheCopies
<1> QED
  BY Invariant, <1>1, PTL

\* Whatever is changed, and changed back, between any two children and any two
\* readings: each thing the attempt records was found at an instant of the last
\* look at which receipts and artifacts were all the recorded ones.  For HEAD the
\* names must have stayed, for files that no list names HEAD too.
THEOREM TheIntentWasTrue == Spec => []IntentWasTrue
<1>1. Inv => IntentWasTrue
  <2> SUFFICES ASSUME Inv, accepted PROVE IntentWasTrue
    BY DEF IntentWasTrue
  <2>1. \A fact \in Parts \cup {"head"} : Due(fact) => fact \in witnessed
    BY DEF Inv, IntentInv
  <2> QED
    BY <2>1 DEF IntentWasTrue, Due, Parts, Sources
<1> QED
  BY Invariant, <1>1, PTL

\* A receipt is only there for a pair that this run published and had verified.
THEOREM TheReceiptIsTrue == Spec => []ReceiptIsTrue
<1>1. Inv => ReceiptIsTrue
  BY DEF Inv, ReceiptInv, ReceiptIsTrue
<1> QED
  BY Invariant, <1>1, PTL
=============================================================================
