------------------------ MODULE ResultVerifierProofs ------------------------
(***************************************************************************)
(* A receipt describes an instant that existed, for every inventory, any   *)
(* number of runs and any number of concurrent changes; and a verdict on   *)
(* what was left alone is deserved (Undisturbed).                          *)
(*                                                                         *)
(* The first: a file whose identity is kept and that was not touched       *)
(* still has the bytes that were read (HeldInv).  So at the second git     *)
(* check everything agrees, unless something was touched; the checks that  *)
(* follow visit every kept file once, and whatever each one has not yet    *)
(* visited is what the conclusion still depends on (SeenInv).              *)
(***************************************************************************)
EXTENDS ResultVerifier, TLAPS

FromEntries == (Steps \ {"protocol"}) \cup {"verified"}
FromPerSeed == FromEntries \ {"entries", "per_seed"}
FromSummary == FromPerSeed \ {"summary"}
FromAttempt == FromSummary \ {"attempt"}
FromBundle == FromAttempt \ {"bundle"}

\* A name that was never moved leads where it led.
NameInv ==
    /\ "root" \notin moved => rootNamed
    /\ "evaluation" \notin moved => evalNamed

\* What was accepted so far.
ReadInv ==
    /\ pc \in FromEntries => plan \in Runs
    /\ pc \in FromSummary => Intent \in Runs
    /\ pc \in FromAttempt /\ "attempt" \in entries => read["attempt"] = Intent
    /\ pc \in FromBundle => read["per_seed"] = Intent

\* An untouched file still has the bytes that were read.
HeldInv ==
    /\ pc \in FromPerSeed /\ "per_seed" \notin touched =>
           content["per_seed"] = read["per_seed"]
    /\ pc \in FromSummary /\ "summary" \notin touched =>
           content["summary"] = read["summary"]
    /\ pc \in FromAttempt /\ "attempt" \in entries \ touched =>
           content["attempt"] = read["attempt"]

CaptureInv ==
    /\ pc = "capture" => pending \subseteq Sources
    /\ "evaluation" \notin moved =>
        /\ pc = "capture" => \A s \in Sources \ (pending \cup touched) :
               content[s] = Intent
        /\ pc = "git_again" => \A s \in Sources \ touched : content[s] = Intent

\* What the checks after git have yet to visit decides.
SeenInv ==
    NamesHeld =>
        /\ pc = "current" /\ (pending \cup Retained) \cap touched = {} =>
               Receipt \in seen
        /\ pc = "listing_again" /\ Retained \cap touched = {} =>
               Receipt \in seen
        /\ pc = "barrier_again" /\ pending \cap touched = {} =>
               Receipt \in seen
        /\ pc = "verified" => Receipt \in seen

Inv == TypeOK /\ NameInv /\ ReadInv /\ HeldInv /\ CaptureInv /\ SeenInv

-----------------------------------------------------------------------------
LEMMA ResultFiles ==
    /\ Results \subseteq Files
    /\ "per_seed" \in Results
    /\ "summary" \in Results
    /\ "attempt" \in Results
BY DEF Results, Files

LEMMA InitInv == Init => Inv
<1> SUFFICES ASSUME Init PROVE Inv
  OBVIOUS
<1>1. TypeOK
  <2>1. 0 \in 0 .. MaxDisturbances
    BY MaxAssumption
  <2>2. seen \subseteq Runs \X BOOLEAN
    BY DEF Init, Agreeing
  <2> QED
    BY <2>1, <2>2 DEF Init, TypeOK, Steps
<1>2. NameInv /\ ReadInv /\ HeldInv /\ CaptureInv /\ SeenInv
  BY DEF Init, NameInv, ReadInv, HeldInv, CaptureInv, SeenInv, FromEntries,
    FromPerSeed, FromSummary, FromAttempt, FromBundle, Steps
<1> QED
  BY <1>1, <1>2 DEF Inv

\* What every step of the verifier leaves alone.
LEMMA StepFrame ==
  ASSUME Inv, Quiet, Observe
  PROVE  /\ NameInv'
         /\ content' = content
         /\ moved' = moved /\ anchored' = anchored /\ disturbances' = disturbances
         /\ seen \subseteq seen'
         /\ NamesHeld' => NamesHeld
BY DEF Inv, NameInv, Quiet, Observe, disk, NamesHeld

LEMMA StepTypes ==
  ASSUME Inv, Verifier, Observe
  PROVE  TypeOK'
<1> USE ResultFiles
<1>1. seen' \subseteq Runs \X BOOLEAN
  BY DEF Inv, TypeOK, Observe, Agreeing
<1>2. UNCHANGED <<anchored, disk, disturbances, moved>>
  BY DEF Verifier, Quiet
<1>3. /\ pc' \in Steps \cup {"verified", "refused"}
      /\ plan' \in Runs \cup {Absent}
      /\ entries' \subseteq Results
      /\ read' \in [Results -> Runs \cup {Absent}]
      /\ touched' \subseteq Files
      /\ pending' \subseteq Files
  <2>1. CASE ReadProtocol
    BY <2>1, ProtocolAssumption DEF ReadProtocol, Check, Keep, Steps, Inv, TypeOK, memory,
      Listing, Retained, Files
  <2>2. CASE ListEntries
    BY <2>2, ProtocolAssumption DEF ListEntries, Check, Keep, Steps, Inv, TypeOK, memory,
      Listing, Retained, Files
  <2>3. CASE ReadPerSeed
    BY <2>3, ProtocolAssumption DEF ReadPerSeed, Check, Keep, Steps, Inv, TypeOK, memory,
      Listing, Retained, Files
  <2>4. CASE ReadSummary
    BY <2>4, ProtocolAssumption DEF ReadSummary, Check, Keep, Steps, Inv, TypeOK, memory,
      Listing, Retained, Files
  <2>5. CASE ReadAttempt
    BY <2>5, ProtocolAssumption DEF ReadAttempt, Check, Keep, Steps, Inv, TypeOK, memory,
      Listing, Retained, Files
  <2>6. CASE VerifyBundle
    BY <2>6, ProtocolAssumption DEF VerifyBundle, Check, Keep, Steps, Inv, TypeOK, memory,
      Listing, Retained, Files
  <2>7. CASE VerifyGit
    BY <2>7, ProtocolAssumption DEF VerifyGit, Check, Keep, Steps, Inv, TypeOK, memory,
      Listing, Retained, Files
  <2>8. CASE VerifySource
    BY <2>8, ProtocolAssumption DEF VerifySource, Check, Keep, Steps, Inv, TypeOK, memory,
      Listing, Retained, Files
  <2>9. CASE ListAgain
    BY <2>9, ProtocolAssumption DEF ListAgain, Check, Keep, Steps, Inv, TypeOK, memory,
      Listing, Retained, Files
  <2>10. CASE FirstBarrier
    BY <2>10, ProtocolAssumption DEF FirstBarrier, Check, Keep, Steps, Inv, TypeOK, memory,
      Listing, Retained, Files
  <2>11. CASE CaptureSource
    BY <2>11, ProtocolAssumption DEF CaptureSource, Check, Keep, Steps, Inv, TypeOK, memory,
      Listing, Retained, Files
  <2>12. CASE VerifyGitAgain
    BY <2>12, ProtocolAssumption DEF VerifyGitAgain, Check, Keep, Steps, Inv, TypeOK, memory,
      Listing, Retained, Files
  <2>13. CASE SourceIsCurrent
    BY <2>13, ProtocolAssumption DEF SourceIsCurrent, Check, Keep, Steps, Inv, TypeOK, memory,
      Listing, Retained, Files
  <2>14. CASE TerminalBarrier
    BY <2>14, ProtocolAssumption DEF TerminalBarrier, Check, Keep, Steps, Inv, TypeOK, memory,
      Listing, Retained, Files
  <2> QED
    BY <2>1, <2>2, <2>3, <2>4, <2>5, <2>6, <2>7, <2>8, <2>9, <2>10, <2>11, <2>12, <2>13, <2>14 DEF Verifier
<1> QED
  BY <1>1, <1>2, <1>3 DEF Inv, TypeOK, disk

LEMMA StepKeeps ==
  ASSUME Inv, Verifier, Observe
  PROVE  ReadInv' /\ HeldInv' /\ CaptureInv' /\ SeenInv'
<1> USE ResultFiles, NamesAssumption
<1>1. Quiet
  BY DEF Verifier
<1>2. /\ content' = content
      /\ moved' = moved
      /\ seen \subseteq seen'
      /\ NamesHeld' => NamesHeld
  BY <1>1, StepFrame
<1>3. CASE ReadProtocol
  BY <1>2, <1>3 DEF ReadProtocol, Check, Keep, memory, Inv, TypeOK, ReadInv, HeldInv,
    CaptureInv, SeenInv, Intent, Receipt, Retained, FromEntries,
    FromPerSeed, FromSummary, FromAttempt, FromBundle, Steps
<1>4. CASE ListEntries
  BY <1>2, <1>4 DEF ListEntries, Check, Keep, memory, Inv, TypeOK, ReadInv, HeldInv,
    CaptureInv, SeenInv, Intent, Receipt, Retained, FromEntries,
    FromPerSeed, FromSummary, FromAttempt, FromBundle, Steps
<1>5. CASE ReadPerSeed
  BY <1>2, <1>5 DEF ReadPerSeed, Check, Keep, memory, Inv, TypeOK, ReadInv, HeldInv,
    CaptureInv, SeenInv, Intent, Receipt, Retained, FromEntries,
    FromPerSeed, FromSummary, FromAttempt, FromBundle, Steps
<1>6. CASE ReadSummary
  BY <1>2, <1>6 DEF ReadSummary, Check, Keep, memory, Inv, TypeOK, ReadInv, HeldInv,
    CaptureInv, SeenInv, Intent, Receipt, Retained, FromEntries,
    FromPerSeed, FromSummary, FromAttempt, FromBundle, Steps
<1>7. CASE ReadAttempt
  BY <1>2, <1>7 DEF ReadAttempt, Check, Keep, memory, Inv, TypeOK, ReadInv, HeldInv,
    CaptureInv, SeenInv, Intent, Receipt, Retained, FromEntries,
    FromPerSeed, FromSummary, FromAttempt, FromBundle, Steps
<1>8. CASE VerifyBundle
  BY <1>2, <1>8 DEF VerifyBundle, Check, Keep, memory, Inv, TypeOK, ReadInv, HeldInv,
    CaptureInv, SeenInv, Intent, Receipt, Retained, FromEntries,
    FromPerSeed, FromSummary, FromAttempt, FromBundle, Steps
<1>9. CASE VerifyGit
  BY <1>2, <1>9 DEF VerifyGit, Check, Keep, memory, Inv, TypeOK, ReadInv, HeldInv,
    CaptureInv, SeenInv, Intent, Receipt, Retained, FromEntries,
    FromPerSeed, FromSummary, FromAttempt, FromBundle, Steps
<1>10. CASE VerifySource
  BY <1>2, <1>10 DEF VerifySource, Check, Keep, memory, Inv, TypeOK, ReadInv, HeldInv,
    CaptureInv, SeenInv, Intent, Receipt, Retained, FromEntries,
    FromPerSeed, FromSummary, FromAttempt, FromBundle, Steps
<1>11. CASE ListAgain
  BY <1>2, <1>11 DEF ListAgain, Check, Keep, memory, Inv, TypeOK, ReadInv, HeldInv,
    CaptureInv, SeenInv, Intent, Receipt, Retained, FromEntries,
    FromPerSeed, FromSummary, FromAttempt, FromBundle, Steps
<1>12. CASE FirstBarrier
  BY <1>2, <1>12 DEF FirstBarrier, Check, Keep, memory, Inv, TypeOK, ReadInv, HeldInv,
    CaptureInv, SeenInv, Intent, Receipt, Retained, FromEntries,
    FromPerSeed, FromSummary, FromAttempt, FromBundle, Steps
<1>13. CASE CaptureSource
  <2> PICK t \in pending :
        /\ Check("capture", SourceBytes(t) = Intent,
                 IF pending = {t} THEN "git_again" ELSE "capture")
        /\ pending' = pending \ {t}
        /\ touched' = touched \ {t}
        /\ UNCHANGED <<plan, entries, read>>
    BY <1>13 DEF CaptureSource
  <2>1. "evaluation" \notin moved => SourceBytes(t) = content[t]
    BY DEF SourceBytes, Inv, NameInv
  <2>2. pc = "capture" /\ pc' \in {"capture", "git_again", "refused"}
    BY DEF Check
  <2>3. ReadInv' /\ SeenInv'
    BY <2>2 DEF Inv, ReadInv, SeenInv, Intent, FromEntries, FromPerSeed,
      FromSummary, FromAttempt, FromBundle, Steps
  <2>4. CASE t \in Sources
    <3>1. HeldInv'
      BY <1>2, <2>2, <2>4 DEF Inv, HeldInv, FromEntries, FromPerSeed,
      FromSummary, FromAttempt, FromBundle, Steps
    <3>2. CaptureInv'
      BY <1>2, <2>1, <2>2 DEF Check, Inv, CaptureInv, Intent
    <3> QED
      BY <2>3, <3>1, <3>2
  <2> QED
    BY <2>2, <2>4 DEF Inv, CaptureInv
<1>14. CASE VerifyGitAgain
  <2>1. /\ pc = "git_again" /\ pc' \in {"current", "refused"}
        /\ UNCHANGED <<plan, entries, read, touched>>
        /\ pending' = Sources
    BY <1>14 DEF VerifyGitAgain, Check
  <2>2. ReadInv' /\ HeldInv' /\ CaptureInv'
    BY <1>2, <2>1 DEF Inv, ReadInv, HeldInv, CaptureInv, Intent, FromEntries, FromPerSeed,
      FromSummary, FromAttempt, FromBundle, Steps
  <2>3. ASSUME NamesHeld, pc' = "current",
               (Sources \cup Retained) \cap touched = {}
        PROVE  Receipt \in seen'
    <3>1. repository = Intent
      BY <1>14, <2>3 DEF VerifyGitAgain, Check, GitAnswers, NamesHeld, Inv,
        NameInv, TypeOK
    <3>2. \A s \in Sources : content[s] = Intent
      BY <2>1, <2>3 DEF Inv, CaptureInv, NamesHeld
    <3>3. content["per_seed"] = Intent /\ content["summary"] = Intent
      BY <2>1, <2>3 DEF Inv, ReadInv, HeldInv, Retained, Intent, FromEntries, FromPerSeed,
      FromSummary, FromAttempt, FromBundle, Steps
    <3>4. "attempt" \in entries => content["attempt"] = Intent
      BY <2>1, <2>3 DEF Inv, ReadInv, HeldInv, Retained, FromEntries, FromPerSeed,
      FromSummary, FromAttempt, FromBundle, Steps
    <3>5. Agreement(Receipt[1], Receipt[2])
      BY <3>1, <3>2, <3>3, <3>4 DEF Agreement, Receipt
    <3>6. Agreement(Receipt[1], Receipt[2])'
          <=> Agreement(Receipt[1], Receipt[2])
      BY <1>1, <2>1 DEF Quiet, disk, Agreement, Receipt, Intent
    <3>7. Receipt \in Runs \X BOOLEAN
      <4>1. Intent \in Runs
        BY <2>1 DEF Inv, ReadInv, FromEntries, FromPerSeed, FromSummary, Steps
      <4>2. ("attempt" \in entries) \in BOOLEAN
        OBVIOUS
      <4> QED
        BY <4>1, <4>2, Zenon DEF Receipt
    <3>8. Receipt' = Receipt
      BY <2>1 DEF Receipt, Intent
    <3> QED
      BY <3>5, <3>6, <3>7, <3>8 DEF Observe, Agreeing
  <2>4. SeenInv'
    BY <1>2, <2>1, <2>3 DEF SeenInv, Retained, Receipt, Intent
  <2> QED
    BY <2>2, <2>4
<1>15. CASE SourceIsCurrent
  BY <1>2, <1>15 DEF SourceIsCurrent, Check, Keep, memory, Inv, TypeOK, ReadInv, HeldInv,
    CaptureInv, SeenInv, Intent, Receipt, Retained, FromEntries,
    FromPerSeed, FromSummary, FromAttempt, FromBundle, Steps
<1>16. CASE TerminalBarrier
  BY <1>2, <1>16 DEF TerminalBarrier, Check, Keep, memory, Inv, TypeOK, ReadInv, HeldInv,
    CaptureInv, SeenInv, Intent, Receipt, Retained, FromEntries,
    FromPerSeed, FromSummary, FromAttempt, FromBundle, Steps
<1> QED
  BY <1>3, <1>4, <1>5, <1>6, <1>7, <1>8, <1>9, <1>10, <1>11, <1>12, <1>13, <1>14, <1>15, <1>16 DEF Verifier

-----------------------------------------------------------------------------
(***************************************************************************)
(* Everybody else only touches.                                            *)
(***************************************************************************)
LEMMA OthersKeep ==
  ASSUME Inv, Environment, Observe
  PROVE  Inv'
<1> USE ResultFiles
<1>1. /\ Disturb
      /\ pc' \in {pc, "refused"}
      /\ content' \in [Files -> Runs \cup {Absent}]
      /\ touched \subseteq touched' /\ touched' \subseteq Files
      /\ moved \subseteq moved' /\ moved' \subseteq {"root", "evaluation"}
      /\ stray' \in BOOLEAN /\ repository' \in Runs
      /\ rootNamed' \in BOOLEAN /\ evalNamed' \in BOOLEAN
      /\ NameInv'
      /\ \A f \in Files \ touched' : content'[f] = content[f]
  <2>1. CASE Fault
    BY <2>1 DEF Fault, Inv, TypeOK, NameInv
  <2>2. CASE \E f \in Files, b \in Runs \cup {Absent} : Edit(f, b)
    BY <2>2 DEF Edit, Inv, TypeOK, NameInv
  <2>3. CASE Litter
    BY <2>3 DEF Litter, Inv, TypeOK, NameInv
  <2>4. CASE \E r \in Runs : Rewrite(r)
    BY <2>4 DEF Rewrite, Inv, TypeOK, NameInv
  <2>5. CASE MoveRoot
    BY <2>5 DEF MoveRoot, Inv, TypeOK, NameInv
  <2>6. CASE MoveEvaluation
    BY <2>6, ProtocolAssumption DEF MoveEvaluation, Files, Inv, TypeOK, NameInv
  <2> QED
    BY <2>1, <2>2, <2>3, <2>4, <2>5, <2>6 DEF Environment
<1>2. /\ UNCHANGED <<anchored, plan, entries, read, pending, elsewhere>>
      /\ disturbances' \in 0 .. MaxDisturbances
  BY <1>1, MaxAssumption DEF Disturb, memory, Inv, TypeOK
<1>3. seen \subseteq seen' /\ seen' \subseteq Runs \X BOOLEAN
  BY DEF Observe, Agreeing, Inv, TypeOK
<1>4. TypeOK'
  BY <1>1, <1>2, <1>3 DEF Inv, TypeOK
<1>5. ReadInv'
  BY <1>1, <1>2 DEF Inv, ReadInv, Intent, FromEntries, FromPerSeed,
    FromSummary, FromAttempt, FromBundle, Steps
<1>6. HeldInv'
  BY <1>1, <1>2 DEF Inv, HeldInv, FromEntries, FromPerSeed, FromSummary,
    FromAttempt, Steps
<1>7. CaptureInv'
  BY <1>1, <1>2 DEF Inv, CaptureInv, Intent, Files
<1>8. SeenInv'
  BY <1>1, <1>2, <1>3 DEF Inv, SeenInv, NamesHeld, Receipt, Retained, Intent
<1> QED
  BY <1>1, <1>4, <1>5, <1>6, <1>7, <1>8 DEF Inv

LEMMA NextInv == Inv /\ [Next]_vars => Inv'
<1> SUFFICES ASSUME Inv, [Next]_vars PROVE Inv'
  OBVIOUS
<1>1. CASE Verifier /\ Observe
  BY <1>1, StepTypes, StepKeeps, StepFrame DEF Inv, Verifier
<1>2. CASE Environment /\ Observe
  BY <1>2, OthersKeep
<1>3. CASE UNCHANGED vars
  BY <1>3 DEF vars, disk, memory, Inv, TypeOK, NameInv, ReadInv, HeldInv,
    CaptureInv, SeenInv, NamesHeld, Receipt, Retained, Intent
<1> QED
  BY <1>1, <1>2, <1>3 DEF Next

\* Every variable of the verifier keeps its type.
THEOREM TypeCorrect == Spec => []TypeOK
<1>1. Inv => TypeOK
  BY DEF Inv
<1> QED
  BY InitInv, NextInv, <1>1, PTL DEF Spec

\* If the verifier issues a receipt, and no name git or a source is reached by
\* was moved meanwhile, then there was an instant at which the results, every
\* source and the commit belonged to the run of the receipt, for inventories of
\* any size and any number of changes by others (the two passes and the two
\* barriers of _verify_open_evaluation_results).
THEOREM ReceiptIsOfAnInstant == Spec => []VerifiedInstant
<1>1. Inv => VerifiedInstant
  BY DEF Inv, SeenInv, VerifiedInstant
<1> QED
  BY InitInv, NextInv, <1>1, PTL DEF Spec

-----------------------------------------------------------------------------
(***************************************************************************)
(* The verdict on files that nobody touches: each pass leaves a fact about *)
(* them, and the refusal of each step contradicts agreement.               *)
(***************************************************************************)
FromListing == FromEntries \ {"entries"}
FromGit == FromBundle \ {"git"}
FromInventory == FromGit \ {"inventory"}

Consistent == \E r \in Runs : Agreement(r, content["attempt"] # Absent)

Undisturbed ==
    disturbances = 0 =>
        /\ moved = {} /\ touched = {}
        /\ \A f \in Files : content[f] = Absent => f = "attempt"
        /\ pc \in FromEntries => plan = content[Protocol]
        /\ pc \in FromListing => entries = Listing /\ ~stray
        /\ pc \in FromSummary => content["summary"] = plan
        /\ pc = "attempt" => "attempt" \in entries
        /\ pc \in FromGit => repository = Intent
        /\ pc = "inventory" => /\ pending \subseteq Sources
                               /\ \A s \in Sources \ pending : content[s] = Intent
        /\ pc \in FromInventory => \A s \in Sources : content[s] = Intent
        /\ pc = "refused" => stray \/ ~Consistent

LEMMA UndisturbedInit == Init => Undisturbed
<1> SUFFICES ASSUME Init PROVE Undisturbed
  OBVIOUS
<1>1. pc \notin FromEntries /\ pc # "refused"
  BY DEF Init, FromEntries, Steps
<1> QED
  BY <1>1 DEF Init, Undisturbed, FromEntries, FromListing, FromPerSeed, FromSummary,
    FromAttempt, FromBundle, FromGit, FromInventory, Steps

\* A step that goes on, or refuses for a reason.
LEMMA VerifierKeepsUndisturbed ==
  ASSUME Inv, Undisturbed, Verifier, disturbances = 0
  PROVE  Undisturbed'
<1> USE ResultFiles, NamesAssumption, ProtocolAssumption, AbsentAssumption
<1>1. /\ UNCHANGED <<content, stray, repository, moved, disturbances>>
      /\ rootNamed /\ evalNamed
      /\ Listing' = Listing
      /\ Consistent' <=> Consistent
  BY DEF Verifier, Quiet, disk, Undisturbed, Inv, NameInv, Listing, Consistent, Agreement
<1>2. GitAnswers = repository /\ \A s \in Sources : SourceBytes(s) = content[s]
  BY <1>1 DEF GitAnswers, SourceBytes
<1>3. /\ touched = {} /\ moved = {}
      /\ \A f \in Files : content[f] \in Runs \/ f = "attempt"
      /\ "per_seed" \in Listing /\ "summary" \in Listing
  BY DEF Undisturbed, Inv, TypeOK, Listing
<1>4. \A r \in Runs : Agreement(r, content["attempt"] # Absent) =>
        /\ content["summary"] = r /\ content["per_seed"] = r /\ repository = r
        /\ \A s \in Sources : content[s] = r
        /\ "attempt" \in Listing => content["attempt"] = r
  BY DEF Agreement, Listing
<1>5. pc \in FromSummary => Intent = content["summary"]
  BY <1>3 DEF Inv, HeldInv, Intent, FromSummary
<1> USE DEF Check, memory, Intent
<1>10. CASE ReadProtocol
  <2>1. pc' = "entries" /\ plan' = content[Protocol] /\ touched' = touched
    BY <1>3, <1>10 DEF ReadProtocol, Files
  <2> QED
    BY <1>1, <1>3, <2>1 DEF Undisturbed, FromEntries, FromListing, FromPerSeed,
      FromSummary, FromAttempt, FromBundle, FromGit, FromInventory, Steps
<1>11. CASE ListEntries
  <2>1. /\ pc = "entries" /\ entries' = Listing /\ UNCHANGED <<plan, touched>>
        /\ pc' = IF ~stray THEN "per_seed" ELSE "refused"
    BY <1>3, <1>11 DEF ListEntries
  <2> QED
    BY <1>1, <1>3, <2>1 DEF Undisturbed, FromEntries, FromListing, FromPerSeed,
      FromSummary, FromAttempt, FromBundle, FromGit, FromInventory, Steps
<1>12. CASE ReadPerSeed
  <2>1. pc = "per_seed" /\ pc' = "summary" /\ UNCHANGED <<plan, entries>> /\ touched' = {}
    BY <1>3, <1>12 DEF ReadPerSeed, Keep
  <2> QED
    BY <1>1, <1>3, <2>1 DEF Undisturbed, FromEntries, FromListing, FromPerSeed,
      FromSummary, FromAttempt, FromBundle, FromGit, FromInventory, Steps
<1>13. CASE ReadSummary
  <2>1. /\ pc = "summary" /\ UNCHANGED <<plan, entries>> /\ touched' = {}
        /\ content["summary"] = plan =>
             pc' = IF "attempt" \in entries THEN "attempt" ELSE "bundle"
        /\ content["summary"] # plan => pc' = "refused"
    BY <1>3, <1>13 DEF ReadSummary, Keep
  <2>2. plan = content[Protocol]
    BY <2>1 DEF Undisturbed, FromEntries, Steps
  <2>3. content["summary"] # plan => ~Consistent
    BY <1>4, <2>2 DEF Consistent
  <2>4. CASE content["summary"] = plan
    BY <1>1, <1>3, <2>1, <2>4 DEF Undisturbed, FromEntries, FromListing, FromPerSeed,
      FromSummary, FromAttempt, FromBundle, FromGit, FromInventory, Steps
  <2>5. CASE content["summary"] # plan
    BY <1>1, <1>3, <2>1, <2>3, <2>5 DEF Undisturbed, FromEntries, FromListing,
      FromPerSeed, FromSummary, FromAttempt, FromBundle, FromGit, FromInventory, Steps
  <2> QED
    BY <2>4, <2>5
<1>14. CASE ReadAttempt
  <2>1. /\ pc = "attempt" /\ UNCHANGED <<plan, entries>> /\ touched' = {}
        /\ content["attempt"] = Intent => pc' = "bundle"
        /\ content["attempt"] # Intent => pc' = "refused"
    BY <1>3, <1>14 DEF ReadAttempt, Keep
  <2>2. /\ pc \in FromSummary /\ pc \in FromListing
        /\ "attempt" \in Listing
    BY <2>1 DEF Undisturbed, FromListing, FromEntries, FromPerSeed, FromSummary, Steps
  <2>3. content["attempt"] # Intent => ~Consistent
    BY <1>4, <1>5, <2>2 DEF Consistent
  <2> QED
    BY <1>1, <1>3, <2>1, <2>2, <2>3 DEF Undisturbed, FromEntries, FromListing,
      FromPerSeed, FromSummary, FromAttempt, FromBundle, FromGit, FromInventory, Steps
<1>15. CASE VerifyBundle
  <2>1. /\ pc = "bundle" /\ UNCHANGED <<plan, entries, read, touched>>
        /\ read["per_seed"] = Intent => pc' = "git"
        /\ read["per_seed"] # Intent => pc' = "refused"
    BY <1>15 DEF VerifyBundle
  <2>2. read["per_seed"] = content["per_seed"] /\ Intent = content["summary"]
    BY <1>3, <1>5, <2>1
       DEF Inv, HeldInv, FromEntries, FromPerSeed, FromSummary, Steps
  <2>3. read["per_seed"] # Intent => ~Consistent
    BY <1>4, <2>2 DEF Consistent
  <2> QED
    BY <1>1, <1>3, <2>1, <2>3 DEF Undisturbed, FromEntries, FromListing,
      FromPerSeed, FromSummary, FromAttempt, FromBundle, FromGit, FromInventory, Steps
<1>16. CASE VerifyGit
  <2>1. /\ pc = "git" /\ UNCHANGED <<plan, entries, read, touched>> /\ pending' = Sources
        /\ repository = Intent => pc' = "inventory"
        /\ repository # Intent => pc' = "refused"
    BY <1>2, <1>16 DEF VerifyGit
  <2>2. repository # Intent => ~Consistent
    BY <1>4, <1>5, <2>1
       DEF Consistent, FromEntries, FromPerSeed, FromSummary, Steps
  <2> QED
    BY <1>1, <1>3, <2>1, <2>2 DEF Undisturbed, FromEntries, FromListing,
      FromPerSeed, FromSummary, FromAttempt, FromBundle, FromGit, FromInventory, Steps
<1>17. CASE VerifySource
  <2>0. /\ pc = "inventory" /\ pending \subseteq Sources
        /\ \A s \in Sources \ pending : content[s] = Intent
    BY <1>17 DEF VerifySource, Undisturbed
  <2> PICK s \in pending :
        /\ pc' = IF content[s] = Intent
                    THEN IF pending = {s} THEN "listing" ELSE "inventory"
                    ELSE "refused"
        /\ pending' = pending \ {s}
        /\ UNCHANGED <<plan, entries, read, touched>>
    BY <1>2, <1>17, <2>0 DEF VerifySource
  <2>1. CASE content[s] = Intent
    <3>1. \A t \in Sources \ pending' : content[t] = Intent
      BY <2>0, <2>1
    <3> QED
      BY <1>1, <1>3, <2>0, <2>1, <3>1 DEF Undisturbed, FromEntries, FromListing,
        FromPerSeed, FromSummary, FromAttempt, FromBundle, FromGit, FromInventory, Steps
  <2>2. CASE content[s] # Intent
    <3>1. ~Consistent
      BY <1>4, <1>5, <2>0, <2>2
         DEF Consistent, FromEntries, FromPerSeed, FromSummary, Steps
    <3> QED
      BY <1>1, <1>3, <2>0, <2>2, <3>1 DEF Undisturbed, FromEntries, FromListing,
        FromPerSeed, FromSummary, FromAttempt, FromBundle, FromGit, FromInventory, Steps
  <2> QED
    BY <2>1, <2>2
<1>18. CASE ListAgain
  <2>1. /\ pc \in {"listing", "listing_again"}
        /\ NamesAreCurrent => pc' \in {"barrier", "barrier_again"}
        /\ UNCHANGED <<plan, entries, read, touched>>
    BY <1>18 DEF ListAgain
  <2>2. NamesAreCurrent
    BY <1>1, <2>1 DEF NamesAreCurrent, Undisturbed, FromEntries, FromListing, Steps
  <2> QED
    BY <1>1, <1>3, <2>1, <2>2 DEF Undisturbed, FromEntries, FromListing,
      FromPerSeed, FromSummary, FromAttempt, FromBundle, FromGit, FromInventory, Steps
<1>19. CASE FirstBarrier \/ SourceIsCurrent \/ TerminalBarrier
  <2>1. /\ pc \in {"barrier", "current", "barrier_again"}
        /\ pc' \in {"barrier", "capture", "current", "listing_again", "barrier_again",
                    "verified"}
        /\ UNCHANGED <<plan, entries, read, touched>>
    BY <1>3, <1>19 DEF FirstBarrier, SourceIsCurrent, TerminalBarrier
  <2> QED
    BY <1>1, <1>3, <2>1 DEF Undisturbed, FromEntries, FromListing,
      FromPerSeed, FromSummary, FromAttempt, FromBundle, FromGit, FromInventory, Steps
<1>20. CASE CaptureSource
  <2>0. /\ pc = "capture" /\ pending \subseteq Sources
        /\ \A s \in Sources : content[s] = Intent
    BY <1>20 DEF CaptureSource, Inv, CaptureInv, Undisturbed, FromEntries, FromPerSeed,
      FromSummary, FromAttempt, FromBundle, FromGit, FromInventory, Steps
  <2>1. /\ pc' \in {"capture", "git_again"}
        /\ touched' = {} /\ UNCHANGED <<plan, entries, read>>
    BY <1>2, <1>3, <1>20, <2>0 DEF CaptureSource
  <2> QED
    BY <1>1, <1>3, <2>0, <2>1 DEF Undisturbed, FromEntries, FromListing,
      FromPerSeed, FromSummary, FromAttempt, FromBundle, FromGit, FromInventory, Steps
<1>21. CASE VerifyGitAgain
  <2>0. pc = "git_again" /\ repository = Intent
    BY <1>21 DEF VerifyGitAgain, Undisturbed, FromEntries, FromPerSeed,
      FromSummary, FromAttempt, FromBundle, FromGit, FromInventory, Steps
  <2>1. pc' = "current" /\ UNCHANGED <<plan, entries, read, touched>>
    BY <1>2, <1>21, <2>0 DEF VerifyGitAgain
  <2> QED
    BY <1>1, <1>3, <2>0, <2>1 DEF Undisturbed, FromEntries, FromListing,
      FromPerSeed, FromSummary, FromAttempt, FromBundle, FromGit, FromInventory, Steps
<1> QED
  BY <1>10, <1>11, <1>12, <1>13, <1>14, <1>15, <1>16, <1>17, <1>18, <1>19, <1>20, <1>21
     DEF Verifier

LEMMA UndisturbedStep == Inv /\ Undisturbed /\ [Next]_vars => Undisturbed'
<1> SUFFICES ASSUME Inv, Undisturbed, [Next]_vars, disturbances' = 0
             PROVE  Undisturbed'
  BY DEF Undisturbed
<1>1. CASE Verifier
  <2>1. disturbances = 0
    BY <1>1 DEF Verifier, Quiet
  <2> QED
    BY <1>1, <2>1, VerifierKeepsUndisturbed
<1>2. CASE Environment
  <2>1. disturbances' = disturbances + 1 /\ disturbances \in Nat
    BY <1>2, MaxAssumption DEF Environment, Fault, Litter, MoveRoot, MoveEvaluation, Edit,
      Rewrite, Disturb, Inv, TypeOK
  <2> QED
    BY <2>1
<1>3. CASE UNCHANGED vars
  BY <1>3 DEF vars, disk, memory, Undisturbed, Consistent, Agreement, Listing, Intent
<1> QED
  BY <1>1, <1>2, <1>3 DEF Next

\* The verifier is neither too strict nor too lax: a bundle that is consistent
\* and left alone is never refused, and one that is not consistent is never
\* verified, whatever the inventory and in whichever order it is visited.
THEOREM VerdictsAreDeserved == Spec => []VerdictIsDeserved
<1>1. Inv /\ Undisturbed => VerdictIsDeserved
  <2> SUFFICES ASSUME Inv, Undisturbed, disturbances = 0 PROVE VerdictIsDeserved
    BY DEF VerdictIsDeserved
  <2>1. pc = "refused" => stray \/ \A r \in Runs : ~Agreement(r, content["attempt"] # Absent)
    BY DEF Undisturbed, Consistent
  <2>2. ASSUME pc = "verified"
        PROVE  ~stray /\ Agreement(Intent, "attempt" \in Listing)
    BY <2>2 DEF Undisturbed, Inv, HeldInv, ReadInv, Agreement, Intent, FromEntries,
      FromListing, FromPerSeed, FromSummary, FromAttempt, FromBundle, FromGit,
      FromInventory, Steps
  <2> QED
    BY <2>1, <2>2 DEF VerdictIsDeserved
<1>2. Inv /\ Undisturbed /\ [Next]_vars => (Inv /\ Undisturbed)'
  BY NextInv, UndisturbedStep
<1> QED
  BY InitInv, UndisturbedInit, <1>1, <1>2, PTL DEF Spec
=============================================================================
