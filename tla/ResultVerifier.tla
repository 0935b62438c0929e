--------------------------- MODULE ResultVerifier ---------------------------
(***************************************************************************)
(* The offline verifier of a finished evaluation                           *)
(* (cowbot/evaluation_result_verifier.py).  It writes nothing and takes no *)
(* lock: while it reads the protocol, two or three result files, twenty    *)
(* source files and what git answers, anybody may change any of them.  It  *)
(* is an optimistic snapshot: descriptors are held, and two barriers       *)
(* compare what the names and the descriptors say now with what was read.  *)
(*                                                                         *)
(* Data.  A bundle belongs to a run; a run's summary names the bytes of    *)
(* every source, the commit, and the intent in the attempt marker, and     *)
(* per_seed must reproduce it.  So the bytes of a file are the run they    *)
(* belong to, or Absent, and "consistent" is "all of one run".  A file's   *)
(* identity (device, inode, mode, links, size, times) is abstracted to     *)
(* whether the file was touched since the verifier kept a descriptor of    *)
(* it: touched files never look untouched again.                           *)
(***************************************************************************)
EXTENDS Naturals

CONSTANTS
    Sources,          \* FIXED_SOURCE_INVENTORY_PATHS
    Protocol,         \* the source that is also read first, on its own
    Runs,             \* what bytes may belong to
    Absent,           \* no such file
    MaxDisturbances   \* bound: how often anybody else acts

ASSUME ProtocolAssumption == Protocol \in Sources
ASSUME AbsentAssumption == Absent \notin Runs
ASSUME MaxAssumption == MaxDisturbances \in Nat
ASSUME NamesAssumption ==
    Sources \cap {"per_seed", "summary", "attempt"} = {}

Results == {"per_seed", "summary", "attempt"}

Files == Sources \cup Results

VARIABLES
    anchored,      \* verify_evaluation_results_anchored, or by path (rigid)
    content,       \* Files -> Runs \cup {Absent}: what is on disk
    stray,         \* an entry of the results directory nobody expects
    repository,    \* the run whose commit and tree git finds in the root
    elsewhere,     \* the run git finds where a swapped name leads (rigid)
    rootNamed,     \* repo_root still names the root that was opened
    evalNamed,     \* evaluation/ still names the directory that was opened
    pc,            \* the verifier's next step
    plan,          \* the run whose protocol it read
    entries,       \* the listing it accepted
    read,          \* Results -> what it read
    touched,       \* files touched since it kept their identity
    pending,       \* files the current pass still has to visit
    disturbances,  \* how often anybody else acted, or a call failed
    moved,         \* which of "root", "evaluation" was ever moved
    seen           \* what could have been vouched for at some instant

disk == <<content, stray, repository, elsewhere, rootNamed, evalNamed>>

memory == <<plan, entries, read, pending>>

vars == <<anchored, disk, memory, pc, touched, disturbances, moved, seen>>

Steps ==
    {"protocol", "entries", "per_seed", "summary", "attempt", "bundle", "git",
     "inventory", "listing", "barrier", "capture", "git_again", "current",
     "listing_again", "barrier_again"}

Active == pc \in Steps

Listing == {f \in Results : content[f] # Absent}

\* What the verifier keeps a descriptor of in the results directory.
Retained == {"per_seed", "summary"} \cup (entries \cap {"attempt"})

\* The run the receipt would vouch for: the intent decoded from the summary.
Intent == read["summary"]

\* What the receipt says: the bundle of that run, attempt_retained.
Receipt == <<Intent, "attempt" \in entries>>

\* Everything a receipt for r speaks of is there now and belongs to r.
Agreement(r, attemptRetained) ==
    /\ repository = r
    /\ \A s \in Sources : content[s] = r
    /\ content["per_seed"] = r
    /\ content["summary"] = r
    /\ attemptRetained => content["attempt"] = r

Agreeing == {rk \in Runs \X BOOLEAN : Agreement(rk[1], rk[2])}

\* A file other than the marker that is missing from the start is a refusal at
\* the first look; files go missing by Edit.
Init ==
    /\ anchored \in BOOLEAN
    /\ content \in [Files -> Runs \cup {Absent}]
    /\ \A f \in Files : content[f] = Absent => f = "attempt"
    /\ stray \in BOOLEAN
    /\ repository \in Runs
    /\ elsewhere \in Runs
    /\ rootNamed = TRUE
    /\ evalNamed = TRUE
    /\ pc = "protocol"
    /\ plan = Absent
    /\ entries = {}
    /\ read = [f \in Results |-> Absent]
    /\ touched = {}
    /\ pending = {}
    /\ disturbances = 0
    /\ moved = {}
    /\ seen = Agreeing

-----------------------------------------------------------------------------
(***************************************************************************)
(* The verifier.  A check that fails refuses: ResultVerificationError, and *)
(* every descriptor is closed.                                             *)
(***************************************************************************)
Quiet == UNCHANGED <<anchored, disk, disturbances, moved>>

Check(step, ok, next) ==
    /\ pc = step
    /\ pc' = IF ok THEN next ELSE "refused"

\* protocol.v1.json through the evaluation directory: it says the plan.
ReadProtocol ==
    /\ Check("protocol", content[Protocol] \in Runs, "entries")
    /\ plan' = content[Protocol]
    /\ UNCHANGED <<entries, read, touched, pending>>

\* A mutant: a retained attempt marker is not expected.
ListEntries_Required ==
    /\ Check("entries", ~stray /\ Listing = {"per_seed", "summary"}, "per_seed")
    /\ entries' = Listing
    /\ UNCHANGED <<plan, read, touched, pending>>

\* Exactly the two artifacts, or those and the attempt marker.
ListEntries ==
    /\ Check("entries",
             /\ ~stray
             /\ {"per_seed", "summary"} \subseteq Listing,
             "per_seed")
    /\ entries' = Listing
    /\ UNCHANGED <<plan, read, touched, pending>>

\* A read lies between two looks at the identity, so it is one step; from here
\* on any change of the file shows in the identity kept with it.
Keep(f) ==
    /\ read' = [read EXCEPT ![f] = content[f]]
    /\ touched' = touched \ {f}
    /\ UNCHANGED <<plan, entries, pending>>

ReadPerSeed ==
    /\ Check("per_seed", content["per_seed"] # Absent, "summary")
    /\ Keep("per_seed")

\* The summary has to decode under the plan; it gives the intent.
ReadSummary ==
    /\ Check("summary", content["summary"] = plan,
             IF "attempt" \in entries THEN "attempt" ELSE "bundle")
    /\ Keep("summary")

ReadAttempt ==
    /\ Check("attempt", content["attempt"] = Intent, "bundle")
    /\ Keep("attempt")

VerifyBundle ==
    /\ Check("bundle", read["per_seed"] = Intent, "git")
    /\ UNCHANGED <<memory, touched>>

\* By path, git runs in whatever repo_root names; anchored, in what
\* /proc/self/fd/<root>/evaluation/.. names.
GitAnswers ==
    IF (anchored /\ evalNamed) \/ (~anchored /\ rootNamed)
    THEN repository ELSE elsewhere

VerifyGit ==
    /\ Check("git", GitAnswers = Intent, "inventory")
    /\ pending' = Sources
    /\ UNCHANGED <<plan, entries, read, touched>>

\* Sources are opened by their path from the root.
SourceBytes(s) == IF s = Protocol /\ ~evalNamed THEN elsewhere ELSE content[s]

\* First pass over the sources: read, compare, close.
VerifySource ==
    \E s \in pending :
        /\ Check("inventory", SourceBytes(s) = Intent,
                 IF pending = {s} THEN "listing" ELSE "inventory")
        /\ pending' = pending \ {s}
        /\ UNCHANGED <<plan, entries, read, touched>>

\* Do the names still lead to what was opened, with the entries listed then?
NamesAreCurrent ==
    /\ ~stray
    /\ Listing = entries
    /\ anchored \/ rootNamed
    /\ evalNamed

ListAgain ==
    /\ \/ Check("listing", NamesAreCurrent, "barrier")
       \/ Check("listing_again", NamesAreCurrent, "barrier_again")
    /\ pending' = Retained
    /\ UNCHANGED <<plan, entries, read, touched>>

FirstBarrier ==
    \E f \in pending :
        /\ Check("barrier", f \notin touched,
                 IF pending = {f} THEN "capture" ELSE "barrier")
        /\ pending' = IF pending = {f} THEN Sources ELSE pending \ {f}
        /\ UNCHANGED <<plan, entries, read, touched>>

\* Second pass over the sources: the descriptors stay open.
CaptureSource ==
    \E s \in pending :
        /\ Check("capture", SourceBytes(s) = Intent,
                 IF pending = {s} THEN "git_again" ELSE "capture")
        /\ pending' = pending \ {s}
        /\ touched' = touched \ {s}
        /\ UNCHANGED <<plan, entries, read>>

VerifyGitAgain ==
    /\ Check("git_again", GitAnswers = Intent, "current")
    /\ pending' = Sources
    /\ UNCHANGED <<plan, entries, read, touched>>

\* A mutant: the name and the descriptor are not compared again.
SourceIsCurrent_Skipped ==
    \E s \in pending :
        /\ Check("current", TRUE,
                 IF pending = {s} THEN "listing_again" ELSE "current")
        /\ pending' = pending \ {s}
        /\ UNCHANGED <<plan, entries, read, touched>>

SourceIsCurrent ==
    \E s \in pending :
        /\ Check("current", s \notin touched,
                 IF pending = {s} THEN "listing_again" ELSE "current")
        /\ pending' = pending \ {s}
        /\ UNCHANGED <<plan, entries, read, touched>>

TerminalBarrier ==
    \E f \in pending :
        /\ Check("barrier_again", f \notin touched,
                 IF pending = {f} THEN "verified" ELSE "barrier_again")
        /\ pending' = pending \ {f}
        /\ UNCHANGED <<plan, entries, read, touched>>

Verifier ==
    /\ \/ ReadProtocol \/ ListEntries \/ ReadPerSeed \/ ReadSummary
       \/ ReadAttempt \/ VerifyBundle \/ VerifyGit \/ VerifySource
       \/ ListAgain \/ FirstBarrier \/ CaptureSource \/ VerifyGitAgain
       \/ SourceIsCurrent \/ TerminalBarrier
    /\ Quiet

-----------------------------------------------------------------------------
(***************************************************************************)
(* Everybody else.                                                         *)
(***************************************************************************)
Disturb ==
    /\ Active
    /\ disturbances < MaxDisturbances
    /\ disturbances' = disturbances + 1
    /\ UNCHANGED <<anchored, memory, elsewhere>>

\* A call of the verifier fails, or git exceeds its time.
Fault ==
    /\ Disturb
    /\ pc' = "refused"
    /\ UNCHANGED <<content, stray, repository, rootNamed, evalNamed, touched,
                   moved>>

\* A file is written, replaced, removed or created, or only its times change.
Edit(f, b) ==
    /\ Disturb
    /\ content' = [content EXCEPT ![f] = b]
    /\ touched' = touched \cup {f}
    /\ UNCHANGED <<pc, stray, repository, rootNamed, evalNamed, moved>>

Litter ==
    /\ Disturb
    /\ stray' = ~stray
    /\ UNCHANGED <<pc, content, repository, rootNamed, evalNamed, touched,
                   moved>>

\* The commit or the tree becomes unreadable, or another one is there.
Rewrite(r) ==
    /\ Disturb
    /\ repository' = r
    /\ UNCHANGED <<pc, content, stray, rootNamed, evalNamed, touched, moved>>

MoveRoot ==
    /\ Disturb
    /\ rootNamed' = ~rootNamed
    /\ moved' = moved \cup {"root"}
    /\ UNCHANGED <<pc, content, stray, repository, evalNamed, touched>>

\* A rename changes the directory's own times, which are kept with each source
\* read through it.
MoveEvaluation ==
    /\ Disturb
    /\ evalNamed' = ~evalNamed
    /\ touched' = touched \cup {Protocol}
    /\ moved' = moved \cup {"evaluation"}
    /\ UNCHANGED <<pc, content, stray, repository, rootNamed>>

Environment ==
    \/ Fault \/ Litter \/ MoveRoot \/ MoveEvaluation
    \/ \E f \in Files, b \in Runs \cup {Absent} : Edit(f, b)
    \/ \E r \in Runs : Rewrite(r)

Observe == seen' = seen \cup Agreeing'

Next == (Verifier \/ Environment) /\ Observe

Spec == Init /\ [][Next]_vars

-----------------------------------------------------------------------------
TypeOK ==
    /\ anchored \in BOOLEAN
    /\ content \in [Files -> Runs \cup {Absent}]
    /\ stray \in BOOLEAN
    /\ repository \in Runs
    /\ elsewhere \in Runs
    /\ rootNamed \in BOOLEAN
    /\ evalNamed \in BOOLEAN
    /\ pc \in Steps \cup {"verified", "refused"}
    /\ plan \in Runs \cup {Absent}
    /\ entries \subseteq Results
    /\ read \in [Results -> Runs \cup {Absent}]
    /\ touched \subseteq Files
    /\ pending \subseteq Files
    /\ disturbances \in 0 .. MaxDisturbances
    /\ moved \subseteq {"root", "evaluation"}
    /\ seen \subseteq Runs \X BOOLEAN

\* No name that git or a source is reached by was moved: anchored, git does
\* not depend on the name of the root.
NamesHeld == "evaluation" \notin moved /\ (anchored \/ "root" \notin moved)

\* A receipt describes an instant that existed: however the files and the
\* repository changed while they were read one after the other, there was a
\* moment at which the results, every source, and the commit all belonged to
\* the run the receipt vouches for ("one terminal consistency barrier").
VerifiedInstant ==
    pc = "verified" /\ NamesHeld => Receipt \in seen

\* Nothing is refused without a reason: a bundle that is consistent, and left
\* alone, is verified; and one that is not is refused.
VerdictIsDeserved ==
    disturbances = 0 =>
        /\ pc = "refused" =>
               stray \/ \A r \in Runs : ~Agreement(r, content["attempt"] # Absent)
        /\ pc = "verified" => ~stray /\ Agreement(Intent, "attempt" \in Listing)
=============================================================================
