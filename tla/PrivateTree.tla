----------------------------- MODULE PrivateTree ------------------------------
(***************************************************************************)
(* The private tree of tools/run_frozen_holdout.py: the runner copies what *)
(* it retained into a temporary directory, keeps a descriptor, a metadata  *)
(* signature and a digest of each copy, watches them with inotify, and     *)
(* lets a child process read them by name.  The copies were written a      *)
(* moment ago, so a change within the same tick of the file system's clock *)
(* leaves the signature as it was: it is the queue of events that tells.   *)
(***************************************************************************)
EXTENDS Naturals

Copies == {"source", "artifacts"}
CopyOrder == <<"source", "artifacts">>

VARIABLES
  tpc,      \* what is done next
  copyAt,   \* the copy a pass has come to
  altered,  \* copies that hold other bytes than the runner wrote
  hashed,   \* copies whose signature and digest are kept
  stamped,  \* of those, the ones whose signature has changed
  watched,  \* copies that inotify watches
  events,   \* an event is in the queue
  childSaw  \* copies the child read while they were altered

treeVars == <<tpc, copyAt, altered, hashed, stamped, watched, events, childSaw>>

Passes == {"recheck_begun", "recheck_before", "recheck_after"}
TreeSteps == {"visit", "watch", "child"} \cup Passes

TreeTypeOK ==
  /\ tpc \in TreeSteps \cup {"unused", "unchanged", "changed"}
  /\ copyAt \in 1..3
  /\ altered \in SUBSET Copies
  /\ hashed \in SUBSET Copies
  /\ stamped \in SUBSET hashed
  /\ watched \in SUBSET hashed
  /\ events \in BOOLEAN
  /\ childSaw \in SUBSET Copies

TreeInit ==
  /\ tpc = "unused"
  /\ copyAt = 1
  /\ altered = {}
  /\ hashed = {}
  /\ stamped = {}
  /\ watched = {}
  /\ events = FALSE
  /\ childSaw = {}

\* The copies are written with the digests that were retained.
WriteCopies ==
  /\ tpc = "unused"
  /\ tpc' = "visit"
  /\ UNCHANGED <<copyAt, altered, hashed, stamped, watched, events, childSaw>>

\* One more copy in this pass, or on to what follows.
NextCopy(next) ==
  IF copyAt = 1 THEN tpc' = tpc /\ copyAt' = 2 ELSE tpc' = next /\ copyAt' = 1

Here == CopyOrder[copyAt]

VisitCopy ==
  /\ tpc = "visit"
  /\ Here \notin altered
  /\ hashed' = hashed \cup {Here}
  /\ NextCopy("watch")
  /\ UNCHANGED <<altered, stamped, watched, events, childSaw>>

WatchCopy ==
  /\ tpc = "watch"
  /\ watched' = watched \cup {Here}
  /\ NextCopy("recheck_begun")
  /\ UNCHANGED <<altered, hashed, stamped, events, childSaw>>

\* Mutant: the queue is not looked at.
Quiet_Ignored == TRUE

Quiet == ~events

AfterPass ==
  IF tpc = "recheck_begun" THEN "recheck_before"
  ELSE IF tpc = "recheck_before" THEN "child"
  ELSE "unchanged"

\* The queue, then signature and digest of each copy, then the queue again.
RecheckCopy ==
  /\ tpc \in Passes
  /\ copyAt <= 2
  /\ copyAt = 1 => Quiet
  /\ Here \notin stamped \cup altered
  /\ copyAt' = copyAt + 1
  /\ UNCHANGED <<tpc, altered, hashed, stamped, watched, events, childSaw>>

EndPass ==
  /\ tpc \in Passes
  /\ copyAt = 3
  /\ Quiet
  /\ tpc' = AfterPass
  /\ copyAt' = 1
  /\ UNCHANGED <<altered, hashed, stamped, watched, events, childSaw>>

ChildReads ==
  /\ tpc = "child"
  /\ childSaw' = childSaw \cup ({Here} \cap altered)
  /\ NextCopy("recheck_after")
  /\ UNCHANGED <<altered, hashed, stamped, watched, events>>

\* Any comparison that does not hold, any event, any failing call.
TreeChanged ==
  /\ tpc \in TreeSteps
  /\ tpc' = "changed"
  /\ UNCHANGED <<copyAt, altered, hashed, stamped, watched, events, childSaw>>

TreeNext ==
  \/ VisitCopy
  \/ WatchCopy
  \/ RecheckCopy
  \/ EndPass
  \/ ChildReads
  \/ TreeChanged

\* Somebody else writes to a copy, or puts its bytes back; the clock may or
\* may not have ticked since the signature was taken.
MeddleWithCopy(c) ==
  /\ tpc \in TreeSteps
  /\ altered' = IF c \in altered THEN altered \ {c} ELSE altered \cup {c}
  /\ stamped' \in {stamped, stamped \cup ({c} \cap hashed)}
  /\ events' = (events \/ c \in watched)
  /\ UNCHANGED <<tpc, copyAt, hashed, watched, childSaw>>
==============================================================================
