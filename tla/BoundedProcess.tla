--------------------------- MODULE BoundedProcess ---------------------------
(***************************************************************************)
(* _run_bounded_process of tools/run_frozen_holdout.py: one child in a     *)
(* session of its own, two pipes read through a selector up to a limit, a  *)
(* deadline, and a process group that is killed whenever anything goes     *)
(* wrong.  With it the preamble of _limited_python_code that every child   *)
(* runs first, which ties its life to its parent's.                        *)
(*                                                                         *)
(* Bytes are counted, not named: a pipe is first in, first out.  The child *)
(* may start a helper in its group (git, under the verifier's profile); it *)
(* inherits the pipes and may outlive the child.                           *)
(***************************************************************************)
EXTENDS Naturals, FiniteSetsExt

CONSTANTS
    Limit,        \* [stdout |-> _, stderr |-> _]: stdout_limit, stderr_limit
    Chunk,        \* PROCESS_READ_CHUNK_BYTES
    PipeSize,     \* bound: what a pipe holds
    MaxSent       \* bound: what is ever written to one stream

Streams == {"stdout", "stderr"}

ASSUME LimitAssumption == Limit \in [Streams -> Nat]
ASSUME SizeAssumption == {Chunk, PipeSize} \subseteq Nat \ {0} /\ MaxSent \in Nat

VARIABLES
    pc,         \* the parent's next step
    outcome,    \* what the call returns or raises
    polled,     \* streams still registered with the selector
    events,     \* streams the selector reported, not read yet
    got,        \* bytes read
    round,      \* kill rounds begun: the handler's, then the finally block's
    late,       \* the deadline has passed
    child,      \* none, starting, armed, running, dying, exited, reaped
    helper,     \* none, running, dying, exited
    writers,    \* who holds the write end of a stream
    pipe,       \* bytes in a pipe
    sent,       \* bytes ever written (history)
    spared      \* killpg failed, so only the child was signalled (history)

parent == <<pc, outcome, polled, events, got, round>>

world == <<child, helper, writers, pipe, sent>>

vars == <<parent, late, world, spared>>

Errors == {"spawn_failed", "io_failed", "timeout", "output_limit",
           "stderr_limit", "reap_failed"}

Working == {"loop", "read", "wait"}

Alive == {"starting", "armed", "running"}

Init ==
    /\ pc = "spawn"
    /\ outcome = "none"
    /\ polled = {}
    /\ events = {}
    /\ got = [s \in Streams |-> 0]
    /\ round = 0
    /\ late = FALSE
    /\ child = "none"
    /\ helper = "none"
    /\ writers = [s \in Streams |-> {}]
    /\ pipe = [s \in Streams |-> 0]
    /\ sent = [s \in Streams |-> 0]
    /\ spared = FALSE

-----------------------------------------------------------------------------
(***************************************************************************)
(* The parent.                                                             *)
(***************************************************************************)
Raise(error) == pc' = "kill" /\ outcome' = error

Spawn ==
    /\ pc = "spawn"
    /\ \/ /\ pc' = "loop"
          /\ polled' = Streams
          /\ child' = "starting"
          /\ writers' = [s \in Streams |-> {"child"}]
          /\ UNCHANGED outcome
       \/ /\ pc' = "done"
          /\ outcome' = "spawn_failed"
          /\ UNCHANGED <<polled, child, writers>>
    /\ UNCHANGED <<events, got, round, late, helper, pipe, sent, spared>>

Ready == {s \in polled : pipe[s] > 0 \/ writers[s] = {}}

\* A mutant: a child that has exited ends the loop.
Select_Exited ==
    /\ pc = "loop"
    /\ \/ polled = {} /\ pc' = "wait" /\ UNCHANGED <<outcome, events>>
       \/ child = "exited" /\ pc' = "wait" /\ UNCHANGED <<outcome, events>>
       \/ polled # {} /\ late /\ Raise("timeout") /\ UNCHANGED events
       \/ ~late /\ Ready # {} /\ pc' = "read" /\ events' = Ready
          /\ UNCHANGED outcome
    /\ UNCHANGED <<polled, got, round, late, world, spared>>

\* A mutant: select waits for as long as it takes.
Select_Forever ==
    /\ pc = "loop"
    /\ \/ polled = {} /\ pc' = "wait" /\ UNCHANGED <<outcome, events>>
       \/ Ready # {} /\ pc' = "read" /\ events' = Ready /\ UNCHANGED outcome
    /\ UNCHANGED <<polled, got, round, late, world, spared>>

\* One turn of the loop: the deadline is looked at before every select.
Select ==
    /\ pc = "loop"
    /\ \/ /\ polled = {}
          /\ pc' = "wait"
          /\ UNCHANGED <<outcome, events>>
       \/ /\ polled # {}
          /\ late
          /\ Raise("timeout")
          /\ UNCHANGED events
       \/ /\ polled # {}
          /\ ~late
          /\ Ready # {}
          /\ pc' = "read"
          /\ events' = Ready
          /\ UNCHANGED outcome
    /\ UNCHANGED <<polled, got, round, late, world, spared>>

Least(m, n) == Min({m, n})

LimitError == [stdout |-> "output_limit", stderr |-> "stderr_limit"]

\* A mutant: an output of exactly the limit is too long.
Read_AtLimit(s) ==
    LET n == Least(pipe[s], Least(Chunk, Limit[s] + 1 - got[s]))
    IN  /\ pc = "read"
        /\ s \in events
        /\ events' = events \ {s}
        /\ got' = [got EXCEPT ![s] = @ + n]
        /\ pipe' = [pipe EXCEPT ![s] = @ - n]
        /\ polled' = IF n = 0 THEN polled \ {s} ELSE polled
        /\ IF got[s] + n >= Limit[s] THEN Raise(LimitError[s])
             ELSE pc' = (IF events = {s} THEN "loop" ELSE "read")
                  /\ UNCHANGED outcome
        /\ UNCHANGED <<round, late, child, helper, writers, sent, spared>>

\* One byte more than the limit is asked for, so that an output of exactly the
\* limit is told from a longer one.
Read(s) ==
    LET n == Least(pipe[s], Least(Chunk, Limit[s] + 1 - got[s]))
    IN  /\ pc = "read"
        /\ s \in events
        /\ events' = events \ {s}
        /\ got' = [got EXCEPT ![s] = @ + n]
        /\ pipe' = [pipe EXCEPT ![s] = @ - n]
        /\ polled' = IF n = 0 THEN polled \ {s} ELSE polled
        /\ IF got[s] + n > Limit[s]
             THEN Raise(LimitError[s])
             ELSE /\ pc' = IF events = {s} THEN "loop" ELSE "read"
                  /\ UNCHANGED outcome
        /\ UNCHANGED <<round, late, child, helper, writers, sent, spared>>

\* Both streams have ended; the exit status must come before the deadline too.
Wait ==
    /\ pc = "wait"
    /\ \/ /\ late
          /\ Raise("timeout")
          /\ UNCHANGED child
       \/ /\ child = "exited"
          /\ child' = "reaped"
          /\ pc' = "done"
          /\ outcome' = "returned"
    /\ UNCHANGED <<polled, events, got, round, late, helper, writers, pipe,
                   sent, spared>>

Signalled(p) == IF p \in Alive THEN "dying" ELSE p

\* A mutant: only the child is signalled.
KillGroup_Child ==
    /\ pc = "kill"
    /\ pc' = "reap"
    /\ round' = round + 1
    /\ child' = Signalled(child)
    /\ UNCHANGED <<outcome, polled, events, got, late, helper, writers, pipe,
                   sent, spared>>

\* killpg, or if that fails kill.
KillGroup ==
    /\ pc = "kill"
    /\ pc' = "reap"
    /\ round' = round + 1
    /\ child' = Signalled(child)
    /\ \/ helper' = Signalled(helper) /\ UNCHANGED spared
       \/ spared' = TRUE /\ UNCHANGED helper
    /\ UNCHANGED <<outcome, polled, events, got, late, writers, pipe, sent>>

\* PROCESS_REAP_SECONDS pass twice while the child does not die.
Reap ==
    /\ pc \in {"reap", "reap_again"}
    /\ \/ /\ child = "exited"
          /\ child' = "reaped"
          /\ pc' = "finally"
          /\ UNCHANGED outcome
       \/ /\ pc = "reap"
          /\ child # "exited"
          /\ pc' = "reap_again"
          /\ UNCHANGED <<child, outcome>>
       \/ /\ pc = "reap_again"
          /\ child # "exited"
          /\ pc' = "finally"
          /\ outcome' = IF round = 1 /\ outcome \in Errors
                          THEN "reap_failed" ELSE outcome
          /\ UNCHANGED child
    /\ UNCHANGED <<polled, events, got, round, late, helper, writers, pipe,
                   sent, spared>>

\* A child that poll() still finds running is killed once more.
Finally ==
    /\ pc = "finally"
    /\ child' = IF child = "exited" THEN "reaped" ELSE child
    /\ pc' = IF child = "dying" /\ round = 1 THEN "kill" ELSE "done"
    /\ UNCHANGED <<outcome, polled, events, got, round, late, helper, writers,
                   pipe, sent, spared>>

\* select or read raises OSError.
Fault ==
    /\ pc \in {"loop", "read"}
    /\ Raise("io_failed")
    /\ UNCHANGED <<polled, events, got, round, late, world, spared>>

\* KeyboardInterrupt in the body: the same handler, but the exception stays.
\* (One that arrives in the handler itself is not modelled.)
Interrupt ==
    /\ pc \in Working
    /\ Raise("interrupted")
    /\ UNCHANGED <<polled, events, got, round, late, world, spared>>

\* The parent is killed: the kernel signals a child that asked for it.
Killed ==
    /\ pc \notin {"spawn", "done", "killed"}
    /\ pc' = "killed"
    /\ child' = IF child \in {"armed", "running"} THEN "dying" ELSE child
    /\ UNCHANGED <<outcome, polled, events, got, round, late, helper, writers,
                   pipe, sent, spared>>

Parent ==
    \/ Spawn \/ Select \/ Wait \/ KillGroup \/ Reap \/ Finally
    \/ \E s \in Streams : Read(s)

-----------------------------------------------------------------------------
(***************************************************************************)
(* The child and its helper.                                               *)
(***************************************************************************)
Orphaned == pc = "killed"

\* prctl(PR_SET_PDEATHSIG).
Arm ==
    /\ child = "starting"
    /\ child' = "armed"
    /\ UNCHANGED <<parent, late, helper, writers, pipe, sent, spared>>

Without(who) == [s \in Streams |-> writers[s] \ {who}]

\* A mutant: getppid is not asked again.
CheckParent_Once ==
    /\ child = "armed"
    /\ child' = "running"
    /\ UNCHANGED <<parent, late, helper, writers, pipe, sent, spared>>

\* The parent may have died before the signal was asked for: getppid again.
CheckParent ==
    /\ child = "armed"
    /\ IF Orphaned
         THEN child' = "exited" /\ writers' = Without("child")
         ELSE child' = "running" /\ UNCHANGED writers
    /\ UNCHANGED <<parent, late, helper, pipe, sent, spared>>

Lives(who) == IF who = "child" THEN child = "running" ELSE helper = "running"

Write(who, s) ==
    \E n \in 1 .. PipeSize - pipe[s] :
        /\ Lives(who)
        /\ who \in writers[s]
        /\ sent[s] + n <= MaxSent
        /\ pipe' = [pipe EXCEPT ![s] = @ + n]
        /\ sent' = [sent EXCEPT ![s] = @ + n]
        /\ UNCHANGED <<parent, late, child, helper, writers, spared>>

CloseStream(who, s) ==
    /\ Lives(who)
    /\ who \in writers[s]
    /\ writers' = [writers EXCEPT ![s] = @ \ {who}]
    /\ UNCHANGED <<parent, late, child, helper, pipe, sent, spared>>

Fork ==
    /\ child = "running"
    /\ helper = "none"
    /\ helper' = "running"
    /\ writers' = [s \in Streams |-> IF "child" \in writers[s]
                     THEN writers[s] \cup {"helper"} ELSE writers[s]]
    /\ UNCHANGED <<parent, late, child, pipe, sent, spared>>

\* A process ends of itself or of a signal, and its descriptors are closed.
Exit(who) ==
    /\ \/ /\ who = "child"
          /\ child \in {"starting", "armed", "running", "dying"}
          /\ child' = "exited"
          /\ UNCHANGED helper
       \/ /\ who = "helper"
          /\ helper \in {"running", "dying"}
          /\ helper' = "exited"
          /\ UNCHANGED child
    /\ writers' = Without(who)
    /\ UNCHANGED <<parent, late, pipe, sent, spared>>

\* time.monotonic() reaches the deadline.
Deadline ==
    /\ pc \in Working
    /\ ~late
    /\ late' = TRUE
    /\ UNCHANGED <<parent, world, spared>>

Children ==
    \/ Arm \/ CheckParent \/ Fork
    \/ \E who \in {"child", "helper"} :
         \/ Exit(who)
         \/ \E s \in Streams : Write(who, s) \/ CloseStream(who, s)

Next == Parent \/ Fault \/ Interrupt \/ Killed \/ Children \/ Deadline

Spec == Init /\ [][Next]_vars

\* The parent runs and time passes; nothing is asked of the children.
FairSpec == Spec /\ WF_vars(Parent) /\ WF_vars(Deadline)

-----------------------------------------------------------------------------
(***************************************************************************)
(* Properties.                                                             *)
(***************************************************************************)
TypeOK ==
    /\ pc \in Working \cup {"spawn", "kill", "reap", "reap_again", "finally",
                            "done", "killed"}
    /\ outcome \in Errors \cup {"none", "returned", "interrupted"}
    /\ events \subseteq polled
    /\ polled \subseteq Streams
    /\ got \in [Streams -> Nat] /\ \A s \in Streams : got[s] <= Limit[s] + 1
    /\ round \in 0 .. 2
    /\ late \in BOOLEAN
    /\ child \in Alive \cup {"none", "dying", "exited", "reaped"}
    /\ helper \in {"none", "running", "dying", "exited"}
    /\ writers \in [Streams -> SUBSET {"child", "helper"}]
    /\ pipe \in [Streams -> 0 .. PipeSize]
    /\ sent \in [Streams -> 0 .. MaxSent]
    /\ spared \in BOOLEAN

\* A result is the whole output: every byte anybody wrote before the streams
\* ended was read, within both limits, and the child is gone.
ResultIsComplete ==
    outcome = "returned" =>
        /\ child = "reaped"
        /\ \A s \in Streams : got[s] = sent[s] /\ sent[s] <= Limit[s]
        /\ \A s \in Streams : writers[s] = {}

\* An error says what happened: a limit error means the output really was
\* longer than its limit (exactly the limit is fine), a timeout that the
\* deadline passed.
ErrorIsTrue ==
    /\ outcome = "output_limit" => sent["stdout"] > Limit["stdout"]
    /\ outcome = "stderr_limit" => sent["stderr"] > Limit["stderr"]
    /\ outcome = "timeout" => late

\* A call that fails leaves nothing of the group running, unless it says that
\* the child could not be reaped or killpg failed.
NothingIsLeftRunning ==
    pc = "done" =>
        /\ child \notin Alive
        /\ outcome \notin {"returned", "spawn_failed"} /\ ~spared =>
               helper # "running"
        /\ child = "dying" => outcome \in {"reap_failed", "interrupted"}

\* The worker never computes for a parent that is gone: no evaluation goes on
\* after the process that holds the claim was killed.
NoOrphanWorks == Orphaned => child # "running"

\* Whatever the child does, floods, sleeps, or leaves a helper holding the
\* pipes, the call ends.
EveryCallEnds == <>(pc \in {"done", "killed"})
=============================================================================
