------------------------ MODULE BoundedProcessProofs ------------------------
(***************************************************************************)
(* One bounded child, for any limits, chunk and pipe sizes: a result is    *)
(* complete, an error is true, and nothing is left running.                *)
(*                                                                         *)
(* The argument: what was read and what is in the pipe add up to what was  *)
(* written; a stream is given up only when it is empty and nobody holds    *)
(* its other end (Counted, Drained); once a kill round has begun, neither  *)
(* the child nor its helper can come back to life (Killing).               *)
(***************************************************************************)
EXTENDS BoundedProcess, TLAPS

\* Every byte written was read or is in the pipe; no limit was passed yet.
Counted ==
  /\ \A s \in Streams : got[s] + pipe[s] = sent[s]
  /\ pc \in Working \cup {"spawn"} \/ outcome = "returned" =>
       \A s \in Streams : got[s] <= Limit[s]
  /\ outcome = "output_limit" => got["stdout"] > Limit["stdout"]
  /\ outcome = "stderr_limit" => got["stderr"] > Limit["stderr"]
  /\ outcome = "timeout" => late

\* What the selector reported stays readable, and what it gave up stays empty.
Drained ==
  /\ \A s \in events : pipe[s] > 0 \/ writers[s] = {}
  /\ pc = "spawn" => outcome = "none" /\ events = {}
  /\ pc \in Working =>
       /\ outcome = "none"
       /\ \A s \in Streams \ polled : pipe[s] = 0 /\ writers[s] = {}
  /\ pc = "wait" => polled = {}
  /\ outcome = "returned" =>
       /\ pc = "done"
       /\ child = "reaped"
       /\ \A s \in Streams : pipe[s] = 0 /\ writers[s] = {}

Unreaped == {"reap_failed", "interrupted"}

\* After a signal the child and the helper can only end.
Killing ==
  /\ pc = "spawn" => child = "none" /\ helper = "none" /\ round = 0
  /\ pc \in Working => child \in Alive \cup {"exited"} /\ round = 0
  /\ pc = "kill" =>
       /\ child \in Alive \cup {"dying", "exited"}
       /\ outcome \in Errors \cup {"interrupted"}
       /\ outcome # "spawn_failed"
       /\ round \in 0 .. 1
       /\ round = 1 => outcome \in Unreaped /\ child \notin Alive
  /\ pc \in {"reap", "reap_again"} =>
       /\ child \in {"dying", "exited"}
       /\ outcome \in (Errors \ {"spawn_failed"}) \cup {"interrupted"}
       /\ round \in 1 .. 2
       /\ round = 2 => outcome \in Unreaped
       /\ ~spared => helper # "running"
  /\ pc = "finally" =>
       /\ child \in {"dying", "exited", "reaped"}
       /\ outcome \in (Errors \ {"spawn_failed"}) \cup {"interrupted"}
       /\ child # "reaped" => outcome \in Unreaped
       /\ ~spared => helper # "running"
       /\ round \in 1 .. 2
  /\ NothingIsLeftRunning
  /\ NoOrphanWorks

Inv == TypeOK /\ Counted /\ Drained /\ Killing

-----------------------------------------------------------------------------
LEMMA LeastIsMinimum ==
  ASSUME NEW m \in Nat, NEW n \in Nat
  PROVE  /\ Least(m, n) = m \/ Least(m, n) = n
         /\ Least(m, n) <= m /\ Least(m, n) <= n
<1>1. \E x \in {m, n} : \A y \in {m, n} : x <= y
  <2>1. CASE m <= n
    BY <2>1
  <2>2. CASE ~(m <= n)
    BY <2>2
  <2> QED
    BY <2>1, <2>2
<1>2. \A S : (\E x \in S : \A y \in S : x <= y) =>
        Min(S) \in S /\ \A y \in S : Min(S) <= y
  BY DEF Min
<1> HIDE DEF Min
<1>3. Min({m, n}) \in {m, n} /\ \A y \in {m, n} : Min({m, n}) <= y
  BY <1>1, <1>2
<1> QED
  BY <1>3 DEF Least

\* What one read takes from a stream within its limit.
Taken(s) == Least(pipe[s], Least(Chunk, Limit[s] + 1 - got[s]))

LEMMA ReadTakes ==
  ASSUME TypeOK, NEW s \in Streams, got[s] <= Limit[s]
  PROVE  /\ Taken(s) \in Nat
         /\ Taken(s) <= pipe[s]
         /\ got[s] + Taken(s) <= Limit[s] + 1
         /\ Taken(s) = 0 => pipe[s] = 0
<1>1. /\ pipe[s] \in Nat /\ Chunk \in Nat /\ Chunk > 0
      /\ got[s] \in Nat /\ Limit[s] \in Nat
      /\ Limit[s] + 1 - got[s] \in Nat /\ Limit[s] + 1 - got[s] > 0
  BY LimitAssumption, SizeAssumption DEF TypeOK
<1> DEFINE room == Limit[s] + 1 - got[s]
<1>2. /\ Least(Chunk, room) \in Nat /\ Least(Chunk, room) > 0
      /\ Least(Chunk, room) <= room
  BY <1>1, LeastIsMinimum
<1>3. /\ Taken(s) \in Nat /\ Taken(s) <= pipe[s] /\ Taken(s) <= room
      /\ Taken(s) = 0 => pipe[s] = 0
  BY <1>1, <1>2, LeastIsMinimum DEF Taken
<1> QED
  BY <1>1, <1>3

\* A read, with its count named.
LEMMA ReadStep ==
  ASSUME NEW s, Read(s)
  PROVE  /\ pc = "read" /\ s \in events
         /\ events' = events \ {s}
         /\ got' = [got EXCEPT ![s] = @ + Taken(s)]
         /\ pipe' = [pipe EXCEPT ![s] = @ - Taken(s)]
         /\ polled' = IF Taken(s) = 0 THEN polled \ {s} ELSE polled
         /\ \/ /\ got[s] + Taken(s) > Limit[s]
               /\ pc' = "kill" /\ outcome' = LimitError[s]
            \/ /\ ~(got[s] + Taken(s) > Limit[s])
               /\ pc' \in {"loop", "read"} /\ outcome' = outcome
         /\ UNCHANGED <<round, late, child, helper, writers, sent, spared>>
BY DEF Read, Taken, Raise

-----------------------------------------------------------------------------
LEMMA TypesKept ==
  ASSUME TypeOK, Counted, Killing, [Next]_vars
  PROVE  TypeOK'
<1> USE LimitAssumption, SizeAssumption
<1> USE DEF Working, Errors, Alive, parent, world, Streams
<1>1. CASE Spawn
  <2>1. /\ pc' \in {"loop", "done"}
        /\ outcome' \in {outcome, "spawn_failed"}
        /\ child' \in {child, "starting"}
        /\ polled' \in {polled, Streams}
        /\ events' = events
    BY <1>1 DEF Spawn
  <2>2. writers' \in [Streams -> SUBSET {"child", "helper"}]
    BY <1>1 DEF Spawn, TypeOK
  <2>3. events' \subseteq polled' /\ polled' \subseteq Streams
    BY <2>1 DEF TypeOK
  <2> QED
    BY <1>1, <2>1, <2>2, <2>3 DEF Spawn, TypeOK
<1>2. CASE Select
  <2>1. /\ pc' \in {"wait", "kill", "read"}
        /\ outcome' \in {outcome, "timeout"}
        /\ events' = events \/ events' = Ready
        /\ UNCHANGED <<polled, got, round, late, world, spared>>
    BY <1>2 DEF Select, Raise
  <2>2. events' \subseteq polled' /\ polled' \subseteq Streams
    BY <2>1 DEF Ready, TypeOK
  <2>3. pc' \in Working \cup {"kill"}
    BY <2>1
  <2>4. outcome' \in Errors \cup {"none", "returned", "interrupted"}
    BY <2>1 DEF TypeOK
  <2> QED
    BY <2>1, <2>2, <2>3, <2>4 DEF TypeOK
<1>3. ASSUME NEW s \in Streams, Read(s) PROVE TypeOK'
  <2>1. got[s] <= Limit[s]
    BY <1>3, ReadStep DEF Counted
  <2>2. /\ Taken(s) \in Nat /\ Taken(s) <= pipe[s]
        /\ got[s] + Taken(s) <= Limit[s] + 1
        /\ Taken(s) = 0 => pipe[s] = 0
    BY <2>1, ReadTakes
  <2>3. got' \in [Streams -> Nat] /\ \A q \in Streams : got'[q] <= Limit[q] + 1
    BY <1>3, <2>2, ReadStep DEF TypeOK
  <2>4. pipe' \in [Streams -> 0 .. PipeSize]
    BY <1>3, <2>2, ReadStep DEF TypeOK
  <2>5. events' \subseteq polled' /\ polled' \subseteq Streams
    BY <1>3, ReadStep DEF TypeOK
  <2>6. outcome' \in Errors \cup {"none", "returned", "interrupted"}
    BY <1>3, ReadStep DEF TypeOK, LimitError
  <2> QED
    BY <1>3, <2>3, <2>4, <2>5, <2>6, ReadStep DEF TypeOK
<1>4. CASE Wait
  BY <1>4 DEF Wait, Raise, TypeOK
<1>5. CASE KillGroup
  <2>1. round' \in 0 .. 2
    BY <1>5 DEF KillGroup, Killing
  <2>2. /\ child' \in Alive \cup {"none", "dying", "exited", "reaped"}
        /\ helper' \in {"none", "running", "dying", "exited"}
    BY <1>5 DEF KillGroup, Signalled, TypeOK
  <2> QED
    BY <1>5, <2>1, <2>2 DEF KillGroup, TypeOK
<1>6. CASE Reap
  BY <1>6 DEF Reap, TypeOK
<1>7. CASE Finally
  BY <1>7 DEF Finally, TypeOK
<1>8. CASE Fault \/ Interrupt
  BY <1>8 DEF Fault, Interrupt, Raise, TypeOK
<1>9. CASE Killed
  BY <1>9 DEF Killed, TypeOK
<1>10. CASE Arm \/ CheckParent
  <2>1. writers' \in [Streams -> SUBSET {"child", "helper"}]
    BY <1>10 DEF Arm, CheckParent, Without, TypeOK
  <2>2. /\ child' \in {"armed", "exited", "running"}
        /\ UNCHANGED <<parent, late, helper, pipe, sent, spared>>
    BY <1>10 DEF Arm, CheckParent
  <2> QED
    BY <2>1, <2>2 DEF TypeOK
<1>11. CASE Fork
  <2>1. writers' \in [Streams -> SUBSET {"child", "helper"}]
    BY <1>11 DEF Fork, TypeOK
  <2> QED
    BY <1>11, <2>1 DEF Fork, TypeOK
<1>12. ASSUME NEW who \in {"child", "helper"}, Exit(who) PROVE TypeOK'
  BY <1>12 DEF Exit, Without, TypeOK
<1>13. ASSUME NEW who \in {"child", "helper"}, NEW s \in Streams, Write(who, s)
       PROVE  TypeOK'
  <2>1. PICK n \in 1 .. PipeSize - pipe[s] :
          /\ sent[s] + n <= MaxSent
          /\ pipe' = [pipe EXCEPT ![s] = @ + n]
          /\ sent' = [sent EXCEPT ![s] = @ + n]
          /\ UNCHANGED <<parent, late, child, helper, writers, spared>>
    BY <1>13 DEF Write
  <2>2. pipe' \in [Streams -> 0 .. PipeSize] /\ sent' \in [Streams -> 0 .. MaxSent]
    BY <2>1 DEF TypeOK
  <2> QED
    BY <2>1, <2>2 DEF TypeOK
<1>14. ASSUME NEW who \in {"child", "helper"}, NEW s \in Streams, CloseStream(who, s)
       PROVE  TypeOK'
  BY <1>14 DEF CloseStream, TypeOK
<1>15. CASE Deadline
  BY <1>15 DEF Deadline, TypeOK
<1>16. CASE UNCHANGED vars
  BY <1>16 DEF vars, TypeOK
<1> QED
  BY <1>1, <1>2, <1>3, <1>4, <1>5, <1>6, <1>7, <1>8, <1>9, <1>10, <1>11, <1>12, <1>13,
     <1>14, <1>15, <1>16 DEF Next, Parent, Children

LEMMA CountKept ==
  ASSUME TypeOK, Counted, Drained, Killing, [Next]_vars
  PROVE  Counted'
<1> USE DEF parent, world
<1>1. ASSUME NEW s \in Streams, Read(s) PROVE Counted'
  <2>1. got[s] <= Limit[s] /\ outcome = "none"
    BY <1>1, ReadStep DEF Counted, Drained, Working
  <2>2. /\ Taken(s) \in Nat /\ Taken(s) <= pipe[s]
    BY <2>1, ReadTakes
  <2>3. /\ \A q \in Streams : got[q] \in Nat /\ pipe[q] \in Nat /\ sent[q] \in Nat
        /\ got \in [Streams -> Nat]
        /\ pipe \in [Streams -> 0 .. PipeSize]
    BY SizeAssumption DEF TypeOK
  <2>4. \A q \in Streams : got'[q] + pipe'[q] = sent'[q]
    BY <1>1, <2>2, <2>3, ReadStep DEF Counted
  <2>5. CASE got[s] + Taken(s) > Limit[s]
    BY <1>1, <2>1, <2>3, <2>4, <2>5, ReadStep
       DEF Counted, Working, Streams, LimitError
  <2>6. CASE ~(got[s] + Taken(s) > Limit[s])
    <3>1. got'[s] <= Limit[s]
      BY <1>1, <2>2, <2>3, <2>6, ReadStep, LimitAssumption
    <3>2. \A q \in Streams : got'[q] <= Limit[q]
      BY <1>1, <2>3, <3>1, ReadStep DEF Counted, Working
    <3> QED
      BY <1>1, <2>1, <2>4, <2>6, <3>2, ReadStep DEF Counted
  <2> QED
    BY <2>5, <2>6
<1>2. ASSUME NEW who, NEW s \in Streams, Write(who, s) PROVE Counted'
  <2>1. PICK n \in 1 .. PipeSize - pipe[s] :
          /\ pipe' = [pipe EXCEPT ![s] = @ + n]
          /\ sent' = [sent EXCEPT ![s] = @ + n]
          /\ UNCHANGED <<parent, late>>
    BY <1>2 DEF Write
  <2>2. /\ \A q \in Streams : got[q] \in Nat /\ pipe[q] \in Nat /\ sent[q] \in Nat
        /\ sent \in [Streams -> 0 .. MaxSent]
        /\ pipe \in [Streams -> 0 .. PipeSize]
    BY SizeAssumption DEF TypeOK
  <2>3. \A q \in Streams : got[q] + pipe'[q] = sent'[q]
    BY <2>1, <2>2, SizeAssumption DEF Counted
  <2> QED
    BY <2>1, <2>3 DEF Counted
<1>3. CASE Spawn
  BY <1>3, LimitAssumption DEF Spawn, Counted, Working, Drained
<1>4. CASE Select
  BY <1>4 DEF Select, Raise, Counted, Working, Drained
<1>5. CASE Wait
  BY <1>5 DEF Wait, Raise, Counted, Working
<1>6. CASE Fault \/ Interrupt
  BY <1>6 DEF Fault, Interrupt, Raise, Counted, Working
<1>7. CASE KillGroup \/ Reap \/ Finally \/ Killed
  BY <1>7 DEF KillGroup, Reap, Finally, Killed, Counted, Working, Errors, Drained
<1>8. CASE Arm \/ CheckParent \/ Fork \/ Deadline
  BY <1>8 DEF Arm, CheckParent, Fork, Deadline, Counted
<1>9. ASSUME NEW who, Exit(who) \/ \E s \in Streams : CloseStream(who, s)
      PROVE  Counted'
  BY <1>9 DEF Exit, CloseStream, Counted
<1>10. CASE UNCHANGED vars
  BY <1>10 DEF vars, Counted
<1> QED
  BY <1>1, <1>2, <1>3, <1>4, <1>5, <1>6, <1>7, <1>8, <1>9, <1>10
     DEF Next, Parent, Children

LEMMA DrainKept ==
  ASSUME TypeOK, Counted, Drained, Killing, [Next]_vars
  PROVE  Drained'
<1> USE DEF parent, world
<1>0. /\ \A q \in Streams : pipe[q] \in Nat
      /\ events \subseteq polled /\ polled \subseteq Streams
      /\ pipe \in [Streams -> 0 .. PipeSize]
      /\ writers \in [Streams -> SUBSET {"child", "helper"}]
  BY SizeAssumption DEF TypeOK
<1>1. ASSUME NEW s \in Streams, Read(s) PROVE Drained'
  <2>1. got[s] <= Limit[s] /\ outcome = "none" /\ s \in events
    BY <1>1, ReadStep DEF Counted, Drained, Working
  <2>2. /\ Taken(s) \in Nat /\ Taken(s) <= pipe[s]
        /\ Taken(s) = 0 => pipe[s] = 0
    BY <2>1, ReadTakes
  <2>3. Taken(s) = 0 => pipe' = pipe /\ writers[s] = {}
    BY <1>0, <1>1, <2>1, <2>2, ReadStep DEF Drained
  <2>4. \A q \in Streams \ {s} : pipe'[q] = pipe[q]
    BY <1>0, <1>1, ReadStep
  <2>5. \A q \in events' : pipe'[q] > 0 \/ writers'[q] = {}
    BY <1>0, <1>1, <2>4, ReadStep DEF Drained
  <2>6. \A q \in Streams \ polled' : pipe'[q] = 0 /\ writers'[q] = {}
    <3>1. CASE Taken(s) = 0
      BY <1>0, <1>1, <2>2, <2>3, <3>1, ReadStep DEF Drained, Working
    <3>2. CASE Taken(s) # 0
      BY <1>0, <1>1, <2>1, <2>4, <3>2, ReadStep DEF Drained, Working
    <3> QED
      BY <3>1, <3>2
  <2> QED
    BY <1>1, <2>1, <2>5, <2>6, ReadStep DEF Drained, Working, LimitError, Streams
<1>2. ASSUME NEW who, NEW s \in Streams, Write(who, s) PROVE Drained'
  <2>1. PICK n \in 1 .. PipeSize - pipe[s] :
          /\ writers[s] # {}
          /\ pipe' = [pipe EXCEPT ![s] = @ + n]
          /\ UNCHANGED <<parent, child, writers>>
    BY <1>2 DEF Write
  <2>2. \A q \in Streams : pipe[q] > 0 => pipe'[q] > 0
    BY <1>0, <2>1
  <2>3. \A q \in Streams : writers[q] = {} => pipe'[q] = pipe[q]
    BY <1>0, <2>1
  <2> QED
    BY <1>0, <2>1, <2>2, <2>3 DEF Drained
<1>3. CASE Spawn
  BY <1>0, <1>3 DEF Spawn, Drained, Working
<1>4. CASE Select
  <2>1. \A s \in events' : pipe[s] > 0 \/ writers[s] = {}
    BY <1>4 DEF Select, Drained, Ready
  <2> QED
    BY <1>0, <1>4, <2>1 DEF Select, Raise, Drained, Working
<1>5. CASE Wait
  BY <1>0, <1>5 DEF Wait, Raise, Drained, Working
<1>6. CASE Fault \/ Interrupt
  BY <1>6 DEF Fault, Interrupt, Raise, Drained, Working
<1>7. CASE KillGroup \/ Reap \/ Finally \/ Killed
  BY <1>7 DEF KillGroup, Reap, Finally, Killed, Drained, Working, Killing, Errors
<1>8. CASE Arm \/ CheckParent \/ Fork
  <2>1. /\ UNCHANGED <<parent, pipe>>
        /\ child \notin {"reaped"}
        /\ \A q \in Streams : writers[q] = {} => writers'[q] = {}
    BY <1>0, <1>8 DEF Arm, CheckParent, Fork, Without
  <2> QED
    BY <1>0, <2>1 DEF Drained
<1>9. CASE Deadline
  BY <1>9 DEF Deadline, Drained
<1>10. ASSUME NEW who, Exit(who) \/ \E s \in Streams : CloseStream(who, s)
       PROVE  Drained'
  <2>1. /\ UNCHANGED <<parent, pipe>>
        /\ child = "reaped" => child' = "reaped"
        /\ \A q \in Streams : writers[q] = {} => writers'[q] = {}
    BY <1>0, <1>10 DEF Exit, CloseStream, Without
  <2> QED
    BY <1>0, <2>1 DEF Drained
<1>11. CASE UNCHANGED vars
  BY <1>11 DEF vars, Drained
<1> QED
  BY <1>1, <1>2, <1>3, <1>4, <1>5, <1>6, <1>7, <1>8, <1>9, <1>10, <1>11
     DEF Next, Parent, Children

LEMMA KillingKept ==
  ASSUME TypeOK, Counted, Drained, Killing, [Next]_vars
  PROVE  Killing'
<1> USE DEF parent, world, Working, Alive, Errors, Unreaped, NothingIsLeftRunning,
            NoOrphanWorks, Orphaned, Killing
<1>1. ASSUME NEW s \in Streams, Read(s) PROVE Killing'
  BY <1>1, ReadStep DEF LimitError, Streams, Drained
<1>2. ASSUME NEW who, NEW s \in Streams, Write(who, s) \/ CloseStream(who, s)
      PROVE Killing'
  BY <1>2 DEF Write, CloseStream
<1>3. CASE Spawn
  BY <1>3 DEF Spawn, TypeOK
<1>4. CASE Select \/ Fault \/ Interrupt
  BY <1>4 DEF Select, Fault, Interrupt, Raise, Drained
<1>5. CASE Wait
  BY <1>5 DEF Wait, Raise
<1>6. CASE KillGroup
  BY <1>6 DEF KillGroup, Signalled
<1>7. CASE Reap
  BY <1>7 DEF Reap
<1>8. CASE Finally
  BY <1>8 DEF Finally
<1>9. CASE Killed
  BY <1>9 DEF Killed
<1>10. CASE Arm \/ CheckParent \/ Fork
  BY <1>10 DEF Arm, CheckParent, Fork
<1>11. ASSUME NEW who, Exit(who) PROVE Killing'
  BY <1>11 DEF Exit
<1>12. CASE Deadline
  BY <1>12 DEF Deadline
<1>13. CASE UNCHANGED vars
  BY <1>13 DEF vars
<1> QED
  BY <1>1, <1>2, <1>3, <1>4, <1>5, <1>6, <1>7, <1>8, <1>9, <1>10, <1>11, <1>12, <1>13
     DEF Next, Parent, Children

LEMMA Invariant == Spec => []Inv
<1>1. Init => Inv
  <2> SUFFICES ASSUME Init PROVE Inv
    OBVIOUS
  <2>1. TypeOK
    <3>1. /\ got \in [Streams -> Nat] /\ \A s \in Streams : got[s] <= Limit[s] + 1
          /\ writers \in [Streams -> SUBSET {"child", "helper"}]
          /\ pipe \in [Streams -> 0 .. PipeSize]
          /\ sent \in [Streams -> 0 .. MaxSent]
      BY LimitAssumption, SizeAssumption DEF Init
    <3>2. events \subseteq polled /\ polled \subseteq Streams /\ round \in 0 .. 2
      BY DEF Init
    <3>3. late \in BOOLEAN /\ spared \in BOOLEAN
      BY DEF Init
    <3>4. /\ pc \in Working \cup {"spawn", "kill", "reap", "reap_again", "finally",
                                "done", "killed"}
          /\ outcome \in Errors \cup {"none", "returned", "interrupted"}
          /\ child \in Alive \cup {"none", "dying", "exited", "reaped"}
          /\ helper \in {"none", "running", "dying", "exited"}
      BY DEF Init
    <3> QED
      BY <3>1, <3>2, <3>3, <3>4 DEF TypeOK
  <2>2. Counted
    BY LimitAssumption DEF Init, Counted, Working
  <2>3. Drained
    BY DEF Init, Drained, Working
  <2>4. Killing
    BY DEF Init, Killing, Working, NothingIsLeftRunning, NoOrphanWorks, Orphaned
  <2> QED
    BY <2>1, <2>2, <2>3, <2>4 DEF Inv
<1>2. Inv /\ [Next]_vars => Inv'
  BY TypesKept, CountKept, DrainKept, KillingKept DEF Inv
<1> QED
  BY <1>1, <1>2, PTL DEF Spec

-----------------------------------------------------------------------------
\* Every variable keeps its type; in particular a stream is never read further
\* than one byte past its limit.
THEOREM TypeCorrect == Spec => []TypeOK
BY Invariant, PTL DEF Inv

\* For any limits, chunk and pipe sizes: a result is every byte anybody wrote,
\* within the limits.
THEOREM ResultsAreComplete == Spec => []ResultIsComplete
<1>1. Inv => ResultIsComplete
  BY SizeAssumption, LimitAssumption
     DEF Inv, ResultIsComplete, Counted, Drained, TypeOK
<1> QED
  BY Invariant, <1>1, PTL

\* A limit error and a timeout are never reported for nothing.
THEOREM ErrorsAreTrue == Spec => []ErrorIsTrue
<1>1. Inv => ErrorIsTrue
  BY SizeAssumption, LimitAssumption DEF Inv, ErrorIsTrue, Counted, TypeOK, Streams
<1> QED
  BY Invariant, <1>1, PTL

\* A call that is over leaves no child alive and, if killpg worked, no helper.
THEOREM GroupIsGone == Spec => []NothingIsLeftRunning
<1>1. Inv => NothingIsLeftRunning
  BY DEF Inv, Killing, NothingIsLeftRunning
<1> QED
  BY Invariant, <1>1, PTL

\* No child computes for a parent that was killed.
THEOREM NoOrphans == Spec => []NoOrphanWorks
<1>1. Inv => NoOrphanWorks
  BY DEF Inv, Killing, NoOrphanWorks
<1> QED
  BY Invariant, <1>1, PTL
=============================================================================
