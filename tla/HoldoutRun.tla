----------------------------- MODULE HoldoutRun -----------------------------
(***************************************************************************)
(* The frozen holdout: the executor turns every planned pair into two rows *)
(* (cowbot/evaluation_executor.py), and the reducer turns a stream of rows *)
(* into a verdict (cowbot/evaluation_harness.py).  The executor reduces    *)
(* its own rows before it returns them; whoever reads them back reduces    *)
(* what it is given, and that may have lost, repeated, reordered or        *)
(* damaged rows, or end in an exception.                                   *)
(*                                                                         *)
(* What the monitor finds in an arm is fixed by its seed: truth.  A row    *)
(* says that, or "failed".  Rows that were forged (another verdict in a    *)
(* well-formed row of the same plan and position) are not the reducer's to *)
(* find: the digests of the bundle are for that.                           *)
(***************************************************************************)
EXTENDS Integers, Sequences

CONSTANTS
    Pairs,             \* pairs of arms; the frozen plan has 128
    MinDetections,     \* acceptance_counts of the plan
    MinLocalizations,
    MaxPreOnset,
    MaxControl

ASSUME PairsAssumption == Pairs \in Nat \ {0}
ASSUME ThresholdAssumption ==
    {MinDetections, MinLocalizations, MaxPreOnset, MaxControl} \subseteq Nat

Positions == 0 .. 2 * Pairs - 1

\* Rows alternate between the arms.
IsIncident(p) == p % 2 = 0

Endpoints == {"detection", "localization", "preOnset", "control"}

Counters == {"consumed", "completed", "failed", "invalid", "missing", "extra"}

VARIABLES
    truth,      \* Positions -> endpoints the monitor finds there (rigid)
    pc,         \* the next step
    at,         \* the position it is at
    rows,       \* Positions -> "none", "failed" or "completed"
    exhausted,  \* the stream has ended or raised
    valid,      \* contract_valid
    count,      \* the reducer's counters of rows
    tally,      \* the reducer's counters of endpoints
    actual,     \* the endpoints of the truth so far (history)
    given,      \* what the stream answered, next() by next() (history)
    outcome     \* how it ended

vars == <<truth, pc, at, rows, exhausted, valid, count, tally, actual,
          given, outcome>>

\* Localization implies detection; only a control arm gives a control alarm.
Possible(p, found) ==
    IF IsIncident(p)
    THEN /\ "control" \notin found
         /\ "localization" \in found => "detection" \in found
    ELSE found \subseteq {"control"}

StartReducing ==
    /\ at' = 0
    /\ exhausted' = FALSE
    /\ valid' = TRUE
    /\ count' = [c \in Counters |-> 0]
    /\ tally' = [e \in Endpoints |-> 0]
    /\ actual' = [e \in Endpoints |-> 0]
    /\ given' = <<>>

Init ==
    /\ truth \in [Positions -> SUBSET Endpoints]
    /\ \A p \in Positions : Possible(p, truth[p])
    /\ pc = "execute"
    /\ at = 0
    /\ rows = [p \in Positions |-> "none"]
    /\ exhausted = FALSE
    /\ valid = TRUE
    /\ count = [c \in Counters |-> 0]
    /\ tally = [e \in Endpoints |-> 0]
    /\ actual = [e \in Endpoints |-> 0]
    /\ given = <<>>
    /\ outcome = "none"

-----------------------------------------------------------------------------
(***************************************************************************)
(* The executor: pair by pair, in order.                                   *)
(***************************************************************************)

\* An arm whose generator, samples or monitor fail gives a failed row; two arms
\* that differ before the onset both do.
ExecutePair ==
    \E generated \in SUBSET {at, at + 1}, samePrefix \in BOOLEAN :
        \E monitored \in SUBSET generated :
            LET kept == IF generated = {at, at + 1} /\ ~samePrefix
                        THEN {} ELSE monitored
            IN  /\ pc = "execute"
                /\ rows' = [rows EXCEPT
                       ![at] = IF at \in kept THEN "completed" ELSE "failed",
                       ![at + 1] = IF at + 1 \in kept THEN "completed"
                                                      ELSE "failed"]
                /\ IF at + 2 = 2 * Pairs
                     THEN pc' = "check" /\ StartReducing
                     ELSE /\ at' = at + 2
                          /\ UNCHANGED <<pc, exhausted, valid, count, tally,
                                         actual, given>>
                /\ UNCHANGED <<truth, outcome>>

\* MemoryError is never turned into a failed row: no row leaves the executor.
Abort ==
    /\ pc = "execute"
    /\ pc' = "done"
    /\ outcome' = "aborted"
    /\ UNCHANGED <<truth, at, rows, exhausted, valid, count, tally, actual,
                   given>>

-----------------------------------------------------------------------------
(***************************************************************************)
(* The reducer.                                                            *)
(***************************************************************************)
Reducing == pc \in {"check", "read"}

\* Mutant: a lost arm is left out of the tally.
Pessimistic_None(p) == {}

\* What a position that cannot be counted costs.
Pessimistic(p) == IF IsIncident(p) THEN {"preOnset"} ELSE {"control"}

Counted(counters, set) ==
    [c \in DOMAIN counters |-> counters[c] + IF c \in set THEN 1 ELSE 0]

\* What next() can answer.  A row names the position it was written for; one that
\* does not parse, or belongs to another plan, is "damaged".
Row(p) == [kind |-> "row", of |-> p]
Other(kind) == [kind |-> kind, of |-> 0]

AllAnswers ==
    {Row(p) : p \in Positions} \cup {Other("damaged"), Other("end"), Other("raise")}

\* The executor reduces the list of its rows; others are read from anything.
Answers ==
    IF exhausted THEN {Other("end")}
    ELSE IF pc = "check"
      THEN {IF at < 2 * Pairs THEN Row(at) ELSE Other("end")}
    ELSE AllAnswers

\* Once the stream is exhausted, next() is not called again.
Note(answer) == given' = IF exhausted THEN given ELSE Append(given, answer)

\* Mutant: the seed of the row is not compared.
Decodes_Arm(answer, p) ==
    answer.kind = "row" /\ IsIncident(answer.of) = IsIncident(p)

\* A row counts only at the position it was written for.
Decodes(answer, p) == answer = Row(p)

\* One planned position.
ReduceRow ==
    \E answer \in Answers :
        LET over == answer.kind \in {"end", "raise"}
            usable == Decodes(answer, at)
            completed == usable /\ rows[answer.of] = "completed"
        IN  /\ Reducing
            /\ at < 2 * Pairs
            /\ at' = at + 1
            /\ exhausted' = over
            /\ valid' = (valid /\ usable)
            /\ Note(answer)
            /\ count' = Counted(count,
                   IF over THEN {"missing"}
                   ELSE {"consumed",
                         IF ~usable THEN "invalid"
                         ELSE IF completed THEN "completed" ELSE "failed"})
            /\ tally' = Counted(tally,
                   IF completed THEN truth[answer.of] ELSE Pessimistic(at))
            /\ actual' = Counted(actual, truth[at])
            /\ UNCHANGED <<truth, pc, rows, outcome>>

Meets(t) ==
    /\ t["detection"] >= MinDetections
    /\ t["localization"] >= MinLocalizations
    /\ t["preOnset"] <= MaxPreOnset
    /\ t["control"] <= MaxControl

\* Mutant: an exception of the probe passes for the end of the stream.
ProbeExtra_Deaf ==
    \E answer \in Answers :
        /\ Reducing
        /\ at = 2 * Pairs
        /\ at' = at + 1
        /\ valid' = (valid /\ answer.kind \in {"end", "raise"})
        /\ Note(answer)
        /\ count' = Counted(count,
               IF answer.kind \in {"end", "raise"} THEN {}
               ELSE {"consumed", "extra"})
        /\ UNCHANGED <<truth, pc, rows, exhausted, tally, actual, outcome>>

\* One answer more than the plan has rows is asked for.
ProbeExtra ==
    \E answer \in Answers :
        /\ Reducing
        /\ at = 2 * Pairs
        /\ at' = at + 1
        /\ valid' = (valid /\ answer.kind = "end")
        /\ Note(answer)
        /\ count' = Counted(count,
               IF answer.kind \in {"end", "raise"} THEN {}
               ELSE {"consumed", "extra"})
        /\ UNCHANGED <<truth, pc, rows, exhausted, tally, actual, outcome>>

\* The executor's own check of its rows: anything but a valid complete
\* reduction is an internal error, and then no row is returned.
ReturnRows ==
    /\ pc = "check"
    /\ at = 2 * Pairs + 1
    /\ IF /\ valid
          /\ count["consumed"] = 2 * Pairs
          /\ count["completed"] + count["failed"] = 2 * Pairs
          /\ count["invalid"] = 0
          /\ count["missing"] = 0
          /\ count["extra"] = 0
         THEN /\ pc' = "read"
              /\ StartReducing
              /\ UNCHANGED outcome
         ELSE /\ pc' = "done"
              /\ outcome' = "internal_contract"
              /\ UNCHANGED <<at, exhausted, valid, count, tally, actual,
                             given>>
    /\ UNCHANGED <<truth, rows>>

\* iter() itself raises: nothing was read and everything is missing.
NoIterator ==
    /\ pc = "read"
    /\ at = 0
    /\ ~exhausted
    /\ exhausted' = TRUE
    /\ valid' = FALSE
    /\ Note(Other("raise"))
    /\ UNCHANGED <<truth, pc, at, rows, count, tally, actual, outcome>>

Conclude ==
    /\ pc = "read"
    /\ at = 2 * Pairs + 1
    /\ pc' = "done"
    /\ outcome' = IF valid /\ Meets(tally) THEN "accepted" ELSE "rejected"
    /\ UNCHANGED <<truth, at, rows, exhausted, valid, count, tally, actual,
                   given>>

Next ==
    \/ ExecutePair
    \/ Abort
    \/ ReduceRow
    \/ ProbeExtra
    \/ ReturnRows
    \/ NoIterator
    \/ Conclude

Spec == Init /\ [][Next]_vars

-----------------------------------------------------------------------------
(***************************************************************************)
(* Properties.                                                             *)
(***************************************************************************)
TypeOK ==
    /\ truth \in [Positions -> SUBSET Endpoints]
    /\ pc \in {"execute", "check", "read", "done"}
    /\ at \in 0 .. 2 * Pairs + 1
    /\ rows \in [Positions -> {"none", "failed", "completed"}]
    /\ exhausted \in BOOLEAN
    /\ valid \in BOOLEAN
    /\ count \in [Counters -> Nat]
    /\ tally \in [Endpoints -> Nat]
    /\ actual \in [Endpoints -> Nat]
    /\ given \in Seq(AllAnswers)
    /\ Len(given) <= 2 * Pairs + 1
    /\ outcome \in {"none", "aborted", "internal_contract", "accepted",
                    "rejected"}

\* Nothing that goes wrong can turn a rejection into an acceptance: if the
\* verdict is "accepted", the same population with every arm completed and
\* every row delivered would have been accepted ("Pessimistic reduction").
FailureNeverHelps == outcome = "accepted" => Meets(actual)

\* What a reader is given who is given the executor's rows and nothing else.
OwnRows ==
    [i \in 1 .. 2 * Pairs + 1 |->
        IF i <= 2 * Pairs THEN Row(i - 1) ELSE Other("end")]

\* When the reduction is over, contract_valid says exactly whether the whole
\* sequence of answers of the stream was the executor's rows, each in its place,
\* and then its end: not one lost, repeated, moved, damaged or added, and no
\* exception instead of the end (reduce_holdout_rows).
ValidMeansFaithful ==
    Reducing /\ at = 2 * Pairs + 1 => (valid <=> given = OwnRows)

\* Every position is counted once and every row read is accounted for; the
\* reducer never asks for more than one row beyond the plan.
CountsAddUp ==
    Reducing =>
        /\ count["completed"] + count["failed"] + count["invalid"]
               + count["missing"] = IF at > 2 * Pairs THEN 2 * Pairs ELSE at
        /\ count["completed"] + count["failed"] + count["invalid"]
               + count["extra"] = count["consumed"]
        /\ count["consumed"] <= 2 * Pairs + 1
        /\ tally["preOnset"] + tally["control"]
               >= count["failed"] + count["invalid"] + count["missing"]

\* The executor's rows always pass its own check: internal_contract is never
\* raised for rows it encoded itself.
OwnRowsPass == outcome # "internal_contract"
=============================================================================
