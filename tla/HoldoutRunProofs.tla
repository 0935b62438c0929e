-------------------------- MODULE HoldoutRunProofs --------------------------
(***************************************************************************)
(* Proofs about HoldoutRun for every number of pairs and every threshold.  *)
(*                                                                         *)
(* The argument for FailureNeverHelps: whatever an answer of the stream    *)
(* is, the reducer's tally stays on the wrong side of the truth (fewer     *)
(* detections and localizations, more false alarms), because a row is      *)
(* counted only at its own position and a position without a completed row *)
(* costs the one false alarm its arm could have given.                     *)
(***************************************************************************)
EXTENDS HoldoutRun, TLAPS

\* The executor is at the first row of a pair.
ExecuteInv == pc = "execute" => \E k \in 0 .. Pairs - 1 : at = 2 * k

TruthInv == \A p \in Positions : Possible(p, truth[p])

\* The tally is never better than the truth.
Dominated ==
    /\ tally["detection"] <= actual["detection"]
    /\ tally["localization"] <= actual["localization"]
    /\ tally["preOnset"] >= actual["preOnset"]
    /\ tally["control"] >= actual["control"]

VerdictInv ==
    /\ pc # "done" => outcome = "none"
    /\ FailureNeverHelps

\* What the reducer was given against what it makes of it: as long as the
\* contract is valid, the record is the beginning of the executor's rows, as far
\* as the reducer has read; once it is not, the record holds an answer that is
\* none of theirs.
GivenInv ==
    Reducing =>
        /\ ~exhausted => Len(given) = at
        /\ exhausted => ~valid
        /\ valid => \A i \in 1 .. at : given[i] = OwnRows[i]
        /\ ~valid => \E i \in 1 .. Len(given) : given[i] # OwnRows[i]

\* Only the probe can count an extra row.
Books ==
    Reducing =>
        /\ at <= 2 * Pairs => count["extra"] = 0
        /\ count["extra"] <= 1

\* The executor's own stream is sound as far as it was read.
CheckInv ==
    pc = "check" =>
        /\ valid
        /\ ~exhausted
        /\ count["invalid"] = 0
        /\ count["missing"] = 0
        /\ count["extra"] = 0

Inv ==
    /\ TypeOK
    /\ ExecuteInv
    /\ TruthInv
    /\ Dominated
    /\ GivenInv
    /\ CountsAddUp
    /\ Books
    /\ CheckInv
    /\ VerdictInv
    /\ OwnRowsPass

-----------------------------------------------------------------------------
\* Counting keeps a function from names to numbers.
LEMMA CountedType ==
    ASSUME NEW S, NEW c \in [S -> Nat], NEW set
    PROVE  /\ Counted(c, set) \in [S -> Nat]
           /\ \A x \in S : Counted(c, set)[x] = c[x] + IF x \in set THEN 1 ELSE 0
BY DEF Counted

LEMMA InitInv == Init => Inv
<1> SUFFICES ASSUME Init PROVE Inv
    OBVIOUS
<1> USE PairsAssumption
<1>1. TypeOK /\ ExecuteInv
    <2>1. 0 \in 0 .. Pairs - 1 /\ 0 = 2 * 0
        OBVIOUS
    <2>2. 0 \in 0 .. 2 * Pairs + 1
        OBVIOUS
    <2>3. /\ [c \in Counters |-> 0] \in [Counters -> Nat]
          /\ [e \in Endpoints |-> 0] \in [Endpoints -> Nat]
        OBVIOUS
    <2>4. given \in Seq(AllAnswers) /\ Len(given) <= 2 * Pairs + 1
        BY <2>2 DEF Init
    <2>5. TypeOK
        BY <2>2, <2>3, <2>4 DEF Init, TypeOK
    <2> QED BY <2>1, <2>5 DEF Init, ExecuteInv
<1>2. Dominated
    BY DEF Init, Dominated, Endpoints
<1>3. TruthInv /\ VerdictInv /\ OwnRowsPass /\ CheckInv
    BY DEF Init, TruthInv, VerdictInv, FailureNeverHelps, OwnRowsPass, CheckInv
<1>4. GivenInv /\ CountsAddUp /\ Books
    BY DEF Init, GivenInv, CountsAddUp, Books, Reducing
<1> QED BY <1>1, <1>2, <1>3, <1>4 DEF Inv

\* What next() can answer is one of the answers there are.
LEMMA AnswersKnown == TypeOK /\ Reducing => Answers \subseteq AllAnswers
BY PairsAssumption DEF TypeOK, Answers, AllAnswers, Positions

\* One more call of next(), whatever it answers: the reducer keeps the contract
\* valid exactly if the answer is the one a reader of the rows is owed.
LEMMA NoteKeeps ==
    ASSUME TypeOK, GivenInv, Reducing, at <= 2 * Pairs,
           NEW answer \in AllAnswers, Note(answer),
           pc' = pc, at' = at + 1,
           valid' = (valid /\ answer = OwnRows[at + 1]),
           exhausted' \in BOOLEAN, exhausted => exhausted', exhausted' => ~valid'
    PROVE  /\ given' \in Seq(AllAnswers)
           /\ Len(given') <= 2 * Pairs + 1
           /\ GivenInv'
<1> USE PairsAssumption
<1>1. /\ given \in Seq(AllAnswers)
      /\ Len(given) \in Nat
      /\ Len(given) <= 2 * Pairs + 1
      /\ at \in Nat
      /\ valid \in BOOLEAN
      /\ exhausted \in BOOLEAN
    BY DEF TypeOK
<1>2. CASE exhausted
    <2>1. given' = given /\ exhausted' /\ ~valid /\ ~valid'
        BY <1>2 DEF Note, GivenInv
    <2> QED BY <1>1, <2>1 DEF GivenInv, Reducing, OwnRows
<1>3. CASE ~exhausted
    <2>1. given' = Append(given, answer) /\ Len(given) = at
        BY <1>3 DEF Note, GivenInv
    <2>2. /\ given' \in Seq(AllAnswers)
          /\ Len(given') = at + 1
          /\ given'[at + 1] = answer
          /\ \A i \in 1 .. at : given'[i] = given[i]
        BY <1>1, <2>1
    <2>3. OwnRows' = OwnRows
        BY DEF OwnRows
    <2>4. ASSUME valid' PROVE \A i \in 1 .. at' : given'[i] = OwnRows'[i]
        <3>1. answer = OwnRows[at + 1] /\ \A i \in 1 .. at : given[i] = OwnRows[i]
            BY <2>4 DEF GivenInv
        <3> QED BY <1>1, <2>2, <2>3, <3>1
    <2>5. ASSUME ~valid'
          PROVE  \E i \in 1 .. Len(given') : given'[i] # OwnRows'[i]
        <3>1. CASE valid
            <4>1. given'[at + 1] # OwnRows'[at + 1]
                BY <2>2, <2>3, <2>5, <3>1
            <4>2. at + 1 \in 1 .. Len(given')
                BY <1>1, <2>2
            <4> QED BY <4>1, <4>2
        <3>2. CASE ~valid
            <4>1. PICK i \in 1 .. Len(given) : given[i] # OwnRows[i]
                BY <3>2 DEF GivenInv
            <4> QED BY <1>1, <2>1, <2>2, <2>3, <4>1
        <3> QED BY <3>1, <3>2, <1>1
    <2> QED BY <1>1, <2>2, <2>4, <2>5 DEF GivenInv, Reducing
<1> QED BY <1>1, <1>2, <1>3

\* Everything the reducer starts from satisfies what it maintains.
LEMMA StartInv ==
    ASSUME Inv, StartReducing, pc' \in {"check", "read"},
           outcome' = "none", truth' = truth,
           rows' \in [Positions -> {"none", "failed", "completed"}]
    PROVE  Inv'
<1> USE PairsAssumption
<1>1. TypeOK'
    <2>1. 0 \in 0 .. 2 * Pairs + 1
        OBVIOUS
    <2>2. /\ [c \in Counters |-> 0] \in [Counters -> Nat]
          /\ [e \in Endpoints |-> 0] \in [Endpoints -> Nat]
        OBVIOUS
    <2>3. given' \in Seq(AllAnswers) /\ Len(given') <= 2 * Pairs + 1
        BY <2>1 DEF StartReducing
    <2> QED BY <2>1, <2>2, <2>3 DEF Inv, StartReducing, TypeOK
<1>2. Dominated'
    BY DEF StartReducing, Dominated, Endpoints
<1>3. CountsAddUp' /\ Books' /\ CheckInv'
    BY DEF StartReducing, CountsAddUp, Books, CheckInv, Reducing, Counters,
           Endpoints
<1>4. ExecuteInv' /\ TruthInv' /\ VerdictInv' /\ OwnRowsPass' /\ GivenInv'
    BY DEF Inv, ExecuteInv, TruthInv, Possible, VerdictInv, FailureNeverHelps,
           OwnRowsPass, GivenInv, StartReducing
<1> QED BY <1>1, <1>2, <1>3, <1>4 DEF Inv

\* A pair of the executor.
LEMMA ExecuteKeeps ==
    ASSUME Inv, ExecutePair
    PROVE  Inv'
<1> USE PairsAssumption
<1>1. rows' \in [Positions -> {"none", "failed", "completed"}]
    BY DEF Inv, TypeOK, ExecutePair
<1>2. outcome' = "none" /\ truth' = truth /\ pc = "execute"
    BY DEF Inv, VerdictInv, ExecutePair
<1>3. CASE at + 2 = 2 * Pairs
    <2>1. pc' = "check" /\ StartReducing
        BY <1>3 DEF ExecutePair
    <2> QED BY <1>1, <1>2, <2>1, StartInv
<1>4. CASE at + 2 # 2 * Pairs
    <2>1. /\ at' = at + 2
          /\ UNCHANGED <<pc, exhausted, valid, count, tally, actual, given>>
        BY <1>4 DEF ExecutePair
    <2>2. PICK k \in 0 .. Pairs - 1 : at = 2 * k
        BY <1>2 DEF Inv, ExecuteInv
    <2>3. k + 1 \in 0 .. Pairs - 1 /\ at' = 2 * (k + 1)
        BY <1>4, <2>1, <2>2
    <2>4. ExecuteInv'
        BY <2>3 DEF ExecuteInv
    <2>5. TypeOK'
        BY <1>1, <1>2, <2>1, <2>3 DEF Inv, TypeOK
    <2> QED BY <1>2, <2>1, <2>4, <2>5
            DEF Inv, TruthInv, Dominated, GivenInv, CountsAddUp,
                Books, CheckInv, VerdictInv, FailureNeverHelps, OwnRowsPass,
                Reducing, Meets, Possible
<1> QED BY <1>3, <1>4

\* One planned position: the step that could let a failure help.
LEMMA ReduceKeeps ==
    ASSUME Inv, ReduceRow
    PROVE  Inv'
<1> USE PairsAssumption
<1>1. PICK answer \in Answers :
        LET over == answer.kind \in {"end", "raise"}
            usable == Decodes(answer, at)
            completed == usable /\ rows[answer.of] = "completed"
        IN  /\ exhausted' = over
            /\ valid' = (valid /\ usable)
            /\ Note(answer)
            /\ count' = Counted(count,
                   IF over THEN {"missing"}
                   ELSE {"consumed",
                         IF ~usable THEN "invalid"
                         ELSE IF completed THEN "completed" ELSE "failed"})
            /\ tally' = Counted(tally,
                   IF completed THEN truth[answer.of] ELSE Pessimistic(at))
    BY DEF ReduceRow
<1>2. /\ pc \in {"check", "read"}
      /\ at \in Positions
      /\ at' = at + 1
      /\ actual' = Counted(actual, truth[at])
      /\ UNCHANGED <<truth, pc, rows, outcome>>
    BY DEF ReduceRow, Inv, TypeOK, Reducing, Positions
<1> DEFINE over == answer.kind \in {"end", "raise"}
           usable == Decodes(answer, at)
           completed == usable /\ rows[at] = "completed"
           counted == IF over THEN {"missing"}
                      ELSE {"consumed",
                            IF ~usable THEN "invalid"
                            ELSE IF completed THEN "completed" ELSE "failed"}
           cost == IF completed THEN truth[at] ELSE Pessimistic(at)
<1>3. usable => answer = Row(at) /\ answer.of = at /\ ~over
    BY DEF Decodes, Row
<1>4. count' = Counted(count, counted) /\ tally' = Counted(tally, cost)
    BY <1>1, <1>3
<1>5. /\ count \in [Counters -> Nat]
      /\ tally \in [Endpoints -> Nat]
      /\ actual \in [Endpoints -> Nat]
    BY DEF Inv, TypeOK
<1>6. /\ count' \in [Counters -> Nat]
      /\ \A c \in Counters :
            count'[c] = count[c] + IF c \in counted THEN 1 ELSE 0
    BY <1>4, <1>5, CountedType
<1>7. /\ tally' \in [Endpoints -> Nat]
      /\ \A e \in Endpoints :
            tally'[e] = tally[e] + IF e \in cost THEN 1 ELSE 0
    BY <1>4, <1>5, CountedType
<1>8. /\ actual' \in [Endpoints -> Nat]
      /\ \A e \in Endpoints :
            actual'[e] = actual[e] + IF e \in truth[at] THEN 1 ELSE 0
    BY <1>2, <1>5, CountedType
<1>11. given' \in Seq(AllAnswers) /\ Len(given') <= 2 * Pairs + 1 /\ GivenInv'
    <2>1. answer \in AllAnswers
        BY <1>2, AnswersKnown DEF Inv, Reducing
    <2>2. OwnRows[at + 1] = Row(at)
        BY <1>2 DEF OwnRows, Positions
    <2>3. valid' = (valid /\ answer = OwnRows[at + 1])
        BY <1>1, <2>2 DEF Decodes
    <2>4. exhausted' = over
        BY <1>1
    <2>5. exhausted' \in BOOLEAN
        BY <1>1
    <2>7. valid' => ~over
        BY <1>1, <1>3
    <2>8. exhausted => answer = Other("end")
        BY DEF Answers
    <2>9. exhausted => over
        BY <2>8 DEF Other
    <2>6. TypeOK /\ GivenInv /\ Reducing /\ at <= 2 * Pairs
        BY <1>2 DEF Inv, Reducing, Positions
    <2> QED BY <1>1, <1>2, <2>1, <2>3, <2>4, <2>5, <2>6, <2>7, <2>9,
                NoteKeeps
<1>9. TypeOK'
    <2>1. exhausted' \in BOOLEAN /\ valid' \in BOOLEAN
        BY <1>1
    <2>2. at' \in 0 .. 2 * Pairs + 1
        BY <1>2 DEF Positions
    <2> QED BY <2>1, <2>2, <1>2, <1>6, <1>7, <1>8, <1>11 DEF Inv, TypeOK
<1>10. Dominated'
    <2>1. Possible(at, truth[at])
        BY <1>2 DEF Inv, TruthInv
    <2>2. /\ "detection" \in cost => "detection" \in truth[at]
          /\ "localization" \in cost => "localization" \in truth[at]
          /\ "preOnset" \in truth[at] => "preOnset" \in cost
          /\ "control" \in truth[at] => "control" \in cost
        BY <2>1 DEF Possible, Pessimistic
    <2>3. \A e \in Endpoints : tally[e] \in Nat /\ actual[e] \in Nat
        BY <1>5
    <2>4. {"detection", "localization", "preOnset", "control"} = Endpoints
        BY DEF Endpoints
    <2> QED BY <1>7, <1>8, <2>2, <2>3, <2>4 DEF Inv, Dominated
<1>12. Counters = {"consumed", "completed", "failed", "invalid", "missing",
                   "extra"}
    BY DEF Counters
<1>13. \A c \in Counters : count[c] \in Nat
    BY <1>5
<1>14. CountsAddUp'
    <2>1. ~completed => "preOnset" \in cost \/ "control" \in cost
        BY DEF Pessimistic
    <2>2. \A e \in Endpoints : tally[e] \in Nat
        BY <1>5
    <2>3. "preOnset" \in Endpoints /\ "control" \in Endpoints
        BY DEF Endpoints
    <2>4. /\ at \in Nat /\ at < 2 * Pairs /\ Pairs \in Nat
          /\ count["extra"] = 0
        BY <1>2 DEF Positions, Inv, Books, Reducing
    <2>5. /\ count["completed"] + count["failed"] + count["invalid"]
                 + count["missing"] = at
          /\ count["completed"] + count["failed"] + count["invalid"]
                 + count["extra"] = count["consumed"]
          /\ tally["preOnset"] + tally["control"]
                 >= count["failed"] + count["invalid"] + count["missing"]
        BY <1>2, <2>4 DEF Inv, CountsAddUp, Reducing
    <2>6. CASE over
        <3>1. /\ count'["missing"] = count["missing"] + 1
              /\ \A c \in Counters \ {"missing"} : count'[c] = count[c]
            BY <2>6, <1>6, <1>12, <1>13
        <3>2. ~completed
            BY <2>6, <1>3
        <3>3. tally'["preOnset"] + tally'["control"]
                  >= tally["preOnset"] + tally["control"] + 1
            BY <3>2, <2>1, <2>2, <2>3, <1>7
        <3> QED BY <1>2, <1>12, <1>13, <1>7, <2>2, <2>3, <2>4, <2>5, <3>1, <3>3
                DEF CountsAddUp
    <2>7. CASE ~over /\ completed
        <3>1. /\ count'["completed"] = count["completed"] + 1
              /\ count'["consumed"] = count["consumed"] + 1
              /\ \A c \in Counters \ {"completed", "consumed"} :
                    count'[c] = count[c]
            BY <2>7, <1>6, <1>12, <1>13
        <3>2. tally'["preOnset"] + tally'["control"]
                  >= tally["preOnset"] + tally["control"]
            BY <2>2, <2>3, <1>7
        <3> QED BY <1>2, <1>12, <1>13, <1>7, <2>2, <2>3, <2>4, <2>5, <3>1, <3>2
                DEF CountsAddUp
    <2>8. CASE ~over /\ ~completed
        <3>1. PICK c \in {"failed", "invalid"} :
                /\ count'[c] = count[c] + 1
                /\ count'["consumed"] = count["consumed"] + 1
                /\ \A d \in Counters \ {c, "consumed"} : count'[d] = count[d]
            BY <2>8, <1>6, <1>12, <1>13
        <3>2. tally'["preOnset"] + tally'["control"]
                  >= tally["preOnset"] + tally["control"] + 1
            BY <2>8, <2>1, <2>2, <2>3, <1>7
        <3> QED BY <1>2, <1>12, <1>13, <1>7, <2>2, <2>3, <2>4, <2>5, <3>1, <3>2
                DEF CountsAddUp
    <2> QED BY <2>6, <2>7, <2>8
<1>15. Books'
    BY <1>2, <1>6, <1>12, <1>13 DEF Inv, Books, Reducing, Positions
<1>16. CheckInv'
    <2> SUFFICES ASSUME pc = "check" PROVE CheckInv'
        BY <1>2 DEF CheckInv
    <2>1. answer = Row(at)
        BY <1>2 DEF Inv, CheckInv, Answers, Positions
    <2>2. usable /\ ~over
        BY <2>1 DEF Decodes, Row
    <2>3. valid' /\ ~exhausted'
        BY <1>1, <2>2 DEF Inv, CheckInv
    <2>4. \A c \in {"invalid", "missing", "extra"} : count'[c] = count[c]
        BY <1>6, <1>12, <1>13, <2>2
    <2> QED BY <2>3, <2>4 DEF Inv, CheckInv
<1>17. ExecuteInv' /\ TruthInv' /\ VerdictInv' /\ OwnRowsPass'
    BY <1>2 DEF Inv, ExecuteInv, TruthInv, Possible, VerdictInv,
                FailureNeverHelps, OwnRowsPass
<1> QED BY <1>9, <1>10, <1>11, <1>14, <1>15, <1>16, <1>17 DEF Inv

\* The one answer beyond the plan.
LEMMA ProbeKeeps ==
    ASSUME Inv, ProbeExtra
    PROVE  Inv'
<1> USE PairsAssumption
<1>1. PICK answer \in Answers :
        /\ valid' = (valid /\ answer.kind = "end")
        /\ Note(answer)
        /\ count' = Counted(count,
               IF answer.kind \in {"end", "raise"} THEN {}
               ELSE {"consumed", "extra"})
    BY DEF ProbeExtra
<1>2. /\ pc \in {"check", "read"}
      /\ at = 2 * Pairs
      /\ at' = 2 * Pairs + 1
      /\ UNCHANGED <<truth, pc, rows, exhausted, tally, actual, outcome>>
    BY DEF ProbeExtra, Reducing
<1>3. /\ count \in [Counters -> Nat]
      /\ Counters = {"consumed", "completed", "failed", "invalid", "missing",
                     "extra"}
    BY DEF Inv, TypeOK, Counters
<1>4. /\ count' \in [Counters -> Nat]
      /\ \A c \in Counters : count'[c] = count[c]
            + IF c \in (IF answer.kind \in {"end", "raise"} THEN {}
                        ELSE {"consumed", "extra"}) THEN 1 ELSE 0
    BY <1>1, <1>3, CountedType
<1>8. given' \in Seq(AllAnswers) /\ Len(given') <= 2 * Pairs + 1 /\ GivenInv'
    <2>1. answer \in AllAnswers
        BY <1>2, AnswersKnown DEF Inv, Reducing
    <2>2. OwnRows[at + 1] = Other("end")
        BY <1>2 DEF OwnRows
    <2>3. answer.kind = "end" <=> answer = Other("end")
        BY <2>1 DEF AllAnswers, Row, Other
    <2>4. valid' = (valid /\ answer = OwnRows[at + 1])
        BY <1>1, <2>2, <2>3
    <2>5. exhausted \in BOOLEAN /\ (exhausted => ~valid)
        BY <1>2 DEF Inv, TypeOK, GivenInv, Reducing
    <2>6. TypeOK /\ GivenInv /\ Reducing /\ at <= 2 * Pairs
        BY <1>2 DEF Inv, Reducing
    <2> QED BY <1>1, <1>2, <2>1, <2>4, <2>5, <2>6, NoteKeeps
<1>5. TypeOK'
    BY <1>1, <1>2, <1>4, <1>8 DEF Inv, TypeOK
<1>6. count["extra"] = 0
    BY <1>2 DEF Inv, Books, Reducing
<1>7. CountsAddUp' /\ Books'
    <2>1. /\ count["completed"] + count["failed"] + count["invalid"]
                 + count["missing"] = 2 * Pairs
          /\ count["completed"] + count["failed"] + count["invalid"]
                 + count["extra"] = count["consumed"]
          /\ tally["preOnset"] + tally["control"]
                 >= count["failed"] + count["invalid"] + count["missing"]
        BY <1>2 DEF Inv, CountsAddUp, Reducing
    <2>2. \A c \in Counters : count[c] \in Nat
        BY <1>3
    <2>3. \A c \in {"completed", "failed", "invalid", "missing"} :
             count'[c] = count[c]
        BY <1>3, <1>4, <2>2
    <2>4. PICK n \in {0, 1} : /\ count'["extra"] = n
                              /\ count'["consumed"] = count["consumed"] + n
        BY <1>3, <1>4, <1>6, <2>2
    <2> QED BY <1>2, <1>3, <1>6, <2>1, <2>2, <2>3, <2>4
            DEF CountsAddUp, Books, Reducing
<1>9. CheckInv'
    <2> SUFFICES ASSUME pc = "check" PROVE CheckInv'
        BY <1>2 DEF CheckInv
    <2>1. answer = Other("end")
        BY <1>2 DEF Inv, CheckInv, Answers
    <2>2. answer.kind = "end"
        BY <2>1 DEF Other
    <2>3. valid' /\ ~exhausted'
        BY <1>1, <1>2, <2>2 DEF Inv, CheckInv
    <2>4. \A c \in {"invalid", "missing", "extra"} : count'[c] = count[c]
        BY <1>3, <1>4, <2>2
    <2> QED BY <2>3, <2>4 DEF Inv, CheckInv
<1>10. ExecuteInv' /\ TruthInv' /\ Dominated' /\ VerdictInv' /\ OwnRowsPass'
    BY <1>2 DEF Inv, ExecuteInv, TruthInv, Possible, Dominated, VerdictInv,
                FailureNeverHelps, Meets, OwnRowsPass
<1> QED BY <1>5, <1>7, <1>8, <1>9, <1>10 DEF Inv

\* The executor's check: it never fails, for what it read were its own rows.
LEMMA ReturnKeeps ==
    ASSUME Inv, ReturnRows
    PROVE  Inv'
<1> USE PairsAssumption
<1>1. pc = "check" /\ at = 2 * Pairs + 1 /\ UNCHANGED <<truth, rows>>
    BY DEF ReturnRows
<1>2. /\ valid
      /\ count["invalid"] = 0
      /\ count["missing"] = 0
      /\ count["extra"] = 0
    BY <1>1 DEF Inv, CheckInv
<1>3. count["completed"] + count["failed"] = 2 * Pairs
      /\ count["consumed"] = 2 * Pairs
    <2>1. \A c \in Counters : count[c] \in Nat
        BY DEF Inv, TypeOK
    <2>2. /\ count["completed"] + count["failed"] + count["invalid"]
                 + count["missing"] = 2 * Pairs
          /\ count["completed"] + count["failed"] + count["invalid"]
                 + count["extra"] = count["consumed"]
        BY <1>1 DEF Inv, CountsAddUp, Reducing
    <2> QED BY <1>2, <2>1, <2>2 DEF Counters
<1>4. pc' = "read" /\ StartReducing /\ UNCHANGED outcome
    BY <1>2, <1>3 DEF ReturnRows
<1>5. outcome' = "none"
    BY <1>1, <1>4 DEF Inv, VerdictInv
<1>6. rows' \in [Positions -> {"none", "failed", "completed"}]
    BY <1>1 DEF Inv, TypeOK
<1> QED BY <1>1, <1>4, <1>5, <1>6, StartInv

\* The verdict: thresholds met by the tally are met by the truth.
LEMMA ConcludeKeeps ==
    ASSUME Inv, Conclude
    PROVE  Inv'
<1> USE PairsAssumption
<1>1. /\ pc = "read" /\ pc' = "done"
      /\ UNCHANGED <<truth, at, rows, exhausted, valid, count, tally, actual,
                     given>>
      /\ outcome' = IF valid /\ Meets(tally) THEN "accepted" ELSE "rejected"
    BY DEF Conclude
<1>2. Meets(tally) => Meets(actual)
    <2>1. \A e \in Endpoints : tally[e] \in Nat /\ actual[e] \in Nat
        BY DEF Inv, TypeOK
    <2> QED BY <2>1, ThresholdAssumption DEF Inv, Dominated, Meets, Endpoints
<1>3. VerdictInv'
    BY <1>1, <1>2 DEF VerdictInv, FailureNeverHelps, Meets
<1>4. TypeOK'
    BY <1>1 DEF Inv, TypeOK
<1> QED BY <1>1, <1>3, <1>4
        DEF Inv, ExecuteInv, TruthInv, Possible, Dominated, GivenInv,
            CountsAddUp, Books, CheckInv, Reducing, OwnRowsPass

\* An abort of the executor, or an iterator that cannot be had.
LEMMA StopKeeps ==
    ASSUME Inv, Abort \/ NoIterator
    PROVE  Inv'
<1> USE PairsAssumption
<1>1. CASE Abort
    BY <1>1 DEF Abort, Inv, TypeOK, ExecuteInv, TruthInv, Possible, Dominated,
                GivenInv, CountsAddUp, Books, CheckInv, Reducing,
                VerdictInv, FailureNeverHelps, OwnRowsPass, Meets
<1>2. CASE NoIterator
    <2>1. /\ pc = "read" /\ at = 0 /\ ~exhausted /\ exhausted' /\ ~valid'
          /\ Note(Other("raise"))
          /\ UNCHANGED <<truth, pc, at, rows, count, tally, actual, outcome>>
        BY <1>2 DEF NoIterator
    <2>2. given \in Seq(AllAnswers) /\ Len(given) = 0
        BY <2>1 DEF Inv, TypeOK, GivenInv, Reducing
    <2>3. Other("raise") \in AllAnswers /\ given' = Append(given, Other("raise"))
        BY <2>1 DEF AllAnswers, Note
    <2>4. /\ given' \in Seq(AllAnswers)
          /\ Len(given') = 1
          /\ given'[1] = Other("raise")
        BY <2>2, <2>3
    <2>5. OwnRows[1] = Row(0) /\ OwnRows' = OwnRows
        BY DEF OwnRows
    <2>6. given'[1] # OwnRows'[1]
        BY <2>4, <2>5 DEF Row, Other
    <2>7. GivenInv'
        BY <2>1, <2>4, <2>6 DEF GivenInv
    <2>8. exhausted' \in BOOLEAN /\ valid' \in BOOLEAN
        BY <1>2 DEF NoIterator
    <2>9. TypeOK'
        BY <2>1, <2>4, <2>8 DEF Inv, TypeOK
    <2> QED BY <2>1, <2>7, <2>9
            DEF Inv, ExecuteInv, TruthInv, Possible, Dominated, CountsAddUp,
                Books, CheckInv, Reducing, VerdictInv, FailureNeverHelps,
                OwnRowsPass, Meets
<1> QED BY <1>1, <1>2

LEMMA StutterKeeps ==
    ASSUME Inv, UNCHANGED vars
    PROVE  Inv'
BY DEF vars, Inv, TypeOK, ExecuteInv, TruthInv, Possible, Dominated,
       GivenInv, CountsAddUp, Books, CheckInv, Reducing, VerdictInv,
       FailureNeverHelps, OwnRowsPass, Meets

LEMMA InvAlways == Spec => []Inv
<1>1. Inv /\ [Next]_vars => Inv'
    BY ExecuteKeeps, ReduceKeeps, ProbeKeeps, ReturnKeeps, ConcludeKeeps,
       StopKeeps, StutterKeeps DEF Next
<1> QED BY InitInv, <1>1, PTL DEF Spec

-----------------------------------------------------------------------------
\* Every variable keeps its type; the reducer reads at most one answer more than
\* the plan has rows (reduce_holdout_rows).
THEOREM TypeCorrect == Spec => []TypeOK
<1>1. Inv => TypeOK
    BY DEF Inv
<1> QED BY InvAlways, <1>1, PTL

\* No failure of an arm and no stream of rows turns a rejection into an
\* acceptance, for any plan and any thresholds.
THEOREM FailuresCannotHelp == Spec => []FailureNeverHelps
<1>1. Inv => FailureNeverHelps
    BY DEF Inv, VerdictInv
<1> QED BY InvAlways, <1>1, PTL

\* contract_valid is true at the end of a reduction exactly if the sequence of
\* answers of the stream was the executor's rows, in order, and then the end.
THEOREM ContractIsFaithful == Spec => []ValidMeansFaithful
<1>1. Inv => ValidMeansFaithful
    <2> SUFFICES ASSUME Inv, Reducing, at = 2 * Pairs + 1
                 PROVE  valid <=> given = OwnRows
        BY DEF ValidMeansFaithful
    <2> USE PairsAssumption
    <2>1. given \in Seq(AllAnswers) /\ valid \in BOOLEAN /\ exhausted \in BOOLEAN
        BY DEF Inv, TypeOK
    <2>2. ASSUME valid PROVE given = OwnRows
        <3>1. /\ Len(given) = 2 * Pairs + 1
              /\ \A i \in 1 .. 2 * Pairs + 1 : given[i] = OwnRows[i]
            BY <2>1, <2>2 DEF Inv, GivenInv
        <3> QED BY <2>1, <3>1 DEF OwnRows
    <2>3. ASSUME ~valid PROVE given # OwnRows
        BY <2>3 DEF Inv, GivenInv
    <2> QED BY <2>1, <2>2, <2>3
<1> QED BY InvAlways, <1>1, PTL

\* Every position and every row read is accounted for once.
THEOREM Accounted == Spec => []CountsAddUp
<1>1. Inv => CountsAddUp
    BY DEF Inv
<1> QED BY InvAlways, <1>1, PTL

\* The executor never raises internal_contract over its own rows.
THEOREM ExecutorNeverTrips == Spec => []OwnRowsPass
<1>1. Inv => OwnRowsPass
    BY DEF Inv
<1> QED BY InvAlways, <1>1, PTL
=============================================================================
