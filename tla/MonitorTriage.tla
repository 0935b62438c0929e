---------------------------- MODULE MonitorTriage ----------------------------
(***************************************************************************)
(* From a dependency graph and a replayed stream to ranked root candidates *)
(* (cowbot/contracts.py and cowbot/monitor.py): the order of the metrics,  *)
(* the minimum path lags, the latched first alarms, the suppression of     *)
(* alarms an earlier ancestor explains, and the ranking of the others.     *)
(*                                                                         *)
(* The evidence of a row is floating-point arithmetic; here it is any      *)
(* level of 0 .. Top, and a metric alarms at Threshold.  The code works    *)
(* out the path lags after the last row; they depend on the schema only    *)
(* and are worked out before the first, so that every prefix of a stream   *)
(* can be triaged.                                                         *)
(***************************************************************************)
EXTENDS Integers, Sequences, FiniteSets, SequencesExt

CONSTANTS
    MetricCount,   \* metrics are numbers; their order is that of their names
    Lags,          \* lags an edge may have
    MaxEdges,      \* bound: edges of a schema
    MaxRows,       \* bound: monitored rows
    Top            \* highest level of evidence

ASSUME SizeAssumption ==
    /\ MetricCount \in Nat \ {0}
    /\ Lags \subseteq Nat \ {0} /\ Lags # {} /\ IsFiniteSet(Lags)
    /\ {MaxEdges, MaxRows, Top} \subseteq Nat

Metrics == 1 .. MetricCount

Threshold == 1

None == 0

\* Longer than every path.
Far == MetricCount * Max(Lags)

VARIABLES
    pc,         \* the next step
    edges,      \* the schema: records of parent, child and lag
    incoming,   \* edges from metrics that are not ordered yet
    ready,      \* metrics without such edges, not ordered yet
    order,      \* the topological order so far
    lags,       \* from each metric to each: the least lag found, or Far
    relaxed,    \* metrics of the order whose edges were followed
    row,        \* monitored rows so far
    alarm,      \* the row of the first alarm, or None
    peak,       \* the highest evidence
    ranked,     \* root_candidates
    suppressed  \* suppressed_candidates

schema == <<edges, incoming, ready, order>>
paths == <<lags, relaxed>>
evidence == <<row, alarm, peak>>
report == <<ranked, suppressed>>
vars == <<pc, schema, paths, evidence, report>>

AllEdges ==
    {e \in [parent : Metrics, child : Metrics, lag : Lags] : e.parent # e.child}

Init ==
    /\ pc = "declare"
    /\ edges = {}
    /\ incoming = [m \in Metrics |-> 0]
    /\ ready = {}
    /\ order = <<>>
    /\ lags = [s \in Metrics |-> [m \in Metrics |-> IF m = s THEN 0 ELSE Far]]
    /\ relaxed = 0
    /\ row = 0
    /\ alarm = [m \in Metrics |-> None]
    /\ peak = [m \in Metrics |-> 0]
    /\ ranked = <<>>
    /\ suppressed = {}

-----------------------------------------------------------------------------
(***************************************************************************)
(* The schema.                                                             *)
(***************************************************************************)

\* Edges may be parallel if their lags differ.
Declare ==
    /\ pc = "declare"
    /\ Cardinality(edges) < MaxEdges
    /\ \E e \in AllEdges \ edges :
         /\ edges' = edges \cup {e}
         /\ incoming' = [incoming EXCEPT ![e.child] = @ + 1]
    /\ UNCHANGED <<pc, ready, order, paths, evidence, report>>

StartOrder ==
    /\ pc = "declare"
    /\ pc' = "order"
    /\ ready' = {m \in Metrics : incoming[m] = 0}
    /\ UNCHANGED <<edges, incoming, order, paths, evidence, report>>

\* Mutant: parallel edges are counted once when their parent is ordered.
TakeReady_Parallel ==
    /\ pc = "order"
    /\ ready # {}
    /\ LET name == Min(ready)
           from == {e \in edges : e.parent = name}
       IN  /\ order' = Append(order, name)
           /\ incoming' = [m \in Metrics |-> incoming[m]
                             - IF \E e \in from : e.child = m THEN 1 ELSE 0]
           /\ ready' = (ready \ {name})
                         \cup {e.child : e \in {f \in from : incoming'[f.child] = 0}}
    /\ UNCHANGED <<pc, edges, paths, evidence, report>>

\* The first of the sorted ready metrics is ordered; its children lose an
\* incoming edge each.
TakeReady ==
    /\ pc = "order"
    /\ ready # {}
    /\ LET name == Min(ready)
           from == {e \in edges : e.parent = name}
       IN  /\ order' = Append(order, name)
           /\ incoming' = [m \in Metrics |-> incoming[m]
                             - Cardinality({e \in from : e.child = m})]
           /\ ready' = (ready \ {name})
                         \cup {e.child : e \in {f \in from : incoming'[f.child] = 0}}
    /\ UNCHANGED <<pc, edges, paths, evidence, report>>

\* A schema with a cycle is refused.
JudgeSchema ==
    /\ pc = "order"
    /\ ready = {}
    /\ pc' = IF Len(order) = MetricCount THEN "relax" ELSE "refused"
    /\ UNCHANGED <<schema, paths, evidence, report>>

-----------------------------------------------------------------------------
(***************************************************************************)
(* Minimum path lags.                                                      *)
(***************************************************************************)

\* Mutant: the first path found to a metric is kept.
Relax_First ==
    /\ pc = "relax"
    /\ relaxed < MetricCount
    /\ relaxed' = relaxed + 1
    /\ LET via == order[relaxed + 1]
           hops(s, m) == {lags[s][via] + e.lag :
                            e \in {f \in edges : f.parent = via /\ f.child = m
                                                   /\ lags[s][via] < Far}}
       IN  lags' = [s \in Metrics |-> [m \in Metrics |->
                      IF lags[s][m] = Far THEN Min({Far} \cup hops(s, m))
                                          ELSE lags[s][m]]]
    /\ UNCHANGED <<pc, schema, evidence, report>>

\* The edges of the next metric of the order, for every source that reaches it.
Relax ==
    /\ pc = "relax"
    /\ relaxed < MetricCount
    /\ relaxed' = relaxed + 1
    /\ LET via == order[relaxed + 1]
           hops(s, m) == {lags[s][via] + e.lag :
                            e \in {f \in edges : f.parent = via /\ f.child = m
                                                   /\ lags[s][via] < Far}}
       IN  lags' = [s \in Metrics |-> [m \in Metrics |->
                      Min({lags[s][m]} \cup hops(s, m))]]
    /\ UNCHANGED <<pc, schema, evidence, report>>

StartReplay ==
    /\ pc = "relax"
    /\ relaxed = MetricCount
    /\ pc' = "replay"
    /\ UNCHANGED <<schema, paths, evidence, report>>

Reaches(a, m) == a # m /\ lags[a][m] < Far

-----------------------------------------------------------------------------
(***************************************************************************)
(* The replay.                                                             *)
(***************************************************************************)

\* Mutant: the alarm follows the evidence instead of staying at its first row.
ObserveRow_Last ==
    /\ pc = "replay"
    /\ row < MaxRows
    /\ row' = row + 1
    /\ \E level \in [Metrics -> 0 .. Top] :
         /\ alarm' = [m \in Metrics |->
                        IF level[m] >= Threshold THEN row' ELSE alarm[m]]
         /\ peak' = [m \in Metrics |-> Max({peak[m], level[m]})]
    /\ UNCHANGED <<pc, schema, paths, report>>

\* The metrics of a row do not depend on each other's evidence.
ObserveRow ==
    /\ pc = "replay"
    /\ row < MaxRows
    /\ row' = row + 1
    /\ \E level \in [Metrics -> 0 .. Top] :
         /\ alarm' = [m \in Metrics |->
                        IF alarm[m] = None /\ level[m] >= Threshold
                          THEN row' ELSE alarm[m]]
         /\ peak' = [m \in Metrics |-> Max({peak[m], level[m]})]
    /\ UNCHANGED <<pc, schema, paths, report>>

-----------------------------------------------------------------------------
(***************************************************************************)
(* Triage.                                                                 *)
(***************************************************************************)
Alarmed == {m \in Metrics : alarm[m] # None}

\* The alarm of a was early enough to reach m.
Explains(a, m) == Reaches(a, m) /\ alarm[a] + lags[a][m] <= alarm[m]

CompatibleAncestors(m) == {a \in Alarmed : Explains(a, m)}

Suppressed == {m \in Alarmed : CompatibleAncestors(m) # {}}

Roots == Alarmed \ Suppressed

DownstreamCount(m) ==
    Cardinality({d \in Alarmed :
        Reaches(m, d) /\ alarm[d] >= alarm[m] + lags[m][d]})

\* The sort key of the root candidates.
Before(a, b) ==
    LET key(m) == <<alarm[m], -DownstreamCount(m), -peak[m], m>>
    IN  \E i \in 1 .. 4 : /\ \A j \in 1 .. i - 1 : key(a)[j] = key(b)[j]
                          /\ key(a)[i] < key(b)[i]

Ranking == CHOOSE q \in SetToSeqs(Roots) :
               \A i, j \in DOMAIN q : i < j => Before(q[i], q[j])

\* The stream may end after any row.
Rank ==
    /\ pc = "replay"
    /\ row > 0
    /\ pc' = "done"
    /\ ranked' = [i \in DOMAIN Ranking |->
                     [metric |-> Ranking[i], support |-> DownstreamCount(Ranking[i])]]
    /\ suppressed' = {[metric |-> m, ancestors |-> CompatibleAncestors(m)] :
                         m \in Suppressed}
    /\ UNCHANGED <<schema, paths, evidence>>

Next ==
    \/ Declare
    \/ StartOrder
    \/ TakeReady
    \/ JudgeSchema
    \/ Relax
    \/ StartReplay
    \/ ObserveRow
    \/ Rank

Spec == Init /\ [][Next]_vars

-----------------------------------------------------------------------------
(***************************************************************************)
(* Properties.                                                             *)
(***************************************************************************)
TypeOK ==
    /\ pc \in {"declare", "order", "relax", "replay", "done", "refused"}
    /\ edges \subseteq AllEdges
    /\ incoming \in [Metrics -> Int]
    /\ ready \subseteq Metrics
    /\ order \in Seq(Metrics)
    /\ lags \in [Metrics -> [Metrics -> 0 .. Far]]
    /\ relaxed \in 0 .. MetricCount
    /\ row \in 0 .. MaxRows
    /\ alarm \in [Metrics -> 0 .. row]
    /\ peak \in [Metrics -> 0 .. Top]

\* A schema is refused exactly if some metrics form a cycle, and otherwise the
\* order has every metric once, after all its parents (_topological_order).
SchemaIsJudged ==
    LET cyclic == \E S \in SUBSET Metrics : S # {} /\ \A m \in S :
                     \E e \in edges : e.child = m /\ e.parent \in S
        position(m) == CHOOSE i \in DOMAIN order : order[i] = m
    IN  /\ pc = "refused" => cyclic
        /\ pc = "relax" =>
             /\ ToSet(order) = Metrics
             /\ Len(order) = MetricCount
             /\ \A e \in edges : position(e.parent) < position(e.child)

\* The path lags of a finished schema solve the shortest-path equation, which in
\* an acyclic graph has one solution: the minimum over all paths.
LagsAreMinimal ==
    pc = "relax" /\ relaxed = MetricCount =>
        \A s, m \in Metrics :
            lags[s][m] =
                IF s = m THEN 0
                ELSE Min({Far} \cup {lags[s][e.parent] + e.lag :
                        e \in {f \in edges : f.child = m
                                               /\ lags[s][f.parent] < Far}})

\* No alarm disappears into a chain of explanations: whatever is suppressed is
\* explained by a candidate that is itself in the report, and the support of a
\* candidate is the number of suppressed alarms that name it: the two conditions
\* that _rank_candidates writes separately agree.
SuppressionIsRooted ==
    pc = "done" =>
        /\ \A c \in suppressed :
             \E i \in DOMAIN ranked : ranked[i].metric \in c.ancestors
        /\ \A i \in DOMAIN ranked :
             ranked[i].support = Cardinality(
                 {c \in suppressed : ranked[i].metric \in c.ancestors})

\* Later rows never take a root candidate or a suppression back: a report on a
\* prefix of the stream is confirmed by every longer one.
PrefixIsStable ==
    [][row' # row => Roots \subseteq Roots' /\ Suppressed \subseteq Suppressed']_vars
=============================================================================
