------------------------- MODULE MonitorTriageProofs -------------------------
(***************************************************************************)
(* Triage, for any number of metrics, any finite schema and any stream.    *)
(*                                                                         *)
(* Kahn's algorithm: a metric is ready when none of its edges is open, and *)
(* every ordered metric stands behind its parents (OrderInv); so what is   *)
(* left when nothing is ready has a cycle.  The lags solve the shortest-   *)
(* path equation for the metrics followed so far (LagsInv), because no     *)
(* edge of the next metric leads back.  Solved lags obey the triangle      *)
(* inequality; so of the alarms that explain a metric the earliest is not  *)
(* explained itself, and stands in the ranking.                            *)
(***************************************************************************)
EXTENDS MonitorTriage, FiniteSetTheorems, WellFoundedInduction, TLAPS

(***************************************************************************)
(* Numbers.                                                                *)
(***************************************************************************)

\* A set of numbers has a least element: of its finite initial segments one
\* contains no other.
LEMMA LeastExists ==
  ASSUME NEW S \in SUBSET Nat, S # {}
  PROVE  \E x \in S : \A y \in S : x <= y
<1> DEFINE upTo(x) == {y \in S : y <= x}
           T == {upTo(x) : x \in S}
<1>1. \A x \in S : IsFiniteSet(upTo(x)) /\ upTo(x) \in SUBSET Nat
  <2> TAKE x \in S
  <2>1. x \in Nat /\ upTo(x) \in SUBSET Nat /\ \A y \in upTo(x) : y <= x
    OBVIOUS
  <2> HIDE DEF upTo
  <2> QED
    BY <2>1, FS_BoundedSetOfNaturals
<1>2. T \subseteq FiniteSubsetsOf(Nat) /\ T # {}
  BY <1>1 DEF FiniteSubsetsOf
<1>3. PICK U \in T : \A V \in T : ~ (<<V, U>> \in StrictSubsetOrdering(Nat))
  <2> HIDE DEF T
  <2> QED
    BY <1>2, FS_StrictSubsetOrderingWellFounded, WFMin
<1>4. PICK x \in S : U = upTo(x)
  OBVIOUS
<1>5. ASSUME NEW y \in S, ~ (x <= y) PROVE FALSE
  <2>1. upTo(y) \subseteq upTo(x) /\ upTo(y) # upTo(x)
    <3>1. y \in Nat /\ x \in Nat /\ y < x
      BY <1>5
    <3>2. x \in upTo(x) /\ x \notin upTo(y)
      BY <3>1
    <3>3. ASSUME NEW z \in upTo(y) PROVE z \in upTo(x)
      <4>1. z \in S /\ z \in Nat
        OBVIOUS
      <4> QED
        BY <3>1, <4>1
    <3> QED
      BY <3>2, <3>3
  <2>2. <<upTo(y), upTo(x)>> \in StrictSubsetOrdering(Nat)
    BY <1>1, <2>1 DEF StrictSubsetOrdering
  <2> QED
    BY <1>3, <1>4, <2>2
<1> QED
  BY <1>5

LEMMA MinIsLeast ==
  ASSUME NEW S \in SUBSET Nat, S # {}
  PROVE  Min(S) \in S /\ \A x \in S : Min(S) <= x
BY LeastExists DEF Min

LEMMA MinIs ==
  ASSUME NEW S \in SUBSET Nat, NEW x \in S, \A y \in S : x <= y
  PROVE  Min(S) = x
<1>1. Min(S) \in S /\ \A y \in S : Min(S) <= y
  BY MinIsLeast
<1>2. Min(S) \in Nat /\ x \in Nat /\ Min(S) <= x /\ x <= Min(S)
  BY <1>1
<1> QED
  BY <1>2

\* The least of a union.
LEMMA MinOfUnion ==
  ASSUME NEW S \in SUBSET Nat, NEW T \in SUBSET Nat, S # {}
  PROVE  Min({Min(S)} \cup T) = Min(S \cup T)
<1>1. Min(S) \in S /\ \A x \in S : Min(S) <= x
  BY MinIsLeast
<1>2. /\ Min(S \cup T) \in S \cup T
      /\ \A x \in S \cup T : Min(S \cup T) <= x
  BY MinIsLeast
<1>3. Min(S \cup T) \in {Min(S)} \cup T
  <2>1. CASE Min(S \cup T) \in S
    <3>1. Min(S \cup T) <= Min(S) /\ Min(S) <= Min(S \cup T)
      BY <1>1, <1>2, <2>1
    <3>2. Min(S \cup T) \in Nat /\ Min(S) \in Nat
      BY <1>1, <2>1
    <3>3. \A a, b \in Nat : a <= b /\ b <= a => a = b
      OBVIOUS
    <3>4. Min(S \cup T) = Min(S)
      BY <3>1, <3>2, <3>3
    <3> QED
      BY <3>4
  <2> QED
    BY <1>2, <2>1
<1>4. \A y \in {Min(S)} \cup T : Min(S \cup T) <= y
  BY <1>1, <1>2
<1>5. {Min(S)} \cup T \in SUBSET Nat
  BY <1>1
<1> QED
  BY <1>3, <1>4, <1>5, MinIs

\* A finite set of numbers has a greatest element.
LEMMA MaxIsGreatest ==
  ASSUME NEW S \in SUBSET Nat, S # {}, IsFiniteSet(S)
  PROVE  Max(S) \in S /\ \A x \in S : x <= Max(S)
<1> DEFINE from(x) == {y \in S : y >= x}
           T == {from(x) : x \in S}
<1>1. \A x \in S : IsFiniteSet(from(x)) /\ from(x) \in SUBSET Nat
  BY FS_Subset
<1>2. T \subseteq FiniteSubsetsOf(Nat) /\ T # {}
  BY <1>1 DEF FiniteSubsetsOf
<1>3. PICK U \in T : \A V \in T : ~ (<<V, U>> \in StrictSubsetOrdering(Nat))
  <2> HIDE DEF T
  <2> QED
    BY <1>2, FS_StrictSubsetOrderingWellFounded, WFMin
<1>4. PICK x \in S : U = from(x)
  OBVIOUS
<1>5. ASSUME NEW y \in S, ~ (x >= y) PROVE FALSE
  <2>1. from(y) \subseteq from(x) /\ from(y) # from(x)
    <3>1. y \in Nat /\ x \in Nat /\ y > x
      BY <1>5
    <3>2. x \in from(x) /\ x \notin from(y)
      BY <3>1
    <3>3. ASSUME NEW z \in from(y) PROVE z \in from(x)
      <4>1. z \in S /\ z \in Nat
        OBVIOUS
      <4> QED
        BY <3>1, <4>1
    <3> QED
      BY <3>2, <3>3
  <2>2. <<from(y), from(x)>> \in StrictSubsetOrdering(Nat)
    BY <1>1, <2>1 DEF StrictSubsetOrdering
  <2> QED
    BY <1>3, <1>4, <2>2
<1>6. \E z \in S : \A y \in S : z >= y
  BY <1>5
<1>7. Max(S) \in S /\ \A y \in S : Max(S) >= y
  BY <1>6 DEF Max
<1> QED
  BY <1>7

\* The greatest lag of one edge.
Longest == Max(Lags)

LEMMA LongestLag ==
  /\ Longest \in Nat \ {0}
  /\ \A l \in Lags : l \in Nat \ {0} /\ l <= Longest
BY SizeAssumption, MaxIsGreatest DEF Longest

LEMMA FarIsNat == Far \in Nat \ {0}
<1>1. Far = MetricCount * Longest
  BY DEF Far, Longest
<1>2. \A a, b \in Nat \ {0} : a * b \in Nat \ {0}
  OBVIOUS
<1> QED
  BY <1>1, <1>2, LongestLag, SizeAssumption

LEMMA MaxOfTwo ==
  ASSUME NEW a \in Nat, NEW b \in Nat
  PROVE  Max({a, b}) \in {a, b}
<1>1. IsFiniteSet({a} \cup {b}) /\ {a} \cup {b} = {a, b}
  BY FS_Singleton, FS_AddElement
<1> QED
  BY <1>1, MaxIsGreatest

(***************************************************************************)
(* Types.                                                                  *)
(***************************************************************************)
TypeInv == TypeOK /\ IsFiniteSet(edges)

LEMMA TypeInit == Init => TypeInv
<1> SUFFICES ASSUME Init PROVE TypeInv
  OBVIOUS
<1>1. IsFiniteSet({})
  BY FS_EmptySet
<1>2. lags \in [Metrics -> [Metrics -> 0 .. Far]]
  BY FarIsNat DEF Init
<1>3. order \in Seq(Metrics)
  BY DEF Init
<1> QED
  BY <1>1, <1>2, <1>3, SizeAssumption DEF Init, TypeInv, TypeOK, None

\* The edges Relax follows from via to m, for the source s.
Hops(s, via, m) ==
  {lags[s][via] + e.lag :
     e \in {f \in edges : f.parent = via /\ f.child = m /\ lags[s][via] < Far}}

LEMMA HopsAreNumbers ==
  ASSUME TypeOK, NEW s \in Metrics, NEW m \in Metrics, NEW via
  PROVE  Hops(s, via, m) \in SUBSET Nat
<1> SUFFICES ASSUME NEW e \in edges, e.parent = via
             PROVE  lags[s][via] + e.lag \in Nat
  BY DEF Hops
<1>1. e.lag \in Nat /\ via \in Metrics
  BY SizeAssumption DEF TypeOK, AllEdges
<1>2. lags[s][via] \in 0 .. Far
  BY <1>1 DEF TypeOK
<1> QED
  BY <1>1, <1>2, FarIsNat

LEMMA RelaxIs ==
  ASSUME Relax, NEW s \in Metrics, NEW m \in Metrics
  PROVE  lags'[s][m] = Min({lags[s][m]} \cup Hops(s, order[relaxed + 1], m))
BY DEF Relax, Hops

LEMMA LagsShrink ==
  ASSUME TypeOK, Relax, NEW s \in Metrics, NEW m \in Metrics
  PROVE  /\ lags'[s][m] \in {lags[s][m]} \cup Hops(s, order[relaxed + 1], m)
         /\ lags'[s][m] \in Nat
         /\ lags'[s][m] <= lags[s][m]
         /\ \A x \in Hops(s, order[relaxed + 1], m) : lags'[s][m] <= x
<1> DEFINE S == {lags[s][m]} \cup Hops(s, order[relaxed + 1], m)
<1>1. lags[s][m] \in Nat
  BY FarIsNat DEF TypeOK
<1>2. S \in SUBSET Nat /\ S # {}
  BY <1>1, HopsAreNumbers
<1>3. Min(S) \in S /\ \A x \in S : Min(S) <= x
  <2> HIDE DEF S
  <2> QED
    BY <1>2, MinIsLeast
<1> QED
  BY <1>2, <1>3, RelaxIs

\* The edges m loses when n is ordered.
Lost(n, m) == {e \in edges : e.parent = n /\ e.child = m}

LEMMA TakeReadyIs ==
  ASSUME TypeInv, TakeReady
  PROVE  \E n \in Metrics :
           /\ n \in ready
           /\ order' = Append(order, n)
           /\ incoming' = [m \in Metrics |-> incoming[m] - Cardinality(Lost(n, m))]
           /\ \A m : m \in ready' <=>
                \/ m \in ready /\ m # n
                \/ \E e \in edges : e.parent = n /\ e.child = m /\ incoming'[m] = 0
<1> DEFINE n == Min(ready)
           from == {e \in edges : e.parent = n}
<1>1. n \in ready /\ n \in Metrics
  <2>1. ready \in SUBSET Nat /\ ready # {}
    BY DEF TakeReady, TypeInv, TypeOK, Metrics
  <2> QED
    BY <2>1, MinIsLeast DEF TypeInv, TypeOK
<1>2. /\ order' = Append(order, n)
      /\ incoming' = [m \in Metrics |-> incoming[m] - Cardinality({e \in from : e.child = m})]
      /\ ready' = (ready \ {n}) \cup {e.child : e \in {f \in from : incoming'[f.child] = 0}}
  BY DEF TakeReady
<1>3. \A m : {e \in from : e.child = m} = Lost(n, m)
  BY DEF Lost
<1> HIDE DEF n
<1>4. incoming' = [m \in Metrics |-> incoming[m] - Cardinality(Lost(n, m))]
  BY <1>2, <1>3
<1>5. ASSUME NEW m
      PROVE  m \in ready' <=>
                \/ m \in ready /\ m # n
                \/ \E e \in edges : e.parent = n /\ e.child = m /\ incoming'[m] = 0
  <2>1. m \in {e.child : e \in {f \in from : incoming'[f.child] = 0}}
          <=> \E e \in edges : e.parent = n /\ e.child = m /\ incoming'[m] = 0
    OBVIOUS
  <2> QED
    BY <1>2, <2>1
<1> QED
  BY <1>1, <1>2, <1>4, <1>5

LEMMA TakeReadyTypes ==
  ASSUME TypeInv, TakeReady
  PROVE  /\ order' \in Seq(Metrics)
         /\ incoming' \in [Metrics -> Int]
         /\ ready' \subseteq Metrics
<1>1. PICK n \in Metrics :
           /\ n \in ready
           /\ order' = Append(order, n)
           /\ incoming' = [m \in Metrics |-> incoming[m] - Cardinality(Lost(n, m))]
           /\ \A m : m \in ready' <=>
                \/ m \in ready /\ m # n
                \/ \E e \in edges : e.parent = n /\ e.child = m /\ incoming'[m] = 0
  BY TakeReadyIs
<1>2. ASSUME NEW m \in Metrics PROVE incoming[m] - Cardinality(Lost(n, m)) \in Int
  <2>1. Cardinality(Lost(n, m)) \in Nat
    BY FS_Subset, FS_CardinalityType DEF Lost, TypeInv
  <2> QED
    BY <2>1 DEF TypeInv, TypeOK
<1>3. order \in Seq(Metrics) /\ ready \subseteq Metrics
      /\ \A e \in edges : e.child \in Metrics
  BY DEF TypeInv, TypeOK, AllEdges
<1>4. incoming' \in [Metrics -> Int]
  BY <1>1, <1>2
<1>5. ready' \subseteq Metrics
  BY <1>1, <1>3
<1>6. order' \in Seq(Metrics)
  BY <1>1, <1>3
<1> QED
  BY <1>4, <1>5, <1>6

LEMMA TypeStep ==
  ASSUME TypeInv, [Next]_vars
  PROVE  TypeInv'
<1> USE DEF TypeInv, schema, paths, evidence, report
<1>0. Far \in Nat \ {0} /\ MetricCount \in Nat \ {0} /\ {MaxEdges, MaxRows, Top} \subseteq Nat
  BY FarIsNat, SizeAssumption
<1>1. CASE Declare
  <2>1. PICK e \in AllEdges \ edges :
          /\ edges' = edges \cup {e}
          /\ incoming' = [incoming EXCEPT ![e.child] = @ + 1]
    BY <1>1 DEF Declare
  <2>2. IsFiniteSet(edges')
    BY <2>1, FS_AddElement
  <2>3. edges' \subseteq AllEdges
    BY <2>1 DEF TypeOK
  <2>4. incoming' \in [Metrics -> Int]
    BY <2>1 DEF TypeOK, AllEdges
  <2> QED
    BY <1>1, <2>2, <2>3, <2>4 DEF Declare, TypeOK
<1>2. CASE StartOrder
  BY <1>2 DEF StartOrder, TypeOK
<1>3. CASE TakeReady
  BY <1>3, TakeReadyTypes DEF TakeReady, TypeOK
<1>4. CASE JudgeSchema
  BY <1>4 DEF JudgeSchema, TypeOK
<1>5. CASE Relax
  <2>1. lags' \in [Metrics -> [Metrics -> Nat]] 
    <3>1. lags' = [s \in Metrics |-> [m \in Metrics |-> lags'[s][m]]]
      BY <1>5 DEF Relax
    <3>2. \A s, m \in Metrics : lags'[s][m] \in Nat
      BY <1>5, LagsShrink
    <3> QED
      BY <3>1, <3>2
  <2>2. \A s, m \in Metrics : lags'[s][m] \in 0 .. Far
    <3>1. ASSUME NEW s \in Metrics, NEW m \in Metrics PROVE lags'[s][m] \in 0 .. Far
      <4>1. lags'[s][m] \in Nat /\ lags'[s][m] <= lags[s][m]
        BY <1>5, LagsShrink
      <4>2. lags[s][m] \in 0 .. Far
        BY DEF TypeOK
      <4> QED
        BY <1>0, <4>1, <4>2
    <3> QED
      BY <3>1
  <2>3. lags' \in [Metrics -> [Metrics -> 0 .. Far]]
    BY <2>1, <2>2
  <2>4. relaxed' \in 0 .. MetricCount
    BY <1>0, <1>5 DEF Relax, TypeOK
  <2> QED
    BY <1>5, <2>3, <2>4 DEF Relax, TypeOK
<1>6. CASE StartReplay
  BY <1>6 DEF StartReplay, TypeOK
<1>7. CASE ObserveRow
  <2>1. PICK level \in [Metrics -> 0 .. Top] :
         /\ alarm' = [m \in Metrics |->
                        IF alarm[m] = None /\ level[m] >= Threshold
                          THEN row' ELSE alarm[m]]
         /\ peak' = [m \in Metrics |-> Max({peak[m], level[m]})]
    BY <1>7 DEF ObserveRow
  <2>2. row' \in 0 .. MaxRows /\ row' = row + 1 /\ row \in Nat
    BY <1>0, <1>7 DEF ObserveRow, TypeOK
  <2>3. alarm' \in [Metrics -> 0 .. row']
    BY <2>1, <2>2 DEF TypeOK
  <2>4. ASSUME NEW m \in Metrics PROVE Max({peak[m], level[m]}) \in 0 .. Top
    <3>1. peak[m] \in 0 .. Top /\ level[m] \in 0 .. Top
      BY DEF TypeOK
    <3> QED
      BY <1>0, <3>1, MaxOfTwo
  <2>5. peak' \in [Metrics -> 0 .. Top]
    BY <2>1, <2>4
  <2> QED
    BY <1>7, <2>2, <2>3, <2>5 DEF ObserveRow, TypeOK
<1>8. CASE Rank
  BY <1>8 DEF Rank, TypeOK
<1>9. CASE UNCHANGED vars
  BY <1>9 DEF vars, TypeOK
<1> QED
  BY <1>1, <1>2, <1>3, <1>4, <1>5, <1>6, <1>7, <1>8, <1>9 DEF Next

LEMMA TypeInvariant == Spec => []TypeInv
<1>1. TypeInv /\ [Next]_vars => TypeInv'
  BY TypeStep
<1> QED
  BY <1>1, TypeInit, PTL DEF Spec

\* Every variable keeps its type, for any schema and any stream.
THEOREM TypeCorrect == Spec => []TypeOK
<1>1. TypeInv => TypeOK
  BY DEF TypeInv
<1> QED
  BY <1>1, TypeInvariant, PTL

-----------------------------------------------------------------------------
(***************************************************************************)
(* The order.  A metric waits for its open edges: those whose parent is    *)
(* not ordered.                                                            *)
(***************************************************************************)
Ordered == ToSet(order)

Open(m) == {e \in edges : e.child = m /\ e.parent \notin Ordered}

OrderInv ==
  /\ \A m \in Metrics : incoming[m] = Cardinality(Open(m))
  /\ pc = "declare" => order = <<>>
  /\ pc # "declare" => ready = {m \in Metrics \ Ordered : incoming[m] = 0}
  /\ \A i, j \in DOMAIN order : order[i] = order[j] => i = j
  /\ \A i \in DOMAIN order, e \in edges :
       e.child = order[i] => \E j \in 1 .. i - 1 : order[j] = e.parent
  /\ pc \in {"relax", "replay", "done"} => Len(order) = MetricCount
  /\ pc = "refused" => ready = {} /\ Len(order) # MetricCount

LEMMA OrderInit == Init => OrderInv
<1> SUFFICES ASSUME Init PROVE OrderInv
  OBVIOUS
<1>1. \A m : Open(m) = {}
  BY DEF Init, Open
<1>2. order = <<>> /\ DOMAIN order = {}
  BY DEF Init
<1> QED
  BY <1>1, <1>2, FS_EmptySet DEF Init, OrderInv

\* Each metric is ordered once; so all are when there are as many.
LEMMA AllAreOrdered ==
  ASSUME TypeInv, OrderInv
  PROVE  /\ DOMAIN order = 1 .. Len(order) /\ Len(order) \in Nat
         /\ Len(order) = MetricCount <=> Ordered = Metrics
<1>1. /\ Len(order) \in Nat /\ DOMAIN order = 1 .. Len(order)
      /\ order \in [1 .. Len(order) -> Metrics]
  BY DEF TypeInv, TypeOK
<1>2. order \in Injection(1 .. Len(order), Metrics)
  BY <1>1 DEF Injection, IsInjective, OrderInv
<1>3. /\ IsFiniteSet(Metrics) /\ Cardinality(Metrics) = MetricCount
      /\ Cardinality(1 .. Len(order)) = Len(order)
  <2>1. MetricCount \in Nat /\ MetricCount > 0 /\ 1 \in Int
    BY SizeAssumption
  <2>2. \A k \in Nat : IsFiniteSet(1 .. k) /\ Cardinality(1 .. k) = IF 1 > k THEN 0 ELSE k - 1 + 1
    BY FS_Interval
  <2>3. \A k \in Nat : Cardinality(1 .. k) = k
    BY <2>2
  <2> QED
    BY <1>1, <2>1, <2>2, <2>3 DEF Metrics
<1>4. Len(order) = MetricCount <=> order \in Surjection(1 .. Len(order), Metrics)
  BY <1>2, <1>3, FS_Injection
<1>5. order \in Surjection(1 .. Len(order), Metrics) <=> Ordered = Metrics
  BY <1>1 DEF Surjection, Ordered, ToSet
<1> QED
  BY <1>1, <1>4, <1>5

LEMMA OpenIsFinite ==
  ASSUME TypeInv, NEW m
  PROVE  /\ IsFiniteSet(Open(m)) /\ Cardinality(Open(m)) \in Nat
         /\ Cardinality(Open(m)) = 0 <=> Open(m) = {}
BY FS_Subset, FS_CardinalityType, FS_EmptySet DEF TypeInv, Open

LEMMA TakeReadyKeepsOrder ==
  ASSUME TypeInv, OrderInv, TakeReady
  PROVE  OrderInv'
<1>1. PICK n \in Metrics :
           /\ n \in ready
           /\ order' = Append(order, n)
           /\ incoming' = [m \in Metrics |-> incoming[m] - Cardinality(Lost(n, m))]
           /\ \A m : m \in ready' <=>
                \/ m \in ready /\ m # n
                \/ \E e \in edges : e.parent = n /\ e.child = m /\ incoming'[m] = 0
  BY TakeReadyIs
<1>2. pc = "order" /\ pc' = "order" /\ edges' = edges
  BY DEF TakeReady
<1>3. /\ n \notin Ordered /\ incoming[n] = 0
      /\ \A m : m \in ready <=> m \in Metrics /\ m \notin Ordered /\ incoming[m] = 0
  BY <1>1, <1>2 DEF OrderInv
<1>4. /\ Len(order) \in Nat /\ DOMAIN order = 1 .. Len(order)
      /\ DOMAIN order' = 1 .. Len(order) + 1
      /\ \A i \in 1 .. Len(order) : order'[i] = order[i]
      /\ order'[Len(order) + 1] = n
  BY <1>1 DEF TypeInv, TypeOK
<1>5. Ordered' = Ordered \cup {n}
  BY <1>4 DEF Ordered, ToSet
<1>6. \A e \in edges : e.parent \in Metrics /\ e.child \in Metrics /\ e.parent # e.child
  BY DEF TypeInv, TypeOK, AllEdges
<1>7. ASSUME NEW m PROVE Open(m)' = Open(m) \ Lost(n, m) /\ Lost(n, m) \subseteq Open(m)
  BY <1>2, <1>3, <1>5 DEF Open, Lost
<1>8. ASSUME NEW m \in Metrics PROVE incoming'[m] = Cardinality(Open(m)')
  <2>1. Cardinality(Open(m) \ Lost(n, m)) = Cardinality(Open(m)) - Cardinality(Open(m) \cap Lost(n, m))
    BY OpenIsFinite, FS_Difference
  <2>2. Open(m) \cap Lost(n, m) = Lost(n, m)
    BY <1>7
  <2> QED
    BY <1>1, <1>7, <2>1, <2>2 DEF OrderInv
<1>9. TypeInv'
  BY TypeStep DEF Next
<1>10. ready' = {m \in Metrics \ Ordered' : incoming'[m] = 0}
  <2>1. ASSUME NEW m \in ready' PROVE m \in Metrics /\ m \notin Ordered' /\ incoming'[m] = 0
    <3>1. CASE m \in ready /\ m # n
      <4>1. Open(m) = {}
        BY <1>3, <3>1, OpenIsFinite DEF OrderInv
      <4>2. Open(m)' = {} /\ m \in Metrics
        BY <1>3, <1>7, <3>1, <4>1
      <4> QED
        BY <1>3, <1>5, <1>8, <3>1, <4>2, FS_EmptySet
    <3>2. ASSUME NEW e \in edges, e.parent = n, e.child = m, incoming'[m] = 0
          PROVE  m \in Metrics /\ m \notin Ordered' /\ incoming'[m] = 0
      <4>1. m \in Metrics /\ m # n
        BY <1>6, <3>2
      <4>2. m \notin Ordered
        <5>1. ASSUME NEW i \in DOMAIN order, order[i] = m PROVE FALSE
          <6>1. PICK j \in 1 .. i - 1 : order[j] = n
            BY <3>2, <5>1 DEF OrderInv
          <6>2. j \in DOMAIN order
            BY <1>4
          <6> QED
            BY <1>3, <6>1, <6>2 DEF Ordered, ToSet
        <5> QED
          BY <5>1 DEF Ordered, ToSet
      <4> QED
        BY <1>5, <3>2, <4>1, <4>2
    <3> QED
      BY <1>1, <3>1, <3>2
  <2>2. ASSUME NEW m \in Metrics, m \notin Ordered', incoming'[m] = 0 PROVE m \in ready'
    <3>1. Open(m)' = {}
      BY <1>8, <1>9, <2>2, OpenIsFinite, FS_EmptySet, FS_Subset DEF Open, TypeInv
    <3>2. m # n /\ m \notin Ordered
      BY <1>5, <2>2
    <3>3. CASE Open(m) = {}
      BY <1>1, <1>3, <3>2, <3>3, FS_EmptySet DEF OrderInv
    <3>4. CASE Open(m) # {}
      <4>1. \E e \in Lost(n, m) : TRUE
        BY <1>7, <3>1, <3>4
      <4> QED
        BY <1>1, <2>2, <4>1 DEF Lost
    <3> QED
      BY <3>3, <3>4
  <2> QED
    BY <2>1, <2>2
<1>11. ASSUME NEW i \in DOMAIN order', NEW j \in DOMAIN order', order'[i] = order'[j]
       PROVE  i = j
  <2>1. \A k \in 1 .. Len(order) : order[k] \in Ordered
    BY <1>4 DEF Ordered, ToSet
  <2> QED
    BY <1>3, <1>4, <1>11, <2>1 DEF OrderInv
<1>12. ASSUME NEW i \in DOMAIN order', NEW e \in edges, e.child = order'[i]
       PROVE  \E j \in 1 .. i - 1 : order'[j] = e.parent
  <2>1. CASE i \in 1 .. Len(order)
    <3>1. PICK j \in 1 .. i - 1 : order[j] = e.parent
      BY <1>4, <1>12, <2>1 DEF OrderInv
    <3>2. j \in 1 .. Len(order)
      BY <1>4, <2>1
    <3> QED
      BY <1>4, <3>1, <3>2
  <2>2. CASE i = Len(order) + 1
    <3>1. e.child = n /\ Open(n) = {}
      BY <1>3, <1>4, <1>12, <2>2, OpenIsFinite DEF OrderInv
    <3>2. e.parent \in Ordered
      BY <3>1 DEF Open
    <3>3. PICK j \in 1 .. Len(order) : order[j] = e.parent
      BY <1>4, <3>2 DEF Ordered, ToSet
    <3> QED
      BY <1>4, <2>2, <3>3
  <2> QED
    BY <1>4, <2>1, <2>2
<1> QED
  BY <1>2, <1>8, <1>10, <1>11, <1>12 DEF OrderInv

-----------------------------------------------------------------------------

LEMMA OrderStep ==
  ASSUME TypeInv, OrderInv, [Next]_vars
  PROVE  OrderInv'
<1> USE DEF schema, paths, evidence, report
<1>1. CASE Declare
  <2>1. PICK e \in AllEdges \ edges :
          /\ edges' = edges \cup {e}
          /\ incoming' = [incoming EXCEPT ![e.child] = @ + 1]
    BY <1>1 DEF Declare
  <2>2. /\ pc = "declare" /\ pc' = "declare" /\ order = <<>> /\ order' = <<>>
        /\ e.child \in Metrics
    BY <1>1, <2>1 DEF Declare, OrderInv, AllEdges
  <2>3. \A m : Open(m) = {f \in edges : f.child = m}
    BY <2>2 DEF Open, Ordered, ToSet
  <2>4. \A m : Open(m)' = {f \in edges \cup {e} : f.child = m}
    BY <2>1, <2>2 DEF Open, Ordered, ToSet
  <2>5. ASSUME NEW m \in Metrics PROVE incoming'[m] = Cardinality(Open(m)')
    <3>1. IsFiniteSet(Open(m)) /\ incoming[m] = Cardinality(Open(m))
      BY OpenIsFinite DEF OrderInv
    <3>2. CASE m = e.child
      <4>1. Open(m)' = Open(m) \cup {e} /\ e \notin Open(m)
        BY <2>1, <2>3, <2>4, <3>2
      <4>2. Cardinality(Open(m)') = Cardinality(Open(m)) + 1
        BY <3>1, <4>1, FS_AddElement
      <4>3. incoming'[m] = incoming[m] + 1
        BY <2>1, <3>2 DEF TypeInv, TypeOK
      <4> QED
        BY <3>1, <4>2, <4>3
    <3>3. CASE m # e.child
      <4>1. Open(m)' = Open(m)
        BY <2>3, <2>4, <3>3
      <4>2. incoming'[m] = incoming[m]
        BY <2>1, <2>2, <3>3 DEF TypeInv, TypeOK
      <4> QED
        BY <3>1, <4>1, <4>2
    <3> QED
      BY <3>2, <3>3
  <2> QED
    BY <2>2, <2>5 DEF OrderInv
<1>2. CASE StartOrder
  <2>1. /\ pc' = "order" /\ ready' = {m \in Metrics : incoming[m] = 0}
        /\ order' = order /\ order = <<>> /\ edges' = edges /\ incoming' = incoming
    BY <1>2 DEF StartOrder, OrderInv
  <2>2. Ordered = {} /\ Ordered' = {} /\ \A m : Open(m)' = Open(m)
    BY <2>1 DEF Ordered, ToSet, Open
  <2> QED
    BY <2>1, <2>2 DEF OrderInv
<1>3. CASE TakeReady
  BY <1>3, TakeReadyKeepsOrder
<1>4. CASE JudgeSchema
  <2>1. \A m : Open(m)' = Open(m) /\ Ordered' = Ordered
    BY <1>4 DEF JudgeSchema, Open, Ordered, ToSet
  <2> QED
    BY <1>4, <2>1 DEF JudgeSchema, OrderInv
<1>5. CASE Relax \/ StartReplay \/ ObserveRow \/ Rank
  <2>1. /\ UNCHANGED schema
        /\ pc \in {"relax", "replay"}
        /\ pc' \in {"relax", "replay", "done"}
    BY <1>5 DEF Relax, StartReplay, ObserveRow, Rank
  <2>2. \A m : Open(m)' = Open(m) /\ Ordered' = Ordered
    BY <2>1 DEF Open, Ordered, ToSet
  <2> QED
    BY <2>1, <2>2 DEF OrderInv
<1>6. CASE UNCHANGED vars
  <2>1. \A m : Open(m)' = Open(m) /\ Ordered' = Ordered
    BY <1>6 DEF vars, Open, Ordered, ToSet
  <2> QED
    BY <1>6, <2>1 DEF vars, OrderInv
<1> QED
  BY <1>1, <1>2, <1>3, <1>4, <1>5, <1>6 DEF Next

LEMMA OrderInvariant == Spec => [](TypeInv /\ OrderInv)
<1>1. TypeInv /\ OrderInv /\ [Next]_vars => (TypeInv /\ OrderInv)'
  BY TypeStep, OrderStep
<1> QED
  BY <1>1, TypeInit, OrderInit, PTL DEF Spec

LEMMA SchemaJudged ==
  ASSUME TypeInv, OrderInv
  PROVE  SchemaIsJudged
<1> DEFINE cyclic == \E S \in SUBSET Metrics : S # {} /\ \A m \in S :
                        \E e \in edges : e.child = m /\ e.parent \in S
           position(m) == CHOOSE i \in DOMAIN order : order[i] = m
<1>1. ASSUME pc = "refused" PROVE cyclic
  <2> DEFINE S == Metrics \ Ordered
  <2>1. S # {}
    BY <1>1, AllAreOrdered DEF OrderInv, Ordered, ToSet, TypeInv, TypeOK
  <2>2. ASSUME NEW m \in S PROVE \E e \in edges : e.child = m /\ e.parent \in S
    <3>1. incoming[m] # 0
      BY <1>1 DEF OrderInv
    <3>2. PICK e \in Open(m) : TRUE
      BY <3>1, OpenIsFinite DEF OrderInv
    <3>3. e \in edges /\ e.child = m /\ e.parent \notin Ordered /\ e.parent \in Metrics
      BY <3>2 DEF Open, TypeInv, TypeOK, AllEdges
    <3> QED
      BY <3>3
  <2> QED
    BY <2>1, <2>2
<1>2. ASSUME pc = "relax"
      PROVE  /\ ToSet(order) = Metrics
             /\ Len(order) = MetricCount
             /\ \A e \in edges : position(e.parent) < position(e.child)
  <2>1. ToSet(order) = Metrics /\ Len(order) = MetricCount
    BY <1>2, AllAreOrdered DEF OrderInv, Ordered
  <2>2. ASSUME NEW e \in edges PROVE position(e.parent) < position(e.child)
    <3>1. e.child \in Metrics
      BY DEF TypeInv, TypeOK, AllEdges
    <3>2. PICK i \in DOMAIN order : order[i] = e.child
      BY <2>1, <3>1 DEF ToSet
    <3>3. PICK j \in 1 .. i - 1 : order[j] = e.parent
      BY <3>2 DEF OrderInv
    <3>4. j \in DOMAIN order /\ j < i
      BY <3>2, <3>3, AllAreOrdered
    <3>5. \A k \in DOMAIN order : (order[k] = e.child => k = i) /\ (order[k] = e.parent => k = j)
      BY <3>2, <3>3, <3>4 DEF OrderInv
    <3>6. position(e.child) = i /\ position(e.parent) = j
      BY <3>2, <3>3, <3>4, <3>5
    <3> QED
      BY <3>4, <3>6
  <2> QED
    BY <2>1, <2>2
<1> QED
  BY <1>1, <1>2 DEF SchemaIsJudged

\* _topological_order refuses exactly the cyclic schemas and orders the others.
THEOREM SchemasAreJudged == Spec => []SchemaIsJudged
<1>1. TypeInv /\ OrderInv => SchemaIsJudged
  BY SchemaJudged
<1> QED
  BY <1>1, OrderInvariant, PTL

-----------------------------------------------------------------------------
(***************************************************************************)
(* The lags.  At any moment they solve the shortest-path equation for the  *)
(* edges of the metrics that were followed.                                *)
(***************************************************************************)
Followed == {order[i] : i \in 1 .. relaxed}

\* What paths to m over a last edge from a followed metric take.
Through(s, m) ==
  {lags[s][e.parent] + e.lag :
     e \in {f \in edges : f.child = m /\ f.parent \in Followed /\ lags[s][f.parent] < Far}}

\* A lag that was found is shorter than Far, by the places between s and m.
Apart(s, m) ==
  \E i, j \in DOMAIN order :
    /\ i < j /\ order[i] = s /\ order[j] = m
    /\ lags[s][m] \in 1 .. (j - i) * Longest

LagsInv ==
  /\ relaxed <= Len(order)
  /\ pc \in {"declare", "order"} => relaxed = 0
  /\ pc \in {"replay", "done"} => relaxed = MetricCount
  /\ \A s, m \in Metrics :
       /\ lags[s][m] = IF s = m THEN 0 ELSE Min({Far} \cup Through(s, m))
       /\ s # m /\ lags[s][m] < Far => Apart(s, m)

LEMMA ThroughIsNumbers ==
  ASSUME TypeInv, NEW s \in Metrics, NEW m
  PROVE  Through(s, m) \in SUBSET Nat
<1> SUFFICES ASSUME NEW e \in edges PROVE lags[s][e.parent] + e.lag \in Nat
  BY DEF Through
<1>1. e.lag \in Nat /\ e.parent \in Metrics
  BY SizeAssumption DEF TypeInv, TypeOK, AllEdges
<1>2. lags[s][e.parent] \in 0 .. Far
  BY <1>1 DEF TypeInv, TypeOK
<1> QED
  BY <1>1, <1>2, FarIsNat

LEMMA LagsInit == Init => LagsInv
<1> SUFFICES ASSUME Init PROVE LagsInv
  OBVIOUS
<1>1. \A s, m \in Metrics : Through(s, m) = {} /\ lags[s][m] = IF m = s THEN 0 ELSE Far
  BY DEF Init, Through, Followed
<1>2. Min({Far} \cup {}) = Far
  BY FarIsNat, MinIs
<1>3. relaxed = 0 /\ Len(order) = 0 /\ pc = "declare"
  BY DEF Init
<1>4. ASSUME NEW s \in Metrics, NEW m \in Metrics
      PROVE  /\ lags[s][m] = IF s = m THEN 0 ELSE Min({Far} \cup Through(s, m))
             /\ s # m => ~ (lags[s][m] < Far)
  <2>1. Min({Far} \cup Through(s, m)) = Far
    BY <1>1, <1>2
  <2> QED
    BY <1>1, <2>1, FarIsNat
<1>5. /\ relaxed <= Len(order)
      /\ pc \in {"declare", "order"} => relaxed = 0
      /\ pc \in {"replay", "done"} => relaxed = MetricCount
  BY <1>3
<1>6. \A s, m \in Metrics :
        /\ lags[s][m] = IF s = m THEN 0 ELSE Min({Far} \cup Through(s, m))
        /\ s # m /\ lags[s][m] < Far => Apart(s, m)
  <2>1. ASSUME NEW s \in Metrics, NEW m \in Metrics
        PROVE  /\ lags[s][m] = IF s = m THEN 0 ELSE Min({Far} \cup Through(s, m))
               /\ s # m /\ lags[s][m] < Far => Apart(s, m)
    <3>1. s # m /\ lags[s][m] < Far => Apart(s, m)
      BY <1>4
    <3> QED
      BY <1>4, <3>1
  <2> QED
    BY <2>1
<1> QED
  BY <1>5, <1>6 DEF LagsInv

\* What Relax follows.
LEMMA RelaxFollows ==
  ASSUME TypeInv, OrderInv, LagsInv, Relax
  PROVE  LET via == order[relaxed + 1]
         IN  /\ via \in Metrics
             /\ Followed' = Followed \cup {via}
             /\ \A e \in edges : e.parent = via => e.child \notin Followed'
<1> DEFINE via == order[relaxed + 1]
<1>1. /\ relaxed \in Nat /\ relaxed + 1 \in DOMAIN order
      /\ relaxed' = relaxed + 1 /\ order' = order
      /\ DOMAIN order = 1 .. Len(order) /\ Len(order) \in Nat /\ Len(order) = MetricCount
  BY AllAreOrdered DEF Relax, schema, OrderInv, TypeInv, TypeOK
<1>2. via \in Metrics
  BY <1>1 DEF TypeInv, TypeOK
<1>3. Followed' = Followed \cup {via}
  BY <1>1 DEF Followed
<1>4. ASSUME NEW e \in edges, e.parent = via, NEW i \in 1 .. relaxed + 1, order[i] = e.child
      PROVE  FALSE
  <2>1. i \in DOMAIN order
    BY <1>1
  <2>2. PICK j \in 1 .. i - 1 : order[j] = via
    BY <1>4, <2>1 DEF OrderInv
  <2>3. j \in DOMAIN order /\ j # relaxed + 1
    BY <1>1, <2>1
  <2> QED
    BY <1>1, <2>2, <2>3 DEF OrderInv
<1>5. \A e \in edges : e.parent = via => e.child \notin Followed'
  BY <1>1, <1>4 DEF Followed
<1> QED
  BY <1>2, <1>3, <1>5

LEMMA Spread ==
  ASSUME NEW a \in Nat, NEW b \in Nat, a <= b
  PROVE  /\ a * Longest \in Nat
         /\ a * Longest <= b * Longest
         /\ (a + 1) * Longest = a * Longest + Longest
         /\ (a + b) * Longest = a * Longest + b * Longest
<1>1. \A x, y, l \in Nat : /\ x * l \in Nat
                           /\ (x + y) * l = x * l + y * l
                           /\ (x + 1) * l = x * l + l
  OBVIOUS
<1>2. PICK c \in Nat : b = a + c
  <2>1. b - a \in Nat /\ b = a + (b - a)
    OBVIOUS
  <2> QED
    BY <2>1
<1>3. (a + c) * Longest = a * Longest + c * Longest /\ c * Longest \in Nat /\ a * Longest \in Nat
  BY <1>1, LongestLag
<1>4. a * Longest <= b * Longest
  BY <1>2, <1>3
<1> QED
  BY <1>1, <1>4, LongestLag

\* One more edge.
LEMMA FollowedEdgeIsApart ==
  ASSUME TypeInv, OrderInv, LagsInv, pc \in {"relax", "replay", "done"},
         NEW e \in edges, NEW s \in Metrics, s # e.child, lags[s][e.parent] < Far
  PROVE  \E i, j \in DOMAIN order :
           /\ i < j /\ order[i] = s /\ order[j] = e.child
           /\ lags[s][e.parent] + e.lag \in 1 .. (j - i) * Longest
<1>1. /\ e.child \in Metrics /\ e.parent \in Metrics
      /\ e.lag \in Nat \ {0} /\ e.lag <= Longest /\ Longest \in Nat \ {0}
  BY LongestLag DEF TypeInv, TypeOK, AllEdges
<1>2. Ordered = Metrics /\ DOMAIN order = 1 .. Len(order) /\ Len(order) \in Nat
  BY AllAreOrdered DEF OrderInv
<1>3. PICK j \in DOMAIN order : order[j] = e.child
  BY <1>1, <1>2 DEF Ordered, ToSet
<1>4. PICK k \in 1 .. j - 1 : order[k] = e.parent
  BY <1>3 DEF OrderInv
<1>5. k \in DOMAIN order /\ k < j /\ k \in Nat /\ j \in Nat
  BY <1>2, <1>4
<1>6. CASE s = e.parent
  <2>1. lags[s][e.parent] = 0
    BY <1>6 DEF LagsInv
  <2>2. 1 * Longest <= (j - k) * Longest
    <3>1. j - k \in Nat /\ 1 <= j - k
      BY <1>5
    <3> QED
      BY <3>1, Spread
  <2>3. e.lag \in 1 .. (j - k) * Longest
    <3>1. (j - k) * Longest \in Int /\ 1 * Longest = Longest
      BY <1>1, <1>5
    <3> QED
      BY <1>1, <2>2, <3>1
  <2>4. lags[s][e.parent] + e.lag = e.lag
    BY <1>1, <2>1
  <2> QED
    BY <1>3, <1>4, <1>5, <1>6, <2>3, <2>4
<1>7. CASE s # e.parent
  <2>1. PICK i, h \in DOMAIN order :
          /\ i < h /\ order[i] = s /\ order[h] = e.parent
          /\ lags[s][e.parent] \in 1 .. (h - i) * Longest
    BY <1>1, <1>7 DEF LagsInv, Apart
  <2>2. h = k
    BY <1>4, <1>5, <2>1 DEF OrderInv
  <2>3. i \in Nat /\ k - i \in Nat /\ j - i \in Nat /\ (k - i) + 1 <= j - i /\ i < j
    BY <1>2, <1>5, <2>1, <2>2
  <2>4. /\ (k - i) * Longest \in Nat
        /\ ((k - i) + 1) * Longest = (k - i) * Longest + Longest
    BY <2>3, Spread
  <2>5. ((k - i) + 1) * Longest <= (j - i) * Longest
    BY <2>3, Spread
  <2>6. (j - i) * Longest \in Nat
    BY <2>3, Spread
  <2>7. lags[s][e.parent] + e.lag \in 1 .. (j - i) * Longest
    BY <1>1, <2>1, <2>2, <2>4, <2>5, <2>6
  <2> QED
    BY <1>3, <2>1, <2>3, <2>7
<1> QED
  BY <1>6, <1>7

LEMMA RelaxKeepsLags ==
  ASSUME TypeInv, OrderInv, LagsInv, Relax
  PROVE  LagsInv'
<1> DEFINE via == order[relaxed + 1]
<1>1. /\ via \in Metrics /\ Followed' = Followed \cup {via}
      /\ \A e \in edges : e.parent = via => e.child \notin Followed'
  BY RelaxFollows
<1>2. /\ pc = "relax" /\ pc' = "relax" /\ relaxed' = relaxed + 1 /\ order' = order
      /\ edges' = edges /\ relaxed < MetricCount /\ relaxed \in Nat
      /\ Len(order) = MetricCount
  BY DEF Relax, schema, OrderInv, TypeInv, TypeOK
<1>3. \A s, m \in Metrics : lags'[s][m] = Min({lags[s][m]} \cup Hops(s, via, m))
  BY RelaxIs
<1>4. \A s, m \in Metrics : lags[s][m] \in Nat /\ Hops(s, via, m) \in SUBSET Nat
  BY FarIsNat, HopsAreNumbers DEF TypeInv, TypeOK
<1>5. \A e \in edges : e.parent \in Metrics /\ e.child \in Metrics /\ e.lag \in Nat
  BY SizeAssumption DEF TypeInv, TypeOK, AllEdges
<1> HIDE DEF via
<1>6. ASSUME NEW s \in Metrics, NEW p \in Metrics, p \in Followed'
      PROVE  lags'[s][p] = lags[s][p]
  <2>1. Hops(s, via, p) = {}
    BY <1>1, <1>6 DEF Hops
  <2>2. Min({lags[s][p]} \cup {}) = lags[s][p]
    BY <1>4, MinIs
  <2> QED
    BY <1>3, <2>1, <2>2
<1>7. ASSUME NEW s \in Metrics, NEW m \in Metrics
      PROVE  Through(s, m)' = Through(s, m) \cup Hops(s, via, m)
  <2>1. ASSUME NEW e \in edges, e.parent \in Followed'
        PROVE  lags'[s][e.parent] = lags[s][e.parent]
    BY <1>5, <1>6, <2>1
  <2>2. Through(s, m)' =
          {lags'[s][e.parent] + e.lag :
             e \in {f \in edges : f.child = m /\ f.parent \in Followed' /\ lags'[s][f.parent] < Far}}
    BY <1>2 DEF Through, Far
  <2>3. @ = {lags[s][e.parent] + e.lag :
               e \in {f \in edges : f.child = m /\ f.parent \in Followed' /\ lags[s][f.parent] < Far}}
    BY <2>1
  <2>4. @ = Through(s, m) \cup Hops(s, via, m)
    BY <1>1 DEF Through, Hops
  <2> QED
    BY <2>2, <2>3, <2>4
<1>8. ASSUME NEW s \in Metrics, NEW m \in Metrics
      PROVE  lags'[s][m] = IF s = m THEN 0 ELSE Min({Far} \cup Through(s, m)')
  <2>1. CASE s = m
    <3>1. lags[s][m] = 0
      BY <2>1 DEF LagsInv
    <3>2. Min({0} \cup Hops(s, via, m)) = 0
      <4>1. {0} \cup Hops(s, via, m) \in SUBSET Nat
        BY <1>4
      <4> QED
        BY <4>1, MinIs
    <3> QED
      BY <1>3, <2>1, <3>1, <3>2
  <2>2. CASE s # m
    <3>1. lags[s][m] = Min({Far} \cup Through(s, m))
      BY <2>2 DEF LagsInv
    <3>2. {Far} \cup Through(s, m) \in SUBSET Nat
      BY FarIsNat, ThroughIsNumbers
    <3>3. Min({lags[s][m]} \cup Hops(s, via, m))
            = Min(({Far} \cup Through(s, m)) \cup Hops(s, via, m))
      BY <1>4, <3>1, <3>2, MinOfUnion
    <3>4. ({Far} \cup Through(s, m)) \cup Hops(s, via, m) = {Far} \cup Through(s, m)'
      BY <1>7
    <3> QED
      BY <1>3, <2>2, <3>3, <3>4
  <2> QED
    BY <2>1, <2>2
<1>9. ASSUME NEW s \in Metrics, NEW m \in Metrics, s # m, lags'[s][m] < Far
      PROVE  Apart(s, m)'
  <2>1. lags'[s][m] \in {lags[s][m]} \cup Hops(s, via, m)
    BY LagsShrink DEF TypeInv, via
  <2>2. CASE lags'[s][m] = lags[s][m]
    <3>1. Apart(s, m)
      BY <1>9, <2>2 DEF LagsInv
    <3> QED
      BY <1>2, <2>2, <3>1 DEF Apart, Longest
  <2>3. CASE lags'[s][m] \in Hops(s, via, m)
    <3>1. PICK e \in edges : /\ e.parent = via /\ e.child = m /\ lags[s][via] < Far
                             /\ lags'[s][m] = lags[s][via] + e.lag
      BY <2>3 DEF Hops
    <3>2. \E i, j \in DOMAIN order :
           /\ i < j /\ order[i] = s /\ order[j] = m
           /\ lags'[s][m] \in 1 .. (j - i) * Longest
      BY <1>2, <1>9, <3>1, FollowedEdgeIsApart
    <3> QED
      BY <1>2, <3>2 DEF Apart, Longest
  <2> QED
    BY <2>1, <2>2, <2>3
<1> QED
  BY <1>2, <1>8, <1>9 DEF LagsInv, Far

LEMMA LagsStep ==
  ASSUME TypeInv, OrderInv, LagsInv, [Next]_vars
  PROVE  LagsInv'
<1> USE DEF schema, paths, evidence, report
<1>1. CASE Declare \/ StartOrder \/ TakeReady
  <2>1. /\ pc \in {"declare", "order"} /\ pc' \in {"declare", "order"}
        /\ UNCHANGED <<lags, relaxed>> /\ relaxed = 0
    BY <1>1 DEF Declare, StartOrder, TakeReady, LagsInv
  <2>2. \A s, m : Through(s, m) = {} /\ Through(s, m)' = {}
    BY <2>1 DEF Through, Followed
  <2>3. Min({Far} \cup {}) = Far
    BY FarIsNat, MinIs
  <2>4. \A s, m \in Metrics : lags[s][m] = IF s = m THEN 0 ELSE Far
    BY <2>2, <2>3 DEF LagsInv
  <2>5. Len(order') \in Nat
    BY TypeStep DEF TypeInv, TypeOK
  <2> QED
    BY <2>1, <2>2, <2>3, <2>4, <2>5, FarIsNat DEF LagsInv, Far
<1>2. CASE JudgeSchema \/ StartReplay \/ ObserveRow \/ Rank \/ UNCHANGED vars
  <2>1. /\ UNCHANGED <<edges, order, lags, relaxed>>
        /\ pc' \in {"declare", "order"} => pc' = pc
        /\ pc' \in {"replay", "done"} => pc' = pc \/ relaxed = MetricCount \/ pc = "replay"
    BY <1>2 DEF JudgeSchema, StartReplay, ObserveRow, Rank, vars
  <2>2. \A s, m : Through(s, m)' = Through(s, m) /\ Apart(s, m)' = Apart(s, m)
    BY <2>1 DEF Through, Followed, Apart, Far, Longest
  <2> QED
    BY <2>1, <2>2 DEF LagsInv, Far
<1>3. CASE Relax
  BY <1>3, RelaxKeepsLags
<1> QED
  BY <1>1, <1>2, <1>3 DEF Next

LEMMA LagsInvariant == Spec => [](TypeInv /\ OrderInv /\ LagsInv)
<1>1. TypeInv /\ OrderInv /\ LagsInv /\ [Next]_vars => (TypeInv /\ OrderInv /\ LagsInv)'
  BY TypeStep, OrderStep, LagsStep
<1> QED
  BY <1>1, TypeInit, OrderInit, LagsInit, PTL DEF Spec

\* Once every metric was followed, the equation is about all edges.
LEMMA LagsSolved ==
  ASSUME TypeInv, OrderInv, LagsInv, pc \in {"relax", "replay", "done"},
         relaxed = MetricCount, NEW s \in Metrics, NEW m \in Metrics
  PROVE  lags[s][m] =
           IF s = m THEN 0
           ELSE Min({Far} \cup {lags[s][e.parent] + e.lag :
                   e \in {f \in edges : f.child = m /\ lags[s][f.parent] < Far}})
<1>1. Followed = Metrics
  BY AllAreOrdered DEF OrderInv, Followed, Ordered, ToSet
<1>2. \A e \in edges : e.parent \in Metrics
  BY DEF TypeInv, TypeOK, AllEdges
<1>3. Through(s, m) = {lags[s][e.parent] + e.lag :
                   e \in {f \in edges : f.child = m /\ lags[s][f.parent] < Far}}
  BY <1>1, <1>2 DEF Through
<1> QED
  BY <1>3 DEF LagsInv

\* minimum_path_lags: relaxing the edges in topological order solves the
\* shortest-path equation.
THEOREM PathLagsAreMinimal == Spec => []LagsAreMinimal
<1>1. TypeInv /\ OrderInv /\ LagsInv => LagsAreMinimal
  BY LagsSolved DEF LagsAreMinimal
<1> QED
  BY <1>1, LagsInvariant, PTL

-----------------------------------------------------------------------------
(***************************************************************************)
(* Suppression.  Lags satisfy the triangle inequality, so the earliest     *)
(* alarm that explains m is not itself explained.                          *)
(***************************************************************************)
Solved == /\ TypeInv /\ OrderInv /\ LagsInv
          /\ pc \in {"replay", "done"}

\* Paths are shorter than Far.
LEMMA ApartIsNear ==
  ASSUME Solved, NEW i \in DOMAIN order, NEW j \in DOMAIN order, i < j
  PROVE  (j - i) * Longest < Far
<1>1. /\ DOMAIN order = 1 .. MetricCount /\ MetricCount \in Nat
      /\ Longest \in Nat \ {0}
  BY AllAreOrdered, LongestLag, SizeAssumption DEF Solved, OrderInv
<1>2. j - i \in Nat /\ (j - i) + 1 <= MetricCount
  BY <1>1
<1>3. /\ ((j - i) + 1) * Longest <= MetricCount * Longest
      /\ ((j - i) + 1) * Longest = (j - i) * Longest + Longest
      /\ (j - i) * Longest \in Nat
  BY <1>1, <1>2, Spread
<1> QED
  BY <1>1, <1>3, FarIsNat DEF Far, Longest

(***************************************************************************)
(* The equation says what the name promises: no walk along the edges is    *)
(* shorter than the lag, and one is as short.                              *)
(***************************************************************************)

\* Along edges from s to m; costs[i] is the lag of the first i edges.
Walk(s, m, lag) ==
  \E n \in Nat : \E nodes \in [0 .. n -> Metrics], costs \in [0 .. n -> Nat] :
    /\ nodes[0] = s /\ costs[0] = 0
    /\ nodes[n] = m /\ costs[n] = lag
    /\ \A i \in 0 .. n - 1 : \E e \in edges :
         e.parent = nodes[i] /\ e.child = nodes[i + 1] /\ costs[i + 1] = costs[i] + e.lag

\* What minimum_path_lags promises of the table it returns: no walk is shorter
\* than the lag, and a lag below Far is that of a walk.
WalksAreMinimal ==
  pc \in {"replay", "done"} =>
    \A s, m \in Metrics :
      /\ \A lag \in Nat : Walk(s, m, lag) => lags[s][m] <= lag
      /\ lags[s][m] < Far => Walk(s, m, lags[s][m])

LEMMA EdgeRelaxed ==
  ASSUME Solved, NEW s \in Metrics, NEW e \in edges, lags[s][e.parent] < Far
  PROVE  lags[s][e.child] <= lags[s][e.parent] + e.lag
<1> DEFINE S == {Far} \cup {lags[s][f.parent] + f.lag :
                    f \in {g \in edges : g.child = e.child /\ lags[s][g.parent] < Far}}
<1>1. /\ TypeInv /\ OrderInv /\ LagsInv /\ pc \in {"relax", "replay", "done"}
      /\ relaxed = MetricCount
  BY DEF Solved, LagsInv
<1>2. \A f \in edges : f.parent \in Metrics /\ f.child \in Metrics /\ f.lag \in Nat
  BY <1>1, SizeAssumption DEF TypeInv, TypeOK, AllEdges
<1>3. \A x, y \in Metrics : lags[x][y] \in Nat
  BY <1>1, FarIsNat DEF TypeInv, TypeOK
<1>4. CASE s = e.child
  <2>1. lags[s][e.child] = 0
    BY <1>1, <1>4 DEF LagsInv
  <2> QED
    BY <1>2, <1>3, <2>1
<1>5. CASE s # e.child
  <2>1. lags[s][e.child] = Min(S)
    BY <1>1, <1>2, <1>5, LagsSolved
  <2>2. S \in SUBSET Nat /\ S # {}
    BY <1>2, <1>3, FarIsNat
  <2>3. lags[s][e.parent] + e.lag \in S
    OBVIOUS
  <2>4. \A y \in S : Min(S) <= y
    <3> HIDE DEF S
    <3> QED
      BY <2>2, MinIsLeast
  <2> QED
    BY <2>1, <2>3, <2>4
<1> QED
  BY <1>4, <1>5

\* The edge a lag comes over.
LEMMA LagHasEdge ==
  ASSUME Solved, NEW s \in Metrics, NEW m \in Metrics, s # m, lags[s][m] < Far
  PROVE  \E e \in edges : /\ e.child = m /\ lags[s][e.parent] < Far
                          /\ lags[s][m] = lags[s][e.parent] + e.lag
<1> DEFINE S == {Far} \cup {lags[s][f.parent] + f.lag :
                    f \in {g \in edges : g.child = m /\ lags[s][g.parent] < Far}}
<1>1. /\ TypeInv /\ OrderInv /\ LagsInv /\ pc \in {"relax", "replay", "done"}
      /\ relaxed = MetricCount
  BY DEF Solved, LagsInv
<1>2. lags[s][m] = Min(S)
  BY <1>1, LagsSolved
<1>3. S \in SUBSET Nat /\ S # {}
  <2>1. \A f \in edges : f.parent \in Metrics /\ f.lag \in Nat
    BY <1>1, SizeAssumption DEF TypeInv, TypeOK, AllEdges
  <2>2. \A x, y \in Metrics : lags[x][y] \in Nat
    BY <1>1, FarIsNat DEF TypeInv, TypeOK
  <2> QED
    BY <2>1, <2>2, FarIsNat
<1>4. Min(S) \in S
  <2> HIDE DEF S
  <2> QED
    BY <1>3, MinIsLeast
<1>5. Min(S) # Far
  BY <1>2, FarIsNat
<1> QED
  BY <1>2, <1>4, <1>5

LEMMA NoWalkIsShorter ==
  ASSUME Solved, NEW s \in Metrics, NEW m \in Metrics, NEW lag \in Nat, Walk(s, m, lag)
  PROVE  lags[s][m] <= lag
<1>0. PICK n \in Nat :
        \E nodes \in [0 .. n -> Metrics], costs \in [0 .. n -> Nat] :
            /\ nodes[0] = s /\ costs[0] = 0
            /\ nodes[n] = m /\ costs[n] = lag
            /\ \A i \in 0 .. n - 1 : \E e \in edges :
                 e.parent = nodes[i] /\ e.child = nodes[i + 1] /\ costs[i + 1] = costs[i] + e.lag
  BY DEF Walk
<1>1. PICK nodes \in [0 .. n -> Metrics], costs \in [0 .. n -> Nat] :
        /\ nodes[0] = s /\ costs[0] = 0
        /\ nodes[n] = m /\ costs[n] = lag
        /\ \A i \in 0 .. n - 1 : \E e \in edges :
             e.parent = nodes[i] /\ e.child = nodes[i + 1] /\ costs[i + 1] = costs[i] + e.lag
  BY <1>0
<1> DEFINE Longer == {i \in 0 .. n : ~ (lags[s][nodes[i]] <= costs[i])}
<1>2. \A x \in Metrics : lags[s][x] \in Nat /\ lags[s][x] <= Far /\ lags[s][s] = 0
  <2>1. \A x \in Metrics : lags[s][x] \in Nat /\ lags[s][x] <= Far
    BY FarIsNat DEF Solved, TypeInv, TypeOK
  <2>2. lags[s][s] = 0
    BY DEF Solved, LagsInv
  <2> QED
    BY <2>1, <2>2
<1>3. ASSUME Longer # {} PROVE FALSE
  <2>1. PICK i \in Longer : \A j \in Longer : i <= j
    <3>1. Longer \in SUBSET Nat
      OBVIOUS
    <3> HIDE DEF Longer
    <3> QED
      BY <1>3, <3>1, LeastExists
  <2>2. i \in 0 .. n /\ ~ (lags[s][nodes[i]] <= costs[i])
    OBVIOUS
  <2>3. i # 0
    BY <1>1, <1>2, <2>2
  <2> DEFINE k == i - 1
  <2>4. k \in 0 .. n - 1 /\ k \in 0 .. n /\ k + 1 = i /\ k < i
    BY <2>2, <2>3
  <2>5. lags[s][nodes[k]] <= costs[k]
    BY <2>1, <2>4
  <2> HIDE DEF k, Longer
  <2>6. PICK e \in edges :
          e.parent = nodes[k] /\ e.child = nodes[i] /\ costs[i] = costs[k] + e.lag
    BY <1>1, <2>4
  <2>7. /\ e.lag \in Nat /\ e.parent \in Metrics /\ e.child \in Metrics
        /\ costs[k] \in Nat /\ costs[i] \in Nat
    <3>1. e.lag \in Nat /\ e.parent \in Metrics /\ e.child \in Metrics
      BY SizeAssumption DEF Solved, TypeInv, TypeOK, AllEdges
    <3> QED
      BY <2>2, <2>4, <3>1
  <2>8. CASE lags[s][e.parent] < Far
    <3>1. lags[s][e.child] <= lags[s][e.parent] + e.lag
      BY <2>8, EdgeRelaxed
    <3> QED
      BY <1>2, <2>2, <2>5, <2>6, <2>7, <3>1
  <2>9. CASE ~ (lags[s][e.parent] < Far)
    BY <1>2, <2>2, <2>5, <2>6, <2>7, <2>9, FarIsNat
  <2> QED
    BY <2>8, <2>9
<1>4. n \in 0 .. n
  OBVIOUS
<1> QED
  BY <1>1, <1>3, <1>4

LEMMA WalkGoesOn ==
  ASSUME Solved, NEW s \in Metrics, NEW lag \in Nat, NEW e \in edges,
         Walk(s, e.parent, lag)
  PROVE  Walk(s, e.child, lag + e.lag)
<1>0. PICK n \in Nat :
        \E nodes \in [0 .. n -> Metrics], costs \in [0 .. n -> Nat] :
            /\ nodes[0] = s /\ costs[0] = 0
            /\ nodes[n] = e.parent /\ costs[n] = lag
            /\ \A i \in 0 .. n - 1 : \E f \in edges :
                 f.parent = nodes[i] /\ f.child = nodes[i + 1] /\ costs[i + 1] = costs[i] + f.lag
  BY DEF Walk
<1>1. PICK nodes \in [0 .. n -> Metrics], costs \in [0 .. n -> Nat] :
        /\ nodes[0] = s /\ costs[0] = 0
        /\ nodes[n] = e.parent /\ costs[n] = lag
        /\ \A i \in 0 .. n - 1 : \E f \in edges :
             f.parent = nodes[i] /\ f.child = nodes[i + 1] /\ costs[i + 1] = costs[i] + f.lag
  BY <1>0
<1>2. e.child \in Metrics /\ e.lag \in Nat
  BY SizeAssumption DEF Solved, TypeInv, TypeOK, AllEdges
<1> DEFINE k == n + 1
           nodes1 == [i \in 0 .. k |-> IF i = k THEN e.child ELSE nodes[i]]
           costs1 == [i \in 0 .. k |-> IF i = k THEN lag + e.lag ELSE costs[i]]
<1>3. k \in Nat /\ \A i : i \in 0 .. k <=> i \in 0 .. n \/ i = k
  OBVIOUS
<1>4. nodes1 \in [0 .. k -> Metrics] /\ costs1 \in [0 .. k -> Nat]
  BY <1>2, <1>3
<1>5. /\ \A i \in 0 .. n : nodes1[i] = nodes[i] /\ costs1[i] = costs[i]
      /\ nodes1[k] = e.child /\ costs1[k] = lag + e.lag
      /\ k = n + 1 /\ 0 \in 0 .. n /\ n \in 0 .. n
  BY <1>3
<1> HIDE DEF k, nodes1, costs1
<1>6. ASSUME NEW i \in 0 .. k - 1
      PROVE  \E f \in edges : /\ f.parent = nodes1[i] /\ f.child = nodes1[i + 1]
                              /\ costs1[i + 1] = costs1[i] + f.lag
  <2>1. CASE i = n
    BY <1>1, <1>5, <2>1
  <2>2. CASE i # n
    <3>1. i \in 0 .. n - 1 /\ i \in 0 .. n /\ i + 1 \in 0 .. n
      BY <1>5, <2>2
    <3> QED
      BY <1>1, <1>5, <3>1
  <2> QED
    BY <2>1, <2>2
<1>7. /\ nodes1[0] = s /\ costs1[0] = 0
      /\ nodes1[k] = e.child /\ costs1[k] = lag + e.lag
  BY <1>1, <1>5
<1> QED
  <2>1. \E x \in [0 .. k -> Metrics], y \in [0 .. k -> Nat] :
          /\ x[0] = s /\ y[0] = 0
          /\ x[k] = e.child /\ y[k] = lag + e.lag
          /\ \A i \in 0 .. k - 1 : \E f \in edges :
               f.parent = x[i] /\ f.child = x[i + 1] /\ y[i + 1] = y[i] + f.lag
    BY <1>4, <1>6, <1>7
  <2> QED
    BY <1>3, <2>1 DEF Walk

LEMMA LagIsOfWalk ==
  ASSUME Solved, NEW s \in Metrics, NEW m \in Metrics, lags[s][m] < Far
  PROVE  Walk(s, m, lags[s][m])
<1> DEFINE Walked(x) == Walk(s, x, lags[s][x])
           Wrong == {i \in DOMAIN order : lags[s][order[i]] < Far /\ ~ Walked(order[i])}
<1>1. /\ DOMAIN order = 1 .. MetricCount /\ MetricCount \in Nat /\ Ordered = Metrics
      /\ \A i \in DOMAIN order : order[i] \in Metrics
  <2>1. Len(order) = MetricCount
    BY DEF Solved, OrderInv
  <2>2. DOMAIN order = 1 .. MetricCount /\ Ordered = Metrics
    BY <2>1, AllAreOrdered DEF Solved
  <2> QED
    BY <2>2, SizeAssumption DEF Ordered, ToSet
<1>2. \A x \in Metrics : lags[s][x] \in Nat /\ lags[s][s] = 0
  <2>1. \A x \in Metrics : lags[s][x] \in Nat
    BY FarIsNat DEF Solved, TypeInv, TypeOK
  <2>2. lags[s][s] = 0
    BY DEF Solved, LagsInv
  <2> QED
    BY <2>1, <2>2
<1>3. Walk(s, s, 0)
  <2> DEFINE nodes == [i \in 0 .. 0 |-> s]
             costs == [i \in 0 .. 0 |-> 0]
  <2>1. nodes \in [0 .. 0 -> Metrics] /\ costs \in [0 .. 0 -> Nat]
    OBVIOUS
  <2>2. nodes[0] = s /\ costs[0] = 0 /\ \A i : i \notin 0 .. 0 - 1
    OBVIOUS
  <2> HIDE DEF nodes, costs
  <2> QED
    BY <2>1, <2>2 DEF Walk
<1> HIDE DEF Walked
<1>4. ASSUME Wrong # {} PROVE FALSE
  <2>1. PICK i \in Wrong : \A j \in Wrong : i <= j
    <3>1. Wrong \in SUBSET Nat
      BY <1>1
    <3> HIDE DEF Wrong
    <3> QED
      BY <1>4, <3>1, LeastExists
  <2> DEFINE x == order[i]
  <2>2. x \in Metrics /\ lags[s][x] < Far /\ ~ Walked(x) /\ i \in 1 .. MetricCount
    BY <1>1
  <2>3. s # x
    BY <1>2, <1>3, <2>2 DEF Walked
  <2>4. PICK e \in edges : /\ e.child = x /\ lags[s][e.parent] < Far
                           /\ lags[s][x] = lags[s][e.parent] + e.lag
    BY <2>2, <2>3, LagHasEdge
  <2>5. e.parent \in Metrics
    BY DEF Solved, TypeInv, TypeOK, AllEdges
  <2>6. PICK k \in 1 .. i - 1 : order[k] = e.parent
    BY <1>1, <2>2, <2>4 DEF Solved, OrderInv
  <2>7. k \in DOMAIN order /\ k < i
    BY <1>1, <2>2
  <2>8. Walked(e.parent)
    BY <2>1, <2>2, <2>4, <2>6, <2>7
  <2>9. Walked(x)
    BY <1>2, <2>4, <2>5, <2>8, WalkGoesOn DEF Walked
  <2> QED
    BY <2>2, <2>9
<1>5. PICK i \in DOMAIN order : order[i] = m
  BY <1>1 DEF Ordered, ToSet
<1> QED
  BY <1>4, <1>5 DEF Walked

\* minimum_path_lags: the lag from one metric to another is the least of all
\* ways along the edges, of any length.
THEOREM LagsAreThoseOfShortestWalks == Spec => []WalksAreMinimal
<1>1. TypeInv /\ OrderInv /\ LagsInv => WalksAreMinimal
  <2> SUFFICES ASSUME Solved, NEW s \in Metrics, NEW m \in Metrics
               PROVE  /\ \A lag \in Nat : Walk(s, m, lag) => lags[s][m] <= lag
                      /\ lags[s][m] < Far => Walk(s, m, lags[s][m])
    BY DEF Solved, WalksAreMinimal
  <2> QED
    BY NoWalkIsShorter, LagIsOfWalk
<1> QED
  BY <1>1, LagsInvariant, PTL

LEMMA Triangle ==
  ASSUME Solved, NEW a \in Metrics, NEW b \in Metrics, NEW m \in Metrics,
         lags[a][b] < Far, lags[b][m] < Far
  PROVE  lags[a][m] < Far /\ lags[a][m] <= lags[a][b] + lags[b][m]
<1> DEFINE Short(x) == lags[a][x] < Far /\ lags[a][x] <= lags[a][b] + lags[b][x]
           Wrong == {i \in DOMAIN order : lags[b][order[i]] < Far /\ ~ Short(order[i])}
<1>0. /\ TypeInv /\ OrderInv /\ LagsInv /\ pc \in {"relax", "replay", "done"}
      /\ relaxed = MetricCount
  BY DEF Solved, LagsInv
<1>1. /\ DOMAIN order = 1 .. MetricCount /\ Ordered = Metrics
      /\ \A i \in DOMAIN order : order[i] \in Metrics
  <2>1. Len(order) = MetricCount
    BY <1>0 DEF OrderInv
  <2>2. DOMAIN order = 1 .. MetricCount /\ Ordered = Metrics
    BY <1>0, <2>1, AllAreOrdered
  <2> QED
    BY <2>2 DEF Ordered, ToSet
<1>2. \A x, y \in Metrics : lags[x][y] \in Nat
  BY <1>0, FarIsNat DEF TypeInv, TypeOK
<1>z. \A z \in Metrics : lags[z][z] = 0
  BY <1>0 DEF LagsInv
<1>3. ASSUME Wrong # {} PROVE FALSE
  <2>1. PICK i \in Wrong : \A j \in Wrong : i <= j
    <3>1. Wrong \in SUBSET Nat
      BY <1>1
    <3> HIDE DEF Wrong
    <3> QED
      BY <1>3, <3>1, LeastExists
  <2> DEFINE x == order[i]
  <2>2. x \in Metrics /\ lags[b][x] < Far /\ ~ Short(x)
    BY <1>1
  <2>3. b # x
    <3>1. lags[b][b] = 0
      BY <1>0 DEF LagsInv
    <3>2. lags[a][b] + 0 = lags[a][b] /\ lags[a][b] <= lags[a][b]
      BY <1>2
    <3>3. Short(b)
      BY <3>1, <3>2
    <3> QED
      BY <2>2, <3>3
  <2> HIDE DEF Short
  <2>4. PICK e \in edges : /\ e.child = x /\ lags[b][e.parent] < Far
                           /\ lags[b][x] = lags[b][e.parent] + e.lag
    BY <2>2, <2>3, LagHasEdge
  <2>5. /\ e.parent \in Metrics /\ e.lag \in Nat /\ i \in DOMAIN order /\ i \in Nat
    <3>1. e.parent \in Metrics /\ e.lag \in Nat
      BY <1>0, SizeAssumption DEF TypeInv, TypeOK, AllEdges
    <3>2. i \in DOMAIN order /\ i \in Nat
      BY <1>1, <2>1
    <3> QED
      BY <3>1, <3>2
  <2>6. PICK k \in 1 .. i - 1 : order[k] = e.parent
    BY <1>0, <2>4, <2>5 DEF OrderInv
  <2>7. k \in DOMAIN order /\ k < i
    <3>1. i \in 1 .. MetricCount /\ MetricCount \in Nat
      BY <1>1, <2>5, SizeAssumption
    <3> HIDE DEF Wrong
    <3>2. k \in 1 .. MetricCount /\ k < i
      BY <2>6, <3>1
    <3> QED
      BY <1>1, <3>2
  <2>8. k \notin Wrong
    BY <2>1, <2>5, <2>7
  <2>9. Short(e.parent)
    BY <2>4, <2>6, <2>7, <2>8
  <2>10. lags[a][x] <= lags[a][e.parent] + e.lag
    BY <2>4, <2>9, EdgeRelaxed DEF Short
  <2>11. lags[a][x] <= lags[a][b] + lags[b][x]
    <3>1. lags[a][e.parent] <= lags[a][b] + lags[b][e.parent]
      BY <2>9 DEF Short
    <3>2. /\ lags[a][x] \in Nat /\ lags[a][e.parent] \in Nat /\ lags[a][b] \in Nat
          /\ lags[b][e.parent] \in Nat /\ lags[b][x] \in Nat
      BY <1>2, <2>2, <2>5
    <3> QED
      BY <2>4, <2>5, <2>10, <3>1, <3>2
  <2>12. lags[a][x] < Far
    <3>1. CASE a = x
      BY <1>z, <3>1, FarIsNat
    <3>2. CASE a # x
      <4>1. PICK g, h \in DOMAIN order :
              /\ g < h /\ order[g] = a /\ order[h] = x
              /\ lags[a][e.parent] + e.lag \in 1 .. (h - g) * Longest
        BY <1>0, <2>4, <2>9, <3>2, FollowedEdgeIsApart DEF Short
      <4>2. (h - g) * Longest < Far
        BY <4>1, ApartIsNear
      <4>3. lags[a][x] \in Nat /\ lags[a][e.parent] \in Nat /\ Far \in Nat
        BY <1>2, <2>2, <2>5, FarIsNat
      <4>4. (h - g) * Longest \in Int
        BY <1>1, <4>1, LongestLag
      <4> QED
        BY <2>5, <2>10, <4>1, <4>2, <4>3, <4>4
    <3> QED
      BY <3>1, <3>2
  <2> QED
    BY <2>2, <2>11, <2>12 DEF Short
<1>4. PICK i \in DOMAIN order : order[i] = m
  BY <1>1 DEF Ordered, ToSet
<1> QED
  BY <1>3, <1>4

\* Whatever explains an alarm came earlier.
LEMMA ExplainsEarlier ==
  ASSUME Solved, NEW a \in Metrics, NEW m \in Metrics, Explains(a, m)
  PROVE  alarm[a] < alarm[m]
<1>1. a # m /\ lags[a][m] < Far /\ alarm[a] + lags[a][m] <= alarm[m]
  BY DEF Explains, Reaches
<1>2. PICK i, j \in DOMAIN order : lags[a][m] \in 1 .. (j - i) * Longest
  BY <1>1 DEF Solved, LagsInv, Apart
<1>3. lags[a][m] \in Nat \ {0}
  <2>1. lags[a][m] \in Nat
    BY FarIsNat DEF Solved, TypeInv, TypeOK
  <2> QED
    BY <1>2, <2>1
<1>4. alarm[a] \in Nat /\ alarm[m] \in Nat
  BY DEF Solved, TypeInv, TypeOK
<1> QED
  BY <1>1, <1>3, <1>4

LEMMA ExplainsIsTransitive ==
  ASSUME Solved, NEW a \in Metrics, NEW b \in Metrics, NEW m \in Metrics,
         Explains(a, b), Explains(b, m)
  PROVE  Explains(a, m)
<1>1. /\ lags[a][b] < Far /\ alarm[a] + lags[a][b] <= alarm[b]
      /\ lags[b][m] < Far /\ alarm[b] + lags[b][m] <= alarm[m]
  BY DEF Explains, Reaches
<1>2. lags[a][m] < Far /\ lags[a][m] <= lags[a][b] + lags[b][m]
  BY <1>1, Triangle
<1>3. /\ alarm[a] \in Nat /\ alarm[b] \in Nat /\ alarm[m] \in Nat
      /\ lags[a][b] \in Nat /\ lags[b][m] \in Nat /\ lags[a][m] \in Nat
  BY FarIsNat DEF Solved, TypeInv, TypeOK
<1>4. alarm[a] < alarm[b] /\ alarm[b] < alarm[m]
  BY ExplainsEarlier
<1>5. a # m
  BY <1>3, <1>4
<1>6. alarm[a] + lags[a][m] <= alarm[m]
  BY <1>1, <1>2, <1>3
<1> QED
  BY <1>2, <1>5, <1>6 DEF Explains, Reaches

LEMMA SuppressedHasRoot ==
  ASSUME Solved, NEW m \in Suppressed
  PROVE  \E r \in Roots : r \in CompatibleAncestors(m)
<1>1. /\ m \in Metrics /\ CompatibleAncestors(m) # {}
      /\ CompatibleAncestors(m) \subseteq Alarmed
      /\ Alarmed \subseteq Metrics
  BY DEF Suppressed, Alarmed, CompatibleAncestors
<1>2. \A a \in Metrics : alarm[a] \in Nat
  BY DEF Solved, TypeInv, TypeOK
<1>3. PICK r \in CompatibleAncestors(m) :
        \A a \in CompatibleAncestors(m) : alarm[r] <= alarm[a]
  <2> DEFINE S == {alarm[a] : a \in CompatibleAncestors(m)}
  <2>1. S \in SUBSET Nat /\ S # {}
    BY <1>1, <1>2
  <2>2. PICK x \in S : \A y \in S : x <= y
    <3> HIDE DEF S
    <3> QED
      BY <2>1, LeastExists
  <2> QED
    BY <2>2
<1>4. r \in Alarmed /\ r \in Metrics /\ Explains(r, m)
  BY <1>1, <1>3 DEF CompatibleAncestors
<1>5. ASSUME NEW b \in Alarmed, Explains(b, r) PROVE FALSE
  <2>1. b \in CompatibleAncestors(m)
    BY <1>1, <1>4, <1>5, ExplainsIsTransitive DEF CompatibleAncestors
  <2>2. alarm[b] < alarm[r]
    BY <1>1, <1>4, <1>5, ExplainsEarlier
  <2>3. alarm[r] <= alarm[b]
    BY <1>3, <2>1
  <2> QED
    BY <1>1, <1>2, <1>4, <2>2, <2>3
<1>6. r \in Roots
  BY <1>4, <1>5 DEF Roots, Suppressed, CompatibleAncestors
<1> QED
  BY <1>6

-----------------------------------------------------------------------------
(***************************************************************************)
(* The ranking exists: Before is a strict order, total on the metrics, so  *)
(* a candidate's place is the number of candidates before it.              *)
(***************************************************************************)
LEMMA KeysAreNumbers ==
  ASSUME TypeInv, NEW m \in Metrics
  PROVE  /\ alarm[m] \in Int /\ peak[m] \in Int /\ m \in Int
         /\ DownstreamCount(m) \in Int
<1>1. IsFiniteSet(Metrics)
  BY FS_Interval, SizeAssumption DEF Metrics
<1>2. DownstreamCount(m) \in Nat
  BY <1>1, FS_Subset, FS_CardinalityType DEF DownstreamCount, Alarmed
<1> QED
  BY <1>2 DEF TypeInv, TypeOK, Metrics

LEMMA BeforeIs ==
  ASSUME NEW a, NEW b
  PROVE  Before(a, b) <=>
           \/ alarm[a] < alarm[b]
           \/ /\ alarm[a] = alarm[b]
              /\ \/ -DownstreamCount(a) < -DownstreamCount(b)
                 \/ /\ -DownstreamCount(a) = -DownstreamCount(b)
                    /\ \/ -peak[a] < -peak[b]
                       \/ -peak[a] = -peak[b] /\ a < b
<1> DEFINE key(m) == <<alarm[m], -DownstreamCount(m), -peak[m], m>>
           at(i) == /\ \A j \in 1 .. i - 1 : key(a)[j] = key(b)[j]
                    /\ key(a)[i] < key(b)[i]
<1>1. Before(a, b) <=> \E i \in 1 .. 4 : at(i)
  BY DEF Before
<1>2. \A i : i \in 1 .. 4 <=> i \in {1, 2, 3, 4}
  OBVIOUS
<1>3. /\ \A j : ~ (j \in 1 .. 1 - 1)
      /\ \A j : j \in 1 .. 2 - 1 <=> j = 1
      /\ \A j : j \in 1 .. 3 - 1 <=> j \in {1, 2}
      /\ \A j : j \in 1 .. 4 - 1 <=> j \in {1, 2, 3}
  OBVIOUS
<1>4. \A m : /\ key(m)[1] = alarm[m] /\ key(m)[2] = -DownstreamCount(m)
             /\ key(m)[3] = -peak[m] /\ key(m)[4] = m
  OBVIOUS
<1> HIDE DEF key
<1>5. at(1) <=> alarm[a] < alarm[b]
  BY <1>3, <1>4
<1>6. at(2) <=> /\ alarm[a] = alarm[b]
                /\ -DownstreamCount(a) < -DownstreamCount(b)
  BY <1>3, <1>4
<1>7. at(3) <=> /\ alarm[a] = alarm[b]
                /\ -DownstreamCount(a) = -DownstreamCount(b)
                /\ -peak[a] < -peak[b]
  BY <1>3, <1>4
<1>8. at(4) <=> /\ alarm[a] = alarm[b]
                /\ -DownstreamCount(a) = -DownstreamCount(b)
                /\ -peak[a] = -peak[b]
                /\ a < b
  BY <1>3, <1>4
<1> HIDE DEF at
<1>9. Before(a, b) <=> at(1) \/ at(2) \/ at(3) \/ at(4)
  BY <1>1, <1>2
<1> QED
  BY <1>5, <1>6, <1>7, <1>8, <1>9

LEMMA BeforeIsOrder ==
  ASSUME TypeInv, NEW a \in Metrics, NEW b \in Metrics, NEW c \in Metrics
  PROVE  /\ ~ Before(a, a)
         /\ Before(a, b) /\ Before(b, c) => Before(a, c)
         /\ a = b \/ Before(a, b) \/ Before(b, a)
<1>1. \A m \in Metrics : /\ alarm[m] \in Int /\ peak[m] \in Int /\ m \in Int
                         /\ DownstreamCount(m) \in Int
  BY KeysAreNumbers
<1>2. ~ Before(a, a)
  BY <1>1, BeforeIs
<1>3. Before(a, b) /\ Before(b, c) => Before(a, c)
  BY <1>1, BeforeIs
<1>4. a = b \/ Before(a, b) \/ Before(b, a)
  BY <1>1, BeforeIs
<1> QED
  BY <1>2, <1>3, <1>4

LEMMA RankingIsSorted ==
  ASSUME TypeInv
  PROVE  /\ DOMAIN Ranking = 1 .. Cardinality(Roots)
         /\ \A i \in DOMAIN Ranking : Ranking[i] \in Roots
         /\ \A r \in Roots : \E i \in DOMAIN Ranking : Ranking[i] = r
         /\ \A i, j \in DOMAIN Ranking : i < j => Before(Ranking[i], Ranking[j])
<1> DEFINE n == Cardinality(Roots)
           Ahead(m) == {a \in Roots : Before(a, m)}
           place == [m \in Roots |-> Cardinality(Ahead(m)) + 1]
           Sorted(q) == \A i, j \in DOMAIN q : i < j => Before(q[i], q[j])
<1>1. Roots \subseteq Metrics /\ IsFiniteSet(Roots)
  <2>1. IsFiniteSet(Metrics)
    BY FS_Interval, SizeAssumption DEF Metrics
  <2> QED
    BY <2>1, FS_Subset DEF Roots, Alarmed
<1>2. n \in Nat
  BY <1>1, FS_CardinalityType
<1>3. ASSUME NEW m \in Roots
      PROVE  IsFiniteSet(Ahead(m)) /\ Cardinality(Ahead(m)) \in Nat /\ Cardinality(Ahead(m)) < n
  <2>1. Ahead(m) \subseteq Roots /\ m \notin Ahead(m)
    BY <1>1, BeforeIsOrder
  <2> HIDE DEF Ahead
  <2>2. /\ IsFiniteSet(Ahead(m)) /\ Cardinality(Ahead(m)) <= n
        /\ n = Cardinality(Ahead(m)) => Roots = Ahead(m)
    BY <1>1, <2>1, FS_Subset
  <2>3. Cardinality(Ahead(m)) \in Nat
    BY <2>2, FS_CardinalityType
  <2> QED
    BY <1>2, <2>1, <2>2, <2>3
<1>4. ASSUME NEW a \in Roots, NEW b \in Roots, Before(a, b)
      PROVE  place[a] < place[b]
  <2>1. Ahead(a) \subseteq Ahead(b)
    BY <1>1, <1>4, BeforeIsOrder
  <2>2. a \in Ahead(b) /\ a \notin Ahead(a)
    BY <1>1, <1>4, BeforeIsOrder
  <2>3. /\ IsFiniteSet(Ahead(b)) /\ Cardinality(Ahead(a)) \in Nat
        /\ Cardinality(Ahead(b)) \in Nat
    BY <1>3
  <2> HIDE DEF Ahead
  <2>4. /\ Cardinality(Ahead(a)) <= Cardinality(Ahead(b))
        /\ Cardinality(Ahead(b)) = Cardinality(Ahead(a)) => Ahead(b) = Ahead(a)
    BY <2>1, <2>3, FS_Subset
  <2>5. Cardinality(Ahead(a)) < Cardinality(Ahead(b))
    BY <2>2, <2>3, <2>4
  <2> QED
    BY <2>3, <2>5
<1>5. place \in [Roots -> 1 .. n]
  <2>1. ASSUME NEW m \in Roots PROVE Cardinality(Ahead(m)) + 1 \in 1 .. n
    BY <1>2, <1>3
  <2> QED
    BY <2>1
<1> HIDE DEF place, Ahead
<1>6. ASSUME NEW a \in Roots, NEW b \in Roots, place[a] <= place[b]
      PROVE  a = b \/ Before(a, b)
  <2>1. place[a] \in Int /\ place[b] \in Int
    BY <1>5
  <2>2. CASE Before(b, a)
    BY <1>4, <1>6, <2>1, <2>2
  <2> QED
    BY <1>1, <2>2, BeforeIsOrder
<1>7. place \in Injection(Roots, 1 .. n)
  <2>1. ASSUME NEW a \in Roots, NEW b \in Roots, place[a] = place[b] PROVE a = b
    <3>1. place[a] \in Int /\ place[b] \in Int
      BY <1>5
    <3>2. ~ (place[a] < place[b]) /\ ~ (place[b] < place[a])
      BY <2>1, <3>1
    <3> QED
      BY <1>1, <1>4, <3>2, BeforeIsOrder
  <2> QED
    BY <1>5, <2>1 DEF Injection, IsInjective
<1>8. IsFiniteSet(1 .. n) /\ Cardinality(1 .. n) = n
  BY <1>2, FS_Interval
<1>9. place \in Surjection(Roots, 1 .. n)
  BY <1>7, <1>8, FS_Injection
<1>10. \A i \in 1 .. n : \E m \in Roots : place[m] = i
  BY <1>9 DEF Surjection
<1> DEFINE q == [i \in 1 .. n |-> CHOOSE m \in Roots : place[m] = i]
<1>11. \A i \in 1 .. n : q[i] \in Roots /\ place[q[i]] = i
  BY <1>10
<1>12. q \in [1 .. n -> Roots] /\ DOMAIN q = 1 .. n
  BY <1>11
<1> HIDE DEF q
<1>13. q \in SetToSeqs(Roots) /\ Sorted(q)
  <2>1. ASSUME NEW i \in 1 .. n, NEW j \in 1 .. n, i < j PROVE Before(q[i], q[j])
    BY <1>6, <1>11, <2>1
  <2>2. \A i, j \in 1 .. n : i # j => q[i] # q[j]
    BY <1>11
  <2> QED
    BY <1>12, <2>1, <2>2 DEF SetToSeqs
<1>14. Ranking \in SetToSeqs(Roots) /\ Sorted(Ranking)
  BY <1>13 DEF Ranking
<1>15. Ranking \in [1 .. n -> Roots] /\ \A i, j \in 1 .. n : i # j => Ranking[i] # Ranking[j]
  BY <1>14 DEF SetToSeqs
<1>16. Ranking \in Injection(1 .. n, Roots)
  BY <1>15 DEF Injection, IsInjective
<1>17. Ranking \in Surjection(1 .. n, Roots)
  BY <1>1, <1>8, <1>16, FS_Injection
<1> QED
  BY <1>14, <1>15, <1>17 DEF Surjection

\* The two conditions _rank_candidates writes: d is downstream of r exactly if
\* r is an ancestor that explains d.
LEMMA SupportIsSuppression ==
  ASSUME TypeInv, NEW r \in Roots
  PROVE  DownstreamCount(r) =
           Cardinality({c \in {[metric |-> m, ancestors |-> CompatibleAncestors(m)] :
                                 m \in Suppressed} : r \in c.ancestors})
<1> DEFINE D == {d \in Alarmed : Reaches(r, d) /\ alarm[d] >= alarm[r] + lags[r][d]}
           entry(m) == [metric |-> m, ancestors |-> CompatibleAncestors(m)]
           C == {c \in {entry(m) : m \in Suppressed} : r \in c.ancestors}
           f == [d \in D |-> entry(d)]
<1>1. r \in Alarmed /\ Alarmed \subseteq Metrics
  BY DEF Roots, Alarmed
<1>2. \A a, m \in Metrics : alarm[a] \in Nat /\ alarm[m] \in Nat /\ lags[a][m] \in Nat
  BY FarIsNat DEF TypeInv, TypeOK
<1>3. \A d : d \in D <=> d \in Alarmed /\ r \in CompatibleAncestors(d)
  <2>1. \A d \in Alarmed : /\ alarm[d] >= alarm[r] + lags[r][d]
                              <=> alarm[r] + lags[r][d] <= alarm[d]
    BY <1>1, <1>2
  <2> QED
    BY <1>1, <2>1 DEF CompatibleAncestors, Explains
<1>4. \A d \in D : d \in Suppressed
  BY <1>3 DEF Suppressed
<1>5. IsFiniteSet(D)
  <2>1. IsFiniteSet(Metrics)
    BY FS_Interval, SizeAssumption DEF Metrics
  <2> QED
    BY <1>1, <2>1, FS_Subset
<1> HIDE DEF D
<1>6. \A m : entry(m).metric = m /\ entry(m).ancestors = CompatibleAncestors(m)
  OBVIOUS
<1> HIDE DEF entry
<1>7. f \in [D -> C]
  BY <1>3, <1>4, <1>6
<1>8. \A d, e \in D : f[d] = f[e] => d = e
  BY <1>6
<1>9. ASSUME NEW c \in C PROVE \E d \in D : f[d] = c
  <2>1. PICK m \in Suppressed : c = entry(m) /\ r \in CompatibleAncestors(m)
    BY <1>6
  <2>2. m \in D
    BY <1>3, <2>1 DEF Suppressed
  <2> QED
    BY <2>1, <2>2
<1> HIDE DEF C, f
<1>10. f \in Bijection(D, C)
  BY <1>7, <1>8, <1>9 DEF Bijection, Injection, Surjection, IsInjective
<1>11. Cardinality(C) = Cardinality(D)
  BY <1>5, <1>10, FS_Bijection DEF ExistsBijection
<1> QED
  BY <1>11 DEF C, D, entry, DownstreamCount

LEMMA RankIsRooted ==
  ASSUME Solved, Rank
  PROVE  SuppressionIsRooted'
<1>1. /\ ranked' = [i \in DOMAIN Ranking |->
                      [metric |-> Ranking[i], support |-> DownstreamCount(Ranking[i])]]
      /\ suppressed' = {[metric |-> m, ancestors |-> CompatibleAncestors(m)] :
                          m \in Suppressed}
  BY DEF Rank
<1>2. TypeInv
  BY DEF Solved
<1>3. /\ DOMAIN ranked' = DOMAIN Ranking
      /\ \A i \in DOMAIN Ranking : /\ ranked'[i].metric = Ranking[i]
                                   /\ ranked'[i].support = DownstreamCount(Ranking[i])
  BY <1>1
<1>4. ASSUME NEW c \in suppressed'
      PROVE  \E i \in DOMAIN ranked' : ranked'[i].metric \in c.ancestors
  <2>1. PICK m \in Suppressed : c = [metric |-> m, ancestors |-> CompatibleAncestors(m)]
    BY <1>1
  <2>2. PICK r \in Roots : r \in CompatibleAncestors(m)
    BY SuppressedHasRoot
  <2>3. PICK i \in DOMAIN Ranking : Ranking[i] = r
    BY <1>2, RankingIsSorted
  <2> QED
    BY <1>3, <2>1, <2>2, <2>3
<1>5. ASSUME NEW i \in DOMAIN ranked'
      PROVE  ranked'[i].support =
               Cardinality({c \in suppressed' : ranked'[i].metric \in c.ancestors})
  <2>1. Ranking[i] \in Roots
    BY <1>2, <1>3, RankingIsSorted
  <2> QED
    BY <1>1, <1>2, <1>3, <2>1, SupportIsSuppression
<1> QED
  BY <1>4, <1>5 DEF SuppressionIsRooted

\* _rank_candidates: a suppressed alarm names a root candidate that explains
\* it, and the support of a candidate counts the alarms that name it.
THEOREM SuppressionsAreRooted == Spec => []SuppressionIsRooted
<1>1. Init => SuppressionIsRooted
  BY DEF Init, SuppressionIsRooted
<1>2. ASSUME TypeInv, OrderInv, LagsInv, SuppressionIsRooted, [Next]_vars
      PROVE  SuppressionIsRooted'
  <2>1. CASE Rank
    BY <1>2, <2>1, RankIsRooted DEF Solved, Rank
  <2>2. CASE Declare \/ StartOrder \/ TakeReady \/ JudgeSchema \/ Relax \/ StartReplay \/ ObserveRow
    <3>1. pc' # "done"
      BY <2>2 DEF Declare, StartOrder, TakeReady, JudgeSchema, Relax, StartReplay, ObserveRow
    <3> QED
      BY <3>1 DEF SuppressionIsRooted
  <2>3. CASE UNCHANGED vars
    BY <1>2, <2>3 DEF vars, report, SuppressionIsRooted
  <2> QED
    BY <1>2, <2>1, <2>2, <2>3 DEF Next
<1> QED
  BY <1>1, <1>2, LagsInvariant, PTL DEF Spec

-----------------------------------------------------------------------------
\* A new alarm comes too late to explain an older one.
LEMMA RowKeepsVerdicts ==
  ASSUME TypeInv, ObserveRow
  PROVE  Roots \subseteq Roots' /\ Suppressed \subseteq Suppressed'
<1>1. PICK level \in [Metrics -> 0 .. Top] :
        alarm' = [m \in Metrics |->
                    IF alarm[m] = None /\ level[m] >= Threshold THEN row' ELSE alarm[m]]
  BY DEF ObserveRow
<1>2. lags' = lags /\ row' = row + 1 /\ row \in Nat
  BY DEF ObserveRow, paths, TypeInv, TypeOK
<1>3. \A m \in Metrics : /\ alarm[m] \in 0 .. row
                         /\ alarm'[m] = IF alarm[m] = None /\ level[m] >= Threshold
                                          THEN row' ELSE alarm[m]
  BY <1>1 DEF TypeInv, TypeOK
<1>4. \A a, m \in Metrics : lags[a][m] \in Nat
  BY FarIsNat DEF TypeInv, TypeOK
<1>5. /\ Alarmed \subseteq Metrics /\ Alarmed' \subseteq Metrics /\ Alarmed \subseteq Alarmed'
      /\ \A m \in Alarmed : alarm'[m] = alarm[m]
  BY <1>3 DEF Alarmed
<1>6. ASSUME NEW a \in Alarmed', NEW m \in Alarmed
      PROVE  Explains(a, m)' <=> a \in Alarmed /\ Explains(a, m)
  <2>1. Reaches(a, m)' <=> Reaches(a, m)
    BY <1>2 DEF Reaches, Far
  <2>2. CASE a \in Alarmed
    BY <1>2, <1>5, <2>1, <2>2 DEF Explains
  <2>3. CASE a \notin Alarmed
    <3>1. a \in Metrics /\ alarm'[a] = row + 1
      BY <1>2, <1>3, <1>5, <2>3 DEF Alarmed
    <3>2. alarm'[m] \in 0 .. row /\ lags[a][m] \in Nat
      BY <1>3, <1>4, <1>5, <3>1
    <3>3. ~ (alarm'[a] + lags'[a][m] <= alarm'[m])
      BY <1>2, <3>1, <3>2
    <3> QED
      BY <2>3, <3>3 DEF Explains
  <2> QED
    BY <2>2, <2>3
<1>7. ASSUME NEW m \in Alarmed PROVE CompatibleAncestors(m)' = CompatibleAncestors(m)
  BY <1>5, <1>6 DEF CompatibleAncestors
<1> QED
  BY <1>5, <1>7 DEF Roots, Suppressed

\* A report on a prefix of the stream is confirmed by every longer one.
THEOREM PrefixesAreStable == Spec => PrefixIsStable
<1>1. TypeInv /\ [Next]_vars =>
        [row' # row => Roots \subseteq Roots' /\ Suppressed \subseteq Suppressed']_vars
  <2> SUFFICES ASSUME TypeInv, [Next]_vars, row' # row
               PROVE  Roots \subseteq Roots' /\ Suppressed \subseteq Suppressed'
    OBVIOUS
  <2>1. ObserveRow
    BY DEF Next, Declare, StartOrder, TakeReady, JudgeSchema, Relax, StartReplay, Rank,
           evidence, vars
  <2> QED
    BY <2>1, RowKeepsVerdicts
<1> QED
  BY <1>1, TypeInvariant, PTL DEF Spec, PrefixIsStable
==============================================================================
