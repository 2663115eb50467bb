-------------------------- MODULE AlertRulesProofs --------------------------
(***************************************************************************)
(* Proofs about the alert rules: for records of any number, latencies,      *)
(* clusters and arrival times, any percentile, threshold and windows.      *)
(*                                                                         *)
(* That a percentile exists, and that the rows of the comparison add up to  *)
(* the summary, are inductions; they are done as the descent of a least    *)
(* counterexample.                                                         *)
(***************************************************************************)
EXTENDS AlertRules, FiniteSetTheorems, WellFoundedInduction, TLAPS

(* A non-empty set of natural numbers has a least element.                 *)
LEMMA Least ==
  ASSUME NEW S \in SUBSET Nat, S # {}
  PROVE  \E n \in S : \A m \in S : n <= m
<1> DEFINE R == OpToRel(<, Nat)
<1>1. IsWellFoundedOn(R, Nat)
  BY NatLessThanWellFounded
<1>2. \A x, y \in Nat : x < y => <<x, y>> \in R
  BY DEF OpToRel
<1> HIDE DEF R
<1>3. PICK n \in S : \A m \in S : ~(<<m, n>> \in R)
  BY <1>1, WFMin
<1>4. ASSUME NEW m \in S PROVE n <= m
  <2>1. m \in Nat /\ n \in Nat /\ ~(m < n)
    BY <1>2, <1>3
  <2> QED
    BY <2>1
<1> QED
  BY <1>3, <1>4

-----------------------------------------------------------------------------
(* The table of records.                                                   *)

RecordSet == [id : Nat, ts : Int, value : Nat \cup {Null}, ok : BOOLEAN]

(* The table is finite, and its latencies are bounded.                     *)
TableInv ==
  /\ clock \in Nat /\ inserted \in Nat
  /\ records \subseteq RecordSet /\ IsFiniteSet(records)
  /\ \E n \in Nat : \A r \in records : r.value <= n

LEMMA TableInit == Init => TableInv
BY FS_EmptySet DEF Init, TableInv

LEMMA TableStep == TableInv /\ [Next]_vars => TableInv'
<1> SUFFICES ASSUME TableInv, [Next]_vars PROVE TableInv'
  OBVIOUS
<1>1. CASE Insert
  <2>1. PICK ts \in 0 .. clock + MaxSkew, value \in Values \cup {Null}, ok \in BOOLEAN :
          records' = records \cup {[id |-> inserted + 1, ts |-> ts, value |-> value, ok |-> ok]}
    BY <1>1 DEF Insert
  <2> DEFINE new == [id |-> inserted + 1, ts |-> ts, value |-> value, ok |-> ok]
  <2>2. value \in Nat \cup {Null} /\ ts \in Int /\ inserted + 1 \in Nat
    BY RulesAssumption DEF TableInv
  <2>3. new \in RecordSet /\ new.value = value
    BY <2>2 DEF RecordSet
  <2>4. clock' \in Nat /\ inserted' \in Nat
    BY <1>1 DEF Insert, TableInv
  <2> HIDE DEF new
  <2>5. records' \subseteq RecordSet /\ IsFiniteSet(records')
    BY <2>1, <2>3, FS_AddElement DEF TableInv, new
  <2>6. PICK n \in Nat : \A r \in records : r.value <= n
    BY DEF TableInv
  <2>7. PICK m \in Nat : n <= m /\ value <= m
    <3>1. CASE value \in Nat /\ n <= value
      BY <3>1
    <3>2. CASE value \in Nat /\ value <= n
      BY <3>2
    <3>3. CASE value = Null
      BY <3>3 DEF Null
    <3> QED
      BY <2>2, <3>1, <3>2, <3>3
  <2>8. \A r \in records' : r.value <= m
    <3>1. ASSUME NEW r \in records PROVE r.value <= m
      <4>1. r.value \in Int /\ r.value <= n
        BY <2>6 DEF TableInv, RecordSet, Null
      <4> QED
        BY <2>7, <4>1
    <3> QED
      BY <2>1, <2>3, <2>7, <3>1 DEF new
  <2> QED
    BY <2>4, <2>5, <2>8 DEF TableInv
<1>2. CASE Tick
  BY <1>2 DEF Tick, TableInv
<1>3. CASE Prune
  <2>1. records' \in SUBSET records /\ UNCHANGED <<clock, inserted>>
    BY <1>3 DEF Prune
  <2>2. IsFiniteSet(records')
    BY <2>1, FS_Subset DEF TableInv
  <2> QED
    BY <2>1, <2>2 DEF TableInv
<1>4. CASE UNCHANGED vars
  BY <1>4 DEF vars, TableInv
<1> QED
  BY <1>1, <1>2, <1>3, <1>4 DEF Next

THEOREM TableCorrect == Spec => []TableInv
BY TableInit, TableStep, PTL DEF Spec

-----------------------------------------------------------------------------
(* Percentiles.                                                            *)

IsSample(T) ==
  /\ IsFiniteSet(T)
  /\ \A r \in T : r.value \in Nat
  /\ \E n \in Nat : \A r \in T : r.value <= n

AtMost(T, v) == {r \in T : r.value <= v}
Below(T, v) == {r \in T : r.value < v}

(* A window of the table, and any part of it, is a sample.                 *)
LEMMA SampleLemma ==
  ASSUME TableInv, NEW since, NEW before, NEW T \in SUBSET Sample(since, before)
  PROVE  IsSample(T)
<1>1. T \in SUBSET records /\ \A r \in T : r.value \in Nat
  BY DEF Sample, TableInv, RecordSet
<1>2. IsFiniteSet(T)
  BY <1>1, FS_Subset DEF TableInv
<1> QED
  BY <1>1, <1>2 DEF IsSample, TableInv

LEMMA Counts ==
  ASSUME NEW T, IsSample(T), NEW v
  PROVE  /\ IsFiniteSet(AtMost(T, v)) /\ Cardinality(AtMost(T, v)) \in Nat
         /\ Cardinality(AtMost(T, v)) <= Cardinality(T)
         /\ IsFiniteSet(Below(T, v)) /\ Cardinality(Below(T, v)) \in Nat
         /\ Cardinality(Below(T, v)) <= Cardinality(T)
         /\ IsFiniteSet(T) /\ Cardinality(T) \in Nat /\ (T # {} => Cardinality(T) > 0)
<1>1. AtMost(T, v) \in SUBSET T /\ Below(T, v) \in SUBSET T
  BY DEF AtMost, Below
<1>2. IsFiniteSet(T) /\ Cardinality(T) \in Nat /\ (Cardinality(T) = 0 <=> T = {})
  BY FS_CardinalityType, FS_EmptySet DEF IsSample
<1> QED
  BY <1>1, <1>2, FS_Subset, FS_CardinalityType

(* The offset is within the sample, at the share P of it.                  *)
LEMMA OffsetLemma ==
  ASSUME NEW n \in Nat, n > 0
  PROVE  /\ Offset(n) \in Nat /\ Offset(n) < n
         /\ P.den * Offset(n) <= P.num * n /\ P.num * n <= P.den * (Offset(n) + 1)
         /\ P.num < P.den => P.num * n < P.den * (Offset(n) + 1)
         /\ P.num = P.den => Offset(n) = n - 1
<1>1. P.num \in Nat /\ P.den \in Nat /\ P.den > 0 /\ P.num <= P.den
  BY RulesAssumption DEF Fractions
<1>2. PICK p \in Nat, q \in Nat : p = P.num /\ q = P.den
  BY <1>1
<1>3. q > 0 /\ p <= q
  BY <1>1, <1>2
<1> DEFINE k == (n * p) \div q
<1>4. k \in Nat /\ q * k <= n * p /\ n * p < q * k + q
  BY <1>3
<1>5. Offset(n) = IF k < n THEN k ELSE n - 1
  BY <1>2 DEF Offset
<1>6. p * n = n * p /\ n * p \in Nat /\ n * p <= n * q /\ q * n = n * q
  BY <1>3
<1> HIDE DEF k
<1>7. CASE k < n
  <2>1. q * (k + 1) = q * k + q
    BY <1>4
  <2>2. p = q => k = n - 1
    <3> SUFFICES ASSUME p = q PROVE k = n - 1
      OBVIOUS
    <3>1. q * n < q * (k + 1)
      BY <1>4, <1>6, <2>1
    <3>2. n < k + 1
      BY <1>3, <1>4, <3>1
    <3> QED
      BY <1>4, <1>7, <3>2
  <2> QED
    BY <1>2, <1>4, <1>5, <1>6, <1>7, <2>1, <2>2
<1>8. CASE ~(k < n)
  <2>1. Offset(n) = n - 1 /\ n - 1 \in Nat
    BY <1>5, <1>8
  <2>2. q * (n - 1) = q * n - q /\ q * (n - 1 + 1) = q * n
    OBVIOUS
  <2>3. p = q
    <3>1. SUFFICES ASSUME p < q PROVE FALSE
      BY <1>3
    <3>2. n * p < n * q
      BY <3>1
    <3>3. q * n <= q * k
      BY <1>3, <1>4, <1>8
    <3> QED
      BY <1>4, <1>6, <3>2, <3>3
  <2> QED
    BY <1>2, <1>3, <1>6, <2>1, <2>2, <2>3
<1> QED
  BY <1>7, <1>8

(* The percentile of a sample exists: the least number that more than the   *)
(* offset of the latencies reach is one of them.                           *)
LEMMA PercentileLemma ==
  ASSUME NEW T, IsSample(T), T # {}
  PROVE  /\ Percentile(T) \in {r.value : r \in T} /\ Percentile(T) \in Nat
         /\ Cardinality(Below(T, Percentile(T))) <= Offset(Cardinality(T))
         /\ Offset(Cardinality(T)) < Cardinality(AtMost(T, Percentile(T)))
<1>1. PICK k \in Nat : k = Offset(Cardinality(T)) /\ k < Cardinality(T)
  BY Counts, OffsetLemma
<1> DEFINE Reached == {v \in Nat : k < Cardinality(AtMost(T, v))}
<1>2. Reached # {}
  <2>1. PICK n \in Nat : \A r \in T : r.value <= n
    BY DEF IsSample
  <2>2. AtMost(T, n) = T
    BY <2>1 DEF AtMost
  <2> QED
    BY <1>1, <2>1, <2>2
<1>3. PICK m \in Reached : \A v \in Reached : m <= v
  BY <1>2, Least
<1>4. m \in Nat /\ k < Cardinality(AtMost(T, m))
  BY <1>3
<1>5. Cardinality(Below(T, m)) <= k
  <2>1. CASE m = 0
    <3>1. Below(T, m) = {}
      BY <2>1 DEF Below, IsSample
    <3> QED
      BY <3>1, FS_EmptySet
  <2>2. CASE m # 0
    <3>1. m - 1 \in Nat /\ m - 1 \notin Reached
      BY <1>3, <1>4, <2>2
    <3>2. Below(T, m) = AtMost(T, m - 1)
      BY <1>4 DEF Below, AtMost, IsSample
    <3>3. ~(k < Cardinality(AtMost(T, m - 1))) /\ Cardinality(AtMost(T, m - 1)) \in Nat
      BY <3>1, Counts
    <3> QED
      BY <3>2, <3>3
  <2> QED
    BY <2>1, <2>2
<1>6. m \in {r.value : r \in T}
  <2> SUFFICES ASSUME m \notin {r.value : r \in T} PROVE FALSE
    OBVIOUS
  <2>1. Below(T, m) = AtMost(T, m)
    BY <1>4 DEF Below, AtMost, IsSample
  <2> QED
    BY <1>4, <1>5, <2>1, Counts
<1> DEFINE Ranked(v) ==
      /\ Cardinality({r \in T : r.value < v}) <= Offset(Cardinality(T))
      /\ Offset(Cardinality(T)) < Cardinality({r \in T : r.value <= v})
<1>7. Ranked(m)
  BY <1>1, <1>4, <1>5 DEF Below, AtMost
<1>8. Percentile(T) = CHOOSE v \in {r.value : r \in T} : Ranked(v)
  BY DEF Percentile
<1> HIDE DEF Ranked
<1>9. Percentile(T) \in {r.value : r \in T} /\ Ranked(Percentile(T))
  BY <1>6, <1>7, <1>8
<1> QED
  BY <1>9 DEF Ranked, Below, AtMost, IsSample

LEMMA NullLemma == Percentile({}) = Null
BY DEF Percentile

(* Percentiles are ranks, for every share and every sample.                *)
LEMMA RankLemma ==
  ASSUME NEW T, IsSample(T), T # {}
  PROVE  /\ P.den * Cardinality(AtMost(T, Percentile(T))) >= P.num * Cardinality(T)
         /\ P.den * Cardinality(Below(T, Percentile(T))) <= P.num * Cardinality(T)
<1>1. PICK n \in Nat, k \in Nat, a \in Nat, b \in Nat, p \in Nat, q \in Nat :
        /\ n = Cardinality(T) /\ k = Offset(n) /\ p = P.num /\ q = P.den
        /\ a = Cardinality(AtMost(T, Percentile(T))) /\ b = Cardinality(Below(T, Percentile(T)))
        /\ n > 0
  BY Counts, OffsetLemma, RulesAssumption DEF Fractions
<1>2. b <= k /\ k + 1 <= a
  BY <1>1, PercentileLemma
<1>3. q * k <= p * n /\ p * n <= q * (k + 1)
  BY <1>1, OffsetLemma
<1>4. q * b <= q * k /\ q * (k + 1) <= q * a
  BY <1>2
<1>5. q * a >= p * n /\ q * b <= p * n
  BY <1>3, <1>4
<1> QED
  BY <1>1, <1>5

(* "Percentiles are exact", whatever the records.                          *)
THEOREM PercentilesAreRanks == Spec => []PercentileIsRank
<1>1. TableInv => PercentileIsRank
  <2> SUFFICES ASSUME TableInv, NEW window \in {<<Window, 0>>, <<Baseline, Window>>},
                      Sample(window[1], window[2]) # {}
               PROVE  LET sample == Sample(window[1], window[2])
                          v == Percentile(sample)
                      IN  /\ v \in {r.value : r \in sample}
                          /\ P.den * Cardinality({r \in sample : r.value <= v})
                               >= P.num * Cardinality(sample)
                          /\ P.den * Cardinality({r \in sample : r.value < v})
                               <= P.num * Cardinality(sample)
    BY DEF PercentileIsRank
  <2>1. IsSample(Sample(window[1], window[2]))
    BY SampleLemma
  <2> QED
    BY <2>1, PercentileLemma, RankLemma DEF AtMost, Below
<1> QED
  BY <1>1, TableCorrect, PTL

-----------------------------------------------------------------------------
(* The regression rule.                                                    *)

(* A percentile is no number exactly for the empty sample.                 *)
LEMMA NullMeansEmpty ==
  ASSUME NEW T, IsSample(T)
  PROVE  Percentile(T) = Null <=> T = {}
<1>1. CASE T = {}
  BY <1>1, NullLemma
<1>2. CASE T # {}
  BY <1>2, PercentileLemma DEF Null
<1> QED
  BY <1>1, <1>2

(* The rule fires when all requests are slow against all of the baseline,   *)
(* and is quiet when none is or too few are served, whatever the rest of   *)
(* the table.                                                              *)
THEOREM SlowdownIsSeen == Spec => []SlowdownSeen
<1>1. TableInv => SlowdownSeen
  <2> SUFFICES ASSUME TableInv PROVE SlowdownSeen
    OBVIOUS
  <2> DEFINE now == Sample(Window, 0)
             base == Sample(Baseline, Window)
             last == {r \in records : clock - Window <= r.ts /\ r.ts <= clock}
  <2>1. IsSample(now) /\ IsSample(base)
    BY SampleLemma
  <2>2. Recent = Percentile(now) /\ Before = Percentile(base)
    BY DEF Recent, Before
  <2>3. Cardinality(last) \in Nat /\ Requests \in Nat /\ Cardinality(last) <= Requests
    <3>1. last \subseteq Summarised /\ IsFiniteSet(Summarised)
      <4>1. Window \in Nat /\ clock \in Nat /\ \A r \in records : r.ts \in Int
        BY RulesAssumption DEF TableInv, RecordSet
      <4>2. Summarised \subseteq records /\ IsFiniteSet(records)
        BY DEF Summarised, TableInv
      <4> QED
        BY <4>1, <4>2, FS_Subset DEF Summarised
    <3>2. IsFiniteSet(last) /\ Cardinality(last) <= Cardinality(Summarised)
      BY <3>1, FS_Subset
    <3> QED
      BY <3>1, <3>2, FS_CardinalityType DEF Requests
  <2>4. (\A r \in records : r.ts <= clock) => Cardinality(last) = Requests
    <3>1. Window \in Nat /\ clock \in Nat /\ \A r \in records : r.ts \in Int
      BY RulesAssumption DEF TableInv, RecordSet
    <3>2. (\A r \in records : r.ts <= clock) => last = Summarised
      BY <3>1 DEF Summarised
    <3> QED
      BY <3>2 DEF Requests
  <2>5. MinRequests \in Nat
    BY RulesAssumption
  <2> HIDE DEF now, base, last
  <2>6. now # {} => \E r \in now : Recent = r.value
    BY <2>1, <2>2, PercentileLemma
  <2>7. base # {} => \E b \in base : Before = b.value
    BY <2>1, <2>2, PercentileLemma
  <2>8. (Recent = Null <=> now = {}) /\ (Before = Null <=> base = {})
    BY <2>1, <2>2, NullMeansEmpty
  <2>9. ASSUME \A r \in now, b \in base : b.value > 0 /\ Exceeds(r.value, b.value),
               now # {}, base # {}, Cardinality(last) >= MinRequests
        PROVE  Regression
    <3>1. Requests >= MinRequests
      BY <2>3, <2>5, <2>9
    <3> QED
      BY <2>6, <2>7, <2>8, <2>9, <3>1 DEF Regression
  <2>10. ASSUME \A r \in now, b \in base : ~Exceeds(r.value, b.value), Regression
         PROVE  FALSE
    BY <2>6, <2>7, <2>8, <2>10 DEF Regression
  <2>11. ASSUME Cardinality(last) < MinRequests, \A r \in records : r.ts <= clock, Regression
         PROVE  FALSE
    BY <2>3, <2>4, <2>5, <2>11 DEF Regression
  <2> QED
    BY <2>9, <2>10, <2>11 DEF SlowdownSeen, now, base, last
<1> QED
  BY <1>1, TableCorrect, PTL

-----------------------------------------------------------------------------
(* Retention.                                                              *)

(* prune() takes nothing that a window reaches.                            *)
LEMMA PruneLemma ==
  ASSUME TableInv, Prune
  PROVE  /\ Sample(Window, 0)' = Sample(Window, 0)
         /\ Sample(Baseline, Window)' = Sample(Baseline, Window)
         /\ Summarised' = Summarised
<1>1. /\ clock' = clock /\ records' = {r \in records : r.ts >= clock - Retention}
      /\ clock \in Nat /\ \A r \in records : r.ts \in Int
  BY DEF Prune, TableInv, RecordSet
<1>2. Window \in Nat /\ Baseline \in Nat /\ Retention \in Nat /\ Window + Baseline <= Retention
  BY RulesAssumption
<1>3. \A r \in records : r.ts >= clock - Baseline - Window => r.ts >= clock - Retention
  BY <1>1, <1>2
<1>4. \A r \in records : r.ts >= clock - Window - 0 => r.ts >= clock - Baseline - Window
  BY <1>1, <1>2
<1>5. Sample(Baseline, Window)' = Sample(Baseline, Window)
  BY <1>1, <1>3 DEF Sample
<1>6. Sample(Window, 0)' = Sample(Window, 0)
  BY <1>1, <1>3, <1>4 DEF Sample
<1>7. Summarised' = Summarised
  BY <1>1, <1>2, <1>3, <1>4 DEF Summarised
<1> QED
  BY <1>5, <1>6, <1>7

(* A retention that covers both windows never changes a verdict.           *)
THEOREM PruneIsUnseen == Spec => PruneKeepsVerdicts
<1> DEFINE A == Prune => (Regression' <=> Regression) /\ (TooManyErrors' <=> TooManyErrors)
<1>1. TableInv /\ [Next]_vars => [A]_vars
  <2> SUFFICES ASSUME TableInv, Prune
               PROVE  (Regression' <=> Regression) /\ (TooManyErrors' <=> TooManyErrors)
    OBVIOUS
  <2>1. /\ Sample(Window, 0)' = Sample(Window, 0)
        /\ Sample(Baseline, Window)' = Sample(Baseline, Window)
        /\ Summarised' = Summarised
    BY PruneLemma
  <2>2. Recent' = Recent /\ Before' = Before
    BY <2>1 DEF Recent, Before
  <2>3. Requests' = Requests /\ Errors' = Errors
    BY <2>1 DEF Requests, Errors
  <2> QED
    BY <2>2, <2>3 DEF Regression, TooManyErrors, Exceeds
<1>2. [][A]_vars => PruneKeepsVerdicts
  BY DEF PruneKeepsVerdicts
<1> HIDE DEF A
<1> QED
  BY <1>1, <1>2, TableCorrect, PTL DEF Spec

-----------------------------------------------------------------------------
(* The rows of the comparison.                                             *)

Row(T, c) == {r \in T : ClusterOf[r.id] = c}
Rows(T, D) == {r \in T : ClusterOf[r.id] \in D}

(* What is counted of a sample, against its size, for weights a and b.      *)
Weight(T, X, a, b) == a * Cardinality(T \cap X) + b * Cardinality(T)

LEMMA WeightAdds ==
  ASSUME NEW T, IsFiniteSet(T), NEW U, IsFiniteSet(U), T \cap U = {},
         NEW X, NEW a \in Int, NEW b \in Int
  PROVE  /\ Weight(T \cup U, X, a, b) = Weight(T, X, a, b) + Weight(U, X, a, b)
         /\ Weight(T, X, a, b) \in Int
         /\ Cardinality(T \cup U) = Cardinality(T) + Cardinality(U)
<1>1. ASSUME NEW A, IsFiniteSet(A), NEW B, IsFiniteSet(B), A \cap B = {}
      PROVE  Cardinality(A \cup B) = Cardinality(A) + Cardinality(B)
  <2>1. Cardinality(A \cap B) = 0 /\ Cardinality(A) \in Nat /\ Cardinality(B) \in Nat
    BY <1>1, FS_EmptySet, FS_CardinalityType
  <2>2. Cardinality(A \cup B) = Cardinality(A) + Cardinality(B) - Cardinality(A \cap B)
    BY <1>1, FS_Union
  <2> QED
    BY <2>1, <2>2
<1>2. /\ IsFiniteSet(T \cap X) /\ IsFiniteSet(U \cap X)
      /\ (T \cap X) \cap (U \cap X) = {} /\ (T \cup U) \cap X = (T \cap X) \cup (U \cap X)
  BY FS_Intersection
<1>3. PICK t \in Nat, u \in Nat, tx \in Nat, ux \in Nat :
        /\ t = Cardinality(T) /\ u = Cardinality(U)
        /\ tx = Cardinality(T \cap X) /\ ux = Cardinality(U \cap X)
  BY <1>2, FS_CardinalityType
<1>4. Cardinality(T \cup U) = t + u /\ Cardinality((T \cup U) \cap X) = tx + ux
  BY <1>1, <1>2, <1>3
<1>5. a * (tx + ux) + b * (t + u) = (a * tx + b * t) + (a * ux + b * u)
  OBVIOUS
<1> QED
  BY <1>3, <1>4, <1>5 DEF Weight

(* What is so of every row is so of the whole: a union of rows without it   *)
(* that has the fewest records would leave a smaller one, one row less.    *)
LEMMA RowsAddUp ==
  ASSUME NEW T, IsFiniteSet(T), T # {}, NEW X, NEW a \in Int, NEW b \in Int, NEW e \in {0, 1},
         \A c : Row(T, c) # {} => Weight(Row(T, c), X, a, b) >= e
  PROVE  Weight(T, X, a, b) >= e
<1> DEFINE All == {ClusterOf[r.id] : r \in T}
           Bad == {D \in SUBSET All : Rows(T, D) # {} /\ ~(Weight(Rows(T, D), X, a, b) >= e)}
           Sizes == {Cardinality(Rows(T, D)) : D \in Bad}
<1>1. \A D : IsFiniteSet(Rows(T, D)) /\ Cardinality(Rows(T, D)) \in Nat
  <2> TAKE D
  <2>1. Rows(T, D) \in SUBSET T
    BY DEF Rows
  <2> QED
    BY <2>1, FS_Subset, FS_CardinalityType
<1>2. Sizes \in SUBSET Nat
  BY <1>1
<1>3. ASSUME Bad # {} PROVE FALSE
  <2>1. PICK n \in Sizes : \A m \in Sizes : n <= m
    <3>1. Sizes # {}
      BY <1>3
    <3> HIDE DEF Sizes
    <3> QED
      BY <1>2, <3>1, Least
  <2>2. PICK D \in Bad : n = Cardinality(Rows(T, D))
    BY <2>1
  <2>3. PICK r \in Rows(T, D) : TRUE
    BY <2>2
  <2> DEFINE c == ClusterOf[r.id]
             rest == D \ {c}
  <2>4. c \in D /\ r \in Row(T, c) /\ rest \in SUBSET All
    BY <2>2, <2>3 DEF Rows, Row
  <2>5. /\ Rows(T, D) = Row(T, c) \cup Rows(T, rest)
        /\ Row(T, c) \cap Rows(T, rest) = {}
        /\ Row(T, c) = Rows(T, {c})
    BY <2>4 DEF Rows, Row
  <2>6. /\ IsFiniteSet(Row(T, c)) /\ IsFiniteSet(Rows(T, rest))
        /\ Cardinality(Row(T, c)) \in Nat /\ Cardinality(Rows(T, rest)) \in Nat
        /\ Cardinality(Row(T, c)) # 0
    BY <1>1, <2>4, <2>5, FS_EmptySet
  <2> HIDE DEF c, rest, All
  <2>7. /\ Weight(Rows(T, D), X, a, b) = Weight(Row(T, c), X, a, b) + Weight(Rows(T, rest), X, a, b)
        /\ Weight(Row(T, c), X, a, b) \in Int
        /\ Cardinality(Rows(T, D)) = Cardinality(Row(T, c)) + Cardinality(Rows(T, rest))
    <3>1. PICK A, B : A = Row(T, c) /\ B = Rows(T, rest)
      OBVIOUS
    <3>2. IsFiniteSet(A) /\ IsFiniteSet(B) /\ A \cap B = {} /\ Rows(T, D) = A \cup B
      BY <2>5, <2>6, <3>1
    <3>3. /\ Weight(A \cup B, X, a, b) = Weight(A, X, a, b) + Weight(B, X, a, b)
          /\ Weight(A, X, a, b) \in Int
          /\ Cardinality(A \cup B) = Cardinality(A) + Cardinality(B)
      BY <3>2, WeightAdds
    <3> QED
      BY <3>1, <3>2, <3>3
  <2>8. Weight(Rows(T, rest), X, a, b) \in Int
    <3>1. PICK A, B : A = Rows(T, rest) /\ B = Row(T, c)
      OBVIOUS
    <3>2. IsFiniteSet(A) /\ IsFiniteSet(B) /\ A \cap B = {}
      BY <2>5, <2>6, <3>1
    <3>3. Weight(A, X, a, b) \in Int
      BY <3>2, WeightAdds
    <3> QED
      BY <3>1, <3>3
  <2>9. Weight(Row(T, c), X, a, b) >= e
    BY <2>6, FS_EmptySet
  <2>10. ~(Weight(Rows(T, D), X, a, b) >= e)
    BY <2>2
  <2>11. CASE Rows(T, rest) = {}
    <3>1. Rows(T, D) = Row(T, c)
      BY <2>5, <2>11
    <3> QED
      BY <2>9, <2>10, <3>1
  <2>12. CASE Rows(T, rest) # {}
    <3>1. ~(Weight(Rows(T, rest), X, a, b) >= e)
      BY <2>7, <2>8, <2>9, <2>10
    <3>2. rest \in Bad
      BY <2>4, <2>12, <3>1
    <3>3. n <= Cardinality(Rows(T, rest))
      BY <2>1, <3>2
    <3> QED
      BY <2>2, <2>6, <2>7, <3>3
  <2> QED
    BY <2>11, <2>12
<1>4. Rows(T, All) = T
  BY DEF Rows
<1> QED
  BY <1>3, <1>4

(* If every row's percentile is above a number, that number is below the    *)
(* percentile of the whole; and conversely.                                *)
LEMMA RowsAbove ==
  ASSUME NEW T, IsSample(T), T # {}, \A c : Row(T, c) # {} => Percentile(Row(T, c)) > Percentile(T)
  PROVE  FALSE
<1> DEFINE v == Percentile(T)
           X == AtMost(T, v)
<1>1. PICK n \in Nat, p \in Nat, q \in Nat, x \in Nat :
        n = Cardinality(T) /\ p = P.num /\ q = P.den /\ x = Cardinality(X) /\ n > 0 /\ x <= n
  BY Counts, RulesAssumption DEF Fractions
<1>2. /\ v \in Nat /\ Offset(n) \in Nat /\ Offset(n) + 1 <= x
      /\ p < q => p * n < q * (Offset(n) + 1)
      /\ p = q => Offset(n) = n - 1
      /\ p <= q
  <2>1. v \in Nat /\ Offset(n) < x
    BY <1>1, PercentileLemma
  <2>2. /\ Offset(n) \in Nat
        /\ p < q => p * n < q * (Offset(n) + 1)
        /\ p = q => Offset(n) = n - 1
    BY <1>1, OffsetLemma
  <2>3. p <= q
    BY <1>1, RulesAssumption
  <2> QED
    BY <1>1, <2>1, <2>2, <2>3
<1>3. ASSUME NEW c, Row(T, c) # {}
      PROVE  /\ IsSample(Row(T, c))
             /\ \E r \in Row(T, c) : r.value > v
             /\ Weight(Row(T, c), X, -q, p) >= 0
  <2> DEFINE W == Row(T, c)
             w == Percentile(W)
  <2>1. W \in SUBSET T /\ IsSample(W)
    <3>1. W \in SUBSET T
      BY DEF Row
    <3> QED
      BY <3>1, FS_Subset DEF IsSample
  <2>2. w > v /\ w \in Nat /\ w \in {r.value : r \in W}
    BY <1>3, <2>1, PercentileLemma
  <2>3. W \cap X \in SUBSET Below(W, w)
    BY <1>2, <2>1, <2>2 DEF AtMost, Below, IsSample
  <2>4. PICK m \in Nat, i \in Nat, j \in Nat :
          m = Cardinality(W) /\ i = Cardinality(W \cap X) /\ j = Cardinality(Below(W, w)) /\ i <= j
    <3>1. /\ Cardinality(W) \in Nat
          /\ IsFiniteSet(Below(W, w)) /\ Cardinality(Below(W, w)) \in Nat
      BY <2>1, Counts
    <3> QED
      BY <2>3, <3>1, FS_Subset, FS_CardinalityType
  <2>5. q * j <= p * m
    BY <1>1, <1>3, <2>1, <2>4, RankLemma
  <2>6. (-q) * i + p * m >= 0
    <3>1. q * i <= q * j
      BY <2>4
    <3> QED
      BY <2>5, <3>1
  <2> QED
    BY <2>1, <2>2, <2>4, <2>6 DEF Weight
<1>4. CASE p < q
  <2>1. Weight(T, X, -q, p) >= 0
    BY <1>1, <1>3, RowsAddUp DEF IsSample
  <2>2. T \cap X = X
    BY DEF AtMost
  <2>3. (-q) * x + p * n >= 0
    BY <1>1, <2>1, <2>2 DEF Weight
  <2>4. q * (Offset(n) + 1) <= q * x
    BY <1>2
  <2> QED
    BY <1>2, <1>4, <2>3, <2>4
<1>5. CASE p = q
  <2>1. x = n
    BY <1>1, <1>2, <1>5
  <2>2. X = T
    BY <1>1, <2>1, FS_Subset DEF AtMost, IsSample
  <2>3. PICK r \in T : TRUE
    OBVIOUS
  <2>4. Row(T, ClusterOf[r.id]) # {}
    BY DEF Row
  <2>5. PICK s \in T : s.value > v
    BY <1>3, <2>4 DEF Row
  <2> QED
    BY <1>2, <2>2, <2>5 DEF AtMost, IsSample
<1> QED
  BY <1>2, <1>4, <1>5

LEMMA RowsBelow ==
  ASSUME NEW T, IsSample(T), T # {}, \A c : Row(T, c) # {} => Percentile(Row(T, c)) < Percentile(T)
  PROVE  FALSE
<1> DEFINE v == Percentile(T)
           X == Below(T, v)
<1>1. PICK n \in Nat, p \in Nat, q \in Nat, x \in Nat :
        n = Cardinality(T) /\ p = P.num /\ q = P.den /\ x = Cardinality(X) /\ n > 0 /\ x <= n
  BY Counts, RulesAssumption DEF Fractions
<1>2. /\ v \in Nat /\ Offset(n) \in Nat /\ x <= Offset(n)
      /\ q * x <= p * n /\ p <= q
      /\ p = q => Offset(n) = n - 1
  BY <1>1, PercentileLemma, RankLemma, OffsetLemma, RulesAssumption
<1>3. ASSUME NEW c, Row(T, c) # {}
      PROVE  /\ p < q => Weight(Row(T, c), X, q, -p) >= 1
             /\ p = q => \A r \in Row(T, c) : r.value < v
  <2> DEFINE W == Row(T, c)
             w == Percentile(W)
  <2>1. W \in SUBSET T /\ IsSample(W)
    <3>1. W \in SUBSET T
      BY DEF Row
    <3> QED
      BY <3>1, FS_Subset DEF IsSample
  <2>2. w < v /\ w \in Nat
    BY <1>3, <2>1, PercentileLemma
  <2>3. AtMost(W, w) \in SUBSET (W \cap X) /\ AtMost(W, w) \in SUBSET W
    BY <1>2, <2>1, <2>2 DEF AtMost, Below, IsSample
  <2>4. PICK m \in Nat, i \in Nat, j \in Nat :
          /\ m = Cardinality(W) /\ i = Cardinality(W \cap X) /\ j = Cardinality(AtMost(W, w))
          /\ j <= i /\ j <= m /\ m > 0
    <3>1. /\ Cardinality(W) \in Nat /\ Cardinality(W) > 0 /\ IsFiniteSet(W)
          /\ Cardinality(AtMost(W, w)) \in Nat /\ Cardinality(AtMost(W, w)) <= Cardinality(W)
      BY <1>3, <2>1, Counts
    <3>2. IsFiniteSet(W \cap X)
      BY <3>1, FS_Intersection
    <3> QED
      BY <2>3, <3>1, <3>2, FS_Subset, FS_CardinalityType
  <2>5. /\ Offset(m) \in Nat /\ Offset(m) + 1 <= j
        /\ p < q => p * m < q * (Offset(m) + 1)
        /\ p = q => Offset(m) = m - 1
    BY <1>1, <1>3, <2>1, <2>4, PercentileLemma, OffsetLemma
  <2>6. ASSUME p < q PROVE q * i + (-p) * m >= 1
    <3>1. q * (Offset(m) + 1) <= q * i
      BY <2>4, <2>5
    <3> QED
      BY <2>5, <2>6, <3>1
  <2>7. ASSUME p = q PROVE \A r \in W : r.value < v
    <3>1. j = m
      BY <2>4, <2>5, <2>7
    <3>2. AtMost(W, w) = W
      BY <2>1, <2>3, <2>4, <3>1, FS_Subset DEF IsSample
    <3> QED
      BY <1>2, <2>1, <2>2, <3>2 DEF AtMost, IsSample
  <2> QED
    BY <2>4, <2>6, <2>7 DEF Weight
<1>4. CASE p < q
  <2>1. Weight(T, X, q, -p) >= 1
    BY <1>1, <1>3, <1>4, RowsAddUp DEF IsSample
  <2>2. T \cap X = X
    BY DEF Below
  <2>3. q * x + (-p) * n >= 1
    BY <1>1, <2>1, <2>2 DEF Weight
  <2> QED
    BY <1>2, <2>3
<1>5. CASE p = q
  <2>1. \A r \in T : r.value < v
    BY <1>3, <1>5 DEF Row
  <2>2. X = T
    BY <2>1 DEF Below
  <2> QED
    BY <1>1, <1>2, <1>5, <2>2
<1> QED
  BY <1>2, <1>4, <1>5

(* The summary lies among the rows of the comparison, for any number of     *)
(* clusters of any sizes, the cluster "" included.                         *)
THEOREM SummaryIsAmongRows == Spec => []SummaryAmongRows
<1>1. TableInv => SummaryAmongRows
  <2> SUFFICES ASSUME TableInv, Recent # Null
               PROVE  LET rows == {Percentile(RowSample(c)) : c \in Compared} \ {Null} IN
                        /\ \E v \in rows : v <= Recent
                        /\ \E v \in rows : v >= Recent
    BY DEF SummaryAmongRows
  <2> DEFINE now == Sample(Window, 0)
             rows == {Percentile(RowSample(c)) : c \in Compared} \ {Null}
  <2>1. IsSample(now) /\ Recent = Percentile(now) /\ now # {}
    BY SampleLemma, NullLemma DEF Recent
  <2>2. Recent \in Nat
    BY <2>1, PercentileLemma
  <2>3. \A r \in now : ClusterOf[r.id] \in Compared
    <3>1. \A r \in now : r \in Summarised
      BY RulesAssumption DEF Sample, Summarised, TableInv, RecordSet
    <3> QED
      BY <3>1 DEF Compared
  <2>4. CASE "" \in Compared
    <3>1. RowSample("") = now
      BY DEF RowSample
    <3>2. Recent \in rows
      BY <2>1, <2>4, <3>1
    <3> QED
      BY <2>2, <3>2
  <2>5. CASE "" \notin Compared
    <3>1. \A c \in Compared : RowSample(c) = Row(now, c)
      BY <2>5 DEF RowSample, Row
    <3> HIDE DEF now
    <3>2. ASSUME NEW c, Row(now, c) # {}
          PROVE  Percentile(Row(now, c)) \in rows /\ Percentile(Row(now, c)) \in Nat
      <4>1. c \in Compared
        BY <2>3, <3>2 DEF Row
      <4>2. IsSample(Row(now, c))
        <5>1. Row(now, c) \in SUBSET now
          BY DEF Row
        <5> QED
          BY <2>1, <5>1, FS_Subset DEF IsSample
      <4>3. Percentile(Row(now, c)) \in Nat
        BY <3>2, <4>2, PercentileLemma
      <4> QED
        BY <3>1, <4>1, <4>3 DEF Null
    <3> HIDE DEF rows
    <3>3. \E v \in rows : v <= Recent
      <4> SUFFICES ASSUME \A v \in rows : ~(v <= Recent) PROVE FALSE
        OBVIOUS
      <4>1. \A c : Row(now, c) # {} => Percentile(Row(now, c)) > Percentile(now)
        BY <2>1, <2>2, <3>2
      <4> QED
        BY <2>1, <4>1, RowsAbove
    <3>4. \E v \in rows : v >= Recent
      <4> SUFFICES ASSUME \A v \in rows : ~(v >= Recent) PROVE FALSE
        OBVIOUS
      <4>1. \A c : Row(now, c) # {} => Percentile(Row(now, c)) < Percentile(now)
        BY <2>1, <2>2, <3>2
      <4> QED
        BY <2>1, <4>1, RowsBelow
    <3> QED
      BY <3>3, <3>4 DEF rows
  <2> QED
    BY <2>4, <2>5
<1> QED
  BY <1>1, TableCorrect, PTL
=============================================================================
