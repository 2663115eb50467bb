------------------------------ MODULE AlertRules ------------------------------
(***************************************************************************)
(* The rules computed from stored records: percentile(), summary() and      *)
(* prune() of MetricStore (hosted/storage.py), _check_p99_regression() and *)
(* _check_error_rate() of AlertEngine (hosted/alerting.py); with them      *)
(* model_comparison(), which the dashboard shows beside summary().         *)
(*                                                                         *)
(* One tenant (every query names its tenant) and one latency column: TTFT   *)
(* and E2E are checked alike.  A sidecar stamps its records, so they can   *)
(* arrive late, and early by the skew of its clock.  Probabilities and     *)
(* ratios are fractions.                                                   *)
(***************************************************************************)
EXTENDS Integers, FiniteSets

CONSTANTS
  Values,       \* latencies
  ClusterOf,    \* ClusterOf[n]: the cluster that the n-th record names; "" is one
  P,            \* the percentile, [num, den] (0.99)
  Threshold,    \* 1 + regression_threshold, [num, den]
  ErrorRate,    \* error_rate_threshold, [num, den]
  Window,       \* regression_window_seconds
  Baseline,     \* baseline_window_seconds
  MinRequests,  \* min_requests
  Retention,    \* RETENTION_SECONDS
  MaxSkew,      \* bound of the model on a sidecar's clock running ahead
  MaxClock,     \* bound of the model on time
  MaxRecords    \* bound of the model on the number of records

Fractions == [num : Nat, den : Nat \ {0}]

ASSUME RulesAssumption ==
  /\ Values \subseteq Nat
  /\ ClusterOf \in [1 .. MaxRecords -> STRING]
  /\ {P, Threshold, ErrorRate} \subseteq Fractions /\ P.num <= P.den
  /\ {Window, Baseline, MinRequests, Retention, MaxSkew, MaxClock, MaxRecords} \subseteq Nat
  /\ Window + Baseline <= Retention

VARIABLES
  clock,        \* time.time()
  records,      \* table records; id is the row's
  inserted      \* rows inserted so far

vars == <<clock, records, inserted>>

Null == -1      \* a request without a first token has no TTFT

Init == clock = 0 /\ records = {} /\ inserted = 0

(* Plausible bugs of the definitions below, none of them part of the        *)
(* specification: prune() keeps one window only, the offset is one short,  *)
(* a missing baseline is not looked at, the rows of the comparison forget  *)
(* the window.                                                             *)
Insert ==
  /\ inserted < MaxRecords
  /\ inserted' = inserted + 1
  /\ \E ts \in 0 .. clock + MaxSkew, value \in Values \cup {Null}, ok \in BOOLEAN :
       records' = records \cup {[id |-> inserted + 1, ts |-> ts, value |-> value, ok |-> ok]}
  /\ UNCHANGED clock

Tick ==
  /\ clock < MaxClock
  /\ clock' = clock + 1
  /\ UNCHANGED <<records, inserted>>

PruneWindow ==
  /\ records' = {r \in records : r.ts >= clock - Window}
  /\ UNCHANGED <<clock, inserted>>

Prune ==
  /\ records' = {r \in records : r.ts >= clock - Retention}
  /\ UNCHANGED <<clock, inserted>>

Next == Insert \/ Tick \/ Prune

Spec == Init /\ [][Next]_vars

-----------------------------------------------------------------------------
(* The queries.                                                            *)

(* The rows of percentile(): the window of `since` that ended `before` ago. *)
Sample(since, before) ==
  {r \in records : r.value # Null /\ r.ts >= clock - since - before /\ r.ts <= clock - before}

OffsetShort(n) == LET k == (n * P.num) \div P.den IN IF k > 0 THEN k - 1 ELSE 0

Offset(n) == LET k == (n * P.num) \div P.den IN IF k < n THEN k ELSE n - 1

(* ORDER BY value LIMIT 1 OFFSET Offset(n).                                *)
Percentile(sample) ==
  IF sample = {} THEN Null
  ELSE CHOOSE v \in {r.value : r \in sample} :
         /\ Cardinality({r \in sample : r.value < v}) <= Offset(Cardinality(sample))
         /\ Offset(Cardinality(sample)) < Cardinality({r \in sample : r.value <= v})

(* summary(): its window has no upper end.                                 *)
Summarised == {r \in records : r.ts >= clock - Window}
Requests == Cardinality(Summarised)
Errors == Cardinality({r \in Summarised : ~r.ok})

(* model_comparison(): a row for each cluster with records in the window,    *)
(* its percentile over those that the filter of percentile() leaves; the   *)
(* filter takes the name "" for no filter.  Models are like clusters.      *)
Compared == {ClusterOf[r.id] : r \in Summarised}

RowSampleOfAllTime(c) ==
  {r \in records : r.value # Null /\ (c = "" \/ ClusterOf[r.id] = c)}

RowSample(c) == {r \in Sample(Window, 0) : c = "" \/ ClusterOf[r.id] = c}

-----------------------------------------------------------------------------
(* The rules.                                                              *)

Recent == Percentile(Sample(Window, 0))
Before == Percentile(Sample(Baseline, Window))

Exceeds(recent, before) == recent * Threshold.den > before * Threshold.num

RegressionOfAny ==
  /\ Recent # Null
  /\ Requests >= MinRequests
  /\ Exceeds(Recent, Before)

Regression ==
  /\ Recent # Null /\ Before # Null /\ Before > 0
  /\ Requests >= MinRequests
  /\ Exceeds(Recent, Before)

TooManyErrors ==
  /\ Requests >= MinRequests
  /\ IF Requests = 0 THEN ErrorRate.num = 0
     ELSE Errors * ErrorRate.den >= ErrorRate.num * Requests

-----------------------------------------------------------------------------
(* Properties.                                                             *)

(* "Percentiles are exact": at least the share P of the sample is at most    *)
(* the percentile, and no more than that share is below it, for a sample   *)
(* of any size and with ties.                                              *)
PercentileIsRank ==
  \A window \in {<<Window, 0>>, <<Baseline, Window>>} :
    LET sample == Sample(window[1], window[2])
        n == Cardinality(sample)
        v == Percentile(sample)
    IN  sample # {} =>
          /\ v \in {r.value : r \in sample}
          /\ P.den * Cardinality({r \in sample : r.value <= v}) >= P.num * n
          /\ P.den * Cardinality({r \in sample : r.value < v}) <= P.num * n

(* A slowdown of every request is seen: with a baseline, and min_requests    *)
(* in the last window, the rule fires if all recent latencies exceed all   *)
(* of the baseline's by the threshold; it is quiet if none does, and on    *)
(* fewer requests.  The last is said of tables without a record from a     *)
(* clock that is ahead: summary() counts such a record at once, whereas    *)
(* percentile() does not look at it before its time.                       *)
SlowdownSeen ==
  LET now == Sample(Window, 0)
      base == Sample(Baseline, Window)
      served == Cardinality({r \in records : clock - Window <= r.ts /\ r.ts <= clock})
  IN  /\ (/\ now # {} /\ base # {} /\ served >= MinRequests
          /\ \A r \in now, b \in base : b.value > 0 /\ Exceeds(r.value, b.value))
         => Regression
      /\ (\A r \in now, b \in base : ~Exceeds(r.value, b.value)) => ~Regression
      /\ served < MinRequests /\ (\A r \in records : r.ts <= clock) => ~Regression

(* The readout and the table of the dashboard agree: the percentile of the   *)
(* summary lies between those of the rows of the comparison, whatever the  *)
(* sizes of the clusters, and although records stamped in the future make  *)
(* rows that have no percentile.                                           *)
SummaryAmongRows ==
  LET rows == {Percentile(RowSample(c)) : c \in Compared} \ {Null} IN
  Recent # Null => /\ \E v \in rows : v <= Recent
                   /\ \E v \in rows : v >= Recent

(* Retention does not change what the rules say: prune() takes no record     *)
(* that a window still reaches.                                            *)
PruneKeepsVerdicts ==
  [][Prune => (Regression' <=> Regression) /\ (TooManyErrors' <=> TooManyErrors)]_vars
=============================================================================
