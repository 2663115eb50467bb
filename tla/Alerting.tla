------------------------------- MODULE Alerting -------------------------------
(***************************************************************************)
(* Alerts of the hosted tier: AlertEngine and evaluation_loop() of         *)
(* hosted/alerting.py, the alert_events table of hosted/storage.py and the *)
(* engine snapshots, retention and restart of hosted/ingest.py.            *)
(*                                                                         *)
(* One task goes through the tenants round after round.  Ingest, pruning    *)
(* and the passing of time happen at its awaits; the steps of the task     *)
(* between two awaits are separate here, which only adds interleavings.    *)
(* Whether the records of a tenant breach a rule that is computed from      *)
(* them (p99, error rate) is input; the KV-cache rule is modelled from its *)
(* snapshots.                                                              *)
(***************************************************************************)
EXTENDS Integers, Sequences, FiniteSetsExt

CONSTANTS
  Tenants,      \* the number of tenants, served in the order of their rows
  Rules,        \* the rules, in the order evaluate_tenant() checks them
  Channels,     \* the configured channels, a subset of {"slack", "pagerduty"}
  Cooldown,     \* cooldown_seconds
  Retention,    \* RETENTION_SECONDS, of alert events too
  Serving,      \* the tenants whose sidecars ship request records
  Scraping,     \* the tenants whose sidecars ship engine snapshots
  Fresh,        \* 300: age at which an engine snapshot is no longer believed
  MaxClock,     \* bound of the model on time
  MaxFailures   \* bound of the model on exceptions and restarts

KvRule == "kv_cache_pressure"

(* prune() deletes the alert events the cooldown is read from: a retention  *)
(* shorter than the cooldown would end cooldowns early.  The defaults are  *)
(* 14 days and 15 minutes.                                                 *)
ASSUME AlertingAssumption ==
  /\ Tenants \in Nat
  /\ Rules \in Seq(STRING)
  /\ Channels \subseteq {"slack", "pagerduty"}
  /\ Cooldown \in Nat \ {0}
  /\ Retention \in Nat /\ Cooldown <= Retention
  /\ Fresh \in Nat
  /\ MaxClock \in Nat /\ MaxFailures \in Nat

VARIABLES
  clock,        \* time.time()
  breached,     \* breached[t]: the rate rules that the records of t breach
  snapshot,     \* _engine_state: high (usage at or above the limit) and ts; in memory
  events,       \* table alert_events
  loop,         \* the task: "asleep", "round", awaiting a channel, or "recording"
  turn,         \* the tenant evaluated last in this round
  alerts,       \* the alerts of that tenant still to deliver, in the order of their
                \* rules, by their positions there; the first is being sent
  attempt,      \* history: pages of the current alert, not recorded yet
  pages,        \* history: all pages that reached a channel
  lost,         \* history: pages whose alert was never recorded
  recorded,     \* history: all alert events, pruned ones too
  failures      \* exceptions and restarts so far

task == <<loop, turn, alerts>>
input == <<breached, snapshot>>
history == <<pages, lost, recorded>>
vars == <<clock, input, events, task, attempt, history, failures>>

TenantSet == 1 .. Tenants
RuleSet == {Rules[i] : i \in DOMAIN Rules}
NoSnapshot == [high |-> FALSE, ts |-> -1]

Init ==
  /\ clock = 0
  /\ breached = [t \in TenantSet |-> {}]
  /\ snapshot = [t \in TenantSet |-> NoSnapshot]
  /\ events = {}
  /\ loop = "asleep" /\ turn = 0 /\ alerts = {}
  /\ attempt = {} /\ pages = {} /\ lost = {} /\ recorded = {}
  /\ failures = 0

-----------------------------------------------------------------------------
(* What the loop looks at, and what changes it.                            *)

Tick ==
  /\ clock < MaxClock
  /\ clock' = clock + 1
  /\ UNCHANGED <<input, events, task, attempt, history, failures>>

(* Records of t come in or leave the windows.                              *)
RecordsChange(t) ==
  /\ t \in Serving
  /\ \E rules \in SUBSET (RuleSet \ {KvRule}) :
       /\ rules # breached[t]
       /\ breached' = [breached EXCEPT ![t] = rules]
  /\ UNCHANGED <<clock, snapshot, events, task, attempt, history, failures>>

(* POST /v1/ingest/engine-state: the latest snapshot of a tenant wins.      *)
UpdateEngineState(t) ==
  /\ t \in Scraping
  /\ \E high \in BOOLEAN : snapshot' = [snapshot EXCEPT ![t] = [high |-> high, ts |-> clock]]
  /\ UNCHANGED <<clock, breached, events, task, attempt, history, failures>>

(* Plausible bugs, none of them part of the specification: PruneYoung here,  *)
(* which deletes events still cooling down; CoolingForgetful, a cooldown   *)
(* one unit short; RaiseKillsLoop, an exception the loop does not catch.   *)
PruneYoung ==
  /\ events' = {e \in events : clock - e.ts < Cooldown - 1}
  /\ UNCHANGED <<clock, input, task, attempt, history, failures>>

(* store.prune(), of which the alert events matter here.                   *)
Prune ==
  /\ events' = {e \in events : e.ts >= clock - Retention}
  /\ UNCHANGED <<clock, input, task, attempt, history, failures>>

-----------------------------------------------------------------------------
(* A round of evaluation_loop().                                           *)

KvPressure(t) == snapshot[t] # NoSnapshot /\ clock - snapshot[t].ts <= Fresh /\ snapshot[t].high

Incident(t, rule) == IF rule = KvRule THEN KvPressure(t) ELSE rule \in breached[t]

(* evaluate_tenant().                                                      *)
AlertsOf(t) == {i \in DOMAIN Rules : Incident(t, Rules[i])}

First(pending) == Rules[Min(pending)]
Others(pending) == pending \ {Min(pending)}

Evaluate ==
  /\ loop \in {"asleep", "round"}
  /\ loop = "asleep" \/ alerts = {}
  /\ LET last == IF loop = "asleep" THEN 0 ELSE turn IN
       /\ last < Tenants
       /\ turn' = last + 1
       /\ alerts' = AlertsOf(last + 1)
  /\ loop' = "round"
  /\ UNCHANGED <<clock, input, events, attempt, history, failures>>

EndRound ==
  /\ loop = "round" /\ alerts = {} /\ turn = Tenants
  /\ loop' = "asleep"
  /\ UNCHANGED <<clock, input, events, turn, alerts, attempt, history, failures>>

CoolingForgetful(t, rule) ==
  \E e \in events : e.tenant = t /\ e.rule = rule /\ clock - e.ts < Cooldown - 1

(* The time since last_alert_ts() is below the cooldown.  (For an alert      *)
(* that was never raised, last_alert_ts() is the epoch.)                   *)
Cooling(t, rule) ==
  \E e \in events : e.tenant = t /\ e.rule = rule /\ clock - e.ts < Cooldown

Skip ==
  /\ loop = "round" /\ alerts # {}
  /\ Cooling(turn, First(alerts))
  /\ alerts' = Others(alerts)
  /\ UNCHANGED <<clock, input, events, loop, turn, attempt, history, failures>>

AfterSlack == IF "pagerduty" \in Channels THEN "pagerduty" ELSE "recording"

(* The first alert is not cooling down: deliver() sends it.                *)
Deliver ==
  /\ loop = "round" /\ alerts # {}
  /\ ~Cooling(turn, First(alerts))
  /\ loop' = IF "slack" \in Channels THEN "slack" ELSE AfterSlack
  /\ UNCHANGED <<clock, input, events, turn, alerts, attempt, history, failures>>

Page(channel) == [tenant |-> turn, rule |-> First(alerts), channel |-> channel, ts |-> clock]

(* The POST to a channel ends, by its answer or by a timeout; either way    *)
(* the page may have gone out or not.                                      *)
Answered(channel) ==
  /\ loop = channel
  /\ loop' = IF channel = "slack" THEN AfterSlack ELSE "recording"
  /\ \E out \in SUBSET {Page(channel)} :
       /\ attempt' = attempt \cup out
       /\ pages' = pages \cup out
  /\ UNCHANGED <<clock, input, events, turn, alerts, lost, recorded, failures>>

Event == [tenant |-> turn, rule |-> First(alerts), ts |-> clock]

(* record_alert(), whether or not a channel took the page; it starts the    *)
(* cooldown.                                                               *)
RecordAlert ==
  /\ loop = "recording"
  /\ events' = events \cup {Event}
  /\ recorded' = recorded \cup {Event}
  /\ loop' = "round"
  /\ alerts' = Others(alerts)
  /\ attempt' = {}
  /\ UNCHANGED <<clock, input, turn, pages, lost, failures>>

-----------------------------------------------------------------------------
(* Failures.                                                               *)

(* The round is over; the alert being sent is forgotten, and its page may   *)
(* have gone out.                                                          *)
AbandonRound ==
  /\ failures < MaxFailures
  /\ failures' = failures + 1
  /\ loop' = "asleep" /\ turn' = 0 /\ alerts' = {}
  /\ attempt' = {}
  /\ \E out \in SUBSET (IF loop \in Channels THEN {Page(loop)} ELSE {}) :
       /\ pages' = pages \cup out
       /\ lost' = lost \cup attempt \cup out
  /\ UNCHANGED <<clock, breached, events, recorded>>

RaiseKillsLoop ==
  /\ loop # "asleep"
  /\ failures < MaxFailures
  /\ failures' = failures + 1
  /\ loop' = "dead"
  /\ UNCHANGED <<clock, input, events, turn, alerts, attempt, history>>

(* The database or a channel raises what deliver() does not catch: the      *)
(* other alerts and tenants of the round wait for the next one.            *)
Raise ==
  /\ loop # "asleep"
  /\ AbandonRound
  /\ UNCHANGED snapshot

(* The process stops and starts again with what the database holds.        *)
Restart ==
  /\ AbandonRound
  /\ snapshot' = [t \in TenantSet |-> NoSnapshot]

Round ==
  \/ Evaluate \/ EndRound \/ Skip \/ Deliver
  \/ \E channel \in Channels : Answered(channel)
  \/ RecordAlert

Environment ==
  \/ Tick \/ Prune
  \/ \E t \in TenantSet : RecordsChange(t) \/ UpdateEngineState(t)

Next == Round \/ Environment \/ Raise \/ Restart

Spec == Init /\ [][Next]_vars

(* The sleep and every POST end (10 s timeout), and the event loop resumes  *)
(* the task.                                                               *)
FairSpec == Spec /\ WF_vars(Round)

-----------------------------------------------------------------------------
(* Properties.                                                             *)

Keys == [tenant : TenantSet, rule : RuleSet, ts : 0 .. MaxClock]
Pages == [tenant : TenantSet, rule : RuleSet, channel : Channels, ts : 0 .. MaxClock]

(* The types of the variables.                                             *)
TypeOK ==
  /\ clock \in 0 .. MaxClock
  /\ breached \in [TenantSet -> SUBSET RuleSet]
  /\ snapshot \in [TenantSet -> [high : BOOLEAN, ts : -1 .. MaxClock]]
  /\ events \subseteq Keys /\ recorded \subseteq Keys
  /\ loop \in {"asleep", "round", "recording"} \cup Channels
  /\ turn \in 0 .. Tenants
  /\ alerts \subseteq DOMAIN Rules
  /\ loop \notin {"asleep", "round"} => alerts # {} /\ turn # 0
  /\ attempt \subseteq Pages /\ pages \subseteq Pages /\ lost \subseteq Pages
  /\ failures \in 0 .. MaxFailures

SameAlert(x, y) == x.tenant = y.tenant /\ x.rule = y.rule

(* "Every rule has a 15-minute per-tenant cooldown": two alerts of a rule    *)
(* and tenant are never recorded less than the cooldown apart, although    *)
(* the sending between check and record takes its time, the process may    *)
(* restart and prune() deletes events.                                     *)
CooldownKept ==
  \A e, f \in recorded : SameAlert(e, f) /\ e.ts < f.ts => f.ts - e.ts >= Cooldown

(* A page goes out again within the cooldown only if the earlier one was    *)
(* never recorded, because of an exception or a restart.                   *)
RepeatsOnlyUnrecorded ==
  \A p, q \in pages :
    /\ SameAlert(p, q) /\ p.channel = q.channel
    /\ p.ts < q.ts /\ q.ts - p.ts < Cooldown
    => p \in lost

(* Time alone ends a cooldown: no restart, retention run or alert does.     *)
CooldownEndsByTime ==
  [][\A t \in TenantSet, rule \in RuleSet :
       Cooling(t, rule) /\ clock' = clock => Cooling(t, rule)']_vars

(* An incident of any tenant, one that is not cooling down, is recorded or   *)
(* passes: neither the tenants before it nor failures keep it waiting for  *)
(* ever.                                                                   *)
IncidentIsRecorded ==
  \A t \in TenantSet, rule \in RuleSet :
    Incident(t, rule) /\ ~Cooling(t, rule) ~> Cooling(t, rule) \/ ~Incident(t, rule)
=============================================================================
