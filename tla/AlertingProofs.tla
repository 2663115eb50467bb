---------------------------- MODULE AlertingProofs ----------------------------
(***************************************************************************)
(* Proofs about Alerting: the cooldown, for any number of tenants, rules,   *)
(* failures and any cooldown and retention with Cooldown <= Retention.     *)
(***************************************************************************)
EXTENDS Alerting, WellFoundedInduction, TLAPS

Sending == loop \notin {"asleep", "round"}

(* Histories hold times that have passed.                                  *)
TimesInv ==
  /\ clock \in Nat
  /\ \A e \in recorded : e.ts \in Nat /\ e.ts <= clock
  /\ \A p \in pages : p.ts \in Nat /\ p.ts <= clock

(* What prune() took away is too old to matter.                            *)
EventsInv ==
  /\ events \subseteq recorded
  /\ \A e \in recorded : e \in events \/ e.ts < clock - Retention

(* The check at the start of deliver() still holds when the alert is        *)
(* recorded: nobody else records it.                                       *)
SendingInv ==
  Sending => \A e \in recorded :
               e.tenant = turn /\ e.rule = First(alerts) => clock - e.ts >= Cooldown

(* A page is of the alert being sent, or lost, or followed by its event.    *)
PagesInv ==
  /\ ~Sending => attempt = {}
  /\ \A p \in attempt : p.tenant = turn /\ p.rule = First(alerts)
  /\ loop = "slack" => attempt = {}
  /\ loop = "pagerduty" => \A p \in attempt : p.channel # "pagerduty"
  /\ \A p \in pages \ (attempt \cup lost) :
       \E e \in recorded : SameAlert(p, e) /\ p.ts <= e.ts

IInv ==
  /\ TimesInv /\ EventsInv /\ SendingInv /\ PagesInv
  /\ CooldownKept /\ RepeatsOnlyUnrecorded

LEMMA Constants ==
  Cooldown \in Nat /\ Cooldown > 0 /\ Retention \in Nat /\ Cooldown <= Retention
BY AlertingAssumption DEF AlertingAssumption

LEMMA InitInv == Init => IInv
BY DEF Init, IInv, TimesInv, EventsInv, SendingInv, PagesInv, Sending,
       CooldownKept, RepeatsOnlyUnrecorded

-----------------------------------------------------------------------------
LEMMA TickKeeps == IInv /\ Tick => IInv'
<1> SUFFICES ASSUME IInv, Tick PROVE IInv'
  OBVIOUS
<1>1. /\ clock' = clock + 1
      /\ UNCHANGED <<events, loop, turn, alerts, attempt, pages, lost, recorded>>
  BY DEF Tick, task, history
<1>2. TimesInv'
  BY <1>1 DEF IInv, TimesInv
<1>3. EventsInv'
  <2> SUFFICES ASSUME NEW e \in recorded PROVE e \in events \/ e.ts < clock' - Retention
    BY <1>1 DEF IInv, EventsInv
  <2> QED BY <1>1, Constants DEF IInv, TimesInv, EventsInv
<1>4. SendingInv'
  <2> SUFFICES ASSUME Sending, NEW e \in recorded, e.tenant = turn, e.rule = First(alerts)
               PROVE  clock' - e.ts >= Cooldown
    BY <1>1 DEF SendingInv, Sending
  <2> QED BY <1>1, Constants DEF IInv, TimesInv, SendingInv
<1>5. PagesInv'
  BY <1>1 DEF IInv, PagesInv, Sending, SameAlert
<1>6. (CooldownKept /\ RepeatsOnlyUnrecorded)'
  BY <1>1 DEF IInv, CooldownKept, RepeatsOnlyUnrecorded, SameAlert
<1> QED BY <1>2, <1>3, <1>4, <1>5, <1>6 DEF IInv

LEMMA PruneKeeps == IInv /\ Prune => IInv'
<1> SUFFICES ASSUME IInv, Prune PROVE IInv'
  OBVIOUS
<1>1. /\ events' = {e \in events : e.ts >= clock - Retention}
      /\ UNCHANGED <<clock, loop, turn, alerts, attempt, pages, lost, recorded>>
  BY DEF Prune, task, history
<1>2. EventsInv'
  <2>1. events' \subseteq recorded
    BY <1>1 DEF IInv, EventsInv
  <2>2. ASSUME NEW e \in recorded PROVE e \in events' \/ e.ts < clock - Retention
    <3>1. CASE e \in events
      BY <1>1, <3>1, Constants DEF IInv, TimesInv
    <3>2. CASE e \notin events
      BY <3>2 DEF IInv, EventsInv
    <3> QED BY <3>1, <3>2
  <2> QED BY <1>1, <2>1, <2>2 DEF EventsInv
<1>3. (TimesInv /\ SendingInv /\ PagesInv)'
  BY <1>1 DEF IInv, TimesInv, SendingInv, PagesInv, Sending, SameAlert
<1>4. (CooldownKept /\ RepeatsOnlyUnrecorded)'
  BY <1>1 DEF IInv, CooldownKept, RepeatsOnlyUnrecorded, SameAlert
<1> QED BY <1>2, <1>3, <1>4 DEF IInv

(* Steps outside a delivery leave every history alone.                     *)
LEMMA QuietKeeps ==
  ASSUME IInv,
         UNCHANGED <<clock, events, attempt, pages, lost, recorded>>,
         \/ UNCHANGED <<loop, turn, alerts>>
         \/ ~Sending /\ ~Sending'
  PROVE  IInv'
<1>1. (TimesInv /\ EventsInv)'
  BY DEF IInv, TimesInv, EventsInv
<1>2. (CooldownKept /\ RepeatsOnlyUnrecorded)'
  BY DEF IInv, CooldownKept, RepeatsOnlyUnrecorded, SameAlert
<1>3. (SendingInv /\ PagesInv)'
  <2>1. CASE UNCHANGED <<loop, turn, alerts>>
    BY <2>1 DEF IInv, SendingInv, PagesInv, Sending, SameAlert
  <2>2. CASE ~Sending /\ ~Sending'
    <3>1. attempt = {} /\ attempt' = {}
      BY <2>2 DEF IInv, PagesInv
    <3>2. \A p \in pages' \ (attempt' \cup lost') :
             \E e \in recorded' : SameAlert(p, e) /\ p.ts <= e.ts
      BY DEF IInv, PagesInv
    <3> QED BY <2>2, <3>1, <3>2 DEF SendingInv, PagesInv, SameAlert
  <2> QED BY <2>1, <2>2
<1> QED BY <1>1, <1>2, <1>3 DEF IInv

LEMMA DeliverKeeps == IInv /\ Deliver => IInv'
<1> SUFFICES ASSUME IInv, Deliver PROVE IInv'
  OBVIOUS
<1>1. /\ ~Sending
      /\ ~Cooling(turn, First(alerts))
      /\ UNCHANGED <<clock, events, turn, alerts, attempt, pages, lost, recorded>>
  BY DEF Deliver, Sending, history
<1>2. SendingInv'
  <2> SUFFICES ASSUME NEW e \in recorded, e.tenant = turn, e.rule = First(alerts)
               PROVE  clock - e.ts >= Cooldown
    BY <1>1 DEF SendingInv
  <2>1. CASE e \in events
    BY <1>1, <2>1, Constants DEF Cooling, IInv, TimesInv
  <2>2. CASE e.ts < clock - Retention
    BY <2>2, Constants DEF IInv, TimesInv
  <2> QED BY <2>1, <2>2 DEF IInv, EventsInv
<1>3. attempt = {}
  BY <1>1 DEF IInv, PagesInv
<1>4. PagesInv'
  BY <1>1, <1>3 DEF IInv, PagesInv, SameAlert
<1>5. (TimesInv /\ EventsInv /\ CooldownKept /\ RepeatsOnlyUnrecorded)'
  BY <1>1 DEF IInv, TimesInv, EventsInv, CooldownKept, RepeatsOnlyUnrecorded, SameAlert
<1> QED BY <1>2, <1>4, <1>5 DEF IInv

-----------------------------------------------------------------------------
(* A page that goes out now repeats only pages that are lost.              *)
LEMMA PageRepeats ==
  ASSUME IInv, NEW channel \in Channels, loop = channel,
         NEW p \in pages, SameAlert(p, Page(channel)), p.channel = channel,
         clock - p.ts < Cooldown
  PROVE  p \in lost
<1>1. p \notin attempt
  BY AlertingAssumption DEF AlertingAssumption, IInv, PagesInv
<1>2. SUFFICES ASSUME p \notin lost PROVE FALSE
  OBVIOUS
<1>3. PICK e \in recorded : SameAlert(p, e) /\ p.ts <= e.ts
  BY <1>1, <1>2 DEF IInv, PagesInv
<1>4. e.tenant = turn /\ e.rule = First(alerts)
  BY <1>3 DEF SameAlert, Page
<1>5. Sending
  BY AlertingAssumption DEF AlertingAssumption, Sending
<1>6. clock - e.ts >= Cooldown
  BY <1>4, <1>5 DEF IInv, SendingInv
<1> QED BY <1>3, <1>6, Constants DEF IInv, TimesInv

(* So the pages after a step that may send one are spaced, or lost.        *)
LEMMA PagingKeeps ==
  ASSUME IInv, NEW out,
         out = {} \/ \E channel \in Channels : loop = channel /\ out = {Page(channel)},
         pages' = pages \cup out, lost \subseteq lost'
  PROVE  RepeatsOnlyUnrecorded'
<1> SUFFICES ASSUME NEW p \in pages', NEW q \in pages',
                    SameAlert(p, q), p.channel = q.channel,
                    p.ts < q.ts, q.ts - p.ts < Cooldown
             PROVE  p \in lost
  BY DEF RepeatsOnlyUnrecorded, SameAlert
<1>1. CASE p \in pages /\ q \in pages
  BY <1>1 DEF IInv, RepeatsOnlyUnrecorded
<1>2. CASE p \in out
  <2>1. p.ts = clock
    BY <1>2 DEF Page
  <2>2. q.ts <= clock /\ q.ts \in Nat /\ clock \in Nat
    BY DEF IInv, TimesInv, Page
  <2> QED BY <2>1, <2>2
<1>3. CASE p \in pages /\ q \in out
  <2>1. PICK channel \in Channels : loop = channel /\ q = Page(channel)
    BY <1>3
  <2>2. q.ts = clock /\ q.channel = channel
    BY <2>1 DEF Page
  <2> QED BY <1>3, <2>1, <2>2, PageRepeats
<1> QED BY <1>1, <1>2, <1>3

LEMMA AnsweredKeeps == ASSUME IInv, NEW channel \in Channels, Answered(channel) PROVE IInv'
<1>1. PICK out \in SUBSET {Page(channel)} :
        attempt' = attempt \cup out /\ pages' = pages \cup out
  BY DEF Answered
<1>2. /\ loop = channel
      /\ UNCHANGED <<clock, events, turn, alerts, lost, recorded>>
      /\ loop' \in {"pagerduty", "recording"}
      /\ channel = "pagerduty" => loop' = "recording"
  BY DEF Answered, AfterSlack
<1>3. Sending /\ channel \in {"slack", "pagerduty"}
  BY <1>2, AlertingAssumption DEF AlertingAssumption, Sending
<1>4. \A p \in out : p.tenant = turn /\ p.rule = First(alerts) /\ p.channel = channel /\ p.ts = clock
  BY DEF Page
<1>5. out = {} \/ out = {Page(channel)}
  OBVIOUS
<1>6. RepeatsOnlyUnrecorded'
  BY <1>1, <1>2, <1>5, PagingKeeps
<1>7. TimesInv'
  BY <1>1, <1>2, <1>4 DEF IInv, TimesInv
<1>8. (EventsInv /\ SendingInv /\ CooldownKept)'
  BY <1>2, <1>3 DEF IInv, EventsInv, SendingInv, CooldownKept, SameAlert
<1>9. PagesInv'
  <2>1. \A p \in attempt' : p.tenant = turn' /\ p.rule = First(alerts')
    BY <1>1, <1>2, <1>4 DEF IInv, PagesInv
  <2>2. loop' = "pagerduty" => \A p \in attempt' : p.channel # "pagerduty"
    BY <1>1, <1>2, <1>3, <1>4 DEF IInv, PagesInv
  <2>3. \A p \in pages' \ (attempt' \cup lost') :
          \E e \in recorded' : SameAlert(p, e) /\ p.ts <= e.ts
    BY <1>1, <1>2 DEF IInv, PagesInv
  <2>4. Sending' /\ loop' # "slack"
    BY <1>2 DEF Sending
  <2> QED BY <2>1, <2>2, <2>3, <2>4 DEF PagesInv, SameAlert
<1> QED BY <1>6, <1>7, <1>8, <1>9 DEF IInv

LEMMA RecordKeeps == IInv /\ RecordAlert => IInv'
<1> SUFFICES ASSUME IInv, RecordAlert PROVE IInv'
  OBVIOUS
<1>1. /\ loop = "recording" /\ loop' = "round"
      /\ events' = events \cup {Event} /\ recorded' = recorded \cup {Event}
      /\ attempt' = {}
      /\ UNCHANGED <<clock, turn, pages, lost>>
  BY DEF RecordAlert
<1>2. Sending /\ ~Sending'
  BY <1>1 DEF Sending
<1>3. Event.tenant = turn /\ Event.rule = First(alerts) /\ Event.ts = clock
  BY DEF Event
<1>4. TimesInv'
  BY <1>1, <1>3 DEF IInv, TimesInv
<1>5. EventsInv' /\ SendingInv'
  BY <1>1, <1>2 DEF IInv, EventsInv, SendingInv
<1>6. CooldownKept'
  <2> SUFFICES ASSUME NEW e \in recorded', NEW f \in recorded', SameAlert(e, f), e.ts < f.ts
               PROVE  f.ts - e.ts >= Cooldown
    BY DEF CooldownKept, SameAlert
  <2>1. CASE e \in recorded /\ f \in recorded
    BY <2>1 DEF IInv, CooldownKept
  <2>2. CASE e = Event
    BY <1>1, <1>3, <2>2 DEF IInv, TimesInv
  <2>3. CASE e \in recorded /\ f = Event
    BY <1>2, <1>3, <2>3 DEF IInv, SendingInv, SameAlert
  <2> QED BY <1>1, <2>1, <2>2, <2>3
<1>7. PagesInv'
  <2> SUFFICES ASSUME NEW p \in pages \ lost
               PROVE  \E e \in recorded' : SameAlert(p, e) /\ p.ts <= e.ts
    BY <1>1, <1>2 DEF PagesInv, SameAlert
  <2>1. CASE p \in attempt
    BY <1>1, <1>3, <2>1 DEF IInv, PagesInv, TimesInv, SameAlert
  <2>2. CASE p \notin attempt
    BY <1>1, <2>2 DEF IInv, PagesInv
  <2> QED BY <2>1, <2>2
<1>8. RepeatsOnlyUnrecorded'
  BY <1>1 DEF IInv, RepeatsOnlyUnrecorded, SameAlert
<1> QED BY <1>4, <1>5, <1>6, <1>7, <1>8 DEF IInv

LEMMA AbandonKeeps == IInv /\ AbandonRound => IInv'
<1> SUFFICES ASSUME IInv, AbandonRound PROVE IInv'
  OBVIOUS
<1>1. PICK out \in SUBSET (IF loop \in Channels THEN {Page(loop)} ELSE {}) :
        pages' = pages \cup out /\ lost' = lost \cup attempt \cup out
  BY DEF AbandonRound
<1>2. /\ loop' = "asleep" /\ attempt' = {}
      /\ UNCHANGED <<clock, events, recorded>>
  BY DEF AbandonRound
<1>3. ~Sending'
  BY <1>2 DEF Sending
<1>4. out = {} \/ \E channel \in Channels : loop = channel /\ out = {Page(channel)}
  OBVIOUS
<1>5. \A p \in out : p.ts = clock
  BY <1>4 DEF Page
<1>6. RepeatsOnlyUnrecorded'
  BY <1>1, <1>4, PagingKeeps
<1>7. TimesInv'
  BY <1>1, <1>2, <1>5 DEF IInv, TimesInv
<1>8. (EventsInv /\ SendingInv /\ CooldownKept)'
  BY <1>2, <1>3 DEF IInv, EventsInv, SendingInv, CooldownKept, SameAlert
<1>9. PagesInv'
  BY <1>1, <1>2, <1>3 DEF IInv, PagesInv, SameAlert
<1> QED BY <1>6, <1>7, <1>8, <1>9 DEF IInv

-----------------------------------------------------------------------------
LEMMA StepKeeps == IInv /\ [Next]_vars => IInv'
<1> SUFFICES ASSUME IInv, [Next]_vars PROVE IInv'
  OBVIOUS
<1>1. CASE Evaluate
  BY <1>1, QuietKeeps DEF Evaluate, Sending, history
<1>2. CASE EndRound
  BY <1>2, QuietKeeps DEF EndRound, Sending, history
<1>3. CASE Skip
  BY <1>3, QuietKeeps DEF Skip, Sending, history
<1>4. CASE Deliver
  BY <1>4, DeliverKeeps
<1>5. CASE \E channel \in Channels : Answered(channel)
  BY <1>5, AnsweredKeeps
<1>6. CASE RecordAlert
  BY <1>6, RecordKeeps
<1>7. CASE Tick \/ Prune
  BY <1>7, TickKeeps, PruneKeeps
<1>8. CASE \E t \in TenantSet : RecordsChange(t) \/ UpdateEngineState(t)
  BY <1>8, QuietKeeps DEF RecordsChange, UpdateEngineState, task, history
<1>9. CASE Raise \/ Restart
  BY <1>9, AbandonKeeps DEF Raise, Restart
<1>10. CASE UNCHANGED vars
  BY <1>10, QuietKeeps DEF vars, task, history
<1> QED
  BY <1>1, <1>2, <1>3, <1>4, <1>5, <1>6, <1>7, <1>8, <1>9, <1>10 DEF Next, Round, Environment

THEOREM Invariance == Spec => []IInv
BY InitInv, StepKeeps, PTL DEF Spec

(* Alerts of a rule and tenant are recorded at least the cooldown apart.    *)
THEOREM CooldownCorrect == Spec => []CooldownKept
<1>1. IInv => CooldownKept
  BY DEF IInv
<1> QED BY Invariance, <1>1, PTL

(* Only a page whose alert was not recorded is repeated within it.         *)
THEOREM RepeatsCorrect == Spec => []RepeatsOnlyUnrecorded
<1>1. IInv => RepeatsOnlyUnrecorded
  BY DEF IInv
<1> QED BY Invariance, <1>1, PTL

(* Nothing but time ends a cooldown.                                       *)
THEOREM CooldownDurable == Spec => CooldownEndsByTime
<1>1. IInv /\ [Next]_vars =>
        [\A t \in TenantSet, rule \in RuleSet :
           Cooling(t, rule) /\ clock' = clock => Cooling(t, rule)']_vars
  <2> SUFFICES ASSUME IInv, Next,
                      NEW t \in TenantSet, NEW rule \in RuleSet,
                      Cooling(t, rule), clock' = clock
               PROVE  Cooling(t, rule)'
    BY DEF Cooling
  <2>1. PICK e \in events : e.tenant = t /\ e.rule = rule /\ clock - e.ts < Cooldown
    BY DEF Cooling
  <2>2. e \in events'
    <3>1. CASE Prune
      <4>1. e.ts >= clock - Retention
        BY <2>1, Constants DEF IInv, TimesInv, EventsInv
      <4> QED BY <3>1, <4>1 DEF Prune
    <3>2. CASE Round
      BY <3>2 DEF Round, Evaluate, EndRound, Skip, Deliver, Answered, RecordAlert
    <3>3. CASE Raise \/ Restart
      BY <3>3 DEF Raise, Restart, AbandonRound
    <3>4. CASE Tick \/ \E u \in TenantSet : RecordsChange(u) \/ UpdateEngineState(u)
      BY <3>4 DEF Tick, RecordsChange, UpdateEngineState
    <3> QED BY <3>1, <3>2, <3>3, <3>4 DEF Next, Environment
  <2> QED BY <2>1, <2>2 DEF Cooling
<1> QED BY Invariance, <1>1, PTL DEF Spec, CooldownEndsByTime

-----------------------------------------------------------------------------
(* Types.  The alerts to deliver are positions of rules, and the task is at *)
(* a tenant whenever it is awake.                                          *)

(* A non-empty set of natural numbers has a least element.                 *)
LEMMA Least ==
  ASSUME NEW S \in SUBSET Nat, S # {}
  PROVE  \E n \in S : \A m \in S : n <= m
<1> DEFINE R == OpToRel(<, Nat)
<1>1. IsWellFoundedOn(R, Nat)
  BY NatLessThanWellFounded
<1>2. \A x, y \in Nat : x < y => <<x, y>> \in R
  BY DEF OpToRel
<1> HIDE DEF R
<1>3. PICK n \in S : \A m \in S : ~(<<m, n>> \in R)
  BY <1>1, WFMin
<1>4. ASSUME NEW m \in S PROVE n <= m
  <2>1. m \in Nat /\ n \in Nat /\ ~(m < n)
    BY <1>2, <1>3
  <2> QED
    BY <2>1
<1> QED
  BY <1>3, <1>4

LEMMA FirstLemma ==
  ASSUME NEW S \in SUBSET DOMAIN Rules, S # {}
  PROVE  First(S) \in RuleSet
<1>1. S \in SUBSET Nat
  <2>1. DOMAIN Rules = 1 .. Len(Rules) /\ Len(Rules) \in Nat
    BY AlertingAssumption DEF AlertingAssumption
  <2> QED
    BY <2>1
<1>2. \E n \in S : \A m \in S : n <= m
  BY <1>1, Least
<1>3. Min(S) \in S
  BY <1>2 DEF Min
<1> QED
  BY <1>3 DEF First, RuleSet

TypeInv ==
  /\ TypeOK
  /\ loop # "asleep" => turn # 0

LEMMA TypeInit == Init => TypeInv
BY AlertingAssumption DEF AlertingAssumption, Init, TypeInv, TypeOK, NoSnapshot

(* The pages and the events of the task are of a tenant and a rule of its.  *)
LEMMA SentLemma ==
  ASSUME TypeInv, loop \notin {"asleep", "round"}
  PROVE  Event \in Keys /\ \A channel \in Channels : Page(channel) \in Pages
<1>1. turn \in TenantSet /\ clock \in 0 .. MaxClock
  BY AlertingAssumption DEF AlertingAssumption, TypeInv, TypeOK, TenantSet
<1>2. First(alerts) \in RuleSet
  BY FirstLemma DEF TypeInv, TypeOK
<1> QED
  BY <1>1, <1>2 DEF Event, Page, Keys, Pages

LEMMA TypeStep == TypeInv /\ [Next]_vars => TypeInv'
<1> SUFFICES ASSUME TypeInv, [Next]_vars PROVE TypeInv'
  OBVIOUS
<1> USE DEF TypeInv, TypeOK
<1>0. /\ Tenants \in Nat /\ MaxClock \in Nat /\ MaxFailures \in Nat
      /\ Channels \subseteq {"slack", "pagerduty"}
  BY AlertingAssumption DEF AlertingAssumption
<1>1. CASE Evaluate
  <2>1. turn' \in 0 .. Tenants /\ turn' # 0
    BY <1>0, <1>1 DEF Evaluate
  <2>2. alerts' \subseteq DOMAIN Rules
    BY <1>1 DEF Evaluate, AlertsOf
  <2> QED
    BY <1>1, <2>1, <2>2 DEF Evaluate, input, history
<1>2. CASE EndRound
  BY <1>2 DEF EndRound, input, history
<1>3. CASE Skip
  BY <1>3 DEF Skip, Others, input, history
<1>4. CASE Deliver
  <2>1. loop' \in {"recording"} \cup Channels
    BY <1>4 DEF Deliver, AfterSlack
  <2> QED
    BY <1>4, <2>1 DEF Deliver, input, history
<1>5. ASSUME NEW channel \in Channels, Answered(channel) PROVE TypeInv'
  <2>1. loop' \in {"recording"} \cup Channels
    BY <1>5 DEF Answered, AfterSlack
  <2>2. Page(channel) \in Pages
    BY <1>0, <1>5, SentLemma DEF Answered
  <2>3. attempt' \subseteq Pages /\ pages' \subseteq Pages
    BY <1>5, <2>2 DEF Answered
  <2>4. alerts # {} /\ turn # 0
    BY <1>0, <1>5 DEF Answered
  <2> QED
    BY <1>5, <2>1, <2>3, <2>4 DEF Answered, input
<1>6. CASE RecordAlert
  <2>1. Event \in Keys
    BY <1>6, SentLemma DEF RecordAlert
  <2> QED
    BY <1>6, <2>1 DEF RecordAlert, Others, input
<1>7. CASE Tick
  BY <1>0, <1>7 DEF Tick, input, task, history
<1>8. CASE Prune
  BY <1>8 DEF Prune, input, task, history
<1>9. ASSUME NEW t \in TenantSet, RecordsChange(t) PROVE TypeInv'
  BY <1>9 DEF RecordsChange, task, history
<1>10. ASSUME NEW t \in TenantSet, UpdateEngineState(t) PROVE TypeInv'
  <2>1. PICK high \in BOOLEAN : snapshot' = [snapshot EXCEPT ![t] = [high |-> high, ts |-> clock]]
    BY <1>10 DEF UpdateEngineState
  <2>2. clock \in -1 .. MaxClock
    BY <1>0
  <2>3. [high |-> high, ts |-> clock] \in [high : BOOLEAN, ts : -1 .. MaxClock]
    BY <2>2
  <2>4. snapshot' \in [TenantSet -> [high : BOOLEAN, ts : -1 .. MaxClock]]
    BY <2>1, <2>3
  <2> QED
    BY <1>10, <2>4 DEF UpdateEngineState, task, history
<1>11. CASE AbandonRound /\ (UNCHANGED snapshot \/ snapshot' = [t \in TenantSet |-> NoSnapshot])
  <2>1. PICK out \in SUBSET (IF loop \in Channels THEN {Page(loop)} ELSE {}) :
          pages' = pages \cup out /\ lost' = lost \cup attempt \cup out
    BY <1>11 DEF AbandonRound
  <2>2. out \subseteq Pages
    BY <1>0, SentLemma
  <2>3. pages' \subseteq Pages /\ lost' \subseteq Pages
    BY <2>1, <2>2
  <2>4. snapshot' \in [TenantSet -> [high : BOOLEAN, ts : -1 .. MaxClock]]
    <3>1. -1 \in -1 .. MaxClock
      BY <1>0
    <3>2. NoSnapshot \in [high : BOOLEAN, ts : -1 .. MaxClock]
      BY <3>1 DEF NoSnapshot
    <3> HIDE DEF NoSnapshot
    <3>3. CASE snapshot' = [t \in TenantSet |-> NoSnapshot]
      BY <3>2, <3>3
    <3>4. CASE UNCHANGED snapshot
      BY <3>4
    <3> QED
      BY <1>11, <3>3, <3>4
  <2>5. failures' \in 0 .. MaxFailures
    BY <1>0, <1>11 DEF AbandonRound
  <2> QED
    BY <1>0, <1>11, <2>3, <2>4, <2>5 DEF AbandonRound
<1>12. CASE UNCHANGED vars
  BY <1>12 DEF vars, input, task, history
<1> QED
  BY <1>1, <1>2, <1>3, <1>4, <1>5, <1>6, <1>7, <1>8, <1>9, <1>10, <1>11, <1>12
     DEF Next, Round, Environment, Raise, Restart

(* The types of the variables; an alert that is being sent is one that      *)
(* evaluate_tenant() returned for the tenant of the round.                 *)
THEOREM TypeCorrect == Spec => []TypeOK
<1>1. TypeInv => TypeOK
  BY DEF TypeInv
<1> QED
  BY TypeInit, TypeStep, <1>1, PTL DEF Spec
=============================================================================
