------------------------------ MODULE Dashboard ------------------------------
(***************************************************************************)
(* The dashboard page of the hosted tier (src/hosted/static/index.html)    *)
(* and the API it polls (src/hosted/ingest.py, with the tenants of         *)
(* src/hosted/storage.py).                                                 *)
(*                                                                         *)
(* refresh() sends one request for each panel, all with the key and the    *)
(* window of that moment, and draws when the last answer is there.         *)
(* Refreshes are started by the user and by a timer, and they overlap.     *)
(* What a panel shows is abstracted to the tenant and the window it was    *)
(* computed for.                                                           *)
(***************************************************************************)
EXTENDS Naturals, Sequences

CONSTANTS
  Tenants,      \* names of tenants; each stands for its API key too
  Windows,      \* the options of the window select
  Panels,       \* the requests of a refresh; "alerts" is one of them
  MaxFlight,    \* bound of the model on the refreshes that overlap
  MaxActs,      \* bound of the model on what the user does
  MaxFailures   \* bound of the model on requests that fail

ASSUME DashboardAssumption ==
  /\ "alerts" \in Panels /\ "wrong" \notin Tenants /\ "nobody" \notin Tenants
  /\ "all" \notin Windows
  /\ MaxFlight \in Nat /\ MaxActs \in Nat /\ MaxFailures \in Nat

VARIABLES
  tenants,      \* table tenants
  key,          \* the input `apikey`; "wrong" is a key of no tenant
  window,       \* the select `window`
  timer,        \* an interval is set
  flight,       \* the refreshes that wait for answers, oldest first
  panel,        \* panel[p]: the tenant and the window that p shows
  label,        \* the window that the readouts name
  dot,          \* class of the status dot: "off", "live" or "err"
  outdated,     \* history: the last drawing was of a refresh overtaken by another
  acts, failures

screen == <<panel, label, dot, outdated>>
controls == <<key, window, timer>>
bounds == <<acts, failures>>
vars == <<tenants, controls, flight, screen, bounds>>

Blank == [tenant |-> "nobody", window |-> "all"]

Init ==
  /\ tenants = {}
  /\ key = "wrong" /\ window \in Windows /\ timer = FALSE
  /\ flight = << >>
  /\ panel = [p \in Panels |-> Blank] /\ label = window /\ dot = "off"
  /\ outdated = FALSE
  /\ acts = 0 /\ failures = 0

-----------------------------------------------------------------------------
(* The API.                                                                *)

(* POST /v1/admin/tenants, with the admin token: a row with a new key.      *)
CreateTenant ==
  /\ \E t \in Tenants \ tenants : tenants' = tenants \cup {t}
  /\ UNCHANGED <<controls, flight, screen, bounds>>

(* tenant_from_auth() finds the tenant of the key of a request, or answers   *)
(* 401 or 403.                                                             *)
Authorised(k) == k \in tenants

(* Each query is for the tenant and the window; recent_alerts() takes none.  *)
AnswerOf(p, refresh) ==
  [tenant |-> refresh.key, window |-> IF p = "alerts" THEN "all" ELSE refresh.window]

-----------------------------------------------------------------------------
(* refresh(): the requests read the controls when they are sent.            *)

Refreshing(k, w) ==
  flight' = Append(flight, [key |-> k, window |-> w, pending |-> Panels, overtaken |-> FALSE])
Room == Len(flight) < MaxFlight

(* Plausible bug: a timeout in the place of the interval.                   *)
IntervalFiresOnce ==
  /\ timer /\ Room
  /\ Refreshing(key, window)
  /\ timer' = FALSE
  /\ UNCHANGED <<tenants, key, window, screen, bounds>>

IntervalFires ==
  /\ timer /\ Room
  /\ Refreshing(key, window)
  /\ UNCHANGED <<tenants, controls, screen, bounds>>

User == acts < MaxActs /\ acts' = acts + 1 /\ UNCHANGED <<tenants, screen, failures>>

(* Typing alone does nothing; the next refresh sends the new key.           *)
TypeKey ==
  /\ User
  /\ key' \in (tenants \cup {"wrong"}) \ {key}
  /\ UNCHANGED <<window, timer, flight>>

Connect ==
  /\ User /\ Room
  /\ Refreshing(key, window)
  /\ timer' = TRUE
  /\ UNCHANGED <<key, window>>

(* Plausible bug: the window changes without a refresh.                     *)
ChangeWindowOnly ==
  /\ User /\ Room
  /\ window' \in Windows \ {window}
  /\ UNCHANGED <<key, timer, flight>>

ChangeWindow ==
  /\ User /\ Room
  /\ window' \in Windows \ {window}
  /\ Refreshing(key, window')
  /\ UNCHANGED <<key, timer>>

Without(i) ==
  [j \in 1 .. Len(flight) - 1 |->
     IF j < i THEN [flight[j] EXCEPT !.overtaken = TRUE] ELSE flight[j + 1]]

(* Promise.all() resolves with the last answer, and everything is drawn.     *)
(* The readouts name the window that is selected now.                      *)
Draw(i) ==
  /\ flight' = Without(i)
  /\ panel' = [p \in Panels |-> AnswerOf(p, flight[i])]
  /\ label' = window
  /\ dot' = "live"
  /\ outdated' = flight[i].overtaken

Answered(i, p) ==
  /\ p \in flight[i].pending /\ Authorised(flight[i].key)
  /\ IF flight[i].pending = {p}
       THEN Draw(i)
       ELSE /\ flight' = [flight EXCEPT ![i].pending = @ \ {p}]
            /\ UNCHANGED screen
  /\ UNCHANGED <<tenants, controls, bounds>>

(* The first failure rejects Promise.all(): the readouts make place for an   *)
(* error, and the other panels keep what they show.                        *)
Rejected(i) ==
  /\ flight' = Without(i)
  /\ panel' = [panel EXCEPT !["summary"] = Blank]
  /\ dot' = "err"
  /\ UNCHANGED <<label, outdated>>

Refused(i) == ~Authorised(flight[i].key) /\ Rejected(i) /\ UNCHANGED <<tenants, controls, bounds>>
Broken(i) ==
  /\ failures < MaxFailures
  /\ failures' = failures + 1
  /\ Rejected(i)
  /\ UNCHANGED <<tenants, controls, acts>>

Resolve(i) == (\E p \in Panels : Answered(i, p)) \/ Refused(i) \/ Broken(i)

Next ==
  \/ CreateTenant
  \/ TypeKey \/ Connect \/ ChangeWindow \/ IntervalFires
  \/ \E i \in DOMAIN flight : Resolve(i)

ResolveOldest == flight # << >> /\ Resolve(1)

(* Fairness.  The browser fires the interval and ends every request; the     *)
(* user is not obliged to anything.                                        *)
Spec == Init /\ [][Next]_vars /\ WF_vars(IntervalFires) /\ WF_vars(ResolveOldest)

-----------------------------------------------------------------------------
(* Properties.                                                             *)

(* When no refresh is under way, what was drawn last is of the selected      *)
(* window and says so, also without a timer.  It fails only after a        *)
(* drawing by a refresh that another one had overtaken.                    *)
QuietScreenIsRight ==
  (flight = << >> /\ dot = "live" /\ ~outdated) =>
    /\ label = window
    /\ \A p \in Panels \ {"alerts"} : panel[p].window = window

OnScreen ==
  IF Authorised(key)
    THEN /\ dot = "live" /\ label = window
         /\ \A p \in Panels : panel[p] = AnswerOf(p, [key |-> key, window |-> window])
    ELSE dot = "err"

(* Once the user connected, overtaken answers and failures do not last:     *)
(* when the user leaves the controls alone and the network recovers, all   *)
(* panels show the selected window of the tenant of the key, or the dot    *)
(* shows that the key is refused.                                          *)
SelectionIsShown == <>timer => <>[]OnScreen
=============================================================================
