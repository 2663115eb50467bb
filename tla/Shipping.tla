------------------------------- MODULE Shipping -------------------------------
(***************************************************************************)
(* The way of a record from the sidecar to the hosted tier: the forwarder  *)
(* of Forwarder, a network that loses and delays, and POST /v1/ingest      *)
(* (src/hosted/ingest.py, insert_records() of src/hosted/storage.py) as    *)
(* far as the sidecar can tell: which records have a row afterwards, and   *)
(* what the answer is.  A request that reaches the handler is one step.    *)
(*                                                                         *)
(* The forwarder's own records are never malformed; what the handler       *)
(* cannot take is a number SQLite has no room for, and what the client     *)
(* cannot send is a NaN or a lone surrogate.  MetricStore has the store in *)
(* detail, for any sender; pruning is left to it.                          *)
(***************************************************************************)
EXTENDS Forwarder, FiniteSets

CONSTANTS
  MaxPost,      \* 5000: the largest batch the handler takes
  Unstorable,   \* records with an integer above 64 bits
  Unencodable,  \* records that httpx cannot turn into a body
  MaxStray      \* bound of the model on the abandoned POSTs still on their way

ASSUME ShippingAssumption ==
  /\ MaxPost \in Nat /\ MaxStray \in Nat
  /\ Unstorable \subseteq Nat /\ Unencodable \subseteq Nat

VARIABLES
  answer,       \* answer[f]: the status on its way back to caller f, "none" before
  stray,        \* batches of POSTs whose caller gave up before they arrived
  committed,    \* records with a row
  open,         \* records with a row in the open transaction of the store
  retried,      \* history: records that went back to the queue
  twice         \* history: records inserted when they had a row already

store == <<committed, open, twice>>
shippingVars == <<vars, answer, stray, store, retried>>

ShippingInit ==
  /\ Init
  /\ answer = [f \in Flushers |-> "none"]
  /\ stray = {} /\ committed = {} /\ open = {}
  /\ retried = {} /\ twice = {}

-----------------------------------------------------------------------------
(* The handler.                                                            *)

(* The rows executemany() inserts before SQLite refuses one.               *)
Inserted(b) == {b[i] : i \in {k \in DOMAIN b : \A j \in 1 .. k : b[j] \notin Unstorable}}
Storable(b) == Range(b) \cap Unstorable = {}

StatusOf(b) ==
  IF Len(b) > MaxPost THEN "4xx" ELSE IF Storable(b) THEN "2xx" ELSE "5xx"

(* Plausible bugs, not part of the specification: every insert is           *)
(* committed by the next writer only.                                      *)
HandledUncommitted(b) ==
  IF Len(b) > MaxPost THEN UNCHANGED store ELSE
  /\ twice' = twice \cup (Inserted(b) \cap (committed \cup open))
  /\ committed' = committed
  /\ open' = open \cup Inserted(b)

(* A batch is refused by its size, or inserted up to the first record that  *)
(* cannot be stored: all of it is committed, or the transaction stays open. *)
Handled(b) ==
  IF Len(b) > MaxPost THEN UNCHANGED store ELSE
  /\ twice' = twice \cup (Inserted(b) \cap (committed \cup open))
  /\ committed' = IF Storable(b) THEN committed \cup open \cup Inserted(b) ELSE committed
  /\ open' = IF Storable(b) THEN {} ELSE open \cup Inserted(b)

(* Another tenant's ingest, a prune or an alert commits what is open.       *)
OtherWrite ==
  /\ committed' = committed \cup open
  /\ open' = {}
  /\ UNCHANGED <<vars, answer, stray, retried, twice>>

Restart ==
  /\ open' = {}
  /\ UNCHANGED <<vars, answer, stray, committed, retried, twice>>

-----------------------------------------------------------------------------
(* The network.                                                            *)

Encodable(f) == Range(batch[f]) \cap Unencodable = {}
OnItsWay(f) == batch[f] # << >> /\ Encodable(f) /\ answer[f] = "none"

Deliver(f) ==
  /\ OnItsWay(f)
  /\ Handled(batch[f])
  /\ answer' = [answer EXCEPT ![f] = StatusOf(batch[f])]
  /\ UNCHANGED <<vars, stray, retried>>

DeliverStray(b) ==
  /\ b \in stray
  /\ Handled(b)
  /\ stray' = stray \ {b}
  /\ UNCHANGED <<vars, answer, retried>>

-----------------------------------------------------------------------------
(* The sidecar's side of it.                                               *)

Idle == UNCHANGED <<answer, stray, store, retried>>
Concluded(f) == answer' = [answer EXCEPT ![f] = "none"] /\ UNCHANGED store

(* _send(): below 400 the batch is done with.  (A redirect, which httpx does  *)
(* not follow, would count as well; the endpoint answers for itself here.)  *)
Taken(f) == answer[f] = "2xx" /\ Concluded(f) /\ UNCHANGED <<stray, retried>>
Dropped(f) == answer[f] = "4xx" /\ Concluded(f) /\ UNCHANGED <<stray, retried>>

(* A caller that no longer waits leaves a POST on its way that may still     *)
(* arrive.                                                                 *)
Abandoned(f) ==
  stray' = IF OnItsWay(f) /\ Cardinality(stray) < MaxStray THEN stray \cup {batch[f]} ELSE stray

(* The timeout, a broken connection or a lost answer, or a 5xx.             *)
GivenUp(f) ==
  /\ Encodable(f)
  /\ Concluded(f)
  /\ Abandoned(f)
  /\ retried' = retried \cup Range(batch[f])

(* Building the request raises, before anything is sent.                    *)
Unsent(f) == ~Encodable(f) /\ Idle

SettleInterval ==
  \/ IntervalAccepted /\ Taken("interval")
  \/ IntervalRefused /\ Dropped("interval")
EndInterval ==
  \/ SettleInterval
  \/ IntervalFailed /\ GivenUp("interval")
  \/ IntervalRaised /\ Unsent("interval")
EndFinal ==
  \/ FinalAccepted /\ Taken("final")
  \/ FinalRefused /\ Dropped("final")
  \/ FinalFailed /\ GivenUp("final")
  \/ FinalRaised /\ Unsent("final")
Cancel ==
  /\ IntervalCancelled
  /\ Concluded("interval")
  /\ Abandoned("interval")
  /\ UNCHANGED retried

ShippingNext ==
  \/ (Enqueue \/ IntervalFlush \/ Shutdown \/ Stopped) /\ Idle
  \/ EndInterval \/ EndFinal \/ Cancel
  \/ \E f \in Flushers : Deliver(f)
  \/ \E b \in stray : DeliverStray(b)
  \/ OtherWrite \/ Restart

(* Fairness.  As in Forwarder: run() is resumed, a POST ends by its answer  *)
(* or its timeout.  The hosted tier is not out of reach for ever: of        *)
(* infinitely many POSTs some arrive, and some answers come back.          *)
ShippingFairness ==
  /\ WF_shippingVars(IntervalFlush /\ Idle)
  /\ WF_shippingVars(EndInterval)
  /\ SF_shippingVars(Deliver("interval"))
  /\ SF_shippingVars(SettleInterval)

ShippingSpec == ShippingInit /\ [][ShippingNext]_shippingVars /\ ShippingFairness

-----------------------------------------------------------------------------
(* Properties.                                                             *)

(* What the sidecar counts as sent and forgets has a committed row, through *)
(* lost answers, late deliveries, restarts and the failures of other        *)
(* writers.                                                                *)
SentIsStored == sent \subseteq committed

(* Only a record whose POST failed and which was put back is ever inserted  *)
(* twice: the interval flush, the final flush and the late arrival of a    *)
(* cancelled POST never ship one record both.                              *)
DuplicatesAreRetries == twice \subseteq retried

Unfit == Unstorable \cup Unencodable

(* The promise of HeldIsSettled with a store that may refuse a record for   *)
(* ever: a record gets out if none of its possible batch mates and of the   *)
(* records in front is unfit.  Behind an unfit record nothing is promised:  *)
(* its batch is answered 500, put back in front and sent again.            *)
FitIsSettled ==
  \A n \in 1 .. MaxRecords :
    (/\ lifespan = "serving" /\ interval # "stopped" /\ n \in Held
     /\ \A p \in Unfit : p < n + MaxBatch => p <= enqueued /\ p \notin Held)
      ~> (n \notin Held \/ lifespan # "serving")
=============================================================================
