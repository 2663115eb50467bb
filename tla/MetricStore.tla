------------------------------ MODULE MetricStore ------------------------------
(***************************************************************************)
(* The records table of the hosted tier: insert_records() and prune() of   *)
(* MetricStore (hosted/storage.py), called by POST /v1/ingest and by       *)
(* _prune_loop() of hosted/ingest.py, and what a sidecar does with the     *)
(* answers (infersight/forwarder.py).                                      *)
(*                                                                         *)
(* All writers share one SQLite connection.  An INSERT opens a transaction *)
(* when there is none, and nothing is rolled back when one fails: the rows *)
(* it had inserted stay in the open transaction, seen by every query and   *)
(* committed by whoever commits next.  Every method holds the lock, so it  *)
(* is one step.                                                            *)
(***************************************************************************)
EXTENDS Integers, Sequences

CONSTANTS
  Records,      \* request records, of all sidecars
  KindOf,       \* KindOf[r]: what insert_records() makes of r
  StampOf,      \* StampOf[r]: its ts
  Batches,      \* batch names
  ContentOf,    \* ContentOf[b]: the records of batch b
  MaxPost,      \* 5000: the largest batch that is taken
  Retention,    \* RETENTION_SECONDS
  MaxClock,     \* bound of the model on time
  MaxPosts      \* bound of the model on how often a batch is sent

(* "malformed": a conversion raises what the loop catches.  "infinite": a   *)
(* conversion raises OverflowError, which it does not.  "unstorable": it    *)
(* converts, but SQLite refuses the value (NaN, an integer above 64 bits). *)
Kinds == {"good", "malformed", "infinite", "unstorable"}

In(b) == {ContentOf[b][i] : i \in DOMAIN ContentOf[b]}

ASSUME StoreAssumption ==
  /\ KindOf \in [Records -> Kinds]
  /\ StampOf \in [Records -> Nat]
  /\ ContentOf \in [Batches -> Seq(Records)]
  /\ \A b, c \in Batches : b # c => In(b) \cap In(c) = {}
  /\ MaxPost \in Nat /\ Retention \in Nat /\ MaxClock \in Nat /\ MaxPosts \in Nat

VARIABLES
  clock,        \* time.time()
  rows,         \* rows[r]: committed rows of record r
  open,         \* open[r]: its rows in the open transaction
  client,       \* client[b]: "queued", or what the sidecar made of the answer
  posts,        \* posts[b]: how often b reached the handler
  processed,    \* history: batches given to insert_records()
  acknowledged  \* history: batches that were answered 200

table == <<rows, open>>
sidecar == <<client, posts>>
history == <<processed, acknowledged>>
vars == <<clock, table, sidecar, history>>

None == [r \in Records |-> 0]

Init ==
  /\ clock = 0
  /\ rows = None /\ open = None
  /\ client = [b \in Batches |-> "queued"]
  /\ posts = [b \in Batches |-> 0]
  /\ processed = {} /\ acknowledged = {}

-----------------------------------------------------------------------------
(* POST /v1/ingest.                                                        *)

(* The sidecar settles a batch by a 2xx or a 4xx and keeps it on a 5xx; an  *)
(* answer that is lost on the way leaves it queued as well.                *)
Answer(b, outcome) ==
  /\ client[b] = "queued"
  /\ posts[b] < MaxPosts
  /\ posts' = [posts EXCEPT ![b] = @ + 1]
  /\ \/ client' = [client EXCEPT ![b] = outcome]
     \/ UNCHANGED client

TooLarge(b) == Len(ContentOf[b]) > MaxPost
Infinite(b) == \E r \in In(b) : KindOf[r] = "infinite"
Unstorable(b) == \E r \in In(b) : KindOf[r] = "unstorable"

PostTooLarge(b) ==
  /\ TooLarge(b)
  /\ Answer(b, "refused")
  /\ UNCHANGED <<clock, table, history>>

(* The loop over the records raises before anything is inserted.           *)
PostInfinite(b) ==
  /\ ~TooLarge(b) /\ Infinite(b)
  /\ Answer(b, "queued")
  /\ processed' = processed \cup {b}
  /\ UNCHANGED <<clock, table, acknowledged>>

(* The records executemany() gets through: the good ones before the first   *)
(* that SQLite refuses.                                                    *)
Inserted(b) ==
  {ContentOf[b][i] : i \in {k \in DOMAIN ContentOf[b] :
      /\ KindOf[ContentOf[b][k]] = "good"
      /\ \A j \in 1 .. k : KindOf[ContentOf[b][j]] # "unstorable"}}

WithRows(counts, added) == [r \in Records |-> counts[r] + IF r \in added THEN 1 ELSE 0]
Total == [r \in Records |-> rows[r] + open[r]]

HasUnstorable(b) == ~TooLarge(b) /\ ~Infinite(b) /\ Unstorable(b)

(* Plausible bugs of the actions below, none of them part of the            *)
(* specification: after executemany() raised, the good records are inserted *)
(* one by one on top of those it left open, or the batch is answered 400; a *)
(* commit that comes before the insert.                                     *)
PostUnstorableRowByRow(b) ==
  /\ HasUnstorable(b)
  /\ Answer(b, "accepted")
  /\ rows' = WithRows(WithRows(Total, Inserted(b)), {r \in In(b) : KindOf[r] = "good"})
  /\ open' = None
  /\ processed' = processed \cup {b}
  /\ acknowledged' = acknowledged \cup {b}
  /\ UNCHANGED clock

PostUnstorableRefused(b) ==
  /\ HasUnstorable(b)
  /\ Answer(b, "refused")
  /\ open' = WithRows(open, Inserted(b))
  /\ processed' = processed \cup {b}
  /\ UNCHANGED <<clock, rows, acknowledged>>

(* executemany() raises halfway: its transaction stays open.               *)
PostUnstorable(b) ==
  /\ HasUnstorable(b)
  /\ Answer(b, "queued")
  /\ open' = WithRows(open, Inserted(b))
  /\ processed' = processed \cup {b}
  /\ UNCHANGED <<clock, rows, acknowledged>>

CommitOnlyOthers(b) ==
  /\ rows' = Total
  /\ open' = WithRows(None, Inserted(b))

PostedUncommitted(b) ==
  /\ ~TooLarge(b) /\ ~Infinite(b) /\ ~Unstorable(b)
  /\ Answer(b, "accepted")
  /\ CommitOnlyOthers(b)
  /\ processed' = processed \cup {b}
  /\ acknowledged' = acknowledged \cup {b}
  /\ UNCHANGED clock

(* The batch is inserted and everything open is committed.                 *)
PostStored(b) ==
  /\ ~TooLarge(b) /\ ~Infinite(b) /\ ~Unstorable(b)
  /\ Answer(b, "accepted")
  /\ rows' = WithRows(Total, Inserted(b))
  /\ open' = None
  /\ processed' = processed \cup {b}
  /\ acknowledged' = acknowledged \cup {b}
  /\ UNCHANGED clock

-----------------------------------------------------------------------------
(* The other writers.                                                      *)

(* prune() deletes what is older than the retention window, and commits.    *)
Prune ==
  /\ rows' = [r \in Records |-> IF StampOf[r] < clock - Retention THEN 0 ELSE Total[r]]
  /\ open' = None
  /\ UNCHANGED <<clock, sidecar, history>>

(* create_tenant() and record_alert() write other tables on the same        *)
(* connection, and commit.                                                 *)
OtherWrite ==
  /\ rows' = Total
  /\ open' = None
  /\ UNCHANGED <<clock, sidecar, history>>

(* The process ends; SQLite rolls the open transaction back.               *)
Restart ==
  /\ open' = None
  /\ UNCHANGED <<clock, rows, sidecar, history>>

Tick ==
  /\ clock < MaxClock
  /\ clock' = clock + 1
  /\ UNCHANGED <<table, sidecar, history>>

Ingest(b) == PostTooLarge(b) \/ PostInfinite(b) \/ PostUnstorable(b) \/ PostStored(b)

Next ==
  \/ \E b \in Batches : Ingest(b)
  \/ Prune \/ OtherWrite \/ Restart \/ Tick

Spec == Init /\ [][Next]_vars

-----------------------------------------------------------------------------
(* Properties.                                                             *)

(* The types of the variables.                                             *)
TypeOK ==
  /\ clock \in 0 .. MaxClock
  /\ rows \in [Records -> Nat] /\ open \in [Records -> Nat]
  /\ client \in [Batches -> {"queued", "accepted", "refused"}]
  /\ posts \in [Batches -> 0 .. MaxPosts]
  /\ processed \subseteq Batches /\ acknowledged \subseteq Batches

(* Once a batch was answered 200 its good records are committed, and stay    *)
(* so through restarts, other writers' failures and pruning for as long as *)
(* they are within the retention window: the sidecar may forget them.      *)
AcknowledgedIsDurable ==
  \A b \in acknowledged : \A r \in In(b) :
    KindOf[r] = "good" /\ StampOf[r] >= clock - Retention => rows[r] > 0

(* The sidecar never forgets a good record that is not stored, unless its    *)
(* batch is too large: whatever its batch mates do to the insert, whatever *)
(* answers are lost, it is still queued or it has a committed row.         *)
GoodIsQueuedOrStored ==
  \A b \in Batches : ~TooLarge(b) => \A r \in In(b) :
    KindOf[r] = "good" /\ StampOf[r] >= clock - Retention =>
      client[b] = "queued" \/ rows[r] > 0

(* A record has no more rows, open ones counted, than its batch was sent:   *)
(* only a retry duplicates, never a commit of what another writer left     *)
(* open.                                                                   *)
CopiesFromPosts == \A b \in Batches : \A r \in In(b) : rows[r] + open[r] <= posts[b]
=============================================================================
