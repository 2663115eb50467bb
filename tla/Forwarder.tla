------------------------------ MODULE Forwarder ------------------------------
(***************************************************************************)
(* The hosted forwarder of the sidecar: class HostedForwarder of           *)
(* src/infersight/forwarder.py, together with the part of the application  *)
(* lifespan (src/infersight/proxy.py) that starts its interval task and    *)
(* shuts it down.                                                          *)
(*                                                                         *)
(* Request handlers append records to a bounded deque.  Two callers of     *)
(* flush() take batches from it: the interval task run(), and the final    *)
(* flush of the lifespan.  A caller owns its batch for as long as it       *)
(* awaits the POST; everything between two awaits is one step, as in the   *)
(* event loop.                                                             *)
(*                                                                         *)
(* A record is the number of its enqueue() call, so that "older" is "<".   *)
(* A POST ends by an answer, by an httpx.HTTPError, or by an exception of   *)
(* another type that nobody catches.                                       *)
(***************************************************************************)
EXTENDS Integers, Sequences, Functions

CONSTANTS
  MaxQueue,     \* MAX_QUEUE: maxlen of the deque
  MaxBatch,     \* hosted.max_batch_size
  MaxRecords    \* bound of the model on the number of enqueue() calls

(* MaxBatch = 0 is accepted by the configuration, but flush(final=True)     *)
(* then posts empty batches for ever; see the README.                       *)
ASSUME ForwarderAssumption ==
  /\ MaxQueue \in Nat \ {0}
  /\ MaxBatch \in Nat \ {0}
  /\ MaxRecords \in Nat

VARIABLES
  queue,        \* self._queue, oldest record first
  enqueued,     \* how many records enqueue() has received
  batch,        \* batch[f]: local `batch` of the flush() of caller f, << >> when it has none
  interval,     \* the task of run(): "sleeping", "sending" or "stopped"
  lifespan,     \* the application: "serving", "draining" (final flush) or "closed"
  sent,         \* history: records of a batch that got a status below 400
  refused,      \* history: records of a batch that got a 4xx
  evicted,      \* history: records the deque discarded because it was full
  cancelled,    \* history: records of the batch of a cancelled run()
  raised        \* history: records of a batch whose POST raised an uncaught exception

ledger == <<sent, refused, evicted, cancelled, raised>>
vars == <<queue, enqueued, batch, interval, lifespan, ledger>>

Flushers == {"interval", "final"}

Init ==
  /\ queue = << >>
  /\ enqueued = 0
  /\ batch = [f \in Flushers |-> << >>]
  /\ interval = "sleeping"
  /\ lifespan = "serving"
  /\ sent = {} /\ refused = {} /\ evicted = {} /\ cancelled = {} /\ raised = {}

-----------------------------------------------------------------------------
(* The deque.                                                              *)

Lesser(m, n) == IF m <= n THEN m ELSE n

(* Plausible bugs of the operators and actions below; none of them is part *)
(* of the specification.                                                   *)
PushedOverCap(q, n) == IF Len(q) <= MaxQueue THEN Append(q, n) ELSE Append(Tail(q), n)
PushedForgetful(q, n) == IF Len(q) + 1 < MaxQueue THEN Append(q, n) ELSE Append(Tail(q), n)

(* append() on a full deque discards at the left end, the oldest record.   *)
Pushed(q, n) == IF Len(q) < MaxQueue THEN Append(q, n) ELSE Append(Tail(q), n)

RequeuedUnordered(b, q) == SubSeq(q \o b, 1, Lesser(MaxQueue, Len(b) + Len(q)))

(* _requeue() appends the batch to the left, last record first, and a full *)
(* deque then discards at its right end: the newest records go.            *)
Requeued(b, q) == SubSeq(b \o q, 1, Lesser(MaxQueue, Len(b) + Len(q)))

BatchSize == Lesser(MaxBatch, Len(queue))
NextBatch == SubSeq(queue, 1, BatchSize)
RestOfQueue == SubSeq(queue, BatchSize + 1, Len(queue))

(* Everything the forwarder still has to ship.                             *)
Held == Range(batch["interval"]) \cup Range(batch["final"]) \cup Range(queue)

-----------------------------------------------------------------------------
(* enqueue(), called when a request ends.  Handlers are over before the     *)
(* lifespan ends, but the generator of a stream whose client went away is  *)
(* finalised by a task nobody waits for: a record can come at any time.    *)
Enqueue ==
  /\ enqueued < MaxRecords
  /\ enqueued' = enqueued + 1
  /\ queue' = Pushed(queue, enqueued + 1)
  /\ evicted' = evicted \cup (Range(queue) \ Range(queue'))
  /\ UNCHANGED <<batch, interval, lifespan, sent, refused, cancelled, raised>>

TakeBatchCopied(f) ==
  /\ batch' = [batch EXCEPT ![f] = NextBatch]
  /\ queue' = queue

(* The inner loop of flush(): up to max_batch_size records are popped.     *)
TakeBatch(f) ==
  /\ batch' = [batch EXCEPT ![f] = NextBatch]
  /\ queue' = RestOfQueue

IntervalFlushFullBatch ==
  /\ lifespan = "serving"
  /\ interval = "sleeping"
  /\ Len(queue) >= MaxBatch
  /\ TakeBatch("interval")
  /\ interval' = "sending"
  /\ UNCHANGED <<enqueued, lifespan, ledger>>

(* run() wakes and flushes one batch; with an empty queue it sleeps on.    *)
IntervalFlush ==
  /\ lifespan = "serving"
  /\ interval = "sleeping"
  /\ queue # << >>
  /\ TakeBatch("interval")
  /\ interval' = "sending"
  /\ UNCHANGED <<enqueued, lifespan, ledger>>

-----------------------------------------------------------------------------
(* What _send() does with the answer to the POST of caller f.              *)

Accepted(f) ==
  /\ sent' = sent \cup Range(batch[f])
  /\ UNCHANGED <<refused, evicted, cancelled, raised>>

(* A 4xx will not succeed on retry: the batch is dropped.                  *)
Refused(f) ==
  /\ refused' = refused \cup Range(batch[f])
  /\ UNCHANGED <<sent, evicted, cancelled, raised>>

FailedForgetful(f) == UNCHANGED <<queue, ledger>>

(* A transport error or a 5xx: the batch goes back to the queue.           *)
Failed(f) ==
  /\ queue' = Requeued(batch[f], queue)
  /\ evicted' = evicted \cup ((Range(batch[f]) \cup Range(queue)) \ Range(queue'))
  /\ UNCHANGED <<sent, refused, cancelled, raised>>

(* The answer resumes run(), which goes back to sleep.                     *)
IntervalAnswered ==
  /\ lifespan = "serving"
  /\ interval = "sending"
  /\ interval' = "sleeping"
  /\ batch' = [batch EXCEPT !["interval"] = << >>]
  /\ UNCHANGED <<enqueued, lifespan>>

IntervalAccepted == IntervalAnswered /\ Accepted("interval") /\ UNCHANGED queue
IntervalRefused == IntervalAnswered /\ Refused("interval") /\ UNCHANGED queue
IntervalFailed == IntervalAnswered /\ Failed("interval")

(* The POST raises what is no httpx.HTTPError, such as the UnicodeEncodeError *)
(* of a key or a record that cannot be encoded.  _send(), flush() and run() *)
(* let it through: the task ends, and nobody starts another.               *)
Raised(f) ==
  /\ batch' = [batch EXCEPT ![f] = << >>]
  /\ raised' = raised \cup Range(batch[f])
  /\ UNCHANGED <<queue, enqueued, sent, refused, evicted, cancelled>>

IntervalRaised ==
  /\ lifespan = "serving"
  /\ interval = "sending"
  /\ interval' = "stopped"
  /\ Raised("interval")
  /\ UNCHANGED lifespan

-----------------------------------------------------------------------------
(* Shutdown: the lifespan cancels its tasks and enters flush(final=True)   *)
(* without waiting for them.                                               *)
Shutdown ==
  /\ lifespan = "serving"
  /\ \/ /\ queue = << >>
        /\ lifespan' = "closed"
        /\ UNCHANGED <<queue, batch>>
     \/ /\ queue # << >>
        /\ lifespan' = "draining"
        /\ TakeBatch("final")
  /\ UNCHANGED <<enqueued, interval, ledger>>

(* CancelledError reaches run() at its await.  It is no httpx.HTTPError,   *)
(* so a batch being sent is not requeued.                                  *)
IntervalCancelled ==
  /\ lifespan # "serving"
  /\ interval # "stopped"
  /\ interval' = "stopped"
  /\ batch' = [batch EXCEPT !["interval"] = << >>]
  /\ cancelled' = cancelled \cup Range(batch["interval"])
  /\ UNCHANGED <<queue, enqueued, lifespan, sent, refused, evicted, raised>>

(* The cancellation is in the event loop's ready queue before any answer   *)
(* to the final POST can be, so run() has stopped by then.                 *)
FinalAnswered ==
  /\ lifespan = "draining"
  /\ interval = "stopped"
  /\ UNCHANGED <<enqueued, interval>>

(* The drain goes on with the next batch for as long as there is one.      *)
FinalAccepted ==
  /\ FinalAnswered
  /\ Accepted("final")
  /\ \/ /\ queue = << >>
        /\ batch' = [batch EXCEPT !["final"] = << >>]
        /\ lifespan' = "closed"
        /\ UNCHANGED queue
     \/ /\ queue # << >>
        /\ TakeBatch("final")
        /\ UNCHANGED lifespan

FinalGivesUpNever ==
  /\ batch' = [batch EXCEPT !["final"] = NextBatch]
  /\ lifespan' = lifespan

(* _send() returned False: the drain ends and the client is closed.        *)
FinalGivesUp ==
  /\ batch' = [batch EXCEPT !["final"] = << >>]
  /\ lifespan' = "closed"

(* The exception leaves the lifespan; building the request may raise it      *)
(* before the cancelled task was resumed.                                  *)
FinalRaised ==
  /\ lifespan = "draining"
  /\ lifespan' = "closed"
  /\ Raised("final")
  /\ UNCHANGED interval

FinalRefused == FinalAnswered /\ Refused("final") /\ FinalGivesUp /\ UNCHANGED queue
FinalFailed == FinalAnswered /\ Failed("final") /\ FinalGivesUp

Stopped ==
  /\ lifespan = "closed"
  /\ interval = "stopped"
  /\ UNCHANGED vars

Next ==
  \/ Enqueue
  \/ IntervalFlush
  \/ IntervalAccepted \/ IntervalRefused \/ IntervalFailed \/ IntervalRaised
  \/ Shutdown
  \/ IntervalCancelled
  \/ FinalAccepted \/ FinalRefused \/ FinalFailed \/ FinalRaised
  \/ Stopped

Spec == Init /\ [][Next]_vars

(* Fairness.  run() is never starved of the event loop, the client's 10 s  *)
(* timeout ends every POST, and a cancelled task is resumed.  The strong   *)
(* condition is about the hosted tier: it is not down for ever.            *)
Fairness ==
  /\ WF_vars(IntervalFlush)
  /\ WF_vars(IntervalAccepted \/ IntervalRefused \/ IntervalFailed \/ IntervalRaised)
  /\ SF_vars(IntervalAccepted)
  /\ WF_vars(IntervalCancelled)
  /\ WF_vars(FinalAccepted \/ FinalRefused \/ FinalFailed \/ FinalRaised)

FairSpec == Spec /\ Fairness

-----------------------------------------------------------------------------
(* Properties.                                                             *)

Records == 1 .. enqueued

(* The types of the variables; the deque and the batches respect their      *)
(* caps (deque(maxlen=MAX_QUEUE), max_batch_size), and a caller owns a     *)
(* batch exactly while it is sending.                                      *)
TypeOK ==
  /\ enqueued \in 0 .. MaxRecords
  /\ queue \in Seq(Nat) /\ Len(queue) <= MaxQueue
  /\ batch \in [Flushers -> Seq(Nat)]
  /\ \A f \in Flushers : Len(batch[f]) <= MaxBatch
  /\ interval \in {"sleeping", "sending", "stopped"}
  /\ lifespan \in {"serving", "draining", "closed"}
  /\ batch["interval"] # << >> <=> interval = "sending"
  /\ batch["final"] # << >> <=> lifespan = "draining"

Increasing(s) == \A i, j \in DOMAIN s : i < j => s[i] < s[j]
Before(s, t) == \A i \in DOMAIN s, j \in DOMAIN t : s[i] < t[j]

(* The records held are in the order of their enqueue() calls across the    *)
(* two batches in flight and the deque: a requeued batch goes back in front *)
(* of what arrived during its POST, in its own order.                      *)
HeldInOrder ==
  /\ Increasing(queue) /\ \A f \in Flushers : Increasing(batch[f])
  /\ \A f \in Flushers : Before(batch[f], queue)
  /\ Before(batch["interval"], batch["final"])

(* Every record ever enqueued is in exactly one place: held, or in one of   *)
(* the five ways out.  Two flushes never hold the same record, a requeue   *)
(* neither duplicates nor loses one without its being counted as evicted.  *)
EachRecordInOnePlace ==
  LET places == <<Held, sent, refused, evicted, cancelled, raised>> IN
  /\ \A i, j \in DOMAIN places : i # j => places[i] \cap places[j] = {}
  /\ UNION Range(places) = Records

(* A cancelled run() has not been resumed yet: its batch is already lost.   *)
Doomed == IF lifespan = "serving" THEN {} ELSE Range(batch["interval"])

(* What left by an answer, with its cancelled caller or by an exception is   *)
(* older than all that is still held: retries never let a later record     *)
(* overtake.  (The final flush may raise while a doomed batch is held.)    *)
SettledBeforeHeld ==
  /\ \A m \in sent \cup refused \cup cancelled, n \in Held : m < n
  /\ \A m \in raised, n \in Held \ Doomed : m < n

(* Records are only discarded by a deque that ends up full: neither an      *)
(* answer nor the cancellation of a caller thins a queue with room.        *)
DiscardsOnlyOverflow == [][evicted' # evicted => Len(queue') = MaxQueue]_vars

(* The forwarder keeps the promise of Outbox: with the batches in flight    *)
(* counted as pending until their caller is cancelled, each of its steps   *)
(* ships, gives up or sheds records as that specification allows, or       *)
(* changes nothing there.                                                  *)
Promise == INSTANCE Outbox
  WITH accepted <- enqueued, pending <- Held \ Doomed, shipped <- sent,
       lost <- refused \cup evicted \cup cancelled \cup raised \cup Doomed
PromiseKept == Promise!Spec

(* A record that is held while the sidecar serves does not stay held for   *)
(* ever: a lone record in a half-empty batch is flushed too.  Only the end  *)
(* of run() by an exception stops the shipping.                            *)
HeldIsSettled ==
  \A n \in 1 .. MaxRecords :
    (lifespan = "serving" /\ n \in Held)
      ~> (n \notin Held \/ lifespan # "serving" \/ interval = "stopped")

(* A shutdown ends, whatever the hosted tier answers to the final flush.   *)
DrainEnds == lifespan = "draining" ~> lifespan = "closed"
=============================================================================
