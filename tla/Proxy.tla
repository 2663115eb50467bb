-------------------------------- MODULE Proxy --------------------------------
(***************************************************************************)
(* Completion requests through the sidecar: _proxy_completion() and        *)
(* _bounded_model_label() of src/infersight/proxy.py with the request      *)
(* counters and the in-flight gauge of src/infersight/metrics.py.          *)
(*                                                                         *)
(* Every request is a coroutine; pc[r] names the await at which it is      *)
(* suspended.  What runs between two awaits is one action.  A stream is    *)
(* the generator instrumented(), driven by StreamingResponse: the server   *)
(* pulls a chunk (reading), sends it to the client (sending), and cancels  *)
(* or abandons the generator when the client leaves.                       *)
(***************************************************************************)
EXTENDS Integers, FiniteSets

CONSTANTS
  Requests,     \* the completion requests the model follows
  Models,       \* model names, as truncated by _bounded_model_label()
  MaxLabels,    \* max_model_labels
  MaxChunks,    \* bound of the model on the network reads of a stream
  Usages        \* what the `usage` members sent upstream may look like

(* How int() and the counters take a usage: "usable" numbers; "odd", no      *)
(* object, for which .get() raises AttributeError; "infinite", for which     *)
(* int() raises OverflowError; "negative", which Counter.inc() rejects.    *)
UsageKinds == {"usable", "odd", "infinite", "negative"}

ASSUME ProxyAssumption ==
  /\ IsFiniteSet(Requests)
  /\ "__other__" \notin Models /\ "none" \notin Models
  /\ MaxLabels \in Nat
  /\ MaxChunks \in Nat
  /\ Usages \subseteq UsageKinds

VARIABLES
  pc,           \* pc[r]: where request r is suspended
  model,        \* model[r]: the model the client asked for
  label,        \* label[r]: the model label r is counted under
  seen,         \* _seen_models
  inFlight,     \* the gauge infersight_requests_in_flight
  status,       \* status[r]: local `status` of the generator
  usage,        \* usage[r]: the token counts r has picked up
  chunks,       \* chunks[r]: network reads of the stream of r
  delivered,    \* delivered[r]: chunks sent to the client of r
  ended,        \* history: what ended the work on r
  observed,     \* observed[r]: times r was counted in infersight_requests_total
  shipped       \* shipped[r]: records of r given to the forwarder

labelling == <<model, label, seen>>
stream == <<status, usage, chunks, delivered>>
counts == <<observed, shipped>>
vars == <<pc, labelling, inFlight, stream, ended, counts>>

Init ==
  /\ pc = [r \in Requests |-> "idle"]
  /\ model = [r \in Requests |-> "none"]
  /\ label = [r \in Requests |-> "none"]
  /\ seen = {}
  /\ inFlight = 0
  /\ status = [r \in Requests |-> "none"]
  /\ usage = [r \in Requests |-> "none"]
  /\ chunks = [r \in Requests |-> 0]
  /\ delivered = [r \in Requests |-> 0]
  /\ ended = [r \in Requests |-> "no"]
  /\ observed = [r \in Requests |-> 0]
  /\ shipped = [r \in Requests |-> 0]

-----------------------------------------------------------------------------
(* _bounded_model_label(): the first MaxLabels names keep their own label. *)
(*                                                                         *)
(* Definitions named after another one, with what goes wrong added to the   *)
(* name, are plausible bugs of it and no part of the specification:        *)
(* LabelOfCapFirst, LabelOfOffByOne, PostAnsweredTakesOdd,                 *)
(* OpenFailsKeepsGauge, ReadSwallowsUsage, UpstreamBreaksQuietly,          *)
(* ClientLeavesUncounted, ClosedTwiceEnqueued.                             *)

LabelOfCapFirst(m) ==
  IF Cardinality(seen) >= MaxLabels THEN "__other__" ELSE m

LabelOfOffByOne(m) ==
  IF m \in seen \/ Cardinality(seen) <= MaxLabels THEN m ELSE "__other__"

LabelOf(m) ==
  IF m \in seen \/ Cardinality(seen) < MaxLabels THEN m ELSE "__other__"

TakeLabel(r) ==
  \E m \in Models :
    /\ model' = [model EXCEPT ![r] = m]
    /\ label' = [label EXCEPT ![r] = LabelOf(m)]
    /\ seen' = seen \cup ({LabelOf(m)} \ {"__other__"})

(* The body does not come in, or is JSON but no object and payload.get     *)
(* raises: nothing is counted.  (model_label is unset.)                    *)
Reject(r) ==
  /\ pc[r] = "idle"
  /\ pc' = [pc EXCEPT ![r] = "rejected"]
  /\ UNCHANGED <<labelling, inFlight, stream, ended, counts>>

(* The request is labelled and enters the gauge; then it awaits upstream.  *)
Arrive(r) ==
  /\ pc[r] = "idle"
  /\ TakeLabel(r)
  /\ inFlight' = inFlight + 1
  /\ \E await \in {"posting", "opening"} : pc' = [pc EXCEPT ![r] = await]
  /\ UNCHANGED <<stream, ended, counts>>

(* A header that is not ASCII: httpx raises UnicodeEncodeError while it      *)
(* builds the upstream request, after inc().  The plain path has its       *)
(* `finally`; the streamed one has nothing that calls dec().               *)
Unforwardable(r) ==
  /\ pc[r] = "idle"
  /\ TakeLabel(r)
  /\ \/ UNCHANGED <<inFlight, ended>>
     \/ /\ inFlight' = inFlight + 1
        /\ ended' = [ended EXCEPT ![r] = "never built"]
  /\ pc' = [pc EXCEPT ![r] = "rejected"]
  /\ UNCHANGED <<stream, counts>>

-----------------------------------------------------------------------------
(* observe_request() and _enqueue().  Counter.inc() raises on a negative    *)
(* number, after the request was counted and before it is enqueued.        *)
Count(r, tokens) ==
  /\ observed' = [observed EXCEPT ![r] = @ + 1]
  /\ shipped' = [shipped EXCEPT ![r] = @ + IF tokens = "negative" THEN 0 ELSE 1]

Finish(r, how) ==
  /\ pc' = [pc EXCEPT ![r] = "done"]
  /\ ended' = [ended EXCEPT ![r] = how]
  /\ inFlight' = inFlight - 1

(* The plain request: POST, and everything else when it returns.           *)
PostFails(r) ==
  /\ pc[r] = "posting"
  /\ Finish(r, "upstream broke")
  /\ status' = [status EXCEPT ![r] = "upstream_error"]
  /\ Count(r, "none")
  /\ UNCHANGED <<labelling, usage, chunks, delivered>>

PostAnsweredTakesOdd(r) ==
  /\ pc[r] = "posting"
  /\ status' = [status EXCEPT ![r] = "upstream status"]
  /\ \E u \in Usages : usage' = [usage EXCEPT ![r] = u] /\ Count(r, u)
  /\ Finish(r, "complete")
  /\ UNCHANGED <<labelling, chunks, delivered>>

(* _usage_from_json() lets an OverflowError through: the gauge is settled   *)
(* by the `finally`, the request is not counted.                           *)
PostAnswered(r) ==
  /\ pc[r] = "posting"
  /\ status' = [status EXCEPT ![r] = "upstream status"]
  /\ \E u \in Usages :
       /\ usage' = [usage EXCEPT ![r] = IF u = "odd" THEN "none" ELSE u]
       /\ \/ /\ u = "infinite"
             /\ Finish(r, "usage raised")
             /\ UNCHANGED counts
          \/ /\ u # "infinite"
             /\ Finish(r, "complete")
             /\ Count(r, u)
  /\ UNCHANGED <<labelling, chunks, delivered>>

-----------------------------------------------------------------------------
(* The streamed request.                                                   *)

OpenFailsKeepsGauge(r) ==
  /\ pc[r] = "opening"
  /\ pc' = [pc EXCEPT ![r] = "done"]
  /\ ended' = [ended EXCEPT ![r] = "upstream broke"]
  /\ status' = [status EXCEPT ![r] = "upstream_error"]
  /\ Count(r, "none")
  /\ UNCHANGED <<labelling, inFlight, usage, chunks, delivered>>

OpenFails(r) ==
  /\ pc[r] = "opening"
  /\ Finish(r, "upstream broke")
  /\ status' = [status EXCEPT ![r] = "upstream_error"]
  /\ Count(r, "none")
  /\ UNCHANGED <<labelling, usage, chunks, delivered>>

Opened(r) ==
  /\ pc[r] = "opening"
  /\ pc' = [pc EXCEPT ![r] = "reading"]
  /\ status' = [status EXCEPT ![r] = "upstream status"]
  /\ UNCHANGED <<labelling, inFlight, usage, chunks, delivered, ended, counts>>

ReadSwallowsUsage(r) ==
  /\ pc[r] = "reading"
  /\ chunks[r] < MaxChunks
  /\ chunks' = [chunks EXCEPT ![r] = @ + 1]
  /\ \E u \in Usages \cup {"none"} :
       /\ pc' = [pc EXCEPT ![r] = IF u = "none" THEN "sending" ELSE "reading"]
       /\ usage' = [usage EXCEPT ![r] = IF u = "none" THEN @ ELSE u]
  /\ UNCHANGED <<labelling, inFlight, status, delivered, ended, counts>>

(* A network read, parsed before it is yielded.  A usage that raises what   *)
(* the inner `except` does not name unwinds the generator to its `finally`. *)
Read(r) ==
  /\ pc[r] = "reading"
  /\ chunks[r] < MaxChunks
  /\ chunks' = [chunks EXCEPT ![r] = @ + 1]
  /\ \E u \in Usages \cup {"none"} :
       \/ /\ u \in {"odd", "infinite"}
          /\ pc' = [pc EXCEPT ![r] = "closing"]
          /\ ended' = [ended EXCEPT ![r] = "usage raised"]
          /\ UNCHANGED usage
       \/ /\ u \notin {"odd", "infinite"}
          /\ pc' = [pc EXCEPT ![r] = "sending"]
          /\ usage' = [usage EXCEPT ![r] = IF u = "none" THEN @ ELSE u]
          /\ UNCHANGED ended
  /\ UNCHANGED <<labelling, inFlight, status, delivered, counts>>

Sent(r) ==
  /\ pc[r] = "sending"
  /\ pc' = [pc EXCEPT ![r] = "reading"]
  /\ delivered' = [delivered EXCEPT ![r] = @ + 1]
  /\ UNCHANGED <<labelling, inFlight, status, usage, chunks, ended, counts>>

UpstreamEnds(r) ==
  /\ pc[r] = "reading"
  /\ pc' = [pc EXCEPT ![r] = "closing"]
  /\ ended' = [ended EXCEPT ![r] = "complete"]
  /\ UNCHANGED <<labelling, inFlight, stream, counts>>

UpstreamBreaksQuietly(r) ==
  /\ pc[r] = "reading"
  /\ pc' = [pc EXCEPT ![r] = "closing"]
  /\ ended' = [ended EXCEPT ![r] = "upstream broke"]
  /\ UNCHANGED <<labelling, inFlight, stream, counts>>

UpstreamBreaks(r) ==
  /\ pc[r] = "reading"
  /\ pc' = [pc EXCEPT ![r] = "closing"]
  /\ status' = [status EXCEPT ![r] = "stream_aborted"]
  /\ ended' = [ended EXCEPT ![r] = "upstream broke"]
  /\ UNCHANGED <<labelling, inFlight, usage, chunks, delivered, counts>>

(* The client leaves: CancelledError reaches the generator at its read; or  *)
(* the response is cancelled in its send and the generator, suspended at    *)
(* `yield raw`, is finalised with GeneratorExit, which no `except` names.  *)
ClientLeavesUncounted(r) ==
  /\ pc[r] = "reading"
  /\ pc' = [pc EXCEPT ![r] = "done"]
  /\ ended' = [ended EXCEPT ![r] = "client left"]
  /\ UNCHANGED <<labelling, inFlight, stream, counts>>

ClientLeavesReading(r) ==
  /\ pc[r] = "reading"
  /\ pc' = [pc EXCEPT ![r] = "closing"]
  /\ status' = [status EXCEPT ![r] = "stream_aborted"]
  /\ ended' = [ended EXCEPT ![r] = "client left"]
  /\ UNCHANGED <<labelling, inFlight, usage, chunks, delivered, counts>>

ClientLeavesSending(r) ==
  /\ pc[r] = "sending"
  /\ pc' = [pc EXCEPT ![r] = "closing"]
  /\ ended' = [ended EXCEPT ![r] = "client left"]
  /\ UNCHANGED <<labelling, inFlight, stream, counts>>

ClosedTwiceEnqueued(r) ==
  /\ pc[r] = "closing"
  /\ Finish(r, ended[r])
  /\ observed' = [observed EXCEPT ![r] = @ + 1]
  /\ shipped' = [shipped EXCEPT ![r] = @ + IF status[r] = "stream_aborted" THEN 2 ELSE 1]
  /\ UNCHANGED <<labelling, stream>>

(* The `finally` of the generator, after its await of upstream.aclose().   *)
Closed(r) ==
  /\ pc[r] = "closing"
  /\ Finish(r, ended[r])
  /\ Count(r, usage[r])
  /\ UNCHANGED <<labelling, stream>>

Answer(r) ==
  \/ PostFails(r) \/ PostAnswered(r)
  \/ OpenFails(r) \/ Opened(r)

StreamStep(r) ==
  \/ Read(r) \/ Sent(r)
  \/ UpstreamEnds(r) \/ UpstreamBreaks(r)
  \/ ClientLeavesReading(r) \/ ClientLeavesSending(r)
  \/ Closed(r)

AllOver ==
  /\ \A r \in Requests : pc[r] \in {"rejected", "done"}
  /\ UNCHANGED vars

Next ==
  \/ \E r \in Requests : Reject(r) \/ Arrive(r) \/ Unforwardable(r) \/ Answer(r) \/ StreamStep(r)
  \/ AllOver

Spec == Init /\ [][Next]_vars

(* The client's timeouts end every wait for upstream, a client takes what   *)
(* it is sent or leaves, and the event loop resumes what can run.  That a  *)
(* stream is finite is MaxChunks.                                          *)
FairSpec == Spec /\ \A r \in Requests : WF_vars(Answer(r)) /\ WF_vars(StreamStep(r))

-----------------------------------------------------------------------------
(* Properties.                                                             *)

Stages == {"idle", "rejected", "posting", "opening", "reading", "sending", "closing", "done"}

(* The types of the variables.                                             *)
TypeOK ==
  /\ pc \in [Requests -> Stages]
  /\ model \in [Requests -> Models \cup {"none"}]
  /\ label \in [Requests -> Models \cup {"none", "__other__"}]
  /\ seen \subseteq Models
  /\ inFlight \in Int
  /\ status \in [Requests -> {"none", "upstream status", "upstream_error", "stream_aborted"}]
  /\ usage \in [Requests -> {"none", "usable", "infinite", "negative"}]
  /\ chunks \in [Requests -> 0 .. MaxChunks]
  /\ delivered \in [Requests -> Nat]
  /\ ended \in [Requests -> {"no", "never built", "complete", "usage raised", "upstream broke", "client left"}]
  /\ observed \in [Requests -> Nat]
  /\ shipped \in [Requests -> Nat]

InWork == {r \in Requests : pc[r] \notin {"idle", "rejected", "done"}}

NeverBuilt == {r \in Requests : ended[r] = "never built"}

(* Whenever /metrics is scraped, between any two steps, the gauge is the    *)
(* number of requests being served, and for good of the streamed ones that *)
(* could not be built: no other exit path forgets or repeats dec().        *)
GaugeIsWorkInProgress == inFlight = Cardinality(InWork \cup NeverBuilt)

(* A request is counted, and its record enqueued, exactly when its work is  *)
(* over and once, on every exit path; only token counts that the counters  *)
(* cannot take lose the record.                                            *)
CountedOnce ==
  \A r \in Requests :
    IF pc[r] = "done"
    THEN /\ shipped[r] <= observed[r] /\ observed[r] <= 1
         /\ usage[r] \notin {"infinite", "negative"} => shipped[r] = 1
    ELSE observed[r] = 0 /\ shipped[r] = 0

(* A model has one label for the life of the process: a name seen before    *)
(* the cap was reached is not folded into "__other__" later, nor a folded  *)
(* one given its own series.                                               *)
LabelStable ==
  \A r, s \in Requests :
    model[r] = model[s] /\ model[r] # "none" => label[r] = label[s]

(* However many names clients send, the label takes at most max_model_labels *)
(* values and "__other__".                                                 *)
LabelsBounded ==
  Cardinality({label[r] : r \in Requests} \ {"none", "__other__"}) <= MaxLabels

(* A failure of upstream is never counted under upstream's status, and the  *)
(* two failure statuses mean what they say: nothing was streamed before an *)
(* "upstream_error", and a "stream_aborted" did not run to its end.        *)
StatusTellsEnd ==
  \A r \in Requests :
    /\ ended[r] = "upstream broke" => status[r] \in {"upstream_error", "stream_aborted"}
    /\ status[r] = "upstream_error" => ended[r] = "upstream broke" /\ chunks[r] = 0
    /\ status[r] = "stream_aborted" => ended[r] \in {"upstream broke", "client left"}

(* "the SSE byte stream is passed through untouched": when the generator    *)
(* closes, everything read from upstream was sent to the client, unless it *)
(* left; a usage that raises costs it the read that held it, and no other. *)
PassedThrough ==
  \A r \in Requests :
    pc[r] \in {"closing", "done"} /\ ended[r] # "client left"
      => delivered[r] = chunks[r] - IF ended[r] = "usage raised" /\ chunks[r] > 0 THEN 1 ELSE 0

(* Every request that is being served is counted in the end, except a plain *)
(* one whose answer holds an infinite token count.                         *)
CountedEventually ==
  \A r \in Requests : r \in InWork ~> observed[r] = 1 \/ usage[r] = "infinite"
=============================================================================
