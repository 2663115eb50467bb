----------------------------- MODULE ProxyProofs -----------------------------
(***************************************************************************)
(* Proofs about the proxy: for every finite set of requests, every set of  *)
(* models and every cap on the labels.                                     *)
(***************************************************************************)
EXTENDS Proxy, FiniteSetTheorems, TLAPS

Step(r) == Reject(r) \/ Arrive(r) \/ Unforwardable(r) \/ Answer(r) \/ StreamStep(r)

LEMMA NextLemma == [Next]_vars => (\E r \in Requests : Step(r)) \/ UNCHANGED vars
BY DEF Next, AllOver, Step

-----------------------------------------------------------------------------
(* Types.                                                                  *)

LEMMA TypeInit == Init => TypeOK
BY ProxyAssumption DEF Init, TypeOK, Stages

LEMMA LabelOfLemma ==
  ASSUME TypeOK, NEW m \in Models
  PROVE  LabelOf(m) \in Models \cup {"__other__"} /\ (LabelOf(m) \in {m, "__other__"})
BY DEF LabelOf

Statuses == {"none", "upstream status", "upstream_error", "stream_aborted"}
Tokens == {"none", "usable", "infinite", "negative"}
Ends == {"no", "never built", "complete", "usage raised", "upstream broke", "client left"}

(* A step of r changes at most r's own part of each variable.              *)
LEMMA Effects ==
  ASSUME NEW r \in Requests, Step(r), TypeOK
  PROVE  /\ \E x \in Stages : pc' = [pc EXCEPT ![r] = x]
         /\ status' = status \/ \E x \in Statuses : status' = [status EXCEPT ![r] = x]
         /\ ended' = ended \/ \E x \in Ends : ended' = [ended EXCEPT ![r] = x]
         /\ chunks' = chunks
            \/ (chunks[r] < MaxChunks /\ chunks' = [chunks EXCEPT ![r] = chunks[r] + 1])
         /\ delivered' = delivered \/ delivered' = [delivered EXCEPT ![r] = delivered[r] + 1]
         /\ observed' = observed \/ observed' = [observed EXCEPT ![r] = observed[r] + 1]
         /\ \/ shipped' = shipped
            \/ \E n \in {0, 1} : shipped' = [shipped EXCEPT ![r] = shipped[r] + n]
         /\ inFlight' \in {inFlight, inFlight + 1, inFlight - 1}
<1> USE DEF Step, Answer, StreamStep, Reject, Arrive, Unforwardable, PostFails, PostAnswered,
            OpenFails, Opened, Read, Sent, UpstreamEnds, UpstreamBreaks, ClientLeavesReading,
            ClientLeavesSending, Closed, Finish, Count, labelling, stream, counts
<1>1. \E x \in Stages : pc' = [pc EXCEPT ![r] = x]
  BY DEF Stages
<1>2. status' = status \/ \E x \in Statuses : status' = [status EXCEPT ![r] = x]
  BY DEF Statuses
<1>3. ended' = ended \/ \E x \in Ends : ended' = [ended EXCEPT ![r] = x]
  BY DEF Ends, TypeOK
<1>4. chunks' = chunks
        \/ (chunks[r] < MaxChunks /\ chunks' = [chunks EXCEPT ![r] = chunks[r] + 1])
  OBVIOUS
<1>5. delivered' = delivered \/ delivered' = [delivered EXCEPT ![r] = delivered[r] + 1]
  OBVIOUS
<1>6. observed' = observed \/ observed' = [observed EXCEPT ![r] = observed[r] + 1]
  OBVIOUS
<1>7. \/ shipped' = shipped
      \/ \E n \in {0, 1} : shipped' = [shipped EXCEPT ![r] = shipped[r] + n]
  OBVIOUS
<1>8. inFlight' \in {inFlight, inFlight + 1, inFlight - 1}
  OBVIOUS
<1> QED
  BY <1>1, <1>2, <1>3, <1>4, <1>5, <1>6, <1>7, <1>8

LEMMA UsageEffect ==
  ASSUME NEW r \in Requests, Step(r), usage \in [Requests -> Tokens]
  PROVE  usage' = usage \/ \E x \in Tokens : usage' = [usage EXCEPT ![r] = x]
<1>1. CASE PostAnswered(r)
  <2>1. PICK u \in Usages : usage' = [usage EXCEPT ![r] = IF u = "odd" THEN "none" ELSE u]
    BY <1>1 DEF PostAnswered
  <2>2. (IF u = "odd" THEN "none" ELSE u) \in Tokens
    BY ProxyAssumption DEF UsageKinds, Tokens
  <2> QED
    BY <2>1, <2>2
<1>2. CASE Read(r)
  <2>1. PICK u \in Usages \cup {"none"} :
          \/ usage' = usage
          \/ /\ u \notin {"odd", "infinite"}
             /\ usage' = [usage EXCEPT ![r] = IF u = "none" THEN usage[r] ELSE u]
    BY <1>2 DEF Read
  <2>2. u \in {"none", "usable", "negative"} => (IF u = "none" THEN usage[r] ELSE u) \in Tokens
    BY DEF Tokens
  <2>3. u \in UsageKinds \cup {"none"}
    BY ProxyAssumption
  <2> QED
    BY <2>1, <2>2, <2>3 DEF UsageKinds
<1> QED
  BY <1>1, <1>2 DEF Step, Answer, StreamStep, Reject, Arrive, Unforwardable, PostFails, OpenFails, Opened,
       Sent, UpstreamEnds, UpstreamBreaks, ClientLeavesReading, ClientLeavesSending,
       Closed, stream

LEMMA LabelEffect ==
  ASSUME NEW r \in Requests, Step(r)
  PROVE  \/ model' = model /\ label' = label /\ seen' = seen
         \/ TakeLabel(r)
BY DEF Step, Answer, StreamStep, Reject, Arrive, Unforwardable, PostFails, PostAnswered, OpenFails,
       Opened, Read, Sent, UpstreamEnds, UpstreamBreaks, ClientLeavesReading,
       ClientLeavesSending, Closed, labelling

LEMMA TypeStep == TypeOK /\ [Next]_vars => TypeOK'
<1> SUFFICES ASSUME TypeOK, NEW r \in Requests, Step(r) PROVE TypeOK'
  BY NextLemma DEF TypeOK, vars, labelling, stream, counts
<1>1. pc' \in [Requests -> Stages]
  BY Effects DEF TypeOK
<1>2. status' \in [Requests -> Statuses]
  BY Effects DEF TypeOK, Statuses
<1>3. ended' \in [Requests -> Ends]
  BY Effects DEF TypeOK, Ends
<1>4. chunks' \in [Requests -> 0 .. MaxChunks]
  <2>1. chunks \in [Requests -> 0 .. MaxChunks]
    BY DEF TypeOK
  <2>2. chunks[r] < MaxChunks => chunks[r] + 1 \in 0 .. MaxChunks
    BY <2>1, ProxyAssumption
  <2> QED
    BY <2>1, <2>2, Effects
<1>5. delivered' \in [Requests -> Nat]
  <2>1. delivered \in [Requests -> Nat]
    BY DEF TypeOK
  <2> QED
    BY <2>1, Effects
<1>6. observed' \in [Requests -> Nat]
  <2>1. observed \in [Requests -> Nat]
    BY DEF TypeOK
  <2> QED
    BY <2>1, Effects
<1>7. shipped' \in [Requests -> Nat]
  <2>1. shipped \in [Requests -> Nat]
    BY DEF TypeOK
  <2> QED
    BY <2>1, Effects
<1>8. inFlight' \in Int
  <2>1. inFlight \in Int
    BY DEF TypeOK
  <2> QED
    BY <2>1, Effects
<1>9. usage' \in [Requests -> Tokens]
  BY UsageEffect DEF TypeOK, Tokens
<1>10. /\ model' \in [Requests -> Models \cup {"none"}]
       /\ label' \in [Requests -> Models \cup {"none", "__other__"}]
       /\ seen' \subseteq Models
  <2>1. /\ model \in [Requests -> Models \cup {"none"}]
        /\ label \in [Requests -> Models \cup {"none", "__other__"}]
        /\ seen \subseteq Models
    BY DEF TypeOK
  <2>2. CASE model' = model /\ label' = label /\ seen' = seen
    BY <2>1, <2>2
  <2>3. ASSUME NEW m \in Models,
               model' = [model EXCEPT ![r] = m], label' = [label EXCEPT ![r] = LabelOf(m)],
               seen' = seen \cup ({LabelOf(m)} \ {"__other__"})
        PROVE  /\ model' \in [Requests -> Models \cup {"none"}]
               /\ label' \in [Requests -> Models \cup {"none", "__other__"}]
               /\ seen' \subseteq Models
    <3>1. LabelOf(m) \in Models \cup {"__other__"}
      BY LabelOfLemma
    <3> QED
      BY <2>1, <2>3, <3>1
  <2> QED
    BY <2>2, <2>3, LabelEffect DEF TakeLabel
<1> QED
  BY <1>1, <1>2, <1>3, <1>4, <1>5, <1>6, <1>7, <1>8, <1>9, <1>10
     DEF TypeOK, Statuses, Ends, Tokens

-----------------------------------------------------------------------------
(* Counting.                                                               *)

(* Another request's part of the state is left alone.                      *)
LEMMA Others ==
  ASSUME TypeOK, NEW r \in Requests, Step(r), NEW q \in Requests, q # r
  PROVE  /\ pc'[q] = pc[q] /\ status'[q] = status[q] /\ ended'[q] = ended[q]
         /\ chunks'[q] = chunks[q] /\ usage'[q] = usage[q]
         /\ observed'[q] = observed[q] /\ shipped'[q] = shipped[q]
<1>1. /\ pc \in [Requests -> Stages] /\ status \in [Requests -> Statuses]
      /\ ended \in [Requests -> Ends] /\ chunks \in [Requests -> 0 .. MaxChunks]
      /\ usage \in [Requests -> Tokens]
      /\ observed \in [Requests -> Nat] /\ shipped \in [Requests -> Nat]
  BY DEF TypeOK, Statuses, Ends, Tokens
<1>2. pc'[q] = pc[q]
  BY <1>1, Effects
<1>3. status'[q] = status[q]
  BY <1>1, Effects
<1>4. ended'[q] = ended[q]
  BY <1>1, Effects
<1>5. chunks'[q] = chunks[q]
  BY <1>1, Effects
<1>6. usage'[q] = usage[q]
  BY <1>1, UsageEffect
<1>7. observed'[q] = observed[q] /\ shipped'[q] = shipped[q]
  BY <1>1, Effects
<1> QED
  BY <1>2, <1>3, <1>4, <1>5, <1>6, <1>7

Counted(q) ==
  IF pc[q] = "done"
  THEN /\ shipped[q] <= observed[q] /\ observed[q] <= 1
       /\ usage[q] \notin {"infinite", "negative"} => shipped[q] = 1
  ELSE observed[q] = 0 /\ shipped[q] = 0

(* Finishing with Count() from nothing counted counts once.                *)
LEMMA CountLemma ==
  ASSUME TypeOK, NEW r \in Requests, NEW t, Count(r, t),
         observed[r] = 0, shipped[r] = 0, pc'[r] = "done",
         t = "negative" => usage'[r] = "negative"
  PROVE  Counted(r)'
<1>1. observed \in [Requests -> Nat] /\ shipped \in [Requests -> Nat]
  BY DEF TypeOK
<1>2. observed'[r] = 1 /\ shipped'[r] = IF t = "negative" THEN 0 ELSE 1
  BY <1>1 DEF Count
<1> QED
  BY <1>2 DEF Counted

LEMMA CountedStep == TypeOK /\ CountedOnce /\ [Next]_vars => CountedOnce'
<1> SUFFICES ASSUME TypeOK, \A q \in Requests : Counted(q), NEW r \in Requests, Step(r)
             PROVE  \A q \in Requests : Counted(q)'
  BY NextLemma DEF CountedOnce, Counted, vars, stream, counts
<1>1. ASSUME NEW q \in Requests, q # r PROVE Counted(q)'
  BY <1>1, Others DEF Counted
<1>2. Counted(r)'
  <2>1. Counted(r) /\ pc \in [Requests -> Stages] /\ usage \in [Requests -> Tokens]
    BY DEF TypeOK, Tokens
  <2>2. CASE PostFails(r) \/ OpenFails(r)
    <3>1. pc[r] # "done" /\ pc'[r] = "done" /\ Count(r, "none")
      BY <2>1, <2>2 DEF PostFails, OpenFails, Finish
    <3> QED
      BY <2>1, <3>1, CountLemma DEF Counted
  <2>3. CASE PostAnswered(r)
    <3>1. PICK u \in Usages :
            /\ usage' = [usage EXCEPT ![r] = IF u = "odd" THEN "none" ELSE u]
            /\ \/ u = "infinite" /\ UNCHANGED counts
               \/ Count(r, u)
      BY <2>3 DEF PostAnswered
    <3>2. pc[r] # "done" /\ pc'[r] = "done"
      BY <2>1, <2>3 DEF PostAnswered, Finish
    <3>3. usage'[r] = IF u = "odd" THEN "none" ELSE u
      BY <2>1, <3>1
    <3>4. CASE u = "infinite" /\ UNCHANGED counts
      BY <2>1, <3>2, <3>3, <3>4 DEF Counted, counts
    <3>5. CASE Count(r, u)
      BY <2>1, <3>2, <3>3, <3>5, CountLemma DEF Counted
    <3> QED
      BY <3>1, <3>4, <3>5
  <2>4. CASE Closed(r)
    <3>1. pc[r] # "done" /\ pc'[r] = "done" /\ Count(r, usage[r]) /\ usage' = usage
      BY <2>1, <2>4 DEF Closed, Finish, stream
    <3> QED
      BY <2>1, <3>1, CountLemma DEF Counted
  <2>5. CASE \/ Reject(r) \/ Arrive(r) \/ Unforwardable(r)
             \/ Opened(r) \/ Read(r) \/ Sent(r) \/ UpstreamEnds(r)
             \/ UpstreamBreaks(r) \/ ClientLeavesReading(r) \/ ClientLeavesSending(r)
    <3>1. pc[r] # "done" /\ observed' = observed /\ shipped' = shipped
      BY <2>5 DEF Reject, Arrive, Unforwardable, Opened, Read, Sent, UpstreamEnds, UpstreamBreaks,
                  ClientLeavesReading, ClientLeavesSending, counts
    <3>2. pc'[r] # "done"
      BY <2>1, <2>5 DEF Reject, Arrive, Unforwardable, Opened, Read, Sent, UpstreamEnds,
                        UpstreamBreaks, ClientLeavesReading, ClientLeavesSending
    <3> QED
      BY <2>1, <3>1, <3>2 DEF Counted
  <2> QED
    BY <2>2, <2>3, <2>4, <2>5 DEF Step, Answer, StreamStep
<1> QED
  BY <1>1, <1>2

-----------------------------------------------------------------------------
(* Statuses.                                                               *)

(* The statuses by stage: the local `status` is upstream's from the opening *)
(* of the stream until something aborts it.                                *)
StatusOf(q) ==
  /\ pc[q] \in {"idle", "rejected", "posting", "opening"} => status[q] = "none" /\ chunks[q] = 0
  /\ pc[q] \in {"idle", "posting", "opening"} => ended[q] = "no"
  /\ pc[q] = "rejected" => ended[q] \in {"no", "never built"}
  /\ ended[q] = "never built" => pc[q] = "rejected"
  /\ pc[q] \in {"reading", "sending"} => status[q] = "upstream status" /\ ended[q] = "no"
  /\ ended[q] = "upstream broke" => status[q] \in {"upstream_error", "stream_aborted"}
  /\ status[q] = "upstream_error" => ended[q] = "upstream broke" /\ chunks[q] = 0
  /\ status[q] = "stream_aborted" => ended[q] \in {"upstream broke", "client left"}

StatusInv == \A q \in Requests : StatusOf(q)

LEMMA StatusStep == TypeOK /\ StatusInv /\ [Next]_vars => StatusInv'
<1> SUFFICES ASSUME TypeOK, StatusInv, NEW r \in Requests, Step(r) PROVE StatusInv'
  BY NextLemma DEF StatusInv, StatusOf, vars, stream
<1>1. ASSUME NEW q \in Requests, q # r PROVE StatusOf(q)'
  BY <1>1, Others DEF StatusInv, StatusOf
<1>2. StatusOf(r)'
  <2>1. /\ StatusOf(r)
        /\ pc \in [Requests -> Stages] /\ status \in [Requests -> Statuses]
        /\ ended \in [Requests -> Ends] /\ chunks \in [Requests -> 0 .. MaxChunks]
    BY DEF StatusInv, TypeOK, Statuses, Ends
  <2>2. CASE Reject(r) \/ Arrive(r) \/ Unforwardable(r)
    <3>1. /\ pc[r] = "idle" /\ status' = status /\ chunks' = chunks
          /\ \/ pc'[r] \in {"rejected", "posting", "opening"} /\ ended' = ended
             \/ pc'[r] = "rejected" /\ ended'[r] = "never built"
      BY <2>1, <2>2 DEF Reject, Arrive, Unforwardable, stream
    <3> QED
      BY <2>1, <3>1 DEF StatusOf
  <2>3. CASE PostFails(r) \/ OpenFails(r)
    <3>1. /\ pc[r] \in {"posting", "opening"} /\ pc'[r] = "done" /\ chunks' = chunks
          /\ status'[r] = "upstream_error" /\ ended'[r] = "upstream broke"
      BY <2>1, <2>3 DEF PostFails, OpenFails, Finish
    <3> QED
      BY <2>1, <3>1 DEF StatusOf
  <2>4. CASE PostAnswered(r)
    <3>1. /\ pc'[r] = "done" /\ status'[r] = "upstream status"
          /\ ended'[r] \in {"usage raised", "complete"}
      BY <2>1, <2>4 DEF PostAnswered, Finish
    <3> QED
      BY <3>1 DEF StatusOf
  <2>5. CASE Opened(r)
    <3>1. /\ pc[r] = "opening" /\ pc'[r] = "reading" /\ status'[r] = "upstream status"
          /\ ended' = ended
      BY <2>1, <2>5 DEF Opened
    <3> QED
      BY <2>1, <3>1 DEF StatusOf
  <2>6. CASE Read(r) \/ Sent(r) \/ UpstreamEnds(r) \/ ClientLeavesSending(r)
    <3>1. pc[r] \in {"reading", "sending"} /\ status' = status
      BY <2>6 DEF Read, Sent, UpstreamEnds, ClientLeavesSending, stream
    <3>2. \/ pc'[r] \in {"reading", "sending"} /\ ended' = ended
          \/ pc'[r] = "closing" /\ ended'[r] \in {"usage raised", "complete", "client left"}
      BY <2>1, <2>6 DEF Read, Sent, UpstreamEnds, ClientLeavesSending
    <3>3. status[r] = "upstream status" /\ ended[r] = "no"
      BY <2>1, <3>1 DEF StatusOf
    <3>4. /\ status'[r] = "upstream status" /\ pc'[r] \in {"reading", "sending", "closing"}
          /\ ended'[r] \in {"no", "usage raised", "complete", "client left"}
          /\ pc'[r] # "closing" => ended'[r] = "no"
      BY <3>1, <3>2, <3>3
    <3> QED
      BY <3>4 DEF StatusOf
  <2>7. CASE UpstreamBreaks(r) \/ ClientLeavesReading(r)
    <3>1. /\ pc'[r] = "closing" /\ status'[r] = "stream_aborted"
          /\ ended'[r] \in {"upstream broke", "client left"}
      BY <2>1, <2>7 DEF UpstreamBreaks, ClientLeavesReading
    <3> QED
      BY <3>1 DEF StatusOf
  <2>8. CASE Closed(r)
    <3>1. /\ pc[r] = "closing" /\ pc'[r] = "done"
          /\ status' = status /\ chunks' = chunks /\ ended'[r] = ended[r]
      BY <2>1, <2>8 DEF Closed, Finish, stream
    <3> QED
      BY <2>1, <3>1 DEF StatusOf
  <2> QED
    BY <2>2, <2>3, <2>4, <2>5, <2>6, <2>7, <2>8 DEF Step, Answer, StreamStep
<1> QED
  BY <1>1, <1>2 DEF StatusInv

-----------------------------------------------------------------------------
(* The stream reaches the client.                                          *)

(* While a request lives, the client lacks at most the chunk in its send;   *)
(* what PassedThrough promises at the end follows from that.               *)
PassedOf(q) ==
  /\ pc[q] \in {"idle", "posting", "opening", "reading"} => delivered[q] = chunks[q]
  /\ pc[q] = "sending" => chunks[q] = delivered[q] + 1
  /\ pc[q] \in {"closing", "done"} /\ ended[q] # "client left"
       => delivered[q] = chunks[q] - IF ended[q] = "usage raised" /\ chunks[q] > 0 THEN 1 ELSE 0

PassedInv == \A q \in Requests : PassedOf(q)

LEMMA PassedStep == TypeOK /\ StatusInv /\ PassedInv /\ [Next]_vars => PassedInv'
<1> SUFFICES ASSUME TypeOK, StatusInv, PassedInv, NEW r \in Requests, Step(r) PROVE PassedInv'
  BY NextLemma DEF PassedInv, PassedOf, vars, stream
<1>1. /\ pc \in [Requests -> Stages] /\ ended \in [Requests -> Ends]
      /\ chunks \in [Requests -> 0 .. MaxChunks] /\ delivered \in [Requests -> Nat]
  BY DEF TypeOK, Ends
<1>2. chunks[r] \in Nat /\ delivered[r] \in Nat
  BY <1>1, ProxyAssumption
<1>3. ASSUME NEW q \in Requests, q # r PROVE PassedOf(q)'
  <2>1. delivered'[q] = delivered[q]
    BY <1>1, <1>3, Effects
  <2> QED
    BY <1>3, <2>1, Others DEF PassedInv, PassedOf
<1>4. PassedOf(r)'
  <2>1. PassedOf(r) /\ StatusOf(r)
    BY DEF PassedInv, StatusInv
  <2>2. CASE Reject(r) \/ Arrive(r) \/ Unforwardable(r)
    <3>1. /\ pc[r] = "idle" /\ chunks' = chunks /\ delivered' = delivered
          /\ pc'[r] \in {"rejected", "posting", "opening"}
      BY <1>1, <2>2 DEF Reject, Arrive, Unforwardable, stream
    <3> QED
      BY <2>1, <3>1 DEF PassedOf
  <2>3. CASE PostFails(r) \/ OpenFails(r) \/ PostAnswered(r)
    <3>1. /\ pc[r] \in {"posting", "opening"} /\ pc'[r] = "done"
          /\ chunks' = chunks /\ delivered' = delivered
      BY <1>1, <2>3 DEF PostFails, OpenFails, PostAnswered, Finish
    <3>2. chunks[r] = 0 /\ delivered[r] = 0
      BY <2>1, <3>1 DEF PassedOf, StatusOf
    <3> QED
      BY <3>1, <3>2 DEF PassedOf
  <2>4. CASE Opened(r)
    <3>1. /\ pc[r] = "opening" /\ pc'[r] = "reading"
          /\ chunks' = chunks /\ delivered' = delivered
      BY <1>1, <2>4 DEF Opened
    <3> QED
      BY <2>1, <3>1 DEF PassedOf
  <2>5. CASE Read(r)
    <3>1. /\ pc[r] = "reading" /\ chunks'[r] = chunks[r] + 1 /\ delivered' = delivered
          /\ \/ pc'[r] = "closing" /\ ended'[r] = "usage raised"
             \/ pc'[r] = "sending"
      BY <1>1, <2>5 DEF Read
    <3>2. delivered[r] = chunks[r]
      BY <2>1, <3>1 DEF PassedOf
    <3>3. delivered'[r] \in Nat /\ chunks'[r] \in Nat /\ chunks'[r] = delivered'[r] + 1
      <4>1. chunks'[r] = chunks[r] + 1 /\ delivered'[r] = chunks[r]
        BY <3>1, <3>2
      <4> QED
        BY <1>2, <4>1
    <3>4. chunks'[r] > 0 /\ delivered'[r] = chunks'[r] - 1
      BY <3>3
    <3>5. CASE pc'[r] = "closing" /\ ended'[r] = "usage raised"
      BY <3>3, <3>4, <3>5 DEF PassedOf
    <3>6. CASE pc'[r] = "sending"
      BY <3>3, <3>6 DEF PassedOf
    <3> QED
      BY <3>1, <3>5, <3>6
  <2>6. CASE Sent(r)
    <3>1. /\ pc[r] = "sending" /\ pc'[r] = "reading"
          /\ chunks' = chunks /\ delivered'[r] = delivered[r] + 1
      BY <1>1, <2>6 DEF Sent
    <3> QED
      BY <1>2, <2>1, <3>1 DEF PassedOf
  <2>7. CASE UpstreamEnds(r) \/ UpstreamBreaks(r) \/ ClientLeavesReading(r)
    <3>1. /\ pc[r] = "reading" /\ pc'[r] = "closing"
          /\ chunks' = chunks /\ delivered' = delivered
          /\ ended'[r] \in {"complete", "upstream broke", "client left"}
      BY <1>1, <2>7 DEF UpstreamEnds, UpstreamBreaks, ClientLeavesReading, stream
    <3>2. delivered'[r] = chunks'[r] /\ chunks'[r] \in Nat
      BY <1>2, <2>1, <3>1 DEF PassedOf
    <3>3. chunks'[r] = chunks'[r] - 0
      BY <3>2
    <3> QED
      BY <3>1, <3>2, <3>3 DEF PassedOf
  <2>8. CASE ClientLeavesSending(r)
    <3>1. pc'[r] = "closing" /\ ended'[r] = "client left"
      BY <1>1, <2>8 DEF ClientLeavesSending
    <3> QED
      BY <3>1 DEF PassedOf
  <2>9. CASE Closed(r)
    <3>1. /\ pc[r] = "closing" /\ pc'[r] = "done" /\ ended'[r] = ended[r]
          /\ chunks' = chunks /\ delivered' = delivered
      BY <1>1, <2>9 DEF Closed, Finish, stream
    <3> QED
      BY <2>1, <3>1 DEF PassedOf
  <2> QED
    BY <2>2, <2>3, <2>4, <2>5, <2>6, <2>7, <2>8, <2>9 DEF Step, Answer, StreamStep
<1> QED
  BY <1>3, <1>4 DEF PassedInv

-----------------------------------------------------------------------------
(* The gauge.                                                              *)

Gauged == InWork \cup NeverBuilt

LEMMA GaugeStep ==
  TypeOK /\ StatusInv /\ GaugeIsWorkInProgress /\ [Next]_vars => GaugeIsWorkInProgress'
<1> SUFFICES ASSUME TypeOK, StatusInv, GaugeIsWorkInProgress, NEW r \in Requests, Step(r)
             PROVE  GaugeIsWorkInProgress'
  BY NextLemma DEF GaugeIsWorkInProgress, InWork, NeverBuilt, vars
<1>1. /\ pc \in [Requests -> Stages] /\ ended \in [Requests -> Ends]
      /\ inFlight = Cardinality(Gauged)
      /\ IsFiniteSet(Gauged) /\ Cardinality(Gauged) \in Nat
  <2>1. Gauged \in SUBSET Requests
    BY DEF Gauged, InWork, NeverBuilt
  <2> QED
    BY <2>1, ProxyAssumption, FS_Subset, FS_CardinalityType
       DEF TypeOK, Ends, GaugeIsWorkInProgress, Gauged
<1>2. /\ \A q \in Requests : q # r => (q \in Gauged' <=> q \in Gauged)
      /\ Gauged \subseteq Requests /\ Gauged' \subseteq Requests
  BY Others DEF Gauged, InWork, NeverBuilt
<1>3. StatusOf(r)
  BY DEF StatusInv
<1>4. CASE r \notin Gauged /\ r \in Gauged' /\ inFlight' = inFlight + 1
  <2>1. Gauged' = Gauged \cup {r}
    BY <1>2, <1>4
  <2>2. inFlight' = Cardinality(Gauged')
    BY <1>1, <1>4, <2>1, FS_AddElement
  <2> QED
    BY <2>2 DEF GaugeIsWorkInProgress, Gauged
<1>5. CASE r \in Gauged /\ r \notin Gauged' /\ inFlight' = inFlight - 1
  <2>1. Gauged' = Gauged \ {r}
    BY <1>2, <1>5
  <2>2. inFlight' = Cardinality(Gauged')
    BY <1>1, <1>5, <2>1, FS_RemoveElement
  <2> QED
    BY <2>2 DEF GaugeIsWorkInProgress, Gauged
<1>6. CASE (r \in Gauged <=> r \in Gauged') /\ inFlight' = inFlight
  <2>1. Gauged' = Gauged
    BY <1>2, <1>6
  <2> QED
    BY <1>1, <1>6, <2>1 DEF GaugeIsWorkInProgress, Gauged
<1>7. CASE Arrive(r) \/ Reject(r) \/ Unforwardable(r)
  <2>1. r \notin Gauged
    BY <1>3, <1>7 DEF Arrive, Reject, Unforwardable, StatusOf, Gauged, InWork, NeverBuilt
  <2>2. \/ pc'[r] \in {"posting", "opening"} /\ inFlight' = inFlight + 1
        \/ pc'[r] = "rejected" /\ ended'[r] = "never built" /\ inFlight' = inFlight + 1
        \/ pc'[r] = "rejected" /\ ended'[r] = ended[r] /\ inFlight' = inFlight
    BY <1>1, <1>7 DEF Arrive, Reject, Unforwardable
  <2>3. ended[r] = "no"
    BY <1>3, <1>7 DEF Arrive, Reject, Unforwardable, StatusOf
  <2>4. \/ r \in Gauged' /\ inFlight' = inFlight + 1
        \/ r \notin Gauged' /\ inFlight' = inFlight
    BY <2>2, <2>3 DEF Gauged, InWork, NeverBuilt
  <2> QED
    BY <1>4, <1>6, <2>1, <2>4
<1>8. CASE PostFails(r) \/ PostAnswered(r) \/ OpenFails(r) \/ Closed(r)
  <2>1. pc[r] \in {"posting", "opening", "closing"} /\ pc'[r] = "done" /\ inFlight' = inFlight - 1
    BY <1>1, <1>8 DEF PostFails, PostAnswered, OpenFails, Closed, Finish
  <2>2. ended[r] # "never built"
    BY <1>3, <2>1 DEF StatusOf
  <2>3. ended'[r] # "never built"
    BY <1>1, <1>8, <2>2 DEF PostFails, PostAnswered, OpenFails, Closed, Finish
  <2>4. r \in Gauged /\ r \notin Gauged'
    BY <2>1, <2>3 DEF Gauged, InWork, NeverBuilt
  <2> QED
    BY <1>5, <2>1, <2>4
<1>9. CASE \/ Opened(r) \/ Read(r) \/ Sent(r) \/ UpstreamEnds(r)
           \/ UpstreamBreaks(r) \/ ClientLeavesReading(r) \/ ClientLeavesSending(r)
  <2>1. pc[r] \in {"opening", "reading", "sending"} /\ inFlight' = inFlight
    BY <1>9 DEF Opened, Read, Sent, UpstreamEnds, UpstreamBreaks,
                ClientLeavesReading, ClientLeavesSending
  <2>2. pc'[r] \in {"reading", "sending", "closing"}
    BY <1>1, <1>9 DEF Opened, Read, Sent, UpstreamEnds, UpstreamBreaks,
                      ClientLeavesReading, ClientLeavesSending
  <2>3. r \in Gauged /\ r \in Gauged'
    BY <2>1, <2>2 DEF Gauged, InWork
  <2> QED
    BY <1>6, <2>1, <2>3
<1> QED
  BY <1>7, <1>8, <1>9 DEF Step, Answer, StreamStep

-----------------------------------------------------------------------------
(* Labels.                                                                 *)

(* A labelled request has its own name, which then is seen, or the common   *)
(* one, and then no place was or will be left for its name.                *)
Labelled(q) ==
  model[q] # "none" =>
    \/ label[q] = model[q] /\ model[q] \in seen
    \/ label[q] = "__other__" /\ model[q] \notin seen /\ Cardinality(seen) >= MaxLabels

LabelInv ==
  /\ IsFiniteSet(seen) /\ Cardinality(seen) <= MaxLabels
  /\ \A q \in Requests :
       /\ Labelled(q)
       /\ label[q] \in seen \cup {"none", "__other__"}

LEMMA LabelInit == Init => LabelInv
<1> SUFFICES ASSUME Init PROVE LabelInv
  OBVIOUS
<1>1. IsFiniteSet(seen) /\ Cardinality(seen) = 0
  BY FS_EmptySet DEF Init
<1> QED
  BY <1>1, ProxyAssumption DEF Init, LabelInv, Labelled

(* A name not yet seen is added only while there is room for it.           *)
LEMMA SeenGrows ==
  ASSUME LabelInv, NEW m \in Models,
         seen' = seen \cup ({LabelOf(m)} \ {"__other__"})
  PROVE  /\ IsFiniteSet(seen') /\ Cardinality(seen') <= MaxLabels
         /\ seen' = seen \/ (seen' = seen \cup {m} /\ Cardinality(seen) < MaxLabels)
         /\ \/ LabelOf(m) = m /\ m \in seen'
            \/ LabelOf(m) = "__other__" /\ m \notin seen' /\ seen' = seen
                /\ Cardinality(seen) >= MaxLabels
<1>1. /\ IsFiniteSet(seen) /\ Cardinality(seen) <= MaxLabels /\ Cardinality(seen) \in Nat
      /\ MaxLabels \in Nat /\ m # "__other__"
  BY ProxyAssumption, FS_CardinalityType DEF LabelInv
<1>2. CASE m \in seen
  BY <1>1, <1>2 DEF LabelOf
<1>3. CASE m \notin seen /\ Cardinality(seen) < MaxLabels
  <2>1. LabelOf(m) = m /\ seen' = seen \cup {m}
    BY <1>1, <1>3 DEF LabelOf
  <2> QED
    BY <1>1, <1>3, <2>1, FS_AddElement
<1>4. CASE m \notin seen /\ ~(Cardinality(seen) < MaxLabels)
  <2>1. LabelOf(m) = "__other__" /\ seen' = seen
    BY <1>4 DEF LabelOf
  <2> QED
    BY <1>1, <1>4, <2>1
<1> QED
  BY <1>2, <1>3, <1>4

LEMMA LabelStep == TypeOK /\ LabelInv /\ [Next]_vars => LabelInv'
<1> SUFFICES ASSUME TypeOK, LabelInv, NEW r \in Requests, Step(r) PROVE LabelInv'
  BY NextLemma DEF LabelInv, Labelled, vars, labelling
<1>1. CASE model' = model /\ label' = label /\ seen' = seen
  BY <1>1 DEF LabelInv, Labelled
<1>2. ASSUME NEW m \in Models, model' = [model EXCEPT ![r] = m],
             label' = [label EXCEPT ![r] = LabelOf(m)],
             seen' = seen \cup ({LabelOf(m)} \ {"__other__"})
      PROVE  LabelInv'
  <2>1. /\ IsFiniteSet(seen') /\ Cardinality(seen') <= MaxLabels
        /\ seen' = seen \/ (seen' = seen \cup {m} /\ Cardinality(seen) < MaxLabels)
        /\ \/ LabelOf(m) = m /\ m \in seen'
           \/ LabelOf(m) = "__other__" /\ m \notin seen' /\ seen' = seen
               /\ Cardinality(seen) >= MaxLabels
    BY <1>2, SeenGrows
  <2>2. /\ model \in [Requests -> Models \cup {"none"}]
        /\ label \in [Requests -> Models \cup {"none", "__other__"}]
        /\ Cardinality(seen) \in Nat /\ MaxLabels \in Nat
    BY ProxyAssumption, FS_CardinalityType DEF TypeOK, LabelInv
  <2>3. ASSUME NEW q \in Requests, q # r
        PROVE  Labelled(q)' /\ label'[q] \in seen' \cup {"none", "__other__"}
    <3>1. model'[q] = model[q] /\ label'[q] = label[q]
      BY <1>2, <2>2, <2>3
    <3>2. Labelled(q) /\ label[q] \in seen \cup {"none", "__other__"}
      BY DEF LabelInv
    <3>3. CASE seen' = seen
      BY <3>1, <3>2, <3>3 DEF Labelled
    <3>4. CASE seen' = seen \cup {m} /\ Cardinality(seen) < MaxLabels
      <4>1. model[q] # "none" => label[q] = model[q] /\ model[q] \in seen
        BY <2>2, <3>2, <3>4 DEF Labelled
      <4> QED
        BY <3>1, <3>2, <3>4, <4>1 DEF Labelled
    <3> QED
      BY <2>1, <3>3, <3>4
  <2>4. Labelled(r)' /\ label'[r] \in seen' \cup {"none", "__other__"}
    <3>1. model'[r] = m /\ label'[r] = LabelOf(m)
      BY <1>2, <2>2
    <3> QED
      BY <2>1, <3>1 DEF Labelled
  <2> QED
    BY <2>1, <2>3, <2>4 DEF LabelInv
<1> QED
  BY <1>1, <1>2, LabelEffect DEF TakeLabel

LEMMA LabelConsequences == LabelInv => LabelStable /\ LabelsBounded
<1> SUFFICES ASSUME LabelInv PROVE LabelStable /\ LabelsBounded
  OBVIOUS
<1>1. LabelStable
  BY DEF LabelInv, Labelled, LabelStable
<1>2. LabelsBounded
  <2> DEFINE L == {label[r] : r \in Requests} \ {"none", "__other__"}
  <2>1. L \in SUBSET seen
    BY DEF LabelInv
  <2>2. Cardinality(L) <= Cardinality(seen) /\ Cardinality(L) \in Nat /\ Cardinality(seen) \in Nat
    BY <2>1, FS_Subset, FS_CardinalityType DEF LabelInv
  <2> HIDE DEF L
  <2>3. Cardinality(L) <= MaxLabels
    BY <2>2, ProxyAssumption DEF LabelInv
  <2> QED
    BY <2>3 DEF L, LabelsBounded
<1> QED
  BY <1>1, <1>2

-----------------------------------------------------------------------------
(* The inductive invariant of the proxy.                                   *)
IInv ==
  TypeOK /\ GaugeIsWorkInProgress /\ CountedOnce /\ LabelInv /\ StatusInv /\ PassedInv

THEOREM Invariance == Spec => []IInv
<1>1. Init => IInv
  <2> SUFFICES ASSUME Init PROVE IInv
    OBVIOUS
  <2>1. GaugeIsWorkInProgress
    <3>1. InWork \cup NeverBuilt = {}
      BY DEF Init, InWork, NeverBuilt
    <3> QED
      BY <3>1, FS_EmptySet DEF Init, GaugeIsWorkInProgress
  <2>2. CountedOnce /\ StatusInv /\ PassedInv
    BY DEF Init, CountedOnce, StatusInv, StatusOf, PassedInv, PassedOf
  <2> QED
    BY <2>1, <2>2, TypeInit, LabelInit DEF IInv
<1>2. IInv /\ [Next]_vars => IInv'
  BY TypeStep, GaugeStep, CountedStep, LabelStep, StatusStep, PassedStep DEF IInv
<1> QED
  BY <1>1, <1>2, PTL DEF Spec

(* The variables keep their types.                                         *)
THEOREM TypeCorrect == Spec => []TypeOK
<1>1. IInv => TypeOK
  BY DEF IInv
<1> QED
  BY <1>1, Invariance, PTL

(* For any number of requests in any interleaving, a scrape of the gauge    *)
(* sees the requests being served and those that could not be built.       *)
THEOREM GaugeCorrect == Spec => []GaugeIsWorkInProgress
<1>1. IInv => GaugeIsWorkInProgress
  BY DEF IInv
<1> QED
  BY <1>1, Invariance, PTL

(* Each request is counted once, and only when it is over.                 *)
THEOREM CountingCorrect == Spec => []CountedOnce
<1>1. IInv => CountedOnce
  BY DEF IInv
<1> QED
  BY <1>1, Invariance, PTL

(* The label of a model never changes, whatever the clients send and       *)
(* whatever the cap.                                                       *)
THEOREM LabelsCorrect == Spec => []LabelStable
<1>1. IInv => LabelStable
  BY LabelConsequences DEF IInv
<1> QED
  BY <1>1, Invariance, PTL

(* There are at most max_model_labels labels beside "__other__".           *)
THEOREM LabelCap == Spec => []LabelsBounded
<1>1. IInv => LabelsBounded
  BY LabelConsequences DEF IInv
<1> QED
  BY <1>1, Invariance, PTL

(* A failure of upstream is never counted under upstream's own status.     *)
THEOREM StatusCorrect == Spec => []StatusTellsEnd
<1>1. IInv => StatusTellsEnd
  BY DEF IInv, StatusInv, StatusOf, StatusTellsEnd
<1> QED
  BY <1>1, Invariance, PTL

(* What is read from upstream is sent to the client, but for a client that  *)
(* leaves and the read whose usage raises, however the requests interleave. *)
THEOREM PassingCorrect == Spec => []PassedThrough
<1>1. IInv => PassedThrough
  BY DEF IInv, PassedInv, PassedOf, PassedThrough
<1> QED
  BY <1>1, Invariance, PTL
=============================================================================
