------------------------------ MODULE SseStream ------------------------------
(***************************************************************************)
(* What the sidecar measures on one streamed completion: SSELineBuffer and *)
(* the loop of instrumented() in src/infersight/proxy.py, StreamTimer and  *)
(* the histograms it feeds in src/infersight/metrics.py.                   *)
(*                                                                         *)
(* The byte stream is a sequence of symbols.  A line is what lies between   *)
(* two "\n"; an event line is "data:" and a payload, which is one symbol.    *)
(* The network may cut the stream anywhere, a read is any non-empty prefix  *)
(* of what is left.                                                        *)
(* Time is an integer clock; any time may pass before a read.              *)
(***************************************************************************)
EXTENDS Integers, Sequences, FiniteSetsExt

CONSTANTS
  Streams,      \* the byte streams upstream may send, sequences of Symbols
  Tokens,       \* Tokens[u]: completion_tokens of usage payload u
  MaxDelay      \* bound of the model on the time between two steps

UsagePayloads == DOMAIN Tokens
ContentPayloads == {"content", "content, null usage"}
Symbols == {"\n", "data:", ": comment", "[DONE]"} \cup ContentPayloads \cup UsagePayloads

ASSUME SseAssumption ==
  /\ Streams \subseteq Seq(Symbols)
  /\ Tokens \in [UsagePayloads -> Nat] /\ "none" \notin UsagePayloads
  /\ MaxDelay \in Nat

VARIABLES
  wire,         \* what upstream has still to send
  consumed,     \* history: what was read so far
  buf,          \* SSELineBuffer._buf
  content,      \* content_chunks
  usage,        \* the usage payload taken last, or "none"
  clock,        \* time.perf_counter()
  first,        \* StreamTimer.first_token_at
  last,         \* StreamTimer.last_token_at
  chunks,       \* StreamTimer.chunks
  gapSum,       \* StreamTimer.gap_sum
  gaps,         \* history: gaps given to the tbt histogram
  pc,           \* "reading", "closing" (awaiting upstream.aclose()) or "done"
  records       \* the record observed, if any

input == <<wire, consumed, buf>>
tally == <<content, usage>>
timer == <<first, last, chunks, gapSum, gaps>>
vars == <<input, tally, clock, timer, pc, records>>

Never == -1     \* None
Start == 0      \* StreamTimer.start

Init ==
  /\ wire \in Streams
  /\ consumed = << >> /\ buf = << >>
  /\ content = 0 /\ usage = "none"
  /\ clock = Start
  /\ first = Never /\ last = Never /\ chunks = 0 /\ gapSum = 0 /\ gaps = 0
  /\ pc = "reading"
  /\ records = << >>

-----------------------------------------------------------------------------
(* SSELineBuffer.feed(), of what the buffer held and what was read.  Lines   *)
(* go by the position of their "\n".                                       *)

LineEnds(s) == {e \in DOMAIN s : s[e] = "\n"}

(* Where the line before position i ends.                                  *)
EndBefore(s, i) == Max({0} \cup {e \in LineEnds(s) : e < i})

(* The complete lines that are events other than [DONE], and what they hold. *)
Events(s) ==
  {e \in LineEnds(s) : LET b == EndBefore(s, e) IN
     b + 2 < e /\ s[b + 1] = "data:" /\ s[b + 2] # "[DONE]"}

Payload(s, e) == s[EndBefore(s, e) + 2]

(* Plausible bugs of the operators below, none of them part of the          *)
(* specification: the partial line is dropped (RestForgetful), the gap is  *)
(* measured from the first chunk or with the wrong sign.                   *)
RestForgetful(s) == << >>

(* The partial line, which is kept.                                        *)
Rest(s) == SubSeq(s, EndBefore(s, Len(s) + 1) + 1, Len(s))

-----------------------------------------------------------------------------
(* StreamTimer.on_chunk(), once for a read that completed a payload; its    *)
(* gap goes to the tbt histogram.                                          *)

OnChunkFromFirst(now) ==
  /\ chunks' = chunks + 1
  /\ last' = now
  /\ IF first = Never
     THEN first' = now /\ UNCHANGED <<gapSum, gaps>>
     ELSE /\ gapSum' = gapSum + (now - first)
          /\ gaps' = gaps + 1
          /\ UNCHANGED first

OnChunkSwapped(now) ==
  /\ chunks' = chunks + 1
  /\ last' = now
  /\ IF first = Never
     THEN first' = now /\ UNCHANGED <<gapSum, gaps>>
     ELSE /\ gapSum' = gapSum + (last - now)
          /\ gaps' = gaps + 1
          /\ UNCHANGED first

OnChunk(now) ==
  /\ chunks' = chunks + 1
  /\ last' = now
  /\ IF first = Never
     THEN first' = now /\ UNCHANGED <<gapSum, gaps>>
     ELSE /\ gapSum' = gapSum + (now - last)
          /\ gaps' = gaps + 1
          /\ UNCHANGED first

(* The payloads of a read are tallied one by one: a usage replaces the one  *)
(* before and is no content.  A usage whose count raises aborts the stream; *)
(* that end of a request is in Proxy (Read, UsageKinds).                   *)
Tally(s) ==
  LET reports == {e \in Events(s) : Payload(s, e) \in UsagePayloads} IN
  /\ content' = content + Cardinality(Events(s) \ reports)
  /\ usage' = IF reports = {} THEN usage ELSE Payload(s, Max(reports))

Read ==
  /\ pc = "reading"
  /\ \E k \in 1 .. Len(wire), delay \in 0 .. MaxDelay :
       LET raw == SubSeq(wire, 1, k)
           held == buf \o raw
       IN  /\ wire' = SubSeq(wire, k + 1, Len(wire))
           /\ consumed' = consumed \o raw
           /\ buf' = Rest(held)
           /\ clock' = clock + delay
           /\ IF Events(held) = {} THEN UNCHANGED timer ELSE OnChunk(clock + delay)
           /\ Tally(held)
  /\ UNCHANGED <<pc, records>>

(* Upstream ends, breaks off, or the client leaves; a partial line that is  *)
(* left in the buffer is never looked at.                                  *)
End ==
  /\ pc = "reading"
  /\ pc' = "closing"
  /\ UNCHANGED <<input, tally, clock, timer, records>>

(* completion_toks or content_chunks: 0 tokens count as no usage.          *)
Completion ==
  LET exact == IF usage = "none" THEN 0 ELSE Tokens[usage]
  IN  IF exact # 0 THEN exact ELSE content

(* StreamTimer.ttft.                                                       *)
Ttft == IF first = Never THEN Never ELSE first - Start

(* _record().  The mean gap, gapSum / gapCount, is taken from two chunks on. *)
RecordAt(now) ==
  [e2e |-> now - Start, ttft |-> Ttft,
   gapSum |-> gapSum, gapCount |-> chunks - 1,
   completion |-> Completion]

(* The record is made after the await of upstream.aclose().                *)
Close ==
  /\ pc = "closing"
  /\ pc' = "done"
  /\ \E delay \in 0 .. MaxDelay :
       /\ clock' = clock + delay
       /\ records' = Append(records, RecordAt(clock + delay))
  /\ UNCHANGED <<input, tally, timer>>

Done == pc = "done" /\ UNCHANGED vars

Next == Read \/ End \/ Close \/ Done

Spec == Init /\ [][Next]_vars

-----------------------------------------------------------------------------
(* Properties.                                                             *)

(* The types of the variables.                                             *)
TypeOK ==
  /\ wire \in Seq(Symbols) /\ consumed \in Seq(Symbols) /\ buf \in Seq(Symbols)
  /\ content \in Nat /\ usage \in UsagePayloads \cup {"none"}
  /\ clock \in Nat
  /\ first \in Nat \cup {Never} /\ last \in Nat \cup {Never}
  /\ chunks \in Nat /\ gapSum \in Nat /\ gaps \in Nat
  /\ pc \in {"reading", "closing", "done"}
  /\ Len(records) = IF pc = "done" THEN 1 ELSE 0

(* The payload positions of a byte stream, without reference to any reads:  *)
(* the second symbol of a complete event line.                             *)
IsPayload(s, i) ==
  /\ s[i - 1] = "data:" /\ s[i] \notin {"[DONE]", "\n"}
  /\ i = 2 \/ s[i - 2] = "\n"
  /\ \E j \in i + 1 .. Len(s) : s[j] = "\n"

PayloadsOf(s) == {i \in 2 .. Len(s) : IsPayload(s, i)}

(* However the network cuts the stream, the complete event lines received   *)
(* are tallied, each once: what is counted is a function of the bytes.     *)
TallyIgnoresCuts ==
  LET usage_at == {i \in PayloadsOf(consumed) : consumed[i] \in UsagePayloads} IN
  /\ content = Cardinality(PayloadsOf(consumed) \ usage_at)
  /\ usage = IF usage_at = {} THEN "none" ELSE consumed[Max(usage_at)]

(* The gaps are the time between the first and the last chunk, and there is *)
(* one less than chunks: the mean is over what the histogram was given.    *)
GapsTelescope ==
  /\ chunks = 0 => gapSum = 0 /\ gaps = 0 /\ first = Never
  /\ chunks > 0 => gapSum = last - first /\ gaps = chunks - 1 /\ first # Never

(* A record's parts fit together: the time to the first token and the gaps  *)
(* after it are within the end-to-end time, and a mean over at least one   *)
(* gap has as many as the histogram.                                       *)
RecordConsistent ==
  \A i \in DOMAIN records : LET rec == records[i] IN
    /\ rec.ttft = Never => rec.gapSum = 0
    /\ rec.ttft # Never => rec.ttft >= 0 /\ rec.ttft + rec.gapSum <= rec.e2e
    /\ rec.gapCount > 0 => rec.gapCount = gaps
=============================================================================
