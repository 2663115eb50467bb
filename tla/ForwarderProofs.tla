--------------------------- MODULE ForwarderProofs ---------------------------
(***************************************************************************)
(* Proofs about the forwarder, alone and composed with the network and the  *)
(* hosted tier: for every capacity, batch size, number of records and set   *)
(* of unfit records.  The first part is of Forwarder; the second, from      *)
(* ShippingStepLemma on, brings it into Shipping and adds what a record     *)
(* meets on its way to the store.                                          *)
(***************************************************************************)
EXTENDS Shipping, SequenceTheorems, FunctionTheorems, FiniteSetTheorems, TLAPS

-----------------------------------------------------------------------------
(* The deque.                                                              *)

LEMMA AppendLemma ==
  ASSUME NEW q \in Seq(Nat), Increasing(q),
         NEW n \in Nat, \A m \in Range(q) : m < n
  PROVE  /\ Append(q, n) \in Seq(Nat)
         /\ Len(Append(q, n)) = Len(q) + 1
         /\ Increasing(Append(q, n))
         /\ Range(Append(q, n)) = Range(q) \cup {n}
<1> DEFINE r == Append(q, n)
<1>1. /\ r \in Seq(Nat)
      /\ Len(q) \in Nat /\ Len(r) = Len(q) + 1
      /\ \A i \in 1 .. Len(q) : r[i] = q[i]
      /\ r[Len(q) + 1] = n
  BY AppendProperties
<1>2. DOMAIN q = 1 .. Len(q) /\ DOMAIN r = 1 .. Len(q) + 1
  BY <1>1
<1> HIDE DEF r
<1>3. \A i \in 1 .. Len(q) : q[i] \in Range(q)
  BY <1>2 DEF Range
<1>4. Increasing(r)
  <2> SUFFICES ASSUME NEW i \in 1 .. Len(q) + 1, NEW j \in 1 .. Len(q) + 1, i < j
               PROVE  r[i] < r[j]
    BY <1>2 DEF Increasing
  <2>1. i \in 1 .. Len(q) /\ (j \in 1 .. Len(q) \/ j = Len(q) + 1)
    BY <1>1
  <2>2. CASE j \in 1 .. Len(q)
    BY <1>1, <1>2, <2>1, <2>2 DEF Increasing
  <2>3. CASE j = Len(q) + 1
    BY <1>1, <1>3, <2>1, <2>3
  <2> QED
    BY <2>1, <2>2, <2>3
<1>5. Range(r) = {r[i] : i \in 1 .. Len(q) + 1} /\ Range(q) = {q[i] : i \in 1 .. Len(q)}
  BY <1>2 DEF Range
<1>6. 1 .. Len(q) + 1 = (1 .. Len(q)) \cup {Len(q) + 1}
  BY <1>1
<1>7. Range(r) = {r[i] : i \in 1 .. Len(q)} \cup {r[Len(q) + 1]}
  BY <1>5, <1>6
<1>8. {r[i] : i \in 1 .. Len(q)} = {q[i] : i \in 1 .. Len(q)}
  BY <1>1
<1>9. Range(r) = Range(q) \cup {n}
  BY <1>1, <1>5, <1>7, <1>8
<1> QED
  BY <1>1, <1>4, <1>9 DEF r

LEMMA TailLemma ==
  ASSUME NEW q \in Seq(Nat), Increasing(q), q # << >>
  PROVE  /\ Tail(q) \in Seq(Nat)
         /\ Len(Tail(q)) = Len(q) - 1
         /\ Increasing(Tail(q))
         /\ Range(Tail(q)) \subseteq Range(q)
<1> DEFINE r == Tail(q)
<1>1. /\ r \in Seq(Nat)
      /\ Len(q) \in Nat /\ Len(r) = Len(q) - 1
      /\ \A i \in 1 .. Len(q) - 1 : r[i] = q[i + 1]
  BY HeadTailProperties
<1>2. DOMAIN q = 1 .. Len(q) /\ DOMAIN r = 1 .. Len(q) - 1
  BY <1>1
<1> HIDE DEF r
<1>3. \A i \in 1 .. Len(q) - 1 : i + 1 \in 1 .. Len(q)
  BY <1>1
<1>4. Increasing(r)
  <2> SUFFICES ASSUME NEW i \in 1 .. Len(q) - 1, NEW j \in 1 .. Len(q) - 1, i < j
               PROVE  r[i] < r[j]
    BY <1>2 DEF Increasing
  <2>1. i + 1 \in DOMAIN q /\ j + 1 \in DOMAIN q /\ i + 1 < j + 1
    BY <1>1, <1>2, <1>3
  <2>2. q[i + 1] < q[j + 1]
    BY <2>1 DEF Increasing
  <2> QED
    BY <1>1, <2>2
<1>5. Range(r) \subseteq Range(q)
  <2> SUFFICES ASSUME NEW i \in 1 .. Len(q) - 1
               PROVE  r[i] \in Range(q)
    BY <1>2 DEF Range
  <2> QED
    BY <1>1, <1>2, <1>3 DEF Range
<1> QED
  BY <1>1, <1>4, <1>5 DEF r

(* A non-full deque appends; a full one also forgets its first record.     *)
LEMMA PushedLemma ==
  ASSUME NEW q \in Seq(Nat), Len(q) <= MaxQueue, Increasing(q),
         NEW n \in Nat, \A m \in Range(q) : m < n
  PROVE  /\ Pushed(q, n) \in Seq(Nat)
         /\ Len(Pushed(q, n)) <= MaxQueue
         /\ Increasing(Pushed(q, n))
         /\ n \in Range(Pushed(q, n))
         /\ Range(Pushed(q, n)) \subseteq Range(q) \cup {n}
         /\ Range(q) \subseteq Range(Pushed(q, n)) \/ Len(Pushed(q, n)) = MaxQueue
<1>1. MaxQueue \in Nat \ {0} /\ Len(q) \in Nat
  BY ForwarderAssumption
<1>2. CASE Len(q) < MaxQueue
  BY <1>1, <1>2, AppendLemma DEF Pushed
<1>3. CASE ~(Len(q) < MaxQueue)
  <2>1. Len(q) = MaxQueue /\ q # << >>
    BY <1>1, <1>3
  <2> DEFINE t == Tail(q)
  <2>2. Pushed(q, n) = Append(t, n)
    BY <1>3 DEF Pushed
  <2>3. /\ t \in Seq(Nat) /\ Len(t) = Len(q) - 1
        /\ Increasing(t) /\ Range(t) \subseteq Range(q)
    BY <2>1, TailLemma
  <2> HIDE DEF t
  <2>4. \A m \in Range(t) : m < n
    BY <2>3
  <2>5. /\ Append(t, n) \in Seq(Nat)
        /\ Len(Append(t, n)) = Len(t) + 1
        /\ Increasing(Append(t, n))
        /\ Range(Append(t, n)) = Range(t) \cup {n}
    BY <2>3, <2>4, AppendLemma
  <2>6. Len(Pushed(q, n)) = MaxQueue
    BY <1>1, <2>1, <2>2, <2>3, <2>5
  <2> QED
    BY <1>1, <2>2, <2>3, <2>5, <2>6
<1> QED
  BY <1>2, <1>3

(* A requeued batch is followed by what the deque held, up to its capacity. *)
LEMMA RequeuedLemma ==
  ASSUME NEW b \in Seq(Nat), NEW q \in Seq(Nat),
         Increasing(b), Increasing(q), Before(b, q)
  PROVE  /\ Requeued(b, q) \in Seq(Nat)
         /\ Len(Requeued(b, q)) <= MaxQueue
         /\ Increasing(Requeued(b, q))
         /\ Range(Requeued(b, q)) \subseteq Range(b) \cup Range(q)
         /\ \/ Range(b) \cup Range(q) \subseteq Range(Requeued(b, q))
            \/ Len(Requeued(b, q)) = MaxQueue
<1> DEFINE c == b \o q
           m == Lesser(MaxQueue, Len(b) + Len(q))
           r == Requeued(b, q)
<1>1. MaxQueue \in Nat \ {0} /\ Len(b) \in Nat /\ Len(q) \in Nat
  BY ForwarderAssumption
<1>2. m \in Nat /\ m <= MaxQueue /\ m <= Len(b) + Len(q)
      /\ (m = MaxQueue \/ m = Len(b) + Len(q))
  BY <1>1 DEF Lesser
<1>3. /\ c \in Seq(Nat) /\ Len(c) = Len(b) + Len(q)
      /\ \A i \in 1 .. Len(b) + Len(q) :
           c[i] = IF i <= Len(b) THEN b[i] ELSE q[i - Len(b)]
  BY ConcatProperties
<1>4. Increasing(c)
  <2> SUFFICES ASSUME NEW i \in 1 .. Len(b) + Len(q), NEW j \in 1 .. Len(b) + Len(q), i < j
               PROVE  c[i] < c[j]
    BY <1>3 DEF Increasing
  <2>1. CASE j <= Len(b)
    BY <1>1, <1>3, <2>1 DEF Increasing
  <2>2. CASE i <= Len(b) /\ j > Len(b)
    BY <1>1, <1>3, <2>2 DEF Before
  <2>3. CASE i > Len(b)
    BY <1>1, <1>3, <2>3 DEF Increasing
  <2> QED
    BY <1>1, <2>1, <2>2, <2>3
<1>5. r \in Seq(Nat) /\ Len(r) = m /\ \A i \in 1 .. m : r[i] = c[i]
  BY <1>1, <1>2, <1>3 DEF Requeued
<1>7. Range(c) = Range(b) \cup Range(q)
  BY RangeConcatenation
<1> HIDE DEF c, m, r
<1>6. Increasing(r)
  BY <1>1, <1>2, <1>3, <1>4, <1>5 DEF Increasing
<1>8. /\ Range(c) = {c[i] : i \in 1 .. Len(c)}
      /\ Range(r) = {r[i] : i \in 1 .. m}
  BY <1>3, <1>5, RangeEquality
<1>9. Range(r) \subseteq Range(c) /\ (m = Len(c) => Range(c) \subseteq Range(r))
  BY <1>1, <1>2, <1>3, <1>5, <1>8
<1> QED
  BY <1>2, <1>3, <1>5, <1>6, <1>7, <1>9 DEF r
(* Splitting an ordered sequence after its k-th element.                   *)
LEMMA SplitLemma ==
  ASSUME NEW q \in Seq(Nat), Increasing(q), NEW k \in 0 .. Len(q)
  PROVE  /\ SubSeq(q, 1, k) \in Seq(Nat)
         /\ SubSeq(q, k + 1, Len(q)) \in Seq(Nat)
         /\ Len(SubSeq(q, 1, k)) = k
         /\ Len(SubSeq(q, k + 1, Len(q))) = Len(q) - k
         /\ Increasing(SubSeq(q, 1, k))
         /\ Increasing(SubSeq(q, k + 1, Len(q)))
         /\ Before(SubSeq(q, 1, k), SubSeq(q, k + 1, Len(q)))
         /\ Range(q) = Range(SubSeq(q, 1, k)) \cup Range(SubSeq(q, k + 1, Len(q)))
<1> DEFINE b == SubSeq(q, 1, k)
           r == SubSeq(q, k + 1, Len(q))
<1>1. Len(q) \in Nat /\ k \in Nat /\ k <= Len(q) /\ DOMAIN q = 1 .. Len(q)
  OBVIOUS
<1>2. b \in Seq(Nat) /\ Len(b) = k /\ \A i \in 1 .. k : b[i] = q[i]
  BY <1>1
<1>3. /\ r \in Seq(Nat) /\ Len(r) = Len(q) - k
      /\ \A i \in 1 .. Len(q) - k : r[i] = q[i + k]
  <2>1. \A i \in k + 1 .. Len(q) : q[i] \in Nat
    BY <1>1
  <2>2. k + 1 \in Int /\ Len(q) \in Int
    BY <1>1
  <2>3. /\ r \in Seq(Nat)
        /\ Len(r) = IF k + 1 <= Len(q) THEN Len(q) - (k + 1) + 1 ELSE 0
        /\ \A i \in 1 .. Len(q) - (k + 1) + 1 : r[i] = q[(k + 1) + i - 1]
    BY <2>1, <2>2, SubSeqProperties
  <2>4. Len(q) - (k + 1) + 1 = Len(q) - k
    BY <1>1
  <2>5. \A i \in 1 .. Len(q) - k : (k + 1) + i - 1 = i + k
    BY <1>1
  <2> HIDE DEF r
  <2>6. Len(r) = Len(q) - k
    <3>1. Len(r) = IF k + 1 <= Len(q) THEN Len(q) - (k + 1) + 1 ELSE 0
      BY <2>3
    <3>2. CASE k + 1 <= Len(q)
      BY <2>4, <3>1, <3>2
    <3>3. CASE ~(k + 1 <= Len(q))
      <4>1. Len(q) - k = 0
        <5> SUFFICES \A n, j \in Nat : j <= n /\ ~(j + 1 <= n) => n - j = 0
          BY <1>1, <3>3
        <5> QED
          OBVIOUS
      <4> QED
        BY <3>1, <3>3, <4>1
    <3> QED
      BY <3>2, <3>3
  <2>7. \A i \in 1 .. Len(q) - k : r[i] = q[i + k]
    BY <2>3, <2>4, <2>5
  <2> QED
    BY <2>3, <2>6, <2>7
<1>4. q = b \o r
  <2>1. q = SubSeq(q, 1, Len(q))
    BY SubSeqFull
  <2>2. SubSeq(q, 1, k) \o SubSeq(q, k + 1, Len(q)) = SubSeq(q, 1, Len(q))
    <3>1. 1 \in 1 .. Len(q) + 1 /\ k \in 1 - 1 .. Len(q) /\ Len(q) \in k .. Len(q)
      BY <1>1
    <3> QED
      BY <3>1, ConcatAdjacentSubSeq
  <2> QED
    BY <2>1, <2>2
<1>5. DOMAIN b = 1 .. k /\ DOMAIN r = 1 .. Len(q) - k
  BY <1>2, <1>3
<1>6. Range(b \o r) = Range(b) \cup Range(r)
  BY <1>2, <1>3, RangeConcatenation
<1> HIDE DEF b, r
<1>7. Increasing(b)
  BY <1>1, <1>2, <1>5 DEF Increasing
<1>8. Increasing(r)
  <2> SUFFICES ASSUME NEW i \in 1 .. Len(q) - k, NEW j \in 1 .. Len(q) - k, i < j
               PROVE  r[i] < r[j]
    BY <1>5 DEF Increasing
  <2>1. i + k \in DOMAIN q /\ j + k \in DOMAIN q /\ i + k < j + k
    BY <1>1
  <2>2. q[i + k] < q[j + k]
    BY <2>1 DEF Increasing
  <2> QED
    BY <1>3, <2>2
<1>9. Before(b, r)
  <2> SUFFICES ASSUME NEW i \in 1 .. k, NEW j \in 1 .. Len(q) - k
               PROVE  b[i] < r[j]
    BY <1>5 DEF Before
  <2>1. i \in DOMAIN q /\ j + k \in DOMAIN q /\ i < j + k
    BY <1>1
  <2>2. q[i] < q[j + k]
    BY <2>1 DEF Increasing
  <2> QED
    BY <1>2, <1>3, <2>2
<1>10. Range(q) = Range(b) \cup Range(r)
  BY <1>4, <1>6
<1> QED
  BY <1>2, <1>3, <1>7, <1>8, <1>9, <1>10 DEF b, r

(* The batch popped from the left of the deque and what it leaves there.   *)
LEMMA NextBatchLemma ==
  ASSUME queue \in Seq(Nat), Len(queue) <= MaxQueue, Increasing(queue), queue # << >>
  PROVE  /\ NextBatch \in Seq(Nat) /\ RestOfQueue \in Seq(Nat)
         /\ NextBatch # << >>
         /\ Len(NextBatch) <= MaxBatch /\ Len(RestOfQueue) <= MaxQueue
         /\ Increasing(NextBatch) /\ Increasing(RestOfQueue)
         /\ Before(NextBatch, RestOfQueue)
         /\ Range(queue) = Range(NextBatch) \cup Range(RestOfQueue)
<1>1. MaxBatch \in Nat \ {0} /\ MaxQueue \in Nat \ {0}
  BY ForwarderAssumption
<1>2. Len(queue) \in Nat /\ Len(queue) # 0
  OBVIOUS
<1>3. BatchSize \in 0 .. Len(queue) /\ BatchSize # 0 /\ BatchSize <= MaxBatch
  BY <1>1, <1>2 DEF BatchSize, Lesser
<1>4. /\ NextBatch \in Seq(Nat) /\ RestOfQueue \in Seq(Nat)
      /\ Len(NextBatch) = BatchSize /\ Len(RestOfQueue) = Len(queue) - BatchSize
      /\ Increasing(NextBatch) /\ Increasing(RestOfQueue)
      /\ Before(NextBatch, RestOfQueue)
      /\ Range(queue) = Range(NextBatch) \cup Range(RestOfQueue)
  BY <1>3, SplitLemma DEF NextBatch, RestOfQueue
<1>5. NextBatch # << >>
  BY <1>3, <1>4
<1> QED
  BY <1>1, <1>2, <1>3, <1>4, <1>5
-----------------------------------------------------------------------------
(* The places of a record.                                                 *)

(* EachRecordInOnePlace, written out for the provers.                      *)
Partition ==
  /\ Held \cap sent = {} /\ Held \cap refused = {}
  /\ Held \cap evicted = {} /\ Held \cap cancelled = {}
  /\ sent \cap refused = {} /\ sent \cap evicted = {} /\ sent \cap cancelled = {}
  /\ refused \cap evicted = {} /\ refused \cap cancelled = {}
  /\ evicted \cap cancelled = {}
  /\ raised \cap (Held \cup sent \cup refused \cup evicted \cup cancelled) = {}
  /\ Held \cup sent \cup refused \cup evicted \cup cancelled \cup raised = Records

LEMMA PartitionLemma == EachRecordInOnePlace <=> Partition
<1> DEFINE places == <<Held, sent, refused, evicted, cancelled, raised>>
<1>1. DOMAIN places = {1, 2, 3, 4, 5, 6}
  OBVIOUS
<1>2. /\ places[1] = Held /\ places[2] = sent /\ places[3] = refused
      /\ places[4] = evicted /\ places[5] = cancelled /\ places[6] = raised
  OBVIOUS
<1>3. EachRecordInOnePlace <=>
        /\ \A i, j \in DOMAIN places : i # j => places[i] \cap places[j] = {}
        /\ UNION Range(places) = Records
  BY DEF EachRecordInOnePlace
<1> HIDE DEF places
<1>4. UNION Range(places) = Held \cup sent \cup refused \cup evicted \cup cancelled \cup raised
  BY <1>1, <1>2 DEF Range
<1>5. (\A i, j \in DOMAIN places : i # j => places[i] \cap places[j] = {}) <=>
        \A i, j \in {1, 2, 3, 4, 5, 6} : i # j => places[i] \cap places[j] = {}
  BY <1>1
<1> QED
  BY <1>2, <1>3, <1>4, <1>5 DEF Partition

(* What is doomed is held, and nothing is once run() has no batch.         *)
LEMMA DoomedFacts ==
  /\ Doomed \subseteq Range(batch["interval"])
  /\ lifespan = "serving" \/ batch["interval"] = << >> => Doomed = {}
  /\ batch'["interval"] = << >> => Doomed' = {}
BY DEF Doomed, Range

(* A group of the oldest records held moves from there to one history.     *)
LEMMA SettleLemma ==
  ASSUME Partition, SettledBeforeHeld, enqueued' = enqueued,
         NEW S, S \subseteq Held, Held' = Held \ S,
         Held' \ Doomed' \subseteq Held \ Doomed,
         \A m \in S, n \in Held \ S : m < n,
         \/ sent' = sent \cup S /\ UNCHANGED <<refused, evicted, cancelled, raised>>
         \/ refused' = refused \cup S /\ UNCHANGED <<sent, evicted, cancelled, raised>>
         \/ cancelled' = cancelled \cup S /\ UNCHANGED <<sent, refused, evicted, raised>>
  PROVE  Partition' /\ SettledBeforeHeld'
<1>1. \/ sent' = sent \cup S /\ refused' = refused /\ cancelled' = cancelled
      \/ refused' = refused \cup S /\ sent' = sent /\ cancelled' = cancelled
      \/ cancelled' = cancelled \cup S /\ sent' = sent /\ refused' = refused
  OBVIOUS
<1>2. raised' = raised /\ evicted' = evicted
  OBVIOUS
<1>3. Partition'
  <2> USE <1>2 DEF Partition, Records
  <2>1. CASE sent' = sent \cup S /\ refused' = refused /\ cancelled' = cancelled
    BY <2>1
  <2>2. CASE refused' = refused \cup S /\ sent' = sent /\ cancelled' = cancelled
    BY <2>2
  <2>3. CASE cancelled' = cancelled \cup S /\ sent' = sent /\ refused' = refused
    BY <2>3
  <2> QED
    BY <1>1, <2>1, <2>2, <2>3
<1>4. (sent \cup refused \cup cancelled)' = (sent \cup refused \cup cancelled) \cup S
  BY <1>1
<1>5. SettledBeforeHeld'
  BY <1>2, <1>4 DEF SettledBeforeHeld
<1> QED
  BY <1>3, <1>5

(* The same for an exception, which may overtake a doomed batch.           *)
LEMMA RaiseLemma ==
  ASSUME Partition, SettledBeforeHeld, enqueued' = enqueued,
         NEW S, S \subseteq Held, Held' = Held \ S,
         Held' \ Doomed' \subseteq Held \ Doomed,
         \A m \in S, n \in Held' \ Doomed' : m < n,
         raised' = raised \cup S, UNCHANGED <<sent, refused, evicted, cancelled>>
  PROVE  Partition' /\ SettledBeforeHeld'
<1>1. sent' = sent /\ refused' = refused /\ evicted' = evicted /\ cancelled' = cancelled
  OBVIOUS
<1>2. Partition'
  BY <1>1 DEF Partition, Records
<1>3. SettledBeforeHeld'
  BY <1>1 DEF SettledBeforeHeld
<1> QED
  BY <1>2, <1>3

(* Some records held are discarded by the deque.                           *)
LEMMA ShedLemma ==
  ASSUME Partition, SettledBeforeHeld, enqueued' = enqueued,
         Held' \subseteq Held, evicted' = evicted \cup (Held \ Held'), Doomed = {},
         UNCHANGED <<sent, refused, cancelled, raised>>
  PROVE  Partition' /\ SettledBeforeHeld'
<1>1. sent' = sent /\ refused' = refused /\ cancelled' = cancelled /\ raised' = raised
  OBVIOUS
<1>2. Partition'
  BY <1>1 DEF Partition, Records
<1>3. SettledBeforeHeld'
  BY <1>1 DEF SettledBeforeHeld
<1> QED
  BY <1>2, <1>3

LEMMA RangeFacts ==
  /\ Range(<< >>) = {}
  /\ \A s, t : Before(s, t) <=> \A m \in Range(s), n \in Range(t) : m < n
  /\ Increasing(<< >>) /\ (\A s : Before(<< >>, s) /\ Before(s, << >>))
BY DEF Range, Before, Increasing

(* The inductive invariant of the forwarder.                               *)
IInv == TypeOK /\ HeldInOrder /\ Partition /\ SettledBeforeHeld

LEMMA InitLemma == Init => IInv
<1> SUFFICES ASSUME Init PROVE IInv
  OBVIOUS
<1> USE DEF Init
<1>1. TypeOK
  BY ForwarderAssumption DEF TypeOK, Flushers
<1>2. batch["interval"] = << >> /\ batch["final"] = << >> /\ Held = {}
  BY RangeFacts DEF Flushers, Held
<1>3. HeldInOrder
  BY <1>2, RangeFacts DEF HeldInOrder, Flushers
<1>4. Partition /\ SettledBeforeHeld
  BY <1>2 DEF Partition, SettledBeforeHeld, Records
<1> QED
  BY <1>1, <1>3, <1>4 DEF IInv

LEMMA EnqueueLemma == IInv /\ Enqueue => IInv'
<1> SUFFICES ASSUME IInv, Enqueue PROVE IInv'
  OBVIOUS
<1> DEFINE n == enqueued + 1
<1>1. /\ TypeOK /\ HeldInOrder /\ Partition /\ SettledBeforeHeld
      /\ queue \in Seq(Nat) /\ Len(queue) <= MaxQueue /\ Increasing(queue)
      /\ enqueued \in Nat /\ n \in Nat
  BY ForwarderAssumption DEF IInv, TypeOK, HeldInOrder
<1>2. /\ \A m \in Held \cup sent \cup refused \cup evicted \cup cancelled \cup raised :
           m \in Nat /\ m < n
      /\ Range(queue) \subseteq Held
  BY <1>1 DEF Partition, Records, Held
<1>3. /\ enqueued' = n /\ queue' = Pushed(queue, n)
      /\ batch' = batch /\ interval' = interval /\ lifespan' = lifespan
      /\ sent' = sent /\ refused' = refused /\ cancelled' = cancelled /\ raised' = raised
      /\ evicted' = evicted \cup (Range(queue) \ Range(queue'))
      /\ enqueued < MaxRecords
  BY DEF Enqueue
<1> HIDE DEF n
<1>4. /\ queue' \in Seq(Nat) /\ Len(queue') <= MaxQueue /\ Increasing(queue')
      /\ n \in Range(queue') /\ Range(queue') \subseteq Range(queue) \cup {n}
  BY <1>1, <1>2, <1>3, PushedLemma
<1>5. TypeOK'
  BY <1>1, <1>3, <1>4, ForwarderAssumption DEF TypeOK, Flushers, n
<1>6. HeldInOrder'
  <2>1. ASSUME NEW f \in Flushers PROVE Before(batch[f], queue')
    <3>1. Range(batch[f]) \subseteq Held /\ Before(batch[f], queue)
      BY <1>1 DEF Held, Flushers, HeldInOrder
    <3> QED
      BY <1>2, <1>4, <3>1, RangeFacts
  <2> QED
    BY <1>1, <1>3, <1>4, <2>1 DEF HeldInOrder
<1>7. Held' = (Held \ (Range(queue) \ Range(queue'))) \cup {n}
  <2>1. \A f \in Flushers : Range(batch[f]) \cap Range(queue) = {}
    BY <1>1, <1>2, RangeFacts DEF HeldInOrder, Flushers, Held
  <2> QED
    BY <1>3, <1>4, <2>1 DEF Held, Flushers
<1>8. Partition'
  <2>1. Records' = Records \cup {n} /\ n \notin Records
    BY <1>1, <1>3 DEF Records, n
  <2> QED
    BY <1>1, <1>2, <1>3, <1>7, <2>1 DEF Partition
<1>9. SettledBeforeHeld'
  <2>1. Doomed' = Doomed
    BY <1>3 DEF Doomed
  <2> QED
    BY <1>1, <1>2, <1>3, <1>7, <2>1 DEF SettledBeforeHeld
<1> QED
  BY <1>5, <1>6, <1>8, <1>9 DEF IInv

(* Taking a batch for a caller that had none moves records, all still held. *)
LEMMA TakeLemma ==
  ASSUME IInv, NEW f \in Flushers, TakeBatch(f), queue # << >>,
         batch["final"] = << >>, f = "final" \/ batch["interval"] = << >>,
         lifespan = "serving", UNCHANGED <<enqueued, ledger>>
  PROVE  /\ queue' \in Seq(Nat) /\ Len(queue') <= MaxQueue
         /\ batch' \in [Flushers -> Seq(Nat)]
         /\ \A g \in Flushers : Len(batch'[g]) <= MaxBatch
         /\ batch'[f] # << >> /\ \A g \in Flushers \ {f} : batch'[g] = batch[g]
         /\ HeldInOrder' /\ Partition' /\ SettledBeforeHeld'
<1> DEFINE b == NextBatch
           r == RestOfQueue
<1>1. /\ TypeOK /\ HeldInOrder /\ Partition /\ SettledBeforeHeld
      /\ queue \in Seq(Nat) /\ Len(queue) <= MaxQueue /\ Increasing(queue)
      /\ batch \in [Flushers -> Seq(Nat)] /\ batch[f] = << >>
  BY DEF IInv, TypeOK, HeldInOrder, Flushers
<1>2. /\ b \in Seq(Nat) /\ r \in Seq(Nat) /\ b # << >>
      /\ Len(b) <= MaxBatch /\ Len(r) <= MaxQueue
      /\ Increasing(b) /\ Increasing(r) /\ Before(b, r)
      /\ Range(queue) = Range(b) \cup Range(r)
  BY <1>1, NextBatchLemma
<1>3. queue' = r /\ batch' = [batch EXCEPT ![f] = b]
  BY DEF TakeBatch
<1> HIDE DEF b, r
<1>4. batch'[f] = b /\ \A g \in Flushers \ {f} : batch'[g] = batch[g]
  BY <1>1, <1>3
<1>5. HeldInOrder'
  <2>1. \A g \in Flushers : Increasing(batch'[g])
    BY <1>1, <1>2, <1>4 DEF HeldInOrder
  <2>2. \A g \in Flushers : Before(batch'[g], queue')
    BY <1>1, <1>2, <1>3, <1>4, RangeFacts DEF HeldInOrder
  <2>3. Before(batch'["interval"], batch'["final"])
    BY <1>1, <1>2, <1>4, RangeFacts DEF HeldInOrder, Flushers
  <2> QED
    BY <1>2, <1>3, <2>1, <2>2, <2>3 DEF HeldInOrder
<1>6. Held' = Held
  BY <1>1, <1>2, <1>3, <1>4, RangeFacts DEF Held, Flushers
<1>7. Partition' /\ SettledBeforeHeld'
  <2>1. Doomed = {}
    BY DoomedFacts
  <2> QED
    BY <1>1, <1>6, <2>1 DEF Partition, SettledBeforeHeld, Records, ledger
<1>8. /\ batch' \in [Flushers -> Seq(Nat)]
      /\ \A g \in Flushers : Len(batch'[g]) <= MaxBatch
  BY <1>1, <1>2, <1>3, <1>4 DEF TypeOK
<1> QED
  BY <1>2, <1>3, <1>4, <1>5, <1>7, <1>8

(* When the oldest batch in flight is put down, what remains is in order.  *)
LEMMA PutDownLemma ==
  ASSUME IInv, NEW f \in Flushers, batch' = [batch EXCEPT ![f] = << >>],
         queue' = queue, f = "interval" \/ batch["interval"] = << >>
  PROVE  /\ batch' \in [Flushers -> Seq(Nat)]
         /\ batch'[f] = << >> /\ \A g \in Flushers \ {f} : batch'[g] = batch[g]
         /\ HeldInOrder'
         /\ Range(batch[f]) \subseteq Held /\ Held' = Held \ Range(batch[f])
         /\ \A m \in Range(batch[f]), n \in Held \ Range(batch[f]) : m < n
<1>1. TypeOK /\ HeldInOrder /\ batch \in [Flushers -> Seq(Nat)]
  BY DEF IInv, TypeOK
<1>2. /\ batch' \in [Flushers -> Seq(Nat)]
      /\ batch'[f] = << >> /\ \A g \in Flushers \ {f} : batch'[g] = batch[g]
  BY <1>1
<1>3. HeldInOrder'
  <2>1. \A g \in Flushers : batch'[g] = << >> \/ batch'[g] = batch[g]
    BY <1>2
  <2> QED
    BY <1>1, <2>1, RangeFacts DEF HeldInOrder, Flushers
<1>4. \A m \in Range(batch[f]), n \in Range(queue) : m < n
  BY <1>1, RangeFacts DEF HeldInOrder
<1>5. ASSUME NEW g \in Flushers \ {f}, NEW m \in Range(batch[f]), NEW n \in Range(batch[g])
      PROVE  m < n
  BY <1>1, RangeFacts DEF HeldInOrder, Flushers
<1>6. \A m \in Range(batch[f]) : m \in Nat
  BY <1>1, RangeEquality
<1>7. \A m \in Range(batch[f]) :
        m \notin Range(queue) /\ \A g \in Flushers \ {f} : m \notin Range(batch[g])
  BY <1>4, <1>5, <1>6
<1>8. Held = Range(batch[f]) \cup Range(queue)
             \cup UNION {Range(batch[g]) : g \in Flushers \ {f}}
  BY DEF Held, Flushers
<1>9. Held' = Range(queue) \cup UNION {Range(batch[g]) : g \in Flushers \ {f}}
  BY <1>2, RangeFacts DEF Held, Flushers
<1> QED
  BY <1>2, <1>3, <1>4, <1>5, <1>7, <1>8, <1>9

(* A failed batch goes back in front of the deque, the only other holder.  *)
LEMMA FailedLemma ==
  ASSUME IInv, NEW f \in Flushers, Failed(f), enqueued' = enqueued,
         \A g \in Flushers \ {f} : batch[g] = << >>,
         f = "final" \/ lifespan = "serving",
         batch' = [batch EXCEPT ![f] = << >>]
  PROVE  /\ queue' \in Seq(Nat) /\ Len(queue') <= MaxQueue
         /\ batch' = [g \in Flushers |-> << >>]
         /\ HeldInOrder' /\ Partition' /\ SettledBeforeHeld'
<1>1. /\ TypeOK /\ HeldInOrder /\ Partition /\ SettledBeforeHeld
      /\ queue \in Seq(Nat) /\ batch[f] \in Seq(Nat)
      /\ batch \in [Flushers -> Seq(Nat)]
      /\ Increasing(batch[f]) /\ Increasing(queue) /\ Before(batch[f], queue)
  BY DEF IInv, TypeOK, HeldInOrder
<1>2. /\ queue' = Requeued(batch[f], queue)
      /\ evicted' = evicted \cup ((Range(batch[f]) \cup Range(queue)) \ Range(queue'))
      /\ UNCHANGED <<sent, refused, cancelled, raised>>
  BY DEF Failed
<1>3. /\ queue' \in Seq(Nat) /\ Len(queue') <= MaxQueue /\ Increasing(queue')
      /\ Range(queue') \subseteq Range(batch[f]) \cup Range(queue)
  BY <1>1, <1>2, RequeuedLemma
<1>4. batch' = [g \in Flushers |-> << >>]
  BY <1>1
<1>5. HeldInOrder'
  BY <1>3, <1>4, RangeFacts DEF HeldInOrder, Flushers
<1>6. Held = Range(batch[f]) \cup Range(queue) /\ Held' = Range(queue')
  BY <1>4, RangeFacts DEF Held, Flushers
<1>7. Doomed = {}
  BY DoomedFacts DEF Flushers
<1>8. Partition' /\ SettledBeforeHeld'
  BY <1>1, <1>2, <1>3, <1>6, <1>7, ShedLemma
<1> QED
  BY <1>3, <1>4, <1>5, <1>8

-----------------------------------------------------------------------------
(* Each action preserves the invariant.                                    *)

LEMMA IntervalFlushLemma == IInv /\ IntervalFlush => IInv'
<1> SUFFICES ASSUME IInv, IntervalFlush PROVE IInv'
  OBVIOUS
<1>1. TypeOK /\ batch["final"] = << >> /\ batch["interval"] = << >>
  BY DEF IInv, TypeOK, IntervalFlush
<1>2. /\ queue' \in Seq(Nat) /\ Len(queue') <= MaxQueue
      /\ batch' \in [Flushers -> Seq(Nat)]
      /\ \A g \in Flushers : Len(batch'[g]) <= MaxBatch
      /\ batch'["interval"] # << >> /\ batch'["final"] = << >>
      /\ HeldInOrder' /\ Partition' /\ SettledBeforeHeld'
  BY <1>1, TakeLemma DEF IntervalFlush, Flushers
<1>3. TypeOK'
  BY <1>1, <1>2 DEF TypeOK, IntervalFlush
<1> QED
  BY <1>2, <1>3 DEF IInv

LEMMA ShutdownLemma == IInv /\ Shutdown => IInv'
<1> SUFFICES ASSUME IInv, Shutdown PROVE IInv'
  OBVIOUS
<1>1. TypeOK /\ batch["final"] = << >>
  BY DEF IInv, TypeOK, Shutdown
<1>2. CASE queue = << >>
  <2>1. /\ lifespan' = "closed" /\ queue' = queue /\ batch' = batch
        /\ enqueued' = enqueued /\ interval' = interval /\ sent' = sent
        /\ refused' = refused /\ evicted' = evicted /\ cancelled' = cancelled
        /\ raised' = raised
    BY <1>2 DEF Shutdown, ledger
  <2>2. TypeOK' /\ HeldInOrder' /\ Held' = Held
    BY <1>1, <2>1 DEF TypeOK, IInv, HeldInOrder, Held
  <2>3. Doomed = {}
    BY DoomedFacts DEF Shutdown
  <2> QED
    BY <2>1, <2>2, <2>3 DEF IInv, Partition, SettledBeforeHeld, Records
<1>3. CASE queue # << >>
  <2>1. /\ queue' \in Seq(Nat) /\ Len(queue') <= MaxQueue
        /\ batch' \in [Flushers -> Seq(Nat)]
        /\ \A g \in Flushers : Len(batch'[g]) <= MaxBatch
        /\ batch'["final"] # << >> /\ batch'["interval"] = batch["interval"]
        /\ HeldInOrder' /\ Partition' /\ SettledBeforeHeld'
    BY <1>1, <1>3, TakeLemma DEF Shutdown, Flushers
  <2>2. TypeOK'
    BY <1>1, <1>3, <2>1 DEF TypeOK, Shutdown
  <2> QED
    BY <2>1, <2>2 DEF IInv
<1> QED
  BY <1>2, <1>3

(* The steps that put the batch of a caller down for good.                 *)
LEMMA PutDownForGoodLemma ==
  ASSUME IInv, NEW f \in Flushers, batch' = [batch EXCEPT ![f] = << >>],
         queue' = queue, enqueued' = enqueued,
         f = "interval" \/ batch["interval"] = << >>,
         \/ Accepted(f)
         \/ Refused(f)
         \/ /\ cancelled' = cancelled \cup Range(batch[f])
            /\ UNCHANGED <<sent, refused, evicted, raised>>
  PROVE  HeldInOrder' /\ Partition' /\ SettledBeforeHeld'
<1>1. /\ HeldInOrder' /\ batch'[f] = << >>
      /\ Range(batch[f]) \subseteq Held /\ Held' = Held \ Range(batch[f])
      /\ \A m \in Range(batch[f]), n \in Held \ Range(batch[f]) : m < n
  BY PutDownLemma
<1>2. Held' \ Doomed' \subseteq Held \ Doomed
  BY <1>1, DoomedFacts
<1> QED
  BY <1>1, <1>2, SettleLemma DEF IInv, Accepted, Refused

(* An exception puts a batch down: that of run() is the oldest, that of    *)
(* the final flush is older than the deque.                                *)
LEMMA RaisedLemma == IInv /\ (IntervalRaised \/ FinalRaised) => IInv'
<1> SUFFICES ASSUME IInv, NEW f \in Flushers, Raised(f),
                    \/ f = "interval" /\ IntervalRaised
                    \/ f = "final" /\ FinalRaised
             PROVE  IInv'
  BY DEF IntervalRaised, FinalRaised, Flushers
<1>1. /\ TypeOK /\ HeldInOrder /\ Partition /\ SettledBeforeHeld
      /\ queue \in Seq(Nat) /\ batch \in [Flushers -> Seq(Nat)]
  BY DEF IInv, TypeOK
<1>2. /\ batch' = [batch EXCEPT ![f] = << >>] /\ raised' = raised \cup Range(batch[f])
      /\ queue' = queue /\ enqueued' = enqueued
      /\ UNCHANGED <<sent, refused, evicted, cancelled>>
  BY DEF Raised
<1>3. batch'[f] = << >> /\ \A g \in Flushers \ {f} : batch'[g] = batch[g]
  BY <1>1, <1>2
<1>4. TypeOK'
  <2>1. /\ batch' \in [Flushers -> Seq(Nat)]
        /\ \A g \in Flushers : Len(batch'[g]) <= MaxBatch
    BY <1>1, <1>2, <1>3, ForwarderAssumption DEF TypeOK
  <2>2. CASE f = "interval" /\ IntervalRaised
    BY <1>1, <1>2, <1>3, <2>1, <2>2 DEF TypeOK, IntervalRaised, Flushers
  <2>3. CASE f = "final" /\ FinalRaised
    BY <1>1, <1>2, <1>3, <2>1, <2>3 DEF TypeOK, FinalRaised, Flushers
  <2> QED
    BY <2>2, <2>3
<1>5. HeldInOrder'
  <2>1. \A g \in Flushers : batch'[g] = << >> \/ batch'[g] = batch[g]
    BY <1>3
  <2> QED
    BY <1>1, <1>2, <2>1, RangeFacts DEF HeldInOrder, Flushers
<1>6. /\ Range(batch[f]) \subseteq Held
      /\ Held' = Held \ Range(batch[f])
      /\ Held' \ Doomed' \subseteq Held \ Doomed
      /\ \A m \in Range(batch[f]), n \in Held' \ Doomed' : m < n
  <2>1. CASE f = "interval" /\ IntervalRaised
    <3>1. /\ Range(batch[f]) \subseteq Held /\ Held' = Held \ Range(batch[f])
          /\ \A m \in Range(batch[f]), n \in Held \ Range(batch[f]) : m < n
      BY <1>2, <2>1, PutDownLemma
    <3>2. Doomed = {}
      BY <2>1, DoomedFacts DEF IntervalRaised
    <3> QED
      BY <3>1, <3>2
  <2>2. CASE f = "final" /\ FinalRaised
    <3> DEFINE I == Range(batch["interval"])
               F == Range(batch["final"])
               Q == Range(queue)
    <3>1. Held = I \cup F \cup Q /\ Held' = I \cup Q
      BY <1>2, <1>3, <2>2, RangeFacts DEF Held, Flushers
    <3>2. Doomed = I /\ Doomed' = I
      BY <1>3, <2>2 DEF Doomed, FinalRaised, Flushers
    <3>3. /\ \A m \in F, n \in Q : m < n
          /\ \A m \in I, n \in F : m < n
      BY <1>1, RangeFacts DEF HeldInOrder, Flushers
    <3>4. \A m \in F : m \in Nat
      BY <1>1, RangeEquality DEF Flushers
    <3> HIDE DEF I, F, Q
    <3>5. F \cap Q = {} /\ F \cap I = {}
      BY <3>3, <3>4
    <3>6. Range(batch[f]) = F
      BY <2>2 DEF F
    <3> QED
      BY <3>1, <3>2, <3>3, <3>5, <3>6
  <2> QED
    BY <2>1, <2>2
<1>7. Partition' /\ SettledBeforeHeld'
  BY <1>1, <1>2, <1>6, RaiseLemma
<1> QED
  BY <1>4, <1>5, <1>7 DEF IInv

LEMMA IntervalAnswerLemma ==
  IInv /\ (IntervalAccepted \/ IntervalRefused \/ IntervalFailed) => IInv'
<1> SUFFICES ASSUME IInv, IntervalAccepted \/ IntervalRefused \/ IntervalFailed PROVE IInv'
  OBVIOUS
<1>1. /\ TypeOK /\ batch["final"] = << >> /\ batch \in [Flushers -> Seq(Nat)]
      /\ lifespan = "serving" /\ lifespan' = lifespan
      /\ interval' = "sleeping" /\ enqueued' = enqueued
      /\ batch' = [batch EXCEPT !["interval"] = << >>]
  BY DEF IInv, TypeOK, IntervalAccepted, IntervalRefused, IntervalFailed, IntervalAnswered
<1>2. queue' \in Seq(Nat) /\ Len(queue') <= MaxQueue
      /\ HeldInOrder' /\ Partition' /\ SettledBeforeHeld'
  <2>1. CASE IntervalAccepted \/ IntervalRefused
    BY <1>1, <2>1, PutDownForGoodLemma
       DEF IntervalAccepted, IntervalRefused, TypeOK, Flushers
  <2>2. CASE IntervalFailed
    BY <1>1, <2>2, FailedLemma DEF IntervalFailed, Flushers
  <2> QED
    BY <2>1, <2>2
<1>3. TypeOK'
  BY <1>1, <1>2, ForwarderAssumption DEF TypeOK, Flushers
<1> QED
  BY <1>2, <1>3 DEF IInv

LEMMA IntervalCancelledLemma == IInv /\ IntervalCancelled => IInv'
<1> SUFFICES ASSUME IInv, IntervalCancelled PROVE IInv'
  OBVIOUS
<1>1. /\ TypeOK /\ batch \in [Flushers -> Seq(Nat)]
      /\ lifespan' = lifespan /\ interval' = "stopped"
      /\ enqueued' = enqueued /\ queue' = queue
      /\ batch' = [batch EXCEPT !["interval"] = << >>]
  BY DEF IInv, TypeOK, IntervalCancelled
<1>2. HeldInOrder' /\ Partition' /\ SettledBeforeHeld'
  BY <1>1, PutDownForGoodLemma DEF IntervalCancelled, Flushers
<1>3. TypeOK'
  BY <1>1, ForwarderAssumption DEF TypeOK, Flushers
<1> QED
  BY <1>2, <1>3 DEF IInv

(* The end of the drain, by an answer that leaves nothing or a failed one. *)
LEMMA FinalEndsLemma ==
  ASSUME IInv, FinalAnswered, lifespan' = "closed",
         batch' = [batch EXCEPT !["final"] = << >>],
         ((Accepted("final") \/ Refused("final")) /\ queue' = queue) \/ Failed("final")
  PROVE  IInv'
<1>1. /\ TypeOK /\ batch["interval"] = << >> /\ batch \in [Flushers -> Seq(Nat)]
      /\ interval = "stopped" /\ interval' = interval /\ enqueued' = enqueued
  BY DEF IInv, TypeOK, FinalAnswered
<1>2. queue' \in Seq(Nat) /\ Len(queue') <= MaxQueue
      /\ HeldInOrder' /\ Partition' /\ SettledBeforeHeld'
  <2>1. CASE (Accepted("final") \/ Refused("final")) /\ queue' = queue
    BY <1>1, <2>1, PutDownForGoodLemma DEF TypeOK, Flushers
  <2>2. CASE Failed("final")
    BY <1>1, <2>2, FailedLemma DEF Flushers
  <2> QED
    BY <2>1, <2>2
<1>3. TypeOK'
  BY <1>1, <1>2, ForwarderAssumption DEF TypeOK, Flushers
<1> QED
  BY <1>2, <1>3 DEF IInv

(* The drain goes on: the batch shipped is replaced by the next one.       *)
LEMMA FinalGoesOnLemma ==
  ASSUME IInv, FinalAnswered, Accepted("final"), queue # << >>,
         TakeBatch("final"), lifespan' = lifespan
  PROVE  IInv'
<1> DEFINE S == Range(batch["final"])
           b == NextBatch
           r == RestOfQueue
<1>1. /\ TypeOK /\ HeldInOrder /\ Partition /\ SettledBeforeHeld
      /\ batch["interval"] = << >> /\ batch \in [Flushers -> Seq(Nat)]
      /\ queue \in Seq(Nat) /\ Len(queue) <= MaxQueue /\ Increasing(queue)
      /\ lifespan = "draining"
      /\ interval = "stopped" /\ interval' = interval /\ enqueued' = enqueued
  BY DEF IInv, TypeOK, FinalAnswered, HeldInOrder
<1>2. /\ b \in Seq(Nat) /\ r \in Seq(Nat) /\ b # << >>
      /\ Len(b) <= MaxBatch /\ Len(r) <= MaxQueue
      /\ Increasing(b) /\ Increasing(r) /\ Before(b, r)
      /\ Range(queue) = Range(b) \cup Range(r)
  BY <1>1, NextBatchLemma
<1>3. queue' = r /\ batch' = [batch EXCEPT !["final"] = b]
  BY DEF TakeBatch
<1> HIDE DEF b, r
<1>4. batch'["final"] = b /\ batch'["interval"] = << >>
  BY <1>1, <1>3 DEF Flushers
<1>5. HeldInOrder'
  BY <1>2, <1>3, <1>4, RangeFacts DEF HeldInOrder, Flushers
<1>6. Held = S \cup Range(queue) /\ Held' = Range(queue)
  BY <1>1, <1>2, <1>3, <1>4, RangeFacts DEF Held
<1>7. \A m \in S, n \in Range(queue) : m < n
  BY <1>1, RangeFacts DEF HeldInOrder, Flushers
<1>8. S \cap Range(queue) = {}
  <2>1. \A n \in Range(queue) : n \in Nat
    BY <1>1, RangeEquality
  <2> QED
    BY <1>7, <2>1
<1>9. Held' = Held \ S /\ \A m \in S, n \in Held \ S : m < n
  BY <1>6, <1>7, <1>8
<1>10. Partition' /\ SettledBeforeHeld'
  <2>1. Held' \ Doomed' \subseteq Held \ Doomed
    BY <1>1, <1>9, DoomedFacts
  <2> QED
    BY <1>1, <1>6, <1>9, <2>1, SettleLemma DEF Accepted
<1>11. TypeOK'
  BY <1>1, <1>2, <1>3, <1>4, ForwarderAssumption DEF TypeOK, Flushers
<1> QED
  BY <1>5, <1>10, <1>11 DEF IInv

LEMMA FinalAnswerLemma ==
  IInv /\ (FinalAccepted \/ FinalRefused \/ FinalFailed) => IInv'
<1> SUFFICES ASSUME IInv, FinalAccepted \/ FinalRefused \/ FinalFailed PROVE IInv'
  OBVIOUS
<1>1. CASE FinalAccepted
  <2>1. CASE queue = << >>
    BY <1>1, <2>1, FinalEndsLemma DEF FinalAccepted
  <2>2. CASE queue # << >>
    BY <1>1, <2>2, FinalGoesOnLemma DEF FinalAccepted
  <2> QED
    BY <2>1, <2>2
<1>2. CASE FinalRefused
  BY <1>2, FinalEndsLemma DEF FinalRefused, FinalGivesUp
<1>3. CASE FinalFailed
  BY <1>3, FinalEndsLemma DEF FinalFailed, FinalGivesUp
<1> QED
  BY <1>1, <1>2, <1>3

LEMMA StutterLemma == IInv /\ UNCHANGED vars => IInv'
<1> SUFFICES ASSUME IInv, UNCHANGED vars PROVE IInv'
  OBVIOUS
<1>1. /\ queue' = queue /\ enqueued' = enqueued /\ batch' = batch
      /\ interval' = interval /\ lifespan' = lifespan
      /\ sent' = sent /\ refused' = refused /\ evicted' = evicted
      /\ cancelled' = cancelled /\ raised' = raised
  BY DEF vars, ledger
<1>2. Held' = Held /\ Doomed' = Doomed
  BY <1>1 DEF Held, Doomed
<1> QED
  BY <1>1, <1>2 DEF IInv, TypeOK, HeldInOrder, Partition, SettledBeforeHeld, Records

LEMMA StepLemma == IInv /\ [Next]_vars => IInv'
<1> SUFFICES ASSUME IInv, [Next]_vars PROVE IInv'
  OBVIOUS
<1>1. CASE Enqueue
  BY <1>1, EnqueueLemma
<1>2. CASE IntervalFlush
  BY <1>2, IntervalFlushLemma
<1>3. CASE IntervalAccepted \/ IntervalRefused \/ IntervalFailed
  BY <1>3, IntervalAnswerLemma
<1>4. CASE Shutdown
  BY <1>4, ShutdownLemma
<1>5. CASE IntervalCancelled
  BY <1>5, IntervalCancelledLemma
<1>6. CASE FinalAccepted \/ FinalRefused \/ FinalFailed
  BY <1>6, FinalAnswerLemma
<1>7. CASE IntervalRaised \/ FinalRaised
  BY <1>7, RaisedLemma
<1>8. CASE Stopped \/ UNCHANGED vars
  BY <1>8, StutterLemma DEF Stopped
<1> QED
  BY <1>1, <1>2, <1>3, <1>4, <1>5, <1>6, <1>7, <1>8 DEF Next

(* The inductive invariant holds in every reachable state.                 *)
THEOREM Invariance == Spec => []IInv
<1>1. Init => IInv
  BY InitLemma
<1>2. IInv /\ [Next]_vars => IInv'
  BY StepLemma
<1> QED
  BY <1>1, <1>2, PTL DEF Spec

(* The forwarder's variables keep their types: the deque never exceeds     *)
(* MAX_QUEUE, a batch never max_batch_size, whatever these are.            *)
THEOREM TypeCorrect == Spec => []TypeOK
<1>1. IInv => TypeOK
  BY DEF IInv
<1> QED
  BY <1>1, Invariance, PTL

(* Two flushes never hold the same record, and a requeue neither           *)
(* duplicates nor silently loses one: every record is in one place.        *)
THEOREM NoRecordLostOrDuplicated == Spec => []EachRecordInOnePlace
<1>1. IInv => EachRecordInOnePlace
  BY PartitionLemma DEF IInv
<1> QED
  BY <1>1, Invariance, PTL

(* Failed batches return to their place: what is held stays in the order   *)
(* of the enqueue() calls, through any number of retries and a shutdown.   *)
THEOREM OrderKept == Spec => []HeldInOrder
<1>1. IInv => HeldInOrder
  BY DEF IInv
<1> QED
  BY <1>1, Invariance, PTL

(* A later record never leaves by an answer before an earlier one that is  *)
(* still held.                                                             *)
THEOREM NoOvertaking == Spec => []SettledBeforeHeld
<1>1. IInv => SettledBeforeHeld
  BY DEF IInv
<1> QED
  BY <1>1, Invariance, PTL

(* Nothing is discarded while the deque has room.                          *)
THEOREM OnlyOverflowDiscards == Spec => DiscardsOnlyOverflow
<1> DEFINE A == evicted' # evicted => Len(queue') = MaxQueue
<1>1. IInv /\ [Next]_vars => [A]_vars
  <2> SUFFICES ASSUME IInv, Next, evicted' # evicted PROVE Len(queue') = MaxQueue
    OBVIOUS
  <2>1. \/ Enqueue
        \/ IntervalFailed /\ lifespan = "serving"
        \/ FinalFailed
    BY DEF Next, IntervalFlush, IntervalAccepted, IntervalRefused, IntervalFailed, Shutdown,
           IntervalCancelled, FinalAccepted, FinalRefused, FinalFailed, Accepted, Refused,
           IntervalRaised, FinalRaised, Raised,
           Stopped, ledger, vars, IntervalAnswered
  <2>2. /\ queue \in Seq(Nat) /\ Len(queue) <= MaxQueue /\ Increasing(queue)
        /\ enqueued \in Nat /\ \A m \in Range(queue) : m < enqueued + 1
    BY ForwarderAssumption DEF IInv, TypeOK, HeldInOrder, Partition, Records, Held
  <2>3. CASE Enqueue
    <3>1. enqueued + 1 \in Nat
      BY <2>2
    <3>2. /\ queue' = Pushed(queue, enqueued + 1)
          /\ ~(Range(queue) \subseteq Range(queue'))
      BY <2>3 DEF Enqueue
    <3> QED
      BY <2>2, <3>1, <3>2, PushedLemma
  <2>4. ASSUME NEW f \in Flushers, Failed(f) PROVE Len(queue') = MaxQueue
    <3>1. /\ batch[f] \in Seq(Nat) /\ Increasing(batch[f]) /\ Before(batch[f], queue)
      BY DEF IInv, TypeOK, HeldInOrder
    <3>2. /\ queue' = Requeued(batch[f], queue)
          /\ ~(Range(batch[f]) \cup Range(queue) \subseteq Range(queue'))
      BY <2>4 DEF Failed
    <3> QED
      BY <2>2, <3>1, <3>2, RequeuedLemma
  <2> QED
    BY <2>1, <2>3, <2>4 DEF IntervalFailed, FinalFailed, Flushers
<1>2. [][A]_vars => DiscardsOnlyOverflow
  BY DEF DiscardsOnlyOverflow
<1> HIDE DEF A
<1> QED
  BY <1>1, <1>2, Invariance, PTL DEF Spec

-----------------------------------------------------------------------------
(* The forwarder implements Outbox: every step of Forwarder is, through the *)
(* mapping of Promise, a step of Outbox or a stutter.                      *)

Pending == Held \ Doomed
Lost == refused \cup evicted \cup cancelled \cup raised \cup Doomed

(* An ordered sequence has as many elements as its length.                 *)
LEMMA SizeLemma ==
  ASSUME NEW s \in Seq(Nat), Increasing(s)
  PROVE  IsFiniteSet(Range(s)) /\ Cardinality(Range(s)) = Len(s)
<1>1. Len(s) \in Nat /\ s \in [1 .. Len(s) -> Nat]
  OBVIOUS
<1>2. \A i, j \in 1 .. Len(s) : i # j => s[i] # s[j]
  <2> SUFFICES ASSUME NEW i \in 1 .. Len(s), NEW j \in 1 .. Len(s), i < j
               PROVE  s[i] # s[j]
    BY <1>1
  <2>1. s[i] < s[j] /\ s[i] \in Nat
    BY <1>1 DEF Increasing
  <2> QED
    BY <2>1
<1>3. s \in Injection(1 .. Len(s), Nat)
  BY <1>1, <1>2 DEF Injection, IsInjective
<1>4. s \in Bijection(1 .. Len(s), Range(s))
  BY <1>3, Fun_InjMeansBijImage
<1>5. ExistsBijection(1 .. Len(s), Range(s))
  BY <1>4 DEF ExistsBijection
<1>6. IsFiniteSet(1 .. Len(s)) /\ Cardinality(1 .. Len(s)) = Len(s)
  <2>1. 1 \in Int /\ Len(s) \in Int
    BY <1>1
  <2>2. /\ IsFiniteSet(1 .. Len(s))
        /\ Cardinality(1 .. Len(s)) = IF 1 > Len(s) THEN 0 ELSE Len(s) - 1 + 1
    BY <2>1, FS_Interval
  <2> QED
    BY <1>1, <2>2
<1> QED
  BY <1>5, <1>6, FS_Bijection

(* The instance's cardinality is the cardinality.                          *)
LEMMA SameCardinality == \A S : Promise!Cardinality(S) = Cardinality(S)
BY DEF Promise!Cardinality, Cardinality

(* What is held is finite, so that a superset of a full deque is full.     *)
LEMMA FullLemma ==
  ASSUME NEW s \in Seq(Nat), Increasing(s), Len(s) = MaxQueue,
         NEW H, IsFiniteSet(H), Range(s) \subseteq H
  PROVE  Promise!Full(H)
<1>1. Cardinality(Range(s)) = MaxQueue
  BY SizeLemma
<1>2. Cardinality(Range(s)) <= Cardinality(H) /\ Cardinality(H) \in Nat
  BY FS_Subset, FS_CardinalityType
<1> QED
  BY <1>1, <1>2, ForwarderAssumption, SameCardinality DEF Promise!Full

LEMMA HeldFinite == IInv => IsFiniteSet(Held)
<1> SUFFICES ASSUME IInv PROVE IsFiniteSet(Held)
  OBVIOUS
<1>1. Held \subseteq 1 .. enqueued /\ enqueued \in Int
  BY ForwarderAssumption DEF IInv, Partition, Records, TypeOK
<1> QED
  <2>1. 1 \in Int /\ IsFiniteSet(1 .. enqueued)
    BY <1>1, FS_Interval
  <2> QED
    BY <1>1, <2>1, FS_Subset

LEMMA HeldIsTheRest ==
  /\ Partition => Held = Records \ (sent \cup refused \cup evicted \cup cancelled \cup raised)
  /\ Partition' => Held' = Records' \ (sent' \cup refused' \cup evicted' \cup cancelled' \cup raised')
BY DEF Partition

LEMMA InitRefines == Init => Promise!Init
<1> SUFFICES ASSUME Init PROVE Promise!Init
  OBVIOUS
<1>1. Held = {} /\ Doomed = {}
  BY RangeFacts DEF Init, Held, Doomed, Flushers
<1> QED
  BY <1>1 DEF Init, Promise!Init

(* A record taken in costs at most the oldest one of a full deque.         *)
LEMMA EnqueueRefines == IInv /\ IInv' /\ Enqueue => Promise!Accept
<1> SUFFICES ASSUME IInv, IInv', Enqueue PROVE Promise!Accept
  OBVIOUS
<1> DEFINE n == enqueued + 1
<1>1. /\ queue \in Seq(Nat) /\ Len(queue) <= MaxQueue /\ Increasing(queue) /\ Len(queue) \in Nat
      /\ queue' \in Seq(Nat) /\ Increasing(queue')
      /\ n \in Nat /\ \A m \in Range(queue) : m \in Nat /\ m < n
      /\ MaxQueue \in Nat \ {0}
  BY ForwarderAssumption DEF IInv, TypeOK, HeldInOrder, Partition, Records, Held
<1>2. /\ enqueued < MaxRecords /\ enqueued' = n /\ queue' = Pushed(queue, n)
      /\ batch' = batch /\ sent' = sent /\ refused' = refused /\ cancelled' = cancelled
      /\ raised' = raised /\ Doomed' = Doomed
      /\ evicted' = evicted \cup (Range(queue) \ Range(queue'))
  BY DEF Enqueue, Doomed
<1>3. Doomed \cap Range(queue') = {} /\ Doomed \cap Range(queue) = {} /\ n \notin Doomed
  <2>1. \A m \in Range(batch["interval"]) : m \in Records
    BY DEF IInv, Partition, Held
  <2>2. enqueued \in Nat /\ n \notin Records
    BY ForwarderAssumption DEF IInv, TypeOK, Records, n
  <2>3. /\ \A m \in Range(batch["interval"]), k \in Range(queue) : m < k
        /\ \A m \in Range(batch["interval"]), k \in Range(queue') : m < k
    BY <1>2, RangeFacts DEF IInv, HeldInOrder, Flushers
  <2>4. Doomed \subseteq Range(batch["interval"]) /\ Doomed \subseteq Nat
    BY <2>1, <2>2, DoomedFacts DEF Records
  <2>5. \A m \in Doomed : m \notin Range(queue') /\ m \notin Range(queue) /\ m \in Records
    BY <2>1, <2>3, <2>4
  <2> QED
    BY <2>2, <2>5
<1> HIDE DEF n
<1>4. CASE Len(queue) < MaxQueue
  <2>1. Range(queue') = Range(queue) \cup {n}
    BY <1>1, <1>2, <1>4, AppendLemma DEF Pushed
  <2>2. Pending' = Pending \cup {n} /\ Lost' = Lost
    BY <1>3, <1>2, <2>1 DEF Held, Lost, Pending
  <2> QED
    BY <1>2, <2>2 DEF Promise!Accept, Lost, Pending, n
<1>5. CASE ~(Len(queue) < MaxQueue)
  <2> DEFINE v == Head(queue)
             t == Tail(queue)
  <2>1. queue # << >> /\ Len(queue) = MaxQueue
    BY <1>1, <1>5
  <2>2. /\ t \in Seq(Nat) /\ Len(t) = Len(queue) - 1 /\ Increasing(t)
        /\ Range(t) \subseteq Range(queue)
    BY <1>1, <2>1, TailLemma
  <2>3. v \in Nat /\ v \in Range(queue) /\ v \notin Range(t) /\ Range(queue) = Range(t) \cup {v}
    <3>1. /\ queue \in [1 .. Len(queue) -> Nat] /\ 1 \in 1 .. Len(queue) /\ v = queue[1]
          /\ t \in [1 .. Len(queue) - 1 -> Nat]
      <4>1. v = queue[1]
        BY <1>1, <2>1
      <4> HIDE DEF v, t
      <4>2. /\ queue \in [1 .. Len(queue) -> Nat] /\ 1 \in 1 .. Len(queue)
            /\ t \in [1 .. Len(t) -> Nat]
        BY <1>1, <2>1, <2>2
      <4> QED
        BY <2>2, <4>1, <4>2
    <3>2. \A i \in 1 .. Len(queue) - 1 : t[i] = queue[i + 1]
      BY <2>1, HeadTailProperties
    <3> HIDE DEF v, t
    <3>3. \A i \in 1 .. Len(queue) - 1 : t[i] \in Nat /\ v < t[i]
      <4> SUFFICES ASSUME NEW i \in 1 .. Len(queue) - 1 PROVE t[i] \in Nat /\ v < t[i]
        OBVIOUS
      <4>1. 1 \in DOMAIN queue /\ i + 1 \in DOMAIN queue /\ 1 < i + 1
        BY <1>1, <3>1
      <4>2. queue[1] < queue[i + 1]
        BY <1>1, <4>1 DEF Increasing
      <4> QED
        BY <3>1, <3>2, <4>2
    <3>4. v \in Nat /\ v \in Range(queue)
      BY <3>1 DEF Range
    <3>5. v \notin Range(t)
      BY <3>1, <3>3, <3>4 DEF Range
    <3>6. ASSUME NEW i \in 1 .. Len(queue) PROVE queue[i] \in Range(t) \cup {v}
      <4>1. CASE i = 1
        BY <3>1, <4>1
      <4>2. CASE i # 1
        <5>1. i - 1 \in 1 .. Len(queue) - 1 /\ (i - 1) + 1 = i
          BY <1>1, <4>2
        <5>2. t[i - 1] = queue[i]
          BY <3>2, <5>1
        <5> QED
          BY <3>1, <5>1, <5>2 DEF Range
      <4> QED
        BY <4>1, <4>2
    <3>7. Range(queue) = {queue[i] : i \in 1 .. Len(queue)}
      BY <3>1 DEF Range
    <3> QED
      BY <2>2, <3>4, <3>5, <3>6, <3>7 DEF t
  <2> HIDE DEF v, t
  <2>4. queue' = Append(t, n)
    BY <1>2, <1>5 DEF Pushed, t
  <2>5. Range(queue') = Range(t) \cup {n} /\ Len(queue') = MaxQueue
    <3>1. \A m \in Range(t) : m < n
      BY <1>1, <2>2
    <3>2. Range(Append(t, n)) = Range(t) \cup {n} /\ Len(Append(t, n)) = Len(t) + 1
      BY <1>1, <2>2, <3>1, AppendLemma
    <3> QED
      BY <1>1, <2>1, <2>2, <2>4, <3>2
  <2>6. v # n /\ v \in Pending /\ \A f \in Flushers : v \notin Range(batch[f])
    <3>1. v # n
      BY <1>1, <2>3
    <3>2. \A f \in Flushers : Before(batch[f], queue)
      BY DEF IInv, HeldInOrder
    <3> QED
      BY <1>3, <2>3, <3>1, <3>2, RangeFacts DEF Held, Pending
  <2>7. Pending' = (Pending \ {v}) \cup {n} /\ Lost' = Lost \cup {v}
    <3>1. Range(queue') = (Range(queue) \ {v}) \cup {n}
      BY <2>3, <2>5
    <3>2. Range(queue) \ Range(queue') = {v}
      BY <2>3, <2>5, <2>6
    <3>3. Held' = (Held \ {v}) \cup {n}
      BY <1>2, <2>6, <3>1 DEF Held, Flushers
    <3> QED
      BY <1>3, <1>2, <3>2, <3>3 DEF Lost, Pending
  <2>8. Promise!Full(Pending')
    <3>1. IsFiniteSet(Pending')
      <4>1. IsFiniteSet(Pending)
        BY HeldFinite, FS_Subset DEF Pending
      <4>2. IsFiniteSet(Pending \ {v})
        BY <4>1, FS_RemoveElement
      <4> QED
        BY <2>7, <4>2, FS_AddElement
    <3>2. Range(queue') \subseteq Pending'
      BY <1>3, <1>2 DEF Held, Pending
    <3> QED
      BY <1>1, <2>5, <3>1, <3>2, FullLemma
  <2> QED
    BY <1>2, <2>6, <2>7, <2>8 DEF Promise!Accept, Lost, Pending, n
<1> QED
  BY <1>4, <1>5

(* A batch in flight that is older than all else pending is a group of the  *)
(* oldest pending records.                                                 *)
LEMMA BatchIsOldest ==
  ASSUME IInv, NEW f \in Flushers, batch[f] # << >>, Range(batch[f]) \subseteq Pending,
         \A m \in Range(batch[f]), n \in Pending \ Range(batch[f]) : m < n
  PROVE  Promise!IsOldest(Range(batch[f])) /\ Range(batch[f]) \in SUBSET Pending
<1>1. /\ batch[f] \in Seq(Nat) /\ Increasing(batch[f]) /\ Len(batch[f]) <= MaxBatch
  BY DEF IInv, TypeOK, HeldInOrder
<1>2. Cardinality(Range(batch[f])) <= MaxBatch
  BY <1>1, SizeLemma
<1>3. Range(batch[f]) # {}
  <2>1. 1 \in 1 .. Len(batch[f]) /\ DOMAIN batch[f] = 1 .. Len(batch[f])
    BY <1>1
  <2> QED
    BY <2>1 DEF Range
<1> QED
  BY <1>2, <1>3, SameCardinality DEF Promise!IsOldest, Pending

(* A batch leaves what is pending: shipped, or lost.                       *)
LEMMA LeaveRefines ==
  ASSUME IInv, NEW f \in Flushers, batch[f] # << >>, Range(batch[f]) \subseteq Pending,
         \A m \in Range(batch[f]), n \in Pending \ Range(batch[f]) : m < n,
         enqueued' = enqueued, Pending' = Pending \ Range(batch[f]),
         \/ sent' = sent \cup Range(batch[f]) /\ Lost' = Lost
         \/ sent' = sent /\ Lost' = Lost \cup Range(batch[f])
  PROVE  Promise!Ship \/ Promise!GiveUp
<1> DEFINE S == Range(batch[f])
<1>1. Promise!IsOldest(S) /\ S \in SUBSET Pending
  BY BatchIsOldest
<1>2. Pending' = Pending \ S
  OBVIOUS
<1>3. (sent' = sent \cup S /\ Lost' = Lost) \/ (sent' = sent /\ Lost' = Lost \cup S)
  OBVIOUS
<1> HIDE DEF S
<1>4. CASE sent' = sent \cup S /\ Lost' = Lost
  BY <1>1, <1>2, <1>4 DEF Promise!Ship, Pending, Lost
<1>5. CASE sent' = sent /\ Lost' = Lost \cup S
  BY <1>1, <1>2, <1>5 DEF Promise!GiveUp, Pending, Lost
<1> QED
  BY <1>3, <1>4, <1>5

(* Nothing is doomed: putting a batch down after its answer.               *)
LEMMA PutDownRefines ==
  ASSUME IInv, NEW f \in Flushers, batch[f] # << >>, enqueued' = enqueued,
         Held' = Held \ Range(batch[f]), Doomed = {}, Doomed' = {},
         \A m \in Range(batch[f]), n \in Held \ Range(batch[f]) : m < n,
         Accepted(f) \/ Refused(f)
  PROVE  Promise!Ship \/ Promise!GiveUp
<1>1. Pending = Held /\ Pending' = Held'
  BY DEF Pending
<1>2. Range(batch[f]) \subseteq Held
  BY DEF Held, Flushers
<1>3. \/ sent' = sent \cup Range(batch[f]) /\ Lost' = Lost
      \/ sent' = sent /\ Lost' = Lost \cup Range(batch[f])
  <2>1. CASE Accepted(f)
    BY <2>1 DEF Accepted, Lost
  <2>2. CASE Refused(f)
    BY <2>2 DEF Refused, Lost
  <2> QED
    BY <2>1, <2>2
<1> QED
  BY <1>1, <1>2, <1>3, LeaveRefines

(* A requeue changes nothing there, or sheds what a full deque pushes out. *)
LEMMA FailedRefines ==
  ASSUME IInv, IInv', NEW f \in Flushers, Failed(f), enqueued' = enqueued,
         \A g \in Flushers \ {f} : batch[g] = << >>,
         f = "final" \/ lifespan = "serving",
         batch' = [batch EXCEPT ![f] = << >>]
  PROVE  [Promise!Next]_(Promise!vars)
<1>1. /\ batch[f] \in Seq(Nat) /\ Increasing(batch[f]) /\ Before(batch[f], queue)
      /\ queue \in Seq(Nat) /\ Increasing(queue) /\ batch \in [Flushers -> Seq(Nat)]
      /\ queue' \in Seq(Nat) /\ Increasing(queue')
  BY DEF IInv, TypeOK, HeldInOrder
<1>2. /\ queue' = Requeued(batch[f], queue)
      /\ evicted' = evicted \cup ((Range(batch[f]) \cup Range(queue)) \ Range(queue'))
      /\ sent' = sent /\ refused' = refused /\ cancelled' = cancelled /\ raised' = raised
  BY DEF Failed
<1>3. Doomed = {} /\ Doomed' = {}
  BY <1>1, DoomedFacts DEF Flushers
<1>4. Held = Range(batch[f]) \cup Range(queue) /\ Held' = Range(queue')
  BY <1>1, RangeFacts DEF Held, Flushers
<1>5. Pending = Held /\ Pending' = Held'
  BY <1>3 DEF Pending
<1>6. Range(queue') \subseteq Held /\ (Held \subseteq Range(queue') \/ Len(queue') = MaxQueue)
  BY <1>1, <1>2, <1>4, RequeuedLemma
<1> DEFINE S == Held \ Range(queue')
<1>7. Pending' = Pending \ S /\ Lost' = Lost \cup S
  BY <1>3, <1>2, <1>4, <1>6, <1>5 DEF Lost
<1>8. CASE S = {}
  <2>1. Pending' = Pending /\ Lost' = Lost
    BY <1>7, <1>8
  <2> QED
    BY <1>2, <2>1 DEF Promise!vars, Pending, Lost
<1>9. CASE S # {}
  <2>1. Pending \ S = Range(queue') /\ Len(queue') = MaxQueue
    BY <1>6, <1>9, <1>5
  <2>2. Promise!Full(Pending \ S)
    BY <1>1, <2>1, SizeLemma, FullLemma
  <2>3. S \in SUBSET Pending
    BY <1>5
  <2> HIDE DEF S
  <2> QED
    BY <1>2, <1>7, <1>9, <2>2, <2>3 DEF Promise!Next, Promise!Shed, Pending, Lost
<1> QED
  BY <1>8, <1>9

(* Taking a batch changes nothing for Outbox.                              *)
LEMMA TakeRefines ==
  ASSUME IInv, IInv', IntervalFlush
  PROVE  UNCHANGED Promise!vars
<1>1. /\ enqueued' = enqueued /\ sent' = sent /\ refused' = refused /\ raised' = raised
      /\ evicted' = evicted /\ cancelled' = cancelled /\ lifespan' = lifespan
  BY DEF IntervalFlush, ledger
<1>2. Held' = Held
  BY <1>1, HeldIsTheRest DEF IInv, Records
<1>3. Doomed = {} /\ Doomed' = {}
  BY <1>1 DEF Doomed, IntervalFlush
<1> QED
  BY <1>1, <1>2, <1>3 DEF Promise!vars

(* A shutdown gives up the batch of the task it cancels, if there is one.   *)
LEMMA ShutdownRefines ==
  ASSUME IInv, IInv', Shutdown
  PROVE  [Promise!Next]_(Promise!vars)
<1> DEFINE S == Range(batch["interval"])
<1>1. /\ enqueued' = enqueued /\ sent' = sent /\ refused' = refused /\ raised' = raised
      /\ evicted' = evicted /\ cancelled' = cancelled
      /\ lifespan = "serving" /\ lifespan' # "serving"
      /\ batch \in [Flushers -> Seq(Nat)] /\ batch["final"] = << >>
  BY DEF Shutdown, ledger, IInv, TypeOK
<1>2. Held' = Held
  BY <1>1, HeldIsTheRest DEF IInv, Records
<1>3. batch'["interval"] = batch["interval"]
  BY <1>1 DEF Shutdown, TakeBatch, Flushers
<1>4. Doomed = {} /\ Doomed' = S
  BY <1>1, <1>3 DEF Doomed
<1>5. Pending = Held /\ Pending' = Pending \ S /\ Lost' = Lost \cup S
  BY <1>1, <1>2, <1>4 DEF Pending, Lost
<1>6. CASE batch["interval"] = << >>
  <2>1. S = {}
    BY <1>6, RangeFacts
  <2>2. Pending' = Pending /\ Lost' = Lost
    BY <1>5, <2>1
  <2> HIDE DEF S
  <2> QED
    BY <1>1, <2>2 DEF Promise!vars, Pending, Lost
<1>7. CASE batch["interval"] # << >>
  <2>1. S \subseteq Held /\ Held = S \cup Range(queue)
    BY <1>1, RangeFacts DEF Held, Flushers
  <2>2. \A m \in S, n \in Range(queue) : m < n
    BY RangeFacts DEF IInv, HeldInOrder, Flushers
  <2>3. \A m \in S, n \in Pending \ S : m < n
    BY <1>5, <2>1, <2>2
  <2>4. Promise!Ship \/ Promise!GiveUp
    BY <1>1, <1>5, <1>7, <2>1, <2>3, LeaveRefines DEF Flushers
  <2> QED
    BY <2>4 DEF Promise!Next
<1> QED
  BY <1>6, <1>7

LEMMA IntervalAnswerRefines ==
  ASSUME IInv, IInv', IntervalAccepted \/ IntervalRefused \/ IntervalFailed
  PROVE  [Promise!Next]_(Promise!vars)
<1>1. /\ batch["final"] = << >> /\ batch["interval"] # << >> /\ enqueued' = enqueued
      /\ batch' = [batch EXCEPT !["interval"] = << >>]
  BY DEF IInv, TypeOK, IntervalAccepted, IntervalRefused, IntervalFailed, IntervalAnswered
<1>2. CASE IntervalAccepted \/ IntervalRefused
  <2>1. queue' = queue /\ (Accepted("interval") \/ Refused("interval"))
    BY <1>2 DEF IntervalAccepted, IntervalRefused
  <2>2. /\ Held' = Held \ Range(batch["interval"])
        /\ \A m \in Range(batch["interval"]), n \in Held \ Range(batch["interval"]) : m < n
    BY <1>1, <2>1, PutDownLemma DEF Flushers
  <2>3. Doomed = {} /\ Doomed' = {}
    <3>1. lifespan = "serving" /\ batch'["interval"] = << >>
      BY <1>1, <1>2 DEF IntervalAccepted, IntervalRefused, IntervalAnswered, IInv, TypeOK, Flushers
    <3> QED
      BY <3>1, DoomedFacts
  <2> QED
    BY <1>1, <2>1, <2>2, <2>3, PutDownRefines DEF Promise!Next, Flushers
<1>3. CASE IntervalFailed
  BY <1>1, <1>3, FailedRefines DEF IntervalFailed, IntervalAnswered, Flushers
<1> QED
  BY <1>2, <1>3

(* What a cancelled task loses was given up by the shutdown.               *)
LEMMA CancelledRefines ==
  ASSUME IInv, IInv', IntervalCancelled
  PROVE  UNCHANGED Promise!vars
<1>1. /\ batch' = [batch EXCEPT !["interval"] = << >>] /\ queue' = queue
      /\ enqueued' = enqueued /\ cancelled' = cancelled \cup Range(batch["interval"])
      /\ sent' = sent /\ refused' = refused /\ evicted' = evicted /\ raised' = raised
  BY DEF IntervalCancelled
<1>2. Held' = Held \ Range(batch["interval"]) /\ batch'["interval"] = << >>
  BY <1>1, PutDownLemma DEF Flushers
<1>3. Doomed = Range(batch["interval"]) /\ Doomed' = {}
  BY <1>2, DoomedFacts DEF IntervalCancelled, Doomed
<1>4. Pending' = Pending
  BY <1>2, <1>3 DEF Pending
<1>5. Lost' = Lost
  BY <1>1, <1>3 DEF Lost
<1> QED
  BY <1>1, <1>4, <1>5 DEF Promise!vars, Pending, Lost

(* An exception gives up its batch, the oldest that is still pending.       *)
LEMMA RaisedRefines ==
  ASSUME IInv, IInv', IntervalRaised \/ FinalRaised
  PROVE  Promise!Ship \/ Promise!GiveUp
<1> SUFFICES ASSUME NEW f \in Flushers, Raised(f),
                    \/ f = "interval" /\ IntervalRaised
                    \/ f = "final" /\ FinalRaised
             PROVE  Promise!Ship \/ Promise!GiveUp
  BY DEF IntervalRaised, FinalRaised, Flushers
<1> DEFINE S == Range(batch[f])
<1>1. /\ batch' = [batch EXCEPT ![f] = << >>] /\ raised' = raised \cup S
      /\ queue' = queue /\ enqueued' = enqueued
      /\ sent' = sent /\ refused' = refused /\ evicted' = evicted /\ cancelled' = cancelled
      /\ batch \in [Flushers -> Seq(Nat)]
  BY DEF Raised, IInv, TypeOK
<1>2. batch'[f] = << >> /\ \A g \in Flushers \ {f} : batch'[g] = batch[g]
  BY <1>1
<1>3. batch[f] # << >>
  BY DEF IntervalRaised, FinalRaised, IInv, TypeOK
<1>4. /\ S \subseteq Pending /\ Pending' = Pending \ S /\ Doomed' = Doomed
      /\ \A m \in S, n \in Pending \ S : m < n
  <2>1. CASE f = "interval" /\ IntervalRaised
    <3>1. Doomed = {} /\ Doomed' = {}
      BY <1>2, <2>1, DoomedFacts DEF IntervalRaised
    <3>2. /\ S \subseteq Held /\ Held' = Held \ S
          /\ \A m \in S, n \in Held \ S : m < n
      BY <1>1, <2>1, PutDownLemma
    <3> QED
      BY <3>1, <3>2 DEF Pending
  <2>2. CASE f = "final" /\ FinalRaised
    <3> DEFINE I == Range(batch["interval"])
               F == Range(batch["final"])
               Q == Range(queue)
    <3>1. Held = I \cup F \cup Q /\ Held' = I \cup Q
      BY <1>1, <1>2, <2>2, RangeFacts DEF Held, Flushers
    <3>2. Doomed = I /\ Doomed' = I
      BY <1>2, <2>2 DEF Doomed, FinalRaised, Flushers
    <3>3. /\ \A m \in F, n \in Q : m < n
          /\ \A m \in I, n \in F : m < n
          /\ \A m \in I, n \in Q : m < n
      BY RangeFacts DEF IInv, HeldInOrder, Flushers
    <3>4. (\A m \in F : m \in Nat) /\ (\A m \in I : m \in Nat)
      <4>1. batch["final"] \in Seq(Nat) /\ batch["interval"] \in Seq(Nat)
        BY <1>1 DEF Flushers
      <4> QED
        BY <4>1, RangeEquality
    <3>5. S = F
      BY <2>2
    <3> HIDE DEF I, F, Q, S
    <3>6. F \cap Q = {} /\ F \cap I = {} /\ I \cap Q = {}
      BY <3>3, <3>4
    <3> QED
      BY <3>1, <3>2, <3>3, <3>5, <3>6 DEF Pending
  <2> QED
    BY <2>1, <2>2
<1>5. Lost' = Lost \cup S
  BY <1>1, <1>4 DEF Lost
<1> QED
  BY <1>1, <1>3, <1>4, <1>5, LeaveRefines

LEMMA FinalAnswerRefines ==
  ASSUME IInv, IInv', FinalAccepted \/ FinalRefused \/ FinalFailed
  PROVE  [Promise!Next]_(Promise!vars)
<1>1. /\ batch["interval"] = << >> /\ batch["final"] # << >> /\ enqueued' = enqueued
  BY DEF IInv, TypeOK, FinalAccepted, FinalRefused, FinalFailed, FinalAnswered
<1>2. CASE FinalFailed
  BY <1>1, <1>2, FailedRefines DEF FinalFailed, FinalGivesUp, Flushers
<1>3. CASE FinalAccepted \/ FinalRefused
  <2>3. Doomed = {} /\ Doomed' = {}
    <3>1. batch'["interval"] = << >>
      BY <1>1, <1>3 DEF FinalAccepted, FinalRefused, FinalGivesUp, TakeBatch, Flushers,
                        IInv, TypeOK
    <3> QED
      BY <1>1, <3>1, DoomedFacts
  <2>1. Accepted("final") \/ Refused("final")
    BY <1>3 DEF FinalAccepted, FinalRefused
  <2>2. /\ Held' = Held \ Range(batch["final"])
        /\ \A m \in Range(batch["final"]), n \in Held \ Range(batch["final"]) : m < n
    <3>1. CASE batch' = [batch EXCEPT !["final"] = << >>] /\ queue' = queue
      BY <1>1, <3>1, PutDownLemma DEF Flushers
    <3>2. CASE FinalAccepted /\ queue # << >> /\ TakeBatch("final")
      <4>1. /\ \A m \in Range(batch["final"]), n \in Range(queue) : m < n
            /\ \A n \in Range(queue) : n \in Nat
            /\ queue \in Seq(Nat) /\ Len(queue) <= MaxQueue /\ Increasing(queue)
            /\ batch \in [Flushers -> Seq(Nat)]
        <5>1. /\ queue \in Seq(Nat) /\ Len(queue) <= MaxQueue /\ Increasing(queue)
              /\ batch \in [Flushers -> Seq(Nat)] /\ Before(batch["final"], queue)
          BY DEF IInv, TypeOK, HeldInOrder, Flushers
        <5>2. \A n \in Range(queue) : n \in Nat
          BY <5>1, RangeEquality
        <5>3. \A m \in Range(batch["final"]), n \in Range(queue) : m < n
          BY <5>1, RangeFacts
        <5> QED
          BY <5>1, <5>2, <5>3
      <4>2. Range(batch["final"]) \cap Range(queue) = {}
        BY <4>1
      <4>3. Held = Range(batch["final"]) \cup Range(queue)
        BY <1>1, RangeFacts DEF Held
      <4>4. Range(queue) = Range(NextBatch) \cup Range(RestOfQueue)
        BY <3>2, <4>1, NextBatchLemma
      <4>5. Held' = Range(queue)
        <5>1. batch'["final"] = NextBatch /\ batch'["interval"] = << >> /\ queue' = RestOfQueue
          BY <1>1, <3>2, <4>1 DEF TakeBatch, Flushers
        <5> QED
          BY <4>4, <5>1, RangeFacts DEF Held
      <4> QED
        BY <4>1, <4>2, <4>3, <4>5
    <3> QED
      BY <1>3, <3>1, <3>2 DEF FinalAccepted, FinalRefused, FinalGivesUp
  <2> QED
    BY <1>1, <2>1, <2>2, <2>3, PutDownRefines DEF Promise!Next, Flushers
<1> QED
  BY <1>2, <1>3

LEMMA StepRefines == IInv /\ IInv' /\ [Next]_vars => [Promise!Next]_(Promise!vars)
<1> SUFFICES ASSUME IInv, IInv', [Next]_vars PROVE [Promise!Next]_(Promise!vars)
  OBVIOUS
<1>1. CASE Enqueue
  BY <1>1, EnqueueRefines DEF Promise!Next
<1>2. CASE IntervalFlush
  BY <1>2, TakeRefines
<1>3. CASE IntervalAccepted \/ IntervalRefused \/ IntervalFailed
  BY <1>3, IntervalAnswerRefines
<1>4. CASE Shutdown
  BY <1>4, ShutdownRefines
<1>5. CASE IntervalCancelled
  BY <1>5, CancelledRefines
<1>6. CASE FinalAccepted \/ FinalRefused \/ FinalFailed
  BY <1>6, FinalAnswerRefines
<1>7. CASE IntervalRaised \/ FinalRaised
  BY <1>7, RaisedRefines DEF Promise!Next
<1>8. CASE Stopped \/ UNCHANGED vars
  BY <1>8 DEF Stopped, vars, ledger, Promise!vars, Held, Doomed
<1> QED
  BY <1>1, <1>2, <1>3, <1>4, <1>5, <1>6, <1>7, <1>8 DEF Next

(* The forwarder keeps the promise of Outbox, for every capacity, batch     *)
(* size and number of records.                                             *)
THEOREM ForwarderImplementsOutbox == Spec => PromiseKept
<1>1. Init => Promise!Init
  BY InitRefines
<1>2. IInv /\ IInv' /\ [Next]_vars => [Promise!Next]_(Promise!vars)
  BY StepRefines
<1>3. Spec => [][Next]_vars
  BY PTL DEF Spec
<1>4. Spec => Init
  BY PTL DEF Spec
<1>5. Spec => Promise!Spec
  BY <1>1, <1>2, <1>3, <1>4, Invariance, PTL DEF Promise!Spec
<1> QED
  BY <1>5 DEF PromiseKept

-----------------------------------------------------------------------------
(* The composition takes only steps of the forwarder.                      *)

LEMMA ShippingStepLemma == [ShippingNext]_shippingVars => [Next]_vars
<1> SUFFICES ASSUME [ShippingNext]_shippingVars PROVE [Next]_vars
  OBVIOUS
<1>1. CASE (Enqueue \/ IntervalFlush \/ Shutdown \/ Stopped) /\ Idle
  BY <1>1 DEF Next
<1>2. CASE EndInterval \/ EndFinal \/ Cancel
  BY <1>2 DEF Next, EndInterval, SettleInterval, EndFinal, Cancel
<1>3. CASE (\E f \in Flushers : Deliver(f)) \/ (\E b \in stray : DeliverStray(b))
           \/ OtherWrite \/ Restart \/ UNCHANGED shippingVars
  BY <1>3 DEF Deliver, DeliverStray, OtherWrite, Restart, shippingVars
<1> QED
  BY <1>1, <1>2, <1>3 DEF ShippingNext

(* With the network and the store around it the forwarder behaves as its    *)
(* own specification says: what is proved of it holds here.                *)
THEOREM ShippingIsForwarding == ShippingSpec => Spec
<1>1. ShippingInit => Init
  BY DEF ShippingInit
<1>2. [ShippingNext]_shippingVars => [Next]_vars
  BY ShippingStepLemma
<1> QED
  BY <1>1, <1>2, PTL DEF ShippingSpec, Spec

-----------------------------------------------------------------------------
(* The inductive invariant.                                                *)

(* Records with a row, and those that may still get one by a late POST.     *)
Rows == committed \cup open
OnTheRoad == UNION {Range(b) : b \in stray}

(* What the sidecar still has, or what is on its way, and was inserted      *)
(* before or may be inserted by another POST, has been put back once.       *)
OnlyRetriesReturn ==
  /\ Rows \cup OnTheRoad \subseteq Records
  /\ twice \subseteq retried
  /\ Range(queue) \cap (Rows \cup OnTheRoad) \subseteq retried
  /\ \A f \in Flushers :
       answer[f] = "none" => Range(batch[f]) \cap (Rows \cup OnTheRoad) \subseteq retried
  /\ \A b \in stray : Range(b) \cap Rows \subseteq retried
  /\ \A b, c \in stray : b # c => Range(b) \cap Range(c) \subseteq retried

(* A 2xx on its way back tells the truth, and only what can be sent is      *)
(* answered.                                                               *)
AnswersAreTrue ==
  /\ answer \in [Flushers -> {"none", "2xx", "4xx", "5xx"}]
  /\ \A f \in Flushers : batch[f] = << >> => answer[f] = "none"
  /\ \A f \in Flushers : answer[f] = "2xx" => Range(batch[f]) \subseteq committed
  /\ \A f \in Flushers : answer[f] # "none" => Range(batch[f]) \cap Unencodable = {}
  /\ sent \subseteq committed

ShipInv == IInv /\ AnswersAreTrue /\ OnlyRetriesReturn

LEMMA ShippingInitLemma == ShippingInit => ShipInv
<1> SUFFICES ASSUME ShippingInit PROVE ShipInv
  OBVIOUS
<1>1. IInv
  BY InitLemma DEF ShippingInit
<1>2. AnswersAreTrue
  BY DEF ShippingInit, Init, AnswersAreTrue, Flushers
<1>3. Rows \cup OnTheRoad = {} /\ twice = {} /\ stray = {}
  BY DEF ShippingInit, Rows, OnTheRoad
<1>4. OnlyRetriesReturn
  BY <1>3 DEF OnlyRetriesReturn
<1> QED
  BY <1>1, <1>2, <1>4 DEF ShipInv

(* What a request does to the table.                                       *)
LEMMA HandledLemma ==
  ASSUME NEW b, Handled(b)
  PROVE  /\ committed \subseteq committed'
         /\ Rows' \subseteq Rows \cup Range(b)
         /\ twice' \subseteq twice \cup (Range(b) \cap Rows)
         /\ b \in Seq(Nat) /\ StatusOf(b) = "2xx" => Range(b) \subseteq committed'
<1>1. Inserted(b) \subseteq Range(b)
  BY DEF Inserted, Range
<1>2. CASE Len(b) > MaxPost
  <2>1. StatusOf(b) # "2xx"
    BY <1>2 DEF StatusOf
  <2>2. committed' = committed /\ open' = open /\ twice' = twice
    BY <1>2 DEF Handled, store
  <2> QED
    BY <2>1, <2>2 DEF Rows
<1>3. CASE ~(Len(b) > MaxPost)
  <2>1. /\ twice' = twice \cup (Inserted(b) \cap (committed \cup open))
        /\ committed' = IF Storable(b) THEN committed \cup open \cup Inserted(b) ELSE committed
        /\ open' = IF Storable(b) THEN {} ELSE open \cup Inserted(b)
    BY <1>3 DEF Handled
  <2>2. ASSUME b \in Seq(Nat), StatusOf(b) = "2xx" PROVE Range(b) \subseteq committed'
    <3>1. Storable(b)
      BY <1>3, <2>2 DEF StatusOf
    <3>2. ASSUME NEW k \in DOMAIN b PROVE \A j \in 1 .. k : b[j] \notin Unstorable
      <4>1. DOMAIN b = 1 .. Len(b) /\ Len(b) \in Nat
        BY <2>2
      <4>2. \A j \in 1 .. k : j \in DOMAIN b
        BY <4>1
      <4> QED
        BY <3>1, <4>2 DEF Storable, Range
    <3>3. Range(b) \subseteq Inserted(b)
      BY <3>2 DEF Range, Inserted
    <3> QED
      BY <2>1, <3>1, <3>3
  <2> QED
    BY <1>1, <2>1, <2>2 DEF Rows
<1> QED
  BY <1>2, <1>3

-----------------------------------------------------------------------------
(* The steps of the hosted tier.                                           *)

(* A record is in the queue, in one batch or in the other.                 *)
LEMMA DisjointLemma ==
  ASSUME IInv
  PROVE  /\ \A f \in Flushers : Range(batch[f]) \cap Range(queue) = {}
         /\ Range(batch["interval"]) \cap Range(batch["final"]) = {}
         /\ \A f \in Flushers : Range(batch[f]) \subseteq Records /\ batch[f] \in Seq(Nat)
         /\ Range(queue) \subseteq Records
<1>1. \A f \in Flushers : batch[f] \in Seq(Nat)
  BY DEF IInv, TypeOK
<1>2. queue \in Seq(Nat) /\ Range(queue) \subseteq Nat
  BY DEF IInv, TypeOK, Range
<1>3. \A f \in Flushers : Range(batch[f]) \subseteq Nat
  BY <1>1 DEF Range
<1>4. \A m \in Nat : ~(m < m)
  OBVIOUS
<1>5. \A f \in Flushers : Range(batch[f]) \cap Range(queue) = {}
  BY <1>2, <1>4, RangeFacts DEF IInv, HeldInOrder
<1>6. Range(batch["interval"]) \cap Range(batch["final"]) = {}
  BY <1>3, <1>4, RangeFacts DEF IInv, HeldInOrder, Flushers
<1>7. Held \subseteq Records
  BY DEF IInv, Partition
<1> QED
  BY <1>1, <1>5, <1>6, <1>7 DEF Held, Flushers

LEMMA DeliverLemma ==
  ASSUME ShipInv, NEW f \in Flushers, Deliver(f)
  PROVE  AnswersAreTrue' /\ OnlyRetriesReturn'
<1> DEFINE b == batch[f]
<1>1. /\ queue' = queue /\ batch' = batch /\ enqueued' = enqueued /\ sent' = sent
      /\ stray' = stray /\ retried' = retried
      /\ answer' = [answer EXCEPT ![f] = StatusOf(b)]
      /\ Handled(b) /\ b # << >> /\ answer[f] = "none" /\ Range(b) \cap Unencodable = {}
  BY DEF Deliver, OnItsWay, Encodable, vars, ledger
<1>2. /\ committed \subseteq committed'
      /\ Rows' \subseteq Rows \cup Range(b)
      /\ twice' \subseteq twice \cup (Range(b) \cap Rows)
      /\ StatusOf(b) = "2xx" => Range(b) \subseteq committed'
  BY <1>1, HandledLemma, DisjointLemma DEF ShipInv
<1>3. /\ StatusOf(b) \in {"2xx", "4xx", "5xx"}
      /\ answer \in [Flushers -> {"none", "2xx", "4xx", "5xx"}]
      /\ answer'[f] = StatusOf(b) /\ \A g \in Flushers \ {f} : answer'[g] = answer[g]
  BY <1>1 DEF StatusOf, ShipInv, AnswersAreTrue
<1>4. AnswersAreTrue'
  <2>1. answer' \in [Flushers -> {"none", "2xx", "4xx", "5xx"}]
    BY <1>1, <1>3
  <2>2. \A g \in Flushers : batch'[g] = << >> => answer'[g] = "none"
    BY <1>1, <1>3 DEF ShipInv, AnswersAreTrue
  <2>3. \A g \in Flushers : answer'[g] = "2xx" => Range(batch'[g]) \subseteq committed'
    BY <1>1, <1>2, <1>3 DEF ShipInv, AnswersAreTrue
  <2>4. sent' \subseteq committed'
    BY <1>1, <1>2 DEF ShipInv, AnswersAreTrue
  <2>5. \A g \in Flushers : answer'[g] # "none" => Range(batch'[g]) \cap Unencodable = {}
    BY <1>1, <1>3 DEF ShipInv, AnswersAreTrue
  <2> QED
    BY <2>1, <2>2, <2>3, <2>4, <2>5 DEF AnswersAreTrue
<1>5. OnlyRetriesReturn'
  <2>1. OnTheRoad' = OnTheRoad /\ Records' = Records
    BY <1>1 DEF OnTheRoad, Records
  <2>2. Range(b) \cap (Rows \cup OnTheRoad) \subseteq retried
    BY <1>1 DEF ShipInv, OnlyRetriesReturn
  <2>3. /\ Rows' \cup OnTheRoad' \subseteq Records'
        /\ twice' \subseteq retried'
        /\ Range(queue') \cap (Rows' \cup OnTheRoad') \subseteq retried'
    BY <1>1, <1>2, <2>1, <2>2, DisjointLemma DEF ShipInv, OnlyRetriesReturn
  <2>4. \A g \in Flushers :
          answer'[g] = "none" => Range(batch'[g]) \cap (Rows' \cup OnTheRoad') \subseteq retried'
    <3>1. \A g \in Flushers \ {f} : Range(batch[g]) \cap Range(batch[f]) = {}
      <4>1. Range(batch["interval"]) \cap Range(batch["final"]) = {}
        BY DisjointLemma DEF ShipInv
      <4> QED
        BY <4>1 DEF Flushers
    <3> QED
      BY <1>1, <1>2, <1>3, <2>1, <3>1 DEF ShipInv, OnlyRetriesReturn
  <2>5. /\ \A c \in stray' : Range(c) \cap Rows' \subseteq retried'
        /\ \A c, d \in stray' : c # d => Range(c) \cap Range(d) \subseteq retried'
    BY <1>1, <1>2, <2>2 DEF ShipInv, OnlyRetriesReturn, OnTheRoad
  <2> QED
    BY <2>3, <2>4, <2>5 DEF OnlyRetriesReturn
<1> QED
  BY <1>4, <1>5

LEMMA DeliverStrayLemma ==
  ASSUME ShipInv, NEW b \in stray, DeliverStray(b)
  PROVE  AnswersAreTrue' /\ OnlyRetriesReturn'
<1>1. /\ queue' = queue /\ batch' = batch /\ enqueued' = enqueued /\ sent' = sent
      /\ stray' = stray \ {b} /\ retried' = retried /\ answer' = answer /\ Handled(b)
  BY DEF DeliverStray, vars, ledger
<1>2. /\ committed \subseteq committed'
      /\ Rows' \subseteq Rows \cup Range(b)
      /\ twice' \subseteq twice \cup (Range(b) \cap Rows)
  BY <1>1, HandledLemma
<1>3. AnswersAreTrue'
  BY <1>1, <1>2 DEF ShipInv, AnswersAreTrue
<1>4. Rows' \cup OnTheRoad' \subseteq Rows \cup OnTheRoad /\ Records' = Records
  BY <1>1, <1>2 DEF OnTheRoad, Records
<1>5. /\ Rows' \cup OnTheRoad' \subseteq Records'
      /\ twice' \subseteq retried'
      /\ Range(queue') \cap (Rows' \cup OnTheRoad') \subseteq retried'
      /\ \A f \in Flushers :
          answer'[f] = "none" => Range(batch'[f]) \cap (Rows' \cup OnTheRoad') \subseteq retried'
  BY <1>1, <1>2, <1>4 DEF ShipInv, OnlyRetriesReturn
<1>6. /\ \A c \in stray' : Range(c) \cap Rows' \subseteq retried'
      /\ \A c, d \in stray' : c # d => Range(c) \cap Range(d) \subseteq retried'
  BY <1>1, <1>2 DEF ShipInv, OnlyRetriesReturn
<1> QED
  BY <1>3, <1>5, <1>6 DEF OnlyRetriesReturn

LEMMA OtherWriterLemma ==
  ASSUME ShipInv, OtherWrite \/ Restart
  PROVE  AnswersAreTrue' /\ OnlyRetriesReturn'
<1>1. /\ queue' = queue /\ batch' = batch /\ enqueued' = enqueued /\ sent' = sent
      /\ stray' = stray /\ retried' = retried /\ answer' = answer /\ twice' = twice
      /\ committed \subseteq committed' /\ Rows' \subseteq Rows
  BY DEF OtherWrite, Restart, vars, ledger, Rows
<1>2. AnswersAreTrue'
  BY <1>1 DEF ShipInv, AnswersAreTrue
<1>3. OnTheRoad' = OnTheRoad /\ Records' = Records
  BY <1>1 DEF OnTheRoad, Records
<1> QED
  BY <1>1, <1>2, <1>3 DEF ShipInv, OnlyRetriesReturn

-----------------------------------------------------------------------------
(* The steps of the sidecar.                                               *)

(* What the two parts need of such a step: rows do not change, a caller     *)
(* keeps its batch and answer or starts anew with records of the queue,    *)
(* what comes back to the queue is marked as retried, and the queue gets    *)
(* nothing else but records nobody has seen.                               *)
LEMMA SidecarLemma ==
  ASSUME ShipInv, UNCHANGED store,
         Records \subseteq Records', retried \subseteq retried',
         sent' \subseteq committed,
         answer' \in [Flushers -> {"none", "2xx", "4xx", "5xx"}],
         \A r \in Range(queue') : r \in Range(queue) \/ r \in retried' \/ r \notin Records,
         \A f \in Flushers :
           \/ batch'[f] = batch[f] /\ answer'[f] = answer[f]
           \/ answer'[f] = "none" /\ Range(batch'[f]) \subseteq Range(queue),
         \/ stray' = stray
         \/ \E f \in Flushers :
              /\ stray' = stray \cup {batch[f]} /\ answer[f] = "none" /\ batch'[f] = << >>
              /\ \A g \in Flushers \ {f} : Range(batch'[g]) \subseteq Range(batch[g])
              /\ Range(batch[f]) \subseteq retried' \/ Range(queue') \subseteq Range(queue)
  PROVE  AnswersAreTrue' /\ OnlyRetriesReturn'
<1>1. Rows' = Rows /\ committed' = committed /\ twice' = twice
  BY DEF store, Rows
<1>2. AnswersAreTrue'
  <2>1. \A f \in Flushers : batch'[f] = << >> => answer'[f] = "none"
    BY DEF ShipInv, AnswersAreTrue
  <2>2. \A f \in Flushers : answer'[f] = "2xx" => Range(batch'[f]) \subseteq committed'
    BY <1>1 DEF ShipInv, AnswersAreTrue
  <2>3. \A f \in Flushers : answer'[f] # "none" => Range(batch'[f]) \cap Unencodable = {}
    BY DEF ShipInv, AnswersAreTrue
  <2> QED
    BY <1>1, <2>1, <2>2, <2>3 DEF AnswersAreTrue
<1>3. CASE stray' = stray
  <2>1. OnTheRoad' = OnTheRoad
    BY <1>3 DEF OnTheRoad
  <2> QED
    BY <1>1, <1>2, <1>3, <2>1 DEF ShipInv, OnlyRetriesReturn
<1>4. ASSUME NEW f \in Flushers,
             stray' = stray \cup {batch[f]}, answer[f] = "none", batch'[f] = << >>,
             \A g \in Flushers \ {f} : Range(batch'[g]) \subseteq Range(batch[g]),
             Range(batch[f]) \subseteq retried' \/ Range(queue') \subseteq Range(queue)
      PROVE  OnlyRetriesReturn'
  <2>1. OnTheRoad' = OnTheRoad \cup Range(batch[f])
    BY <1>4 DEF OnTheRoad
  <2>2. Range(batch[f]) \subseteq Records /\ Range(batch[f]) \cap Range(queue) = {}
    BY DisjointLemma DEF ShipInv
  <2>3. Range(batch[f]) \cap (Rows \cup OnTheRoad) \subseteq retried
    BY <1>4 DEF ShipInv, OnlyRetriesReturn
  <2>4. Rows' \cup OnTheRoad' \subseteq Records' /\ twice' \subseteq retried'
    BY <1>1, <2>1, <2>2 DEF ShipInv, OnlyRetriesReturn
  <2>5. Range(queue') \cap (Rows' \cup OnTheRoad') \subseteq retried'
    <3>1. SUFFICES ASSUME NEW r \in Range(queue'), r \in Rows' \cup OnTheRoad'
                   PROVE  r \in retried'
      OBVIOUS
    <3>2. CASE r \in Range(batch[f])
      BY <1>4, <2>2, <3>1, <3>2
    <3>3. CASE r \notin Range(batch[f])
      BY <1>1, <2>1, <3>1, <3>3 DEF ShipInv, OnlyRetriesReturn
    <3> QED
      BY <3>2, <3>3
  <2>6. ASSUME NEW g \in Flushers, answer'[g] = "none"
        PROVE  Range(batch'[g]) \cap (Rows' \cup OnTheRoad') \subseteq retried'
    <3>1. CASE g = f
      BY <1>4, <3>1, RangeFacts
    <3>2. CASE g # f
      <4>1. Range(batch'[g]) \subseteq Range(batch[g])
        BY <1>4, <3>2
      <4>2. Range(batch[g]) \cap Range(batch[f]) = {}
        <5>1. Range(batch["interval"]) \cap Range(batch["final"]) = {}
          BY DisjointLemma DEF ShipInv
        <5> QED
          BY <3>2, <5>1 DEF Flushers
      <4>3. CASE answer[g] = "none"
        BY <1>1, <2>1, <4>1, <4>2, <4>3 DEF ShipInv, OnlyRetriesReturn
      <4>4. CASE answer[g] # "none"
        <5>1. Range(batch'[g]) \subseteq Range(queue)
          BY <2>6, <4>4
        <5> QED
          BY <1>1, <2>1, <2>2, <5>1 DEF ShipInv, OnlyRetriesReturn
      <4> QED
        BY <4>3, <4>4
    <3> QED
      BY <3>1, <3>2
  <2>7. /\ \A b \in stray' : Range(b) \cap Rows' \subseteq retried'
        /\ \A b, c \in stray' : b # c => Range(b) \cap Range(c) \subseteq retried'
    <3>1. \A b \in stray : Range(b) \subseteq OnTheRoad
      BY DEF OnTheRoad
    <3> QED
      BY <1>1, <1>4, <2>3, <3>1 DEF ShipInv, OnlyRetriesReturn
  <2> QED
    BY <2>4, <2>5, <2>6, <2>7 DEF OnlyRetriesReturn
<1> QED
  BY <1>2, <1>3, <1>4

(* The same facts about an action of one caller f.                         *)
LEMMA CallerLemma ==
  ASSUME ShipInv, UNCHANGED store, UNCHANGED enqueued,
         NEW f \in Flushers, NEW b,
         batch' = [batch EXCEPT ![f] = b], Range(b) \subseteq Range(queue),
         answer' = [answer EXCEPT ![f] = "none"],
         retried \subseteq retried',
         sent' \subseteq committed,
         Range(queue') \subseteq Range(queue) \cup retried',
         \/ stray' = stray
         \/ /\ stray' = stray \cup {batch[f]} /\ answer[f] = "none" /\ b = << >>
            /\ Range(batch[f]) \subseteq retried' \/ Range(queue') \subseteq Range(queue)
  PROVE  AnswersAreTrue' /\ OnlyRetriesReturn'
<1>1. /\ batch \in [Flushers -> Seq(Nat)]
      /\ answer \in [Flushers -> {"none", "2xx", "4xx", "5xx"}]
  BY DEF ShipInv, IInv, TypeOK, AnswersAreTrue
<1>2. /\ batch'[f] = b /\ answer'[f] = "none"
      /\ \A g \in Flushers \ {f} : batch'[g] = batch[g] /\ answer'[g] = answer[g]
      /\ answer' \in [Flushers -> {"none", "2xx", "4xx", "5xx"}]
  BY <1>1
<1>3. Records' = Records
  BY DEF Records
<1>4. \A g \in Flushers :
        \/ batch'[g] = batch[g] /\ answer'[g] = answer[g]
        \/ answer'[g] = "none" /\ Range(batch'[g]) \subseteq Range(queue)
  BY <1>2
<1>5. \/ stray' = stray
      \/ \E h \in Flushers :
           /\ stray' = stray \cup {batch[h]} /\ answer[h] = "none" /\ batch'[h] = << >>
           /\ \A g \in Flushers \ {h} : Range(batch'[g]) \subseteq Range(batch[g])
           /\ Range(batch[h]) \subseteq retried' \/ Range(queue') \subseteq Range(queue)
  BY <1>2
<1> QED
  BY <1>2, <1>3, <1>4, <1>5, SidecarLemma

LEMMA FlushLemma ==
  ASSUME ShipInv, Idle, Enqueue \/ IntervalFlush \/ Shutdown \/ Stopped
  PROVE  AnswersAreTrue' /\ OnlyRetriesReturn'
<1>1. /\ UNCHANGED store /\ answer' = answer /\ stray' = stray /\ retried' = retried
      /\ answer \in [Flushers -> {"none", "2xx", "4xx", "5xx"}] /\ sent \subseteq committed
      /\ \A f \in Flushers : batch[f] = << >> => answer[f] = "none"
  BY DEF Idle, ShipInv, AnswersAreTrue
<1>2. /\ queue \in Seq(Nat) /\ Len(queue) <= MaxQueue /\ Increasing(queue)
      /\ enqueued \in Nat /\ Range(queue) \subseteq Records
  BY ForwarderAssumption, DisjointLemma DEF ShipInv, IInv, TypeOK, HeldInOrder
<1>3. CASE Enqueue
  <2>1. \A m \in Range(queue) : m < enqueued + 1
    BY <1>2 DEF Records
  <2>2. Range(queue') \subseteq Range(queue) \cup {enqueued + 1}
    <3>1. enqueued + 1 \in Nat /\ queue' = Pushed(queue, enqueued + 1)
      BY <1>2, <1>3 DEF Enqueue
    <3> QED
      BY <1>2, <2>1, <3>1, PushedLemma
  <2>3. enqueued + 1 \notin Records /\ Records \subseteq Records'
    BY <1>2, <1>3 DEF Enqueue, Records
  <2>4. batch' = batch /\ sent' = sent
    BY <1>3 DEF Enqueue
  <2> QED
    BY <1>1, <2>2, <2>3, <2>4, SidecarLemma
<1>4. ASSUME NEW f \in Flushers, queue # << >>, TakeBatch(f), batch[f] = << >>,
             UNCHANGED <<enqueued, ledger>>
      PROVE  AnswersAreTrue' /\ OnlyRetriesReturn'
  <2>1. Range(NextBatch) \subseteq Range(queue) /\ Range(queue') \subseteq Range(queue)
    BY <1>2, <1>4, NextBatchLemma DEF TakeBatch
  <2>2. answer' = [answer EXCEPT ![f] = "none"]
    BY <1>1, <1>4
  <2>3. sent' = sent /\ batch' = [batch EXCEPT ![f] = NextBatch]
    BY <1>4 DEF ledger, TakeBatch
  <2> QED
    BY <1>1, <1>4, <2>1, <2>2, <2>3, CallerLemma
<1>5. CASE IntervalFlush
  <2>1. batch["interval"] = << >>
    BY <1>5 DEF IntervalFlush, ShipInv, IInv, TypeOK
  <2> QED
    BY <1>4, <1>5, <2>1 DEF IntervalFlush, Flushers
<1>6. CASE Shutdown
  <2>1. batch["final"] = << >>
    BY <1>6 DEF Shutdown, ShipInv, IInv, TypeOK
  <2>2. CASE queue # << >>
    BY <1>4, <1>6, <2>1, <2>2 DEF Shutdown, Flushers
  <2>3. CASE queue = << >>
    <3>1. queue' = queue /\ batch' = batch /\ sent' = sent /\ Records' = Records
      BY <1>6, <2>3 DEF Shutdown, ledger, Records
    <3> QED
      BY <1>1, <3>1, SidecarLemma
  <2> QED
    BY <2>2, <2>3
<1>7. CASE Stopped
  <2>1. queue' = queue /\ batch' = batch /\ sent' = sent /\ Records' = Records
    BY <1>7 DEF Stopped, vars, ledger, Records
  <2> QED
    BY <1>1, <2>1, SidecarLemma
<1> QED
  BY <1>3, <1>5, <1>6, <1>7

(* A caller learns that its POST was accepted or refused, or that it cannot *)
(* be sent, and puts its batch down.                                       *)
LEMMA PutDownShippedLemma ==
  ASSUME ShipInv, NEW f \in Flushers,
         \/ Accepted(f) /\ Taken(f)
         \/ Refused(f) /\ Dropped(f)
         \/ Raised(f) /\ Unsent(f),
         batch' = [batch EXCEPT ![f] = << >>], UNCHANGED <<queue, enqueued>>
  PROVE  AnswersAreTrue' /\ OnlyRetriesReturn'
<1>1. /\ answer \in [Flushers -> {"none", "2xx", "4xx", "5xx"}] /\ sent \subseteq committed
      /\ answer[f] = "2xx" => Range(batch[f]) \subseteq committed
  BY DEF ShipInv, AnswersAreTrue
<1>2. UNCHANGED store /\ stray' = stray /\ retried' = retried
  BY DEF Taken, Dropped, Unsent, Idle, Concluded
<1>3. sent' \subseteq committed
  BY <1>1 DEF Accepted, Refused, Raised, Taken
<1>4. answer' = [answer EXCEPT ![f] = "none"]
  <2>1. CASE Unsent(f)
    <3>1. answer' = answer /\ ~(Range(batch[f]) \cap Unencodable = {})
      BY <2>1 DEF Unsent, Idle, Encodable
    <3>2. answer[f] = "none"
      BY <3>1 DEF ShipInv, AnswersAreTrue
    <3> QED
      BY <1>1, <3>1, <3>2
  <2> QED
    BY <2>1 DEF Taken, Dropped, Concluded
<1> QED
  BY <1>2, <1>3, <1>4, RangeFacts, CallerLemma

(* A caller gives its POST up: the batch goes back, and may still arrive.   *)
LEMMA GivenUpLemma ==
  ASSUME ShipInv, NEW f \in Flushers, Failed(f), GivenUp(f),
         batch' = [batch EXCEPT ![f] = << >>], UNCHANGED enqueued
  PROVE  AnswersAreTrue' /\ OnlyRetriesReturn'
<1>1. /\ UNCHANGED store /\ answer' = [answer EXCEPT ![f] = "none"]
      /\ retried' = retried \cup Range(batch[f])
      /\ sent' \subseteq committed
  BY DEF GivenUp, Concluded, Failed, ShipInv, AnswersAreTrue
<1>2. Range(queue') \subseteq Range(queue) \cup retried'
  <2>1. /\ queue \in Seq(Nat) /\ batch[f] \in Seq(Nat)
        /\ Increasing(queue) /\ Increasing(batch[f]) /\ Before(batch[f], queue)
    BY DEF ShipInv, IInv, TypeOK, HeldInOrder
  <2>2. queue' = Requeued(batch[f], queue)
    BY DEF Failed
  <2>3. Range(queue') \subseteq Range(batch[f]) \cup Range(queue)
    BY <2>1, <2>2, RequeuedLemma
  <2> QED
    BY <1>1, <2>3
<1>3. \/ stray' = stray
      \/ stray' = stray \cup {batch[f]} /\ answer[f] = "none"
  BY DEF GivenUp, Abandoned, OnItsWay
<1> QED
  BY <1>1, <1>2, <1>3, RangeFacts, CallerLemma

LEMMA CancelLemma ==
  ASSUME ShipInv, Cancel
  PROVE  AnswersAreTrue' /\ OnlyRetriesReturn'
<1>1. /\ batch' = [batch EXCEPT !["interval"] = << >>] /\ queue' = queue /\ enqueued' = enqueued
      /\ sent' \subseteq committed
  BY DEF Cancel, IntervalCancelled, ShipInv, AnswersAreTrue
<1>2. UNCHANGED store /\ answer' = [answer EXCEPT !["interval"] = "none"] /\ retried' = retried
  BY DEF Cancel, Concluded
<1>3. \/ stray' = stray
      \/ stray' = stray \cup {batch["interval"]} /\ answer["interval"] = "none"
  BY DEF Cancel, Abandoned, OnItsWay
<1> QED
  BY <1>1, <1>2, <1>3, RangeFacts, CallerLemma DEF Flushers

LEMMA EndIntervalLemma ==
  ASSUME ShipInv, EndInterval
  PROVE  AnswersAreTrue' /\ OnlyRetriesReturn'
<1>1. batch' = [batch EXCEPT !["interval"] = << >>] /\ enqueued' = enqueued /\ "interval" \in Flushers
  BY DEF EndInterval, SettleInterval, IntervalAccepted, IntervalRefused, IntervalFailed,
         IntervalRaised, IntervalAnswered, Raised, Flushers
<1>2. CASE SettleInterval \/ (IntervalRaised /\ Unsent("interval"))
  <2>1. /\ \/ Accepted("interval") /\ Taken("interval")
           \/ Refused("interval") /\ Dropped("interval")
           \/ Raised("interval") /\ Unsent("interval")
        /\ queue' = queue
    BY <1>2 DEF SettleInterval, IntervalAccepted, IntervalRefused, IntervalRaised, Raised
  <2> QED
    BY <1>1, <2>1, PutDownShippedLemma
<1>3. CASE IntervalFailed /\ GivenUp("interval")
  BY <1>1, <1>3, GivenUpLemma DEF IntervalFailed
<1> QED
  BY <1>2, <1>3 DEF EndInterval

LEMMA EndFinalLemma ==
  ASSUME ShipInv, EndFinal
  PROVE  AnswersAreTrue' /\ OnlyRetriesReturn'
<1>1. enqueued' = enqueued /\ "final" \in Flushers
  BY DEF EndFinal, FinalAccepted, FinalRefused, FinalFailed, FinalRaised, FinalAnswered, Raised,
         Flushers
<1>2. CASE FinalAccepted /\ Taken("final")
  <2>1. CASE batch' = [batch EXCEPT !["final"] = << >>] /\ queue' = queue
    BY <1>1, <1>2, <2>1, PutDownShippedLemma DEF FinalAccepted
  <2>2. CASE queue # << >> /\ TakeBatch("final")
    <3>1. queue \in Seq(Nat) /\ Len(queue) <= MaxQueue /\ Increasing(queue)
      BY DEF ShipInv, IInv, TypeOK, HeldInOrder
    <3>2. /\ batch' = [batch EXCEPT !["final"] = NextBatch]
          /\ Range(NextBatch) \subseteq Range(queue) /\ Range(queue') \subseteq Range(queue)
      BY <2>2, <3>1, NextBatchLemma DEF TakeBatch
    <3>3. /\ UNCHANGED store /\ answer' = [answer EXCEPT !["final"] = "none"]
          /\ stray' = stray /\ retried' = retried /\ sent' \subseteq committed
      BY <1>1, <1>2 DEF Taken, Concluded, FinalAccepted, Accepted, ShipInv, AnswersAreTrue
    <3> QED
      BY <1>1, <3>2, <3>3, CallerLemma
  <2> QED
    BY <1>2, <2>1, <2>2 DEF FinalAccepted
<1>3. CASE (FinalRefused /\ Dropped("final")) \/ (FinalRaised /\ Unsent("final"))
  <2>1. /\ (Refused("final") /\ Dropped("final")) \/ (Raised("final") /\ Unsent("final"))
        /\ batch' = [batch EXCEPT !["final"] = << >>] /\ queue' = queue
    BY <1>3 DEF FinalRefused, FinalRaised, FinalGivesUp, Raised
  <2> QED
    BY <1>1, <2>1, PutDownShippedLemma
<1>4. CASE FinalFailed /\ GivenUp("final")
  BY <1>1, <1>4, GivenUpLemma DEF FinalFailed, FinalGivesUp
<1> QED
  BY <1>2, <1>3, <1>4 DEF EndFinal

LEMMA ShippingInvariantStep == ShipInv /\ [ShippingNext]_shippingVars => ShipInv'
<1> SUFFICES ASSUME ShipInv, [ShippingNext]_shippingVars PROVE ShipInv'
  OBVIOUS
<1>1. IInv'
  BY ShippingStepLemma, StepLemma DEF ShipInv
<1>2. CASE (Enqueue \/ IntervalFlush \/ Shutdown \/ Stopped) /\ Idle
  BY <1>1, <1>2, FlushLemma DEF ShipInv
<1>3. CASE EndInterval \/ EndFinal \/ Cancel
  BY <1>1, <1>3, EndIntervalLemma, EndFinalLemma, CancelLemma DEF ShipInv
<1>4. CASE \E f \in Flushers : Deliver(f)
  BY <1>1, <1>4, DeliverLemma DEF ShipInv
<1>5. CASE \E b \in stray : DeliverStray(b)
  BY <1>1, <1>5, DeliverStrayLemma DEF ShipInv
<1>6. CASE OtherWrite \/ Restart
  BY <1>1, <1>6, OtherWriterLemma DEF ShipInv
<1>7. CASE UNCHANGED shippingVars
  <2>1. /\ queue' = queue /\ batch' = batch /\ enqueued' = enqueued /\ sent' = sent
        /\ stray' = stray /\ retried' = retried /\ answer' = answer
        /\ committed' = committed /\ open' = open /\ twice' = twice
    BY <1>7 DEF shippingVars, vars, ledger, store
  <2>2. Rows' = Rows /\ OnTheRoad' = OnTheRoad /\ Records' = Records
    BY <2>1 DEF Rows, OnTheRoad, Records
  <2> QED
    BY <1>1, <2>1, <2>2 DEF ShipInv, AnswersAreTrue, OnlyRetriesReturn
<1> QED
  BY <1>2, <1>3, <1>4, <1>5, <1>6, <1>7 DEF ShippingNext

LEMMA ShippingInvariance == ShippingSpec => []ShipInv
<1>1. ShippingInit => ShipInv
  BY ShippingInitLemma
<1>2. ShipInv /\ [ShippingNext]_shippingVars => ShipInv'
  BY ShippingInvariantStep
<1> QED
  BY <1>1, <1>2, PTL DEF ShippingSpec

-----------------------------------------------------------------------------
(* The theorems.                                                           *)

(* Whatever the network loses or delays, however often the hosted tier      *)
(* restarts: what the sidecar takes for shipped has a committed row.       *)
THEOREM SentIsDurable == ShippingSpec => []SentIsStored
<1>1. ShipInv => SentIsStored
  BY DEF ShipInv, AnswersAreTrue, SentIsStored
<1> QED
  BY <1>1, ShippingInvariance, PTL

(* A record is inserted a second time only after its POST failed: two       *)
(* flushes and the late arrival of an abandoned POST cannot double it.     *)
THEOREM OnlyRetriesDuplicate == ShippingSpec => []DuplicatesAreRetries
<1>1. ShipInv => DuplicatesAreRetries
  BY DEF ShipInv, OnlyRetriesReturn, DuplicatesAreRetries
<1> QED
  BY <1>1, ShippingInvariance, PTL
=============================================================================
