--------------------------- MODULE SseStreamProofs ---------------------------
(***************************************************************************)
(* SseStream proved, for every set of streams, every way of cutting them   *)
(* and every delay.  The timing half needs nothing of what a line holds.   *)
(* The tally needs what the buffer is: the partial line at the end of what *)
(* was received (BufInv), so that the payloads of all that was received    *)
(* are those tallied before and those of what the buffer and the read make *)
(* together (AtSplits).                                                    *)
(***************************************************************************)
EXTENDS SseStream, SequenceTheorems, FunctionTheorems, FiniteSetTheorems, WellFoundedInduction,
        TLAPS

(* The timer's readings are in the order they were taken.                  *)
TimerInv ==
  /\ clock \in Nat
  /\ first \in Nat \cup {Never} /\ last \in Nat \cup {Never}
  /\ chunks \in Nat /\ gapSum \in Int /\ gaps \in Int
  /\ first = Never => last = Never
  /\ first # Never => first <= last /\ last <= clock
  /\ GapsTelescope

(* What the one record says, in terms of the timer it was made from.       *)
RecordInv ==
  \/ pc \in {"reading", "closing"} /\ records = << >>
  \/ /\ pc = "done"
     /\ Len(records) = 1 /\ DOMAIN records = {1}
     /\ records[1].e2e \in Nat /\ last <= records[1].e2e
     /\ records[1].ttft = first
     /\ records[1].gapSum = gapSum
     /\ records[1].gapCount = chunks - 1

IInv == TimerInv /\ RecordInv

LEMMA InitInv == Init => IInv
BY DEF Init, IInv, TimerInv, RecordInv, GapsTelescope, Start, Never

LEMMA ReadKeeps == IInv /\ Read => IInv'
<1> SUFFICES ASSUME IInv, Read PROVE IInv'
  OBVIOUS
<1>1. PICK k \in 1 .. Len(wire), delay \in 0 .. MaxDelay :
        /\ clock' = clock + delay
        /\ UNCHANGED timer \/ OnChunk(clock + delay)
  BY DEF Read
<1>2. pc = "reading" /\ UNCHANGED <<pc, records>>
  BY DEF Read
<1>3. delay \in Nat
  BY SseAssumption DEF SseAssumption
<1>4. RecordInv'
  BY <1>2 DEF IInv, RecordInv
<1>5. TimerInv'
  <2>1. CASE UNCHANGED timer
    BY <1>1, <1>3, <2>1 DEF IInv, TimerInv, GapsTelescope, timer, Never
  <2>2. CASE OnChunk(clock + delay)
    <3>1. CASE first = Never
      BY <1>1, <1>3, <2>2, <3>1 DEF IInv, TimerInv, GapsTelescope, OnChunk, Never
    <3>2. CASE first # Never
      BY <1>1, <1>3, <2>2, <3>2 DEF IInv, TimerInv, GapsTelescope, OnChunk, Never
    <3> QED BY <3>1, <3>2
  <2> QED BY <1>1, <2>1, <2>2
<1> QED BY <1>4, <1>5 DEF IInv

(* The fields of a record.                                                 *)
LEMMA RecordFields ==
  ASSUME NEW now
  PROVE  /\ RecordAt(now).e2e = now - Start /\ RecordAt(now).ttft = Ttft
         /\ RecordAt(now).gapSum = gapSum /\ RecordAt(now).gapCount = chunks - 1
BY DEF RecordAt

LEMMA CloseKeeps == IInv /\ Close => IInv'
<1> SUFFICES ASSUME IInv, Close PROVE IInv'
  OBVIOUS
<1>1. PICK delay \in 0 .. MaxDelay :
        /\ clock' = clock + delay
        /\ records' = Append(records, RecordAt(clock + delay))
  BY DEF Close
<1>2. delay \in Nat
  BY SseAssumption DEF SseAssumption
<1>3. pc = "closing" /\ pc' = "done" /\ UNCHANGED timer
  BY DEF Close
<1>4. records = << >>
  BY <1>3 DEF IInv, RecordInv
<1>5. TimerInv'
  BY <1>1, <1>2, <1>3 DEF IInv, TimerInv, GapsTelescope, timer, Never
<1>6. records' = <<RecordAt(clock + delay)>>
  BY <1>1, <1>4
<1>7. Ttft = first
  BY DEF IInv, TimerInv, Ttft, Start, Never
<1>8. RecordInv'
  <2>1. PICK now : now = clock + delay
    OBVIOUS
  <2>2. /\ RecordAt(now).e2e = now - Start /\ RecordAt(now).ttft = Ttft
        /\ RecordAt(now).gapSum = gapSum /\ RecordAt(now).gapCount = chunks - 1
    BY RecordFields
  <2>3. Len(records') = 1 /\ DOMAIN records' = {1} /\ records'[1] = RecordAt(now)
    BY <1>6, <2>1
  <2>4. UNCHANGED <<first, last, chunks, gapSum>>
    BY <1>3 DEF timer
  <2>5. records'[1].e2e \in Nat /\ last' <= records'[1].e2e
    <3>1. records'[1].e2e = now - Start
      BY <2>2, <2>3
    <3>2. last' = last
      BY <2>4
    <3>3. last <= now - Start /\ now - Start \in Nat
      BY <1>2, <2>1 DEF IInv, TimerInv, GapsTelescope, Start, Never
    <3> QED BY <3>1, <3>2, <3>3
  <2>6. /\ records'[1].ttft = first' /\ records'[1].gapSum = gapSum'
        /\ records'[1].gapCount = chunks' - 1
    BY <1>7, <2>2, <2>3, <2>4
  <2> QED BY <1>3, <2>3, <2>5, <2>6 DEF RecordInv
<1> QED BY <1>5, <1>8 DEF IInv

THEOREM Invariance == Spec => []IInv
<1>1. IInv /\ [Next]_vars => IInv'
  <2> SUFFICES ASSUME IInv, [Next]_vars PROVE IInv'
    OBVIOUS
  <2>1. CASE Read
    BY <2>1, ReadKeeps
  <2>2. CASE End
    BY <2>2 DEF End, IInv, TimerInv, RecordInv, GapsTelescope, timer
  <2>3. CASE Close
    BY <2>3, CloseKeeps
  <2>4. CASE Done \/ UNCHANGED vars
    BY <2>4 DEF Done, vars, IInv, TimerInv, RecordInv, GapsTelescope, timer
  <2> QED BY <2>1, <2>2, <2>3, <2>4 DEF Next
<1> QED BY InitInv, <1>1, PTL DEF Spec

(* The gaps add up to the time from the first chunk to the last, one fewer  *)
(* than chunks, whatever the stream and however it is cut.                 *)
THEOREM GapsCorrect == Spec => []GapsTelescope
<1>1. IInv => GapsTelescope
  BY DEF IInv, TimerInv
<1> QED BY Invariance, <1>1, PTL

(* A record's time to first token and gaps fit within its end-to-end time.  *)
THEOREM RecordCorrect == Spec => []RecordConsistent
<1>1. IInv => RecordConsistent
  <2> SUFFICES ASSUME IInv, NEW i \in DOMAIN records
               PROVE  LET rec == records[i] IN
                        /\ rec.ttft = Never => rec.gapSum = 0
                        /\ rec.ttft # Never => rec.ttft >= 0 /\ rec.ttft + rec.gapSum <= rec.e2e
                        /\ rec.gapCount > 0 => rec.gapCount = gaps
    BY DEF RecordConsistent
  <2>1. i = 1 /\ pc = "done"
    BY DEF IInv, RecordInv
  <2> QED
    BY <2>1 DEF IInv, TimerInv, RecordInv, GapsTelescope, Never
<1> QED BY Invariance, <1>1, PTL

-----------------------------------------------------------------------------
(* Greatest elements.                                                      *)

(* A non-empty set of natural numbers has a least element.                 *)
LEMMA Least ==
  ASSUME NEW S \in SUBSET Nat, S # {}
  PROVE  \E n \in S : \A m \in S : n <= m
<1> DEFINE R == OpToRel(<, Nat)
<1>1. IsWellFoundedOn(R, Nat)
  BY NatLessThanWellFounded
<1>2. \A x, y \in Nat : x < y => <<x, y>> \in R
  BY DEF OpToRel
<1> HIDE DEF R
<1>3. PICK n \in S : \A m \in S : ~(<<m, n>> \in R)
  BY <1>1, WFMin
<1>4. ASSUME NEW m \in S PROVE n <= m
  <2>1. m \in Nat /\ n \in Nat /\ ~(m < n)
    BY <1>2, <1>3
  <2> QED
    BY <2>1
<1> QED
  BY <1>3, <1>4

(* The least bound of a bounded set is its greatest element.               *)
LEMMA MaxLemma ==
  ASSUME NEW S \in SUBSET Nat, S # {}, NEW n \in Nat, \A x \in S : x <= n
  PROVE  Max(S) \in S /\ \A x \in S : x <= Max(S)
<1> DEFINE B == {b \in Nat : \A x \in S : x <= b}
<1>1. PICK m \in B : \A b \in B : m <= b
  <2>1. B # {}
    OBVIOUS
  <2> HIDE DEF B
  <2>2. B \in SUBSET Nat
    BY DEF B
  <2> QED
    BY <2>1, <2>2, Least
<1>2. m \in S
  <2> SUFFICES ASSUME m \notin S PROVE FALSE
    OBVIOUS
  <2>1. \A x \in S : x < m
    <3> SUFFICES ASSUME NEW x \in S PROVE x < m
      OBVIOUS
    <3>1. x \in Nat /\ m \in Nat /\ x <= m /\ x # m
      BY <1>1
    <3> QED
      BY <3>1
  <2>2. m # 0 /\ m - 1 \in Nat
    <3>1. PICK x \in S : x < m
      BY <2>1
    <3>2. x \in Nat /\ m \in Nat
      BY <1>1
    <3> QED
      BY <3>1, <3>2
  <2>3. m - 1 \in B
    BY <1>1, <2>1, <2>2
  <2> QED
    BY <1>1, <2>2, <2>3
<1>3. \E x \in S : \A y \in S : x >= y
  BY <1>1, <1>2
<1>4. Max(S) \in S /\ \A y \in S : Max(S) >= y
  BY <1>3 DEF Max
<1> QED
  BY <1>4

(* It is the only one.                                                     *)
LEMMA MaxIs ==
  ASSUME NEW S \in SUBSET Nat, NEW m \in S, \A x \in S : x <= m
  PROVE  Max(S) = m
<1>1. S # {} /\ \A x \in S : x <= m
  OBVIOUS
<1>2. Max(S) \in S /\ \A x \in S : x <= Max(S)
  <2>1. m \in Nat
    OBVIOUS
  <2> QED
    BY <1>1, <2>1, MaxLemma
<1>3. Max(S) \in Nat /\ m \in Nat /\ m <= Max(S) /\ Max(S) <= m
  BY <1>1, <1>2
<1> QED
  BY <1>3

-----------------------------------------------------------------------------
(* Lines.                                                                  *)

(* Where a line begins: after the last end before it, or at the start.     *)
LEMMA EndBeforeLemma ==
  ASSUME NEW s \in Seq(Symbols), NEW i \in 1 .. Len(s) + 1
  PROVE  LET b == EndBefore(s, i) IN
           /\ b \in 0 .. i - 1
           /\ b = 0 \/ s[b] = "\n"
           /\ \A j \in b + 1 .. i - 1 : s[j] # "\n"
<1> DEFINE E == {0} \cup {e \in LineEnds(s) : e < i}
<1>1. Len(s) \in Nat /\ DOMAIN s = 1 .. Len(s)
  OBVIOUS
<1>2. E \in SUBSET Nat /\ E # {} /\ \A x \in E : x <= i - 1
  BY <1>1 DEF LineEnds
<1>3. \A j \in 1 .. i - 1 : s[j] = "\n" => j \in E
  BY <1>1 DEF LineEnds
<1>4. \A x \in E : x = 0 \/ s[x] = "\n"
  BY DEF LineEnds
<1>5. EndBefore(s, i) = Max(E)
  BY DEF EndBefore
<1> HIDE DEF E
<1>6. Max(E) \in E /\ \A x \in E : x <= Max(E)
  <2>1. PICK n \in Nat : n = i - 1
    BY <1>1
  <2>2. \A x \in E : x <= n
    BY <1>2, <2>1
  <2> QED
    BY <1>2, <2>2, MaxLemma
<1>7. Max(E) \in 0 .. i - 1
  <2>1. PICK m \in E : m = Max(E)
    BY <1>6
  <2>2. m \in Nat /\ m <= i - 1
    BY <1>2, <2>1
  <2> QED
    BY <2>1, <2>2
<1>8. ASSUME NEW j \in Max(E) + 1 .. i - 1 PROVE s[j] # "\n"
  <2>1. j \in 1 .. i - 1 /\ ~(j <= Max(E))
    BY <1>7
  <2> QED
    BY <1>3, <1>6, <2>1
<1> QED
  BY <1>4, <1>5, <1>6, <1>7, <1>8

(* Where a line begins is determined by what lies between.                 *)
LEMMA EndBeforeIs ==
  ASSUME NEW s \in Seq(Symbols), NEW i \in 1 .. Len(s) + 1, NEW b \in 0 .. i - 1,
         b = 0 \/ s[b] = "\n", \A j \in b + 1 .. i - 1 : s[j] # "\n"
  PROVE  EndBefore(s, i) = b
<1>1. PICK c \in Int : c = EndBefore(s, i)
  BY EndBeforeLemma
<1>2. /\ c \in 0 .. i - 1 /\ (c = 0 \/ s[c] = "\n")
      /\ \A j \in c + 1 .. i - 1 : s[j] # "\n"
  BY <1>1, EndBeforeLemma
<1>3. CASE c < b
  BY <1>2, <1>3
<1>4. CASE b < c
  BY <1>2, <1>4
<1> QED
  BY <1>1, <1>3, <1>4

(* The events of a sequence are its payloads, those that hold a member of X *)
(* as those that are one.                                                  *)
Holding(s, X) == {e \in Events(s) : Payload(s, e) \in X}
At(s, X) == {i \in PayloadsOf(s) : s[i] \in X}

LEMMA EventLemma ==
  ASSUME NEW s \in Seq(Symbols), NEW e \in Events(s)
  PROVE  /\ EndBefore(s, e) + 2 \in PayloadsOf(s) /\ EndBefore(s, e) \in Nat
         /\ e \in 1 .. Len(s) /\ s[e] = "\n" /\ EndBefore(s, e) + 2 < e
         /\ \A j \in EndBefore(s, e) + 1 .. e - 1 : s[j] # "\n"
<1> DEFINE b == EndBefore(s, e)
<1>1. e \in 1 .. Len(s) /\ s[e] = "\n" /\ b + 2 < e /\ s[b + 1] = "data:" /\ s[b + 2] # "[DONE]"
  BY DEF Events, LineEnds
<1>2. /\ b \in 0 .. e - 1 /\ (b = 0 \/ s[b] = "\n")
      /\ \A j \in b + 1 .. e - 1 : s[j] # "\n"
  BY <1>1, EndBeforeLemma
<1> HIDE DEF b
<1>3. b + 2 \in 2 .. Len(s) /\ b + 2 - 1 = b + 1 /\ b + 2 - 2 = b /\ b + 2 \in b + 1 .. e - 1
  BY <1>1, <1>2
<1>4. e \in (b + 2) + 1 .. Len(s)
  BY <1>1, <1>2
<1>5. IsPayload(s, b + 2)
  BY <1>1, <1>2, <1>3, <1>4 DEF IsPayload
<1> QED
  BY <1>1, <1>2, <1>3, <1>5 DEF PayloadsOf, b

LEMMA PayloadLemma ==
  ASSUME NEW s \in Seq(Symbols), NEW i \in PayloadsOf(s)
  PROVE  \E e \in Events(s) : EndBefore(s, e) + 2 = i
<1>1. i \in 2 .. Len(s) /\ IsPayload(s, i) /\ Len(s) \in Nat
  BY DEF PayloadsOf
<1> DEFINE J == {j \in i + 1 .. Len(s) : s[j] = "\n"}
<1>2. J # {} /\ J \in SUBSET Nat
  BY <1>1 DEF IsPayload
<1> HIDE DEF J
<1>3. PICK e \in J : \A j \in J : e <= j
  BY <1>2, Least
<1>4. e \in i + 1 .. Len(s) /\ s[e] = "\n"
  BY <1>3 DEF J
<1>5. ASSUME NEW j \in (i - 2) + 1 .. e - 1 PROVE s[j] # "\n"
  <2>1. CASE j = i - 1 \/ j = i
    BY <1>1, <2>1 DEF IsPayload
  <2>2. CASE j > i
    <3>1. j \in i + 1 .. Len(s) /\ ~(e <= j)
      BY <1>1, <1>4, <2>2
    <3> QED
      BY <1>3, <3>1 DEF J
  <2> QED
    BY <1>1, <1>4, <2>1, <2>2
<1>6. EndBefore(s, e) = i - 2
  <2>1. e \in 1 .. Len(s) + 1 /\ i - 2 \in 0 .. e - 1
    BY <1>1, <1>4
  <2>2. i - 2 = 0 \/ s[i - 2] = "\n"
    BY <1>1 DEF IsPayload
  <2> QED
    BY <1>5, <2>1, <2>2, EndBeforeIs
<1>7. e \in Events(s)
  <2>1. e \in LineEnds(s)
    BY <1>1, <1>4 DEF LineEnds
  <2>2. (i - 2) + 2 < e /\ s[(i - 2) + 1] = "data:" /\ s[(i - 2) + 2] # "[DONE]"
    <3>1. (i - 2) + 2 = i /\ (i - 2) + 1 = i - 1
      BY <1>1
    <3> QED
      BY <1>1, <1>4, <3>1 DEF IsPayload
  <2> QED
    BY <1>6, <2>1, <2>2 DEF Events
<1> QED
  BY <1>1, <1>6, <1>7

(* Later events have later payloads.                                       *)
LEMMA EventOrder ==
  ASSUME NEW s \in Seq(Symbols), NEW d \in Events(s), NEW e \in Events(s), d < e
  PROVE  EndBefore(s, d) < EndBefore(s, e)
<1>1. PICK c \in Nat, b \in Nat : c = EndBefore(s, d) /\ b = EndBefore(s, e)
  BY EventLemma
<1>2. d \in 1 .. Len(s) /\ s[d] = "\n" /\ c + 2 < d /\ \A j \in b + 1 .. e - 1 : s[j] # "\n"
  BY <1>1, EventLemma
<1>3. e \in 1 .. Len(s)
  BY EventLemma
<1>4. ~(d \in b + 1 .. e - 1)
  BY <1>2
<1>5. d <= b
  BY <1>1, <1>2, <1>3, <1>4
<1> QED
  BY <1>1, <1>2, <1>5

LEMMA EventsArePayloads ==
  ASSUME NEW s \in Seq(Symbols), NEW X
  PROVE  /\ IsFiniteSet(At(s, X)) /\ Cardinality(At(s, X)) \in Nat
         /\ Cardinality(Holding(s, X)) = Cardinality(At(s, X))
         /\ Holding(s, X) = {} <=> At(s, X) = {}
         /\ At(s, X) # {} => Payload(s, Max(Holding(s, X))) = s[Max(At(s, X))]
<1> DEFINE f == [e \in Holding(s, X) |-> EndBefore(s, e) + 2]
<1>1. Len(s) \in Nat /\ At(s, X) \in SUBSET (2 .. Len(s)) /\ Holding(s, X) \in SUBSET (1 .. Len(s))
  BY EventLemma DEF At, PayloadsOf, Holding
<1>2. IsFiniteSet(At(s, X)) /\ Cardinality(At(s, X)) \in Nat /\ IsFiniteSet(Holding(s, X))
  <2>1. IsFiniteSet(2 .. Len(s)) /\ IsFiniteSet(1 .. Len(s))
    BY <1>1, FS_Interval
  <2> QED
    BY <1>1, <2>1, FS_Subset, FS_CardinalityType
<1>3. \A e \in Holding(s, X) : f[e] \in At(s, X) /\ s[f[e]] = Payload(s, e) /\ f[e] \in Nat
  BY EventLemma DEF Holding, At, Payload
<1>4. \A d, e \in Holding(s, X) : d < e => f[d] < f[e]
  <2> SUFFICES ASSUME NEW d \in Holding(s, X), NEW e \in Holding(s, X), d < e
               PROVE  EndBefore(s, d) + 2 < EndBefore(s, e) + 2
    OBVIOUS
  <2>1. d \in Events(s) /\ e \in Events(s)
    BY DEF Holding
  <2> QED
    BY <2>1, EventLemma, EventOrder
<1>5. \A i \in At(s, X) : \E e \in Holding(s, X) : f[e] = i
  <2> SUFFICES ASSUME NEW i \in At(s, X) PROVE \E e \in Holding(s, X) : EndBefore(s, e) + 2 = i
    OBVIOUS
  <2>1. PICK e \in Events(s) : EndBefore(s, e) + 2 = i
    BY PayloadLemma DEF At
  <2>2. e \in Holding(s, X)
    BY <2>1 DEF At, Holding, Payload
  <2> QED
    BY <2>1, <2>2
<1>6. f \in [Holding(s, X) -> At(s, X)]
  BY <1>3
<1> HIDE DEF f
<1>7. f \in Bijection(Holding(s, X), At(s, X))
  <2>1. \A d, e \in Holding(s, X) : f[d] = f[e] => d = e
    <3> SUFFICES ASSUME NEW d \in Holding(s, X), NEW e \in Holding(s, X), f[d] = f[e], d # e
                 PROVE  FALSE
      OBVIOUS
    <3>1. d < e \/ e < d
      BY <1>1
    <3> QED
      BY <1>3, <1>4, <3>1
  <2>2. f \in Injection(Holding(s, X), At(s, X))
    BY <1>6, <2>1 DEF Injection, IsInjective
  <2>3. f \in Surjection(Holding(s, X), At(s, X))
    BY <1>5, <1>6 DEF Surjection
  <2> QED
    BY <2>2, <2>3 DEF Bijection
<1>8. Cardinality(Holding(s, X)) = Cardinality(At(s, X))
  BY <1>2, <1>7, FS_Bijection DEF ExistsBijection
<1>9. Holding(s, X) = {} <=> At(s, X) = {}
  BY <1>3, <1>5
<1>10. ASSUME At(s, X) # {} PROVE Payload(s, Max(Holding(s, X))) = s[Max(At(s, X))]
  <2>1. /\ Holding(s, X) \in SUBSET Nat /\ Holding(s, X) # {}
        /\ \A e \in Holding(s, X) : e <= Len(s)
    BY <1>1, <1>9, <1>10
  <2>2. PICK m \in Holding(s, X) : m = Max(Holding(s, X)) /\ \A e \in Holding(s, X) : e <= m
    BY <1>1, <2>1, MaxLemma
  <2>3. ASSUME NEW i \in At(s, X) PROVE i <= f[m]
    <3>1. PICK e \in Holding(s, X) : f[e] = i
      BY <1>5
    <3>2. e = m \/ e < m
      BY <2>1, <2>2
    <3> QED
      BY <1>3, <1>4, <3>1, <3>2
  <2>4. f[m] \in At(s, X) /\ At(s, X) \in SUBSET Nat
    BY <1>1, <1>3
  <2>5. Max(At(s, X)) = f[m]
    BY <2>3, <2>4, MaxIs
  <2> QED
    BY <1>3, <2>2, <2>5
<1> QED
  BY <1>2, <1>8, <1>9, <1>10

-----------------------------------------------------------------------------
(* What is received falls into the lines that are complete and what the     *)
(* buffer holds.                                                           *)

(* What feed() keeps: all after the last "\n".                             *)
LEMMA RestLemma ==
  ASSUME NEW s \in Seq(Symbols)
  PROVE  \E d \in 0 .. Len(s) :
           /\ d = 0 \/ s[d] = "\n"
           /\ Rest(s) \in Seq(Symbols) /\ Len(Rest(s)) = Len(s) - d
           /\ \A i \in 1 .. Len(s) - d : Rest(s)[i] = s[d + i] /\ s[d + i] # "\n"
<1>1. Len(s) \in Nat /\ Len(s) + 1 \in 1 .. Len(s) + 1
  OBVIOUS
<1>2. PICK d : d = EndBefore(s, Len(s) + 1)
  OBVIOUS
<1>3. /\ d \in 0 .. Len(s) + 1 - 1 /\ (d = 0 \/ s[d] = "\n")
      /\ \A j \in d + 1 .. Len(s) + 1 - 1 : s[j] # "\n"
  BY <1>1, <1>2, EndBeforeLemma
<1>4. d \in 0 .. Len(s)
  BY <1>1, <1>3
<1>5. Rest(s) = SubSeq(s, d + 1, Len(s))
  BY <1>2 DEF Rest
<1>6. \A j \in d + 1 .. Len(s) : s[j] \in Symbols
  BY <1>1, <1>4
<1>7. /\ SubSeq(s, d + 1, Len(s)) \in Seq(Symbols)
      /\ Len(SubSeq(s, d + 1, Len(s))) = Len(s) - d
      /\ \A i \in 1 .. Len(s) - d : SubSeq(s, d + 1, Len(s))[i] = s[d + i]
  BY <1>1, <1>4, <1>6
<1>8. \A i \in 1 .. Len(s) - d : s[d + i] # "\n"
  <2> SUFFICES ASSUME NEW i \in 1 .. Len(s) - d PROVE s[d + i] # "\n"
    OBVIOUS
  <2>1. d + i \in d + 1 .. Len(s) + 1 - 1
    BY <1>1, <1>4
  <2> QED
    BY <1>3, <2>1
<1> QED
  BY <1>3, <1>4, <1>5, <1>7, <1>8

(* The payloads of what follows a "\n" are those of the whole from there on. *)
LEMMA PayloadsAfter ==
  ASSUME NEW t \in Seq(Symbols), NEW s \in Seq(Symbols), NEW d \in Nat,
         Len(t) = d + Len(s), d = 0 \/ t[d] = "\n",
         \A i \in 1 .. Len(s) : s[i] = t[d + i],
         NEW i \in Nat \ {0}
  PROVE  i \in PayloadsOf(s) <=> d + i \in PayloadsOf(t)
<1>1. Len(s) \in Nat /\ Len(t) \in Nat
  OBVIOUS
<1>2. ASSUME i \in PayloadsOf(s) PROVE d + i \in PayloadsOf(t)
  <2>1. i \in 2 .. Len(s) /\ IsPayload(s, i)
    BY <1>2 DEF PayloadsOf
  <2>2. d + i \in 2 .. Len(t)
    BY <1>1, <2>1
  <2>3. t[d + i - 1] = "data:" /\ t[d + i] \notin {"[DONE]", "\n"}
    <3>1. i - 1 \in 1 .. Len(s) /\ i \in 1 .. Len(s) /\ d + (i - 1) = d + i - 1
      BY <1>1, <2>1
    <3>2. s[i - 1] = t[d + (i - 1)] /\ s[i] = t[d + i]
      BY <3>1
    <3> QED
      BY <2>1, <3>1, <3>2 DEF IsPayload
  <2>4. d + i = 2 \/ t[d + i - 2] = "\n"
    <3>1. CASE i = 2
      <4>1. d + i - 2 = d /\ (d = 0 => d + i = 2)
        BY <3>1
      <4> QED
        BY <4>1
    <3>2. CASE i # 2
      <4>1. i - 2 \in 1 .. Len(s) /\ d + (i - 2) = d + i - 2
        BY <1>1, <2>1, <3>2
      <4>2. s[i - 2] = t[d + (i - 2)]
        BY <4>1
      <4> QED
        BY <2>1, <3>2, <4>1, <4>2 DEF IsPayload
    <3> QED
      BY <3>1, <3>2
  <2>5. \E j \in d + i + 1 .. Len(t) : t[j] = "\n"
    <3>1. PICK j \in i + 1 .. Len(s) : s[j] = "\n"
      BY <2>1 DEF IsPayload
    <3>2. d + j \in d + i + 1 .. Len(t) /\ t[d + j] = "\n"
      BY <1>1, <3>1
    <3> QED
      BY <3>2
  <2> QED
    BY <2>2, <2>3, <2>4, <2>5 DEF PayloadsOf, IsPayload
<1>3. ASSUME d + i \in PayloadsOf(t) PROVE i \in PayloadsOf(s)
  <2>1. d + i \in 2 .. Len(t) /\ IsPayload(t, d + i)
    BY <1>3 DEF PayloadsOf
  <2>2. i \in 2 .. Len(s)
    <3>1. i <= Len(s)
      BY <1>1, <2>1
    <3>2. i # 1
      <4> SUFFICES ASSUME i = 1 PROVE FALSE
        OBVIOUS
      <4>1. d # 0 /\ d + i - 1 = d
        BY <2>1
      <4> QED
        BY <2>1, <4>1 DEF IsPayload
    <3> QED
      BY <1>1, <3>1, <3>2
  <2>3. s[i - 1] = "data:" /\ s[i] \notin {"[DONE]", "\n"}
    <3>1. i - 1 \in 1 .. Len(s) /\ i \in 1 .. Len(s) /\ d + (i - 1) = d + i - 1
      BY <1>1, <2>2
    <3>2. s[i - 1] = t[d + (i - 1)] /\ s[i] = t[d + i]
      BY <3>1
    <3> QED
      BY <2>1, <3>1, <3>2 DEF IsPayload
  <2>4. i = 2 \/ s[i - 2] = "\n"
    <3> SUFFICES ASSUME i # 2 PROVE s[i - 2] = "\n"
      OBVIOUS
    <3>1. i - 2 \in 1 .. Len(s) /\ d + (i - 2) = d + i - 2 /\ d + i # 2
      BY <1>1, <2>2
    <3>2. s[i - 2] = t[d + (i - 2)]
      BY <3>1
    <3> QED
      BY <2>1, <3>1, <3>2 DEF IsPayload
  <2>5. \E j \in i + 1 .. Len(s) : s[j] = "\n"
    <3>1. PICK j \in d + i + 1 .. Len(t) : t[j] = "\n"
      BY <2>1 DEF IsPayload
    <3>2. j - d \in i + 1 .. Len(s) /\ j - d \in 1 .. Len(s) /\ d + (j - d) = j
      BY <1>1, <3>1
    <3>3. s[j - d] = t[d + (j - d)]
      BY <3>2
    <3> QED
      BY <3>1, <3>2, <3>3
  <2> QED
    BY <2>2, <2>3, <2>4, <2>5 DEF PayloadsOf, IsPayload
<1> QED
  BY <1>2, <1>3

(* The payloads received so far lie before the last "\n", where more bytes  *)
(* do not change them.                                                     *)
LEMMA PayloadsBefore ==
  ASSUME NEW u \in Seq(Symbols), NEW t \in Seq(Symbols), NEW d \in 0 .. Len(u),
         Len(u) <= Len(t), \A i \in 1 .. Len(u) : t[i] = u[i],
         d = 0 \/ u[d] = "\n", \A j \in d + 1 .. Len(u) : u[j] # "\n",
         NEW i \in Nat
  PROVE  /\ i \in PayloadsOf(u) => i \in 1 .. d
         /\ i \in PayloadsOf(u) <=> i \in PayloadsOf(t) /\ i <= d
<1>1. Len(u) \in Nat /\ Len(t) \in Nat
  OBVIOUS
<1>2. ASSUME i \in PayloadsOf(u) PROVE i \in 1 .. d /\ i \in PayloadsOf(t)
  <2>1. i \in 2 .. Len(u) /\ IsPayload(u, i)
    BY <1>2 DEF PayloadsOf
  <2>2. PICK j \in i + 1 .. Len(u) : u[j] = "\n"
    BY <2>1 DEF IsPayload
  <2>3. j <= d
    <3>1. ~(j \in d + 1 .. Len(u))
      BY <2>2
    <3> QED
      BY <1>1, <2>1, <3>1
  <2>4. j \in i + 1 .. Len(t) /\ t[j] = "\n"
    <3>1. j \in 1 .. Len(u)
      BY <1>1, <2>1
    <3>2. t[j] = u[j]
      BY <3>1
    <3> QED
      BY <1>1, <2>1, <2>2, <3>1, <3>2
  <2>5. i \in 2 .. Len(t) /\ t[i] = u[i] /\ t[i - 1] = u[i - 1] /\ (i # 2 => t[i - 2] = u[i - 2])
    BY <1>1, <2>1
  <2>6. IsPayload(t, i)
    BY <2>1, <2>4, <2>5 DEF IsPayload
  <2> QED
    BY <1>1, <2>1, <2>3, <2>5, <2>6 DEF PayloadsOf
<1>3. ASSUME i \in PayloadsOf(t), i <= d PROVE i \in PayloadsOf(u)
  <2>1. i \in 2 .. Len(t) /\ IsPayload(t, i)
    BY <1>3 DEF PayloadsOf
  <2>2. i \in 2 .. Len(u)
    BY <1>1, <1>3, <2>1
  <2>3. t[i] = u[i] /\ t[i - 1] = u[i - 1] /\ (i # 2 => t[i - 2] = u[i - 2])
    BY <1>1, <2>2
  <2>4. d \in i + 1 .. Len(u) /\ u[d] = "\n"
    <3>1. d # 0 /\ u[d] = "\n" /\ d # i
      BY <1>1, <1>3, <2>1, <2>2, <2>3 DEF IsPayload
    <3> QED
      BY <1>1, <1>3, <3>1
  <2>5. IsPayload(u, i)
    BY <2>1, <2>3, <2>4 DEF IsPayload
  <2> QED
    BY <2>2, <2>5 DEF PayloadsOf
<1> QED
  BY <1>2, <1>3

(* t is u and more, s is what follows in t the last "\n" of u, at d.         *)
Continues(u, s, t, d) ==
  /\ u \in Seq(Symbols) /\ t \in Seq(Symbols) /\ s \in Seq(Symbols) /\ d \in 0 .. Len(u)
  /\ Len(u) <= Len(t) /\ \A i \in 1 .. Len(u) : t[i] = u[i]
  /\ Len(t) = d + Len(s) /\ \A i \in 1 .. Len(s) : s[i] = t[d + i]
  /\ d = 0 \/ u[d] = "\n"
  /\ \A j \in d + 1 .. Len(u) : u[j] # "\n"

(* The payloads of t are those of u and, moved by d, those of s.            *)
LEMMA AtSplits ==
  ASSUME NEW u, NEW s, NEW t, NEW d, Continues(u, s, t, d), NEW X
  PROVE  /\ Cardinality(At(t, X)) = Cardinality(At(u, X)) + Cardinality(At(s, X))
         /\ At(s, X) = {} => At(t, X) = At(u, X)
         /\ At(s, X) # {} => At(t, X) # {} /\ t[Max(At(t, X))] = s[Max(At(s, X))]
<1> DEFINE shift == [i \in At(s, X) |-> d + i]
           Later == {d + i : i \in At(s, X)}
<1> USE DEF Continues
<1>1. Len(u) \in Nat /\ Len(t) \in Nat /\ Len(s) \in Nat /\ d \in Nat
  OBVIOUS
<1>2. At(s, X) \in SUBSET (2 .. Len(s)) /\ At(t, X) \in SUBSET (2 .. Len(t))
  BY DEF At, PayloadsOf
<1>3. d = 0 \/ t[d] = "\n"
  BY <1>1
<1>4. \A i \in Nat \ {0} : i \in PayloadsOf(s) <=> d + i \in PayloadsOf(t)
  BY <1>1, <1>3, PayloadsAfter
<1>5. \A i \in Nat : /\ i \in PayloadsOf(u) => i \in 1 .. d
                     /\ i \in PayloadsOf(u) <=> i \in PayloadsOf(t) /\ i <= d
  BY PayloadsBefore
<1>6. \A i \in At(s, X) : d + i \in At(t, X) /\ t[d + i] = s[i] /\ d + i > d
  <2> SUFFICES ASSUME NEW i \in At(s, X)
               PROVE  d + i \in At(t, X) /\ t[d + i] = s[i] /\ d + i > d
    OBVIOUS
  <2>1. i \in Nat \ {0} /\ i \in 1 .. Len(s) /\ i \in PayloadsOf(s) /\ s[i] \in X
    BY <1>1, <1>2 DEF At
  <2>2. d + i \in PayloadsOf(t) /\ t[d + i] = s[i]
    BY <1>4, <2>1
  <2> QED
    BY <1>1, <2>1, <2>2 DEF At
<1>7. \A i \in At(u, X) : i \in At(t, X) /\ i \in 1 .. d
  <2> SUFFICES ASSUME NEW i \in At(u, X) PROVE i \in At(t, X) /\ i \in 1 .. d
    OBVIOUS
  <2>1. i \in Nat /\ i \in PayloadsOf(u) /\ u[i] \in X /\ i \in 1 .. Len(u)
    BY <1>1 DEF At, PayloadsOf
  <2>2. i \in PayloadsOf(t) /\ i \in 1 .. d /\ t[i] = u[i]
    BY <1>5, <2>1
  <2> QED
    BY <2>1, <2>2 DEF At
<1>8. ASSUME NEW k \in At(t, X) PROVE k \in At(u, X) \/ \E i \in At(s, X) : k = d + i
  <2>1. k \in Nat /\ k \in PayloadsOf(t) /\ t[k] \in X /\ k \in 2 .. Len(t)
    BY <1>1, <1>2 DEF At
  <2>2. CASE k <= d
    <3>1. k \in PayloadsOf(u) /\ k \in 1 .. Len(u)
      BY <1>1, <1>5, <2>1, <2>2
    <3>2. t[k] = u[k]
      BY <3>1
    <3> QED
      BY <2>1, <3>1, <3>2 DEF At
  <2>3. CASE ~(k <= d)
    <3>1. k - d \in Nat \ {0} /\ d + (k - d) = k /\ k - d \in 1 .. Len(s)
      BY <1>1, <2>1, <2>3
    <3>2. k - d \in PayloadsOf(s) /\ s[k - d] = t[k]
      BY <1>4, <2>1, <3>1
    <3>3. k - d \in At(s, X)
      BY <2>1, <3>2 DEF At
    <3> QED
      BY <3>1, <3>3
  <2> QED
    BY <2>2, <2>3
<1>9. At(t, X) = At(u, X) \cup Later /\ At(u, X) \cap Later = {}
  <2>1. At(u, X) \cap Later = {}
    <3> SUFFICES ASSUME NEW i \in At(u, X), NEW j \in At(s, X), i = d + j PROVE FALSE
      OBVIOUS
    <3>1. d + j > d /\ i \in 1 .. d
      BY <1>6, <1>7
    <3> QED
      BY <1>1, <3>1
  <2> QED
    BY <1>6, <1>7, <1>8, <2>1
<1>10. /\ IsFiniteSet(Later) /\ Cardinality(Later) = Cardinality(At(s, X))
  <2>1. IsFiniteSet(At(s, X))
    BY EventsArePayloads
  <2>2. shift \in Bijection(At(s, X), Later)
    <3>1. \A i, j \in At(s, X) : shift[i] = shift[j] => i = j
      BY <1>1, <1>2
    <3>2. shift \in [At(s, X) -> Later] /\ \A k \in Later : \E i \in At(s, X) : shift[i] = k
      OBVIOUS
    <3> HIDE DEF shift, Later
    <3>3. shift \in Injection(At(s, X), Later)
      BY <3>1, <3>2 DEF Injection, IsInjective
    <3>4. shift \in Surjection(At(s, X), Later)
      BY <3>2 DEF Surjection
    <3> QED
      BY <3>3, <3>4 DEF Bijection
  <2> HIDE DEF shift, Later
  <2> QED
    BY <2>1, <2>2, FS_Bijection DEF ExistsBijection
<1>11. Cardinality(At(t, X)) = Cardinality(At(u, X)) + Cardinality(At(s, X))
  <2>1. /\ IsFiniteSet(At(u, X)) /\ Cardinality(At(u, X)) \in Nat
        /\ Cardinality(At(s, X)) \in Nat
    BY EventsArePayloads
  <2>2. Cardinality(At(u, X) \cap Later) = 0
    BY <1>9, FS_EmptySet
  <2> HIDE DEF Later
  <2>3. Cardinality(At(u, X) \cup Later)
          = Cardinality(At(u, X)) + Cardinality(Later) - Cardinality(At(u, X) \cap Later)
    BY <1>10, <2>1, FS_Union
  <2> QED
    BY <1>9, <1>10, <2>1, <2>2, <2>3
<1>12. ASSUME At(s, X) # {} PROVE At(t, X) # {} /\ t[Max(At(t, X))] = s[Max(At(s, X))]
  <2>1. At(s, X) \in SUBSET Nat /\ At(t, X) \in SUBSET Nat /\ \A i \in At(s, X) : i <= Len(s)
    BY <1>1, <1>2
  <2>2. PICK m \in At(s, X) : m = Max(At(s, X)) /\ \A i \in At(s, X) : i <= m
    BY <1>1, <1>12, <2>1, MaxLemma
  <2>3. ASSUME NEW k \in At(t, X) PROVE k <= d + m
    <3>1. k \in Nat /\ m \in Nat
      BY <2>1, <2>2
    <3>2. CASE k \in At(u, X)
      <4>1. k \in 1 .. d
        BY <1>7, <3>2
      <4> QED
        BY <1>1, <3>1, <4>1
    <3>3. CASE \E i \in At(s, X) : k = d + i
      <4>1. PICK i \in At(s, X) : k = d + i
        BY <3>3
      <4>2. i <= m /\ i \in Nat
        BY <2>1, <2>2, <4>1
      <4> QED
        BY <1>1, <3>1, <4>1, <4>2
    <3> QED
      BY <1>8, <3>2, <3>3
  <2>4. d + m \in At(t, X) /\ t[d + m] = s[m]
    BY <1>6
  <2>5. Max(At(t, X)) = d + m
    BY <2>1, <2>3, <2>4, MaxIs
  <2> QED
    BY <2>2, <2>4, <2>5
<1> QED
  BY <1>9, <1>11, <1>12

-----------------------------------------------------------------------------
(* The invariant of the tally: the buffer is the partial line at the end of *)
(* what was received, the rest of it is tallied.                           *)

Behind == Len(consumed) - Len(buf)

BufInv ==
  /\ wire \in Seq(Symbols) /\ consumed \in Seq(Symbols) /\ buf \in Seq(Symbols)
  /\ Len(buf) <= Len(consumed)
  /\ Behind = 0 \/ consumed[Behind] = "\n"
  /\ \A i \in 1 .. Len(buf) : buf[i] = consumed[Behind + i] /\ buf[i] # "\n"

OtherPayloads == Symbols \ UsagePayloads

TallyInv ==
  /\ content = Cardinality(At(consumed, OtherPayloads))
  /\ usage = IF At(consumed, UsagePayloads) = {}
             THEN "none" ELSE consumed[Max(At(consumed, UsagePayloads))]

LEMMA InitBuf == Init => BufInv /\ TallyInv
<1> SUFFICES ASSUME Init PROVE BufInv /\ TallyInv
  OBVIOUS
<1>1. wire \in Seq(Symbols) /\ consumed = << >> /\ buf = << >> /\ content = 0 /\ usage = "none"
  BY SseAssumption DEF Init, SseAssumption
<1>2. Len(consumed) = 0 /\ Len(buf) = 0 /\ consumed \in Seq(Symbols) /\ buf \in Seq(Symbols)
  BY <1>1
<1>3. \A X : At(consumed, X) = {}
  BY <1>2 DEF At, PayloadsOf
<1>4. TallyInv
  BY <1>1, <1>3, FS_EmptySet DEF TallyInv
<1> QED
  BY <1>1, <1>2, <1>4 DEF BufInv, Behind

(* What a tally adds, in the positions of what was tallied.                *)
LEMMA TallyLemma ==
  ASSUME NEW s \in Seq(Symbols), Tally(s)
  PROVE  /\ content' = content + Cardinality(At(s, OtherPayloads))
         /\ usage' = IF At(s, UsagePayloads) = {} THEN usage ELSE s[Max(At(s, UsagePayloads))]
<1>1. {e \in Events(s) : Payload(s, e) \in UsagePayloads} = Holding(s, UsagePayloads)
  BY DEF Holding
<1>2. Events(s) \ Holding(s, UsagePayloads) = Holding(s, OtherPayloads)
  <2> SUFFICES ASSUME NEW e \in Events(s) PROVE Payload(s, e) \in Symbols
    BY DEF Holding, OtherPayloads
  <2>1. EndBefore(s, e) + 2 \in 2 .. Len(s)
    BY EventLemma DEF PayloadsOf
  <2> QED
    BY <2>1 DEF Payload
<1>3. /\ content' = content + Cardinality(Holding(s, OtherPayloads))
      /\ usage' = IF Holding(s, UsagePayloads) = {}
                  THEN usage ELSE Payload(s, Max(Holding(s, UsagePayloads)))
  BY <1>1, <1>2 DEF Tally
<1> QED
  BY <1>3, EventsArePayloads

LEMMA ReadKeepsBuf == BufInv /\ TallyInv /\ Read => BufInv' /\ TallyInv'
<1> SUFFICES ASSUME BufInv, TallyInv, Read PROVE BufInv' /\ TallyInv'
  OBVIOUS
<1>1. PICK k \in 1 .. Len(wire) :
        /\ wire' = SubSeq(wire, k + 1, Len(wire))
        /\ consumed' = consumed \o SubSeq(wire, 1, k)
        /\ buf' = Rest(buf \o SubSeq(wire, 1, k))
        /\ Tally(buf \o SubSeq(wire, 1, k))
  BY DEF Read
<1>2. PICK raw : raw = SubSeq(wire, 1, k)
  OBVIOUS
<1>3. PICK held : held = buf \o raw
  OBVIOUS
<1>4. /\ wire \in Seq(Symbols) /\ consumed \in Seq(Symbols) /\ buf \in Seq(Symbols)
      /\ Len(wire) \in Nat /\ k \in Nat /\ k <= Len(wire) /\ Len(consumed) \in Nat
      /\ Len(buf) \in Nat
  BY DEF BufInv
<1>5. raw \in Seq(Symbols) /\ Len(raw) = k
  <2>1. \A i \in 1 .. k : wire[i] \in Symbols
    BY <1>4
  <2> QED
    BY <1>2, <1>4, <2>1
<1>6. wire' \in Seq(Symbols)
  <2>1. \A i \in k + 1 .. Len(wire) : wire[i] \in Symbols
    BY <1>4
  <2> QED
    BY <1>1, <1>4, <2>1
<1>7. /\ held \in Seq(Symbols) /\ Len(held) = Len(buf) + k
      /\ \A i \in 1 .. Len(buf) : held[i] = buf[i]
      /\ \A i \in 1 .. k : held[Len(buf) + i] = raw[i]
  <2>1. /\ buf \o raw \in Seq(Symbols) /\ Len(buf \o raw) = Len(buf) + Len(raw)
        /\ \A i \in 1 .. Len(buf) : (buf \o raw)[i] = buf[i]
        /\ \A i \in 1 .. Len(raw) : (buf \o raw)[Len(buf) + i] = raw[i]
    BY <1>4, <1>5
  <2> QED
    BY <1>3, <1>5, <2>1
<1>8. /\ consumed' \in Seq(Symbols) /\ Len(consumed') = Len(consumed) + k
      /\ \A i \in 1 .. Len(consumed) : consumed'[i] = consumed[i]
      /\ \A i \in 1 .. k : consumed'[Len(consumed) + i] = raw[i]
  BY <1>1, <1>2, <1>4, <1>5
<1>9. PICK d \in 0 .. Len(consumed) : d = Behind /\ d + Len(buf) = Len(consumed)
  BY <1>4 DEF BufInv, Behind
<1>10. \A i \in 1 .. Len(held) : held[i] = consumed'[d + i]
  <2> SUFFICES ASSUME NEW i \in 1 .. Len(held) PROVE held[i] = consumed'[d + i]
    OBVIOUS
  <2>1. CASE i <= Len(buf)
    <3>1. i \in 1 .. Len(buf) /\ d + i \in 1 .. Len(consumed)
      BY <1>4, <1>9, <2>1
    <3>2. held[i] = buf[i] /\ buf[i] = consumed[d + i] /\ consumed'[d + i] = consumed[d + i]
      BY <1>7, <1>8, <1>9, <3>1 DEF BufInv
    <3> QED
      BY <3>2
  <2>2. CASE ~(i <= Len(buf))
    <3>1. i \in Int /\ d \in Int /\ i - Len(buf) \in 1 .. k
      BY <1>4, <1>7, <1>9, <2>2
    <3>2. PICK j \in 1 .. k : j = i - Len(buf)
      BY <3>1
    <3>3. j \in Int /\ Len(buf) \in Int /\ d + Len(buf) = Len(consumed)
      BY <1>4, <1>9
    <3>4. i = Len(buf) + j
      BY <3>1, <3>2, <3>3
    <3>5. d + i = Len(consumed) + j
      BY <3>1, <3>3, <3>4
    <3> QED
      BY <1>7, <1>8, <3>4, <3>5
  <2> QED
    BY <2>1, <2>2
<1>11. (d = 0 \/ consumed[d] = "\n") /\ \A j \in d + 1 .. Len(consumed) : consumed[j] # "\n"
  <2>1. ASSUME NEW j \in d + 1 .. Len(consumed) PROVE consumed[j] # "\n"
    <3>1. j - d \in 1 .. Len(buf) /\ d + (j - d) = j
      BY <1>4, <1>9
    <3>2. buf[j - d] = consumed[d + (j - d)] /\ buf[j - d] # "\n"
      BY <1>9, <3>1 DEF BufInv
    <3> QED
      BY <3>1, <3>2
  <2> QED
    BY <1>9, <2>1 DEF BufInv
<1>12. BufInv'
  <2>1. PICK e \in 0 .. Len(held) :
          /\ e = 0 \/ held[e] = "\n"
          /\ buf' \in Seq(Symbols) /\ Len(buf') = Len(held) - e
          /\ \A i \in 1 .. Len(held) - e : buf'[i] = held[e + i] /\ held[e + i] # "\n"
    BY <1>1, <1>2, <1>3, <1>7, RestLemma
  <2>2. Behind' = d + e /\ Len(buf') <= Len(consumed')
    BY <1>4, <1>7, <1>8, <1>9, <2>1 DEF Behind
  <2>3. d + e = 0 \/ consumed'[d + e] = "\n"
    <3>1. CASE e = 0
      <4>1. d + e = d /\ (d # 0 => d \in 1 .. Len(consumed))
        BY <1>4, <3>1
      <4> QED
        BY <1>8, <1>11, <4>1
    <3>2. CASE e # 0
      <4>1. e \in 1 .. Len(held)
        BY <1>4, <1>7, <3>2
      <4> QED
        BY <1>10, <2>1, <3>2, <4>1
    <3> QED
      BY <3>1, <3>2
  <2>4. \A i \in 1 .. Len(buf') : buf'[i] = consumed'[d + e + i] /\ buf'[i] # "\n"
    <3> SUFFICES ASSUME NEW i \in 1 .. Len(buf')
                 PROVE  buf'[i] = consumed'[d + e + i] /\ buf'[i] # "\n"
      OBVIOUS
    <3>1. i \in 1 .. Len(held) - e /\ e + i \in 1 .. Len(held) /\ d + (e + i) = d + e + i
      BY <1>4, <1>7, <2>1
    <3>2. held[e + i] = consumed'[d + (e + i)]
      BY <1>10, <3>1
    <3> QED
      BY <2>1, <3>1, <3>2
  <2> QED
    BY <1>6, <1>8, <2>1, <2>2, <2>3, <2>4 DEF BufInv
<1>13. TallyInv'
  <2>1. \A X : /\ Cardinality(At(consumed', X)) = Cardinality(At(consumed, X)) + Cardinality(At(held, X))
               /\ At(held, X) = {} => At(consumed', X) = At(consumed, X)
               /\ At(held, X) # {} => /\ At(consumed', X) # {}
                                      /\ consumed'[Max(At(consumed', X))] = held[Max(At(held, X))]
    <3>1. PICK t \in Seq(Symbols) : t = consumed'
      BY <1>8
    <3>2. Len(consumed) <= Len(t) /\ Len(t) = d + Len(held)
      <4>1. /\ Len(t) = Len(consumed) + k /\ Len(held) = Len(buf) + k
            /\ d + Len(buf) = Len(consumed)
        BY <1>7, <1>8, <1>9, <3>1
      <4>2. d \in Int /\ k \in Nat /\ Len(buf) \in Nat /\ Len(consumed) \in Nat
        BY <1>4
      <4> QED
        BY <4>1, <4>2
    <3>3. /\ Len(consumed) <= Len(t) /\ Len(t) = d + Len(held)
          /\ \A i \in 1 .. Len(consumed) : t[i] = consumed[i]
          /\ \A i \in 1 .. Len(held) : held[i] = t[d + i]
      BY <1>8, <1>10, <3>1, <3>2
    <3>4. Continues(consumed, held, t, d)
      BY <1>4, <1>7, <1>11, <3>3 DEF Continues
    <3>5. ASSUME NEW X
          PROVE  /\ Cardinality(At(t, X)) = Cardinality(At(consumed, X)) + Cardinality(At(held, X))
                 /\ At(held, X) = {} => At(t, X) = At(consumed, X)
                 /\ At(held, X) # {} => At(t, X) # {} /\ t[Max(At(t, X))] = held[Max(At(held, X))]
      BY <3>4, AtSplits
    <3> QED
      BY <3>1, <3>5
  <2>2. /\ content' = content + Cardinality(At(held, OtherPayloads))
        /\ usage' = IF At(held, UsagePayloads) = {} THEN usage ELSE held[Max(At(held, UsagePayloads))]
    BY <1>1, <1>2, <1>3, <1>7, TallyLemma
  <2>3. content' = Cardinality(At(consumed', OtherPayloads))
    BY <2>1, <2>2 DEF TallyInv
  <2>4. At(consumed, UsagePayloads) # {} =>
          consumed'[Max(At(consumed, UsagePayloads))] = consumed[Max(At(consumed, UsagePayloads))]
    <3> SUFFICES ASSUME At(consumed, UsagePayloads) # {}
                 PROVE  Max(At(consumed, UsagePayloads)) \in 1 .. Len(consumed)
      BY <1>8
    <3>1. At(consumed, UsagePayloads) \in SUBSET (2 .. Len(consumed))
      BY DEF At, PayloadsOf
    <3>2. /\ At(consumed, UsagePayloads) \in SUBSET Nat
          /\ \A i \in At(consumed, UsagePayloads) : i <= Len(consumed)
      BY <1>4, <3>1
    <3>3. Max(At(consumed, UsagePayloads)) \in At(consumed, UsagePayloads)
      BY <1>4, <3>2, MaxLemma
    <3> QED
      BY <1>4, <3>1, <3>3
  <2>5. usage' = IF At(consumed', UsagePayloads) = {}
                 THEN "none" ELSE consumed'[Max(At(consumed', UsagePayloads))]
    <3>1. CASE At(held, UsagePayloads) = {}
      BY <2>1, <2>2, <2>4, <3>1 DEF TallyInv
    <3>2. CASE At(held, UsagePayloads) # {}
      BY <2>1, <2>2, <3>2
    <3> QED
      BY <3>1, <3>2
  <2>6. (UsagePayloads = UsagePayloads') /\ (OtherPayloads = OtherPayloads')
    BY DEF OtherPayloads, Symbols, ContentPayloads, UsagePayloads
  <2> QED
    BY <2>3, <2>5 DEF TallyInv
<1> QED
  BY <1>12, <1>13

THEOREM TallyInvariance == Spec => [](BufInv /\ TallyInv)
<1>1. BufInv /\ TallyInv /\ [Next]_vars => (BufInv /\ TallyInv)'
  <2> SUFFICES ASSUME BufInv, TallyInv, [Next]_vars PROVE BufInv' /\ TallyInv'
    OBVIOUS
  <2>1. CASE Read
    BY <2>1, ReadKeepsBuf
  <2>2. CASE UNCHANGED <<input, tally>>
    BY <2>2 DEF input, tally, BufInv, TallyInv, Behind
  <2>3. End \/ Close \/ Done \/ UNCHANGED vars => UNCHANGED <<input, tally>>
    BY DEF End, Close, Done, vars
  <2> QED
    BY <2>1, <2>2, <2>3 DEF Next
<1> QED
  BY InitBuf, <1>1, PTL DEF Spec

(* What is tallied is a function of the bytes received, whatever the stream *)
(* and wherever the network cut it: no event is lost between two reads,    *)
(* none is counted twice, and the usage kept is that of the last report.   *)
THEOREM TallyCorrect == Spec => []TallyIgnoresCuts
<1>1. BufInv /\ TallyInv => TallyIgnoresCuts
  <2> SUFFICES ASSUME BufInv, TallyInv PROVE TallyIgnoresCuts
    OBVIOUS
  <2>1. {i \in PayloadsOf(consumed) : consumed[i] \in UsagePayloads} = At(consumed, UsagePayloads)
    BY DEF At
  <2>2. PayloadsOf(consumed) \ At(consumed, UsagePayloads) = At(consumed, OtherPayloads)
    <3> SUFFICES ASSUME NEW i \in PayloadsOf(consumed) PROVE consumed[i] \in Symbols
      BY DEF At, OtherPayloads
    <3>1. i \in 2 .. Len(consumed) /\ consumed \in Seq(Symbols) /\ Len(consumed) \in Nat
      BY DEF PayloadsOf, BufInv
    <3> QED
      BY <3>1
  <2> QED
    BY <2>1, <2>2 DEF TallyIgnoresCuts, TallyInv
<1> QED
  BY TallyInvariance, <1>1, PTL

(* The types of the variables.                                             *)
THEOREM TypeCorrect == Spec => []TypeOK
<1>1. IInv /\ BufInv /\ TallyInv => TypeOK
  <2> SUFFICES ASSUME IInv, BufInv, TallyInv PROVE TypeOK
    OBVIOUS
  <2>1. content \in Nat
    BY EventsArePayloads DEF TallyInv, BufInv
  <2>2. usage \in UsagePayloads \cup {"none"}
    <3> SUFFICES ASSUME At(consumed, UsagePayloads) # {}
                 PROVE  Max(At(consumed, UsagePayloads)) \in At(consumed, UsagePayloads)
      BY DEF TallyInv, At
    <3>1. /\ At(consumed, UsagePayloads) \in SUBSET Nat /\ Len(consumed) \in Nat
          /\ \A i \in At(consumed, UsagePayloads) : i <= Len(consumed)
      BY DEF At, PayloadsOf, BufInv
    <3> QED
      BY <3>1, MaxLemma
  <2>3. gapSum \in Nat /\ gaps \in Nat
    BY DEF IInv, TimerInv, GapsTelescope, Never
  <2>4. Len(records) = (IF pc = "done" THEN 1 ELSE 0)
    BY DEF IInv, RecordInv
  <2>5. /\ clock \in Nat /\ first \in Nat \cup {Never} /\ last \in Nat \cup {Never}
        /\ chunks \in Nat
    BY DEF IInv, TimerInv
  <2>6. pc \in {"reading", "closing", "done"}
    BY DEF IInv, RecordInv
  <2>7. wire \in Seq(Symbols) /\ consumed \in Seq(Symbols) /\ buf \in Seq(Symbols)
    BY DEF BufInv
  <2> QED
    BY <2>1, <2>2, <2>3, <2>4, <2>5, <2>6, <2>7 DEF TypeOK
<1> QED
  BY Invariance, TallyInvariance, <1>1, PTL
=============================================================================
