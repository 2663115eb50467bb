--------------------------- MODULE MetricStoreProofs ---------------------------
(***************************************************************************)
(* Proofs about MetricStore, for any batches, retention and any number of   *)
(* retries, restarts and failed inserts.                                   *)
(***************************************************************************)
EXTENDS MetricStore, TLAPS

IInv == TypeOK /\ AcknowledgedIsDurable /\ CopiesFromPosts

LEMMA Constants ==
  /\ StampOf \in [Records -> Nat] /\ Retention \in Nat /\ MaxClock \in Nat /\ MaxPosts \in Nat
  /\ \A b \in Batches : In(b) \subseteq Records
  /\ \A b, c \in Batches : b # c => In(b) \cap In(c) = {}
<1>1. ASSUME NEW b \in Batches PROVE In(b) \subseteq Records
  <2>1. ContentOf[b] \in Seq(Records)
    BY StoreAssumption DEF StoreAssumption
  <2> QED BY <2>1 DEF In
<1> QED BY <1>1, StoreAssumption DEF StoreAssumption

(* Two batches share no record.                                            *)
LEMMA Disjoint ==
  ASSUME NEW b \in Batches, NEW c \in Batches, b # c, NEW r \in In(b)
  PROVE  r \notin In(c)
BY Constants

(* A batch without records that SQLite refuses is inserted up to its last.  *)
LEMMA InsertedAll ==
  ASSUME NEW b \in Batches, ~Unstorable(b)
  PROVE  Inserted(b) = {r \in In(b) : KindOf[r] = "good"}
<1>1. \A j \in DOMAIN ContentOf[b] : KindOf[ContentOf[b][j]] # "unstorable"
  BY DEF Unstorable, In
<1>2. ContentOf[b] \in Seq(Records)
  BY StoreAssumption DEF StoreAssumption
<1>3. \A k \in DOMAIN ContentOf[b] : \A j \in 1 .. k : j \in DOMAIN ContentOf[b]
  BY <1>2
<1> QED BY <1>1, <1>3 DEF Inserted, In

LEMMA InsertedIn == \A b \in Batches : Inserted(b) \subseteq In(b)
BY DEF Inserted, In

(* Counts stay counts.                                                     *)
LEMMA CountTypes ==
  ASSUME rows \in [Records -> Nat], open \in [Records -> Nat]
  PROVE  /\ Total \in [Records -> Nat] /\ None \in [Records -> Nat]
         /\ \A added : WithRows(Total, added) \in [Records -> Nat]
         /\ \A added : WithRows(open, added) \in [Records -> Nat]
<1>1. Total \in [Records -> Nat] /\ None \in [Records -> Nat]
  BY DEF Total, None
<1>2. ASSUME NEW counts \in [Records -> Nat], NEW added
      PROVE  WithRows(counts, added) \in [Records -> Nat]
  BY DEF WithRows
<1> QED BY <1>1, <1>2

LEMMA InitInv == Init => IInv
<1> SUFFICES ASSUME Init PROVE IInv
  OBVIOUS
<1>1. TypeOK
  BY Constants DEF Init, TypeOK, None
<1>2. AcknowledgedIsDurable
  BY DEF Init, AcknowledgedIsDurable
<1>3. CopiesFromPosts
  <2> SUFFICES ASSUME NEW b \in Batches, NEW r \in In(b) PROVE rows[r] + open[r] <= posts[b]
    BY DEF CopiesFromPosts
  <2> QED BY Constants DEF Init, None
<1> QED BY <1>1, <1>2, <1>3 DEF IInv

-----------------------------------------------------------------------------
(* What an answer does to the sidecar's side.                              *)
LEMMA AnswerEffect ==
  ASSUME TypeOK, NEW b \in Batches,
         NEW outcome \in {"queued", "accepted", "refused"}, Answer(b, outcome)
  PROVE  /\ client' \in [Batches -> {"queued", "accepted", "refused"}]
         /\ posts' \in [Batches -> 0 .. MaxPosts]
         /\ posts'[b] = posts[b] + 1
         /\ \A c \in Batches : posts[c] <= posts'[c]
BY Constants DEF Answer, TypeOK

(* No step but an insert adds to what has a row; a commit moves it.         *)
LEMMA SettleKeeps ==
  ASSUME IInv, UNCHANGED <<clock, sidecar, history>>,
         rows' \in [Records -> Nat], open' \in [Records -> Nat],
         \A r \in Records : rows'[r] + open'[r] <= rows[r] + open[r],
         \A r \in Records : StampOf[r] >= clock - Retention => rows'[r] >= rows[r]
  PROVE  IInv'
<1>1. TypeOK'
  BY DEF IInv, TypeOK, sidecar, history
<1>2. AcknowledgedIsDurable'
  <2> SUFFICES ASSUME NEW b \in acknowledged, NEW r \in In(b),
                      KindOf[r] = "good", StampOf[r] >= clock - Retention
               PROVE  rows'[r] > 0
    BY DEF AcknowledgedIsDurable, history
  <2>1. r \in Records
    BY Constants DEF IInv, TypeOK
  <2>2. rows[r] > 0
    BY DEF IInv, AcknowledgedIsDurable
  <2> QED BY <2>1, <2>2 DEF IInv, TypeOK
<1>3. CopiesFromPosts'
  <2> SUFFICES ASSUME NEW b \in Batches, NEW r \in In(b)
               PROVE  rows'[r] + open'[r] <= posts[b]
    BY DEF CopiesFromPosts, sidecar
  <2>1. r \in Records
    BY Constants
  <2>2. rows[r] + open[r] <= posts[b]
    BY DEF IInv, CopiesFromPosts
  <2> QED BY <2>1, <2>2 DEF IInv, TypeOK
<1> QED BY <1>1, <1>2, <1>3 DEF IInv

(* An insert adds at most one row to the records of the batch it is of.     *)
LEMMA InsertKeeps ==
  ASSUME IInv, NEW b \in Batches, UNCHANGED clock,
         NEW outcome \in {"queued", "accepted", "refused"}, Answer(b, outcome),
         rows' \in [Records -> Nat], open' \in [Records -> Nat],
         processed' \subseteq Batches,
         \A r \in Records : rows'[r] >= rows[r],
         \A r \in Records : rows'[r] + open'[r]
                              <= rows[r] + open[r] + (IF r \in In(b) THEN 1 ELSE 0),
         \/ UNCHANGED acknowledged
         \/ /\ acknowledged' = acknowledged \cup {b}
            /\ \A r \in In(b) : KindOf[r] = "good" => rows'[r] > 0
  PROVE  IInv'
<1>1. TypeOK'
  BY AnswerEffect DEF IInv, TypeOK
<1>2. AcknowledgedIsDurable'
  <2> SUFFICES ASSUME NEW c \in acknowledged', NEW r \in In(c),
                      KindOf[r] = "good", StampOf[r] >= clock - Retention
               PROVE  rows'[r] > 0
    BY DEF AcknowledgedIsDurable
  <2>1. CASE c \in acknowledged
    <3>1. r \in Records
      BY <2>1, Constants DEF IInv, TypeOK
    <3>2. rows[r] > 0
      BY <2>1 DEF IInv, AcknowledgedIsDurable
    <3> QED BY <3>1, <3>2 DEF IInv, TypeOK
  <2>2. CASE c \notin acknowledged
    BY <2>2
  <2> QED BY <2>1, <2>2
<1>3. CopiesFromPosts'
  <2> SUFFICES ASSUME NEW c \in Batches, NEW r \in In(c)
               PROVE  rows'[r] + open'[r] <= posts'[c]
    BY DEF CopiesFromPosts
  <2>1. r \in Records
    BY Constants
  <2>2. rows[r] + open[r] <= posts[c] /\ posts[c] \in Nat
    BY DEF IInv, CopiesFromPosts, TypeOK
  <2>3. posts' \in [Batches -> 0 .. MaxPosts] /\ posts'[b] = posts[b] + 1 /\ posts[c] <= posts'[c]
    BY AnswerEffect DEF IInv
  <2>4. rows[r] \in Nat /\ open[r] \in Nat /\ rows'[r] \in Nat /\ open'[r] \in Nat
    BY <2>1 DEF IInv, TypeOK
  <2>5. posts'[c] \in Nat
    BY <2>3
  <2>6. CASE c = b
    <3>1. rows'[r] + open'[r] <= rows[r] + open[r] + 1
      BY <2>1, <2>6
    <3> QED BY <2>2, <2>3, <2>4, <2>5, <2>6, <3>1
  <2>7. CASE c # b
    <3>1. r \notin In(b)
      BY <2>7, Disjoint
    <3>2. rows'[r] + open'[r] <= rows[r] + open[r]
      BY <2>1, <2>4, <3>1
    <3> QED BY <2>2, <2>3, <2>4, <2>5, <3>2
  <2> QED BY <2>6, <2>7
<1> QED BY <1>1, <1>2, <1>3 DEF IInv

-----------------------------------------------------------------------------
LEMMA IngestKeeps == ASSUME IInv, NEW b \in Batches, Ingest(b) PROVE IInv'
<1> USE DEF table, history
<1>1. /\ rows \in [Records -> Nat] /\ open \in [Records -> Nat]
      /\ processed \subseteq Batches
  BY DEF IInv, TypeOK
<1>2. CASE PostTooLarge(b)
  <2>1. Answer(b, "refused") /\ UNCHANGED <<clock, rows, open, processed, acknowledged>>
    BY <1>2 DEF PostTooLarge
  <2> QED BY <1>1, <2>1, InsertKeeps
<1>3. CASE PostInfinite(b)
  <2>1. /\ Answer(b, "queued") /\ processed' = processed \cup {b}
        /\ UNCHANGED <<clock, rows, open, acknowledged>>
    BY <1>3 DEF PostInfinite
  <2> QED BY <1>1, <2>1, InsertKeeps
<1>4. CASE PostUnstorable(b)
  <2>1. /\ Answer(b, "queued") /\ processed' = processed \cup {b}
        /\ open' = WithRows(open, Inserted(b))
        /\ UNCHANGED <<clock, rows, acknowledged>>
    BY <1>4 DEF PostUnstorable
  <2>2. open' \in [Records -> Nat]
    BY <1>1, <2>1, CountTypes
  <2>3. \A r \in Records : open'[r] <= open[r] + (IF r \in In(b) THEN 1 ELSE 0)
    BY <1>1, <2>1, InsertedIn DEF WithRows
  <2>4. \A r \in Records : rows'[r] + open'[r]
                             <= rows[r] + open[r] + (IF r \in In(b) THEN 1 ELSE 0)
    BY <1>1, <2>1, <2>2, <2>3
  <2> QED BY <1>1, <2>1, <2>2, <2>4, InsertKeeps
<1>5. CASE PostStored(b)
  <2>1. /\ Answer(b, "accepted") /\ ~Unstorable(b)
        /\ rows' = WithRows(Total, Inserted(b)) /\ open' = None
        /\ processed' = processed \cup {b} /\ acknowledged' = acknowledged \cup {b}
        /\ UNCHANGED clock
    BY <1>5 DEF PostStored
  <2>2. rows' \in [Records -> Nat] /\ open' \in [Records -> Nat]
    BY <1>1, <2>1, CountTypes
  <2>3. \A r \in Records :
          rows'[r] = rows[r] + open[r] + (IF r \in Inserted(b) THEN 1 ELSE 0) /\ open'[r] = 0
    BY <2>1 DEF WithRows, Total, None
  <2>4. \A r \in Records : rows'[r] >= rows[r]
    BY <1>1, <2>3
  <2>5. \A r \in Records : rows'[r] + open'[r]
                             <= rows[r] + open[r] + (IF r \in In(b) THEN 1 ELSE 0)
    BY <1>1, <2>3, InsertedIn
  <2>6. \A r \in In(b) : KindOf[r] = "good" => rows'[r] > 0
    <3> SUFFICES ASSUME NEW r \in In(b), KindOf[r] = "good" PROVE rows'[r] > 0
      OBVIOUS
    <3>1. r \in Records /\ r \in Inserted(b)
      BY <2>1, Constants, InsertedAll
    <3> QED BY <1>1, <2>3, <3>1
  <2> QED BY <1>1, <2>1, <2>2, <2>4, <2>5, <2>6, InsertKeeps
<1> QED BY <1>2, <1>3, <1>4, <1>5 DEF Ingest

LEMMA WriterKeeps == IInv /\ (Prune \/ OtherWrite \/ Restart) => IInv'
<1> SUFFICES ASSUME IInv, Prune \/ OtherWrite \/ Restart PROVE IInv'
  OBVIOUS
<1>1. rows \in [Records -> Nat] /\ open \in [Records -> Nat]
  BY DEF IInv, TypeOK
<1>2. UNCHANGED <<clock, sidecar, history>> /\ open' = None
  BY DEF Prune, OtherWrite, Restart
<1>3. rows' \in [Records -> Nat] /\ open' \in [Records -> Nat]
  BY <1>1, <1>2, CountTypes DEF Prune, OtherWrite, Restart
<1>4. \A r \in Records :
        /\ open'[r] = 0
        /\ rows'[r] <= rows[r] + open[r]
        /\ StampOf[r] >= clock - Retention => rows'[r] >= rows[r]
  <2> SUFFICES ASSUME NEW r \in Records
               PROVE  /\ open'[r] = 0
                      /\ rows'[r] <= rows[r] + open[r]
                      /\ StampOf[r] >= clock - Retention => rows'[r] >= rows[r]
    OBVIOUS
  <2>1. open'[r] = 0
    BY <1>2 DEF None
  <2>2. rows[r] \in Nat /\ open[r] \in Nat
    BY <1>1
  <2>3. CASE Prune
    <3>1. rows'[r] = IF StampOf[r] < clock - Retention THEN 0 ELSE rows[r] + open[r]
      BY <2>3 DEF Prune, Total
    <3>2. StampOf[r] \in Nat /\ clock \in Nat /\ Retention \in Nat
      BY Constants DEF IInv, TypeOK
    <3> QED BY <2>1, <2>2, <3>1, <3>2
  <2>4. CASE OtherWrite
    BY <2>1, <2>2, <2>4 DEF OtherWrite, Total
  <2>5. CASE Restart
    BY <2>1, <2>2, <2>5 DEF Restart
  <2> QED BY <2>3, <2>4, <2>5
<1>5. \A r \in Records : rows'[r] + open'[r] <= rows[r] + open[r]
  BY <1>1, <1>3, <1>4
<1> QED BY <1>2, <1>3, <1>4, <1>5, SettleKeeps

LEMMA TickKeeps == IInv /\ Tick => IInv'
<1> SUFFICES ASSUME IInv, Tick PROVE IInv'
  OBVIOUS
<1>1. clock' = clock + 1 /\ clock < MaxClock /\ UNCHANGED <<table, sidecar, history>>
  BY DEF Tick
<1>2. TypeOK'
  BY <1>1, Constants DEF IInv, TypeOK, table, sidecar, history
<1>3. AcknowledgedIsDurable'
  <2> SUFFICES ASSUME NEW b \in acknowledged, NEW r \in In(b),
                      KindOf[r] = "good", StampOf[r] >= clock' - Retention
               PROVE  rows[r] > 0
    BY <1>1 DEF AcknowledgedIsDurable, table, history
  <2>1. r \in Records
    BY Constants DEF IInv, TypeOK
  <2>2. StampOf[r] >= clock - Retention
    BY <1>1, <2>1, Constants DEF IInv, TypeOK
  <2> QED BY <2>2 DEF IInv, AcknowledgedIsDurable
<1>4. CopiesFromPosts'
  BY <1>1 DEF IInv, CopiesFromPosts, table, sidecar
<1> QED BY <1>2, <1>3, <1>4 DEF IInv

THEOREM Invariance == Spec => []IInv
<1>1. IInv /\ [Next]_vars => IInv'
  <2> SUFFICES ASSUME IInv, [Next]_vars PROVE IInv'
    OBVIOUS
  <2>1. CASE \E b \in Batches : Ingest(b)
    BY <2>1, IngestKeeps
  <2>2. CASE Prune \/ OtherWrite \/ Restart
    BY <2>2, WriterKeeps
  <2>3. CASE Tick
    BY <2>3, TickKeeps
  <2>4. CASE UNCHANGED vars
    BY <2>4 DEF vars, table, sidecar, history, IInv, TypeOK, AcknowledgedIsDurable, CopiesFromPosts
  <2> QED BY <2>1, <2>2, <2>3, <2>4 DEF Next
<1> QED BY InitInv, <1>1, PTL DEF Spec

(* The variables keep their types.                                         *)
THEOREM TypeCorrect == Spec => []TypeOK
<1>1. IInv => TypeOK
  BY DEF IInv
<1> QED BY Invariance, <1>1, PTL

(* What was answered 200 is committed for as long as it is in retention.    *)
THEOREM DurabilityCorrect == Spec => []AcknowledgedIsDurable
<1>1. IInv => AcknowledgedIsDurable
  BY DEF IInv
<1> QED BY Invariance, <1>1, PTL

(* What the sidecar makes of the answers: it takes a batch for stored only   *)
(* when it was acknowledged, and gives one up only for its size.           *)
AnswersFit ==
  \A b \in Batches :
    /\ client[b] = "accepted" => b \in acknowledged
    /\ client[b] = "refused" => TooLarge(b)

LEMMA AnswersFitStep == TypeOK /\ AnswersFit /\ [Next]_vars => AnswersFit'
<1> SUFFICES ASSUME TypeOK, AnswersFit, [Next]_vars PROVE AnswersFit'
  OBVIOUS
<1>1. ASSUME NEW b \in Batches, NEW outcome, Answer(b, outcome), acknowledged \subseteq acknowledged',
             outcome = "accepted" => b \in acknowledged', outcome = "refused" => TooLarge(b),
             outcome \in {"queued", "accepted", "refused"}
      PROVE  AnswersFit'
  <2> SUFFICES ASSUME NEW c \in Batches
               PROVE  /\ client'[c] = "accepted" => c \in acknowledged'
                      /\ client'[c] = "refused" => TooLarge(c)
    BY DEF AnswersFit, TooLarge
  <2>1. client' = [client EXCEPT ![b] = outcome] \/ UNCHANGED client
    BY <1>1 DEF Answer
  <2>2. client'[c] = client[c] \/ (c = b /\ client'[c] = outcome)
    BY <2>1 DEF TypeOK
  <2> QED BY <1>1, <2>2 DEF AnswersFit
<1>2. ASSUME NEW b \in Batches, Ingest(b) PROVE AnswersFit'
  <2>1. CASE PostTooLarge(b)
    BY <1>1, <2>1 DEF PostTooLarge, history
  <2>2. CASE PostInfinite(b)
    BY <1>1, <2>2 DEF PostInfinite
  <2>3. CASE PostUnstorable(b)
    BY <1>1, <2>3 DEF PostUnstorable
  <2>4. CASE PostStored(b)
    BY <1>1, <2>4 DEF PostStored
  <2> QED BY <1>2, <2>1, <2>2, <2>3, <2>4 DEF Ingest
<1>3. CASE UNCHANGED <<client, acknowledged>>
  BY <1>3 DEF AnswersFit, TooLarge
<1>4. Prune \/ OtherWrite \/ Restart \/ Tick \/ UNCHANGED vars => UNCHANGED <<client, acknowledged>>
  BY DEF Prune, OtherWrite, Restart, Tick, vars, sidecar, history
<1> QED BY <1>2, <1>3, <1>4 DEF Next

(* A good record is queued with the sidecar or committed, but for batches    *)
(* that are too large.                                                     *)
THEOREM NothingGoodForgotten == Spec => []GoodIsQueuedOrStored
<1>1. Init => AnswersFit
  <2> SUFFICES ASSUME Init, NEW b \in Batches PROVE client[b] = "queued"
    BY DEF AnswersFit
  <2> QED BY DEF Init
<1>2. IInv /\ AnswersFit => GoodIsQueuedOrStored
  <2> SUFFICES ASSUME IInv, AnswersFit, NEW b \in Batches, ~TooLarge(b), NEW r \in In(b),
                      KindOf[r] = "good", StampOf[r] >= clock - Retention, client[b] # "queued"
               PROVE  rows[r] > 0
    BY DEF GoodIsQueuedOrStored
  <2>1. b \in acknowledged
    BY DEF IInv, TypeOK, AnswersFit
  <2> QED BY <2>1 DEF IInv, AcknowledgedIsDurable
<1>3. IInv => TypeOK
  BY DEF IInv
<1> QED BY Invariance, <1>1, <1>2, <1>3, AnswersFitStep, PTL DEF Spec

(* Duplicate rows come from retries only.                                  *)
THEOREM CopiesCorrect == Spec => []CopiesFromPosts
<1>1. IInv => CopiesFromPosts
  BY DEF IInv
<1> QED BY Invariance, <1>1, PTL
=============================================================================
