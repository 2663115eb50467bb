--------------------------- MODULE DashboardProofs ---------------------------
(***************************************************************************)
(* Proof that a quiet dashboard is right, for any tenants, windows, panels *)
(* and number of overlapping refreshes.                                    *)
(***************************************************************************)
EXTENDS Dashboard, SequenceTheorems, TLAPS

RefreshType ==
  [key : Tenants \cup {"wrong"}, window : Windows, pending : SUBSET Panels, overtaken : BOOLEAN]

DashboardTypes ==
  /\ tenants \subseteq Tenants
  /\ key \in Tenants \cup {"wrong"} /\ window \in Windows
  /\ flight \in Seq(RefreshType)
  /\ panel \in [Panels -> [tenant : Tenants \cup {"wrong", "nobody"}, window : Windows \cup {"all"}]]

(* The newest refresh under way is of the selected window, unless one that   *)
(* was started after it is over.                                           *)
NewestIsSelected ==
  flight # << >> =>
    flight[Len(flight)].overtaken \/ flight[Len(flight)].window = window

DashInv == DashboardTypes /\ NewestIsSelected /\ QuietScreenIsRight

LEMMA DashboardInitLemma == Init => DashInv
<1> SUFFICES ASSUME Init PROVE DashInv
  OBVIOUS
<1>1. flight \in Seq(RefreshType) /\ flight = << >>
  BY DEF Init
<1>2. DashboardTypes
  BY <1>1 DEF Init, DashboardTypes, Blank
<1> QED
  BY <1>1, <1>2 DEF Init, DashInv, NewestIsSelected, QuietScreenIsRight

(* A new refresh is the newest, of the window that is selected with it.      *)
LEMMA RefreshingLemma ==
  ASSUME DashInv, Refreshing(key, window'), window' \in Windows
  PROVE  flight' \in Seq(RefreshType) /\ flight' # << >> /\ NewestIsSelected'
<1> DEFINE r == [key |-> key, window |-> window', pending |-> Panels, overtaken |-> FALSE]
<1>1. r \in RefreshType
  BY DEF DashInv, DashboardTypes, RefreshType
<1>2. flight' = Append(flight, r) /\ flight \in Seq(RefreshType)
  BY DEF Refreshing, DashInv, DashboardTypes
<1> HIDE DEF r
<1>3. /\ flight' \in Seq(RefreshType) /\ Len(flight') = Len(flight) + 1
      /\ flight'[Len(flight) + 1] = r
  BY <1>1, <1>2, AppendProperties
<1>4. flight' # << >> /\ flight'[Len(flight')] = r
  BY <1>2, <1>3
<1>5. r.window = window'
  BY DEF r
<1> QED
  BY <1>3, <1>4, <1>5 DEF NewestIsSelected

(* What is left when refresh i is over.                                    *)
LEMMA WithoutLemma ==
  ASSUME DashInv, NEW i \in DOMAIN flight, flight' = Without(i), window' = window
  PROVE  /\ flight' \in Seq(RefreshType)
         /\ NewestIsSelected'
         /\ flight' = << >> => i = Len(flight)
<1> DEFINE n == Len(flight)
           left(j) == IF j < i THEN [flight[j] EXCEPT !.overtaken = TRUE] ELSE flight[j + 1]
<1>1. /\ flight \in Seq(RefreshType) /\ n \in Nat /\ i \in 1 .. n
      /\ \A j \in 1 .. n : flight[j] \in RefreshType
  BY DEF DashInv, DashboardTypes
<1>2. flight' = [j \in 1 .. n - 1 |-> left(j)]
  BY DEF Without
<1>3. \A j \in 1 .. n - 1 : left(j) \in RefreshType
  <2> SUFFICES ASSUME NEW j \in 1 .. n - 1 PROVE left(j) \in RefreshType
    OBVIOUS
  <2>1. CASE j < i
    <3>1. flight[j] \in RefreshType
      BY <1>1
    <3>2. left(j) = [flight[j] EXCEPT !.overtaken = TRUE]
      BY <2>1
    <3>3. [flight[j] EXCEPT !.overtaken = TRUE] \in RefreshType
      BY <3>1 DEF RefreshType
    <3> QED
      BY <3>2, <3>3
  <2>2. CASE ~(j < i)
    <3>1. j + 1 \in 1 .. n /\ left(j) = flight[j + 1]
      BY <1>1, <2>2
    <3> QED
      BY <1>1, <3>1
  <2> QED
    BY <2>1, <2>2
<1>4. flight' \in Seq(RefreshType) /\ Len(flight') = n - 1
  <2>1. n - 1 \in Nat
    BY <1>1
  <2>2. flight' \in [1 .. n - 1 -> RefreshType]
    BY <1>2, <1>3
  <2> QED
    BY <2>1, <2>2
<1>5. NewestIsSelected'
  <2> SUFFICES ASSUME flight' # << >>
               PROVE  flight'[n - 1].overtaken \/ flight'[n - 1].window = window
    BY <1>4 DEF NewestIsSelected
  <2>1. n - 1 \in 1 .. n - 1
    BY <1>1, <1>4
  <2>2. flight'[n - 1] = left(n - 1)
    BY <1>2, <2>1
  <2>3. CASE i = n
    <3>1. flight[n - 1] \in RefreshType
      BY <1>1, <2>1
    <3>2. left(n - 1) = [flight[n - 1] EXCEPT !.overtaken = TRUE]
      BY <1>1, <2>3
    <3> QED
      BY <2>2, <3>1, <3>2 DEF RefreshType
  <2>4. CASE i # n
    <3>1. left(n - 1) = flight[n]
      BY <1>1, <2>4
    <3>2. flight # << >>
      BY <1>1
    <3> QED
      BY <2>2, <3>1, <3>2 DEF DashInv, NewestIsSelected
  <2> QED
    BY <2>3, <2>4
<1>6. flight' = << >> => i = Len(flight)
  BY <1>1, <1>4
<1> QED
  BY <1>4, <1>5, <1>6

LEMMA ControlsLemma ==
  ASSUME DashInv, CreateTenant \/ TypeKey \/ Connect \/ ChangeWindow \/ IntervalFires
  PROVE  DashInv'
<1>1. panel' = panel /\ label' = label /\ dot' = dot /\ outdated' = outdated
  BY DEF CreateTenant, TypeKey, Connect, ChangeWindow, IntervalFires, User, screen
<1>2. CASE CreateTenant \/ TypeKey
  <2>1. flight' = flight /\ window' = window
    BY <1>2 DEF CreateTenant, TypeKey, User, controls
  <2>2. DashboardTypes'
    BY <1>1, <1>2, <2>1 DEF CreateTenant, TypeKey, User, controls, DashInv, DashboardTypes
  <2> QED
    BY <1>1, <2>1, <2>2 DEF DashInv, NewestIsSelected, QuietScreenIsRight
<1>3. CASE Connect \/ ChangeWindow \/ IntervalFires
  <2>1. /\ key' = key /\ tenants' = tenants /\ window' \in Windows
        /\ Refreshing(key, window')
    BY <1>3 DEF Connect, ChangeWindow, IntervalFires, User, controls, DashInv, DashboardTypes
  <2>2. flight' \in Seq(RefreshType) /\ flight' # << >> /\ NewestIsSelected'
    BY <2>1, RefreshingLemma
  <2>3. DashboardTypes'
    BY <1>1, <2>1, <2>2 DEF DashInv, DashboardTypes
  <2> QED
    BY <2>2, <2>3 DEF DashInv, QuietScreenIsRight
<1> QED
  BY <1>2, <1>3

LEMMA ResolveLemma ==
  ASSUME DashInv, NEW i \in DOMAIN flight, Resolve(i)
  PROVE  DashInv'
<1>1. /\ flight \in Seq(RefreshType) /\ flight[i] \in RefreshType /\ flight # << >>
      /\ panel \in [Panels -> [tenant : Tenants \cup {"wrong", "nobody"}, window : Windows \cup {"all"}]]
  BY DEF DashInv, DashboardTypes
<1>2. window' = window /\ key' = key /\ tenants' = tenants
  BY DEF Resolve, Answered, Refused, Broken, controls
<1>3. CASE Rejected(i)
  <2>1. flight' \in Seq(RefreshType) /\ NewestIsSelected'
    BY <1>2, <1>3, WithoutLemma DEF Rejected
  <2>2. panel' \in [Panels -> [tenant : Tenants \cup {"wrong", "nobody"}, window : Windows \cup {"all"}]]
    BY <1>1, <1>3 DEF Rejected, Blank
  <2>3. dot' # "live"
    BY <1>3 DEF Rejected
  <2>4. DashboardTypes'
    BY <1>2, <2>1, <2>2 DEF DashInv, DashboardTypes
  <2> QED
    BY <2>1, <2>3, <2>4 DEF DashInv, QuietScreenIsRight
<1>4. CASE Draw(i)
  <2>1. /\ flight' \in Seq(RefreshType) /\ NewestIsSelected'
        /\ flight' = << >> => i = Len(flight)
    BY <1>2, <1>4, WithoutLemma DEF Draw
  <2>2. panel' \in [Panels -> [tenant : Tenants \cup {"wrong", "nobody"}, window : Windows \cup {"all"}]]
    BY <1>1, <1>4 DEF Draw, AnswerOf, RefreshType
  <2>3. ASSUME flight' = << >>, ~outdated'
        PROVE  label' = window' /\ \A p \in Panels \ {"alerts"} : panel'[p].window = window'
    <3>1. ~flight[i].overtaken /\ i = Len(flight)
      BY <1>4, <2>1, <2>3 DEF Draw
    <3>2. flight[i].window = window
      BY <1>1, <3>1 DEF DashInv, NewestIsSelected
    <3> QED
      BY <1>2, <1>4, <3>2 DEF Draw, AnswerOf
  <2>4. DashboardTypes'
    BY <1>2, <2>1, <2>2 DEF DashInv, DashboardTypes
  <2> QED
    BY <2>1, <2>3, <2>4 DEF DashInv, QuietScreenIsRight
<1>5. ASSUME NEW p \in flight[i].pending,
             flight' = [flight EXCEPT ![i].pending = @ \ {p}], UNCHANGED screen
      PROVE  DashInv'
  <2>1. /\ flight' \in Seq(RefreshType) /\ Len(flight') = Len(flight)
        /\ \A j \in DOMAIN flight : /\ flight'[j].window = flight[j].window
                                    /\ flight'[j].overtaken = flight[j].overtaken
    <3>1. [flight[i] EXCEPT !.pending = @ \ {p}] \in RefreshType
      BY <1>1 DEF RefreshType
    <3>2. flight' = [flight EXCEPT ![i] = [flight[i] EXCEPT !.pending = @ \ {p}]]
      BY <1>5
    <3>3. flight' \in Seq(RefreshType) /\ Len(flight') = Len(flight)
      BY <1>1, <3>1, <3>2
    <3>4. \A j \in DOMAIN flight : flight[j] \in RefreshType
      BY <1>1
    <3> QED
      BY <3>2, <3>3, <3>4 DEF RefreshType
  <2>2. panel' = panel /\ label' = label /\ dot' = dot /\ outdated' = outdated
    BY <1>5 DEF screen
  <2>3. Len(flight) \in DOMAIN flight
    BY <1>1
  <2>4. NewestIsSelected' /\ flight' # << >>
    BY <1>1, <1>2, <2>1, <2>3 DEF DashInv, NewestIsSelected
  <2>5. DashboardTypes'
    BY <1>2, <2>1, <2>2 DEF DashInv, DashboardTypes
  <2> QED
    BY <2>4, <2>5 DEF DashInv, QuietScreenIsRight
<1> QED
  BY <1>3, <1>4, <1>5 DEF Resolve, Answered, Refused, Broken

LEMMA DashboardInvariance == Spec => []DashInv
<1>1. DashInv /\ [Next]_vars => DashInv'
  <2> SUFFICES ASSUME DashInv, [Next]_vars PROVE DashInv'
    OBVIOUS
  <2>1. CASE UNCHANGED vars
    BY <2>1 DEF vars, controls, screen, DashInv, DashboardTypes, NewestIsSelected, QuietScreenIsRight
  <2>2. CASE Next
    BY <2>2, ControlsLemma, ResolveLemma DEF Next
  <2> QED
    BY <2>1, <2>2
<1> QED
  BY <1>1, DashboardInitLemma, PTL DEF Spec

(* However many refreshes overlap and in whatever order they are answered:  *)
(* a page at rest shows the selected window, unless the refresh drawn last  *)
(* had been overtaken.                                                     *)
THEOREM QuietScreenRight == Spec => []QuietScreenIsRight
<1>1. DashInv => QuietScreenIsRight
  BY DEF DashInv
<1> QED
  BY <1>1, DashboardInvariance, PTL
=============================================================================
