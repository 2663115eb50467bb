---------------------------- MODULE SidecarProofs ----------------------------
(***************************************************************************)
(* Proofs about the start of a sidecar and about `discover`: for all files,  *)
(* environments, flags and targets, and for answers in any order.          *)
(***************************************************************************)
EXTENDS Sidecar, WellFoundedInduction, TLAPS

-----------------------------------------------------------------------------
(* The environment.                                                        *)

(* Different fields have their own places in a tree.                       *)
LEMMA FieldsApart == \A p, q \in Fields : IsPrefix(p, q) <=> p = q
<1> SUFFICES ASSUME NEW p \in Fields, NEW q \in Fields PROVE IsPrefix(p, q) <=> p = q
  OBVIOUS
<1>1. CASE p = Upstream
  <2>1. p = <<"upstream_url">> /\ Len(p) = 1
    BY <1>1 DEF Upstream
  <2>2. q = Upstream \/ (q[1] = "hosted" /\ Len(q) = 2)
    BY DEF Fields, Enabled, ApiKey, IngestUrl
  <2>3. SubSeq(p, 1, 1)[1] = "upstream_url"
    BY <2>1
  <2>4. Len(q) >= 1 => SubSeq(q, 1, 1)[1] = q[1]
    BY DEF Fields, Enabled, ApiKey, IngestUrl, Upstream
  <2> QED
    BY <1>1, <2>1, <2>2, <2>3, <2>4 DEF IsPrefix
<1>2. CASE p # Upstream
  <2>1. Len(p) = 2 /\ SubSeq(p, 1, 2) = p
    BY <1>2 DEF Fields, Enabled, ApiKey, IngestUrl
  <2>2. q = Upstream => Len(q) = 1
    BY DEF Upstream
  <2>3. q # Upstream => Len(q) = 2 /\ SubSeq(q, 1, 2) = q
    BY DEF Fields, Enabled, ApiKey, IngestUrl
  <2> QED
    BY <1>2, <2>1, <2>2, <2>3 DEF IsPrefix
<1> QED
  BY <1>1, <1>2

LEMMA NoFieldAboveHosted == \A p \in Fields : ~IsPrefix(p, Hosted) /\ p # Hosted
<1> SUFFICES ASSUME NEW p \in Fields PROVE ~IsPrefix(p, Hosted) /\ p # Hosted
  OBVIOUS
<1>1. Hosted = <<"hosted">> /\ Len(Hosted) = 1 /\ SubSeq(Hosted, 1, 1)[1] = "hosted"
  BY DEF Hosted
<1>2. CASE p = Upstream
  <2>1. Len(p) = 1 /\ SubSeq(p, 1, 1)[1] = "upstream_url"
    BY <1>2 DEF Upstream
  <2> QED
    BY <1>1, <2>1 DEF IsPrefix
<1>3. CASE p # Upstream
  <2>1. Len(p) = 2
    BY <1>3 DEF Fields, Enabled, ApiKey, IngestUrl
  <2> QED
    BY <1>1, <2>1 DEF IsPrefix
<1> QED
  BY <1>2, <1>3

(* A variable that does not name the whole object is one leaf.              *)
LEMMA OneLeaf ==
  ASSUME NEW var, IsVariable(var), var.path # Hosted
  PROVE  var.path \in Fields /\ DOMAIN var.tree = {var.path}
<1>1. var.path \in Fields
  BY DEF IsVariable, Paths
<1>2. \A p \in DOMAIN var.tree : p = var.path
  BY <1>1, FieldsApart, NoFieldAboveHosted DEF IsVariable, Paths
<1> QED
  BY <1>1, <1>2 DEF IsVariable

(* The first n assignments.                                                *)
After(environ, out, n) ==
  out = [m \in 0 .. n |-> IF m = 0 THEN EmptyTree ELSE Assigned(out[m - 1], environ[m])]

(* A non-empty set of natural numbers has a least element.                 *)
LEMMA Least ==
  ASSUME NEW S \in SUBSET Nat, S # {}
  PROVE  \E n \in S : \A m \in S : n <= m
<1> DEFINE R == OpToRel(<, Nat)
<1>1. IsWellFoundedOn(R, Nat)
  BY NatLessThanWellFounded
<1>2. \A x, y \in Nat : x < y => <<x, y>> \in R
  BY DEF OpToRel
<1> HIDE DEF R
<1>3. PICK n \in S : \A m \in S : ~(<<m, n>> \in R)
  BY <1>1, WFMin
<1>4. ASSUME NEW m \in S PROVE n <= m
  <2>1. m \in Nat /\ n \in Nat /\ ~(m < n)
    BY <1>2, <1>3
  <2> QED
    BY <2>1
<1> QED
  BY <1>3, <1>4

(* The loop of _from_env() has a value after each assignment: the least     *)
(* number of assignments without one would be one more than some.          *)
LEMMA AfterExists ==
  ASSUME NEW environ, NEW n \in Nat
  PROVE  \E out : After(environ, out, n)
<1> DEFINE Stuck == {m \in Nat : ~\E out : After(environ, out, m)}
<1> SUFFICES ASSUME Stuck # {} PROVE FALSE
  OBVIOUS
<1>1. PICK k \in Stuck : \A m \in Stuck : k <= m
  <2>1. Stuck \in SUBSET Nat
    OBVIOUS
  <2> HIDE DEF Stuck
  <2> QED
    BY <2>1, Least
<1>2. k # 0
  <2>1. After(environ, [m \in 0 .. 0 |-> EmptyTree], 0)
    BY DEF After
  <2> QED
    BY <2>1
<1>3. k \in Nat /\ k - 1 \in Nat /\ ~(k <= k - 1)
  BY <1>2
<1>4. PICK out : After(environ, out, k - 1)
  BY <1>1, <1>3
<1> DEFINE next == [m \in 0 .. k |-> IF m = k THEN Assigned(out[k - 1], environ[k]) ELSE out[m]]
<1>5. \A m \in 0 .. k - 1 :
        out[m] = IF m = 0 THEN EmptyTree ELSE Assigned(out[m - 1], environ[m])
  BY <1>3, <1>4 DEF After
<1>6. After(environ, next, k)
  <2>1. ASSUME NEW m \in 0 .. k
        PROVE  next[m] = IF m = 0 THEN EmptyTree ELSE Assigned(next[m - 1], environ[m])
    <3>1. CASE m = k
      <4>1. k - 1 \in 0 .. k /\ k - 1 # k
        BY <1>3
      <4>2. next[k - 1] = out[k - 1]
        BY <4>1
      <4> QED
        BY <1>2, <1>3, <3>1, <4>2
    <3>2. CASE m # k
      <4>1. m \in 0 .. k - 1 /\ (m # 0 => m - 1 \in 0 .. k /\ m - 1 # k)
        BY <1>3, <3>2
      <4>2. next[m] = out[m] /\ (m # 0 => next[m - 1] = out[m - 1])
        BY <3>2, <4>1
      <4> QED
        BY <1>5, <4>1, <4>2
    <3> QED
      BY <3>1, <3>2
  <2> QED
    BY <2>1 DEF After
<1> QED
  BY <1>3, <1>6

(* The leaves of the first n variables, and what the last of them that has  *)
(* p says of it.                                                           *)
Leaves(environ, n) == UNION {DOMAIN environ[i].tree : i \in 1 .. n}
IsLast(environ, n, i, p) ==
  /\ i \in 1 .. n /\ p \in DOMAIN environ[i].tree
  /\ \A j \in 1 .. n : p \in DOMAIN environ[j].tree => j <= i

LEMMA LeavesAreFields ==
  ASSUME NEW environ \in Environs, ObjectFirst(environ),
         NEW i \in DOMAIN environ, NEW p \in DOMAIN environ[i].tree
  PROVE  p \in Fields
<1>1. IsVariable(environ[i])
  BY SidecarAssumption DEF SidecarAssumption
<1>2. CASE environ[i].path = Hosted
  <2>1. Hosted \notin DOMAIN environ[i].tree
    BY <1>2 DEF ObjectFirst, IsObject
  <2> QED
    BY <1>1, <2>1 DEF IsVariable, Paths
<1>3. CASE environ[i].path # Hosted
  BY <1>1, <1>3, OneLeaf
<1> QED
  BY <1>2, <1>3

(* An assignment takes nothing away but what it sets anew, when the object  *)
(* comes before its fields.                                                *)
LEMMA KeptLemma ==
  ASSUME NEW environ \in Environs, ObjectFirst(environ), NEW N \in Nat,
         DOMAIN environ = 1 .. N, NEW n \in 1 .. N,
         NEW p \in Leaves(environ, n - 1)
  PROVE  IsPrefix(environ[n].path, p) <=> p \in DOMAIN environ[n].tree
<1>1. PICK i \in 1 .. n - 1 : p \in DOMAIN environ[i].tree
  BY DEF Leaves
<1>2. i \in 1 .. N /\ i # n /\ ~(n < i)
  BY <1>1
<1>3. /\ IsVariable(environ[i]) /\ IsVariable(environ[n])
      /\ environ[i].path # environ[n].path
  BY <1>2, SidecarAssumption DEF SidecarAssumption
<1>4. p \in Fields
  BY <1>1, <1>2, LeavesAreFields
<1>5. CASE environ[n].path = Hosted
  <2>1. p = environ[i].path
    BY <1>1, <1>3, <1>5, OneLeaf
  <2>2. ~IsPrefix(Hosted, p)
    <3>1. ~IsStrictPrefix(Hosted, environ[i].path)
      BY <1>2, <1>5 DEF ObjectFirst
    <3> QED
      BY <1>3, <1>5, <2>1, <3>1 DEF IsStrictPrefix
  <2> QED
    BY <1>3, <1>5, <2>2 DEF IsVariable
<1>6. CASE environ[n].path # Hosted
  <2>1. environ[n].path \in Fields /\ DOMAIN environ[n].tree = {environ[n].path}
    BY <1>3, <1>6, OneLeaf
  <2> QED
    BY <1>4, <2>1, FieldsApart
<1> QED
  BY <1>5, <1>6

(* What the environment comes to when an object comes before its fields:    *)
(* each leaf of each variable, and of two variables the later.             *)
LEMMA EnvLemma ==
  ASSUME NEW environ \in Environs, ObjectFirst(environ)
  PROVE  /\ DOMAIN environ = 1 .. Len(environ) /\ Len(environ) \in Nat
         /\ DOMAIN FromEnv(environ) = Leaves(environ, Len(environ))
         /\ Leaves(environ, Len(environ)) \subseteq Fields
         /\ \A i, p : IsLast(environ, Len(environ), i, p) =>
              FromEnv(environ)[p] = environ[i].tree[p]
<1> DEFINE N == Len(environ)
<1>1. N \in Nat /\ DOMAIN environ = 1 .. N
  <2>1. environ \in Seq(ToSet(environ))
    BY SidecarAssumption DEF SidecarAssumption
  <2> QED
    BY <2>1
<1>2. PICK out : After(environ, out, N) /\ FromEnv(environ) = out[N]
  <2>1. \E out : After(environ, out, N)
    BY <1>1, AfterExists
  <2> QED
    BY <2>1 DEF FromEnv, After
<1>3. Leaves(environ, N) \subseteq Fields
  <2>1. ASSUME NEW i \in 1 .. N, NEW p \in DOMAIN environ[i].tree PROVE p \in Fields
    BY <1>1, LeavesAreFields
  <2> QED
    BY <2>1 DEF Leaves
<1> HIDE DEF N
<1>4. \A m \in 0 .. N : out[m] = IF m = 0 THEN EmptyTree ELSE Assigned(out[m - 1], environ[m])
  BY <1>2 DEF After
<1> DEFINE Good(n) == /\ DOMAIN out[n] = Leaves(environ, n)
                      /\ \A i, p : IsLast(environ, n, i, p) => out[n][p] = environ[i].tree[p]
           Bad == {n \in 0 .. N : ~Good(n)}
<1>5. Good(0)
  <2>1. out[0] = EmptyTree /\ 1 .. 0 = {}
    BY <1>1, <1>4
  <2> QED
    BY <2>1 DEF EmptyTree, Leaves, IsLast
<1>6. ASSUME NEW n \in 1 .. N, Good(n - 1) PROVE Good(n)
  <2>1. /\ n \in 0 .. N /\ n # 0 /\ n \in Int
        /\ 1 .. n = (1 .. n - 1) \cup {n} /\ n \notin 1 .. n - 1
        /\ \A i \in 1 .. n - 1 : i \in Int /\ i < n
    BY <1>1
  <2>2. out[n] = Assigned(out[n - 1], environ[n])
    BY <1>4, <2>1
  <2> DEFINE tree == environ[n].tree
  <2>3. \A p \in DOMAIN out[n - 1] : IsPrefix(environ[n].path, p) <=> p \in DOMAIN tree
    BY <1>1, <1>6, KeptLemma
  <2>4. out[n] = [p \in DOMAIN out[n - 1] \cup DOMAIN tree |->
                    IF p \in DOMAIN tree THEN tree[p] ELSE out[n - 1][p]]
    <3> DEFINE kept == {p \in DOMAIN out[n - 1] : ~IsPrefix(environ[n].path, p)}
    <3>1. kept = DOMAIN out[n - 1] \ DOMAIN tree
      BY <2>3
    <3>2. out[n] = [p \in kept \cup DOMAIN tree |-> IF p \in kept THEN out[n - 1][p] ELSE tree[p]]
      BY <2>2 DEF Assigned
    <3> HIDE DEF kept, tree
    <3> QED
      BY <3>1, <3>2
  <2>5. DOMAIN out[n] = Leaves(environ, n)
    <3>1. Leaves(environ, n) = Leaves(environ, n - 1) \cup DOMAIN tree
      BY <2>1 DEF Leaves
    <3>2. DOMAIN out[n] = DOMAIN out[n - 1] \cup DOMAIN tree
      BY <2>4
    <3> QED
      BY <1>6, <3>1, <3>2
  <2>6. ASSUME NEW i, NEW p, IsLast(environ, n, i, p) PROVE out[n][p] = environ[i].tree[p]
    <3>1. CASE i = n
      BY <2>4, <2>6, <3>1 DEF IsLast
    <3>2. CASE i # n
      <4>1. i \in 1 .. n - 1 /\ ~(n <= i)
        BY <2>1, <2>6, <3>2 DEF IsLast
      <4>2. p \notin DOMAIN tree /\ IsLast(environ, n - 1, i, p)
        BY <2>1, <2>6, <4>1 DEF IsLast
      <4>3. p \in Leaves(environ, n - 1)
        BY <4>2 DEF IsLast, Leaves
      <4>4. p \in DOMAIN out[n - 1]
        BY <1>6, <4>3
      <4> QED
        BY <1>6, <2>4, <4>2, <4>4
    <3> QED
      BY <3>1, <3>2
  <2> QED
    BY <2>5, <2>6
<1>7. Good(N)
  <2> HIDE DEF Good
  <2> SUFFICES ASSUME Bad # {} PROVE FALSE
    BY <1>1
  <2>1. Bad \in SUBSET Nat
    BY <1>1
  <2>2. PICK n \in Bad : \A m \in Bad : n <= m
    <3> HIDE DEF Bad
    <3> QED
      BY <2>1, Least
  <2>3. n # 0
    BY <1>5
  <2>4. n \in 1 .. N /\ n - 1 \in 0 .. N /\ ~(n <= n - 1)
    BY <1>1, <2>3
  <2>5. Good(n - 1)
    BY <2>2, <2>4
  <2> QED
    BY <1>6, <2>4, <2>5
<1> QED
  BY <1>1, <1>2, <1>3, <1>7 DEF N

(* Of the variables that have p there is a last one: the one the least      *)
(* number of variables follow.                                             *)
LEMMA LastExists ==
  ASSUME NEW environ, NEW N \in Nat, NEW p, p \in Leaves(environ, N)
  PROVE  \E i \in 1 .. N : IsLast(environ, N, i, p)
<1> DEFINE Behind == {k \in Nat : k < N /\ p \in DOMAIN environ[N - k].tree}
<1>1. \A j \in 1 .. N : p \in DOMAIN environ[j].tree => N - j \in Behind
  <2> SUFFICES ASSUME NEW j \in 1 .. N, p \in DOMAIN environ[j].tree PROVE N - j \in Behind
    OBVIOUS
  <2>1. N - j \in Nat /\ N - j < N /\ N - (N - j) = j
    OBVIOUS
  <2> QED
    BY <2>1
<1>2. Behind # {} /\ Behind \in SUBSET Nat
  BY <1>1 DEF Leaves
<1>3. PICK k \in Behind : \A m \in Behind : k <= m
  <2> HIDE DEF Behind
  <2> QED
    BY <1>2, Least
<1>4. N - k \in 1 .. N /\ p \in DOMAIN environ[N - k].tree
  BY <1>3
<1>5. ASSUME NEW j \in 1 .. N, p \in DOMAIN environ[j].tree PROVE j <= N - k
  <2>1. k <= N - j /\ k \in Nat
    BY <1>1, <1>3, <1>5
  <2> QED
    BY <2>1
<1> QED
  BY <1>4, <1>5 DEF IsLast

-----------------------------------------------------------------------------
(* The precedence of the sources.                                          *)

LEMMA MergeLemma ==
  ASSUME NEW base, NEW extra, DOMAIN extra \subseteq Fields, NEW p \in Fields
  PROVE  /\ p \in DOMAIN Merged(base, extra) <=> p \in DOMAIN base \cup DOMAIN extra
         /\ p \in DOMAIN extra => Merged(base, extra)[p] = extra[p]
         /\ p \in DOMAIN base \ DOMAIN extra => Merged(base, extra)[p] = base[p]
<1> DEFINE kept == {q \in DOMAIN base : \A r \in DOMAIN extra : ~Comparable(q, r)}
<1>1. Merged(base, extra) =
        [q \in kept \cup DOMAIN extra |-> IF q \in DOMAIN extra THEN extra[q] ELSE base[q]]
  BY DEF Merged
<1>2. p \in DOMAIN base \ DOMAIN extra => p \in kept
  BY FieldsApart DEF Comparable
<1>3. p \in kept => p \in DOMAIN base
  OBVIOUS
<1> HIDE DEF kept
<1> QED
  BY <1>1, <1>2, <1>3

LEMMA FlagLemma ==
  ASSUME NEW flags \in FlagSets, NEW p \in Fields,
         p = IngestUrl => (IngestUrl \in DOMAIN flags => ApiKey \in DOMAIN flags)
  PROVE  /\ DOMAIN Overrides(flags) \subseteq Fields
         /\ p \in DOMAIN Overrides(flags) <=> FlagSays(flags, p)
         /\ FlagSays(flags, p) =>
              Overrides(flags)[p] = IF p = Enabled THEN "true" ELSE flags[p]
<1>1. DOMAIN flags \subseteq {Upstream, ApiKey, IngestUrl}
  BY SidecarAssumption DEF SidecarAssumption
<1>2. Enabled \notin {Upstream, ApiKey, IngestUrl}
  <2>1. Len(Enabled) = 2 /\ Enabled[2] = "enabled" /\ Len(Upstream) = 1
        /\ ApiKey[2] = "api_key" /\ IngestUrl[2] = "ingest_url"
    BY DEF Enabled, Upstream, ApiKey, IngestUrl
  <2> QED
    BY <2>1
<1> DEFINE given == {q \in DOMAIN flags : q = IngestUrl => ApiKey \in DOMAIN flags}
           on == IF ApiKey \in DOMAIN flags THEN {Enabled} ELSE {}
<1>3. Overrides(flags) = [q \in given \cup on |-> IF q = Enabled THEN "true" ELSE flags[q]]
  BY DEF Overrides
<1>4. p \in given \cup on <=> FlagSays(flags, p)
  BY <1>1, <1>2 DEF FlagSays
<1>5. given \cup on \subseteq Fields
  BY <1>1 DEF Fields
<1> HIDE DEF given, on
<1> QED
  BY <1>3, <1>4, <1>5

LEMMA LoadLemma ==
  ASSUME NEW file, NEW environ \in Environs, NEW flags \in FlagSets, NEW p \in Fields,
         p = IngestUrl => (IngestUrl \in DOMAIN flags => ApiKey \in DOMAIN flags),
         ObjectFirst(environ)
  PROVE  Completed(Loaded(file, environ, flags))[p] = FirstSource(file, environ, flags, p)
<1> DEFINE env == FromEnv(environ)
           rest == Merged(file, env)
           all == Merged(rest, Overrides(flags))
           N == Len(environ)
<1>1. /\ DOMAIN environ = 1 .. N /\ N \in Nat
      /\ DOMAIN env = Leaves(environ, N)
      /\ Leaves(environ, N) \subseteq Fields
      /\ \A i, q : IsLast(environ, N, i, q) => env[q] = environ[i].tree[q]
  BY EnvLemma
<1> HIDE DEF N
<1>3. p \in DOMAIN env <=> EnvSays(environ, p)
  BY <1>1 DEF EnvSays, Leaves
<1>4. EnvSays(environ, p) => env[p] = EnvValue(environ, p)
  <2> SUFFICES ASSUME EnvSays(environ, p) PROVE env[p] = EnvValue(environ, p)
    OBVIOUS
  <2> DEFINE Latest(i) == /\ p \in DOMAIN environ[i].tree
                        /\ \A j \in DOMAIN environ : p \in DOMAIN environ[j].tree => j <= i
             last == CHOOSE i \in DOMAIN environ : Latest(i)
  <2>1. \E i \in DOMAIN environ : Latest(i)
    <3>1. \E i \in 1 .. N : IsLast(environ, N, i, p)
      BY <1>1, <1>3, LastExists
    <3> QED
      BY <1>1, <3>1 DEF IsLast
  <2>2. last \in DOMAIN environ /\ Latest(last)
    <3> HIDE DEF Latest
    <3> QED
      BY <2>1
  <2>3. EnvValue(environ, p) = environ[last].tree[p]
    BY DEF EnvValue
  <2>4. IsLast(environ, N, last, p)
    <3> HIDE DEF last
    <3> QED
      BY <1>1, <2>2 DEF IsLast
  <2> QED
    BY <1>1, <2>3, <2>4
<1>5. DOMAIN env \subseteq Fields
  BY <1>1
<1> HIDE DEF env
<1>6. /\ p \in DOMAIN rest <=> p \in DOMAIN file \cup DOMAIN env
      /\ p \in DOMAIN env => rest[p] = env[p]
      /\ p \in DOMAIN file \ DOMAIN env => rest[p] = file[p]
  BY <1>5, MergeLemma
<1>7. /\ DOMAIN Overrides(flags) \subseteq Fields
      /\ p \in DOMAIN Overrides(flags) <=> FlagSays(flags, p)
      /\ FlagSays(flags, p) => Overrides(flags)[p] = IF p = Enabled THEN "true" ELSE flags[p]
  BY FlagLemma
<1> HIDE DEF rest
<1>8. /\ p \in DOMAIN all <=> p \in DOMAIN rest \cup DOMAIN Overrides(flags)
      /\ p \in DOMAIN Overrides(flags) => all[p] = Overrides(flags)[p]
      /\ p \in DOMAIN rest \ DOMAIN Overrides(flags) => all[p] = rest[p]
  BY <1>7, MergeLemma
<1>9. Loaded(file, environ, flags) = all
  BY DEF Loaded, env, rest
<1> HIDE DEF all
<1>10. Completed(Loaded(file, environ, flags))[p] = IF p \in DOMAIN all THEN all[p] ELSE Default(p)
  BY <1>9 DEF Completed
<1> QED
  BY <1>3, <1>4, <1>6, <1>7, <1>8, <1>10 DEF FirstSource

StartInv == source.environ \in Environs /\ source.flags \in FlagSets

LEMMA StartLemma == Spec => []StartInv
<1>1. Init => StartInv
  BY DEF Init, StartInv
<1>2. StartInv /\ [Next]_vars => StartInv'
  <2>1. [Next]_vars => UNCHANGED source
    BY DEF Next, vars, start, Fail, Discover, Serve, ModelsAnswered, MetricsAnswered,
           Probing, Report, Crash, EngineChanges, ScrapeAnswered, ScrapeRaises, ScrapeFails,
           SnapshotArrives, ShippingEnds, ShippingRaises, LateArrives, Wake, Stop, Done
  <2> QED
    BY <2>1 DEF StartInv
<1> QED
  BY <1>1, <1>2, PTL DEF Spec

(* A process that starts has each field from the first source that has it, *)
(* for all files, environments in any order, and flags.                    *)
THEOREM PrecedenceCorrect == Spec => PrecedenceKept
<1>1. ASSUME StartInv, Next, NEW p \in Fields,
             phase = "starting", phase' \in {"serving", "discovering"},
             p = IngestUrl => (IngestUrl \in DOMAIN source.flags => ApiKey \in DOMAIN source.flags),
             ObjectFirst(source.environ)
      PROVE  config'[p] = FirstSource(source.file, source.environ, source.flags, p)
  <2>1. Discover \/ Serve
    BY <1>1 DEF Next, start, Fail, ModelsAnswered, MetricsAnswered, Probing, Report, Gathered,
                Crash, EngineChanges, ScrapeAnswered, ScrapeRaises, ScrapeFails, SnapshotArrives,
                ShippingEnds, ShippingRaises, LateArrives, Wake, Stop, Done
  <2>2. config' = Completed(Loaded(source.file, source.environ, source.flags))
    BY <2>1 DEF Discover, Serve, Data
  <2>3. source.environ \in Environs /\ source.flags \in FlagSets
    BY <1>1 DEF StartInv
  <2> QED
    BY <1>1, <2>2, <2>3, LoadLemma
<1>2. StartInv /\ [Next]_vars =>
        [\A p \in Fields :
           (/\ phase = "starting" /\ phase' \in {"serving", "discovering"}
            /\ p = IngestUrl => (IngestUrl \in DOMAIN source.flags => ApiKey \in DOMAIN source.flags)
            /\ ObjectFirst(source.environ))
             => config'[p] = FirstSource(source.file, source.environ, source.flags, p)]_vars
  BY <1>1
<1> QED
  BY StartLemma, <1>2, PTL DEF Spec, PrecedenceKept

-----------------------------------------------------------------------------
(* `discover`.                                                             *)

(* What a probe says fits what is there.                                   *)
Fits(t) ==
  /\ probe[t] = "nobody" => serverAt[t] = "down"
  /\ probe[t] \in {"metrics", "openai-compatible"} => serverAt[t] \in {"openai-compatible", "vllm"}
  /\ probe[t] = "vllm" => serverAt[t] = "vllm"

ProbeInv ==
  /\ phase \in {"starting", "discovering", "serving", "failed", "over"}
  /\ DOMAIN probe = TargetSet
  /\ phase = "serving" => source.command = "run"
  /\ phase \in {"discovering", "over"} /\ source.command = "discover" => \A t \in TargetSet : Fits(t)
  /\ phase = "discovering" => source.command = "discover" /\ serverAt \in Worlds
  /\ phase = "over" /\ source.command = "discover" =>
       report = Among(Found) /\ \A t \in TargetSet : probe[t] \in Results

LEMMA ProbeInit == Init => ProbeInv
BY DEF Init, ProbeInv

LEMMA ProbeStep == ProbeInv /\ [Next]_vars => ProbeInv'
<1> SUFFICES ASSUME ProbeInv, [Next]_vars PROVE ProbeInv'
  OBVIOUS
<1>1. CASE Fail \/ Crash
  BY <1>1 DEF Fail, Crash, discovery, ProbeInv
<1>2. CASE Discover
  BY <1>2 DEF Discover, ProbeInv, Fits
<1>3. CASE Serve
  BY <1>3 DEF Serve, discovery, ProbeInv
<1>4. ASSUME NEW t \in TargetSet, ModelsAnswered(t) \/ MetricsAnswered(t) PROVE ProbeInv'
  <2>1. phase = "discovering" /\ UNCHANGED <<phase, source, serverAt, report>>
    BY <1>4 DEF ModelsAnswered, MetricsAnswered, Probing, start
  <2>2. DOMAIN probe' = TargetSet /\ \A u \in TargetSet \ {t} : probe'[u] = probe[u]
    BY <1>4 DEF ModelsAnswered, MetricsAnswered, ProbeInv
  <2>3. Fits(t)'
    <3>1. serverAt[t] \in {"down", "openai-compatible", "vllm", "garbage"}
      BY <2>1, SidecarAssumption DEF SidecarAssumption, ProbeInv, TargetSet
    <3>2. CASE ModelsAnswered(t)
      BY <2>1, <3>1, <3>2 DEF ModelsAnswered, ProbeInv, Fits
    <3>3. CASE MetricsAnswered(t)
      BY <2>1, <3>3 DEF MetricsAnswered, ProbeInv, Fits
    <3> QED
      BY <1>4, <3>2, <3>3
  <2>4. \A u \in TargetSet : Fits(u)'
    BY <2>1, <2>2, <2>3 DEF ProbeInv, Fits
  <2> QED
    BY <2>1, <2>2, <2>4 DEF ProbeInv
<1>5. CASE Report
  <2>1. Found' = Found
    BY <1>5 DEF Report, Found, TargetSet
  <2> QED
    BY <1>5, <2>1 DEF Report, Gathered, ProbeInv, Fits
<1>6. CASE Stop
  BY <1>6 DEF Stop, discovery, ProbeInv
<1>7. CASE UNCHANGED <<phase, source, serverAt, probe, report>>
  BY <1>7 DEF ProbeInv, Fits, Found
<1>8. EngineChanges \/ ScrapeAnswered \/ ScrapeRaises \/ ScrapeFails \/ SnapshotArrives
      \/ ShippingEnds \/ ShippingRaises \/ LateArrives \/ Wake \/ Done \/ UNCHANGED vars
        => UNCHANGED <<phase, source, serverAt, probe, report>>
  BY DEF EngineChanges, ScrapeAnswered, ScrapeRaises, ScrapeFails, SnapshotArrives, ShippingEnds,
         ShippingRaises, LateArrives, Wake, Done, vars, start, discovery
<1> QED
  BY <1>1, <1>2, <1>3, <1>4, <1>5, <1>6, <1>7, <1>8 DEF Next

(* `discover` prints all that listens, in the order of the targets, or      *)
(* nothing, whatever the number of targets and the order of the answers.   *)
THEOREM ReportCorrect == Spec => []ReportIsComplete
<1>1. ProbeInv => ReportIsComplete
  <2> SUFFICES ASSUME ProbeInv, phase = "over", source.command = "discover"
               PROVE  /\ report = Among({t \in TargetSet : serverAt[t] \in {"openai-compatible", "vllm"}})
                      /\ \A t \in TargetSet : probe[t] = "vllm" => serverAt[t] = "vllm"
    BY DEF ReportIsComplete
  <2>1. \A t \in TargetSet : Fits(t) /\ probe[t] \in Results
    BY DEF ProbeInv
  <2>2. Found = {t \in TargetSet : serverAt[t] \in {"openai-compatible", "vllm"}}
    BY <2>1 DEF Found, Fits, Results
  <2> QED
    BY <2>1, <2>2 DEF ProbeInv, Fits
<1> QED
  BY ProbeInit, ProbeStep, <1>1, PTL DEF Spec
=============================================================================
