------------------------------ MODULE MCSidecar ------------------------------
(***************************************************************************)
(* Ways to start a sidecar, and engines, for TLC.                          *)
(***************************************************************************)
EXTENDS Sidecar

Leaf(p, v) == p :> v
Var(p, v) == [path |-> p, tree |-> Leaf(p, v)]

MCFiles ==
  {EmptyTree, Leaf(Upstream, "file") @@ Leaf(IngestUrl, "file") @@ Leaf(ApiKey, "key1") @@ Leaf(Enabled, "true"),
   Leaf(Hosted, "file")}

Vars ==
  {Var(Upstream, "env"), Var(ApiKey, "key2"), Var(ApiKey, "number"), Var(Enabled, "true"),
   Var(Hosted, "env"), [path |-> Hosted, tree |-> Leaf(ApiKey, "key1") @@ Leaf(IngestUrl, "env")]}
MCEnvirons == {e \in BoundedSeq(Vars, 2) : \A i, j \in DOMAIN e : i # j => e[i].path # e[j].path}

AllFlags == Leaf(Upstream, "flag") @@ Leaf(ApiKey, "key2") @@ Leaf(IngestUrl, "flag")
MCFlagSets == {[p \in given |-> AllFlags[p]] : given \in SUBSET DOMAIN AllFlags}

MCTargets == <<"h1:8000", "h1:8001", "h2:8000">>
MCWorlds ==
  {"h1:8000" :> "vllm" @@ "h1:8001" :> "down" @@ "h2:8000" :> "openai-compatible",
   "h1:8000" :> "garbage" @@ "h1:8001" :> "openai-compatible" @@ "h2:8000" :> "vllm"}

MCPages ==
  {[kv |-> "low", waiting |-> "few"], [kv |-> "infinite", waiting |-> "absent"],
   [kv |-> "odd", waiting |-> "few"]}
=============================================================================
