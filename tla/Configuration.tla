---------------------------- MODULE Configuration ----------------------------
(***************************************************************************)
(* InferSightConfig.load() of src/infersight/config.py, and the overrides  *)
(* that main() of src/infersight/cli.py gives it.                          *)
(*                                                                         *)
(* A JSON object is a tree: a function from the paths of its leaves to     *)
(* their values.  A path is a sequence of keys, so <<"hosted">> is a leaf  *)
(* when "hosted" has a value that is no object.  (Objects without leaves   *)
(* are left out.)  Four fields stand for all: one at the top and three of  *)
(* the nested object.                                                      *)
(***************************************************************************)
EXTENDS Integers, SequencesExt

Upstream == <<"upstream_url">>
Hosted == <<"hosted">>
Enabled == <<"hosted", "enabled">>
ApiKey == <<"hosted", "api_key">>
IngestUrl == <<"hosted", "ingest_url">>

Fields == {Upstream, Enabled, ApiKey, IngestUrl}
Paths == Fields \cup {Hosted}

(* The built-in defaults.                                                  *)
Default(path) == IF path = Enabled THEN "false" ELSE "default"

Comparable(p, q) == IsPrefix(p, q) \/ IsPrefix(q, p)

(* Plausible bug, not part of the specification: whole objects replaced.     *)
MergedShallow(base, extra) ==
  LET kept == {p \in DOMAIN base : \A q \in DOMAIN extra : p[1] # q[1]} IN
  [p \in kept \cup DOMAIN extra |-> IF p \in DOMAIN extra THEN extra[p] ELSE base[p]]

(* _deep_merge(): leaves of extra replace what is in their place; objects    *)
(* are merged, and an object replaces a leaf.                              *)
Merged(base, extra) ==
  LET kept == {p \in DOMAIN base : \A q \in DOMAIN extra : ~Comparable(p, q)} IN
  [p \in kept \cup DOMAIN extra |-> IF p \in DOMAIN extra THEN extra[p] ELSE base[p]]

(* An environment variable is the path of its name and the tree its value    *)
(* is there: one leaf, or the leaves of a JSON object.                     *)
EmptyTree == [p \in {} |-> ""]
IsObject(var) == var.path \notin DOMAIN var.tree
IsVariable(var) ==
  /\ var.path \in Paths
  /\ DOMAIN var.tree # {} /\ \A p \in DOMAIN var.tree : p \in Paths /\ IsPrefix(var.path, p)

(* _from_env() assigns one variable after another, in the order of          *)
(* os.environ; an assignment replaces all that was at its path.            *)
Assigned(out, var) ==
  LET kept == {p \in DOMAIN out : ~IsPrefix(var.path, p)} IN
  [p \in kept \cup DOMAIN var.tree |-> IF p \in kept THEN out[p] ELSE var.tree[p]]
FromEnv(environ) ==
  LET out[n \in 0 .. Len(environ)] ==
        IF n = 0 THEN EmptyTree ELSE Assigned(out[n - 1], environ[n])
  IN  out[Len(environ)]

(* An assignment below a leaf raises TypeError.                            *)
EnvRaises(environ) ==
  \E i, j \in DOMAIN environ :
    /\ i < j /\ ~IsObject(environ[i])
    /\ IsStrictPrefix(environ[i].path, environ[j].path)

(* main(): --hosted-api-key switches shipping on, and --hosted-url counts    *)
(* only with it.  flags is a tree of the flags given.                      *)
Overrides(flags) ==
  LET given == {p \in DOMAIN flags : p = IngestUrl => ApiKey \in DOMAIN flags}
      on == IF ApiKey \in DOMAIN flags THEN {Enabled} ELSE {} IN
  [p \in given \cup on |-> IF p = Enabled THEN "true" ELSE flags[p]]

Loaded(file, environ, flags) == Merged(Merged(file, FromEnv(environ)), Overrides(flags))

(* model_validate(): `hosted` is an object, and a key that was a JSON        *)
(* number is no string.                                                    *)
Valid(data) ==
  /\ Hosted \notin DOMAIN data
  /\ ApiKey \in DOMAIN data => data[ApiKey] # "number"

Completed(data) == [p \in Fields |-> IF p \in DOMAIN data THEN data[p] ELSE Default(p)]

-----------------------------------------------------------------------------
(* The documented precedence, said without merging anything: the value of    *)
(* a field is that of the first source that has one, and that of the last  *)
(* variable when two of them do (an object and one of its fields).         *)

EnvSays(environ, p) == \E i \in DOMAIN environ : p \in DOMAIN environ[i].tree
EnvValue(environ, p) ==
  LET last == CHOOSE i \in DOMAIN environ :
                /\ p \in DOMAIN environ[i].tree
                /\ \A j \in DOMAIN environ : p \in DOMAIN environ[j].tree => j <= i
  IN  environ[last].tree[p]
FlagSays(flags, p) == p \in DOMAIN flags \/ (p = Enabled /\ ApiKey \in DOMAIN flags)

FirstSource(file, environ, flags, p) ==
  IF FlagSays(flags, p) THEN IF p = Enabled THEN "true" ELSE flags[p]
  ELSE IF EnvSays(environ, p) THEN EnvValue(environ, p)
  ELSE IF p \in DOMAIN file THEN file[p] ELSE Default(p)
=============================================================================
