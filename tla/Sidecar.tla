------------------------------- MODULE Sidecar -------------------------------
(***************************************************************************)
(* The life of a sidecar process: main() of src/infersight/cli.py with its *)
(* two commands.  `discover` probes all targets concurrently               *)
(* (src/infersight/discovery.py).  `run` serves, and its engine task       *)
(* (src/infersight/proxy.py) scrapes the gauges of the engine, sets them   *)
(* in the local registry (metrics.py) and ships them to the hosted tier    *)
(* (forwarder.py, POST /v1/ingest/engine-state of hosted/ingest.py).  The  *)
(* records of requests are in Proxy, Forwarder and Shipping.               *)
(***************************************************************************)
EXTENDS Configuration, Naturals

CONSTANTS
  Files,        \* trees that the configuration file may hold
  Environs,     \* sequences of environment variables
  FlagSets,     \* trees of command line flags
  Targets,      \* the URLs to probe, hosts before ports
  Worlds,       \* what may listen at the targets, as functions from them
  Gauges,       \* names of the engine gauges
  Pages,        \* the pages /metrics of the engine may show
  Tenants,      \* the API keys that the hosted tier knows
  MaxChanges    \* bound of the model on how often the engine's page changes

(* "down": no answer, no 200 or no JSON; "garbage": JSON of another shape.   *)
(* A page has a value for each gauge, "absent", or "odd": a token that the *)
(* regular expression admits and float() does not; "infinite" is one that  *)
(* float() takes, and the encoder of a recent httpx does not.              *)
(* The names in an environment differ, also without regard to case.         *)
ASSUME SidecarAssumption ==
  /\ \A environ \in Environs :
       /\ environ \in Seq(ToSet(environ)) /\ \A i \in DOMAIN environ : IsVariable(environ[i])
       /\ \A i, j \in DOMAIN environ : environ[i].path = environ[j].path => i = j
  /\ \A flags \in FlagSets : DOMAIN flags \subseteq {Upstream, ApiKey, IngestUrl}
  /\ Targets \in Seq(STRING)
  /\ Worlds \subseteq [ToSet(Targets) -> {"down", "openai-compatible", "vllm", "garbage"}]
  /\ \A page \in Pages : DOMAIN page = Gauges
  /\ MaxChanges \in Nat

VARIABLES
  phase,        \* the process: "starting", "discovering", "serving", "failed" or "over"
  source,       \* what it was started with: command, file (readable or not), environ, flags
  config,       \* the InferSightConfig
  serverAt,     \* serverAt[t]: what listens at target t
  probe,        \* probe[t]: the coroutine _probe(), or its result
  report,       \* what `discover` prints
  page,         \* what the engine shows now
  changes,      \* how often it changed
  task,         \* _engine_scrape_loop(): the await it is at, or "off", "ended"
  gauge,        \* the gauges of the local registry
  values,       \* local `values` of the task
  arrived,      \* the snapshot being sent has reached the hosted tier
  late,         \* snapshots whose sender gave up before they arrived
  snapshot      \* _engine_state of the hosted tier, by the key of the sender

start == <<phase, source, config>>
discovery == <<serverAt, probe, report>>
engine == <<page, changes>>
shipment == <<values, arrived, late, snapshot>>
vars == <<start, discovery, engine, task, gauge, shipment>>

TargetSet == ToSet(Targets)
Nothing == [g \in Gauges |-> "absent"]

Init ==
  /\ phase = "starting"
  /\ source \in [command : {"run", "discover"}, file : Files, readable : BOOLEAN,
                 environ : Environs, flags : FlagSets]
  /\ ~source.readable => source.file = EmptyTree
  /\ source.command = "discover" => source.flags = EmptyTree
  /\ config = Completed(EmptyTree)
  /\ serverAt = [t \in TargetSet |-> "down"]
  /\ probe = [t \in TargetSet |-> "none"] /\ report = << >>
  /\ page \in Pages /\ changes = 0
  /\ task = "off"
  /\ gauge = Nothing /\ values = Nothing
  /\ arrived = FALSE /\ late = {}
  /\ snapshot = [k \in Tenants |-> Nothing]

-----------------------------------------------------------------------------
(* Start-up.                                                               *)

Data == Loaded(source.file, source.environ, source.flags)

(* The file that --config names exists and holds a JSON object, and neither  *)
(* the environment nor the merged data raises.                             *)
Loads == source.readable /\ ~EnvRaises(source.environ) /\ Valid(Data)

(* load() raises, and main() with it.                                      *)
Fail ==
  /\ phase = "starting" /\ ~Loads
  /\ phase' = "failed"
  /\ UNCHANGED <<source, config, discovery, engine, task, gauge, shipment>>

(* discover() starts a probe for each target.                              *)
Discover ==
  /\ phase = "starting" /\ Loads /\ source.command = "discover"
  /\ phase' = "discovering"
  /\ config' = Completed(Data)
  /\ serverAt' \in Worlds
  /\ probe' = [t \in TargetSet |-> "models"]
  /\ UNCHANGED <<source, report, engine, task, gauge, shipment>>

(* create_app() and its lifespan start the engine task.                     *)
Serve ==
  /\ phase = "starting" /\ Loads /\ source.command = "run"
  /\ phase' = "serving"
  /\ config' = Completed(Data)
  /\ task' = "scraping"
  /\ UNCHANGED <<source, discovery, engine, gauge, shipment>>

-----------------------------------------------------------------------------
(* `discover`.                                                             *)

Probing == phase = "discovering" /\ UNCHANGED <<start, serverAt, report, engine, task, gauge, shipment>>

(* GET /v1/models is answered, or fails.  A JSON list, or an entry that is   *)
(* no object, raises what _probe() does not catch.                         *)
ModelsAnswered(t) ==
  /\ Probing
  /\ probe[t] = "models"
  /\ probe' = [probe EXCEPT ![t] = CASE serverAt[t] = "down" -> "nobody"
                                     [] serverAt[t] = "garbage" -> "raised"
                                     [] OTHER -> "metrics"]

(* GET /metrics decides about the engine; without an answer it stays         *)
(* "openai-compatible".                                                    *)
MetricsAnswered(t) ==
  /\ Probing
  /\ probe[t] = "metrics"
  /\ \E engineOf \in {serverAt[t], "openai-compatible"} : probe' = [probe EXCEPT ![t] = engineOf]

(* Those of the targets that are in S, in their order.                      *)
Among(S) == SelectSeq(Targets, LAMBDA t : t \in S)

Results == {"nobody", "openai-compatible", "vllm"}
Found == {t \in TargetSet : probe[t] \in {"openai-compatible", "vllm"}}

(* Plausible bug: what is there is printed when the first probe fails.       *)
GatheredEarly ==
  /\ phase = "discovering"
  /\ \E t \in TargetSet : probe[t] \in Results \cup {"raised"}
  /\ report' = Among(Found)
  /\ phase' = "over"

(* gather() returns the results in the order of the targets, whatever the    *)
(* order of the answers.                                                   *)
Gathered ==
  /\ phase = "discovering"
  /\ \A t \in TargetSet : probe[t] \in Results
  /\ report' = Among(Found)
  /\ phase' = "over"

Report == Gathered /\ UNCHANGED <<source, config, serverAt, probe, engine, task, gauge, shipment>>

(* The first exception leaves gather(), and ends the program: the instances  *)
(* found by the other probes are not reported.                             *)
Crash ==
  /\ phase = "discovering"
  /\ \E t \in TargetSet : probe[t] = "raised"
  /\ phase' = "failed"
  /\ UNCHANGED <<source, config, discovery, engine, task, gauge, shipment>>

-----------------------------------------------------------------------------
(* The engine task.                                                        *)

EngineChanges ==
  /\ phase = "serving" /\ changes < MaxChanges
  /\ page' \in Pages \ {page}
  /\ changes' = changes + 1
  /\ UNCHANGED <<start, discovery, task, gauge, shipment>>

Ships == config[Enabled] = "true"
Odd == \E g \in Gauges : page[g] = "odd"

GaugesSetOnce == [g \in Gauges |-> IF gauge[g] = "absent" THEN page[g] ELSE gauge[g]]

(* set_engine_gauges(): a gauge that the page does not show keeps its value. *)
GaugesSet == [g \in Gauges |-> IF page[g] = "absent" THEN gauge[g] ELSE page[g]]

ScrapeAnswered ==
  /\ task = "scraping" /\ ~Odd
  /\ gauge' = GaugesSet
  /\ values' = page /\ arrived' = FALSE
  /\ task' = IF Ships /\ page # Nothing THEN "shipping" ELSE "sleeping"
  /\ UNCHANGED <<start, discovery, engine, late, snapshot>>

(* float() raises ValueError, which the loop does not catch: it never        *)
(* scrapes again.                                                          *)
ScrapeRaises ==
  /\ task = "scraping" /\ Odd
  /\ task' = "ended"
  /\ UNCHANGED <<start, discovery, engine, gauge, shipment>>

ScrapeFails ==
  /\ task = "scraping"
  /\ task' = "sleeping"
  /\ UNCHANGED <<start, discovery, engine, gauge, shipment>>

Stored(s) ==
  snapshot' = IF config[ApiKey] \in Tenants THEN [snapshot EXCEPT ![config[ApiKey]] = s] ELSE snapshot

(* The snapshot reaches the hosted tier, where it replaces the last one; an  *)
(* unknown key is answered 403, which nobody looks at.                     *)
SnapshotArrives ==
  /\ task = "shipping" /\ ~arrived
  /\ Stored(values)
  /\ arrived' = TRUE
  /\ UNCHANGED <<start, discovery, engine, task, gauge, values, late>>

(* send_engine_state() returns: an answer, or an httpx.HTTPError it drops.   *)
(* What was given up may be on its way still.                              *)
ShippingEnds ==
  /\ task = "shipping"
  /\ task' = "sleeping"
  /\ late' = IF arrived THEN late ELSE late \cup {values}
  /\ UNCHANGED <<start, discovery, engine, gauge, values, arrived, snapshot>>

(* "Never raises", but an infinite number may raise ValueError before        *)
(* anything is sent.                                                       *)
ShippingRaises ==
  /\ task = "shipping" /\ ~arrived
  /\ \E g \in Gauges : values[g] = "infinite"
  /\ task' = "ended"
  /\ UNCHANGED <<start, discovery, engine, gauge, shipment>>

LateArrives ==
  \E s \in late :
    /\ Stored(s)
    /\ late' = late \ {s}
    /\ UNCHANGED <<start, discovery, engine, task, gauge, values, arrived>>

Wake ==
  /\ task = "sleeping"
  /\ task' = "scraping"
  /\ UNCHANGED <<start, discovery, engine, gauge, shipment>>

(* The server stops, and cancels the task wherever it is.                   *)
Stop ==
  /\ phase = "serving"
  /\ phase' = "over"
  /\ task' = "off"
  /\ late' = IF task = "shipping" /\ ~arrived THEN late \cup {values} ELSE late
  /\ UNCHANGED <<source, config, discovery, engine, gauge, values, arrived, snapshot>>

Done == phase \in {"failed", "over"} /\ late = {} /\ UNCHANGED vars

Next ==
  \/ Fail \/ Discover \/ Serve
  \/ \E t \in TargetSet : ModelsAnswered(t) \/ MetricsAnswered(t)
  \/ Report \/ Crash
  \/ EngineChanges
  \/ ScrapeAnswered \/ ScrapeRaises \/ ScrapeFails
  \/ SnapshotArrives \/ ShippingEnds \/ ShippingRaises \/ LateArrives
  \/ Wake \/ Stop \/ Done

(* Fairness.  The task is not starved and its requests end by an answer or   *)
(* the client's timeout.  The engine and the hosted tier are not out of    *)
(* reach for ever: of infinitely many requests to each some get there.     *)
Fairness ==
  /\ WF_vars(Wake) /\ WF_vars(ShippingEnds)
  /\ WF_vars(ScrapeAnswered \/ ScrapeRaises \/ ScrapeFails)
  /\ SF_vars(ScrapeAnswered \/ ScrapeRaises) /\ SF_vars(SnapshotArrives)

Spec == Init /\ [][Next]_vars /\ Fairness

-----------------------------------------------------------------------------
(* Properties.                                                             *)

(* INFERSIGHT_HOSTED, when it is there, is an object and comes before the    *)
(* variables of its fields.  Otherwise _from_env() loses what those set,   *)
(* or the fields of the file.                                              *)
ObjectFirst(environ) ==
  \A i \in DOMAIN environ : environ[i].path = Hosted =>
    /\ IsObject(environ[i])
    /\ \A j \in DOMAIN environ : IsStrictPrefix(Hosted, environ[j].path) => i < j

(* A process that starts has the documented precedence, flag by flag and     *)
(* variable by variable: no object of a lower source is lost with a field  *)
(* of it that a higher source sets, nor one of the environment with a      *)
(* variable that comes later.  Two exceptions are the code's own:          *)
(* --hosted-url needs --hosted-api-key, and INFERSIGHT_HOSTED replaces     *)
(* what earlier variables say of its fields.                               *)
PrecedenceKept ==
  [][\A p \in Fields :
       (/\ phase = "starting" /\ phase' \in {"serving", "discovering"}
        /\ p = IngestUrl => (IngestUrl \in DOMAIN source.flags => ApiKey \in DOMAIN source.flags)
        /\ ObjectFirst(source.environ))
         => config'[p] = FirstSource(source.file, source.environ, source.flags, p)]_vars

(* What `discover` prints is all that listens, each once, in the order of    *)
(* the targets, and never calls vllm what is not; a partial list is never  *)
(* printed, not even when a probe raises.                                  *)
ReportIsComplete ==
  (phase = "over" /\ source.command = "discover") =>
    /\ report = Among({t \in TargetSet : serverAt[t] \in {"openai-compatible", "vllm"}})
    /\ \A t \in TargetSet : probe[t] = "vllm" => serverAt[t] = "vllm"

Shown(reading) == \A g \in Gauges : page[g] # "absent" => reading[g] = page[g]

(* As long as the task lives, what the engine shows gets into the local      *)
(* registry and, under a known key, to the hosted tier, and stays there:   *)
(* lost requests delay it, and a late one does not win for ever.           *)
ReadingArrives ==
  <>[](task \notin {"off", "ended"}) =>
    /\ <>[]Shown(gauge)
    /\ <>[](Ships /\ config[ApiKey] \in Tenants => Shown(snapshot[config[ApiKey]]))
=============================================================================
