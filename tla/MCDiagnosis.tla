----------------------------- MODULE MCDiagnosis ----------------------------
(* What a read of a cluster comes to, in steps that share nothing here:    *)
(* the status it gives a pod (PodStatus), the signals and the conclusions  *)
(* drawn of one fault as it unfolds (Incident), the ranking of any set of  *)
(* signals (Analysis), the diagnosis told of such a ranking with and       *)
(* without a model (Diagnosis), the plan that answers a conclusion         *)
(* (Remediation), and what is read deeper of a pod and said of it          *)
(* (DeepReads).  Each behaviour is one of one of them.                     *)
(*                                                                         *)
(* The cluster: a Deployment with two replicas on one node, each with a    *)
(* claim of one class, a Service, a pod of another Deployment on another   *)
(* node, and a pod of another namespace.                                   *)
EXTENDS Incident, TLC

CONSTANTS
  PodNames, Containers, StableAfter, MaxRestarts, MaxClock,   \* of PodStatus
  MaxOthers,  \* of Remediation
  Keys, Worlds, MaxEvents, Degraded, MaxTurns   \* of DeepReads

VARIABLES
  part,   \* whose behaviour it is
  container, changed, removed, clock, crashed,   \* of PodStatus
  seen, scope,                                   \* of Analysis, and
  analysis, investigation, setting, attempts,    \* of Diagnosis
  outcome, diagnosis, counted,
  world, plan, role, phase, step, last, object, captured, version,
  others,                                        \* of Remediation
  route, triggered, actual, ever, turns, got     \* of DeepReads

podVars == <<container, changed, removed, clock, crashed>>
signalVars == <<seen, scope>>
toldVars == <<analysis, investigation, setting, attempts, outcome, diagnosis, counted>>

Res(kind, ns, name, owner, suffix) ==
  [kind |-> kind, ns |-> ns, name |-> name, owner |-> owner, suffix |-> suffix]
Replica(ns, name, owner) == Res("Pod", ns, name, owner, "replica")
Plain(kind, ns, name) == Res(kind, ns, name, None, "none")

Web  == Plain("Deployment", "a", "web")
Web1 == Replica("a", "web-7d-1", "web")
Web2 == Replica("a", "web-7d-2", "web")
Api1 == Replica("a", "api-5c-1", "api")
Far1 == Replica("b", "web-7d-1", "web")
Svc  == Plain("Service", "a", "svc")
Node == Plain("Node", None, "node-1")
Node2 == Plain("Node", None, "node-2")
Data1 == Plain("PersistentVolumeClaim", "a", "data-1")
Data2 == Plain("PersistentVolumeClaim", "a", "data-2")
Standard == Plain("StorageClass", None, "standard")

Replicas == {Web1, Web2}
ClaimOf == [p \in Replicas |-> IF p = Web1 THEN Data1 ELSE Data2]
HomeOf == [p \in Replicas \cup {Api1} |-> IF p = Api1 THEN Node2 ELSE Node]
AllObjects == <<Web, Node, Node2, Data1, Data2, Api1, Web1, Web2, Svc, Standard>>
(* Nothing, or one section of the evidence.                                *)
OneMissing ==
  {{}} \cup {{s} : s \in {"pods", "events", "deployments", "network", "storage",
                          "nodes", "logs", "deep"}}

(* Rows of the tables of signals, for Analysis.                            *)
Sample(weight, type, target) == [weight |-> weight, type |-> type, target |-> target]
MCRows == <<
  Sample(5, "graph.service_backends_failing", Svc),
  Sample(5, "network.no_endpoints", Svc),
  Sample(5, "pod.crash_loop", Web1),
  Sample(5, "pod.crash_loop", Web2),
  Sample(5, "pod.crash_loop", Far1),
  Sample(4, "container.killed", Web1),
  Sample(4, "container.nonzero_exit_code", Web1),
  Sample(4, "deployment.unavailable_replicas", Web),
  Sample(4, "event.backoff", Api1),
  Sample(4, "logs.error_pattern", Web1),
  Sample(4, "node.pressure", Node),
  Sample(4, "pod.pending", Web1),
  Sample(4, "pod.pending", Far1),
  Sample(3, "event.probe_failure", Web2) >>

(* A diagnosis is told of some reads of all; any read is ranked of fewer.  *)
Told == DOMAIN MCRows
Samples == Told \ {7, 10, 13}
SampleType == [s \in Told |-> MCRows[s].type]
SampleTarget == [s \in Told |-> MCRows[s].target]
SampleWeight == [s \in Told |-> MCRows[s].weight]
SampleSelected == [s \in Told |->
  IF MCRows[s].type = "graph.service_backends_failing" THEN {Web1} ELSE {}]
SampleRules == {r \in RuleTable : \E s \in Samples : SampleType[s] \in r.triggers}

Ranked == INSTANCE Analysis WITH
  Signals <- Samples, Type <- SampleType, Target <- SampleTarget,
  Weight <- SampleWeight, Selected <- SampleSelected, Rules <- SampleRules,
  EventTypes <- {"event.backoff", "event.probe_failure"}, Scopes <- {None, Web}

(* Reads a diagnosis is told of, and what the platform knows besides.      *)
MCReads ==
  {{}, {6}, {11}, {14}, {5, 11}, {3, 6}, {11, 12}, {3, 4, 8}, {3, 8, 9},
   {11, 12, 13}, {3, 6, 8, 11}, {3, 6, 7, 10, 14}}

SampleSection == [s \in Told |->
  CASE SampleType[s] \in {"pod.crash_loop", "pod.pending"} -> "pods"
    [] SampleType[s] = "deployment.unavailable_replicas" -> "deployments"
    [] SampleType[s] = "network.no_endpoints" -> "network"
    [] SampleType[s] \in {"event.backoff", "event.probe_failure"} -> "events"
    [] SampleType[s] = "node.pressure" -> "nodes"
    [] SampleType[s] = "logs.error_pattern" -> "logs"
    [] OTHER -> "none"]

Known(errors, lacks, completeness, held) ==
  [unread |-> errors, lacks |-> lacks, capped |-> errors # {}, completeness |-> completeness,
   held |-> held]
Holding(kind, of) == [kind |-> kind, of |-> of]
MCInvestigations ==
  {Known({}, {}, 100, {Holding("k8s.pod.spec", Web1), Holding("k8s.network", None)}),
   Known({}, {"logs"}, 50, {Holding("k8s.pod.spec", Web2)}),
   Known({"storage"}, {"metrics"}, 50, {})}

Set(named, keys, url) == [named |-> named, keys |-> keys, url |-> url]
UsualSetting == Set("", {"openai"}, FALSE)
MCSettings ==
  {UsualSetting, Set("", {}, FALSE), Set("", {"openai", "anthropic"}, FALSE),
   Set("", {"anthropic"}, TRUE), Set("", {}, TRUE), Set("compatible", {}, FALSE),
   Set("anthropic", {"openai"}, FALSE), Set("anthropic", {"openai", "anthropic"}, FALSE)}

Cmd(verb, sub) == [kubectl |-> verb # "edit the chart", verb |-> verb, sub |-> sub]
SampleCommands == [id \in {r.id : r \in SampleRules} |->
  {Cmd("describe", "pod"), Cmd("rollout", "history")}
    \cup IF id \in {10, 18} THEN {Cmd("rollout", "undo"), Cmd("edit the chart", "")}
          ELSE {Cmd("set", "resources")}]

Answered == INSTANCE Diagnosis WITH
  Signals <- Told, Type <- SampleType, Target <- SampleTarget,
  Weight <- SampleWeight, Selected <- SampleSelected, Rules <- SampleRules,
  EventTypes <- {"event.backoff", "event.probe_failure"}, Scopes <- {None, Web},
  Reads <- MCReads, Section <- SampleSection, Commands <- SampleCommands,
  Investigations <- MCInvestigations, Settings <- MCSettings

(* What plans are made for: each failure, of a pod under each kind of      *)
(* owner, with its spec collected, or not, or a namesake's before it.      *)
Unknown ==
  [hypothesis |-> "unknown", signal |-> "none", kind |-> "ConfigMap", owner |-> "none",
   namesake |-> "none", deep |-> <<>>, implied |-> {}, named |-> {}, limit |-> 0, before |-> 0, revisions |-> 2]

SignalsOf == [
  missing_configuration |-> {"key_missing", "reference_missing", "none"},
  pull_failure |-> {"unauthorized", "no_secret", "not_found", "none"},
  out_of_memory |-> {"none"}, failing |-> {"none"}]

OfWorkloads == UNION {
  [hypothesis : {h}, signal : SignalsOf[h], kind : {"ConfigMap", "Secret"},
   owner : {"none", "Deployment", "Rollout", "StatefulSet", "Job", "Custom"},
   namesake : {"none", "StatefulSet"}, deep : {<<>>, <<"own">>, <<"namesake", "own">>},
   implied : {{}}, named : {{}}, limit : IF h = "out_of_memory" THEN {0, 12} ELSE {0},
   before : {0}, revisions : {1, 2}] : h \in DOMAIN SignalsOf}

Limits == {
  [Unknown EXCEPT !.hypothesis = "out_of_memory", !.deep = <<"own">>, !.owner = "StatefulSet",
                  !.limit = l, !.implied = i, !.named = i \cup n] :
    l \in {0, 4, 5, 12}, i \in SUBSET {"app", "sidecar"}, n \in SUBSET {"app", "sidecar"}}

OfObjects ==
  [hypothesis : {"quota_exhausted", "no_default_storage_class", "service_without_endpoints",
                 "ingress_denied_by_policy", "stalled", "unhealthy", "unknown"},
   signal : {"none"}, kind : {"ConfigMap"}, owner : {"none"}, namesake : {"none"},
   deep : {<<>>}, implied : {{}}, named : {{}}, limit : {0}, before : {0, 1},
   revisions : {1, 2}]

(* A kind matters where it is of what is missing, a namesake where it was  *)
(* read, and the history of what has one.                                  *)
MCWorlds ==
  {w \in OfWorkloads : /\ w.kind = "Secret" => w.hypothesis = "missing_configuration"
                       /\ w.namesake # "none" => Len(w.deep) = 2
                       /\ w.revisions = 1 => w.owner \in {"Deployment", "StatefulSet"}}
    \cup Limits \cup {w \in OfObjects : w.revisions = 1 => w.hypothesis = "stalled"}

Planned == INSTANCE Remediation WITH Worlds <- MCWorlds

Pod == INSTANCE PodStatus WITH Pods <- PodNames

Targeted == INSTANCE DeepReads WITH world <- actual

(* What a pod and its namespace may be like, for each of the playbooks.    *)
Usual ==
  [refs |-> {}, secrets |-> FALSE, limited |-> TRUE, startup |-> FALSE, liveness |-> "none",
   ended |-> "not", restarted |-> FALSE, pulling |-> FALSE, events |-> <<>>,
   objects |-> [ConfigMap |-> {"a"}, Secret |-> {"a"}], account |-> "default", supplies |-> {"default"}, quotas |-> {}, classes |-> {},
   policies |-> {}, dns |-> {{TRUE}}, endpoints |-> <<TRUE>>]

Ref(kind, key) == [kind |-> kind, key |-> key, optional |-> FALSE]
Optional(kind, key) == [Ref(kind, key) EXCEPT !.optional = TRUE]
Crashes ==
  {[Usual EXCEPT !.ended = e, !.restarted = (e # "not"), !.limited = l, !.startup = s,
                 !.liveness = p] :
     e \in {"not", "done", "failed", "asked", "killed", "memory"},
     l \in BOOLEAN, s \in BOOLEAN, p \in {"soon", "late"}}
Configurations ==
  {[Usual EXCEPT !.refs = r, !.objects = o] :
     r \in {{}, {Ref("ConfigMap", None)}, {Ref("ConfigMap", "a"), Ref("Secret", "b")},
            {Ref("Secret", "a"), Ref("Secret", "b")}, {Optional("Secret", "a"), Optional("ConfigMap", None)}},
     o \in {[ConfigMap |-> c, Secret |-> t] : c \in {None, {}, {"a"}}, t \in {None, {"b"}}}}
Tight == [hard |-> [n |-> 1, unit |-> "k"], used |-> [n |-> 1, unit |-> "k"]]
Pendings ==
  {[Usual EXCEPT !.events = n, !.quotas = q] :
     n \in {<<>>, <<"short">>, <<"tainted">>, <<"unbound", "mountGone", "tainted">>}, q \in {{}, {Tight}}}
  \cup {[Usual EXCEPT !.quotas = {q}] :
     q \in {[Tight EXCEPT !.used.unit = "m"], [Tight EXCEPT !.hard.unit = "P"], [Tight EXCEPT !.hard.n = 0],
            [Tight EXCEPT !.used.unit = "P"], [Tight EXCEPT !.hard.unit = "one"]}}
Pulls ==
  {[Usual EXCEPT !.events = n, !.pulling = p] :
     n \in {<<>>, <<"imageGone">>, <<"imageDenied">>, <<"imageRefused">>, <<"pulling", "configGone">>,
            <<"accessDenied", "imageGone">>}, p \in BOOLEAN}
  \cup {[Usual EXCEPT !.pulling = p, !.secrets = s, !.account = a, !.supplies = u] :
     p \in BOOLEAN, s \in BOOLEAN, a \in {"default", "own"}, u \in SUBSET {"default", "own"}}
Denies == [name |-> "p", selects |-> "all", types |-> {"Ingress"}, ingress |-> "absent"]
Networks ==
  {[Usual EXCEPT !.policies = q, !.endpoints = IF q = {} THEN None ELSE <<TRUE, FALSE>>] :
     q \in {{}, {Denies}, {[Denies EXCEPT !.ingress = "rules"]}, {[Denies EXCEPT !.selects = "some"]},
            {[Denies EXCEPT !.types = {"Egress"}], [Denies EXCEPT !.name = "q"]}}}
  \cup {[Usual EXCEPT !.dns = d] : d \in {{}, {{}}, {{FALSE}, {TRUE}}, {{TRUE, FALSE}}}}
Provisioner(default, waits) == [default |-> default, waits |-> waits]
Storages ==
  {[Usual EXCEPT !.classes = c, !.events = n] :
     c \in SUBSET {Provisioner(TRUE, FALSE), Provisioner(FALSE, TRUE), Provisioner(FALSE, FALSE)}, n \in {<<>>}}
DeepWorlds ==
  ({"crashloop"} :> Crashes) @@ ({"configuration"} :> Configurations) @@ ({"pending"} :> Pendings)
  @@ ({"imagepull"} :> Pulls) @@ ({"dns"} :> Networks) @@ ({"network"} :> {Usual}) @@ ({"storage"} :> Storages)

ASSUME DiagnosisAssumption ==
  /\ Ranked!AnalysisAssumption /\ Planned!RemediationAssumption
  /\ Pod!PodAssumption /\ Targeted!DeepAssumption

(* Those that do not run stay in one of their initial states, in which     *)
(* there is nothing to conclude.                                           *)
MCInit ==
  /\ part \in {"signals", "answers", "incident", "pods", "plans", "deep"}
  /\ IF part = "incident" THEN TRUE ELSE unread = {"network"} /\ fault = "selector"
  /\ Init
  /\ part # "incident" => condition[Api1].status = "healthy"
  /\ IF part = "answers" THEN Answered!Analyzed
     ELSE /\ Ranked!Init
          /\ analysis = [hypotheses |-> <<>>, scoped |-> 0] /\ attempts = 0
          /\ investigation = None /\ setting = None /\ outcome = "told"
          /\ diagnosis = None /\ counted = None
  /\ part \notin {"signals", "answers"} => scope = None
  /\ part = "answers" /\ setting # UsualSetting => seen = {3, 6} /\ investigation.unread = {}
  /\ IF part = "plans" THEN TRUE ELSE world = Unknown /\ role = "all"
  /\ Planned!Init
  /\ Pod!Init
  /\ IF part = "deep" THEN TRUE ELSE triggered = {"network"} /\ route = "agent"
  /\ Targeted!Init

planVars == <<world, plan, role, phase, step, last, object, captured, version, others>>

deepVars == <<route, triggered, actual, ever, turns, got>>

OfSignals  == part = "signals" /\ Ranked!Next /\ UNCHANGED <<part, deepVars, vars, podVars, planVars, toldVars>>
OfIncident == part = "incident" /\ Next /\ UNCHANGED <<part, deepVars, signalVars, toldVars, podVars, planVars>>
OfPods     == part = "pods" /\ Pod!Next /\ UNCHANGED <<part, deepVars, vars, signalVars, toldVars, planVars>>
OfPlans    == part = "plans" /\ Planned!Next /\ UNCHANGED <<part, deepVars, vars, signalVars, toldVars, podVars>>

OfAnswers  == part = "answers" /\ Answered!Diagnose /\ UNCHANGED <<part, deepVars, vars, podVars, planVars>>

OfReads    == part = "deep" /\ Targeted!Next
              /\ UNCHANGED <<part, vars, signalVars, toldVars, podVars, planVars>>

MCNext == OfAnswers \/ OfSignals \/ OfIncident \/ OfPods \/ OfPlans \/ OfReads

MCvars == <<part, vars, signalVars, toldVars, podVars, planVars, deepVars>>

MCSpec == MCInit /\ [][MCNext]_MCvars

(* The status of a pod can be relied on.                                   *)
ReadsAgree == Pod!ReadsAgree

(* A hypothesis about a workload rests on that workload, and naming a      *)
(* resource reorders the answer and takes nothing from it.                 *)
RanksSoundly == part = "signals" => Ranked!RestsOnItsOwn /\ Ranked!ScopeOnlyOrders

(* What is told with a model is grounded, and what is told explains itself. *)
DiagnosisHolds ==
  part = "answers" => Answered!DiagnosisIsGrounded /\ Answered!DiagnosisExplainsItself

(* What is said of a pod's deep evidence was so, and what stayed so is     *)
(* said.                                                                   *)
DeepReadsHold == part = "deep" => Targeted!SaysWhatWas /\ Targeted!SaysWhatStays

(* A plan says what is so, and can be followed to its end, and back.       *)
PlanHolds ==
  part = "plans" =>
    Planned!PlanIsTrue /\ Planned!NeverStuckMidway /\ Planned!UndoRestores
=============================================================================
