------------------------------ MODULE Incident ------------------------------
(***************************************************************************)
(* What an investigation concludes of a fault, at whatever moment it       *)
(* looks.  A Deployment, its pods, the Service in front of them, their     *)
(* claims and nodes; one thing is wrong, and its symptoms come and go:     *)
(* pods loop, events are recorded and expire, a rollout stalls.  Each      *)
(* state is one moment, and what is extracted from it is a function of it: *)
(* inspectors (kubernetes/), signal rules (analysis/), the edges of the    *)
(* graph (graph/edge_rules.py) and the reads the playbooks plan            *)
(* (playbooks/kubernetes.py).  Analysis makes hypotheses of the signals.   *)
(*                                                                         *)
(* A section of the evidence may be unread, as when its read fails.  What  *)
(* an inspector says of one pod is PodStatus.                              *)
(***************************************************************************)
EXTENDS Integers, FiniteSets, Sequences, SequencesExt, HypothesisRules

CONSTANTS
  Deployment, Pods,  \* the one that fails and its pods
  Bystander,         \* a pod of another, which restarted long ago
  Service,           \* selects Pods, if its selector is right
  Claim, Class,      \* the claim of each of Pods, the class of the claims
  Home,              \* the node of each pod
  Objects,           \* all of these, in the order of their keys
  Faults,
  Unread,            \* what may be missing from the evidence
  None

VARIABLES
  fault,     \* what is wrong
  unread,    \* the sections that could not be read
  condition, \* of each pod: what PodInspector says of it, and more
  noted,     \* the events the API server has, [reason, on]
  stalled    \* the rollout has exceeded its deadline

vars == <<fault, unread, condition, noted, stalled>>

AllPods == Pods \cup {Bystander}
Nodes == {Home[p] : p \in AllPods}

----------------------------------------------------------------------------
(* The cluster.  A condition is the status PodInspector gives, whether it  *)
(* is so now, readiness, and how the container last ended.                 *)

Well == [status |-> "healthy", now |-> TRUE, ready |-> TRUE, last |-> None]
At(status) == [status |-> status, now |-> TRUE, ready |-> FALSE, last |-> None]
Ended(status, why) == [At(status) EXCEPT !.last = why]
Since(status, why) ==
  {[Ended(status, why) EXCEPT !.now = FALSE, !.ready = r] : r \in BOOLEAN}

Looping(why) ==
  {At("Error"), Ended("CrashLoopBackOff", why)}
    \cup Since("Error", why) \cup Since("CrashLoopBackOff", why)

(* The conditions the pods of a fault go through.                          *)
Course ==
  [claim     |-> {At("Pending")},
   class     |-> {At("Pending")},
   capacity  |-> {At("Pending")},
   image     |-> {At("ContainerCreating"), At("ImagePullBackOff")},
   config    |-> {At("ContainerCreating"), At("CreateContainerConfigError")},
   crash     |-> Looping("error"),
   memory    |-> {At("OOMKilled")} \cup Since("OOMKilled", "OOMKilled"),
   liveness  |-> Looping("killed"),
   readiness |-> {At("NotReady")},
   node      |-> {At("NotReady")},
   pressure  |-> {At("Evicted")},
   selector  |-> {Well}]

ASSUME IncidentAssumption == IsFiniteSet(Pods) /\ Faults \subseteq DOMAIN Course

Reasons ==
  [claim |-> {"FailedScheduling"}, class |-> {"FailedScheduling"},
   capacity |-> {"FailedScheduling"}, image |-> {"Failed", "BackOff"},
   config |-> {"Failed"}, crash |-> {"BackOff"}, memory |-> {"BackOff"},
   liveness |-> {"Unhealthy", "BackOff"}, readiness |-> {"Unhealthy"},
   node |-> {"NodeNotReady"}, pressure |-> {"Evicted"}, selector |-> {}]

BadNode == Home[CHOOSE p \in Pods : TRUE]

Affected ==
  CASE fault = "claim" -> {CHOOSE p \in Pods : TRUE}
    [] fault \in {"node", "pressure"} -> {p \in Pods : Home[p] = BadNode}
    [] OTHER -> Pods

Unbound == IF fault \in {"claim", "class"} THEN {Claim[p] : p \in Affected} ELSE {}
Backends == IF fault = "selector" THEN {} ELSE Pods

Init ==
  /\ fault \in Faults /\ unread \in Unread
  /\ \E past \in {Well} \cup Since("CrashLoopBackOff", "error") :
       /\ past.ready
       /\ condition \in {f \in [AllPods -> {Well, past} \cup Course[fault]] :
            \A p \in AllPods :
              f[p] \in (IF p \in Affected THEN Course[fault]
                        ELSE IF p = Bystander THEN {past} ELSE {Well})}
  /\ noted = {} /\ stalled = FALSE

Moves(p) ==
  /\ \E c \in Course[fault] \ {condition[p]} : condition' = [condition EXCEPT ![p] = c]
  /\ UNCHANGED <<fault, unread, noted, stalled>>

Records(p) ==
  /\ \E reason \in Reasons[fault] : noted' = noted \cup {[reason |-> reason, on |-> p]}
  /\ noted' # noted
  /\ UNCHANGED <<fault, unread, condition, stalled>>

(* After an hour.                                                          *)
Expires ==
  /\ \E e \in noted : noted' = noted \ {e}
  /\ UNCHANGED <<fault, unread, condition, stalled>>

Stalls ==
  /\ ~stalled /\ \E p \in Pods : ~condition[p].ready
  /\ stalled' = TRUE
  /\ UNCHANGED <<fault, unread, condition, noted>>

Next == (\E p \in Affected : Moves(p) \/ Records(p)) \/ Expires \/ Stalls

Spec == Init /\ [][Next]_vars

----------------------------------------------------------------------------
(* The evidence.                                                           *)

Read(section) == section \notin unread

Signal(type, target) == [type |-> type, target |-> target]
SignalIf(holds, type, target) == IF holds THEN {Signal(type, target)} ELSE {}
SignalsOn(type, targets) == {Signal(type, t) : t \in targets}

POD_STATUS_SIGNALS ==
  [CrashLoopBackOff |-> "pod.crash_loop", ImagePullBackOff |-> "pod.image_pull_failure",
   CreateContainerConfigError |-> "pod.config_error", OOMKilled |-> "pod.oom_killed",
   Pending |-> "pod.pending", Error |-> "pod.error", Evicted |-> "pod.evicted",
   ContainerCreating |-> "pod.stuck_creating", NotReady |-> "pod.not_ready"]

EVENT_REASON_SIGNALS ==
  [FailedScheduling |-> "event.scheduling_failure", Unhealthy |-> "event.probe_failure",
   BackOff |-> "event.backoff"]

(* The pods a read lists as problematic.                                   *)
Problematic == {p \in AllPods : Read("pods") /\ condition[p].status # "healthy"}
PodStatusRule ==
  {Signal(POD_STATUS_SIGNALS[condition[p].status], p) : p \in Problematic}

(* Their logs, when the application had something to say.                  *)
PodLogRule ==
  SignalsOn("logs.error_pattern",
            {p \in Problematic : Read("logs") /\ condition[p].last = "error"})

EventType(reason) ==
  IF reason \in DOMAIN EVENT_REASON_SIGNALS THEN EVENT_REASON_SIGNALS[reason]
  ELSE "event.warning"
EventRule ==
  IF Read("events") THEN {Signal(EventType(e.reason), e.on) : e \in noted} ELSE {}

DeploymentRule ==
  IF ~Read("deployments") THEN {}
  ELSE SignalIf(stalled \/ \E p \in Pods : ~condition[p].ready,
                "deployment.unavailable_replicas", Deployment)
       \cup SignalIf(stalled, "deployment.progress_stalled", Deployment)

(* A Service without a ready endpoint; one whose selector matches nothing, *)
(* when pods of its namespace were read.                                   *)
NetworkRule ==
  SignalIf(Read("network") /\ \A p \in Backends : ~condition[p].ready,
           "network.no_endpoints", Service)
ServiceSelectorRule ==
  SignalIf(Read("network") /\ Read("pods") /\ Backends = {},
           "network.selector_matches_nothing", Service)

NodeRule ==
  IF ~Read("nodes") THEN {}
  ELSE SignalIf(fault = "node", "node.not_ready", BadNode)
       \cup SignalIf(fault = "pressure", "node.pressure", BadNode)

UnboundRead == {c \in Unbound : Read("storage")}
StorageRule == SignalsOn("storage.pvc_unbound", UnboundRead)

Baseline ==
  PodStatusRule \cup PodLogRule \cup EventRule \cup DeploymentRule
    \cup NetworkRule \cup ServiceSelectorRule \cup NodeRule \cup StorageRule

----------------------------------------------------------------------------
(* The playbooks: what they trigger on, and what they have read of a pod.  *)

Playbooks ==
  {[triggers |-> {"pod.crash_loop", "event.backoff", "pod.oom_killed", "pod.error"},
    reads    |-> {"spec", "events", "config"}],
   [triggers |-> {"pod.config_error"}, reads |-> {"spec", "events", "config"}],
   [triggers |-> {"pod.pending", "event.scheduling_failure", "pod.stuck_creating"},
    reads    |-> {"spec", "events"}],
   [triggers |-> {"pod.image_pull_failure"}, reads |-> {"spec", "events", "config"}]}

Deep(what) ==
  LET asked == UNION {b.triggers : b \in {c \in Playbooks : what \in c.reads}}
      named == {s.target : s \in {b \in Baseline : b.type \in asked}}
  IN IF Read("deep") THEN AllPods \cap named ELSE {}

(* How the container ended: by reason, never by exit code.                 *)
ContainerTerminationRule ==
  LET last(why) == {p \in Deep("spec") : condition[p].last = why}
  IN SignalsOn("container.oom_exit_code", last("OOMKilled"))
       \cup SignalsOn("container.killed", last("killed"))
       \cup SignalsOn("container.nonzero_exit_code", last("error"))
       \cup SignalsOn("container.no_memory_limit", last("killed") \cup last("error"))

ConfigReferenceRule ==
  SignalsOn("config.reference_missing",
            {p \in Deep("config") \cap Affected : fault = "config"})

ImagePullEventRule ==
  SignalsOn("image.not_found",
            {p \in Deep("events") \cap Affected :
               fault = "image" /\ [reason |-> "Failed", on |-> p] \in noted})

ImagePullSecretRule ==
  SignalsOn("image.no_pull_secret",
            {p \in Deep("spec") : condition[p].status = "ImagePullBackOff"})

DeepRules ==
  ContainerTerminationRule \cup ConfigReferenceRule
    \cup ImagePullEventRule \cup ImagePullSecretRule

----------------------------------------------------------------------------
(* Rules that walk the graph.                                              *)

(* Faulty: what only the restart history says counts as failing.           *)
ListedAtAll == Problematic

(* Pods the kubelet reports failing now.                                   *)
FailingNow == {p \in Problematic : condition[p].now}

(* Only pods that were given a node are on one.                            *)
On(n) == {p \in AllPods : /\ Read("pods") /\ Home[p] = n
                          /\ condition[p].status # "Pending"}

PodBlockedByStorage ==
  SignalsOn("graph.pod_blocked_by_storage",
            {p \in Problematic \cap Deep("spec") \cap Pods :
               /\ condition[p].status \in {"Pending", "ContainerCreating"}
               /\ Claim[p] \in UnboundRead})

StorageClassBlockingWorkloads ==
  SignalIf(Cardinality(UnboundRead) >= 2, "graph.storage_class_blocking", Class)

NodeCarryingFailures ==
  SignalsOn("graph.node_carrying_failures",
            {n \in Nodes : /\ Cardinality(On(n) \cap FailingNow) >= 2
                           /\ \E m \in Nodes \ {n} : On(m) # {}})

ServiceSelectingOnlyBrokenPods ==
  SignalIf(Read("network") /\ Backends # {} /\ Backends \subseteq FailingNow,
           "graph.service_backends_failing", Service)

GraphRules ==
  PodBlockedByStorage \cup StorageClassBlockingWorkloads
    \cup NodeCarryingFailures \cup ServiceSelectingOnlyBrokenPods

Extracted == Baseline \cup DeepRules \cup GraphRules

----------------------------------------------------------------------------
(* The signals in the order of the engine: severity, type, target.         *)

Ordered(weight, types) == [i \in DOMAIN types |-> [type |-> types[i], weight |-> weight]]
Severities ==
  Ordered(5, <<"config.reference_missing", "container.oom_exit_code",
    "graph.pod_blocked_by_storage", "graph.service_backends_failing",
    "graph.storage_class_blocking", "image.not_found", "network.no_endpoints",
    "network.selector_matches_nothing", "node.not_ready", "pod.config_error",
    "pod.crash_loop", "pod.image_pull_failure", "pod.oom_killed">>)
  \o Ordered(4, <<"container.killed", "container.nonzero_exit_code",
    "deployment.progress_stalled", "deployment.unavailable_replicas",
    "event.backoff", "event.scheduling_failure", "graph.node_carrying_failures",
    "image.no_pull_secret", "logs.error_pattern", "node.pressure", "pod.error",
    "pod.evicted", "pod.pending", "storage.pvc_unbound">>)
  \o Ordered(3, <<"container.no_memory_limit", "event.probe_failure",
    "pod.not_ready", "pod.stuck_creating">>)
  \o Ordered(2, <<"event.warning">>)

Row(n) == Severities[1 + (n - 1) \div Len(Objects)]
Numbers == 1..(Len(Severities) * Len(Objects))
TypeOf == [n \in Numbers |-> Row(n).type]
WeightOf == [n \in Numbers |-> Row(n).weight]
TargetOf == [n \in Numbers |-> Objects[1 + ((n - 1) % Len(Objects))]]
SelectedOf == [n \in Numbers |->
                 IF Row(n).type = "graph.service_backends_failing" THEN Pods ELSE {}]

Shown == LET found == Extracted
         IN {n \in Numbers : Signal(TypeOf[n], TargetOf[n]) \in found}

A == INSTANCE Analysis WITH
  Signals <- Numbers, Type <- TypeOf, Target <- TargetOf, Weight <- WeightOf,
  Selected <- SelectedOf, Rules <- RuleTable, Scopes <- {None},
  EventTypes <- {"event.backoff", "event.scheduling_failure",
                 "event.probe_failure", "event.warning"},
  seen <- Shown, scope <- None

----------------------------------------------------------------------------
(* What the graph joins is so: a claim it says blocks a pod is unbound, a  *)
(* class has two such, a node carries two pods that are not Ready, no      *)
(* backend of a failing Service is Ready, and a Service that selects       *)
(* nothing does - whichever section is missing, and whatever the restart   *)
(* history of a pod says (graph_signal_rules.py, signal_rules.py:489-550). *)
Down(n) == {p \in AllPods : Home[p] = n /\ ~condition[p].ready}
SaysWhatIs ==
  \A s \in GraphRules \cup ServiceSelectorRule :
    /\ s.type = "graph.pod_blocked_by_storage" => Claim[s.target] \in Unbound
    /\ s.type = "graph.storage_class_blocking" => Cardinality(Unbound) >= 2
    /\ s.type = "graph.node_carrying_failures" => Cardinality(Down(s.target)) >= 2
    /\ s.type = "graph.service_backends_failing" =>
         Backends # {} /\ \A p \in Backends : ~condition[p].ready
    /\ s.type = "network.selector_matches_nothing" => Backends = {}

(* Hypotheses "outrank their single-section equivalents on purpose"        *)
(* (hypothesis_rules.py:711-718): one that joins sections is never behind  *)
(* one of what it joins, whichever section is missing.  Not so of a node   *)
(* whose section is missing.                                               *)
Joins ==
  {<<ClassBlockingWorkloads, ClaimBlockingPod>>, <<ClassBlockingWorkloads, Unschedulable>>,
   <<ClassBlockingWorkloads, VolumeUnavailable>>, <<ClaimBlockingPod, Unschedulable>>,
   <<ClaimBlockingPod, VolumeUnavailable>>, <<BackendsAllFailing, ServiceWithoutEndpoints>>}
    \cup (IF Read("nodes") THEN {<<NodeHostingFailures, NodeUnhealthy>>} ELSE {})
JoinsLead ==
  \E S \in {Shown} : \E R \in {A!Analyze(S)} :
    \A i, j \in DOMAIN R : \A pair \in Joins :
      R[i].id = pair[1].id /\ R[j].id = pair[2].id => i < j

(* The hypothesis that names what is wrong, and the sections it cannot be  *)
(* made without.                                                           *)
Names ==
  [claim |-> ClaimBlockingPod, class |-> ClassBlockingWorkloads,
   capacity |-> Unschedulable, image |-> ImagePullFailure,
   config |-> MissingConfiguration, crash |-> ApplicationStartupFailure,
   memory |-> OutOfMemory, liveness |-> ProbeFailing, readiness |-> ProbeFailing,
   node |-> NodeUnhealthy, pressure |-> NodeUnhealthy,
   selector |-> ServiceWithoutEndpoints]
Needs ==
  [claim |-> {"pods", "deep", "storage"}, class |-> {"storage"}, node |-> {"nodes"},
   selector |-> {"network"}, liveness |-> {"events"}, pressure |-> {}]
SectionsFor == IF fault \in DOMAIN Needs THEN Needs[fault] ELSE {"pods"}

(* It has shown itself: by a status, or by the event of a failing probe.   *)
Telling == [image |-> "ImagePullBackOff", config |-> "CreateContainerConfigError",
            crash |-> "CrashLoopBackOff"]
Shows ==
  /\ fault \in DOMAIN Telling => \E p \in Affected : condition[p].status = Telling[fault]
  /\ fault = "liveness" => \E e \in noted : e.reason = "Unhealthy"

(* One read that fails costs the conclusions that rest on it and no other: *)
(* what is wrong is named, and nothing read argues against it, at every    *)
(* moment of its course and whatever other section is missing.             *)
CauseIsNamed ==
  Shows /\ SectionsFor \cap unread = {} =>
    \E S \in {Shown} : \E H \in {A!Hypotheses(S)} :
      \E h \in H : h.id = Names[fault].id /\ h.against = {}
=============================================================================
