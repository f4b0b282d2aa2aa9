----------------------------- MODULE DeepReads ------------------------------
(***************************************************************************)
(* What a deep investigation reads of one failing pod and of what it       *)
(* depends on, and what is said of it: the playbooks' plans                *)
(* (playbooks/kubernetes.py), the collectors they make                     *)
(* (collectors/targeted.py) and the rules over what these record           *)
(* (analysis/deep_signal_rules.py).                                        *)
(*                                                                         *)
(* The reads are made one by one while the cluster changes, any of them    *)
(* may fail, and an agent does not serve all of them.  A world is what is  *)
(* so of the pod and its namespace at one moment; an event is known by     *)
(* what caused it.  Left out: what is recorded and no rule reads (images,  *)
(* tolerations, labels), and the optional backends, Prometheus and Loki.   *)
(***************************************************************************)
EXTENDS Integers, FiniteSets, Sequences

CONSTANTS
  Keys,       \* of ConfigMaps and Secrets
  Worlds,     \* for each set of playbooks, what may be so when they are triggered
  MaxEvents,  \* of the events of an object, the first that are kept
  Degraded,   \* the statuses of a read that failed
  MaxTurns,   \* how often the world changes: a bound of the model
  None

VARIABLES
  route,      \* "kubeconfig", or "agent"
  triggered,  \* the playbooks of the first signals
  world,
  ever,       \* every world since the investigation began
  turns,      \* how often it has changed
  got         \* what each collector recorded, or each object it looked for

deepVars == <<route, triggered, world, ever, turns, got>>

Plans == [
  crashloop     |-> {"spec", "previous", "events", "references"},
  configuration |-> {"spec", "events", "references"},
  pending       |-> {"spec", "events", "quotas", "limits"},
  imagepull     |-> {"spec", "events", "references", "account"},
  network       |-> {"slices", "policies", "ingresses"},
  dns           |-> {"slices", "policies", "ingresses", "dns"},
  storage       |-> {"classes", "attachments", "events"}]
Plan == UNION {Plans[b] : b \in triggered}

Referable == {"ConfigMap", "Secret"}   \* one of each is all a pod refers to
Collectors == UNION {Plans[b] : b \in DOMAIN Plans}

----------------------------------------------------------------------------
(* What there is.                                                          *)

(* How a container last ended, and what the kubelet says of it: SIGKILL is *)
(* 137 whoever sent it.                                                    *)
Exit(reason, code) == [reason |-> reason, code |-> code]
Ending == [
  not    |-> Exit("", "none"),       done   |-> Exit("Completed", "0"),
  failed |-> Exit("Error", "1"),     asked  |-> Exit("Error", "143"),
  killed |-> Exit("Error", "137"),   memory |-> Exit("OOMKilled", "137")]

(* The reason of an event and the phrases of its message, by its cause:    *)
(* "not found" is said of images, of ConfigMaps and of volumes.            *)
Message(reason, phrases) == [reason |-> reason, phrases |-> phrases]
Wording == [
  imageGone    |-> Message("Failed", {"failed to pull", "not found"}),
  imageDenied  |-> Message("Failed", {"failed to pull", "unauthorized", "403"}),
  imageRefused |-> Message("ErrImagePull", {"authentication", "not found"}),
  configGone   |-> Message("Failed", {"not found"}),
  accessDenied |-> Message("Failed", {"403"}),
  mountGone    |-> Message("FailedMount", {"not found"}),
  pulling      |-> Message("BackOff", {"imagepullbackoff", "not found"}),
  short        |-> Message("FailedScheduling", {"insufficient", "taint"}),
  tainted      |-> Message("FailedScheduling", {"taint"}),
  unbound      |-> Message("FailedScheduling", {"unbound"})]

(* An amount, in a unit of a quantity, and what such a unit is worth;      *)
(* "P" and the larger ones are not known to the rule.                      *)
Worth == [m |-> 1, one |-> 1000, k |-> 1000000, P |-> 1000000000]
Quantity == [n : Nat, unit : DOMAIN Worth]
Amount(q) == q.n * Worth[q.unit]
_normalize(q) == IF q.unit = "P" THEN 0 ELSE Amount(q)

(* An optional reference holds up no container; the spec that is recorded  *)
(* says which are, and nothing reads it again.                             *)
Reference == [kind : Referable, key : Keys \cup {None}, optional : BOOLEAN]
Quota == [hard : Quantity, used : Quantity]
StorageClass == [default : BOOLEAN, waits : BOOLEAN]
Policy == [name : {"p", "q"}, selects : {"all", "some"}, types : SUBSET {"Ingress", "Egress"},
           ingress : {"absent", "empty", "rules"}]

Accounts == {"default", "own"}

(* account: the service account the pod runs under, its own or the default *)
(* one of the namespace; supplies: those of the two with pull secrets.     *)
(* A pod of the DNS is the readiness of its containers, none of them when  *)
(* it has not been placed; an EndpointSlice lists its endpoints, or null.  *)
World == [
  refs : SUBSET Reference, secrets : BOOLEAN, limited : BOOLEAN, startup : BOOLEAN,
  liveness : {"none", "soon", "late"},
  ended : DOMAIN Ending, restarted : BOOLEAN, pulling : BOOLEAN,
  events : Seq(DOMAIN Wording), objects : [Referable -> {None} \cup SUBSET Keys],
  account : Accounts, supplies : SUBSET Accounts, quotas : SUBSET Quota, classes : SUBSET StorageClass,
  policies : SUBSET Policy, dns : SUBSET SUBSET BOOLEAN,
  endpoints : {None} \cup Seq(BOOLEAN)]

(* What cannot be changed in a pod.                                        *)
Fixed(w) == <<w.refs, w.secrets, w.account, w.limited, w.startup, w.liveness>>

(* What is assumed of the constants.                                      *)
DeepAssumption ==
  /\ \A asks \in DOMAIN Worlds : asks \subseteq DOMAIN Plans /\ Worlds[asks] \subseteq World
  /\ Degraded \subseteq {"unavailable", "forbidden", "timeout", "failed"}
  /\ MaxEvents \in Nat /\ MaxTurns \in Nat

----------------------------------------------------------------------------
(* The collectors.  What they record of a world is EMPTY when there is     *)
(* nothing of it, which is an answer; what failed has no data.             *)

Evidence(status, data) == [status |-> status, data |-> data]
Failed(status) == Evidence(status, None)
Usable(e) == e # None /\ e.status \in {"ok", "empty"}
HasData(c) == got[c] # None /\ got[c].data # None

Probes(w) == [liveness |-> w.liveness, startup |-> w.startup]
Current(w) == IF w.pulling THEN "ImagePullBackOff" ELSE ""
PodSpec(w) ==
  [last |-> Ending[w.ended], restarts |-> w.restarted, limit |-> w.limited,
   probes |-> Probes(w), current |-> Current(w), image_pull_secrets |-> w.secrets,
   refs |-> w.refs]

KeptEvents(w) ==
  {Wording[w.events[i]] : i \in {j \in DOMAIN w.events : j <= MaxEvents}}

DeniesAllIngress(p) ==
  p.selects = "all" /\ "Ingress" \in p.types /\ p.ingress # "rules"

EndpointSlice(w) ==
  LET endpoints == IF w.endpoints = None THEN <<>> ELSE w.endpoints
  IN [address_count |-> Len(endpoints),
      ready_count |-> Cardinality({i \in DOMAIN endpoints : endpoints[i]})]

(* A pod with no container yet has none that is not ready.                 *)
DnsPods(w) == [pods |-> w.dns # {}, ready |-> \E p \in w.dns : FALSE \notin p]

(* Recorded for the reader, and no rule reads what is in it.               *)
LimitRanges == Evidence("ok", {})
VolumeAttachments == Evidence("ok", {})
Ingresses == Evidence("ok", {})

(* Whatever account the pod runs under, the default one is read.           *)
DefaultAccount(w) == "default" \in w.supplies

Listed(items) == Evidence(IF items = {} THEN "empty" ELSE "ok", items)
Record(w) == [
  spec     |-> Evidence("ok", PodSpec(w)),
  previous |-> Evidence(IF w.restarted THEN "ok" ELSE "empty", w.restarted),
  events   |-> Listed(KeptEvents(w)),
  account  |-> Evidence("ok", DefaultAccount(w)),
  quotas   |-> Listed(w.quotas),
  limits   |-> LimitRanges,
  classes  |-> Listed(w.classes),
  attachments |-> VolumeAttachments,
  slices   |-> Evidence("ok", EndpointSlice(w)),
  policies |-> Listed({p.name : p \in {q \in w.policies : DeniesAllIngress(q)}}),
  ingresses |-> Ingresses,
  dns      |-> Evidence(IF w.dns = {} THEN "empty" ELSE "ok", DnsPods(w))]

(* An object that is referred to: whether it exists, if that could be      *)
(* read, and the keys it has.                                              *)
Resolution(exists, keys) == [exists |-> exists, keys |-> keys]
Resolve(w, k) ==
  IF w.objects[k] = None THEN Resolution("no", {}) ELSE Resolution("yes", w.objects[k])
Unknown == Resolution("unread", {})

(* `describe` is kubectl's own, and the agent does not serve it.           *)
Serves(k) == route = "kubeconfig" \/ k # "Secret"

Wanted == {k \in Referable : \E r \in got["spec"].data.refs : r.kind = k}

----------------------------------------------------------------------------

Init ==
  /\ route \in {"kubeconfig", "agent"}
  /\ triggered \in DOMAIN Worlds /\ world \in Worlds[triggered]
  /\ ever = {world} /\ turns = 0
  /\ got = [c \in Collectors \cup Referable |-> None]

Turn ==
  /\ turns < MaxTurns /\ turns' = turns + 1
  /\ \E w \in Worlds[triggered] : w # world /\ Fixed(w) = Fixed(world) /\ world' = w
  /\ ever' = ever \cup {world'}
  /\ UNCHANGED <<route, triggered, got>>

Records(c, e) ==
  /\ got' = [got EXCEPT ![c] = e]
  /\ UNCHANGED <<route, triggered, world, ever, turns>>

Reads(c) ==
  /\ c \in Plan \ {"references"} /\ got[c] = None
  /\ Records(c, Record(world)[c])

(* Refused, timed out, or the collector over its budget.                   *)
Fails(c) ==
  /\ c \in Plan /\ got[c] = None
  /\ c = "references" => got["spec"] # None
  /\ \E status \in Degraded : Records(c, Failed(status))

(* The pod is gone, or was never restarted: "not found", as is said.       *)
NoPrevious ==
  /\ "previous" \in Plan /\ got["previous"] = None
  /\ Records("previous", Evidence("empty", FALSE))

(* The references wait for the spec, and without one resolve nothing.      *)
Unspecified ==
  /\ "references" \in Plan /\ got["references"] = None
  /\ got["spec"] # None /\ ~Usable(got["spec"])
  /\ Records("references", Failed("not_applicable"))

Looks(k) ==
  /\ "references" \in Plan /\ got["references"] = None /\ got[k] = None
  /\ Usable(got["spec"]) /\ k \in Wanted
  /\ \/ Serves(k) /\ Records(k, Resolve(world, k))
     \/ Records(k, Unknown)

(* What is missing of an object is asked only where it has a key at all.   *)
MissingKeys(k) ==
  {r.key : r \in {q \in got["spec"].data.refs :
     q.kind = k /\ q.key # None /\ got[k].keys # {} /\ q.key \notin got[k].keys}}
References == [k \in Wanted |-> [exists |-> got[k].exists, missing |-> MissingKeys(k)]]

Resolves ==
  /\ "references" \in Plan /\ got["references"] = None
  /\ Usable(got["spec"]) /\ \A k \in Wanted : got[k] # None
  /\ Records("references", Evidence(IF Wanted = {} THEN "empty" ELSE "ok", References))

Next ==
  \/ Turn
  \/ \E c \in Collectors : Reads(c) \/ Fails(c)
  \/ \E k \in Referable : Looks(k)
  \/ NoPrevious \/ Unspecified \/ Resolves

Spec == Init /\ [][Next]_deepVars

----------------------------------------------------------------------------
(* The rules.                                                              *)

Said(type, of) == [type |-> type, of |-> of]
SaidIf(holds, type) == IF holds THEN {Said(type, None)} ELSE {}

(* By reason, never by exit code.                                          *)
ContainerTerminationRule ==
  LET last == got["spec"].data.last
      spec == got["spec"].data
  IN IF ~HasData("spec") THEN {}
     ELSE SaidIf(last.reason = "OOMKilled", "container.oom_exit_code")
          \cup SaidIf(last.reason # "OOMKilled" /\ last.code = "137", "container.killed")
          \cup SaidIf(/\ last.reason # "OOMKilled"
                      /\ last.code \notin {"none", "0", "137", "143"}, "container.nonzero_exit_code")
          \cup SaidIf(spec.restarts /\ ~spec.limit, "container.no_memory_limit")

ProbeConfigurationRule ==
  LET spec == got["spec"].data
  IN SaidIf(HasData("spec") /\ spec.probes.liveness = "soon" /\ ~spec.probes.startup,
            "probe.aggressive")

ConfigReferenceRule ==
  LET found == got["references"].data
  IN IF ~HasData("references") THEN {}
     ELSE {Said("config.reference_missing", <<k, None>>) :
             k \in {j \in DOMAIN found : found[j].exists = "no"}}
          \cup UNION {{Said("config.key_missing", <<k, key>>) : key \in found[k].missing} :
                        k \in {j \in DOMAIN found : found[j].exists = "yes"}}

Heard == IF HasData("events") THEN got["events"].data ELSE {}

SchedulingEventRule ==
  LET unplaced == {e \in Heard : e.reason = "FailedScheduling"}
      insufficient == {e \in unplaced : "insufficient" \in e.phrases}
  IN SaidIf(insufficient # {}, "scheduling.insufficient_resources")
     \cup SaidIf(\E e \in unplaced \ insufficient : "taint" \in e.phrases,
                 "scheduling.taint_blocked")

(* Faulty: any event that says "Failed" is about an image.                 *)
AnyFailure(e) == TRUE

(* "Failed" has to prove that it is about an image.                        *)
_is_image_event(e) ==
  \/ e.reason \in {"FailedPull", "ErrImagePull"}
  \/ {"failed to pull", "imagepullbackoff"} \cap e.phrases # {}

ImagePullEventRule ==
  LET pulls == {e \in Heard : /\ e.reason \in {"Failed", "FailedPull", "ErrImagePull"}
                              /\ _is_image_event(e)}
      denied == {e \in pulls : {"unauthorized", "authentication", "403"} \cap e.phrases # {}}
  IN SaidIf(denied # {}, "image.pull_unauthorized")
     \cup SaidIf(\E e \in pulls \ denied : "not found" \in e.phrases, "image.not_found")

PULL_FAILURE_REASONS == {"ImagePullBackOff", "ErrImagePull", "InvalidImageName"}

ImagePullSecretRule ==
  LET spec == got["spec"].data
  IN SaidIf(/\ HasData("spec") /\ spec.current \in PULL_FAILURE_REASONS /\ ~spec.image_pull_secrets
            /\ ~(HasData("account") /\ got["account"].data), "image.no_pull_secret")

QuotaRule ==
  SaidIf(HasData("quotas") /\ \E q \in got["quotas"].data :
           _normalize(q.used) >= _normalize(q.hard) /\ _normalize(q.hard) > 0,
         "quota.exceeded")

StorageClassRule ==
  LET classes == got["classes"].data
  IN IF ~HasData("classes") THEN {}
     ELSE SaidIf(classes # {} /\ \A c \in classes : ~c.default, "storage.no_default_class")
          \cup SaidIf(\E c \in classes : c.waits, "storage.wait_for_consumer")

NetworkPolicyRule ==
  IF HasData("policies")
  THEN {Said("network.policy_denies_all", p) : p \in got["policies"].data} ELSE {}

DnsWorkloadRule ==
  SaidIf(HasData("dns") /\ ~(got["dns"].data.pods /\ got["dns"].data.ready),
         "dns.workload_unhealthy")

DEEP_SIGNAL_RULES ==
  ContainerTerminationRule \cup ProbeConfigurationRule \cup ConfigReferenceRule
    \cup SchedulingEventRule \cup ImagePullEventRule \cup ImagePullSecretRule
    \cup QuotaRule \cup StorageClassRule \cup NetworkPolicyRule \cup DnsWorkloadRule

----------------------------------------------------------------------------
(* What is so of a world, whoever reads it.                                *)

Happened(w, causes) == \E i \in DOMAIN w.events : w.events[i] \in causes

SoOfSpec(w) ==
  SaidIf(w.ended = "memory", "container.oom_exit_code")
    \cup SaidIf(w.ended = "killed", "container.killed")
    \cup SaidIf(w.ended = "failed", "container.nonzero_exit_code")
    \cup SaidIf(w.restarted /\ ~w.limited, "container.no_memory_limit")
    \cup SaidIf(w.liveness = "soon" /\ ~w.startup, "probe.aggressive")

(* What the pod refers to, be it optional or not. *)
SoOfReferences(w) ==
  {Said("config.reference_missing", <<r.kind, None>>) :
     r \in {q \in w.refs : w.objects[q.kind] = None}}
  \cup {Said("config.key_missing", <<r.kind, r.key>>) :
          r \in {q \in w.refs : /\ q.key # None /\ w.objects[q.kind] # None
                                /\ q.key \notin w.objects[q.kind]}}
SoOfEvents(w) ==
  SaidIf(Happened(w, {"short"}), "scheduling.insufficient_resources")
    \cup SaidIf(Happened(w, {"tainted"}), "scheduling.taint_blocked")
    \cup SaidIf(Happened(w, {"imageDenied", "imageRefused"}), "image.pull_unauthorized")
    \cup SaidIf(Happened(w, {"imageGone"}), "image.not_found")
SoOfQuotas(w) ==
  SaidIf(\E q \in w.quotas : Amount(q.used) >= Amount(q.hard) /\ Amount(q.hard) > 0,
         "quota.exceeded")
SoOfClasses(w) ==
  SaidIf(w.classes # {} /\ \A c \in w.classes : ~c.default, "storage.no_default_class")
    \cup SaidIf(\E c \in w.classes : c.waits, "storage.wait_for_consumer")
SoOfPolicies(w) ==
  {Said("network.policy_denies_all", p.name) : p \in {q \in w.policies : DeniesAllIngress(q)}}
SoOfDns(w) == SaidIf(\A p \in w.dns : p = {} \/ FALSE \in p, "dns.workload_unhealthy")

So(w) ==
  SoOfSpec(w) \cup SoOfReferences(w) \cup SoOfEvents(w) \cup SoOfQuotas(w)
    \cup SoOfClasses(w) \cup SoOfPolicies(w) \cup SoOfDns(w)

(* Of these, what the rules cannot see: a key of an object that has none,  *)
(* an event past the first, a quota in an unknown unit, and that a pod of  *)
(* the DNS which was never placed is not ready.                            *)
OfEvents == {"scheduling.insufficient_resources", "scheduling.taint_blocked",
             "image.pull_unauthorized", "image.not_found"}
Unseen(w, s) ==
  \/ s.type = "config.key_missing" /\ w.objects[s.of[1]] = {}
  \/ s.type \in OfEvents /\ Len(w.events) > MaxEvents
  \/ s.type = "quota.exceeded" /\ \E q \in w.quotas : "P" \in {q.hard.unit, q.used.unit}
  \/ s.type = "dns.workload_unhealthy" /\ {} \in w.dns

(* What a signal rests on, and whether it was read.                        *)
Source(s) ==
  CASE s.type \in OfEvents -> "events"
    [] s.type \in {"config.reference_missing", "config.key_missing"} -> "references"
    [] s.type = "quota.exceeded" -> "quotas"
    [] s.type \in {"storage.no_default_class", "storage.wait_for_consumer"} -> "classes"
    [] s.type = "network.policy_denies_all" -> "policies"
    [] s.type = "dns.workload_unhealthy" -> "dns"
    [] OTHER -> "spec"
Answered(s) ==
  /\ HasData(Source(s))
  /\ Source(s) = "references" => got[s.of[1]].exists # "unread"

(* Whatever fails, and whatever changes between the reads: what is said    *)
(* was so at some moment of the investigation.  That a read failed is not  *)
(* taken for absence, nor a code or a message for what it has in common    *)
(* with another (deep_signal_rules.py:18-22, 176-183, 255-273).  A key     *)
(* that is said to be missing is one the pod refers to, which need not be  *)
(* one it requires; and of "its service account supplies none" what holds  *)
(* is that the default one did, if it was read: README, section 4.         *)
SaysWhatWas ==
  \A s \in DEEP_SIGNAL_RULES :
    IF s.type = "image.no_pull_secret"
    THEN /\ \E w \in ever : w.pulling /\ ~w.secrets
         /\ HasData("account") => \E w \in ever : "default" \notin w.supplies
    ELSE \E w \in ever : s \in So(w)

(* What these two signals say in so many words.  Refuted: README,          *)
(* section 4.                                                              *)
MissingIsRequired ==
  \A s \in DEEP_SIGNAL_RULES : s.type = "config.key_missing" =>
    \E r \in world.refs : r.kind = s.of[1] /\ r.key = s.of[2] /\ ~r.optional
AccountIsThePods ==
  SaidIf(HasData("account"), "image.no_pull_secret") \cap DEEP_SIGNAL_RULES # {} =>
    \E w \in ever : w.account \notin w.supplies

(* And what was so at every moment is said, if its read was answered and   *)
(* it is of what the rules can see.                                        *)
SaysWhatStays ==
  \A s \in So(world) :
    (\A w \in ever : s \in So(w) /\ ~Unseen(w, s)) /\ Answered(s) => s \in DEEP_SIGNAL_RULES
=============================================================================
