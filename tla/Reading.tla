------------------------------- MODULE Reading -------------------------------
(***************************************************************************)
(* What a read of a cluster brings back, by either route: kubectl and a    *)
(* kubeconfig (providers/local_kubectl.py) or the agent inside the cluster *)
(* (providers/remote_agent.py, the collectors and the policy of the Go     *)
(* agent), and what is made of an error (kubernetes/errors.py).            *)
(*                                                                         *)
(* An inquiry q is one investigation of one cluster: its route and scope,  *)
(* whether it reads as its caller, the cap on a list, and what ails there. *)
(* What stands between it and the cluster is a trouble, which may change   *)
(* while it reads.  An error is known by the phrases in it that are looked *)
(* for.  Left out: selectors, options, the text of commands.               *)
(***************************************************************************)
EXTENDS Naturals, Sequences, FiniteSets, SequencesExt

CONSTANTS
  Things,   \* the objects of the cluster, in the order they are listed
  Dns,      \* the one of them that is the Service of the cluster's DNS
  Default,  \* the namespace kubectl takes when told none
  None

Routes == {"kubeconfig", "agent"}
Collectors == <<"pods", "events", "deployments", "network", "nodes", "storage",
                "workloads", "rawNodes", "metrics", "logs">>
Sections == SubSeq(Collectors, 1, 7)
Wave == {Collectors[i] : i \in 1 .. 9}   \* all but the logs

(* What each collector reads, in the order its inspector expects it.       *)
Workloads == <<"statefulsets", "daemonsets", "jobs", "cronjobs">>
Resources == [
  pods |-> <<"pods">>, events |-> <<"events">>, deployments |-> <<"deployments">>,
  network |-> <<"services", "endpoints">>, nodes |-> <<"nodes">>,
  storage |-> <<"pvc", "pv">>, workloads |-> Workloads, rawNodes |-> <<"nodes">>,
  metrics |-> <<"top nodes", "top pods">>]

ClusterScoped == {"nodes", "pv", "top nodes", "top pods"}
Top == {"top nodes", "top pods"}

(* A scope that names an object narrows the collector of its kind to it.   *)
Singular == [pods |-> "pod", deployments |-> "deployment"]
Targets(s, c) ==
  /\ s.name # None
  /\ c \in DOMAIN Singular /\ s.kind = Singular[c]

RequestsOf(c, s) ==
  [i \in DOMAIN Resources[c] |->
     [plural   |-> Resources[c][i],
      resource |-> IF Targets(s, c) THEN s.kind ELSE Resources[c][i],
      name     |-> IF Targets(s, c) THEN s.name ELSE None,
      ns       |-> IF Resources[c][i] \in ClusterScoped THEN None ELSE s.ns]]

(***************************************************************************)
(* The wording of errors, and what they are taken for.                     *)
(***************************************************************************)

Wording == [
  missing      |-> {"not found on path"},
  slow         |-> {"timed out"},
  refused      |-> {"connection refused", "dial tcp"},
  lost         |-> {"unable to connect", "dial tcp", "i/o timeout"},
  dropped      |-> {"dial tcp", "i/o timeout"},
  denied       |-> {"forbidden"},
  unconfigured |-> {"no such file"},
  notFound     |-> {},
  notServed    |-> {},
  disconnected |-> {},
  unattributed |-> {},
  unknownKind  |-> {},
  overBudget   |-> {}]

Meaning(needles, status, says) == [needles |-> needles, status |-> status, says |-> says]
FriendlyMessages == <<
  Meaning({"not found on path"}, "unavailable", "no kubectl"),
  Meaning({"timed out"}, "timeout", "timed out"),
  Meaning({"connection refused", "unable to connect"}, "unavailable", "unable to connect"),
  Meaning({"forbidden", "unauthorized"}, "forbidden", "credentials"),
  Meaning({"no such file", "kubeconfig"}, "unavailable", "no kubeconfig") >>
NetworkNeedles == {"i/o timeout", "dial tcp", "no route to host"}

(* The first row that fits, then the network, then nothing known.          *)
Classify(error) ==
  LET row == SelectInSeq(FriendlyMessages,
                         LAMBDA m : m.needles \cap Wording[error] # {})
  IN IF row # 0 THEN FriendlyMessages[row]
     ELSE IF NetworkNeedles \cap Wording[error] # {}
          THEN Meaning(NetworkNeedles, "unavailable", "api server unreachable")
          ELSE Meaning({}, "failed", "verify kubeconfig")

(***************************************************************************)
(* What the API server answers to a read that reaches it.                  *)
(***************************************************************************)

(* An answer: its error, whether it holds a document, the objects in it,   *)
(* and whether the cap cut it.                                             *)
Answer(found, cut) == [error |-> None, data |-> TRUE, found |-> found, cut |-> cut]
Failure(error) == [error |-> error, data |-> FALSE, found |-> {}, cut |-> FALSE]
Nothing == [error |-> None, data |-> FALSE, found |-> {}, cut |-> FALSE]

Usable(answer) == answer.error = None /\ answer.data

(* A DNS that ails is not there.  The endpoints of a Service are listed by *)
(* its name.                                                               *)
Listed(q, r) ==
  SelectSeq(Things, LAMBDA o :
    /\ o.resource = IF r.plural = "endpoints" THEN "services" ELSE r.plural
    /\ r.ns = None \/ o.ns = r.ns
    /\ o = Dns => o \notin q.ill)

(* The first objects of a list, at most q.cap of them; 0 is no cap.        *)
Capped(q, list) ==
  IF q.cap > 0 /\ Len(list) > q.cap
  THEN Answer({list[i] : i \in 1 .. q.cap}, TRUE)
  ELSE Answer(ToSet(list), FALSE)

(* What has the name, in the namespace the route asks.                     *)
NamedThere(q, r) ==
  {o \in ToSet(Listed(q, [r EXCEPT !.ns = None])) :
     o.name = r.name /\ o.ns = IF q.route = "agent" \/ r.ns # None THEN r.ns
                                                                  ELSE Default}

(* A role that stops at the namespace is refused what is above it.         *)
Refuses(t, r) ==
  \/ t = "denied"
  \/ t = "namespaced" /\ r.plural \in ClusterScoped
  \/ t = "partial" /\ r.plural \in {"statefulsets", "daemonsets", "jobs", "pv"}

(***************************************************************************)
(* Through a kubeconfig: every read runs kubectl, on its own.              *)
(***************************************************************************)

(* What kubectl comes to before the API server answers.                    *)
KubectlFails == [missing |-> "missing", unconfigured |-> "unconfigured",
                 slow |-> "slow", refused |-> "refused", dropped |-> "lost"]

Run(q, r, t) ==
  IF t \in DOMAIN KubectlFails THEN Failure(KubectlFails[t])
  ELSE IF Refuses(t, r) THEN Failure("denied")
  ELSE IF r.resource \in Top THEN Failure("notServed")
  ELSE IF r.name = None THEN Capped(q, Listed(q, r))
  ELSE IF NamedThere(q, r) = {} THEN Failure("notFound")
  ELSE Answer(NamedThere(q, r), FALSE)

(***************************************************************************)
(* Through the agent: a kind of evidence for each read, or none.           *)
(***************************************************************************)

Kinds == [
  r \in {"pods", "events", "deployments", "nodes", "services", "endpoints", "pvc",
         "pv", "statefulsets", "daemonsets", "jobs", "cronjobs"} \cup Top |-> r]
  @@ [pod |-> "pods"]

KindFor(r) == IF r.resource \in DOMAIN Kinds THEN Kinds[r.resource] ELSE None

(* What the agent's read comes to before the API server answers.           *)
AgentFails == [refused |-> "refused", dropped |-> "dropped"]

(* The record the agent sends: a named object that is not there is a       *)
(* read of nothing, an API that is not there is a failure.                 *)
Collect(q, r, t) ==
  IF t = "unattributed" THEN Failure("unattributed")
  ELSE IF t \in DOMAIN AgentFails THEN Failure(AgentFails[t])
  ELSE IF Refuses(t, r) THEN Failure("denied")
  ELSE IF r.resource \in Top THEN Failure("notServed")
  ELSE IF r.name = None THEN Capped(q, Listed(q, r))
  ELSE IF NamedThere(q, r) = {} THEN Nothing
  ELSE Answer(NamedThere(q, r), FALSE)

(* An agent that is frozen, or whose API server never answers, keeps the   *)
(* reads waiting; one that has gone answers none that is asked later.      *)
Mute == {"silent", "slow"}

(***************************************************************************)
(* The reads of a collector: the first k meet the trouble t, the others u. *)
(***************************************************************************)

LocalBatch(q, requests, t, u, k) ==
  [i \in DOMAIN requests |-> Run(q, requests[i], IF i <= k THEN t ELSE u)]

(* One round trip.  What the platform has no kind for is not asked.  What  *)
(* the agent had sent before it went is kept; waiting, which is bounded by *)
(* the collector's own budget, keeps nothing.                              *)
AgentBatch(q, requests, t, u, k, asked) ==
  IF \/ t \in Mute
     \/ t = "gone" /\ ~asked
     \/ k < Len(requests) /\ u \in Mute
  THEN <<>>
  ELSE [i \in DOMAIN requests |->
          LET met == IF i <= k THEN t ELSE u
          IN IF KindFor(requests[i]) = None THEN Failure("unknownKind")
             ELSE IF met = "gone" THEN Failure("disconnected")
             ELSE Collect(q, requests[i], met)]

Batch(q, requests, t, u, k, asked) ==
  IF q.route = "agent" THEN AgentBatch(q, requests, t, u, k, asked)
                       ELSE LocalBatch(q, requests, t, u, k)
=============================================================================
