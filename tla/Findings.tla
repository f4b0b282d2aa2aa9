------------------------------ MODULE Findings ------------------------------
(***************************************************************************)
(* One investigation of a cluster, from the reads of its baseline          *)
(* (collectors/kubernetes.py) through what the inspectors find in them     *)
(* (kubernetes/*_inspector.py) to the verdict: health, severity and, when  *)
(* nothing could be read, whose fault that was                             *)
(* (services/investigation_service.py, kubernetes/access.py).              *)
(*                                                                         *)
(* The reads of a wave run side by side and share nothing: they are taken  *)
(* in one order, and what stands in their way turns up to MaxTurns times,  *)
(* between two collectors or two reads of one.  Left out: the rounds the   *)
(* playbooks ask for, and the budget of the whole investigation.           *)
(***************************************************************************)
EXTENDS Reading

CONSTANTS
  Scopes,      \* what may be asked: [kind, name, ns]
  Ills,        \* bound: the sets of objects that may ail together
  Caps,        \* bound: MAX_LIST_ITEMS
  Troubles,    \* bound: what may stand in the way
  MaxTurns,    \* bound: how often that turns
  MaxPods      \* the most pods whose logs are read

VARIABLES
  inquiry,   \* the investigation, for good
  trouble,   \* what stands in the way now
  outset,    \* what did when it began
  met,       \* of each collector: what its reads met
  turns,     \* so far
  evidence,  \* what the collectors found, in the order they are taken
  entries    \* the logs of pods, as filed

vars == <<inquiry, trouble, outset, met, turns, evidence, entries>>

OfRoute(route, caller) ==
  Troubles \ IF route = "agent"
             THEN {"missing", "unconfigured"} \cup IF caller THEN {"unattributed"} ELSE {}
             ELSE {"silent", "gone", "unattributed"}

FindingsAssumption ==
  /\ Dns \in ToSet(Things)
  /\ \A o \in ToSet(Things) : DOMAIN o = {"resource", "ns", "name", "owner"}
  /\ \A ill \in Ills : ill \subseteq ToSet(Things)
  /\ MaxPods \in Nat \ {0} /\ MaxTurns \in Nat /\ Caps \subseteq Nat

Init ==
  /\ inquiry \in [route : Routes, scope : Scopes, ill : Ills, cap : Caps, caller : BOOLEAN]
  /\ trouble \in OfRoute(inquiry.route, inquiry.caller)
  /\ outset = trouble /\ turns = 0
  /\ met = <<>> /\ evidence = <<>> /\ entries = <<>>

(***************************************************************************)
(* What the inspectors make of the answers.                                *)
(***************************************************************************)

(* The answers without which an inspector has nothing to say.              *)
Needed == [pods |-> {1}, events |-> {1}, deployments |-> {1}, network |-> {1, 2},
           nodes |-> {1}, storage |-> {1}, rawNodes |-> {1}]
Unusable(answers) == {i \in DOMAIN answers : ~Usable(answers[i])}
Missing(c, answers) ==
  IF c # "workloads" THEN Needed[c] \cap Unusable(answers)
  ELSE IF Unusable(answers) = DOMAIN answers THEN {1} ELSE {}

FoundIll(q, answer) == answer.found \cap q.ill

(* A Service with nothing ready behind it; and of a whole cluster, one     *)
(* that has no DNS.                                                        *)
NetworkFindings(q, answers) ==
  {s \in answers[1].found : s \notin answers[2].found \ q.ill}
  \cup IF q.scope.ns = None /\ Dns \notin answers[1].found THEN {Dns} ELSE {}

(* Claims, and such volumes as could be read.                              *)
StorageFindings(q, answers) == FoundIll(q, answers[1]) \cup FoundIll(q, answers[2])

(* A kind of workload that could not be read is a finding.                 *)
Uninspected(resource) == [resource |-> resource, ns |-> None, name |-> None, owner |-> None]
(* Faulty: what could not be read is passed over. *)
WorkloadFindingsRead(q, answers) ==
  UNION {FoundIll(q, answers[i]) : i \in DOMAIN answers}
WorkloadFindings(q, answers) ==
  UNION {FoundIll(q, answers[i]) : i \in DOMAIN answers}
  \cup {Uninspected(Workloads[i]) : i \in Unusable(answers)}

Analysed(q, c, answers) ==
  CASE c = "network"   -> NetworkFindings(q, answers)
    [] c = "storage"   -> StorageFindings(q, answers)
    [] c = "workloads" -> WorkloadFindings(q, answers)
    [] OTHER           -> FoundIll(q, answers[1])

(***************************************************************************)
(* The evidence.                                                           *)
(***************************************************************************)

Evidence(kind, status, says, findings, answers) ==
  [kind |-> kind, status |-> status, says |-> says, findings |-> findings,
   found |-> UNION {answers[i].found : i \in DOMAIN answers},
   cut |-> \E i \in DOMAIN answers : answers[i].cut]
Degraded(kind, status, says) == Evidence(kind, status, says, {}, <<>>)

(* An error that says nothing is no error.                                 *)
StatusFor(error) ==
  IF error = None THEN Meaning({}, "ok", None) ELSE Classify(error)

Inspected(q, c, answers) ==
  IF Missing(c, answers) = {}
  THEN Evidence(c, "ok", None, Analysed(q, c, answers), answers)
  ELSE LET as == StatusFor(answers[Min(Missing(c, answers))].error)
       IN Degraded(c, as.status, as.says)

(* The objects themselves; having none of them is no failure.              *)
RawNodes(answers) ==
  IF Unusable(answers) # {}
  THEN LET as == Classify(answers[1].error) IN Degraded("rawNodes", as.status, as.says)
  ELSE Evidence("rawNodes", IF answers[1].found = {} THEN "empty" ELSE "ok", None, {}, answers)

(* Metrics that cannot be read are unavailable, whatever the reason.       *)
Usage(answers) ==
  [i \in DOMAIN answers |->
     IF answers[i].error # None
     THEN Degraded(Resources.metrics[i], "unavailable", "no metrics-server")
     ELSE Evidence(Resources.metrics[i],
                   IF answers[i].found = {} THEN "empty" ELSE "ok", None, {}, <<answers[i]>>)]

(* A collector that outlives its budget has collected nothing.             *)
OverBudget(c) ==
  [i \in 1 .. (IF c = "metrics" THEN 2 ELSE 1) |->
     Degraded(IF c = "metrics" THEN Resources.metrics[i] ELSE c, "timeout",
              Classify("overBudget").says)]

Collected(q, c, answers) ==
  IF answers = <<>> THEN OverBudget(c)
  ELSE IF c = "rawNodes" THEN <<RawNodes(answers)>>
  ELSE IF c = "metrics" THEN Usage(answers)
  ELSE <<Inspected(q, c, answers)>>

(***************************************************************************)
(* The first wave.                                                         *)
(***************************************************************************)

Taken == Len(met)

(* What may stand in the way from here on.                                 *)
Ahead ==
  {trouble} \cup IF turns < MaxTurns THEN OfRoute(inquiry.route, inquiry.caller) ELSE {}

(* The reads of the next collector.  One that waits for a place may be     *)
(* asked after the agent has gone.                                         *)
Read(c) ==
  /\ Taken < Cardinality(Wave) /\ c = Collectors[Taken + 1]
  /\ LET requests == RequestsOf(c, inquiry.scope)
     IN \E u \in Ahead, k \in 0 .. Len(requests), asked \in BOOLEAN :
          /\ u = trouble => k = Len(requests)
          /\ asked => outset # "gone"
          /\ evidence' = evidence \o
               Collected(inquiry, c, Batch(inquiry, requests, trouble, u, k, asked))
          /\ met' = Append(met, {trouble} \cup {u})
          /\ trouble' = u
          /\ turns' = IF u = trouble THEN turns ELSE turns + 1
  /\ UNCHANGED <<inquiry, outset, entries>>

(***************************************************************************)
(* The second: the logs of the pods that have a problem.                   *)
(***************************************************************************)

Of(kind) == CHOOSE e \in ToSet(evidence) : e.kind = kind
UsableStatus == {"ok", "empty"}

(* The pods whose logs are read, in the order they were listed.            *)
LogTargets ==
  LET pods == SelectSeq(Things, LAMBDA o : o \in Of("pods").findings)
  IN SubSeq(pods, 1, Min({MaxPods, Len(pods)}))

(* A record names its kind and its target; the reads that asked for both   *)
(* take theirs in turn.                                                    *)
(* Faulty: a record names its kind alone. *)
SlotOfKind(pod) == <<"logs">>
Slot(pod) == <<"logs", pod.name, pod.ns>>
File(targets, records) ==
  [i \in DOMAIN targets |->
     LET mine == SelectSeq(records, LAMBDA r : r.slot = Slot(targets[i]))
         turn == Cardinality({j \in 1 .. i : Slot(targets[j]) = Slot(targets[i])})
     IN [pod |-> targets[i],
         lines |-> IF turn > Len(mine) THEN None ELSE mine[turn].lines]]

(* The answers as they come: what each pod wrote, if it could be read.     *)
Records(targets, order, unread) ==
  [i \in DOMAIN order |->
     LET pod == targets[order[i]]
     IN [slot |-> Slot(pod), lines |-> IF order[i] \in unread THEN None ELSE pod]]

AnswersNothing == inquiry.route = "agent" /\ trouble \in Mute \cup {"gone"}
LogsAreReadable == trouble \in {"none", "namespaced", "partial"}

LogStatus ==
  IF Of("pods").status \notin UsableStatus THEN "not_applicable"
  ELSE IF LogTargets = <<>> THEN "empty"
  ELSE IF AnswersNothing THEN "timeout" ELSE "ok"

(* The agent answers in any order; a pod may have gone since it was seen.  *)
ReadLogs ==
  /\ Taken = Cardinality(Wave)
  /\ met' = Append(met, {trouble})
  /\ evidence' = Append(evidence, Degraded("logs", LogStatus,
       IF LogStatus = "timeout" THEN Classify("overBudget").says ELSE None))
  /\ IF LogStatus # "ok" THEN UNCHANGED entries
     ELSE \E order \in SetToSeqs(DOMAIN LogTargets), unread \in SUBSET DOMAIN LogTargets :
            /\ inquiry.route = "kubeconfig" => order = [i \in DOMAIN LogTargets |-> i]
            /\ ~LogsAreReadable => unread = DOMAIN LogTargets
            /\ entries' = File(LogTargets, Records(LogTargets, order, unread))
  /\ UNCHANGED <<inquiry, trouble, outset, turns>>

Next == (\E c \in Wave : Read(c)) \/ ReadLogs
Spec == Init /\ [][Next]_vars

(***************************************************************************)
(* The view of what was collected.                                         *)
(***************************************************************************)

Done == Taken = Len(Collectors)

(* The sections that failed say why, in this order; the rest say what they *)
(* found.                                                                  *)
Errors == SelectSeq(Sections, LAMBDA c : Of(c).status \notin UsableStatus)
Found(c) == Of(c).findings

ApplicableEvidence == {i \in DOMAIN evidence : evidence[i].status # "not_applicable"}
WithStatus(status) == {i \in DOMAIN evidence : evidence[i].status = status}
UsableCount == Cardinality({i \in DOMAIN evidence : evidence[i].status \in UsableStatus})

(* Whether n are enough of m attempts to say that they all failed of it:   *)
(* three, and three in five, and nothing else could be read.               *)
(* Faulty: one in five is enough. *)
DominatesFew(n, m) == UsableCount = 0 /\ n >= 1 /\ 5 * n >= m
Dominates(n, m) == UsableCount = 0 /\ n >= 3 /\ 5 * n >= 3 * m

AccessFailure ==
  Dominates(Cardinality(WithStatus("forbidden")), Cardinality(ApplicableEvidence))
AgentUnanswered ==
  /\ inquiry.route = "agent"
  /\ Dominates(Cardinality(WithStatus("timeout")), Cardinality(ApplicableEvidence))
AgentCannotReachApi ==
  /\ inquiry.route = "agent"
  /\ Dominates(Cardinality({i \in DOMAIN evidence :
                              evidence[i].says = "api server unreachable"}),
               Cardinality(ApplicableEvidence))

Signals == UNION {{<<c, f>> : f \in Found(c)} : c \in ToSet(Sections)}

Health ==
  IF AccessFailure
  THEN [status |-> "error",
        says |-> IF inquiry.caller THEN "the caller's rights" ELSE "the platform's rights"]
  ELSE IF AgentUnanswered THEN [status |-> "error", says |-> "the agent does not answer"]
  ELSE IF AgentCannotReachApi
  THEN [status |-> "error", says |-> "the agent cannot reach its API server"]
  ELSE IF Errors # <<>> THEN [status |-> "error", says |-> Of(Errors[1]).says]
  ELSE IF Signals = {} THEN [status |-> "healthy", says |-> None]
  ELSE [status |-> "issues_found", says |-> None]

(* A Deployment and its pods are one workload.                             *)
DistinctWorkloads(pods, deployments, workloads) ==
  Cardinality(deployments) + Cardinality(workloads)
  + Cardinality({p \in pods : ~ \E d \in deployments : p.owner = d.name /\ p.ns = d.ns})
AffectedWorkloads ==
  DistinctWorkloads(Found("pods"), Found("deployments"), Found("workloads"))

Severity ==
  IF AffectedWorkloads >= 3 \/ Found("network") \cup Found("nodes") # {} THEN "Critical"
  ELSE IF AffectedWorkloads > 0 \/ Found("events") \cup Found("storage") # {} THEN "High"
  ELSE IF Errors # <<>> THEN "Unknown" ELSE "Healthy"

CriticalIssues ==
  DistinctWorkloads(Found("pods"), Found("deployments"), {}) + Cardinality(Found("network"))

(* A run with nothing usable is a failed one.                              *)
CollectionFailed == UsableCount = 0

(* The nodes by which two names of one cluster are told to be one.         *)
ClusterIdentity(nodes) == IF nodes.status = "ok" THEN nodes.found ELSE {}

(***************************************************************************)
(* Properties.                                                             *)
(***************************************************************************)

InScope(o) ==
  /\ o.ns # None /\ inquiry.scope.ns # None => o.ns = inquiry.scope.ns
  /\ \A c \in DOMAIN Singular :
       Targets(inquiry.scope, c) /\ o.resource = c => o.name = inquiry.scope.name
  /\ o = Dns => inquiry.scope.ns = None
Ailing == {o \in inquiry.ill : InScope(o)}
Cut == \E i \in DOMAIN evidence : evidence[i].cut

(* Whether the object the scope names is there, where the route looks.     *)
Named(q) ==
  \A c \in DOMAIN Singular : Targets(q.scope, c) => NamedThere(q, RequestsOf(c, q.scope)[1]) # {}

(* HealthyWasLooked.  A cluster that is called healthy has nothing amiss   *)
(* in what was asked, and every section that would have said so was read,  *)
(* through every trouble that came and went.  Three things may hide what   *)
(* ails: a list that was cut, volumes that were not read, and, through an  *)
(* agent, a named object that was not there.                               *)
HealthyWasLooked ==
  Done /\ (Severity = "Healthy" \/ Health.status = "healthy") =>
    /\ Severity = "Healthy" /\ Health.status = "healthy"
    /\ CriticalIssues = 0 /\ ~CollectionFailed
    /\ \/ Ailing = {}
       \/ Cut
       \/ inquiry.route = "agent" /\ ~Named(inquiry)
       \/ \A o \in Ailing : o.resource = "pv"
    /\ inquiry.route = "kubeconfig" => Named(inquiry)

(* HealthyIsSeen.  A named pod that is not there is not called healthy.    *)
HealthyIsSeen == Done /\ Severity = "Healthy" => Named(inquiry)

(* SeverityIsEarned.  What is called critical or high has something amiss; *)
(* one Deployment with all its pods is never critical; and the counts of   *)
(* the overview do not exceed those of the severity.  But a kind of        *)
(* workload that could not be read counts as an affected workload, and a   *)
(* list that was cut may lack the endpoints or the DNS that are there.     *)
SeverityIsEarned ==
  Done /\ Severity \in {"Critical", "High"} =>
    LET unread == {w \in ToSet(Workloads) : Uninspected(w) \in Found("workloads")}
        one == {d \in inquiry.ill : /\ d.resource = "deployments"
                                    /\ \A o \in Ailing : o = d \/ o.owner = d.name}
    IN /\ Ailing # {} \/ unread # {} \/ Cut
       /\ one # {} /\ one \subseteq Found("deployments") /\ unread = {} /\ ~Cut
            => Severity = "High"
       /\ CriticalIssues <= AffectedWorkloads + Cardinality(Found("network"))
       /\ Health.status # "healthy"

(* What a run all of which met one trouble is told, and is right to be.    *)
ToldOf(route, caller) ==
  [denied  |-> IF caller THEN "the caller's rights" ELSE "the platform's rights"] @@
  IF route = "agent"
  THEN [silent |-> "the agent does not answer", slow |-> "the agent does not answer",
        dropped |-> "the agent cannot reach its API server"]
  ELSE [refused |-> "unable to connect", dropped |-> "unable to connect",
        slow |-> "timed out", missing |-> "no kubectl", unconfigured |-> "no kubeconfig"]
ToldHere == ToldOf(inquiry.route, inquiry.caller)
MetAll == UNION ToSet(met)
MostlyMet(S) ==
  2 * Cardinality({i \in 1 .. Cardinality(Wave) : met[i] \cap S # {}}) > Cardinality(Wave)

(* ToldAsItIs.  Whose fault it was is said of what really happened: rights *)
(* only where most collectors were refused, the agent only where it kept   *)
(* most of them waiting, its path only where most were cut off by it, each *)
(* only when nothing was read; and a run that met one such trouble all     *)
(* along is told just that.  A run with nothing usable has failed, is in   *)
(* error and claims no health.                                             *)
ToldAsItIs ==
  Done =>
    /\ Health.says \in {"the caller's rights", "the platform's rights"} =>
         /\ CollectionFailed /\ MostlyMet({"denied", "namespaced", "partial"})
         /\ (Health.says = "the caller's rights") <=> inquiry.caller
    /\ Health.says = "the agent does not answer" =>
         CollectionFailed /\ inquiry.route = "agent" /\ MostlyMet(Mute \cup {"gone"})
    /\ Health.says = "the agent cannot reach its API server" =>
         CollectionFailed /\ inquiry.route = "agent" /\ MostlyMet({"dropped"})
    /\ \A t \in DOMAIN ToldHere : MetAll = {t} => Health.says = ToldHere[t]
    /\ CollectionFailed => Health.status = "error" /\ Severity = "Unknown"

(* RoutesAgree.  The same cluster, asked the same by either route with the *)
(* same in the way, gives the same evidence: the same statuses, findings   *)
(* and identity.  It does not for a named object that is not there, which  *)
(* is a failure to one and nothing amiss to the other, nor for a named     *)
(* Deployment, which the platform has no kind for.                         *)
RoutesAgree ==
  met = <<>> /\ trouble \in {"none", "denied", "namespaced", "partial", "refused", "dropped"} =>
    \A c \in Wave :
      LET By(route) == LET q == [inquiry EXCEPT !.route = route]
                           requests == RequestsOf(c, q.scope)
                       IN Collected(q, c, Batch(q, requests, trouble, trouble, Len(requests), TRUE))
          Same(i) == /\ By("agent")[i].status = By("kubeconfig")[i].status
                     /\ By("agent")[i].findings = By("kubeconfig")[i].findings
                     /\ ClusterIdentity(By("agent")[i]) = ClusterIdentity(By("kubeconfig")[i])
      IN \/ \A i \in DOMAIN By("agent") : Same(i)
         \/ c = "deployments" /\ Targets(inquiry.scope, c)
         \/ /\ c = "pods" /\ Targets(inquiry.scope, c)
            /\ ~Named([inquiry EXCEPT !.route = "agent"])

(* LogsAreTheirOwn.  The lines filed under a pod are its own or none, in   *)
(* whatever order the answers came, and each pod that was to be read has   *)
(* its place.                                                              *)
LogsAreTheirOwn ==
  entries # <<>> =>
    /\ [i \in DOMAIN entries |-> entries[i].pod] = LogTargets
    /\ \A i \in DOMAIN entries : entries[i].lines \in {None, entries[i].pod}

TypeOK ==
  /\ inquiry \in [route : Routes, scope : Scopes, ill : Ills, cap : Caps, caller : BOOLEAN]
  /\ trouble \in Troubles /\ outset \in Troubles /\ turns \in 0 .. MaxTurns
  /\ met \in Seq(SUBSET Troubles) /\ Len(met) <= Len(Collectors)
=============================================================================
