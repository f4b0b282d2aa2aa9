------------------------------ MODULE Analysis ------------------------------
(***************************************************************************)
(* How signals become ranked hypotheses: SignalPatternRule.evaluate and    *)
(* rank (analysis/hypothesis_rules.py) and AnalysisEngine.analyze          *)
(* (analysis/engine.py).  Between two reads of a cluster signals appear    *)
(* and go; each state of this module is the signals of one read, and the   *)
(* analysis is a function of them.                                         *)
(*                                                                         *)
(* A signal is a number: the engine sorts by falling severity, then by id, *)
(* and the numbers are that order.  What a rule says of a type, a resource *)
(* of its name (the controller a pod's name ends in a replica's or an      *)
(* ordinal's suffix of) is given as data.  How signals are extracted from  *)
(* the evidence is not modelled.                                           *)
(***************************************************************************)
EXTENDS Integers, FiniteSets, FiniteSetsExt, Sequences

CONSTANTS
  Signals,       \* the signals a cluster may show, numbered in sort order
  Type, Target,  \* of each signal
  Weight,        \* its severity, 1 .. 5
  Selected,      \* the pods a Service's signal lists
  EventTypes,    \* the types that begin with "event."
  Rules,         \* [id, triggers, supporting, refuting, base]; ids in order
  Scopes,        \* the resources an investigation may name, or None
  None

(* What is assumed of them.  A resource has a kind, a namespace, or none,  *)
(* a name and, a pod, the controller and the suffix its name shows.        *)
AnalysisAssumption ==
  /\ Signals \subseteq Nat /\ IsFiniteSet(Signals)
  /\ \A s, u \in Signals :
       /\ s < u => Weight[s] >= Weight[u]
       /\ Type[s] = Type[u] /\ Target[s] = Target[u] => s = u
  /\ \A r, q \in Rules : r.id = q.id => r = q
  /\ \A r \in Rules : r.triggers \cap (r.supporting \cup r.refuting) = {}

VARIABLES
  seen,   \* the signals of the latest read
  scope   \* the resource the investigation is about, or None

vars == <<seen, scope>>

SupportBonus == 10
RefutePenalty == 20
UncorroboratedPenalty == 15
MinConfidence == 5
MaxConfidence == 92

----------------------------------------------------------------------------
(* Resources.                                                              *)

(* Sorted by severity, the first is the most severe.                       *)
First(T) == Min(T)

Workloads == {"Pod", "Deployment"}

Kind(s) == Target[s].kind
Namespace(s) == Target[s].ns

(* A pod named <deployment>-<hash>-<id>.                                   *)
OwnedBy(pod, deployment) ==
  /\ pod.kind = "Pod" /\ deployment.kind = "Deployment"
  /\ pod.suffix = "replica" /\ pod.owner = deployment.name
  /\ pod.ns = deployment.ns

(* The workload a resource belongs to: a controller and its pods are one.  *)
Instance(t) ==
  IF t.kind \in {"Deployment", "StatefulSet"} THEN <<"workload", t.ns, t.name>>
  ELSE IF t.kind = "Pod" /\ t.suffix # "none" THEN <<"workload", t.ns, t.owner>>
  ELSE <<t.kind, t.ns, t.name>>

(* What supports a hypothesis: signals of a supporting type about the    *)
(* resources of its triggers T.                                            *)
WorkloadsOnly(T) == \A s \in T : Kind(s) \in Workloads
Services(T) == {Target[s] : s \in {u \in T : Kind(u) = "Service"}}
ServicesOnly(T) == Services(T) # {} /\ Cardinality(Services(T)) = Cardinality(T)

(* An event speaks of its own object; a namespaced object reaches no other *)
(* namespace.                                                              *)
InReach(x, T) ==
  /\ WorkloadsOnly(T) /\ Type[x] \in EventTypes => Kind(x) \in Workloads
  /\ \/ WorkloadsOnly(T) \/ Namespace(x) = None
     \/ \E s \in T : Namespace(s) \in {None, Namespace(x)}

SelectedBy(x, T) ==
  \E s \in T : \E p \in Selected[s] :
    /\ Namespace(s) = Namespace(x)
    /\ \/ Target[x].name = p.name
       \/ /\ Kind(x) = "Deployment"
          /\ p.suffix = "replica" /\ p.owner = Target[x].name

(* A Service and what it selects.                                          *)
AboutServices(x, T) ==
  IF Kind(x) = "Service" THEN Target[x] \in Services(T)
  ELSE /\ \E s \in T : Namespace(s) = Namespace(x)
       /\ (\E s \in T : Selected[s] # {}) => SelectedBy(x, T)

SelectsNothing(T, S) ==
  /\ Services(T) # {}
  /\ \A t \in Services(T) : \E s \in S :
       Type[s] = "network.selector_matches_nothing" /\ Target[s] = t

(* A triggered resource, the owner of a triggered pod, or a pod of a       *)
(* triggered Deployment.                                                   *)
SameWorkload(x, T) ==
  \E s \in T : \/ Target[x] = Target[s]
               \/ OwnedBy(Target[s], Target[x])
               \/ OwnedBy(Target[x], Target[s])

About(x, T, S) ==
  /\ InReach(x, T)
  /\ ServicesOnly(T) /\ Kind(x) \in Workloads \cup {"Service"} => AboutServices(x, T)
  /\ Kind(x) \in Workloads /\ ~(ServicesOnly(T) /\ \E s \in T : Selected[s] # {}) =>
       /\ ~SelectsNothing(T, S)
       /\ WorkloadsOnly(T) => SameWorkload(x, T)
----------------------------------------------------------------------------
(* Scoring one workload: what triggers, what supports, what refutes.       *)

Types(T) == {Type[s] : s \in T}

(* Refuting signals are about a triggered resource.                        *)
Refuting(r, T, S) ==
  {s \in S : Type[s] \in r.refuting /\ \E t \in T : Target[t] = Target[s]}

Refuted(r, t, S) == Refuting(r, {t}, S) # {}

AllRefuted(r, T, S) == \A t \in T : Refuted(r, t, S)

(* What one workload says for and against a rule.  While a triggered       *)
(* resource has nothing against it, the workload rests on such.            *)
Standing(r, T, S) == {t \in T : Refuted(r, t, S) => AllRefuted(r, T, S)}
Case(r, T, S) ==
  [id      |-> r.id,
   base    |-> r.base,
   first   |-> First(T),
   on      |-> Standing(r, T, S),
   support |-> {x \in S : /\ Type[x] \in r.supporting
                          /\ About(x, Standing(r, T, S), S)},
   against |-> {s \in Refuting(r, T, S) : AllRefuted(r, T, S)}]

Confidence(c) ==
  LET alone == Cardinality(c.on) = 1 /\ c.support = {}
      sum   == c.base + SupportBonus * Cardinality(Types(c.support))
                      - RefutePenalty * Cardinality(Types(c.against))
                      - (IF alone THEN UncorroboratedPenalty ELSE 0)
  IN Max({MinConfidence, Min({sum, MaxConfidence})})

(* The resource it names is the one with the most severe trigger.          *)
Scored(c) ==
  [id         |-> c.id,
   first      |-> c.first,
   target     |-> Target[First(c.on)],
   severity   |-> Weight[First(c.on)],
   confidence |-> Confidence(c),
   for        |-> c.on \cup c.support,
   against    |-> c.against]

----------------------------------------------------------------------------
(* A rule is scored on each workload its triggers fired on, alone, and the *)
(* best of them is the hypothesis. *)

Triggering(r, S) == {s \in S : Type[s] \in r.triggers}

(* Faulty: the triggers of all workloads are one pool.                     *)
GroupsPooled(r, S) == {Triggering(r, S)} \ {{}}

Groups(r, S) ==
  {{u \in Triggering(r, S) : Instance(Target[u]) = Instance(Target[s])} :
     s \in Triggering(r, S)}

(* The lexicographic order of two sequences of numbers of one length.      *)
Exceeds(a, b) ==
  \E i \in DOMAIN a : a[i] > b[i] /\ \A j \in 1..(i - 1) : a[j] = b[j]

Unopposed(h) == IF h.against = {} THEN 1 ELSE 0
Strength(h) == <<Unopposed(h), h.confidence, h.severity, Cardinality(h.for)>>

(* Of two that are as strong, the workload that was met first.             *)
Better(h, k) ==
  \/ Exceeds(Strength(h), Strength(k))
  \/ Strength(h) = Strength(k) /\ h.first < k.first

Cases(r, S) == {Case(r, T, S) : T \in Groups(r, S)}
Evaluate(r, S) ==
  LET scored == {Scored(c) : c \in Cases(r, S)}
  IN CHOOSE h \in scored : \A k \in scored \ {h} : Better(h, k)

Fires(r, S) == Triggering(r, S) # {}
Hypotheses(S) == {Evaluate(r, S) : r \in {q \in Rules : Fires(q, S)}}

(* rank: what nothing argues against first, then confidence, severity,     *)
(* breadth, and id.                                                        *)
RankKey(h) == Strength(h) \o <<h.id>>
Ahead(h, H) == Cardinality({k \in H : Exceeds(RankKey(k), RankKey(h))})
Rank(H) == [i \in 1..Cardinality(H) |-> CHOOSE h \in H : Ahead(h, H) = i - 1]

----------------------------------------------------------------------------
(* The engine. *)

(* The resource the investigation names, or a pod named after it.          *)
InScope(t) ==
  \/ t.kind = scope.kind /\ t.name = scope.name
  \/ /\ scope.kind = "Deployment" /\ t.kind = "Pod"
     /\ t.suffix = "replica" /\ t.owner = scope.name

Ids(H) == {h.id : h \in H}

(* Hypotheses built from the resource's own signals lead, the rest follow. *)
ScopedAnalysis(S) ==
  LET own  == Hypotheses({s \in S : InScope(Target[s])})
      rest == {h \in Hypotheses(S) : h.id \notin Ids(own)}
  IN Rank(own) \o Rank(rest)

Analyze(S) == IF scope = None THEN Rank(Hypotheses(S)) ELSE ScopedAnalysis(S)

----------------------------------------------------------------------------
(* Reads of the cluster: each differs from the last in one signal.         *)

Init == seen = {} /\ scope \in Scopes

Appears(x) == x \notin seen /\ seen' = seen \cup {x} /\ UNCHANGED scope
Vanishes(x) == x \in seen /\ seen' = seen \ {x} /\ UNCHANGED scope

Next == \E x \in Signals : Appears(x) \/ Vanishes(x)

Spec == Init /\ [][Next]_vars

----------------------------------------------------------------------------
(* Confidence stays in its bounds, a hypothesis has a trigger, and nothing *)
(* is both for and against it.                                             *)
TypeOK ==
  /\ seen \subseteq Signals /\ scope \in Scopes
  /\ \A h \in Hypotheses(seen) :
       /\ h.confidence \in MinConfidence..MaxConfidence /\ h.severity \in 1..5
       /\ h.for # {} /\ h.for \cup h.against \subseteq seen
       /\ h.for \cap h.against = {}

(* A hypothesis about a workload is supported by no pod and no Deployment  *)
(* of another: not the best one only, every workload that is scored        *)
(* (hypothesis_rules.py:69-79, 249-273).                                   *)
OwnPodsOnly ==
  \A r \in Rules : \A c \in Cases(r, seen) :
    WorkloadsOnly(c.on) =>
      \A x \in c.support, t \in c.on :
        Kind(x) \in Workloads => Instance(Target[x]) = Instance(Target[t])

(* Pooling never comes back: the hypothesis a rule makes of a workload is  *)
(* the one it makes of a read in which every other workload's pods and     *)
(* Deployments are absent.                                                 *)
Alone(h) ==
  {s \in seen : \/ Kind(s) \notin Workloads
                \/ Instance(Target[s]) = Instance(h.target)}
ScoredAlone ==
  \A r \in Rules : Fires(r, seen) =>
    LET h == Evaluate(r, seen)
    IN h.target.kind \in Workloads => Evaluate(r, Alone(h)) = h

(* Only where every resource a rule fired on is argued against does its    *)
(* hypothesis carry the argument: a refuted pod refutes neither a sibling  *)
(* nor another workload.                                                   *)
RefutedOnlyIfAllAre ==
  \A r \in Rules : Fires(r, seen) =>
    (Evaluate(r, seen).against # {} <=>
       \A t \in Triggering(r, seen) : \E s \in seen :
         Type[s] \in r.refuting /\ Target[s] = Target[t])

(* A hypothesis about a workload rests on that workload, and what argues   *)
(* against one pod argues against that pod.                                *)
RestsOnItsOwn == TypeOK /\ OwnPodsOnly /\ ScoredAlone /\ RefutedOnlyIfAllAre

(* Naming a resource reorders the answer and takes nothing from it: every  *)
(* rule that fires is there once, and the first is about the resource if   *)
(* one of its signals triggers any rule (engine.py:51-60, 116-118).        *)
ScopeOnlyOrders ==
  \E report \in {Analyze(seen)} :
    /\ {report[i].id : i \in DOMAIN report} = Ids(Hypotheses(seen))
    /\ \A i, j \in DOMAIN report : report[i].id = report[j].id => i = j
    /\ scope # None /\ (\E r \in Rules : \E s \in Triggering(r, seen) : InScope(Target[s]))
         => InScope(report[1].target)
=============================================================================
