---------------------------- MODULE Remediation ----------------------------
(***************************************************************************)
(* The plan that answers a hypothesis (remediation/): what to look at      *)
(* first, what to change, how to see that it worked, how to undo it, and   *)
(* what an operator must be allowed to do; and an operator who follows it  *)
(* on the cluster, a step at a time, while others change the same things.  *)
(*                                                                         *)
(* The platform makes the plan and carries nothing out.  Left out: the     *)
(* wording, risk levels, the overlay and chart forms of a patch, and the   *)
(* values in a patch other than a memory limit.                            *)
(***************************************************************************)
EXTENDS Naturals, Sequences, FiniteSets, SequencesExt

CONSTANTS
  Worlds,      \* bound: what was diagnosed, and of what
  MaxOthers    \* bound: changes made by somebody else meanwhile

(* What controls a pod: nothing, a Deployment or another kind of workload  *)
(* above a ReplicaSet, a workload of its own, or what the collector does   *)
(* not know.                                                               *)
Owners == {"none", "Deployment", "Rollout", "StatefulSet", "Job", "Custom"}

Signals == {"key_missing", "reference_missing", "unauthorized", "no_secret",
            "not_found", "none"}

(* deep: the pod specs collected, in order: of the pod the hypothesis is   *)
(* about, and of another pod of that name in another namespace.  implied:  *)
(* the containers the supporting signals name, and named: those any signal *)
(* does.  limit: tenths of a unit, 0 when none is set.  revisions: how     *)
(* many the workload had, one if this is its first rollout.                *)
World == [hypothesis : {"out_of_memory", "missing_configuration", "pull_failure",
                        "quota_exhausted", "no_default_storage_class",
                        "service_without_endpoints", "ingress_denied_by_policy",
                        "stalled", "failing", "unhealthy", "unknown"},
          signal : Signals, kind : {"ConfigMap", "Secret"},
          owner : Owners, namesake : Owners, deep : Seq({"own", "namesake"}),
          implied : SUBSET {"app", "sidecar"}, named : SUBSET {"app", "sidecar"},
          limit : Nat, before : 0..1, revisions : 1..2]

(* What is assumed of the constants. *)
RemediationAssumption == Worlds \subseteq World /\ MaxOthers \in Nat

VARIABLES
  world,      \* what was diagnosed
  plan,       \* the plan made of it
  role,       \* what the operator may do: all that the plan asks for, or
              \* what its checks have confirmed
  phase, step,   \* where the operator is
  last,       \* the verb of the command that was tried last
  object,     \* the revisions of each object, the current one last; none if
              \* it does not exist
  captured,   \* the manifest last captured of each
  version,    \* of the last change
  others      \* the objects that somebody else has changed

cluster == <<object, captured, version, others>>
vars == <<world, plan, role, phase, step, last, cluster>>

-----------------------------------------------------------------------------
(* The collected spec of the pod (PodSpecCollector._owner) and what a rule *)
(* reads of it (RemediationContext).                                       *)

(* Faulty: a pod is what it is, whether anybody looked or not. *)
OwnershipAssumed(w) == TRUE

OwnershipKnown(w) == w.deep # <<>>

(* pod_spec: the first one collected under the name of the pod.            *)
OwnerRead(w) ==
  IF w.deep = <<>> THEN "none"
  ELSE IF Head(w.deep) = "own" THEN w.owner ELSE w.namesake

(* The workload above a ReplicaSet is derived from its name.               *)
Derived(w) == OwnerRead(w) \in {"Deployment", "Rollout"}

Ref(kind, of) == [kind |-> kind, of |-> of]

WorkloadRef(w) ==
  LET owner == OwnerRead(w) IN
  CASE Derived(w) -> Ref("Deployment", Head(w.deep))
    [] owner \in {"StatefulSet", "Job"} -> Ref(owner, Head(w.deep))
    [] OTHER -> Ref("Pod", "own")

(* The first container of the pod that a signal names, else the first.     *)
Container(w) ==
  IF w.deep = <<>> THEN "unknown"
  ELSE IF w.named = {"sidecar"} THEN "sidecar" ELSE "app"

(* double_quantity: cut to a whole number of units.                        *)
DoubleQuantity(tenths) == ((2 * tenths) \div 10) * 10

Proposed(w) == IF w.deep = <<>> \/ w.limit = 0 THEN 0 ELSE DoubleQuantity(w.limit)

-----------------------------------------------------------------------------
(* Steps that rules share.                                                 *)

Step(verb, on) == [verb |-> verb, on |-> on]
ByHand(what, on) == <<Step(what, on)>>

Rollable(ref) == ref.kind \in {"Deployment", "StatefulSet", "DaemonSet"}

RolloutVerification(ref) ==
  IF Rollable(ref) THEN <<Step("rollout status", ref), Step("get", Ref("Pod", "own"))>>
  ELSE <<Step("get", ref), Step("describe", ref)>>

RolloutUndo(ref) ==
  IF Rollable(ref) THEN <<Step("rollout history", ref), Step("rollout undo", ref)>>
  ELSE ByHand("restore by hand", ref)

RestartStep(ref) ==
  IF Rollable(ref) THEN <<Step("rollout restart", ref)>> ELSE ByHand("recreate by hand", ref)

CaptureCurrent(ref) == Step("capture", ref)

(* What the plan says of who controls the target.                          *)
UnmanagedCaveat(w) ==
  CASE Rollable(WorkloadRef(w)) -> "nothing"
    [] ~Rollable(WorkloadRef(w)) /\ ~OwnershipKnown(w) -> "not collected"
    [] OTHER -> "unmanaged"

Permission(verbs, kind) == [verbs |-> verbs, kind |-> kind]

WorkloadPermissions(w) == {Permission(<<"get", "patch">>, WorkloadRef(w).kind)}

(* A rule that changes the workload says who controls it and how it knows. *)
Plan(target, pre, change, patches, check, undo, permissions, w, ofWorkload) ==
  [target |-> target, pre |-> pre, change |-> change, patches |-> patches,
   check |-> check, undo |-> undo, permissions |-> permissions,
   caveat |-> IF ofWorkload THEN UnmanagedCaveat(w) ELSE "nothing",
   derived |-> ofWorkload /\ Derived(w)]

-----------------------------------------------------------------------------
(* The rules, one per hypothesis.  patches: the changes offered besides    *)
(* the steps, which the operator may apply as well.                        *)

(* Without a recorded limit the patch holds a placeholder in its stead,    *)
(* and half a unit or less may come out as a limit of zero.                *)
LimitPatch(w) ==
  CASE w.deep = <<>> \/ w.limit = 0 -> "patch with placeholder"
    [] Proposed(w) = 0 /\ w.deep # <<>> /\ w.limit # 0 -> "patch to zero"
    [] OTHER -> "patch"

OutOfMemory(w) ==
  LET workload == WorkloadRef(w) IN
  Plan(workload, <<CaptureCurrent(workload), Step("top", Ref("Node", "own"))>>,
       <<Step(LimitPatch(w), workload)>>, <<>>, RolloutVerification(workload),
       RolloutUndo(workload), WorkloadPermissions(w), w, TRUE)

(* ProbeRule: the same shape, a startup probe instead of a limit.          *)
Probe(w) ==
  [OutOfMemory(w) EXCEPT
     !.pre = <<CaptureCurrent(WorkloadRef(w))>> \o ByHand("decide", WorkloadRef(w)),
     !.change = <<Step("patch", WorkloadRef(w))>>]

Identified(w) == w.signal \in {"key_missing", "reference_missing"}

(* An object no signal names is not generated, nor is a Secret ever.       *)
MissingConfiguration(w) ==
  LET kind == IF Identified(w) THEN w.kind ELSE "ConfigMap"
      ref == Ref(kind, IF Identified(w) THEN "own" ELSE "placeholder")
      workload == WorkloadRef(w) IN
  Plan(ref, <<Step("get", ref)>>,
       <<Step(IF Identified(w) THEN "apply" ELSE "name it by hand", ref)>>
         \o RestartStep(workload),
       IF kind = "ConfigMap" /\ Identified(w) THEN <<Step("apply", ref)>> ELSE <<>>,
       <<Step("describe", ref)>> \o RolloutVerification(workload),
       RolloutUndo(workload),
       {Permission(<<"get", "create", "patch">>, kind)} \cup WorkloadPermissions(w), w, TRUE)

ImagePull(w) ==
  LET workload == WorkloadRef(w)
      credentials == w.signal \in {"unauthorized", "no_secret"} IN
  Plan(workload, <<CaptureCurrent(workload), Step("describe", Ref("Pod", "own"))>>,
       CASE credentials -> <<Step("create", Ref("Secret", "own"))>>
         [] w.signal = "not_found" -> ByHand("change by hand", workload)
         [] OTHER -> ByHand("decide", workload),
       IF credentials THEN <<Step("patch", workload)>> ELSE <<>>,
       RolloutVerification(workload), RolloutUndo(workload),
       {Permission(<<"get", "create">>, "Secret")} \cup WorkloadPermissions(w), w, TRUE)

(* What the next two rules share: an object is captured, edited, and *)
(* restored from what was captured.                                        *)
Restorable(ref, w) ==
  Plan(ref, <<CaptureCurrent(ref), Step("describe", ref)>>, <<Step("edit", ref)>>, <<>>,
       <<Step("describe", ref)>>, <<Step("apply captured", ref)>>,
       {Permission(<<"get", "patch">>, ref.kind)}, w, FALSE)

QuotaExhausted(w)   == Restorable(Ref("ResourceQuota", "own"), w)
ServiceEndpoints(w) == Restorable(Ref("Service", "own"), w)

DefaultStorageClass(w) ==
  LET class == Ref("StorageClass", "own") IN
  Plan(class, <<Step("get", class)>>, <<Step("mark", class)>>, <<>>,
       <<Step("get", class)>>, <<Step("unmark", class)>>,
       {Permission(<<"get", "patch">>, "StorageClass")}, w, FALSE)

(* The allowance itself is for the operator to complete and apply.         *)
NetworkPolicy(w) ==
  LET allowance == Ref("NetworkPolicy", "own") IN
  Plan(allowance, <<Step("get", allowance)>>, <<Step("try to apply", allowance)>>,
       <<Step("apply", allowance)>>, <<Step("describe", allowance)>>,
       <<Step("delete", allowance)>>,
       {Permission(<<"get", "create", "delete">>, "NetworkPolicy")}, w, FALSE)

RolloutStalled(w) ==
  LET workload == Ref("Deployment", "own") IN
  Plan(workload, <<Step("rollout history", workload), Step("describe", workload)>>,
       <<Step("rollout undo", workload)>>, <<>>, RolloutVerification(workload),
       <<Step("rollout undo to", workload)>>,
       {Permission(<<"get", "patch", "update">>, "Deployment")}, w, FALSE)

NodeUnhealthy(w) ==
  LET node == Ref("Node", "own") IN
  Plan(node, <<Step("top", node), Step("get", Ref("Pod", "own"))>>,
       <<Step("cordon", node), Step("try to drain", node)>>, <<>>,
       <<Step("get", node)>>, <<Step("uncordon", node)>>,
       {Permission(<<"get", "patch">>, "Node"), Permission(<<"create">>, "Eviction")},
       w, FALSE)

(* The planner's answer to a failure it has no rule for: look, and think.  *)
DiagnosticPlan(w) ==
  Plan(Ref("Pod", "own"), <<Step("describe", Ref("Pod", "own"))>>,
       ByHand("decide", Ref("Pod", "own")), <<>>, <<>>, <<>>, {}, w, FALSE)

PlanFor(w) ==
  CASE w.hypothesis = "out_of_memory" -> OutOfMemory(w)
    [] w.hypothesis = "failing" -> Probe(w)
    [] w.hypothesis = "missing_configuration" -> MissingConfiguration(w)
    [] w.hypothesis = "pull_failure" -> ImagePull(w)
    [] w.hypothesis = "quota_exhausted" -> QuotaExhausted(w)
    [] w.hypothesis = "service_without_endpoints" -> ServiceEndpoints(w)
    [] w.hypothesis = "no_default_storage_class" -> DefaultStorageClass(w)
    [] w.hypothesis = "ingress_denied_by_policy" -> NetworkPolicy(w)
    [] w.hypothesis = "stalled" -> RolloutStalled(w)
    [] w.hypothesis = "unhealthy" -> NodeUnhealthy(w)
    [] OTHER -> DiagnosticPlan(w)

(* check_command: asks about the first verb that changes something.        *)
Checked(p) ==
  LET changes == SelectSeq(p.verbs, LAMBDA verb : verb # "get") IN
  IF changes = <<>> THEN p.verbs[1] ELSE changes[1]

-----------------------------------------------------------------------------
(* kubectl, and the operator at it.                                        *)

Reads == {"get", "describe", "top", "capture", "rollout status", "rollout history"}

Manual == {"restore by hand", "recreate by hand", "change by hand", "name it by hand",
           "decide"}

(* The verbs a command needs on the objects it changes.                    *)
Uses(s) ==
  CASE s.verb \in Reads \cup Manual -> {}
    [] s.verb \in {"patch", "patch with placeholder", "patch to zero", "edit", "apply captured", "mark", "unmark", "cordon",
                   "uncordon", "rollout undo", "rollout undo to", "rollout restart"} ->
         {<<"patch", s.on.kind>>}
    [] s.verb = "apply" /\ object[s.on] # <<>> -> {<<"patch", s.on.kind>>}
    [] s.verb \in {"create", "apply", "try to apply"} -> {<<"create", s.on.kind>>}
    [] s.verb = "delete" -> {<<"delete", s.on.kind>>}
    [] s.verb = "try to drain" -> {<<"create", "Eviction">>}

May ==
  {<<verb, p.kind>> : verb \in {"get", "create", "patch", "update", "delete"},
                      p \in plan.permissions}
  \cap UNION {IF role = "all" THEN {<<v, p.kind>> : v \in ToSet(p.verbs)}
              ELSE {<<Checked(p), p.kind>>} : p \in plan.permissions}

Refs == {Ref(kind, of) : kind \in {"Pod", "Deployment", "StatefulSet", "Job", "ConfigMap",
                                   "Secret", "ResourceQuota", "Service", "StorageClass",
                                   "NetworkPolicy", "Node"},
                         of \in {"own", "namesake", "placeholder"}}

Last2(revisions) == revisions[Len(revisions) - 1]

History(w) == IF w.revisions = 1 THEN <<3>> ELSE <<2, 3>>

(* The definition everything had when the operator began.                  *)
Began(w, ref) ==
  CASE ref.of # "own" -> <<>>
    [] ref.kind = "NetworkPolicy" -> <<>>
    [] ref.kind \in {"ConfigMap", "Secret"} ->
         IF w.signal = "key_missing" /\ w.kind = ref.kind THEN <<3>> ELSE <<>>
    [] ref.kind \in {"StorageClass", "Node"} -> <<w.before>>
    [] ref.kind = "Deployment" ->
         IF w.owner = "Deployment" \/ w.hypothesis = "stalled" THEN History(w) ELSE <<>>
    [] ref.kind \in {"StatefulSet", "Job"} -> IF w.owner = ref.kind THEN History(w) ELSE <<>>
    [] OTHER -> <<3>>

Current(revisions) == IF revisions = <<>> THEN 99 ELSE revisions[Len(revisions)]

(* Whether kubectl can do it at all.                                       *)
Possible(s) ==
  CASE s.verb \in Manual \cup {"create", "apply", "try to apply", "top"} -> TRUE
    [] s.verb \in {"get", "describe"} -> TRUE
    [] s.verb \in {"rollout status", "rollout history", "rollout restart"} ->
         s.on.kind \in {"Deployment", "StatefulSet"} /\ object[s.on] # <<>>
    [] s.verb \in {"rollout undo", "rollout undo to"} ->
         s.on.kind \in {"Deployment", "StatefulSet"} /\ Len(object[s.on]) > 1
    [] s.verb = "apply captured" -> captured[s.on] # 99
    [] s.verb = "patch with placeholder" -> FALSE
    [] s.verb \in {"patch", "patch to zero"} -> s.on.kind \in {"Deployment", "StatefulSet"} /\ object[s.on] # <<>>
    [] OTHER -> object[s.on] # <<>>

(* The API server takes a limit of zero unless something is requested.     *)
Outcomes(s) ==
  {Possible(s)} \cup {FALSE : zero \in {s.verb} \cap {"patch to zero"}}

(* What it does to the object, of the revisions it has.                    *)
Effect(s) ==
  LET revisions == object[s.on] IN
  CASE s.verb \in {"patch", "patch to zero", "edit", "apply", "create", "rollout restart",
                   "change by hand", "recreate by hand"} -> Append(revisions, version)
    [] s.verb = "rollout undo" ->
         Append(Remove(revisions, Last2(revisions)), Last2(revisions))
    [] s.verb \in {"rollout undo to", "restore by hand"} ->
         LET to == Current(Began(world, s.on)) IN Append(Remove(revisions, to), to)
    [] s.verb = "apply captured" -> Append(revisions, captured[s.on])
    [] s.verb \in {"mark", "cordon"} -> Append(revisions, 1)
    [] s.verb \in {"unmark", "uncordon"} -> Append(revisions, 0)
    [] s.verb = "delete" -> <<>>
    [] OTHER -> revisions

Init ==
  /\ world \in Worlds /\ plan = PlanFor(world) /\ role \in {"all", "checked"}
  /\ phase = "pre" /\ step = 1 /\ last = "none"
  /\ object = [r \in Refs |-> Began(world, r)]
  /\ captured = [r \in Refs |-> 99] /\ version = 4 /\ others = {}

Phases == <<"pre", "change", "patches", "check", "undo">>
Steps  == plan[phase]
Next1  == [pre |-> "change", change |-> "patches", patches |-> "check",
           check |-> "decided", undo |-> "undone"]

(* A command that is refused, or that kubectl cannot carry out, stops the  *)
(* operator where they are.                                                *)
Follow ==
  /\ phase \in ToSet(Phases) /\ step <= Len(Steps)
  /\ last' = Steps[step].verb
  /\ LET s == Steps[step] IN \E possible \in Outcomes(s) :
     IF possible /\ Uses(s) \subseteq May
     THEN /\ object' = [object EXCEPT ![s.on] = Effect(s)]
          /\ captured' = IF s.verb = "capture"
                         THEN [captured EXCEPT ![s.on] = Current(object[s.on])]
                         ELSE captured
          /\ version' = version + 1 /\ step' = step + 1 /\ UNCHANGED phase
     ELSE /\ phase' = IF possible THEN "refused" ELSE "failed"
          /\ UNCHANGED <<step, object, captured, version>>
  /\ UNCHANGED <<world, plan, role, others>>

(* The section is done, or the operator leaves the patches aside.          *)
GoOn ==
  /\ phase \in ToSet(Phases)
  /\ step > Len(Steps) \/ (phase = "patches" /\ step = 1)
  /\ phase' = Next1[phase] /\ step' = 1
  /\ UNCHANGED <<world, plan, role, last, cluster>>

(* It did not help.                                                        *)
RollBack ==
  /\ phase = "decided"
  /\ phase' = "undo" /\ step' = 1
  /\ UNCHANGED <<world, plan, role, last, cluster>>

SomebodyElse ==
  /\ phase \in ToSet(Phases) \ {"pre"}
  /\ Cardinality(others) < MaxOthers
  /\ \E r \in {plan.target, WorkloadRef(world)} \ others :
       /\ object[r] # <<>> /\ r.kind \notin {"Node", "StorageClass"}
       /\ object' = [object EXCEPT ![r] = Append(@, version)]
       /\ others' = others \cup {r}
  /\ version' = version + 1
  /\ UNCHANGED <<world, plan, role, phase, step, last, captured>>

Next == Follow \/ GoOn \/ RollBack \/ SomebodyElse

Spec == Init /\ [][Next]_vars
-----------------------------------------------------------------------------
TypeOK ==
  /\ world \in Worlds /\ plan = PlanFor(world) /\ role \in {"all", "checked"}
  /\ phase \in ToSet(Phases) \cup {"decided", "undone", "refused", "failed"}
  /\ step \in 1..6 /\ last \in STRING /\ object \in [Refs -> Seq(0..version)]
  /\ captured \in [Refs -> Nat] /\ version \in Nat /\ others \subseteq Refs

(* The spec collected is of this pod, and its controller of a known kind.  *)
Understood(w) ==
  w.deep # <<>> /\ Head(w.deep) = "own" /\ w.owner \notin {"Custom", "Rollout"}

Controller(w) == IF w.owner = "none" THEN Ref("Pod", "own") ELSE Ref(w.owner, "own")

AboutWorkload(w) ==
  w.hypothesis \in {"out_of_memory", "failing", "missing_configuration", "pull_failure"}

(* What the plan asserts is so.  It addresses what controls the pod, or    *)
(* says that it guessed; it calls a pod unmanaged only when it has seen    *)
(* that; and it proposes a limit that is more than the present one, for    *)
(* the container the supporting signals implicate.  Not when a pod of the  *)
(* same name elsewhere was read instead, when the controller is of a kind  *)
(* the collector does not know, when other signals name a container of     *)
(* this pod too, or below half a unit: README, section 4.                  *)
PlanIsTrue ==
  LET w == world
      own == w.deep # <<>> /\ Head(w.deep) = "own" IN
  /\ plan.caveat = "unmanaged" =>
       w.deep # <<>> /\ (Understood(w) => w.owner \in {"none", "Job"})
  /\ Understood(w) => WorkloadRef(w) = Controller(w)
  /\ own /\ w.owner = "Rollout" /\ AboutWorkload(w) => plan.derived
  /\ own /\ w.implied # {} /\ w.named = w.implied => Container(w) \in w.implied
  /\ own /\ w.limit >= 5 => Proposed(w) > w.limit

(* Nobody who may do what the plan asks for is refused in the middle, and  *)
(* no command is one that kubectl cannot carry out.  Not if they hold only *)
(* what the checks asked about, in the two plans that need a second verb;  *)
(* nor for a patch of what has no template that can change, or with a      *)
(* placeholder or zero for a limit (rules.py:226-236, 43); for an owner    *)
(* guessed wrong, or an allowance that was only tried; nor to undo the     *)
(* first rollout there was (rules.py:127, 919): README, section 4.         *)
NeverStuckMidway ==
  /\ phase = "refused" =>
       /\ role = "checked"
       /\ world.hypothesis \in {"missing_configuration", "ingress_denied_by_policy"}
  /\ phase = "failed" =>
       \/ last = "patch" /\ ~Rollable(WorkloadRef(world))
       \/ last \in {"patch with placeholder", "patch to zero"} /\ Proposed(world) = 0
       \/ /\ last = "rollout undo" /\ world.revisions = 1
          /\ world.hypothesis \in {"stalled", "pull_failure"}
       \/ AboutWorkload(world) /\ WorkloadRef(world) # Controller(world)
       \/ world.hypothesis = "ingress_denied_by_policy"

(* Following the rollback brings everything back to what it was, if nobody *)
(* else has changed it meanwhile: but for what the plans of configuration  *)
(* and image pulls create, and a node that was cordoned before.            *)
UndoRestores ==
  phase = "undone" /\ others = {} /\ world.before = 0
    /\ world.hypothesis \notin {"missing_configuration", "pull_failure"} =>
      \A r \in Refs : Current(object[r]) = Current(Began(world, r))

(* Without their exceptions, refuted: README, section 4.                   *)
EveryUndoRestores ==
  phase = "undone" => \A r \in Refs : Current(object[r]) = Current(Began(world, r))
ConfirmedIsEnough == phase # "refused"
NoCommandErrs     == phase # "failed"
UnmanagedWasSeen  == plan.caveat = "unmanaged" => world.owner = "none"
=============================================================================
