----------------------------- MODULE PodStatus -----------------------------
(***************************************************************************)
(* What a read says of a pod: PodInspector._detect                         *)
(* (kubernetes/pod_inspector.py), over containers that start, exit, back   *)
(* off and start again, and nodes that reboot.  The inspector has no clock *)
(* and no memory: all it has is one list, read at some moment of a loop.   *)
(*                                                                         *)
(* The kubelet is not under src/; its actions produce what the inspector   *)
(* reads: state, lastState, restartCount, ready, phase and time stamps.    *)
(***************************************************************************)
EXTENDS Integers, FiniteSets, Sequences, FiniteSetsExt, SequencesExt

CONSTANTS
  Pods, Containers,
  StableAfter,              \* STABLE_AFTER, in ticks
  MaxRestarts, MaxClock,    \* bounds: restarts of a container, ticks
  None

RESTART_THRESHOLD == 2

VARIABLES
  container, \* of each pod, what the API server says of each container
  changed,   \* the newest time stamp of each pod
  removed,   \* the pods the kubelet evicted
  clock,
  crashed    \* the pods of which an application has failed

vars == <<container, changed, removed, clock, crashed>>

Failures == {"Error", "OOMKilled"}
Terminated == Failures \cup {"Unknown"}
Waiting == {"ContainerCreating", "ImagePullBackOff",
            "CreateContainerConfigError", "CrashLoopBackOff"}

(* What is assumed of the constants.                                       *)
PodAssumption ==
  /\ {StableAfter, MaxRestarts, MaxClock} \subseteq Nat \ {0}
  /\ None \notin Terminated \cup Waiting

----------------------------------------------------------------------------
(* The inspector.                                                          *)

(* How much a reason explains, most first.                                 *)
REASON_PRECEDENCE ==
  <<"OOMKilled", "CreateContainerConfigError", "ImagePullBackOff",
    "CrashLoopBackOff", "Error", "ContainerCreating">>
CONTAINER_PROBLEM_REASONS == ToSet(REASON_PRECEDENCE)
Foremost(reasons) ==
  REASON_PRECEDENCE[Min({i \in DOMAIN REASON_PRECEDENCE : REASON_PRECEDENCE[i] \in reasons})]

NOT_A_CRASH == {"Completed", "Unknown"}

(* Faulty: the loop is what the kubelet says at the moment.                *)
NoRestartCandidate(k) == {}

(* A container that has been restarting is in a loop at every moment of    *)
(* it; one that came back with its node is not.                            *)
RestartCandidate(k) ==
  IF k.restarts >= RESTART_THRESHOLD /\ k.last \notin NOT_A_CRASH \cup {None}
  THEN {"CrashLoopBackOff"} ELSE {}

(* The newest time stamp of the list: a bound on when it was read.         *)
NewestTimestamp == Max({changed[p] : p \in Pods})

Stable(k) ==
  k.ready /\ k.state = "running" /\ NewestTimestamp - k.started >= StableAfter

Current(k) == {k.state} \cap CONTAINER_PROBLEM_REASONS
History(k) ==
  IF Stable(k) THEN {}
  ELSE ({k.last} \cup RestartCandidate(k)) \cap CONTAINER_PROBLEM_REASONS

Scheduled(p) == \A c \in Containers : container[p][c].state # "none"
Started(k) == k.last # None \/ k.state \in {"running"} \cup Terminated
Phase(p) ==
  IF p \in removed THEN "Failed"
  ELSE IF \A c \in Containers : Started(container[p][c]) THEN "Running" ELSE "Pending"
Ready(p) == p \notin removed /\ \A c \in Containers : container[p][c].ready

(* The status the read gives a pod, and whether it is so now; "healthy" is *)
(* no status.  What a container says goes before what the phase says.      *)
Detect(p) ==
  LET now        == UNION {Current(container[p][c]) : c \in Containers}
      candidates == now \cup UNION {History(container[p][c]) : c \in Containers}
      reason     == Foremost(candidates)
      as(status) == [status |-> status, now |-> TRUE]
  IN IF p \in removed THEN as("Evicted")
     ELSE IF candidates # {} THEN [status |-> reason, now |-> reason \in now]
     ELSE IF Phase(p) \in {"Pending", "Failed"} THEN as(Phase(p))
     ELSE IF ~Ready(p) THEN as("NotReady")
     ELSE as("healthy")

----------------------------------------------------------------------------
(* The kubelet.                                                            *)

Fresh == [state |-> "none", last |-> None, restarts |-> 0, ready |-> FALSE,
          started |-> 0]

Init ==
  /\ container = [p \in Pods |-> [c \in Containers |-> Fresh]]
  /\ changed = [p \in Pods |-> 0]
  /\ removed = {} /\ clock = 0 /\ crashed = {}

Set(p, c, k) ==
  /\ container' = [container EXCEPT ![p][c] = k]
  /\ changed' = [changed EXCEPT ![p] = clock]
  /\ UNCHANGED <<removed, clock>>

(* A node takes the pod.                                                   *)
Schedule(p) ==
  /\ ~Scheduled(p) /\ p \notin removed
  /\ container' = [container EXCEPT ![p] =
       [c \in Containers |-> [Fresh EXCEPT !.state = "ContainerCreating"]]]
  /\ changed' = [changed EXCEPT ![p] = clock]
  /\ UNCHANGED <<removed, clock, crashed>>

(* Image or configuration is missing.                                      *)
Stuck(p, c) ==
  /\ p \notin removed /\ container[p][c].state = "ContainerCreating"
  /\ \E reason \in {"ImagePullBackOff", "CreateContainerConfigError"} :
       Set(p, c, [container[p][c] EXCEPT !.state = reason])
  /\ UNCHANGED crashed

(* A container starts, again if it has run before.                         *)
Start(p, c) ==
  LET k == container[p][c]
      again == k.last # None \/ k.state \in Terminated
  IN /\ p \notin removed /\ k.state \in Waiting \cup Terminated
     /\ again => k.restarts < MaxRestarts
     /\ Set(p, c, [k EXCEPT !.state = "running", !.started = clock,
                            !.restarts = IF again THEN @ + 1 ELSE @,
                            !.last = IF k.state \in Terminated THEN k.state ELSE @])
     /\ UNCHANGED crashed

Probe(p, c) ==
  /\ p \notin removed /\ container[p][c].state = "running"
  /\ Set(p, c, [container[p][c] EXCEPT !.ready = ~@])
  /\ UNCHANGED crashed

(* The application fails, or is killed for its memory.                     *)
Exit(p, c) ==
  /\ p \notin removed /\ container[p][c].state = "running"
  /\ \E why \in Failures : Set(p, c, [container[p][c] EXCEPT !.state = why, !.ready = FALSE])
  /\ crashed' = crashed \cup {p}

BackOff(p, c) ==
  /\ p \notin removed /\ container[p][c].state \in Failures
  /\ Set(p, c, [container[p][c] EXCEPT !.state = "CrashLoopBackOff",
                                       !.last = container[p][c].state])
  /\ UNCHANGED crashed

(* The node goes away and comes back: the sandboxes are gone.              *)
Reboot(p) ==
  /\ p \notin removed /\ Scheduled(p)
  /\ \E c \in Containers : container[p][c].state = "running"
  /\ container' = [container EXCEPT ![p] = [c \in Containers |->
       IF container[p][c].state = "running"
       THEN [container[p][c] EXCEPT !.state = "Unknown", !.ready = FALSE]
       ELSE container[p][c]]]
  /\ changed' = [changed EXCEPT ![p] = clock]
  /\ UNCHANGED <<removed, clock, crashed>>

Evict(p) ==
  /\ Scheduled(p) /\ p \notin removed
  /\ removed' = removed \cup {p} /\ changed' = [changed EXCEPT ![p] = clock]
  /\ UNCHANGED <<container, clock, crashed>>

Tick == clock < MaxClock /\ clock' = clock + 1 /\ UNCHANGED <<container, changed, removed, crashed>>

Next ==
  \/ \E p \in Pods :
       \/ Schedule(p) \/ Reboot(p) \/ Evict(p)
       \/ \E c \in Containers : Stuck(p, c) \/ Start(p, c) \/ Probe(p, c)
                                  \/ Exit(p, c) \/ BackOff(p, c)
  \/ Tick

Spec == Init /\ [][Next]_vars

----------------------------------------------------------------------------
Container == [state : {"none", "running"} \cup Waiting \cup Terminated,
              last : Terminated \cup {None}, restarts : 0..MaxRestarts,
              ready : BOOLEAN, started : 0..MaxClock]

TypeOK ==
  /\ container \in [Pods -> [Containers -> Container]]
  /\ changed \in [Pods -> 0..clock] /\ clock \in 0..MaxClock
  /\ removed \subseteq Pods /\ crashed \subseteq Pods

(* A node that comes back is not an application that fails: no pod is said *)
(* to crash that never did (pod_inspector.py:82, 205-215).                 *)
RebootIsNoCrash ==
  \A p \in Pods : Detect(p).status \in {"CrashLoopBackOff", "Error", "OOMKilled"}
                    => p \in crashed

(* What is taken for the past is the past: only a container that is Ready  *)
(* and has run for STABLE_AFTER, however old the read is that says so.     *)
StableIsPast ==
  \A p \in Pods, c \in Containers :
    Stable(container[p][c]) =>
      container[p][c].ready /\ clock - container[p][c].started >= StableAfter

(* Nothing broken is invisible: a pod that does not serve has a status, at *)
(* every moment of its life.                                               *)
BrokenIsVisible == \A p \in Pods : Ready(p) \/ Detect(p).status # "healthy"

(* A container that fails again and again for one reason.                  *)
Loops(k) ==
  /\ k.restarts >= RESTART_THRESHOLD /\ k.last \in Failures
  /\ k.state \in {"running", "CrashLoopBackOff", k.last}

(* Two reads of one loop agree, whichever moments of it they hit: a step   *)
(* of a container on its round changes nothing that is said of its pod     *)
(* (pod_inspector.py:72-76, 191-203).                                      *)
TwoReadsAgree ==
  [][\A p \in Pods :
       (\E c \in Containers :
          /\ Loops(container[p][c]) /\ Loops(container'[p][c])
          /\ container[p][c].last = container'[p][c].last
          /\ \A d \in Containers :
               /\ d # c => container'[p][d] = container[p][d]
               /\ Stable(container[p][d])' = Stable(container[p][d]))
       /\ UNCHANGED removed
         => Detect(p).status' = Detect(p).status]_vars

(* The status of a pod can be relied on.                                   *)
ReadsAgree ==
  []TypeOK /\ []RebootIsNoCrash /\ []StableIsPast /\ []BrokenIsVisible /\ TwoReadsAgree

(* A status taken from a container's history is not said of a pod whose     *)
(* containers are down: what is listed without being so now is running     *)
(* now (signal_rules.py:126-134).  Refuted: README, section 4.             *)
PastIsRunning ==
  \A p \in Pods : Detect(p).status # "healthy" /\ ~Detect(p).now =>
    \A c \in Containers : container[p][c].state = "running"
=============================================================================
