---------------------------- MODULE JobContract ----------------------------
(***************************************************************************)
(* What the job store promises those who submit investigations, with no    *)
(* queue, lease, message or task in it.  A job is offered, is in the hands *)
(* of at most one worker at a time, may come back and be offered again     *)
(* only while nothing of the cluster was read for it, and keeps an outcome *)
(* once it has one, though a later outcome may replace an earlier one.     *)
(*                                                                         *)
(* Any number of jobs may move in one step: the reaper settles many in one *)
(* statement, and a crash takes away everything a worker held.             *)
(***************************************************************************)
EXTENDS Naturals

CONSTANTS Jobs, Workers, Outcomes

VARIABLES
  answer,   \* what a reader is told of each job
  hands,    \* the workers that run or are about to run it
  reads     \* how often a run of it began to read the cluster

vars == <<answer, hands, reads>>

Init ==
  /\ answer = [j \in Jobs |-> "none"]
  /\ hands = [j \in Jobs |-> {}]
  /\ reads = [j \in Jobs |-> 0]

Same(j) == UNCHANGED <<answer[j], hands[j], reads[j]>>

Accept(j) ==
  /\ answer[j] = "none"
  /\ answer'[j] = "pending"
  /\ UNCHANGED <<hands[j], reads[j]>>

Take(j, w) ==
  /\ answer[j] = "pending" /\ hands[j] = {} /\ reads[j] = 0
  /\ answer'[j] = "running"
  /\ hands'[j] = {w}
  /\ UNCHANGED reads[j]

GiveBack(j) ==
  /\ answer[j] = "running" /\ reads[j] = 0
  /\ answer'[j] = "pending"
  /\ hands'[j] = {}
  /\ UNCHANGED reads[j]

Read(j) ==
  /\ hands[j] # {} /\ reads[j] = 0
  /\ reads'[j] = 1
  /\ UNCHANGED <<answer[j], hands[j]>>

(* The run ends or is lost, an outcome is recorded, or both at once.       *)
Conclude(j) ==
  /\ hands'[j] \in {{}, hands[j]}
  /\ answer'[j] \in Outcomes \cup {answer[j]}
  /\ UNCHANGED reads[j]

JobStep(j) ==
  \/ Same(j)
  \/ Accept(j)
  \/ \E w \in Workers : Take(j, w)
  \/ GiveBack(j)
  \/ Read(j)
  \/ Conclude(j)

Next == \A j \in Jobs : JobStep(j)

Spec == Init /\ [][Next]_vars
=============================================================================
