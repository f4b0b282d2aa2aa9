----------------------------- MODULE LeaseClock -----------------------------
(***************************************************************************)
(* Whether an expired lease means a dead worker.  The watchdog of one      *)
(* running investigation renews its lease (jobs/runner.py, _watch); the    *)
(* reaper of another worker fails the investigation once the lease has     *)
(* run out, provided the store has answered the reaper for as long as a    *)
(* lease lasts (jobs/consumer.py, _reap).  InvestigationJobs lets a lease  *)
(* expire at any moment; here time is counted, and the store has outages.  *)
(*                                                                         *)
(* Time is discrete and kept relative: how long each loop has slept, what  *)
(* is left of the lease.  A call takes no time while the store is up; in   *)
(* an outage it raises, or waits until the outage is over and then         *)
(* answers.  The cancellation that the watchdog also looks for, and the    *)
(* investigation's own end, are in InvestigationJobs.                      *)
(***************************************************************************)
EXTENDS Integers

CONSTANTS
  Third,        \* a third of JOB_LEASE_SECONDS
  Poll,         \* JOB_CANCEL_POLL_SECONDS
  Reaper,       \* REAPER_INTERVAL_SECONDS
  Backoff,      \* how long _forever waits before it restarts a loop
  Outages,      \* the kinds of outage there are
  None

Lease    == 3 * Third

(* After this long without an outage, a death or a restart, the dead are   *)
(* reaped: the reaper's first answer, a lease, and its next look.          *)
Patience == Lease + 2 * Reaper + Backoff + 1

(* A renewal, a failed one before it and an outage too short for the       *)
(* reaper to see fit into a lease.  Of the settings only the defaults      *)
(* ensure it: 15 + 1 + 2 * 2 <= 60 / 3.                                    *)
ASSUME ClockAssumption ==
  /\ Third \in Nat \ {0} /\ Poll \in Nat \ {0}
  /\ Reaper \in Nat \ {0} /\ Backoff \in Nat
  /\ Reaper + Backoff + 2 * Poll <= Third
  /\ Outages \subseteq {"refusing", "hanging"}
  /\ None \notin Int

VARIABLES
  store,     \* up, or in what kind of outage, and for how long
  lease,     \* what is left of it; it has expired when negative
  job,
  worker,    \* the one that runs the job
  watch,     \* its watchdog: asleep or in a call, since_renewal
  reaper,    \* likewise, how long the probe took, _store_answering_since
  quiet,     \* how long nothing has gone wrong
  hung       \* an outage held the reaper's second statement, and since then
             \* the job's lease has not been renewed

vars == <<store, lease, job, worker, watch, reaper, quiet, hung>>

Down == store.state # "up"

(* A job that was just claimed, under a reaper that may have run for long. *)
Init ==
  /\ store = [state |-> "up", for |-> Lease]
  /\ lease = Lease
  /\ job = "running"
  /\ worker = "alive"
  /\ watch = [at |-> "asleep", slept |-> 0, since |-> 0]
  /\ \E slept \in 0..Reaper, answering \in {None, Lease} :
       reaper = [at |-> "asleep", slept |-> slept, took |-> 0,
                 answering |-> answering]
  /\ quiet = 0
  /\ hung = FALSE

-----------------------------------------------------------------------------
(* The watchdog. *)

AsleepAgain(w) == [w EXCEPT !.at = "asleep", !.slept = 0]

WatchWakes ==
  /\ worker = "alive" /\ watch.at = "asleep" /\ watch.slept = Poll
  /\ watch' = [watch EXCEPT !.at = "polling"]
  /\ UNCHANGED <<store, lease, job, worker, reaper, quiet, hung>>

(* since_renewal is set back before the renewal is tried. *)
Polled(w) ==
  IF w.since + Poll >= Third
  THEN [w EXCEPT !.at = "renewing", !.since = 0]
  ELSE AsleepAgain([w EXCEPT !.since = @ + Poll])

PollAnswers ==
  /\ worker = "alive" /\ watch.at = "polling" /\ ~Down
  /\ watch' = Polled(watch)
  /\ UNCHANGED <<store, lease, job, worker, reaper, quiet, hung>>

(* A reaped row names no worker any more, and matches no renewal. *)
Renews ==
  /\ worker = "alive" /\ watch.at = "renewing" /\ ~Down
  /\ lease' = IF job = "running" THEN Lease ELSE lease
  /\ watch' = AsleepAgain(watch)
  /\ hung' = (hung /\ job # "running")
  /\ UNCHANGED <<store, job, worker, reaper, quiet>>

(* Either call raises; what it was for is not made up. *)
WatchRaises ==
  /\ worker = "alive" /\ watch.at # "asleep" /\ store.state = "refusing"
  /\ watch' = AsleepAgain(watch)
  /\ UNCHANGED <<store, lease, job, worker, reaper, quiet, hung>>

-----------------------------------------------------------------------------
(* The reaper. *)

ReaperWakes ==
  /\ reaper.at = "asleep" /\ reaper.slept = Reaper
  /\ reaper' = [reaper EXCEPT !.at = "probing", !.took = 0]
  /\ UNCHANGED <<store, lease, job, worker, watch, quiet, hung>>

(* Faulty: every answer starts the wait again. *)
AnsweringAnew(r) == 0

(* Since when the store answers, as of a probe it answered: one that took  *)
(* long may have been an outage.                                           *)
Answering(r) == IF r.answering = None \/ r.took > Third THEN 0 ELSE r.answering

ProbeAnswers ==
  /\ reaper.at = "probing" /\ ~Down
  /\ reaper' = [at |-> IF Answering(reaper) >= Lease THEN "reaping" ELSE "asleep",
                slept |-> 0, took |-> 0, answering |-> Answering(reaper)]
  /\ UNCHANGED <<store, lease, job, worker, watch, quiet, hung>>

(* Faulty: a probe that raised is forgotten. *)
StillAnswering(r) == r

NotAnswering(r) == [r EXCEPT !.answering = None]

ProbeRaises ==
  /\ reaper.at = "probing" /\ store.state = "refusing"
  /\ reaper' = AsleepAgain(NotAnswering([reaper EXCEPT !.took = 0]))
  /\ UNCHANGED <<store, lease, job, worker, watch, quiet, hung>>

Reaps ==
  /\ reaper.at = "reaping" /\ ~Down
  /\ job' = IF lease < 0 THEN "reaped" ELSE job
  /\ reaper' = AsleepAgain(reaper)
  /\ UNCHANGED <<store, lease, worker, watch, quiet, hung>>

(* Nothing catches this one: _forever restarts the loop a little later,    *)
(* and what the reaper knew of the store stands.                           *)
ReapRaises ==
  /\ reaper.at = "reaping" /\ store.state = "refusing"
  /\ reaper' = [AsleepAgain(reaper) EXCEPT !.slept = -Backoff]
  /\ UNCHANGED <<store, lease, job, worker, watch, quiet, hung>>

(* The process of the reaper ends and another starts. *)
ReaperRestarts ==
  /\ reaper' = [at |-> "asleep", slept |-> 0, took |-> 0, answering |-> None]
  /\ quiet' = 0
  /\ UNCHANGED <<store, lease, job, worker, watch, hung>>

-----------------------------------------------------------------------------
(* The store, the worker, and time. *)

(* Bound: between two outages a lease goes by. *)
OutageBegins ==
  /\ ~Down /\ store.for >= Lease
  /\ \E kind \in Outages :
       /\ store' = [state |-> kind, for |-> 0]
       /\ hung' = (hung \/ (reaper.at = "reaping" /\ kind = "hanging"))
  /\ quiet' = 0
  /\ UNCHANGED <<lease, job, worker, watch, reaper>>

OutageEnds ==
  /\ Down
  /\ store' = [state |-> "up", for |-> 0]
  /\ UNCHANGED <<lease, job, worker, watch, reaper, quiet, hung>>

WorkerDies ==
  /\ worker = "alive"
  /\ worker' = "dead"
  /\ quiet' = 0
  /\ UNCHANGED <<store, lease, job, watch, reaper, hung>>

(* A call that is not left waiting returns, and a sleep that is over ends, *)
(* before time goes on.                                                    *)
Due(loop, interval) ==
  IF loop.at = "asleep" THEN loop.slept = interval ELSE store.state # "hanging"

UpTo(bound, n) == IF n < bound THEN n ELSE bound

Tick ==
  /\ ~Due(reaper, Reaper)
  /\ worker = "alive" => ~Due(watch, Poll)
  /\ store' = [store EXCEPT !.for = UpTo(Lease, @ + 1)]
  /\ lease' = IF lease < 0 THEN lease ELSE lease - 1
  /\ watch' = IF worker = "alive" /\ watch.at = "asleep"
              THEN [watch EXCEPT !.slept = @ + 1] ELSE watch
  /\ reaper' = [reaper EXCEPT
                  !.slept = IF reaper.at = "asleep" THEN @ + 1 ELSE @,
                  !.took = IF reaper.at = "probing" THEN UpTo(Third + 1, @ + 1) ELSE @,
                  !.answering = IF @ = None THEN None ELSE UpTo(Lease, @ + 1)]
  /\ quiet' = IF Down THEN 0 ELSE UpTo(Patience, quiet + 1)
  /\ UNCHANGED <<job, worker, hung>>

Next ==
  \/ WatchWakes \/ PollAnswers \/ Renews \/ WatchRaises
  \/ ReaperWakes \/ ProbeAnswers \/ ProbeRaises \/ Reaps \/ ReapRaises
  \/ ReaperRestarts
  \/ OutageBegins \/ OutageEnds \/ WorkerDies \/ Tick

Spec == Init /\ [][Next]_vars

-----------------------------------------------------------------------------
Watch == [at : {"asleep", "polling", "renewing"}, slept : 0..Poll, since : 0..Third]
Loop  == [at : {"asleep", "probing", "reaping"}, slept : (-Backoff)..Reaper,
          took : 0..(Third + 1), answering : {None} \cup 0..Lease]

(* The variables have their types: in particular no loop sleeps longer     *)
(* than its interval, and the watchdog never lets a third of a lease pass  *)
(* without asking for a renewal.                                           *)
TypeOK ==
  /\ store \in [state : {"up", "refusing", "hanging"}, for : 0..Lease]
  /\ lease \in -1..Lease
  /\ job \in {"running", "reaped"}
  /\ worker \in {"alive", "dead"}
  /\ watch \in Watch
  /\ watch.since < Third
  /\ reaper \in Loop
  /\ quiet \in 0..Patience
  /\ hung \in BOOLEAN

(* Only an investigation whose worker is dead is failed for a lost worker: *)
(* an outage of the store, whatever its length and whenever it begins,     *)
(* costs a live one nothing (consumer.py, _reap; the pause of 94 seconds   *)
(* its comment tells of), with one exception.  An outage that begins when  *)
(* the probe was answered and reap_expired is under way, and that leaves   *)
(* the statement waiting (consumer.py:196, 232), comes after the last look *)
(* at how long the store has answered: from then on, and until the worker  *)
(* has renewed its lease, a live one may be failed.                        *)
LiveJobsAreKept == job = "reaped" => worker = "dead" \/ hung

(* An investigation whose worker died is failed, and one lease later than  *)
(* its lease alone would have it at most.                                  *)
DeadJobsAreReaped == worker = "dead" /\ quiet >= Patience => job = "reaped"
=============================================================================
