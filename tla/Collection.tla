----------------------------- MODULE Collection -----------------------------
(***************************************************************************)
(* Collecting the evidence of investigations: the scheduler that runs      *)
(* collectors in waves under a budget (collectors/scheduler.py,            *)
(* collectors/registry.py), the playbook round after them                  *)
(* (playbooks/orchestrator.py), and the cache of cluster reads that the    *)
(* investigations of one process share (providers/cache.py).               *)
(*                                                                         *)
(* Time is counted in ticks.  A cluster read takes as long as it takes;    *)
(* what ends a hanging one is the collector's timeout.  Several steps may  *)
(* fall into one tick.  A collector makes one batch of reads and provides  *)
(* one kind of evidence, named like the collector; a read is named by what *)
(* the cache is keyed with, its scope and the fingerprint of its request.  *)
(* Left out: redaction, the text of commands and details, truncation       *)
(* records, metrics, collectors that do not apply to the scope.            *)
(***************************************************************************)
EXTENDS Naturals, Sequences, FiniteSets, SequencesExt, FiniteSetsExt

CONSTANTS
  Investigations,
  Refreshing,     \* those that ask for fresh data
  Baseline,       \* collectors every investigation runs
  Targeted,       \* collectors a playbook may ask for
  Applicable,     \* the collectors that apply to each investigation's scope
  Requires,       \* the evidence each collector needs
  Optional,       \* the evidence it waits for if it is collected at all
  Requests,       \* the reads each collector makes, as a sequence
  Reads,
  Size,           \* bytes of the answer of each read
  MaxBytes, Ttl,  \* of the cache
  Concurrency, Timeout, Deadline,  \* CollectionBudget
  LastSubmit,     \* bound: when the last investigation may start
  MaxFaults,      \* bound: reads refused and collectors that raise
  MaxChanges      \* bound: changes of what the cluster would answer

Collectors == Baseline \cup Targeted
MaxTime    == LastSubmit + Deadline + Timeout * Cardinality(Collectors)
Times      == 0..MaxTime

ASSUME CollectionAssumption ==
  /\ Refreshing \subseteq Investigations /\ Baseline \cap Targeted = {}
  /\ IsFiniteSet(Baseline) /\ IsFiniteSet(Targeted)
  /\ Applicable \in [Investigations -> SUBSET Collectors]
  /\ Requires \in [Collectors -> SUBSET Baseline]
  /\ Optional \in [Collectors -> SUBSET Baseline]
  /\ \A c \in Collectors : Requests[c] \in Seq(Reads)
  /\ Size \in [Reads -> Nat \ {0}]
  /\ MaxBytes \in Nat \ {0} /\ Ttl \in Nat \ {0}
  /\ Concurrency \in Nat \ {0} /\ Timeout \in Nat \ {0} /\ Deadline \in Nat
  /\ LastSubmit \in Nat /\ MaxFaults \in Nat /\ MaxChanges \in Nat

VARIABLES
  now,
  changes,   \* when what the cluster answers to each read changed
  cache,     \* CollectionCache: entries, least recently used first, and bytes
  round,     \* how far each investigation is
  started,   \* CollectionContext.started_at
  pending,   \* collectors that are not in a wave yet
  task,      \* the run of each collector
  evidence,  \* the EvidenceStore of each investigation
  faults     \* so far

vars == <<now, changes, cache, round, started, pending, task, evidence, faults>>

(* A fact is named by the time since which it holds.                       *)
Fact(r) == Max(changes[r])

(* fetched stands for fetched_at and stored_at: put sets both.             *)
Entry == [read : Reads, fact : Times, fetched : Times]

(* limit: the timeout it was given; since: when it got the semaphore;      *)
(* window: FreshnessWindow.oldest, MaxTime + 1 for None; facts: the        *)
(* answers so far; missed: the reads that were not taken from the cache;   *)
(* asked: those of them the cluster has yet to answer.                     *)
Task == [at : {"none", "queued", "running"}, limit : Nat, since : Times,
         window : 0..(MaxTime + 1), missed : SUBSET Reads,
         asked : SUBSET Reads, facts : [Reads -> Times]]

Status == {"ok", "failed", "timeout", "not_applicable"}
Record == [status : Status \cup {"missing"}, stamp : Times, since : Times,
           facts : [Reads -> Times]]

NoTask   == [at |-> "none", limit |-> 0, since |-> 0, window |-> MaxTime + 1,
             missed |-> {}, asked |-> {}, facts |-> [r \in Reads |-> 0]]
NoRecord == [status |-> "missing", stamp |-> 0, since |-> 0,
             facts |-> [r \in Reads |-> 0]]

Init ==
  /\ now = 0
  /\ changes = [r \in Reads |-> {0}]
  /\ cache = [entries |-> <<>>, bytes |-> 0]
  /\ round = [i \in Investigations |-> "submitted"]
  /\ started = [i \in Investigations |-> 0]
  /\ pending = [i \in Investigations |-> {}]
  /\ task = [i \in Investigations |-> [c \in Collectors |-> NoTask]]
  /\ evidence = [i \in Investigations |-> [c \in Collectors |-> NoRecord]]
  /\ faults = 0

-----------------------------------------------------------------------------
(* The cache.                                                              *)

Holds(s, r)   == \E n \in 1..Len(s.entries) : s.entries[n].read = r
PlaceOf(s, r) == CHOOSE n \in 1..Len(s.entries) : s.entries[n].read = r
EntryOf(s, r) == s.entries[PlaceOf(s, r)]
Without(s, r) == RemoveAt(s.entries, PlaceOf(s, r))

Drop(s, r) == IF Holds(s, r)
              THEN [entries |-> Without(s, r), bytes |-> s.bytes - Size[r]]
              ELSE s

Hits(s, r) == Holds(s, r) /\ now - EntryOf(s, r).fetched <= Ttl

Get(s, r) == IF Hits(s, r)
             THEN [s EXCEPT !.entries = Append(Without(s, r), EntryOf(s, r))]
             ELSE Drop(s, r)

(* The least recently used go until the rest fits, the new one never.      *)
Evict(s, r) ==
  LET left[n \in 0..Len(s.entries)] ==
        IF n = 0 THEN s
        ELSE IF left[n - 1].bytes > MaxBytes /\ s.entries[n].read # r
        THEN Drop(left[n - 1], s.entries[n].read)
        ELSE left[n - 1]
  IN left[Len(s.entries)]

Put(s, r, fact) ==
  LET kept  == Drop(s, r)
      entry == [read |-> r, fact |-> fact, fetched |-> now]
  IN IF Size[r] > MaxBytes THEN s
     ELSE Evict([entries |-> Append(kept.entries, entry),
                 bytes   |-> kept.bytes + Size[r]], r)

(* One request after the other of a collector is looked up, and one after  *)
(* the other that was answered well stored.                                *)
GetAll(s, reads) ==
  LET after[n \in 0..Len(reads)] ==
        IF n = 0 THEN s ELSE Get(after[n - 1], reads[n])
  IN after[Len(reads)]

PutAll(s, reads, facts, good) ==
  LET after[n \in 0..Len(reads)] ==
        IF n = 0 THEN s
        ELSE IF reads[n] \in good THEN Put(after[n - 1], reads[n], facts[reads[n]])
        ELSE after[n - 1]
  IN after[Len(reads)]

-----------------------------------------------------------------------------
(* The scheduler.                                                          *)

Remaining(i) == LET elapsed == now - started[i] IN
                IF elapsed < Deadline THEN Deadline - elapsed ELSE 0
TimeoutForNext(i) == Min({Timeout, Remaining(i)})

Usable(i, c)  == evidence[i][c].status = "ok"
ShouldRun(i, c) == c \in Applicable[i] /\ \A d \in Requires[c] : Usable(i, d)

Active(i) == {c \in Collectors : task[i][c].at # "none"}
Running(i) == {c \in Collectors : task[i][c].at = "running"}

Degraded(status) == [NoRecord EXCEPT !.status = status, !.stamp = now]

(* The next wave: what depends on nothing that is still pending.           *)
Wave(i) == {c \in pending[i] : (Requires[c] \cup Optional[c]) \cap pending[i] = {}}

(* The tasks of a wave are created together, and each works its timeout    *)
(* out before it waits for the semaphore.                                  *)
StartWave(i) ==
  LET runs == {c \in Wave(i) : ShouldRun(i, c)} IN
  /\ pending[i] # {} /\ Active(i) = {}
  /\ pending' = [pending EXCEPT ![i] = @ \ Wave(i)]
  /\ task' = [task EXCEPT ![i] = [c \in Collectors |->
       IF c \in runs /\ TimeoutForNext(i) > 0
       THEN [NoTask EXCEPT !.at = "queued", !.limit = TimeoutForNext(i)]
       ELSE @[c]]]
  /\ evidence' = [evidence EXCEPT ![i] = [c \in Collectors |->
       IF c \in Wave(i) \ runs THEN Degraded("not_applicable")
       ELSE IF c \in runs /\ TimeoutForNext(i) = 0 THEN Degraded("timeout")
       ELSE @[c]]]
  /\ UNCHANGED <<now, changes, cache, round, started, faults>>

(* What a task leaves in the store when it ends; the store is read only    *)
(* after the whole wave has ended.                                         *)
Ends(i, c, record) ==
  /\ task' = [task EXCEPT ![i][c] = NoTask]
  /\ evidence' = [evidence EXCEPT ![i][c] = record]

(* CachingProvider.fetch_many up to its await: what is cached is taken     *)
(* from the cache, request by request, unless the investigation asked for  *)
(* fresh data, and noted in the window of this collector.                  *)
Lookup(i, c) ==
  LET t     == task[i][c]
      reads == IF i \in Refreshing THEN {}
               ELSE {r \in ToSet(Requests[c]) : Hits(cache, r)}
  IN
  /\ cache' = IF i \in Refreshing THEN cache
              ELSE GetAll(cache, Requests[c])
  /\ task' = [task EXCEPT ![i][c] =
       [t EXCEPT !.at = "running", !.since = now,
          !.window = Min({t.window} \cup {EntryOf(cache, r).fetched : r \in reads}),
          !.missed = ToSet(Requests[c]) \ reads,
          !.asked  = ToSet(Requests[c]) \ reads,
          !.facts  = [r \in Reads |-> IF r \in reads THEN EntryOf(cache, r).fact
                                      ELSE 0]]]

(* A task gets the semaphore and its collector starts.                     *)
Begin(i, c) ==
  /\ task[i][c].at = "queued" /\ Cardinality(Running(i)) < Concurrency
  /\ Lookup(i, c)
  /\ UNCHANGED <<now, changes, round, started, pending, evidence, faults>>

(* The cluster answers one read of a batch, for good or ill.               *)
ClusterAnswers(i, c, r) ==
  LET t == task[i][c] IN
  /\ t.at = "running" /\ r \in t.asked
  /\ task' = [task EXCEPT ![i][c] = [t EXCEPT !.asked = @ \ {r}, !.facts[r] = Fact(r)]]
  /\ UNCHANGED <<now, changes, cache, round, started, pending, evidence, faults>>

(* Faulty: dated when it was put together, whatever it was made from. *)
StampNow(t) == now

(* Dated now, or as of the oldest read that was reused.                    *)
Stamp(t) == IF t.window < now THEN t.window ELSE now

(* The batch is complete: the answers that were good are stored, and the   *)
(* collector makes its evidence of them, or fails if one was not.          *)
Collected(i, c) ==
  LET t == task[i][c] IN
  /\ t.at = "running" /\ t.asked = {}
  /\ \E bad \in SUBSET t.missed :
       /\ faults + Cardinality(bad) <= MaxFaults
       /\ faults' = faults + Cardinality(bad)
       /\ cache' = PutAll(cache, Requests[c], t.facts, t.missed \ bad)
       /\ Ends(i, c, IF bad # {} THEN Degraded("failed")
                     ELSE [status |-> "ok", stamp |-> Stamp(t), since |-> t.since,
                           facts |-> t.facts])
  /\ UNCHANGED <<now, changes, round, started, pending>>

(* Faulty: no record is left of a collector that ran out of time.          *)
TimesOutSilently(i, c) ==
  /\ task[i][c].at = "running" /\ now - task[i][c].since >= task[i][c].limit
  /\ Ends(i, c, NoRecord)
  /\ UNCHANGED <<now, changes, cache, round, started, pending, faults>>

TimesOut(i, c) ==
  /\ task[i][c].at = "running" /\ now - task[i][c].since >= task[i][c].limit
  /\ Ends(i, c, Degraded("timeout"))
  /\ UNCHANGED <<now, changes, cache, round, started, pending, faults>>

Raises(i, c) ==
  /\ task[i][c].at = "running" /\ task[i][c].asked # {}
  /\ Ends(i, c, Degraded("failed"))
  /\ faults < MaxFaults /\ faults' = faults + 1
  /\ UNCHANGED <<now, changes, cache, round, started, pending>>

-----------------------------------------------------------------------------
(* InvestigationOrchestrator.run.                                          *)

Submit(i) ==
  /\ round[i] = "submitted" /\ now <= LastSubmit
  /\ round' = [round EXCEPT ![i] = "baseline"]
  /\ started' = [started EXCEPT ![i] = now]
  /\ pending' = [pending EXCEPT ![i] = Baseline]
  /\ UNCHANGED <<now, changes, cache, task, evidence, faults>>

WavesOver(i) == pending[i] = {} /\ Active(i) = {}

(* Playbooks plan collectors from the analysis of the baseline, none if    *)
(* nothing in it calls for them; the round is not started on a budget that *)
(* is used up.                                                             *)
Plan(i) ==
  /\ round[i] = "baseline" /\ WavesOver(i)
  /\ \E planned \in SUBSET Targeted :
       IF planned = {} \/ Remaining(i) = 0
       THEN /\ round' = [round EXCEPT ![i] = "over"]
            /\ UNCHANGED pending
       ELSE /\ round' = [round EXCEPT ![i] = "targeted"]
            /\ pending' = [pending EXCEPT ![i] = planned]
  /\ UNCHANGED <<now, changes, cache, started, task, evidence, faults>>

Finish(i) ==
  /\ round[i] = "targeted" /\ WavesOver(i)
  /\ round' = [round EXCEPT ![i] = "over"]
  /\ UNCHANGED <<now, changes, cache, started, pending, task, evidence, faults>>

-----------------------------------------------------------------------------
(* The cluster and the clock.                                              *)

ClusterChanges(r) ==
  /\ now \notin changes[r]
  /\ Cardinality(UNION {changes[x] \ {0} : x \in Reads}) < MaxChanges
  /\ changes' = [changes EXCEPT ![r] = @ \cup {now}]
  /\ UNCHANGED <<now, cache, round, started, pending, task, evidence, faults>>

(* The event loop cancels a collector whose time is up before time goes on,*)
(* and never lets the semaphore, the next wave or the next round wait.     *)
Due(i) ==
  \/ \E c \in Running(i) : now - task[i][c].since >= task[i][c].limit
  \/ Cardinality(Running(i)) < Concurrency /\ Active(i) # Running(i)
  \/ Active(i) = {} /\ round[i] \in {"baseline", "targeted"}

Tick ==
  /\ now < MaxTime /\ ~\E i \in Investigations : Due(i)
  /\ \E i \in Investigations : round[i] # "over"
  /\ now' = now + 1
  /\ UNCHANGED <<changes, cache, round, started, pending, task, evidence, faults>>

Next ==
  \/ \E i \in Investigations :
       \/ Submit(i) \/ StartWave(i) \/ Plan(i) \/ Finish(i)
       \/ \E c \in Collectors :
            \/ Begin(i, c) \/ Collected(i, c) \/ TimesOut(i, c) \/ Raises(i, c)
            \/ \E r \in Reads : ClusterAnswers(i, c, r)
  \/ \E r \in Reads : ClusterChanges(r)
  \/ Tick

Spec == Init /\ [][Next]_vars

(* The event loop keeps running what can run of each investigation; the    *)
(* cluster owes no answer, and time passes.                                *)
Progress(i) ==
  \/ StartWave(i) \/ Plan(i) \/ Finish(i)
  \/ \E c \in Collectors : Begin(i, c) \/ Collected(i, c) \/ TimesOut(i, c)

FairSpec == Spec /\ WF_vars(Tick) /\ \A i \in Investigations : WF_vars(Progress(i))

-----------------------------------------------------------------------------
TypeOK ==
  /\ now \in Times
  /\ changes \in [Reads -> SUBSET Times]
  /\ cache.entries \in Seq(Entry) /\ cache.bytes \in Nat
  /\ round \in [Investigations -> {"submitted", "baseline", "targeted", "over"}]
  /\ started \in [Investigations -> Times]
  /\ pending \in [Investigations -> SUBSET Collectors]
  /\ task \in [Investigations -> [Collectors -> Task]]
  /\ evidence \in [Investigations -> [Collectors -> Record]]
  /\ faults \in 0..MaxFaults

(* The fact a read brought still held at time t, or later.                 *)
HeldAt(r, fact, t) == \A d \in changes[r] : d > fact => d >= t

(* Usable evidence is not dated later than its facts: each still held when *)
(* the evidence says it was collected, give or take the time one read may  *)
(* take, whoever made the read and in whatever order reads were stored.    *)
NeverOlderThanItsStamp ==
  \A i \in Investigations, c \in Collectors :
    LET e == evidence[i][c] IN
    e.status = "ok" => \A r \in ToSet(Requests[c]) :
                         HeldAt(r, e.facts[r], Max({e.stamp, Timeout}) - Timeout)

(* Reuse is bounded: evidence dates from no earlier than the lifetime of   *)
(* an entry before its collector began.                                    *)
ReusesWhatIsFresh ==
  \A i \in Investigations, c \in Collectors :
    evidence[i][c].status = "ok" => evidence[i][c].stamp + Ttl >= evidence[i][c].since

(* An investigation that insists on fresh data gets facts that held after  *)
(* its collector began, although others fill the cache all the while.      *)
RefreshReadsLive ==
  \A i \in Refreshing, c \in Collectors :
    LET e == evidence[i][c] IN
    e.status = "ok" => \A r \in ToSet(Requests[c]) : HeldAt(r, e.facts[r], e.since)

(* What entries take up.                                                   *)
Total(entries) ==
  LET sum[n \in 0..Len(entries)] == IF n = 0 THEN 0 ELSE sum[n - 1] + Size[entries[n].read]
  IN sum[Len(entries)]

(* The cache never holds more than its budget, its account of bytes is     *)
(* that of its entries, and it holds a read once.                          *)
CacheInBounds ==
  /\ cache.bytes <= MaxBytes
  /\ cache.bytes = Total(cache.entries)
  /\ \A m, n \in 1..Len(cache.entries) :
       cache.entries[m].read = cache.entries[n].read => m = n

(* A collector runs on evidence that is there and usable, and after what   *)
(* it waits for has ended one way or the other.                            *)
RunsOnItsEvidence ==
  \A i \in Investigations, c \in Collectors :
    task[i][c].at # "none" =>
      /\ \A d \in Requires[c] : Usable(i, d)
      /\ \A d \in Optional[c] : evidence[i][d].status # "missing"

(* Collectors of the same round that c neither waits for nor keeps waiting,*)
(* c among them: at most these compete with it for a place.                *)
WaitsOn(c) == Requires[c] \cup Optional[c]
Rivals(c)  == {d \in IF c \in Baseline THEN Baseline ELSE Targeted :
                 d \notin WaitsOn(c) /\ c \notin WaitsOn(d)}
Batches(c) == (Cardinality(Rivals(c)) + Concurrency - 1) \div Concurrency

(* Collecting overruns its deadline by a bounded time: whoever is at work  *)
(* after it was admitted before it, and waits for no more than the batches *)
(* of its own wave.                                                        *)
OverrunIsBounded ==
  \A i \in Investigations, c \in Collectors :
    task[i][c].at # "none" =>
      now <= started[i] + Deadline + Timeout * (Batches(c) - 1)

(* What a collector works on is there, and is as fresh as it says,         *)
(* whatever was read, shared, stored or reused meanwhile, and by whom; and *)
(* what is bounded stays so: memory by the budget of the cache, time by    *)
(* the deadline of an investigation and the batches of a wave.             *)
Fresh ==
  NeverOlderThanItsStamp /\ ReusesWhatIsFresh /\ RefreshReadsLive /\ RunsOnItsEvidence
KeepsItsBounds == TypeOK /\ CacheInBounds /\ OverrunIsBounded
FreshInBounds == Fresh /\ KeepsItsBounds

(* A hanging cluster does not hang an investigation: it ends, with a       *)
(* record of every kind of evidence it set out to collect.                 *)
EndsAccountedFor ==
  \A i \in Investigations :
    round[i] = "baseline" ~>
      round[i] = "over" /\ \A c \in Baseline : evidence[i][c].status # "missing"

(* Docs: a collector that cannot start before the deadline is recorded as  *)
(* timed out.  Refuted when it waits for a place: README, section 4.       *)
NoneStartsLate ==
  \A i \in Investigations, c \in Collectors :
    task[i][c].at = "running" => task[i][c].since < started[i] + Deadline
=============================================================================
