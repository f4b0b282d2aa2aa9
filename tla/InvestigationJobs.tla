------------------------- MODULE InvestigationJobs -------------------------
(***************************************************************************)
(* The life of an investigation job on the distributed store: the row in   *)
(* Postgres (jobs/distributed.py), the queues and the control channel in   *)
(* Redis (persistence/redis_bus.py), and on every worker the consumer      *)
(* (jobs/consumer.py) and the runner with its asyncio tasks and watchdogs  *)
(* (jobs/runner.py).                                                       *)
(*                                                                         *)
(* A statement on the row is one step, for Postgres makes it one; whatever *)
(* the Python code does between two statements, two awaits or an await and *)
(* the thread it waits for is at least two steps, and every other process  *)
(* may run in between.  A call made through asyncio.to_thread outlives the *)
(* task that awaits it: the field "call" of a task is that thread.         *)
(*                                                                         *)
(* Leases are abstracted to "in force" or "expired" and may expire at any  *)
(* moment, so nothing stated here rests on a renewal being on time.        *)
(* Progress events are left to EventStream.                                *)
(***************************************************************************)
EXTENDS Naturals, Sequences, FiniteSets

CONSTANTS
  Jobs,           \* ids of investigations
  Workers,        \* worker identities (hostname:pid, or WORKER_ID)
  Tasks,          \* asyncio tasks; an id is used again when its task is over
  NoJob,
  Nobody,         \* NULL in the lease_worker column
  NoTask,         \* no entry in the runner's dictionary of tasks
  Shared,         \* the queue every worker reads
  MaxConcurrent,  \* job_max_concurrent
  MaxHandOffs,    \* bound: AgentElsewhere refusals taken in a behaviour
  MaxFaults,      \* bound: crashes, shutdowns, flushes and failed statements
  MaxQueued       \* bound: the length of the shared queue at which nothing is
                  \* offered again

ASSUME JobsAssumption ==
  /\ NoJob \notin Jobs
  /\ Nobody \notin Workers
  /\ Shared \notin Workers
  /\ NoTask \notin Tasks
  /\ MaxConcurrent \in Nat \ {0}
  /\ MaxHandOffs \in Nat
  /\ MaxFaults \in Nat
  /\ MaxQueued \in Nat

VARIABLES
  row,         \* the table investigations
  queue,       \* Redis lists: one per worker and the shared one
  control,     \* cancel messages a worker's listener has yet to read
  mode,        \* a worker process: up, draining, closing or down
  consumer,    \* its queue loop and the job id the loop is working on
  registered,  \* its dictionary runner._tasks
  task,        \* the asyncio tasks of all workers
  collected,   \* history: how often a run of the job began to read the cluster
  handOffs,    \* bounded by MaxHandOffs
  faults       \* bounded by MaxFaults

bounds == <<handOffs, faults>>
vars == <<row, queue, control, mode, consumer, registered, task, collected,
          bounds>>

Terminal == {"succeeded", "failed", "cancelled"}
Status   == {"none", "pending", "running"} \cup Terminal
Queues   == Workers \cup {Shared}

(* lease is lease_worker; expired is lease_expires_at < now().             *)
Row == [status : Status, cancel : BOOLEAN, lease : Workers \cup {Nobody},
        expired : BOOLEAN]

Consumer == [at : {"idle", "popped", "claimed", "unclaimable", "settling"},
             job : Jobs \cup {NoJob}]
Idle == [at |-> "idle", job |-> NoJob]

(* pc is where the coroutine is, on the worker it runs on and claimed the  *)
(* lease for, call the store call it made in a thread, dest the worker the *)
(* call hands the job to.  A task that is "gone" left a thread behind.     *)
Places == {"free", "created", "selecting", "handing", "collecting",
           "persisting", "returned", "cancelled", "recording", "gone"}
Calls  == {"none", "handOff", "push", "handedOff", "refused", "succeed",
           "fail", "stored"}
Task   == [pc : Places, on : Workers \cup {Nobody}, job : Jobs \cup {NoJob},
           cancelling : BOOLEAN, watching : BOOLEAN, call : Calls,
           dest : Workers \cup {Nobody}]
Free == [pc |-> "free", on |-> Nobody, job |-> NoJob, cancelling |-> FALSE,
         watching |-> FALSE, call |-> "none", dest |-> Nobody]

(* Where task.cancel() finds a task that is not done.                      *)
Unfinished == {"created", "selecting", "handing", "collecting", "persisting"}

(* Where a task waits for its thread and takes what the thread returns.    *)
Awaiting == {"handing", "persisting"}

Live(w) == mode[w] # "down"

(* runner.busy *)
Busy(w) == Cardinality({j \in Jobs : registered[w][j] # NoTask})

(* runner.cancel: u is the task the dictionary names, and still runs.      *)
Reached(u, w, j) == registered[w][j] = u /\ task[u].pc \in Unfinished

----------------------------------------------------------------------------
(* Statements on the row.                                                  *)

(* mark_succeeded, mark_failed and mark_cancelled: no condition but the id *)
Settle(j, outcome) ==
  row' = [row EXCEPT ![j] = [@ EXCEPT !.status = outcome, !.lease = Nobody,
                                      !.expired = FALSE]]

(* A statement may also raise, and then it has changed nothing.            *)
StatementFails ==
  /\ faults < MaxFaults
  /\ faults' = faults + 1
  /\ UNCHANGED <<row, handOffs>>

TrySettle(j, outcome) ==
  \/ Settle(j, outcome) /\ UNCHANGED bounds
  \/ StatementFails

(* What is recorded for a task cancelled on w: a shutdown is not a request *)
CancelOutcome(w) == IF mode[w] = "up" THEN "cancelled" ELSE "failed"

Push(q, j) == queue' = [queue EXCEPT ![q] = Append(@, j)]

----------------------------------------------------------------------------
(* The API.                                                                *)

(* submit: the row, and then the offer to the queue agent_affinity names.  *)
(* The push may be lost with its worker or with Redis.                     *)
Submit(j) ==
  /\ row[j].status = "none"
  /\ row' = [row EXCEPT ![j].status = "pending"]
  /\ \/ \E q \in Queues : Push(q, j)
     \/ UNCHANGED queue
  /\ UNCHANGED <<control, mode, consumer, registered, task, collected, bounds>>

(* The cancel endpoint: refused when the row is terminal; otherwise the    *)
(* flag is committed and the message published, which the listeners of any *)
(* set of running workers receive.  It may be asked for more than once.    *)
RequestCancel(j) ==
  /\ row[j].status \in {"pending", "running"}
  /\ row' = [row EXCEPT ![j].cancel = TRUE]
  /\ \E listeners \in SUBSET {w \in Workers : mode[w] = "up"} :
       control' = [w \in Workers |-> IF w \in listeners
                                     THEN control[w] \cup {j}
                                     ELSE control[w]]
  /\ UNCHANGED <<queue, mode, consumer, registered, task, collected, bounds>>

----------------------------------------------------------------------------
(* The queue consumer.                                                     *)

(* BLPOP on the worker's own queue, then the shared one.                   *)
Dequeue(w) ==
  LET q == IF queue[w] # <<>> THEN w ELSE Shared IN
  /\ mode[w] = "up"
  /\ consumer[w].at = "idle"
  /\ Busy(w) < MaxConcurrent
  /\ queue[q] # <<>>
  /\ queue' = [queue EXCEPT ![q] = Tail(@)]
  /\ consumer' = [consumer EXCEPT ![w] = [at |-> "popped", job |-> Head(queue[q])]]
  /\ UNCHANGED <<row, control, mode, registered, task, collected, bounds>>

(* Faulty: the claim without a condition on the status, or on the flag.     *)
ClaimableTwice(j) == row[j].status \in {"pending", "running"} /\ ~row[j].cancel
ClaimableCancelled(j) == row[j].status = "pending"

Claimable(j) == row[j].status = "pending" /\ ~row[j].cancel

(* The conditional UPDATE.  It runs in a thread, so it may also happen     *)
(* after the consumer was stopped.                                         *)
Claim(w) ==
  LET j == consumer[w].job IN
  /\ Live(w)
  /\ consumer[w].at = "popped"
  /\ IF Claimable(j)
     THEN /\ row' = [row EXCEPT ![j] = [@ EXCEPT !.status = "running",
                                                 !.lease = w, !.expired = FALSE]]
          /\ consumer' = [consumer EXCEPT ![w].at = "claimed"]
     ELSE /\ consumer' = [consumer EXCEPT ![w].at = "unclaimable"]
          /\ UNCHANGED row
  /\ UNCHANGED <<queue, control, mode, registered, task, collected, bounds>>

(* runner.start: the dictionary entry is replaced whatever it held.        *)
Start(w, t) ==
  LET j == consumer[w].job IN
  /\ mode[w] = "up"
  /\ consumer[w].at = "claimed"
  /\ task[t].pc = "free"
  /\ task' = [task EXCEPT ![t] = [Free EXCEPT !.pc = "created", !.on = w, !.job = j]]
  /\ registered' = [registered EXCEPT ![w][j] = t]
  /\ consumer' = [consumer EXCEPT ![w] = Idle]
  /\ UNCHANGED <<row, queue, control, mode, collected, bounds>>

(* Faulty: an id that cannot be claimed is dropped without a look.          *)
DropUnclaimable(w) ==
  /\ Live(w)
  /\ consumer[w].at = "unclaimable"
  /\ consumer' = [consumer EXCEPT ![w] = Idle]
  /\ UNCHANGED <<row, queue, control, mode, registered, task, collected,
                 bounds>>

(* _settle_unclaimable: read the row, decide ...                           *)
ReadUnclaimable(w) ==
  LET r == row[consumer[w].job] IN
  /\ Live(w)
  /\ consumer[w].at = "unclaimable"
  /\ consumer' = [consumer EXCEPT ![w] =
       IF r.status \notin Terminal /\ r.cancel THEN [@ EXCEPT !.at = "settling"]
                                               ELSE Idle]
  /\ UNCHANGED <<row, queue, control, mode, registered, task, collected,
                 bounds>>

(* ... and then write, whatever the row has become.                        *)
SettleUnclaimable(w) ==
  /\ Live(w)
  /\ consumer[w].at = "settling"
  /\ Settle(consumer[w].job, "cancelled")
  /\ consumer' = [consumer EXCEPT ![w] = Idle]
  /\ UNCHANGED <<queue, control, mode, registered, task, collected, bounds>>

(* consumer.stop cancels the loop at the await it is in, and whatever      *)
(* raises makes _forever start it over.  Either way the popped id is       *)
(* dropped, and a job just claimed is not started.                         *)
Abandon(w) ==
  /\ consumer[w].at # "idle"
  /\ \/ mode[w] \in {"draining", "closing"} /\ UNCHANGED faults
     \/ mode[w] = "up" /\ faults < MaxFaults /\ faults' = faults + 1
  /\ consumer' = [consumer EXCEPT ![w] = Idle]
  /\ UNCHANGED <<row, queue, control, mode, registered, task, collected,
                 handOffs>>

(* _consume_control and notify_cancel. *)
ReceiveCancel(w, j) ==
  /\ mode[w] = "up"
  /\ j \in control[w]
  /\ control' = [control EXCEPT ![w] = @ \ {j}]
  /\ task' = [u \in Tasks |->
       IF Reached(u, w, j) THEN [task[u] EXCEPT !.cancelling = TRUE] ELSE task[u]]
  /\ UNCHANGED <<row, queue, mode, consumer, registered, collected, bounds>>

----------------------------------------------------------------------------
(* The reaper.                                                             *)

(* Faulty: cancelled rows are not offered again, for nobody will run them.  *)
RequeueUncancelled(w, j) ==
  /\ mode[w] = "up"
  /\ row[j].status = "pending" /\ ~row[j].cancel
  /\ Len(queue[Shared]) < MaxQueued
  /\ Push(Shared, j)
  /\ UNCHANGED <<row, control, mode, consumer, registered, task, collected,
                 bounds>>

(* requeue_unclaimed: to the shared queue, whatever queue the job was on.  *)
Requeue(w, j) ==
  /\ mode[w] = "up"
  /\ row[j].status = "pending"
  /\ Len(queue[Shared]) < MaxQueued
  /\ Push(Shared, j)
  /\ UNCHANGED <<row, control, mode, consumer, registered, task, collected,
                 bounds>>

Lapsed(j) ==
  row[j].status = "running" /\ row[j].lease # Nobody /\ row[j].expired

(* Faulty: a lapsed job is offered again, or gets a status of its own.      *)
ReapedToPending(r) == [r EXCEPT !.status = "pending", !.lease = Nobody, !.expired = FALSE]
ReapedAsLost(r) == [r EXCEPT !.status = "lost", !.lease = Nobody, !.expired = FALSE]

(* What reap_expired makes of a lapsed row.                                *)
Reaped(r) == [r EXCEPT !.status = "failed", !.lease = Nobody, !.expired = FALSE]

(* reap_expired: every lapsed row in one UPDATE.                           *)
Reap(w) ==
  /\ mode[w] = "up"
  /\ \E j \in Jobs : Lapsed(j)
  /\ row' = [j \in Jobs |-> IF Lapsed(j) THEN Reaped(row[j]) ELSE row[j]]
  /\ UNCHANGED <<queue, control, mode, consumer, registered, task, collected,
                 bounds>>

LeaseExpires(j) ==
  /\ row[j].lease # Nobody
  /\ ~row[j].expired
  /\ row' = [row EXCEPT ![j].expired = TRUE]
  /\ UNCHANGED <<queue, control, mode, consumer, registered, task, collected,
                 bounds>>

----------------------------------------------------------------------------
(* A task: _run_execute and _run_when_reachable.                           *)

(* Nothing but the cancellation happens to a task that is being cancelled. *)
At(t, label) == task[t].pc = label /\ ~task[t].cancelling

(* What becomes of r when its thread ends, and when its coroutine is over. *)
AfterCall(r, result) ==
  IF r.pc \in Awaiting THEN [r EXCEPT !.call = result, !.dest = Nobody]
  ELSE IF r.pc = "gone" THEN Free
  ELSE [r EXCEPT !.call = "none", !.dest = Nobody]

AfterTask(r) ==
  IF r.call = "none" THEN Free
  ELSE [r EXCEPT !.pc = "gone", !.cancelling = FALSE]

(* A task that no longer waits drops what the thread left for it.          *)
Unread(r) == IF r.call \in {"handedOff", "refused", "stored"} THEN "none" ELSE r.call

(* The coroutine's first step starts the watchdog.                         *)
Begin(t) ==
  /\ At(t, "created")
  /\ task' = [task EXCEPT ![t] = [@ EXCEPT !.pc = "selecting", !.watching = TRUE]]
  /\ UNCHANGED <<row, queue, control, mode, consumer, registered, collected,
                 bounds>>

(* select_provider finds the cluster reachable from here.                  *)
Select(t) ==
  /\ At(t, "selecting")
  /\ task' = [task EXCEPT ![t].pc = "collecting"]
  /\ collected' = [collected EXCEPT ![task[t].job] = @ + 1]
  /\ UNCHANGED <<row, queue, control, mode, consumer, registered, bounds>>

(* AgentElsewhere: the hand-off is tried, in a thread.                     *)
SelectElsewhere(t, w) ==
  /\ At(t, "selecting")
  /\ w # task[t].on
  /\ handOffs < MaxHandOffs
  /\ handOffs' = handOffs + 1
  /\ task' = [task EXCEPT ![t] = [@ EXCEPT !.pc = "handing", !.call = "handOff",
                                           !.dest = w]]
  /\ UNCHANGED <<row, queue, control, mode, consumer, registered, collected,
                 faults>>

(* ClusterUnreachable when selecting (AgentAway past its grace, a revoked  *)
(* agent) or any exception of the run: recorded in line, then the watchdog *)
(* stops.                                                                  *)
RunFails(t) ==
  /\ At(t, "selecting") \/ At(t, "collecting")
  /\ TrySettle(task[t].job, "failed")
  /\ task' = [task EXCEPT ![t] = [@ EXCEPT !.pc = "returned", !.watching = FALSE]]
  /\ UNCHANGED <<queue, control, mode, consumer, registered, collected>>

(* The run returned: the watchdog stops first, and then the outcome is     *)
(* written in a thread, mark_failed when collection_failure says so.       *)
RunReturns(t) ==
  /\ At(t, "collecting")
  /\ \E write \in {"succeed", "fail"} :
       task' = [task EXCEPT ![t] = [@ EXCEPT !.pc = "persisting", !.call = write,
                                             !.watching = FALSE]]
  /\ UNCHANGED <<row, queue, control, mode, consumer, registered, collected,
                 bounds>>

(* Faulty: a hand-off that keeps the lease.                                *)
GiveBackLeased(j) ==
  row' = [row EXCEPT ![j] = [@ EXCEPT !.status = "pending"]]

(* The conditional UPDATE of hand_off: its condition, and what it writes.  *)
Returnable(j, w) ==
  row[j].status = "running" /\ row[j].lease = w /\ ~row[j].cancel

GiveBack(j) ==
  row' = [row EXCEPT ![j] = [@ EXCEPT !.status = "pending", !.lease = Nobody,
                                      !.expired = FALSE]]

(* hand_off, first the UPDATE, which may match no row or raise ...         *)
HandOffRow(t) ==
  LET j == task[t].job
      w == task[t].on IN
  /\ task[t].call = "handOff"
  /\ \/ /\ Returnable(j, w)
        /\ GiveBack(j)
        /\ task' = [task EXCEPT ![t].call = "push"]
        /\ UNCHANGED bounds
     \/ /\ \/ ~Returnable(j, w) /\ UNCHANGED <<row, bounds>>
           \/ StatementFails
        /\ task' = [task EXCEPT ![t] = AfterCall(@, "refused")]
  /\ UNCHANGED <<queue, control, mode, consumer, registered, collected>>

(* ... and then the push, which raises when Redis does not answer.         *)
HandOffPush(t) ==
  /\ task[t].call = "push"
  /\ \/ /\ Push(task[t].dest, task[t].job)
        /\ task' = [task EXCEPT ![t] = AfterCall(@, "handedOff")]
        /\ UNCHANGED faults
     \/ /\ faults < MaxFaults
        /\ faults' = faults + 1
        /\ task' = [task EXCEPT ![t] = AfterCall(@, "refused")]
        /\ UNCHANGED queue
  /\ UNCHANGED <<row, control, mode, consumer, registered, collected,
                 handOffs>>

(* Handed off: nothing is recorded.                                        *)
HandedOff(t) ==
  /\ At(t, "handing")
  /\ task[t].call = "handedOff"
  /\ task' = [task EXCEPT ![t] = [@ EXCEPT !.pc = "returned", !.watching = FALSE,
                                           !.call = "none"]]
  /\ UNCHANGED <<row, queue, control, mode, consumer, registered, collected,
                 bounds>>

(* Refused, or the push raised: the job is recorded as failed.             *)
HandOffRefused(t) ==
  /\ At(t, "handing")
  /\ task[t].call = "refused"
  /\ TrySettle(task[t].job, "failed")
  /\ task' = [task EXCEPT ![t] = [@ EXCEPT !.pc = "returned", !.watching = FALSE,
                                           !.call = "none"]]
  /\ UNCHANGED <<queue, control, mode, consumer, registered, collected>>

(* mark_succeeded or mark_failed, in the thread.                           *)
Persist(t) ==
  /\ task[t].call \in {"succeed", "fail"}
  /\ TrySettle(task[t].job, IF task[t].call = "succeed" THEN "succeeded" ELSE "failed")
  /\ task' = [task EXCEPT ![t] = AfterCall(@, "stored")]
  /\ UNCHANGED <<queue, control, mode, consumer, registered, collected>>

Persisted(t) ==
  /\ At(t, "persisting")
  /\ task[t].call = "stored"
  /\ task' = [task EXCEPT ![t] = [@ EXCEPT !.pc = "returned", !.call = "none"]]
  /\ UNCHANGED <<row, queue, control, mode, consumer, registered, collected,
                 bounds>>

(* CancelledError at the await the task is in.  Inside the try it is       *)
(* recorded in line, and a record that raises replaces the cancellation.   *)
CancelInTry(t) ==
  /\ task[t].pc \in {"selecting", "handing", "collecting"}
  /\ task[t].cancelling
  /\ \E recorded \in BOOLEAN :
       /\ IF recorded
          THEN Settle(task[t].job, CancelOutcome(task[t].on)) /\ UNCHANGED bounds
          ELSE StatementFails
       /\ task' = [task EXCEPT ![t] =
            [@ EXCEPT !.pc = IF recorded THEN "cancelled" ELSE "returned",
                      !.watching = FALSE, !.call = Unread(task[t])]]
  /\ UNCHANGED <<queue, control, mode, consumer, registered, collected>>

(* Before the first step, and while persisting, no handler sees it.        *)
CancelOutsideTry(t) ==
  /\ task[t].pc \in {"created", "persisting"}
  /\ task[t].cancelling
  /\ task' = [task EXCEPT ![t] = [@ EXCEPT !.pc = "cancelled",
                                           !.call = Unread(task[t])]]
  /\ UNCHANGED <<row, queue, control, mode, consumer, registered, collected,
                 bounds>>

(* The done callback: the entry goes whatever task it names; a cancelled   *)
(* task then looks at the row ...                                          *)
Finished(t) ==
  LET r == task[t] IN
  /\ r.pc \in {"returned", "cancelled"}
  /\ registered' = [registered EXCEPT ![r.on][r.job] = NoTask]
  /\ task' = [task EXCEPT ![t] =
       IF r.pc = "cancelled" /\ row[r.job].status \notin Terminal
       THEN [@ EXCEPT !.pc = "recording"]
       ELSE AfterTask(@)]
  /\ UNCHANGED <<row, queue, control, mode, consumer, collected, bounds>>

(* ... and records the outcome the coroutine could not.                    *)
RecordCancel(t) ==
  /\ task[t].pc = "recording"
  /\ TrySettle(task[t].job, CancelOutcome(task[t].on))
  /\ task' = [task EXCEPT ![t] = AfterTask(@)]
  /\ UNCHANGED <<queue, control, mode, consumer, registered, collected>>

----------------------------------------------------------------------------
(* The watchdog of a task.                                                 *)

(* The flag is set: cancel whatever task the dictionary names, and stop.   *)
WatchdogCancels(t) ==
  LET r == task[t] IN
  /\ r.watching
  /\ row[r.job].cancel
  /\ task' = [u \in Tasks |->
       [task[u] EXCEPT !.cancelling = @ \/ Reached(u, r.on, r.job),
                       !.watching = @ /\ u # t]]
  /\ UNCHANGED <<row, queue, control, mode, consumer, registered, collected,
                 bounds>>

WatchdogRenews(t) ==
  LET r == task[t] IN
  /\ r.watching
  /\ ~row[r.job].cancel
  /\ row[r.job].lease = r.on
  /\ row[r.job].expired
  /\ row' = [row EXCEPT ![r.job].expired = FALSE]
  /\ UNCHANGED <<queue, control, mode, consumer, registered, task, collected,
                 bounds>>

----------------------------------------------------------------------------
(* Processes.                                                              *)

(* Everything in the process is gone, threads included.                    *)
LoseProcess(w) ==
  /\ mode' = [mode EXCEPT ![w] = "down"]
  /\ control' = [control EXCEPT ![w] = {}]
  /\ consumer' = [consumer EXCEPT ![w] = Idle]
  /\ registered' = [registered EXCEPT ![w] = [j \in Jobs |-> NoTask]]
  /\ task' = [t \in Tasks |-> IF task[t].on = w THEN Free ELSE task[t]]
  /\ UNCHANGED <<row, queue, collected, handOffs>>

Crash(w) ==
  /\ Live(w)
  /\ faults < MaxFaults
  /\ faults' = faults + 1
  /\ LoseProcess(w)

Restart(w) ==
  /\ mode[w] = "down"
  /\ mode' = [mode EXCEPT ![w] = "up"]
  /\ UNCHANGED <<row, queue, control, consumer, registered, task, collected,
                 bounds>>

(* StateBackend.shutdown: consumer.stop and runner.drain ...               *)
BeginShutdown(w) ==
  /\ mode[w] = "up"
  /\ faults < MaxFaults
  /\ faults' = faults + 1
  /\ mode' = [mode EXCEPT ![w] = "draining"]
  /\ control' = [control EXCEPT ![w] = {}]
  /\ UNCHANGED <<row, queue, consumer, registered, task, collected, handOffs>>

(* ... the deadline passes and runner.shutdown cancels what is left ...    *)
CancelRemaining(w) ==
  /\ mode[w] = "draining"
  /\ mode' = [mode EXCEPT ![w] = "closing"]
  /\ task' = [u \in Tasks |->
       IF \E j \in Jobs : Reached(u, w, j)
       THEN [task[u] EXCEPT !.cancelling = TRUE] ELSE task[u]]
  /\ UNCHANGED <<row, queue, control, consumer, registered, collected, bounds>>

(* ... waits for them, and the process ends.                               *)
Exit(w) ==
  /\ mode[w] = "closing"
  /\ consumer[w].at = "idle"
  /\ \A j \in Jobs : registered[w][j] = NoTask
  /\ LoseProcess(w)
  /\ UNCHANGED faults

(* Redis loses every list and every message on its way.                    *)
FlushRedis ==
  /\ faults < MaxFaults
  /\ faults' = faults + 1
  /\ queue' = [q \in Queues |-> <<>>]
  /\ control' = [w \in Workers |-> {}]
  /\ UNCHANGED <<row, mode, consumer, registered, task, collected, handOffs>>

----------------------------------------------------------------------------
Init ==
  /\ row = [j \in Jobs |-> [status |-> "none", cancel |-> FALSE,
                            lease |-> Nobody, expired |-> FALSE]]
  /\ queue = [q \in Queues |-> <<>>]
  /\ control = [w \in Workers |-> {}]
  /\ mode = [w \in Workers |-> "up"]
  /\ consumer = [w \in Workers |-> Idle]
  /\ registered = [w \in Workers |-> [j \in Jobs |-> NoTask]]
  /\ task = [t \in Tasks |-> Free]
  /\ collected = [j \in Jobs |-> 0]
  /\ handOffs = 0
  /\ faults = 0

Consume(w) ==
  \/ Dequeue(w)
  \/ Claim(w)
  \/ \E t \in Tasks : Start(w, t)
  \/ ReadUnclaimable(w)
  \/ SettleUnclaimable(w)
  \/ Abandon(w)

Coroutine(t) ==
  \/ Begin(t)
  \/ Select(t)
  \/ \E w \in Workers : SelectElsewhere(t, w)
  \/ RunFails(t)
  \/ RunReturns(t)
  \/ HandedOff(t)
  \/ HandOffRefused(t)
  \/ Persisted(t)
  \/ CancelInTry(t)
  \/ CancelOutsideTry(t)
  \/ Finished(t)
  \/ RecordCancel(t)

Thread(t) == HandOffRow(t) \/ HandOffPush(t) \/ Persist(t)

Watchdog(t) == WatchdogCancels(t) \/ WatchdogRenews(t)

Process(w) ==
  Crash(w) \/ Restart(w) \/ BeginShutdown(w) \/ CancelRemaining(w) \/ Exit(w)

Next ==
  \/ \E j \in Jobs : Submit(j) \/ RequestCancel(j) \/ LeaseExpires(j)
  \/ \E w \in Workers, j \in Jobs : ReceiveCancel(w, j) \/ Requeue(w, j)
  \/ \E w \in Workers : Consume(w) \/ Reap(w) \/ Process(w)
  \/ \E t \in Tasks : Coroutine(t) \/ Thread(t) \/ Watchdog(t)
  \/ FlushRedis

Spec == Init /\ [][Next]_vars

----------------------------------------------------------------------------
(* A watchdog on the lease of j, which keeps it from lapsing for good.     *)
Renewed(j) ==
  \E t \in Tasks :
    task[t].watching /\ task[t].job = j /\ task[t].on = row[j].lease

(* What the event loops, the threads and the clock owe: a step that stays  *)
(* possible is taken.  A process that is down is started again, a lease    *)
(* that nobody renews lapses.  No fairness is asked of clients, messages   *)
(* or faults.                                                              *)
Scheduled ==
  /\ \A w \in Workers : /\ WF_vars(Consume(w))
                        /\ WF_vars(Restart(w) \/ CancelRemaining(w) \/ Exit(w))
  /\ WF_vars(\E w \in Workers : Reap(w))
  /\ \A j \in Jobs : /\ WF_vars(\E w \in Workers : Requeue(w, j))
                     /\ WF_vars(~Renewed(j) /\ LeaseExpires(j))
  /\ \A t \in Tasks : WF_vars(Thread(t)) /\ WF_vars(WatchdogCancels(t))

(* Every run ends, for each read of the cluster has a budget.              *)
RunsEnd == \A t \in Tasks : WF_vars(Coroutine(t))

(* A run may hang where it reads the cluster, until it is cancelled.       *)
Hanging(t) == At(t, "collecting")
RunsMayHang == \A t \in Tasks : WF_vars(~Hanging(t) /\ Coroutine(t))

FairSpec == Spec /\ Scheduled /\ RunsMayHang

----------------------------------------------------------------------------
TypeOK ==
  /\ row \in [Jobs -> Row]
  /\ queue \in [Queues -> Seq(Jobs)]
  /\ control \in [Workers -> SUBSET Jobs]
  /\ mode \in [Workers -> {"up", "draining", "closing", "down"}]
  /\ consumer \in [Workers -> Consumer]
  /\ registered \in [Workers -> [Jobs -> Tasks \cup {NoTask}]]
  /\ task \in [Tasks -> Task]
  /\ collected \in [Jobs -> Nat]
  /\ handOffs \in 0..MaxHandOffs
  /\ faults \in 0..MaxFaults

(* A consumer that will start j; a task that has yet to read the cluster   *)
(* and can still give j back; a task that runs j: whoever a claim made     *)
(* responsible for j.                                                      *)
Starting(w, j) == consumer[w].at = "claimed" /\ consumer[w].job = j
Early(t, j) ==
  /\ task[t].job = j
  /\ task[t].pc \in {"created", "selecting"} \/ task[t].call = "handOff"
Running(t, j) ==
  Early(t, j) \/ (task[t].job = j /\ task[t].pc = "collecting")
Held(j) == (\E w \in Workers : Starting(w, j)) \/ (\E t \in Tasks : Running(t, j))

(* Two workers never run the same investigation, nor does one worker twice *)
(* ("two workers cannot run the same investigation", jobs/distributed.py): *)
(* not through duplicate messages, a re-offer, a hand-off in flight whose  *)
(* task was cancelled, a lapsed lease or a crash.  And a row on offer is   *)
(* in nobody's hands.                                                      *)
OneRunner ==
  \A j \in Jobs :
    /\ \A w, x \in Workers : Starting(w, j) /\ Starting(x, j) => w = x
    /\ \A t, u \in Tasks : Running(t, j) /\ Running(u, j) => t = u
    /\ \A w \in Workers, t \in Tasks : ~(Starting(w, j) /\ Running(t, j))
    /\ row[j].status \in {"none", "pending"} => ~Held(j)

(* An investigation reads the cluster at most once in its whole life,      *)
(* however often it is offered, handed off, reaped or lost with a worker:  *)
(* a hand-off happens before any collection, and nothing re-runs a job.    *)
CollectedAtMostOnce == \A j \in Jobs : collected[j] <= 1

(* A row is leased exactly while it is running.  reap_expired looks only   *)
(* at running rows with a lease, so a running row without one would stay   *)
(* running for ever once its worker is gone.                               *)
RunningIsLeased ==
  \A j \in Jobs : row[j].status = "running" <=> row[j].lease # Nobody

(* While the row says running, a task that runs the job does so under the  *)
(* lease in the row, on the worker whose watchdog renews it: renewals of a *)
(* live run never miss.                                                    *)
RunsUnderItsLease ==
  \A t \in Tasks, j \in Jobs :
    Running(t, j) /\ row[j].status = "running" => row[j].lease = task[t].on

(* A job cancelled while nobody had claimed it is never claimed: no step   *)
(* after the flag is committed brings it into anybody's hands, by a claim  *)
(* or through a hand-off.                                                  *)
CancelledIsNeverClaimed ==
  [][\A j \in Jobs : row[j].cancel /\ ~Held(j) => ~Held(j)']_vars

(* A job that reached a terminal state is never offered or run again: only *)
(* another terminal state may replace it.                                  *)
NeverReopened ==
  [][\A j \in Jobs : row[j].status \in Terminal => row'[j].status \in Terminal]_vars

(* "Jobs survive a restart": an accepted investigation reaches a terminal  *)
(* state although messages are lost or duplicated, workers crash or shut   *)
(* down at any point, statements fail and agents move to other workers, as *)
(* long as no run hangs for ever.                                          *)
EventuallySettled ==
  RunsEnd => \A j \in Jobs : row[j].status = "pending" ~> row[j].status \in Terminal

(* Cancelling works although its message may be lost and the run may hang: *)
(* the committed flag is found by the watchdog or by the queue consumer.   *)
CancelSettles == \A j \in Jobs : row[j].cancel ~> row[j].status \in Terminal

(* The watchdog's committed flag "makes cancellation a guarantee rather    *)
(* than a best effort" (jobs/runner.py): an investigation whose cancel was *)
(* accepted does not end as succeeded.  It can: once the watchdog stopped. *)
CancelIsAGuarantee ==
  \A j \in Jobs : row[j].cancel => row[j].status # "succeeded"

(* The workers that have j in hand, and what is promised of a job.         *)
HandsOf(j) ==
  {w \in Workers : Starting(w, j) \/ \E t \in Tasks : Running(t, j) /\ task[t].on = w}

Contract == INSTANCE JobContract WITH
  Outcomes <- Terminal,
  answer <- [j \in Jobs |-> row[j].status],
  hands  <- [j \in Jobs |-> HandsOf(j)],
  reads  <- collected

(* Rows, leases, queues and threads together keep the contract of a job.   *)
KeepsContract == Contract!Spec

(* A run is the one that cancelling its job reaches: runner.cancel says it *)
(* cancels "the task if this process is the one running it", so while a    *)
(* worker runs a job its dictionary names the task that does.              *)
RunIsReachable ==
  \A t \in Tasks, j \in Jobs :
    Running(t, j) /\ task[t].pc \in Unfinished /\ mode[task[t].on] = "up"
      => \E u \in Tasks : Reached(u, task[t].on, j)
=============================================================================
