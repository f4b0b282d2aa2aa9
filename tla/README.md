# A TLA+ model of the troubleshooting agent

The repository is an investigation platform for Kubernetes: an API accepts
investigations, workers run them, agents in the clusters answer their reads, and
a client follows the progress as a stream of events. This directory holds TLA+
modules for the parts that carry the hardest promises: the life of an
investigation job, its event stream and the page that shows it, what may start
one, the collection of its evidence, what is concluded from it and the plan that
answers it, the reports that are kept, who may do what, the agents that answer its
reads and how they keep their identity; the TLC configurations that check them; and
TLAPS proofs of the invariants that matter most.

Paths below are relative to `backend/app/` unless they begin with `agent/`,
`frontend/` or `docs/`.

## 1. The system

| Part | State | Operations | Meets others by |
|---|---|---|---|
| Job store, distributed (`jobs/distributed.py`) | table `investigations` (status, cancel flag, lease), table `investigation_events` | create, claim, mark_*, request_cancel, renew_lease, reap_expired, hand_off, requeue_unclaimed, publish, subscribe | SQL statements; Redis messages |
| Job store, in-process (`jobs/store.py`) | dictionaries of jobs, subscribers, counters | the same protocol, no queue | calls from the event loop and from threads |
| Queue and channels (`persistence/redis_bus.py`) | a list per worker and a shared one, pub/sub | enqueue, dequeue, control, events | at-most-once messages |
| Consumer (`jobs/consumer.py`) | its three loops | pop, claim, start; control; reap and requeue | store, bus, runner |
| Runner (`jobs/runner.py`) | dictionary of tasks, one watchdog per task | submit, start, cancel, hand over, drain, shutdown | store, tasks |
| Process (`state.py`, `main.py`) | readiness, back-ends | start, shutdown | all of the above |
| Gateway (`gateway/server.py`, `session.py`) | sessions, pending requests | register, collect, reconcile, sweep revocations | gRPC streams, presence |
| Presence (`gateway/presence.py`) | expiring records | announce, withdraw, holder | Redis |
| Agent identity (`gateway/identity.py`, `security/enrolment.py`, `persistence/agent_identity.py`) | tokens, certificates, revocations | enrol, renew, revoke | gateway, files or tables |
| Collection (`collectors/`, `playbooks/`, `providers/`) | cache of reads, waves and rounds | collect, fetch_many, reuse | gateway, agents |
| Rate limits and triggers (`ratelimit/`, `events/`) | windowed counters, seen triggers | hit, claim a trigger | Redis or memory |
| Go agent (`agent/`) | identity files, connection | enrol, renew, reconnect, collect | gateway |
| Analysis (`analysis/`) | none; rules | extract signals, score and rank hypotheses | evidence, report |
| Console (`frontend/src/hooks/useInvestigationJob.ts`) | state and refs of one hook | attach, stream, poll, retry, settle | API, event stream |
| Remediation (`remediation/`) | none; rules | a plan for a hypothesis | report; an operator |
| Reports and history (`services/history_service.py`, `report_store.py`) | files and an index, or tables | save, regenerate, prune | the end of a job, HTTP, the sweep |
| Access (`auth/`, `authz/`, `api/members.py`) | members of each tenant | authenticate, gate, assign, remove, suspend | HTTP, the host's shell |
| Notifications, integrations | content and tables | sequential | HTTP |

What is hard about the parts modelled here:

* a job is known in four places (row, queue, task dictionary, thread), of which
  only the row is durable, and messages between them may be lost or duplicated;
* a call made through `asyncio.to_thread` outlives the coroutine that awaits
  it, so a cancelled task can still change the row;
* workers crash, restart under the same identity and shut down in the middle of
  a pop, a claim, a hand-off or a write;
* numbers of events are handed out at the INSERT and seen at the COMMIT, and
  their messages travel apart from both;
* an agent leaves a stream long before its worker notices, so streams of one
  cluster overlap on one worker or two, and their ends, answers and
  announcements arrive in any order;
* a lease that ran out looks the same whether its worker died or the store was
  away, and the reaper meets the store's outages as well as the watchdog;
* a token, a certificate and its record change in three processes, and the
  decision to renew is made on a copy of the revocations;
* evidence is put together from reads that others made earlier, while
  collectors compete for places and for time;
* what stands between a worker and a cluster comes and goes between two reads, and
  says the same thing in other words by either route;
* the way to a cluster is chosen by five reads, between which its agent moves;
* a model may answer anything, or not at all;
* alerts and callers are counted in keys that expire, by workers that fail
  between two of them;
* the page of an investigation hears of it from a load, a stream and a poller at
  once, any of which may fail;
* a report is rendered, listed, rendered again and swept by threads and processes
  that do not wait for each other, on a disk where a report is three files;
* a plan is followed by hand, much later, on a cluster that others change too;
* members change each other, between the look of one and its write.

What makes each of these parts correct:

| Part | Correct when |
|---|---|
| Jobs | one worker has a job at a time; the cluster is read at most once; an outcome is for good; a cancelled job is not started; everything accepted gets an outcome |
| Event streams | no event twice, none out of order, none missing, the terminal one last, and then the stream ends |
| Gateway and presence | an answer completes the call it was given for; no call waits on a session that is over; an agent that is connected is found; a revoked one is dropped |
| Leases | a live worker's job is never reaped, a dead one's always |
| Agent identity | a token buys one certificate; what is in use is on record; a revoked certificate is hardly renewed; an identity survives a crash and does not run out |
| Collection | evidence is as fresh as it says; a collector runs on what it needs; overruns are bounded; everything is accounted for |
| Rate limits, triggers | a limit holds for the fleet; a trigger starts one investigation, and is not forgotten |
| The way to a cluster | it is read through its agent where one is known, never through a namesake, and refused for a reason that was there |
| The verdict | "healthy" was looked for; a severity is earned; what is blamed for a failed run stood in its way; both routes find the same |
| Diagnosis | what a model says is kept if it is grounded and otherwise not told; a diagnosis explains what it was told of |
| Analysis | a status does not depend on the moment of the read; what is said is so; the cause is named with whatever was read; a hypothesis rests on the resource it names and on nothing else |
| Remediation | what a plan asserts is so; it can be followed to its end; its rollback restores |
| Reports | what is listed can be downloaded, and is still its owner's; what is past retention goes |
| Access | nobody comes to more than they were granted, by somebody who held it; a tenant keeps an owner |
| Console | what is shown is what was published, and how it ended |

`PROJECT.json` lists every hazard at its line, the properties that would catch
it, and the ones no model reaches yet.

## 2. Modules

| Module | Models | Kind |
|---|---|---|
| `InvestigationJobs` | rows, leases, queues, consumers, tasks, threads, watchdogs, processes | detailed specification |
| `JobContract` | what a job's submitter is promised | abstract specification |
| `InvestigationJobs_proofs` | theorems about `InvestigationJobs`, one of them that it implements `JobContract` | proofs |
| `EventStream` | publish, commit, announce; one subscriber of the distributed store | specification |
| `EventStream_proofs` | its theorems | proofs |
| `MemoryStream` | publish, subscribe and close of the in-process store | specification |
| `AgentGateway` | streams of one agent on the workers, calls on them, revocation, the presence record | specification |
| `AgentGateway_proofs` | its theorems | proofs |
| `Route` | the queue a job is put on, the choice between agent and kubeconfig, and the runner's way with a refusal | specification |
| `LeaseClock` | watchdog, reaper and outages of the store, with time | specification |
| `AgentIdentity` | tokens, certificates, renewal and revocation; the agent's stored identity | specification |
| `Collection` | waves, budgets and rounds of collectors over a cache of reads | specification |
| `Collection_proofs` | its theorem | proofs |
| `Admission` | the ledger of alerts and the rate limits | specification |
| `Admission_proofs` | its theorems | proofs |
| `ListReader` | the reader that takes a long list from kubectl in chunks | functions of an answer |
| `Reading` | what a read of a cluster brings back by either route, and what is made of an error | functions |
| `Findings` | one investigation's reads, what the inspectors find in them, and the verdict | specification |
| `PodStatus` | the status a read gives a pod, and the kubelet that produces what is read | specification |
| `Incident` | a fault as it unfolds; signals, graph rules and the reads of the playbooks | functions of a state that changes |
| `HypothesisRules` | the table of hypotheses | constants |
| `Analysis` | scoring and ranking of hypotheses | functions of the signals of a read |
| `Diagnosis` | the call to a model, the check of its answer, what is told with and without it | specification |
| `DeepReads` | the deep reads of a failing pod, what the cluster does between them, and what the rules make of them | specification |
| `Diagnosis_proofs` | theorems about `DeepReads`, `PodStatus` and `Incident`, as `MCDiagnosis` runs them | proofs |
| `Remediation` | the rules that make a plan, and an operator who follows it | specification |
| `Reports` | saving, rendering again and sweeping of reports, and their history | specification |
| `Access` | members of tenants, the gate of the routes, the changes made to members | specification |
| `Console` | the hook behind the page of an investigation | specification |
| `MCInvestigationJobs` | the symmetry set of the jobs' safety run | model checking |
| `MCRenewals` | `LeaseClock`, `AgentIdentity`, `AgentGateway` (calls) and `Route` side by side | model checking |
| `Renewals_proofs` | the theorems of `LeaseClock`, `AgentIdentity` and `Route`, and that they and those of `AgentGateway` hold of `MCRenewals` | proofs |
| `MCGateway` | `AgentGateway` without calls, with an agent that is enrolled anew | model checking |
| `MCStreams` | `EventStream` and `MemoryStream` side by side | model checking |
| `MCDiagnosis` | `Incident`, `Analysis`, `Diagnosis`, `DeepReads`, `PodStatus` and `Remediation` side by side, on one small cluster | model checking |
| `MCService` | `Access`, `Reports` and `Console` side by side | model checking |
| `Service_proofs` | theorems about `Access`, `Reports` and `Console`, as `MCService` runs them | proofs |
| `MCCollection` | `Collection`, `ListReader` and `Findings` side by side | model checking |
| `MCAdmission` | an instance | model checking |

A definition marked "Faulty" is a variant with one
plausible bug and is used by no specification: each shows that the property
next to it in `PROJECT.json` would notice that bug. `collected` counts what
`InvestigationJobs` promises about reads of the cluster; how one read travels to
the agent is `AgentGateway`; how progress travels to the client is `EventStream`
or `MemoryStream`. The parts are linked by these abstractions: `Select` in
`InvestigationJobs` finds the agent here, elsewhere or nowhere, as the registry
and the presence record of `AgentGateway` may say at any time (`Route` says what is
read to find out); a run that ends
is `Settle` of the streams; a reaped one is `Reap`. `LeaseExpires` of
`InvestigationJobs` may happen at any time; `LeaseClock` says when it does. A
publish of the streams is the end of a collector in `Collection`, whose reads
travel as calls of `AgentGateway`. `Renew` of the gateway, which gives a stream a
new serial, is the renewal of `AgentIdentity`. `Start` of `Admission` is `Submit`
of a job. `Advance` and `Publish` of `Console` are the row and the table of
events of a job.

### InvestigationJobs

| State | Code |
|---|---|
| `row[j]` | status, `cancel_requested`, `lease_worker`, and whether `lease_expires_at` has passed |
| `queue[q]` | the Redis lists `queue:<worker>` and the shared one |
| `control[w]` | cancel messages the worker's listener has not read |
| `mode[w]` | up; draining (`consumer.stop`, `runner.drain`); closing (`runner.shutdown`); down |
| `consumer[w]` | where `_claim_and_run` is, and with which id |
| `registered[w][j]` | `runner._tasks` |
| `task[t]` | a coroutine `_run_execute`: place, worker, pending cancellation, watchdog, and the thread it waits for |

Each SQL statement is one step. Code between two statements, two awaits, or an
await and its thread is split, and every other process may run in between. The
deliberate merges, each because the parts commute with everything else or
because a finer split adds no outcome:

* `Submit`: the INSERT and the push, with the push allowed to be lost;
* `RequestCancel`: the flag and the message, which reaches any set of listeners;
* `Requeue`: the SELECT and one push; a stale SELECT is a duplicate push, which
  other steps already produce;
* `WatchdogCancels`: reading the flag and cancelling; the flag never goes back;
* a status committed by a call whose event then cannot be recorded is the change
  of the row alone (`publish` swallows its errors; events are in `EventStream`).

Lease times are abstracted: a lease may expire at any moment, also under a live
worker, so no safety property rests on renewals being punctual. A worker that
restarts keeps its identity, as with `WORKER_ID`. `queue_affinity` and the
choice of the cluster's holder are any choice. `AgentAway` with its grace is
waiting in `selecting`, then `RunFails`.

### JobContract and the refinement

A job is none, pending, running or has an outcome; the hands it is in are a set
of workers; and the reads of its cluster are counted. It may be taken only while
nobody has it and nothing was read, given back only before anything was read,
and an outcome stays an outcome. The mapping is `answer = row.status`,
`hands = ` workers whose consumer is about to start it or with a task that has
not finished collecting, `reads = collected`. `KeepsContract` is checked as a
property and proved. The contract allows several jobs to move at once because
`reap_expired` and a crash do.

### EventStream

`Insert`, `Commit`, `Announce` are the three moments of a publish. The stream
follows `subscribe` statement by statement: `Open`, `ReadBacklog`, `Replay`,
`Drain`, `YieldDrained`, `LookAtRow`, `NextEvent`. `drain()` empties the buffer
in one step. `seq` is one sequence for the whole table; restricted to a job it is
what the model counts.

The marks of an outcome have no condition in the code, so a job may be settled more than
once: by the worker that runs it (`Settle`), by another worker's reaper while the run still
goes on (`Reap`), and by whoever is told of a cancellation, `Cancellers`: the callback of a
task that was cancelled while a thread persists its result (`jobs/runner.py:294-306`), and a
worker that takes up the id of a cancelled job (`_settle_unclaimable`). These read the row
first and mark it after that, whatever it says by then (`LookAtJob`, `MarkCancelled`). Each
commits the status and publishes its terminal event after that (`InsertTerminal`). `running`
says whether the run is on, `settler[w]` how far `w` is. `MayCancel` lets the run be settled
while threads of collectors are still publishing, as a cancellation does, and allows the
cancellers; `MayReap` allows the reaper. A worker that dies between status and event is not
modelled: its stream ends by the row, as in `LookAtRow`.

`crowded` records that a publish began while another was in flight, `abandoned` that
publishes were in flight when the run was over, `lost` that an INSERT or a message failed.
Properties that hold only without one of these say so in their statement, and section 4 says
how they break otherwise.

### MemoryStream

`publish` is split at its statements because threads call it without a lock: `Report` (reads
the counter), `Number`, `Record`, `FanOut`. An outcome is marked whatever the status was
(`Mark`), by the run or the thread that persists its result (`Settle`) and by the callback
of the task, which looks at the status before it does (`Look`, `MarkCancelled`); the event
and the sentinel (`Close`) follow. So a job may end twice, and the second end is recorded
behind the first one's sentinel. The subscriber runs on the event loop: `Register`, `Copy`,
`Replay`, `LookAtStatus`, `Get`. A queue that is full drops what is put, and `overflowed`
records it. That a thread's `put_nowait` may fail to wake the loop at once is not modelled:
the 15-second heartbeat of the endpoint wakes it.

### AgentGateway

| State | Code |
|---|---|
| `stream[s]` | one `Connect` of the agent: where it is, on which worker, with which serial, messages not yet read, `closed`, the session's counter of request ids |
| `agent` | the stream the Go agent is on (`Client.Run`) |
| `registry[g]` | `AgentRegistry._sessions` for this cluster |
| `presence` | the worker in the Redis record of this cluster |
| `request[r]` | a `PendingCollection`: whether it is in `_pending`, waiting, woken or returned; and how far `Client.serve` is with it |
| `revoked`, `cache[g]`, `refresh[x]` | the store's revoked serials, `_revoked` of a worker, and calls of `refresh_revocations` in flight, one per connect and one per sweep |

One cluster and one agent; clusters share nothing but the sweep. Actions are the
stretches between two awaits: `Register` is everything `_consume` does on
`hello`; `Consume` one later message; `Unregister` the `finally` of `Connect`.
`refresh_revocations` reads in one step and fills the cache in another.
`agentctl` revokes in a process of its own, so `Revoke` touches no cache. The
messages of an abandoned stream are still read until the worker notices
(`EndOfStream`), and nothing says it must. A heartbeat and its answer are one
step, `Reply`; the record lapses only if no agent answers on the worker it names,
which the order of the constants in `gateway/timing.py` is for. `overtaken`
records that the `hello` of an older stream was read after that of a younger one.

### Route

| State | Code |
|---|---|
| `gateways`, `shared`, `named` | `agent_gateway_enabled` of each worker, `install_fleet_index`, a kubeconfig context of the cluster's name |
| `sessions`, `record` | the registries of the workers, the presence record |
| `valid`, `revoked` | the cluster has a certificate that counts; it has one that was revoked |
| `at`, `here`, `pinned`, `holder`, `tries` | where `select_provider` is and on which worker, the queue the job is on, the worker `AgentElsewhere` names, how often the runner has selected |

`LookHere` to `LookContexts` are the five reads of `select_provider`, each with its
way of failing (`PresenceUnread` to `ContextsUnread`); `HandOff`, `Again` and `Refuse` are
`_run_when_reachable`. Agents come, go, are enrolled and revoked in any order between
them. `unread` is which reads of a selection failed; `since` and `seen` record what held
throughout it and at some moment of it, which is what a selection made of several
reads can be held to. Without shared state there is one process (`Fleet`).

### LeaseClock

One job, its worker's watchdog and another worker's reaper, in ticks.

| State | Code |
|---|---|
| `lease` | what is left of `lease_expires_at` |
| `watch` | `_watch`: asleep, asking for the flag or renewing; how long it slept; `since_renewal` |
| `reaper` | `_reap`: asleep, in its probe (`requeue_unclaimed`) or in `reap_expired`; how long the probe took; `_store_answering_since`, kept as an age |
| `store` | up, refusing every call, or hanging: a call waits until the outage ends and then answers |

`Tick` lets time pass when no loop has something to do. `_forever` restarts a loop that
raised after `Backoff`. `quiet` counts how long nothing has gone wrong and is only read by
`DeadJobsAreReaped`. An outage of either kind may begin at any moment, also between the
reaper's two calls; `hung` records that one which hangs began under `reap_expired`, and that
no renewal has come since, the exception of `LiveJobsAreKept`.

### AgentIdentity

| State | Code |
|---|---|
| `pc`, `held`, `next`, `checked` | the agent: its process, the certificate in the `Holder`, `nextAttempt`, whether the loop has looked in this interval |
| `disk`, `kind` | the stored key, certificate and authority, in a Secret (one update) or in files (three renames) |
| `call` | one `Register` in the gateway: sent, cleared (token spent or certificate accepted), issued, answered |
| `ledger`, `cached` | tokens, recorded and revoked serials; `_revoked` of the gateway |
| `left` | what is left of the life of each certificate, in checks |
| `flag` | the token the deployment names |

`_enrol` is `Spend`, `Issue`, `RecordCertificate`, `_renew` is `Renew` and the same
two; any of them may be where the call is lost (`CallLost`) or the agent dies.
Serials nobody holds are used again, so that a few are enough. A stored identity
is used whatever token the deployment names: a redeployment with a new token over
an old identity does not enrol (`docs/RUNBOOK_BACKUP_RESTORE.md`).

### Collection

`StartWave`, `Begin`, `Lookup`, `ClusterAnswers` and `Collected`, `TimesOut` or
`Raises` are the steps of one collector; its timeout is fixed when its wave
starts, before it waits for the semaphore, as in `_run_collector`. `Plan` is the
round of a playbook. Facts are named by the time since which they hold: evidence
carries its stamp and the facts it was made of, so that "as fresh as it says"
can be stated. The cache is a sequence of entries, least recently used first, and
an account of bytes. `GetAll` and `PutAll` are the two passes of `fetch_many`, one
request after the other; a task remembers which reads it did not find (`missed`). A
refreshing investigation goes around the cache and fills it.

### Reading and Findings

An inquiry is a route, a scope, who asks, a cap on lists, and what ails in the cluster.
`Run` is kubectl, `Collect` the agent with its policy, `LocalBatch` and `AgentBatch` one
collector's reads by either; `Classify` is `kubernetes/errors.py`. `Read` takes one
collector after the other and `ReadLogs` comes last; what stands in the way may turn
between two of them, and within one. The verdict (`Health`, `Severity`, `AccessFailure`, `CriticalIssues`)
is a function of the evidence. An error is known by the phrases that are looked for.

### ListReader

A document is a short sequence of tokens, and an answer is one that arrives in chunks that
end anywhere, or that ends early (`Fill`, `length`). `scan_to_items`, `_decode_one`, `elements`,
`finish` and `decode_all` are `json_stream.py`. `ValueEnd` is what `raw_decode` of the standard
library accepts: whole values, and of a number that a chunk has cut a shorter one, which is
what `_decode_one` guards against. Like the code it takes commas that are not called for;
a stream with nothing in it is an empty document.

### Admission

`Accept`, then per alert `Claim` and `Start`, then `Answer` are `receive_event`;
`Claim` is one `SET NX EX`. A worker may die between any two; Redis may not
answer, before or after it did what it was asked. `Call` and `CallTenant` are the
two buckets of `evaluate`, each one `INCR` with an expiry. Ages are kept relative.

### Analysis

No process: a state is a set of signals, and the engine a function of it. About,
scoring, the best instance, ranking and the scope are translated clause by
clause; signals are numbers in the order the engine sorts them. What a name
says (a pod belongs to the controller its name shows) is data. `Appears` and
`Vanishes` are what happens between two reads; every set of signals is reached by
them. The rules are those of `HypothesisRules`, the whole table.

### Incident

One Deployment with its pods, a Service, claims, a class, nodes and a pod of
another workload. One of twelve faults is in the cluster from the start
(`fault`); what it does to the pods (`Course`), the events it leaves (`Reasons`,
recorded and expired one by one) and the stalled rollout come and go in any order,
and any one section of the evidence may be unread. Everything else is a function
of that state: `PodStatusRule` to `StorageRule` are the baseline rules, `Playbooks`
and `Deep` say which pods the playbooks have had read, the deep and the graph
rules follow, and `Shown` hands the signals to `Analysis` in the engine's order.
The cluster, the kubelet and the events are external and translated from what the
inspectors and rules expect of them. The cap of five resources per playbook is
above the number of pods.

### DeepReads

A world is what is so of one pod: how its container ended, its probes, the objects its spec
refers to and whether they exist, its events in order, quotas, storage classes, policies and
the DNS workloads. A reference may be optional, and the pod's account may not be the
namespace's default one, which is the one that is read (`DefaultAccount`). `Record` is what
each collector makes of a world and each rule (`DEEP_SIGNAL_RULES`) a function of what was
recorded. A turn goes from the world of the moment to another with the same spec (`Fixed`),
between any two reads; a read may fail for any reason in `Degraded`, an agent serves only
some of them, and those that several collectors share are made once (`ever` holds the worlds
there were). Objects are looked up one by one (`Looks`), each at its own moment.

### Diagnosis

`Analyzed` ranks the signals of a read and adds what the platform knows of its own
evidence. `Skip` tells the fallback without a provider; otherwise `Retry`, `GiveUp`,
`Declined`, `Prose`, `Break`, `Reject` and `Accept` are what may come of one call, by
provider: an answer selects a hypothesis, cites signals, may invent a resource or deny
that anything is wrong. Prose is told apart by who wrote it.

### PodStatus

`Detect` is `PodInspector._detect` over what the API server says of each
container: `state`, `lastState`, `restartCount`, readiness, start. The clock of the
read is the newest time stamp in it, as in `_newest_timestamp`. The kubelet starts,
probes, backs off, reboots and evicts. Reasons the inspector treats alike (the four
of a failing pull, the two of a missing configuration) are one each.

### Console

`hook` is the state and the refs of `useInvestigationJob`, `requests` what it has
asked for and not yet been told. A callback is one step, with everything it calls
(`ApplyResult`, `Settling`, `Adopt`, `Teardown`). The platform advances the row of
a job and publishes its event after that; requests are answered with what is true
then, or not at all. A stream may end before the event that says so, because the
row is committed first (`StreamOver`).

### Remediation

`PlanFor` is the planner: one operator per rule, over what the collected spec of the pod
says of its controller (`WorkloadRef`), of its containers and of their limits. A world is a
hypothesis, the pod's controller and what of it was read. `Follow` is an operator who
carries out one step, who has every permission the plan asks for or only those its checks
ask about (`Checked`); `SomebodyElse` changes the same objects. kubectl (`Possible`, `Uses`,
`Effect`) is external: an object is the sequence of its revisions, which is what rollbacks
go by, and a workload may be at its first (`History`). A limit that was not recorded leaves
a placeholder in the patch, and a small one may come out as zero, which the API server takes
or not (`LimitPatch`, `Outcomes`).

### Reports

`Ensure`, three `Render`, `Index` are `save`; `Regenerate` to `IndexAgain` are
`regenerate`, which finds the owner before it writes the entry; `PruneTable` is one
transaction, `SweepBegins`, `Unlink` and `SweepEnds` the disk's sweep, which holds the
lock of the index and not that of the files. A process may die between any two.

### Access

A request is `Authenticate`, `Gate`, `Touch` (the sighting), `Grant`, `LookAtTarget`,
`LookAtFloor`, `Count`, `Write`, each a call of the store; a shell of the host (`rbacctl`)
enters without a role. Members are a row per person and tenant, and `Resolve` is the role
that counts. The tenant of a handler is ambient, set from the credential and read by the
store.

`inFile` says which store it is. A call of the database is one statement. The file is
rewritten whole: `Opens` reads it into `handler[h].book`, and `Touch` or `Write` writes the
book back with one row changed. The lock around the two is one of the process (`Process`,
`Free`), so that threads of the service exclude each other and a shell excludes nobody.
`raced` records that the last write was by a handler which had been overtaken: another had
written the file since it read it, or changed the owners since it counted them.

## 3. Runs

| Run | Instance | Shows |
|---|---|---|
| `JobsSafety` | 1 job, 2 workers, 2 tasks, 1 hand-off, 1 fault | one runner, a lease while it runs, and the refinement of `JobContract` |
| `JobsLive` | 1 job, 2 workers, 1 task, 1 hand-off, 1 fault, runs may hang | `CancelSettles`, and `EventuallySettled` if runs end |
| `JobsReachable` | 2 workers, 2 tasks, a worker may run two jobs, no fault | violation, finding 1 |
| `StreamsAll` | 2 connections, cancellation and one who settles the job beside the run; in the distributed store 2 collectors, 2 progress events, 1 loss and the reaper, in the other 1 collector, 1 progress event and a queue of 2 | order, completeness, terminal event, end |
| `GatewayFound` | 2 workers, 2 streams, 1 revocation and the enrolment after it, 1 death or lost record | `AgentIsFound`, `RevokedSessionEnds` |
| `Renewals` | a lease of 18 ticks, the reaper every 3, outages of both kinds; certificates of 9 checks, both stores, 1 token, 1 revocation, 2 faults; 1 worker, 2 streams, 2 calls, 2 certificates; 2 workers, 4 changes of the fleet, 2 failed reads, 1 retry | live jobs kept and dead ones reaped; tokens, records, restarts, renewals; calls; the way to a cluster |
| `CollectionAll` | 2 investigations, 4 collectors, 2 reads, 1 place, a cache that holds one of them, 1 change, 1 fault; a cluster of 12 objects, 12 kinds of trouble that turn once; every short document in every division into chunks | freshness, dependencies, bounds of cache and time, everything accounted for; the verdict and what is told of a failed run; that a list is read as it was sent |
| `NamedAbsent` | the same | violation, finding 3 |
| `AdmissionAll` | 2 workers, 2 alerts, 1 request in transit, 2 callers, 1 fault | one start a cooldown, none forgotten, limits |
| `DiagnosisAll` | 12 faults of a Deployment with 2 pods and of what is around it, one section unread or none; every set of 11 signals of pods, strangers, a Service and a node, with and without a scope; 12 reads, 3 states of knowledge and 8 settings of a provider, with any answer; 1 pod of 2 containers, 2 restarts, 3 instants; the deep reads of a pod in a few dozen worlds, 1 turn, any read failed | what is said is so, the cause is named, what joins leads; what hypotheses rest on; that a diagnosis is grounded and explains itself; what a status says; what deep reads say was so, and what stayed so is said; plans for every hypothesis and kind of controller, 1 change by somebody else |
| `PodsPast` | 1 pod of 1 container, 2 restarts | violation, finding 2 |
| `ServiceAll` | 3 people in 2 tenants, both stores of members, 2 handlers and a shell, 2 changes, 1 fault; 2 reports, an index of 1 and both stores; an investigation and an address that does not resolve, 3 visits, 3 faults | authority and its floor; history and retention; timeline, outcome, convergence |

Bounds. Jobs do not touch each other's rows; they share capacity, queues and the
reaper's statement, so one job with two workers and two tasks has every
interleaving about one row: two claims, a claim against a hand-off thread, a
second task of the same job on the same worker. One fault is one crash,
shutdown, flush, failed statement or failed push at any point; two hand-offs
need the same steps twice. The runs were also tried with the shared queue
offered to length 2, with the same result. The theorems below hold without any
of these bounds. `MaxQueued` only bounds how often the reaper offers a job that
still waits; each offer is an id that a claim refuses or accepts.

Two collectors are what it takes for numbers and commits to disagree; two
progress events and two connections let a client leave between an event and the
next and resume; a queue of two overflows. Ids of calls begin again on each
stream, so two streams and two calls on one worker have calls with the same id on
an old and a new session. Two streams on two workers have the withdrawal of the
old one before, between and after the announcements of the new one. Calls and
presence do not touch each other, which is why each run leaves the other out:
`GatewayFound` has no calls and lets the agent be enrolled anew only when its
certificate was revoked and before it connects again; in `Renewals`, where the calls
are, which are alike (`Symmetry`), it renews when they are over. Four changes of the
fleet are an agent that comes, is announced, leaves and is replaced between two reads;
two failed reads are one in the first selection and one in the retry, or two of one.

`LeaseClock` has the inequality of the default settings (15 + 1 + 2 * 2 <= 60 / 3) as its
assumption and the smallest numbers that satisfy it with equality; outages may be of any
length and follow each other at once. Nine checks in the life of a certificate are three
before it is due and three thirds after it; four serials are the one held, the one stored,
the one asked with and a new one. A cache with room for one of two reads evicts, and one
place for two collectors makes one wait. One request in transit is sent, repeated and given
up again and again; a window of two ticks has a burst at the end of one and the start of the
next. The eleven signals have a sibling, a namesake in another namespace, a stranger and a
Service that selects one of two pods; every set of them is a state. Two pods are what a
class, a node and a Service need to be blamed for more than one; two restarts are the
threshold of a loop, and two containers let one hide the other. Three faults break load,
stream and result of one visit. Trouble that turns once divides the reads of an
investigation in two, between any two of them; what may turn is what comes and goes by
itself (`Passing`), in a cluster with little or much amiss. The reads a diagnosis is told of
have no, one and several signals, of one workload and two. Two changes of members overlap in
every way that one pair of them can, a change by the shell and the sighting of a request
among them; an index of one entry drops the other of two reports; a plan has at most six
steps in a section, and one change by somebody else falls between any two.

Where several small invariants guard one thing a run checks their conjunction, in
most cases with the module's `TypeOK`: `CallsEndWell` (`AnsweredByItsOwn`,
`EndReleasesRequests`), `StreamsEnd` (`HeardStreamEnds`, `LocalStreamEnds`), `RanksSoundly`
(`RestsOnItsOwn`, `ScopeOnlyOrders`), `PlanHolds` (`PlanIsTrue`, `NeverStuckMidway`,
`UndoRestores`), `ShownIsTrue` (`OfferedIsThere`, `KeepsItsOwner`, `TimelineComplete`,
`OutcomeIsTold`), `AuthorityHolds` (`AuthorityIsGranted`, `FloorGivesWayToRaces`),
`VerdictIsTrue` (`HealthyWasLooked`, `SeverityIsEarned`), `ToldAsItIs` (of `Findings`:
`ToldAsItIs`, `RoutesAgree`, `LogsAreTheirOwn`), `RoutesSoundly` (`NeverTheNamesake`,
`RefusalsHaveReasons`, `SettledAgentIsReached`), `SeesAll` (`IdsGrow`, `NothingLost`, `LiveStreamSeesAll`),
`MissesNothing` (`LateReaderSeesAll`, `OrderlyDropsNothing`),
`OutcomeIsTold` (`OutcomeIsReal`, `SettlesOnce`), `FreshInBounds` (`NeverOlderThanItsStamp`,
`ReusesWhatIsFresh`, `RefreshReadsLive`, `CacheInBounds`, `OverrunIsBounded`), `ListsAreWhole`
(what `ListReader` promises), `DiagnosisHolds` (`DiagnosisIsGrounded`, `DiagnosisExplainsItself`),
`DeepReadsHold` (`SaysWhatWas`, `SaysWhatStays`), `LimitsHold` (`BurstBounded`, `TenantRefusedWhenSpent`),
`IdentityHolds` (`TokenBuysOneCertificate`, `UsedIsOnRecord`, `RestartResumes`, `RevokedRenewsAtMostOnce`),
`RestsOnItsOwn` (`OwnPodsOnly`, `ScoredAlone`, `RefutedOnlyIfAllAre`) and `ReadsAgree`
(`RebootIsNoCrash`, `StableIsPast`, `BrokenIsVisible`, `TwoReadsAgree`).

`JobsSafety` leaves `NeverCollectedTwice`, `NeverReopened` and `CancelledIsNeverClaimed` to the
refinement that implies them and to the theorems of section 5.

`Renewals`, `StreamsAll`, `CollectionAll`, `DiagnosisAll` and `ServiceAll` check components that share nothing in
one run: each behaviour is one of one of them (`part`), and the others stay where
they begin. A temporal property of one holds of the others' behaviours because
they never begin; fairness is stated of each with its own part.

Deadlock is not checked except in `AdmissionAll`, which never
stops: a system whose jobs are settled and whose streams have
ended has nothing left to do.

Fairness. `Scheduled` asks of the jobs that event loops, threads and timers take
a step that stays possible: a consumer goes on, some worker reaps and offers
again, threads end, watchdogs look at the flag, a worker that is shutting down
exits and one that is down is started by its supervisor, and a lease that no
watchdog renews lapses (`Renewed`). It asks nothing of clients, messages or
faults. Under `RunsMayHang` a task may stay for ever where it reads the cluster;
`EventuallySettled` assumes `RunsEnd`, because every read has a budget
(`collectors/scheduler.py`). The streams' `FairSpec` asks that publish threads,
whoever owes a status or an event, and the generator run; no client is obliged to
connect or stay. The gateway's asks that messages that arrived are read, an agent
that is on a stream answers heartbeats, a stream that is over is unregistered and
the sweeper keeps its interval; it does not ask that anybody notices a dead
connection.  `Collection` asks that time passes, which is what ends a read that
hangs, and that each investigation goes on. `Admission` asks that an alert that
fires is sent again and arrives again and again (strong fairness: Alertmanager
repeats, and a request may be refused or lost each time), and that a handler that
is at work goes on. `Console` asks for callbacks, timers, frames and answers, not
for clicks; faults are finitely many. `Reports` asks that what renders a report again
goes on unless its process dies, and that there is always another sweep. `LeaseClock`,
`AgentIdentity`, `Route`, `Findings`, `Access` and the modules of the diagnosis state no liveness: what must happen in time is an invariant there.

## 4. What the checks show

Holding: a job has one runner although its id is queued twice, its lease lapses, a cancelled
task leaves a hand-off thread, or a worker dies anywhere; it reads the cluster at most once;
a row is leased exactly while it runs; a terminal row is never reopened; a job cancelled
before it is claimed is never run; every accepted job and every cancelled job is settled. A
client gets no event twice or out of order, in either store; a late reader gets the whole
timeline; while publishes take turns and nothing is lost, nothing is missing; the terminal
event is last unless publishes overlapped, the run was cut off with some in flight, or
somebody else settled the job too; a stream whose messages arrive ends, in-process unless
its queue was full. What a call on an agent's session returns was collected for it, and no
call waits on a session that ended before; an agent that stays connected comes to be in the
registry and in the presence record and stays there, if its streams are registered in order:
an older stream that ends withdraws the record of the younger one, and the next answered
heartbeat brings it back. A registered session whose certificate is revoked ends, whichever
refresh overwrites the cache.

An outage of the store, of any length, costs a live worker nothing, except one that begins
under `reap_expired` and lets it hang (item 9); and a dead worker's job is reaped within a
lease, two looks and a back-off of the store being well. A token buys one certificate,
whatever is lost or repeated; what an agent uses is on record; a revoked certificate is
renewed at most once (between revocation and sweep, which leaves its successor unrevoked);
an agent that keeps its identity in a Secret can be stopped at any moment; a certificate
runs out in the hands of a running agent only if something goes wrong in its very last
check, although attempts are spaced out. Evidence is dated no later than its facts held; a
refreshing investigation reads live; the cache keeps its budget; collectors run on what they
require and overrun a deadline by no more than the batches of their wave; a hanging cluster
does not hang an investigation. An alert is taken up once in a cooldown by the whole fleet
and is investigated again as long as it fires; a repeated request starts nothing; no
window's length lets through more than two limits, and a caller who is refused does not use
up its tenant. A hypothesis about a workload is supported by no other workload, is what it
would be if it were alone, falls only if every resource it fires on is refuted; a scope
orders and takes nothing. At every moment of each of twelve faults, whatever one section
could not be read, what the graph rules say of claims, classes, nodes and Services is so;
the cause is among the hypotheses, unrefuted, if the sections it rests on were read; what
joins findings is ranked before what it joins. A status does not change as a container goes
round its loop, a reboot is no crash, and a pod that does not serve has a status. A list of
any length is read as it was sent, however its text is cut, and one that ends early is an
error. What is said of a failing pod's deep reads was so at a moment of the investigation,
whatever failed or changed between them, and what stayed so is said, if its read was
answered and the rules can see it; what it says of the pod's account is so of the
namespace's default one, and a key that it calls missing is referred to, if perhaps
optionally (items 26 and 27). The page shows every event once and in order, calls a run over
only if the platform does, and comes to do so.

An investigation never reads another cluster of the same name while a record says
throughout that another worker has the agent, nor a cluster that was taken out of
service; it is refused for a reason that was there; an agent that stays where its
record says is reached. "Healthy" is said of what was looked at; a run that could read
nothing is told what stood in its way; both routes find the same in the same cluster,
and a pod's logs are filed under its own name. What is told with a model cites what was
found, selects what was ranked, invents no resource and explains itself; whatever the
model or its provider does, there is a diagnosis or an error that says so, with the
exceptions listed under the limits.

A plan addresses what controls the pod or says that it guessed; it says that a pod is
unmanaged only when it was seen to be; the limit it proposes is above the present one and
for the container the signals implicate. Whoever may do what it asks for is not refused
half-way, no command of it is one kubectl cannot carry out, and the rollback brings back
what there was, with the exceptions that items 16 to 19 show to be needed. What the history
offers can be downloaded in every format and is its owner's, across rendering again, sweeps
and deaths, but for items 20 and 21. What is past retention comes to be gone. What a person
may do in a tenant changes only by a change asked for them, in that tenant or from the host,
and by nobody who holds less than what they give, unless the members are a file, of which a
rewrite may undo that of another process (item 28); a tenant loses its last owner only when
two changes overlap.

Not holding, although a comment or document says so. The first three are runs
(`JobsReachable`, `PodsPast`, `NamedAbsent`), which the findings of `PROJECT.json` name; the
others were refuted by TLC with the named property, which is still in its module, and the
constants given, except items 23 and 24, which came up in translating the code. They are not
among the runs.

1. `_finished` removes whatever task the dictionary names (`jobs/runner.py:294`).
   With more than one job per worker, a job handed off and claimed back loses its
   entry: cancel, drain and shutdown do not reach the run (`RunIsReachable`).
2. `_detect` takes the reason of highest precedence and calls it past when only
   `lastState` has it (`kubernetes/pod_inspector.py:334-336`). A container killed for its
   memory and backing off is listed as OOMKilled, not now: the signal says that the pod
   is running (`analysis/signal_rules.py:131`), `_failing_now` leaves it out, so that
   its Service and node are not blamed, and the report lists it as restarted
   (`PastIsRunning`).
3. A named pod that is not there, or asked for without its namespace, read through an
   agent, comes back as a success without data, is recorded as read, and the cluster is
   called healthy (`collectors/kubernetes.py:42`; `HealthyIsSeen`).
4. `CancelIsAGuarantee` (`InvestigationJobs`, one worker and task): a cancel
   accepted while the result is being written ends in succeeded
   (`jobs/runner.py:478-480`).
5. `NothingDropped` (`EventStream`, two collectors): concurrent publishes commit
   out of the order of their numbers, and the sequencer drops the late one
   (`jobs/distributed.py:472`). (A cancelled run's terminal event may be overtaken by
   a progress event in the same way; a progress message that is lost is passed by
   a live client for good.)
6. `EndsWithTerminal` (`EventStream`, one collector): the distributed stream may
   end without its terminal event (`docs/INVESTIGATION_API.md:88-89`).
7. `StreamEnds` (`EventStream`, `MaxLost = 1`): when the terminal message is lost, a
   live stream never ends (`jobs/distributed.py:8-9`).
8. `EndsWithTerminal` (`MemoryStream`, one collector): the in-process stream leaves its
   queue behind when the job settles during the replay. (Threads that take the
   same number lose an event there too, which is why `NothingLost` is stated for
   publishers that take turns.)
9. `LiveJobsAreKept` without `hung`: an outage that begins between the reaper's probe and
   `reap_expired` and lets the latter hang is not seen by the gate, which looks at the probe
   only (`jobs/consumer.py:202-203, 226-229`); the statement then runs before any watchdog
   could renew.
10. `NoneStartsLate` (`Collection`): the timeout of a collector is worked out before it
   waits for the semaphore, so one may start after the deadline
   (`docs/EVIDENCE_ARCHITECTURE.md:147-149`, `collectors/scheduler.py:124-128`).
   `OverrunIsBounded` says by how much.
11. `BurstBounded` with `Ahead <- OneAhead`: a worker whose clock is ahead creates the
   counter of the next window, which then expires in its middle; the ceiling of
   twice the limit (`ratelimit/limiter.py:25-28`) is exceeded.
12. `Converges` with `MaxPolls = 2` (`Console`): a status answer that is delayed past the
    final one sets the page back to running, and nothing asks again
    (`frontend/src/hooks/useInvestigationJob.ts:309-311`).
13. `ShowsItsAddress` with `Navigates = TRUE`: callbacks of an address that was left
    write on the page of the next (`frontend/src/pages/InvestigationPage.tsx:18`).
14. A namespaced signal that is neither of a pod nor of a Deployment supports a
    hypothesis about a workload of another namespace: the namespace is looked at
    only if the triggers are not all workloads (`analysis/hypothesis_rules.py:205-219`).
    `OwnPodsOnly` is therefore about pods and Deployments.
15. `LastOwnerStays` (`Access`): two owners who demote, remove or suspend each other at
    once each count the other, and none is left (`authz/service.py:16, 66-80`: "A tenant's
    last owner cannot be demoted, removed or suspended").
16. `EveryUndoRestores` (`Remediation`): the rollback of a missing ConfigMap or of an image
    pull leaves what the plan created, that of a StorageClass or node removes a mark
    that was there before, and `rollout undo` undoes somebody else's later change
    (`docs/REMEDIATION.md`: a "reversible plan").
17. `ConfirmedIsEnough` (`Remediation`): the `can-i` checks ask about the first verb that
    changes something, so that an operator whom they confirm may create a ConfigMap but
    not change it, or create a policy but not delete it at the rollback
    (`remediation/models.py:92`; "rather than failing halfway through").
18. `NoCommandErrs` (`Remediation`): a patch of the resources of a bare pod or of a Job is
   refused by the API server, and the allowance of a network policy is a template that does
   not apply as it is. With no recorded limit the patch holds `<size-from-observed-usage>`,
   which is no quantity, and half a unit or less is doubled to zero, below any request
   (`remediation/rules.py:37-43, 226-236`); and the rollback of a rollout that never
   succeeded has no revision to go to (`rules.py:127, 919`) ("Generating a command that
   errors on first use would undermine trust", `docs/REMEDIATION.md`).
19. `UnmanagedWasSeen` (`Remediation`): the plan calls a pod unmanaged when its controller is of
    a kind the collector does not know, or when another pod of its name was read
    (`remediation/rules.py:161`).
20. `OfferedIsThere` without `sweep.ids` or `overtook`: a report that is rendered again while the sweep
    deletes it is listed without its files until the next sweep, and one whose process dies
    then leaves files no sweep looks for (`services/report_store.py:279`).
21. `KeepsItsOwner` without `unlisted`: on disk, a report whose entry the index has dropped
    (`HISTORY_LIMIT`) comes back without its owner when it is rendered again
    (`services/history_service.py:241`, "silently orphan").
22. `NeverTheNamesake` without `since` (`Route`): "an agent exists in the fleet but on another
   worker: refuse" (`select_provider`) holds of one record that stays. An agent that moves
   to this worker between the read of the registry and that of the record, or whose record
   was withdrawn by an older stream, is passed by although it was connected throughout, and
   a context of the cluster's name is read. `unread` is empty then.
23. A presence index that cannot be read lets the kubeconfig be used, which `_fleet_holder`
   says it counts (`services/investigation_service.py:311-322`, with an alert on it). It
   never does: `AgentPresence.holder` catches the exception itself
   (`gateway/presence.py:107-116`). `PresenceUnread` is therefore not told from "no record".
24. `_enrolled_agent_is_away` lets the kubeconfig be used when its read fails, because
   `_agent_was_revoked` "already refused" then (`services/investigation_service.py:222-225`);
   if only the second read fails nothing has. `NeverTheNamesake` has "certificates again" for it.
25. `TerminalIsLast` without `SettledAlone` (`EventStream`) and `LiveStreamSeesAll` without
   its exception (`MemoryStream`): a cancellation that meets the thread which persists the
   result adds a second terminal event to the first (`jobs/runner.py:294-306, 466-467`; so
   may `jobs/consumer.py:159-163` beside a run), as the reaper does beside a run that goes
   on. In-process it lies behind the sentinel, and the live stream has ended without it.
26. `AccountIsThePods` (`DeepReads`): the playbook reads the ServiceAccount `default`,
   whatever account the pod names (`playbooks/kubernetes.py:178-187`), and the rule says
   that "its service account supplies none" (`analysis/deep_signal_rules.py:399-401`).
27. `MissingIsRequired` (`DeepReads`): the reads of references do not keep whether one is
   optional (`collectors/targeted.py:123, 137, 155`), so that an optional key is called
   missing, and required.
28. `NothingIsUndone` (`Access`): the file of members is rewritten whole under a lock of one
   process (`authz/store.py:96, 163-219`), and `rbacctl` is another. A sighting that began
   before it, which is to grant "no authority either way" (`authz/resolver.py`,
   `note_seen`), writes back what the command changed: a suspension or a demotion is undone.
   With the database, that is with `~inFile`, TLC finds it to hold.

Limits which the properties are stated around, none of them promised otherwise:

* `double_quantity` cuts to a whole unit, so that half a unit or less is proposed as zero
  (item 18) or as no change; `container` takes the name from any signal of the pod,
  supporting or not (`remediation/rules.py:37`, `remediation/context.py:75`).
* `assign_role` compares the actor's role with the one asked for, not with the one the
  member has: an admin may make an owner an admin, if another owner remains
  (`authz/service.py`, `_refuse_escalation`).
* A read of one pod, or a list that was truncated, is an inventory like any other:
  `network.selector_matches_nothing` and `graph.service_backends_failing` are then
  about what was read. `Incident` reads all pods or none.
* `NodeCarryingFailures` asks for two failing pods on a node and for a second node,
  not for that node's pods to be well.
* `ContainerTerminationRule` calls the exit code 255 of a reboot a failure of the
  application; the status of the pod does not (`NOT_A_CRASH`).
* A crash loop is over when another time stamp of the read is ten minutes younger
  than the container's start. A quiet cluster keeps calling a pod that recovered
  looping.
* The hypothesis that leads is often the Service whose backends all fail, not the
  one that says why they do. `CauseIsNamed` therefore asks that the cause is among
  the hypotheses, not that it is first.
* With the nodes unread a node under pressure, known by its evicted pods, is ranked
  over the failures it carries; `JoinsLead` leaves this pair out. A scope puts what is
  about the named resource before what joins.
* Failed pulls whose event has the reason "Failed" are `event.warning`; the status of the pod
  and the pod's own events name them.
* Through an agent a named Deployment cannot be read: its kinds lack the singular
  (`providers/remote_agent.py`, `_KINDS`); it is an error, and told as one.
* A StatefulSet and its pods count as two affected workloads, and three kinds of workload
  that could not be read as three ("Critical"); a severity may be "Critical" while health
  is "error". `SeverityIsEarned` counts what was found or could not be read.
* A list that was cut may be said to lack the Service of the cluster's DNS.
* What the rules of the deep reads do not see (`Unseen`): a key that an object with no key at
  all lacks (`collectors/targeted.py:466`); an event past the first thirty; a quota in units
  beyond T, which counts as none; a pod of the cluster's DNS that has no container yet, which
  counts as ready. "Its service account supplies none" is also said when that account was not
  read; `SaysWhatWas` leaves that clause out then.
* What is told of a run that failed altogether goes by the error most reads met. An agent
  that went away in mid-call, one whose API server refuses connections, and a collector
  that ran out of time have no message of their own and get the kubeconfig's.
* Content that is null, an answer that is no object, or a confidence that is not finite ends
  the run with an error (`ai/providers/base.py:28-30`), an infinite confidence after the
  answer was counted as grounded (`ai/root_cause_analyzer.py:86`); a confidence of 0.85
  becomes 0.
* A Deployment and its pods are two incidents (`analysis/incidents.py:10-13`). A model that
  selects nothing gets the leading hypothesis, whatever it cites; an explanation it leaves
  out is the leader's, whatever it selects.
* A fallback names the read error as the root cause when a section could not be read, while
  its plan is the hypothesis's; it says "appears healthy" over severe signals that health
  does not count as findings. A rejected answer that cited nothing valid is counted as
  "other".
* Evidence of one pod never counts as collected for a hypothesis about a Deployment, Service
  or node; the breakdown of a confidence that was capped need not add up to it; a tie is
  explained by the number of signals even if the scope decided it.
* With `Cooldown = 2 * Tolerance` TLC refutes `RequestStartsOnce`: a request that is resent at the
  end of its tolerance starts a second investigation. `EVENT_COOLDOWN_SECONDS` may be set as low
  as 0 (`core/config.py:247-248`); the default, 1800, is above twice the 300 of
  `SIGNATURE_TOLERANCE_SECONDS` (`events/sources.py:50`).
* With a life of two checks and no backdating TLC refutes `ExpiresOnlyInTrouble`:
  `AgentAssumption` asks for a life that leaves room for an attempt. The configuration only
  warns of a shorter one; by default it is 90 days, looked at every hour.

## 5. Proofs

Each theorem holds for every value of the constants that satisfies the module's
assumption, which TLC evaluates in the runs.

`InvestigationJobs_proofs` proves `TypeCorrect`. `TypeOK` alone is not inductive:
a task that is not free must name a job and a worker, and a thread that hands a
job over must name where to (`Shape`); `Typed` is both.

It goes on to `Inv = Typed /\ Safe`. `Safe` adds to
`OneRunner` what its steps rely on: only a job that nobody has and that was never
read is claimable or comes back (`collected = 0` while pending or while a task is
early), and a hand-off's condition on the lease holds only for the task that owns
the row. The argument for a step has two halves. `StepKinds` shows, action by
action, that every step is either quiet (nobody takes a job in hand, rows only
move towards an outcome, no read begins) or one of five loud ones: submit, claim,
start, select, give back. `QuietSafe` deals with all quiet steps at once, and one
lemma each with the loud ones. The theorems are `NoSecondRunner`,
`NeverCollectedTwice`, `LeaseIsKept`, `TerminalIsForGood`, `CancelBeatsClaim` and
`ContractIsKept`, the last by mapping quiet steps to `Same` or `Conclude` and each
loud step to its counterpart. They hold for all values of the constants that
satisfy `JobsAssumption`.

`EventStream_proofs` proves `StreamTypeCorrect` and `NoDuplicateNoDisorder`. The
strengthening is that every delivered number is at most the stream's position
(`BehindPosition`), that a publish in flight has a number, and that a run that is on has not
settled its job (`Numbered`). `ReceiveSafe` is the one lemma about a yield, cited for
replay, drained buffer and live feed.

`NothingMissed` and `TerminalComesLast` rest on a second invariant, `Deliveries`. For the
client who comes late, whoever could still write is done (`Complete`), so that the table is
what the backlog and the client have between them. For publishers that take turns, at most
one publish is in flight and has the last number (`TakeTurns`); buffer and batch then hold,
without a gap, the numbers announced last (`Gapless`), and whatever the client lacks is in
the backlog, from its start, or as far ahead as those queues reach (`Covered`). The count of
what is queued turns "no gap" into equations about positions, which is what the provers can
use. `TerminalIsLast` needs `Verdicts`: whoever settles the job publishes terminal events
and nothing else; a run that was not cut off has no publish of a collector in flight once it
is over; and if nobody else settled the job, it has one terminal event, with the last
number.

`Collection_proofs` proves `EvidenceIsFreshInBounds`, for any investigations, collectors, reads,
sizes and budgets that satisfy `CollectionAssumption`. The invariant is `Collecting`: `Gathered`, on what was read, and `Paced`, on when.

* The cache. What goes through a sequence of entries or requests (`Evict`, `GetAll`, `PutAll`,
  `Total`) is a function on the numbers up to its length. `Recursion` shows, by the least
  counterexample (`Least`, `OneByOne`), that such a function exists, since the library's induction
  cannot be used here; and then that caches of a set of entries stay such caches, hold a read once and
  account for their bytes (`Small`, `Books`). The set is `Lasting`, the entries whose fact
  held when they were fetched, give or take one read.
* What is at work has of each read an answer of its own, which holds since it began, or one it reused,
  which held at the end of its window (`Working`: `Live`, `Reused`); a record is stamped with
  that window (`Founded`). Time that passes and a change of the cluster take nothing away from
  what held (`HeldStays`).
* Nothing at work waits for anything that is at work or to come, and what was set out
  to be collected and is neither has left its record (`InOrder`), so that a wave starts
  on records.
* The overrun. Time passes only when nobody could be admitted and nobody is due. So who
  was not admitted within m timeouts of the start of its wave has seen m + 1 batches of
  `Concurrency` collectors through (`Advances`, `Through`); they are among its rivals, and
  there are only so many. It takes the sets of collectors to be finite.

`Admission_proofs` proves `AdmissionTypes`, `OneClaimPerCooldown`, `OneStartPerRequest` and `LimitsAreKept`. The ledger: the
life of an entry and the time since the alert was claimed add up to the cooldown (`Kept`).
A request that is sent again starts nothing because the entry lives at least as long as the
request is accepted (`Remembered`), because all that a handler does but its last start
happens in the tick in which the request was accepted (`Prompt`), and because an alert of a
request is in one hand, or was started once, or neither (`TakenOnce`). This takes
`2 * Tolerance < Cooldown`, a hypothesis of the theorem that the defaults satisfy and the
configuration does not enforce (section 4).
The limits: the key of a window stays as long as the window does and is gone two windows
on, when its slot is used again (`Keys`); what was let through in this window is what its
key counts, up to the limit, and a caller for each failure, and what the span before it
adds is at most the limit and the failures of that window (`Accounts`). When a window ends the
failures of it become those of the one before, so that no failure is counted twice; that a
longer span lets no fewer through (`Growing`) carries the account over. `LimitsAreKept` has
the hypothesis that the clocks of the workers agree, without which the statement is false
(item 11 of section 4).

`AgentGateway_proofs` proves `GatewayTypes` and `CallsAreAnswered`. A call is on a stream that was registered,
under a number no other call on it has (`Numbered`); what is over without a reason has its
own record and no other (`Accounted`); what is unread on a stream is about its own calls,
and the record of a pending call stands before the word that it is done (`Answers`,
`RecordSent`). `EndReleasesRequests` is inductive with these: a stream that ends cancels all that is
pending on it, wherever it is listed.

`Renewals_proofs` proves `IdentitiesHold` and `RunsOutInTrouble` of `AgentIdentity` from
`AgentAssumption`, its operators under the name `Agent`. A call belongs to the agent that
waits for it, and what it grants was issued in this check (`CallIsOfAgent`); a token that is
not spent bought nothing (`TokensAreSpent`); a Secret holds what is in use, whole (`SecretIsHeld`). That
a revocation lets one renewal slip at most is a count: a renewal that may yet slip
(`MaySlip`) has been paid for by a revocation of its own (`SlipsAreBought`). A certificate runs out
only in trouble because the next attempt always falls before the end (`Attempts`), for which
the thirds of `identity.go` are computed once (`Thirds`).

It carries these and those of `AgentGateway_proofs` over to what the run `renewals` checks: each behaviour of `MCRenewals` is one of
`AgentIdentity`, of `AgentGateway` and of `Route`, with stuttering (`AgentBehaves`, `CallsBehave`,
`RoutesBehave`), so that `IdentityHolds`, `ExpiresOnlyInTrouble` and `CallsEndWell` of the composition
follow (`RenewedSoundly`, `RunsOutOnlyInTrouble`, `EveryCallEndsWell`). The theorems about
`AgentGateway` come by a second instance of it (`C` beside `Calls`); that two instances of one module
with one substitution have the same definitions is what the provers must be shown definition by
definition (`SameCallsNext` and the others). The assumptions are those of the three modules,
`RenewalsAssumption`. The composition takes the calls with no faults and no revocation; the
theorems of `AgentGateway_proofs` do not.

It proves `RoutedSoundly` of `Route` directly, with that module's operators under the name
`Routing`. A selection is made of reads at different moments, so the
invariant says what each place has ruled out of what held throughout (`RuledOut`), that the
histories mean what they say (`RouteRemembers`), and that while nothing changes the job is
queued for the worker that has the agent (`QueuedRight`).

`Renewals_proofs` also proves `Types`, `LiveJobs` and `DeadJobs` of `LeaseClock`, for every
`Third`, `Poll`, `Reaper` and `Backoff` that satisfy `ClockAssumption`. `LiveJobs` has the
exception of an outage that hangs under `reap_expired` in its statement (`hung`), and what
follows is said of the time before one. The invariant `Inv` splits the life of a live worker
into three: every renewal so far was in time (`Steady`), an outage goes on (`DuringOutage`:
either it is younger than the reaper's next look or the reaper has lost its trust), and the
store is back while the renewal is still to come (`AfterOutage`: what the watchdog owes is
less than what the reaper must wait). `TickIs` says once what a tick changes;
`WatchKeepsInv`, `ReaperKeepsInv`, `OutageKeepsInv` and `TickKeepsInv` are the steps. For
the dead, `Overdue` relates how long nothing went wrong to what the reaper still waits for.

`EventStream_proofs` has one theorem about the other store, `LocalClientSeesAll`, of
`MemoryStream` as `MCStreams` runs it. Publishers that take turns number the events without
a gap (`InTurn`), and while the queue is never full the rest of the copy and the queue are
two runs of consecutive numbers that begin where the client is, up to the first sentinel
(`Replayed`, `LinedUp`, `Joined`). Nothing is recorded after the job ended but that it ended
again (`EndStays`, `Ended`), so that a stream that ends live ends behind all the rest
(`Whole`).

`Service_proofs` proves two theorems; the fairness of `MCSpec` is used in neither.
`AuthorityIsRight` is for any people, tenants, groups and first members. Its invariant
`Authorised` says of every request what it has established by the stage it is at: whose it
is and of which tenant, and that it holds a copy of the file while it rewrites it
(`Acting`), that whoever gives a role outranks it (`Outranking`), and that what is about to
take an owner away was counted for (`Counted`), unless a write that moved an owner came
between, which `stale` remembers (`Harmless`). A write is made to the rows it read (`Base`):
to the present ones, or to a copy that another process has outdated, and only then does it
undo anything (`WriteIsByRight`, `TouchIsByRight`, over what the two have in common,
`SavesKeep` and `Written`). Who is given a role comes to have just that role, or has no more
than before (`GivenIsGiven`); being seen gives nothing (`SeenIsAll`); and a tenant that
counts more than one owner has another (`OthersOwn`, for which `AccessAssumption` takes
`People` to be finite, so that owners can be counted).

`ShownStaysTrue` is the invariant `ShownIsTrue`, for any reports, limits, addresses and bounds, of
an owner per report and of a user who leaves a page before opening another (one who
does not refutes `ShowsItsAddress`, section 4). It rests on two invariants.

* `ReportsStand`, of what `Reports` offers. `save` writes its formats in one order and its entry last,
  and a sweep takes only what is old, so that what a save has written is there while it
  goes on; what is rendered again is there or a sweep has overtaken it (`WritesStay`). Who renders again
  found the owner, unless the index had dropped the entry (`OwnerIsFound`). A sweep may
  only delete what it has marked, which is what an entry on offer may lack (`OfferStands`,
  `SweepsTheOld`).
* `PageStands`, of the page of `Console`. The hook follows a run one way at a time (`OneWay`): while
  a load is in flight, a retry is due or a stream is read, nothing else is in flight and the
  page does not poll; and once the run is settled it does none of them. The
  callbacks of a load, a timer and a stream therefore find the hook as they left it. So a frame
  that is not on the screen is the next one (`Shown`), and at most one full read is made, while the
  page is settled (`ReadOnce`). What is in flight was asked for the page's address, and what it says
  of an end is so and stays so (`Truthful`), since the platform never takes an end back and logs it
  only behind the row (`Logged`). Polls overlap, up to `MaxPolls`, and there is always room for
  one more request (`PollTickKeeps`).

`Diagnosis_proofs` takes three parts of `MCDiagnosis`.

* `DeepReadsAreTrue`. Each answer names a moment of the investigation that it is of (`OfOne`,
  `Found`). One lemma for each source says that what the rules make of its answer is what was
  so at that moment (`SpecSays` and the others); they hold for every world, of any number of events,
  quotas, classes and policies. Only the references are of several moments, and there it is
  enough that a pod's spec cannot change (`Moments`, `Joined`): the reference was there at every
  moment, so that it dangled at the moment at which the object was looked up.
* `ReadsCanBeReliedOn`. The newest time stamp is never past the clock (`NewestIsPast`), a container that
  came back is what it was before it failed (`Becoming`), and on its round a container adds to
  what is said its last failure and the loop, or, stable, nothing, at whichever moment
  it is read (`Candidates`, `LoopSaysTheSame`). `Foremost` picks one of what is said, by the
  least index, for which a set of naturals is shown to have a least element (`Least`).
* `GraphSaysWhatIs`. A pod that is said to be failing now is not ready, in every state of every
  fault (`Honest`, `Unfolding`); those counted by a rule are therefore among those that are
  down, and a subset of a finite set has no more members.

The assumptions are those of the instances (`DeepAssumption`, `PodAssumption`,
`IncidentAssumption`), none about how many pods, containers or worlds there are.

Only model-checked: liveness under fairness (`EventuallySettled`,
`CancelSettles`, `HeardStreamEnds`, `LocalStreamEnds`, `AgentIsFound`,
`RevokedSessionEnds`, `EndsAccountedFor`, `KeepsInvestigating`, `Converges`, `RetentionReaches`), because the
proof system handles neither fairness-based liveness nor ENABLED; what is defined by folds, sums and recursive functions over data, which would need induction
over it (`ListsAreWhole`; the scores of `Analysis`, on which
`RanksSoundly`, `JoinsLead`, `CauseIsNamed` and `DiagnosisHolds` rest); the verdict of `Findings`
(`VerdictIsTrue`, `ToldAsItIs`) and the plans of `Remediation` (`PlanHolds`), which are about given
tables. No module here declares a
RECURSIVE operator.

## 6. Not modelled

* Of the job store: capacity shared by several jobs under fairness, eviction from the
  in-process store, listing and visibility.
* Of the gateway: the online flag of a session, plaintext mode (but in `Route`), what the registry
  promises when streams are registered out of order, the fleet's listing.
* Of agent identity: two processes that load, change and save the file store
  (`security/enrolment.py:155`; the file is for one process, the table for many),
  generation of the authority, revoking one serial (but in `Route`).
* Of the collection: the observability collectors (Prometheus, Loki) and what their rules make
  of an answer; the Kubernetes client; redaction. What no rule reads (limit ranges, volume
  attachments, ingresses, the logs of the container before) is only recorded.
* Of the analysis: signals of metrics and workloads; how the deep signals rank; pods that finished, init containers (which the inspector treats
  as containers), the report's prose, prompts, which words deny or invent.
* Of access: how a token is verified (libraries), emails, the listing, the audit line.
* Of reports: what they say, how they are drawn, deployments that keep them for ever.
* Of remediation: wording, risk levels, the overlay and chart forms of a patch.
* Notifications and integrations: outgoing calls that nothing waits for.
* Migrations, generated code, deployment, benchmarks, evaluations and tests.
