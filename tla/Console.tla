------------------------------ MODULE Console ------------------------------
(***************************************************************************)
(* The console following an investigation: the hook behind the page        *)
(* /investigations/:id (frontend/src/hooks/useInvestigationJob.ts), which  *)
(* loads the job, reads its progress as a stream, falls back to polling    *)
(* when the stream breaks, retries a load the platform could not answer,   *)
(* and fetches the result once the job is over.                            *)
(*                                                                         *)
(* Callbacks run one at a time; between a request and the callback of its  *)
(* answer anything else may run, the user going to another address         *)
(* included.  The abort of a stream is delivered to its reader before any  *)
(* other callback (it is a microtask), so it is part of the step that      *)
(* aborts.  Left out: the transport label, cancelling (which changes only  *)
(* an error message here), start() (no page calls it), and the text of     *)
(* errors.                                                                 *)
(***************************************************************************)
EXTENDS Naturals, Sequences, FiniteSets, FiniteSetsExt

CONSTANTS
  Addresses,   \* ids of investigations the user opens
  Missing,     \* those of them that do not resolve
  Nobody,      \* no address
  Navigates,   \* whether the user goes from one to another on the same page
  MaxPolls,    \* status requests in flight: 1 when each answers in an interval
  MaxVisits,   \* bound: how often an address is opened
  MaxFaults    \* bound: requests that get no answer and streams that break

(* What is assumed of the constants. *)
ConsoleAssumption ==
  /\ Nobody \notin Addresses /\ Missing \subseteq Addresses
  /\ Navigates \in BOOLEAN
  /\ MaxPolls \in Nat \ {0} /\ MaxVisits \in Nat /\ MaxFaults \in Nat

VARIABLES
  row,        \* the platform: status of each job
  log,        \* the platform: the events it has published of each job
  hook,       \* state and refs of the mounted hook
  requests,   \* requests in flight
  visits,     \* bounded by MaxVisits
  faults      \* bounded by MaxFaults

platform == <<row, log>>
vars == <<platform, hook, requests, visits, faults>>

Terminal == {"succeeded", "failed"}
Statuses == {"pending", "running"} \cup Terminal
Slots    == 1..(MaxPolls + 2 * MaxVisits)

Answer == [kind : {"none", "down", "missing"}]
          \cup [kind : {"given"}, status : Statuses, seq : 1..3]

Request == [op : {"idle", "load", "poll", "final"},
            of : Addresses \cup {Nobody},
            fallback : Terminal \cup {"none"}, answer : Answer]

Idle == [op |-> "idle", of |-> Nobody, fallback |-> "none",
         answer |-> [kind |-> "none"]]

(* stream, poller, retry: what streamRef, pollRef and retryRef hold;       *)
(* reading: the streams whose readers still run, and pos how far they are; *)
(* retries: the timers that still run.                                     *)
Hook == [address : Addresses \cup {Nobody}, phase : Statuses \cup {"idle"},
         timeline : Seq(Addresses \X (1..3)), result : Addresses \cup {Nobody},
         error : BOOLEAN, delivered : 0..3, settled : BOOLEAN,
         stream : Addresses \cup {Nobody}, reading : SUBSET Addresses,
         pos : [Addresses -> 0..3], poller : Addresses \cup {Nobody},
         retry : Addresses \cup {Nobody}, retries : SUBSET Addresses]

Unmounted ==
  [address |-> Nobody, phase |-> "idle", timeline |-> <<>>, result |-> Nobody,
   error |-> FALSE, delivered |-> 0, settled |-> FALSE, stream |-> Nobody,
   reading |-> {}, pos |-> [a \in Addresses |-> 0], poller |-> Nobody,
   retry |-> Nobody, retries |-> {}]

Init ==
  /\ row = [a \in Addresses |-> "pending"]
  /\ log = [a \in Addresses |-> <<"queued">>]
  /\ hook = Unmounted
  /\ requests = [i \in Slots |-> Idle]
  /\ visits = 0 /\ faults = 0

-----------------------------------------------------------------------------
(* The platform.                                                           *)

Published(a) == log[a][Len(log[a])] = CASE row[a] = "pending" -> "queued"
                                        [] row[a] = "running" -> "started"
                                        [] OTHER -> "ended"

(* A job is claimed, ends, or is cancelled while queued; its event follows *)
(* the change of its row.                                                  *)
Advance(a) ==
  /\ a \notin Missing /\ Published(a)
  /\ \/ row[a] = "pending" /\ row' = [row EXCEPT ![a] = "running"]
     \/ /\ row[a] \notin Terminal
        /\ \E outcome \in Terminal : row' = [row EXCEPT ![a] = outcome]
  /\ UNCHANGED <<log, hook, requests, visits, faults>>

Publish(a) ==
  /\ ~Published(a)
  /\ log' = [log EXCEPT ![a] =
               Append(@, IF row[a] = "running" THEN "started" ELSE "ended")]
  /\ UNCHANGED <<row, hook, requests, visits, faults>>

(* A request is answered with what the platform has at that moment.        *)
Answered(i) ==
  LET a == requests[i].of IN
  /\ requests[i].op # "idle" /\ requests[i].answer.kind = "none"
  /\ requests' = [requests EXCEPT ![i].answer =
       IF a \in Missing THEN [kind |-> "missing"]
       ELSE [kind |-> "given", status |-> row[a], seq |-> Len(log[a])]]
  /\ UNCHANGED <<platform, hook, visits, faults>>

Unanswered(i) ==
  /\ requests[i].op # "idle" /\ requests[i].answer.kind = "none"
  /\ faults < MaxFaults /\ faults' = faults + 1
  /\ requests' = [requests EXCEPT ![i].answer = [kind |-> "down"]]
  /\ UNCHANGED <<platform, hook, visits>>

-----------------------------------------------------------------------------
(* Parts of the hook's handlers, as functions of its state.                *)

Free == {i \in Slots : requests[i].op = "idle"}

Ask(op, a, fallback) == [op |-> op, of |-> a, fallback |-> fallback,
                         answer |-> [kind |-> "none"]]

Teardown(h) ==
  [h EXCEPT !.stream = Nobody, !.reading = @ \ {h.stream}, !.poller = Nobody,
            !.retry = Nobody, !.retries = @ \ {h.retry}]

Poll(h, a) == IF h.poller = Nobody THEN [h EXCEPT !.poller = a] ELSE h

(* What a read says of the timeline replaces it, and moves the position    *)
(* behind which a frame counts as already seen.                            *)
Adopt(h, a, seq) == [h EXCEPT !.timeline = [n \in 1..seq |-> <<a, n>>],
                              !.delivered = seq]

ApplyResult(h, a, answer) ==
  [Adopt(Teardown(h), a, answer.seq) EXCEPT
     !.settled = TRUE, !.result = a, !.phase = answer.status,
     !.error = @ \/ answer.status = "failed"]

Settling(h) == [Teardown(h) EXCEPT !.settled = TRUE]

(* A frame of an event that is on the screen already.                      *)
Seen(h, n) == n <= h.delivered

(* A load the platform could not answer says nothing of the investigation. *)
LoadFailed(h, a) ==
  [h EXCEPT !.error = TRUE, !.retry = a, !.retries = @ \cup {a}]

ResultFailed(h, fallback) == [h EXCEPT !.phase = fallback, !.error = TRUE]

(* Faulty: a broken stream is not replaced.                                *)
AbandonedWithoutPolling(h, a) == [h EXCEPT !.reading = @ \ {a}]
(* The reader of a stream that ends or breaks before the job is settled.   *)
Abandoned(h, a) ==
  IF h.settled THEN [h EXCEPT !.reading = @ \ {a}]
  ELSE Poll([h EXCEPT !.reading = @ \ {a}], a)

(* reset(): the aborted reader finds a hook that is no longer settled.     *)
Reset(h) ==
  LET blank == [Unmounted EXCEPT !.reading = h.reading \ {h.stream},
                                 !.pos = h.pos,
                                 !.retries = h.retries \ {h.retry}]
  IN IF h.stream \in h.reading THEN Abandoned(blank, h.stream) ELSE blank

-----------------------------------------------------------------------------
(* The user.                                                               *)

Attach(a) ==
  /\ visits < MaxVisits /\ visits' = visits + 1
  /\ a # hook.address /\ (Navigates \/ hook.address = Nobody)
  /\ hook' = [Reset(hook) EXCEPT !.address = a, !.phase = "pending"]
  /\ requests' = [requests EXCEPT ![Min(Free)] = Ask("load", a, "none")]
  /\ UNCHANGED <<platform, faults>>

(* Unmounting: timers are cleared, and whatever arrives is dropped.        *)
Leave ==
  /\ hook.address # Nobody
  /\ hook' = Unmounted
  /\ requests' = [i \in Slots |-> Idle]
  /\ UNCHANGED <<platform, visits, faults>>

-----------------------------------------------------------------------------
(* Callbacks of requests.                                                  *)

Arrived(i, op) == requests[i].op = op /\ requests[i].answer.kind # "none"

LoadGiven(h, a, answer) ==
  LET loaded == Adopt([h EXCEPT !.error = FALSE], a, answer.seq) IN
  IF answer.status \in Terminal THEN ApplyResult(loaded, a, answer)
  ELSE [loaded EXCEPT !.phase = answer.status, !.stream = a,
                      !.reading = @ \cup {a}, !.pos[a] = 0]

LoadArrives(i) ==
  LET a == requests[i].of
      answer == requests[i].answer
  IN
  /\ Arrived(i, "load")
  /\ hook' = CASE answer.kind = "given" -> LoadGiven(hook, a, answer)
               [] answer.kind = "down" -> LoadFailed(hook, a)
               [] answer.kind = "missing" ->
                    [hook EXCEPT !.phase = "failed", !.error = TRUE]
  /\ requests' = [requests EXCEPT ![i] = Idle]
  /\ UNCHANGED <<platform, visits, faults>>

PollArrives(i) ==
  LET a == requests[i].of
      answer == requests[i].answer
      seen == [Adopt(hook, a, answer.seq) EXCEPT !.phase = answer.status]
  IN
  /\ Arrived(i, "poll")
  /\ IF answer.kind # "given"
     THEN UNCHANGED hook /\ requests' = [requests EXCEPT ![i] = Idle]
     ELSE IF answer.status \in Terminal /\ ~hook.settled
     THEN /\ hook' = Settling(seen)
          /\ requests' = [requests EXCEPT ![i] = Ask("final", a, answer.status)]
     ELSE hook' = seen /\ requests' = [requests EXCEPT ![i] = Idle]
  /\ UNCHANGED <<platform, visits, faults>>

FinalArrives(i) ==
  LET a == requests[i].of
      answer == requests[i].answer
  IN
  /\ Arrived(i, "final")
  /\ hook' = IF answer.kind = "given" THEN ApplyResult(hook, a, answer)
             ELSE ResultFailed(hook, requests[i].fallback)
  /\ requests' = [requests EXCEPT ![i] = Idle]
  /\ UNCHANGED <<platform, visits, faults>>

-----------------------------------------------------------------------------
(* Timers.                                                                 *)

PollTick ==
  /\ hook.poller # Nobody
  /\ Cardinality({i \in Slots : requests[i].op = "poll"}) < MaxPolls
  /\ requests' = [requests EXCEPT ![Min(Free)] = Ask("poll", hook.poller, "none")]
  /\ UNCHANGED <<platform, hook, visits, faults>>

RetryTick(a) ==
  /\ a \in hook.retries
  /\ hook' = [hook EXCEPT !.retries = @ \ {a}, !.retry = Nobody]
  /\ requests' = [requests EXCEPT ![Min(Free)] = Ask("load", a, "none")]
  /\ UNCHANGED <<platform, visits, faults>>

-----------------------------------------------------------------------------
(* The stream: it replays the job's events from the first.                 *)

FrameArrives(a) ==
  LET n    == hook.pos[a] + 1
      read == [hook EXCEPT !.pos[a] = n]
      seen == [read EXCEPT !.delivered = n, !.timeline = Append(@, <<a, n>>)]
  IN
  /\ a \in hook.reading /\ n <= Len(log[a])
  /\ CASE Seen(hook, n) -> hook' = read /\ UNCHANGED requests
       [] ~Seen(hook, n) /\ log[a][n] # "ended" ->
            /\ hook' = IF log[a][n] = "started"
                       THEN [seen EXCEPT !.phase = "running"] ELSE seen
            /\ UNCHANGED requests
       [] ~Seen(hook, n) /\ log[a][n] = "ended" ->
            LET told == [seen EXCEPT !.error = @ \/ row[a] = "failed"] IN
            IF hook.settled
            THEN hook' = [told EXCEPT !.reading = @ \ {a}] /\ UNCHANGED requests
            ELSE /\ hook' = [Settling(told) EXCEPT !.reading = @ \ {a}]
                 /\ requests' = [requests EXCEPT
                                   ![Min(Free)] = Ask("final", a, row[a])]
  /\ UNCHANGED <<platform, visits, faults>>

(* The platform closes the stream of a job that is over, sometimes before  *)
(* the event that says so (EventStream).                                   *)
StreamOver(a) == row[a] \in Terminal /\ hook.pos[a] = Len(log[a])

StreamEnds(a) ==
  /\ a \in hook.reading /\ StreamOver(a)
  /\ hook' = Abandoned(hook, a)
  /\ UNCHANGED <<platform, requests, visits, faults>>

(* It is refused or cut, by a proxy or the platform.                       *)
StreamBreaks(a) ==
  /\ a \in hook.reading
  /\ faults < MaxFaults /\ faults' = faults + 1
  /\ hook' = IF hook.settled THEN Abandoned(hook, a)
             ELSE [Abandoned(hook, a) EXCEPT !.stream = Nobody]
  /\ UNCHANGED <<platform, requests, visits>>

-----------------------------------------------------------------------------
Callback(i) == LoadArrives(i) \/ PollArrives(i) \/ FinalArrives(i)

Next ==
  \/ \E a \in Addresses : \/ Advance(a) \/ Publish(a) \/ Attach(a)
                          \/ RetryTick(a) \/ FrameArrives(a)
                          \/ StreamEnds(a) \/ StreamBreaks(a)
  \/ \E i \in Slots : Answered(i) \/ Unanswered(i) \/ Callback(i)
  \/ Leave \/ PollTick

Spec == Init /\ [][Next]_vars

FairSpec ==
  /\ Spec
  /\ \A a \in Addresses : /\ WF_vars(Publish(a)) /\ WF_vars(RetryTick(a))
                          /\ WF_vars(FrameArrives(a)) /\ WF_vars(StreamEnds(a))
  /\ \A i \in Slots : WF_vars(Answered(i)) /\ WF_vars(Callback(i))
  /\ WF_vars(PollTick)

-----------------------------------------------------------------------------
TypeOK ==
  /\ row \in [Addresses -> Statuses]
  /\ log \in [Addresses -> Seq({"queued", "started", "ended"})]
  /\ hook \in Hook /\ requests \in [Slots -> Request]
  /\ visits \in 0..MaxVisits /\ faults \in 0..MaxFaults

(* The timeline shows each event of the investigation once, in order and   *)
(* without a gap up to the position frames are filtered by: what the       *)
(* filter drops is on the screen, although load, stream and poll all       *)
(* write both.                                                             *)
TimelineComplete ==
  hook.timeline = [n \in 1..hook.delivered |-> <<hook.address, n>>]

(* The page calls a run failed or succeeded only when the platform does,   *)
(* or when the address resolves to nothing: never because the platform     *)
(* could not answer.                                                       *)
OutcomeIsReal ==
  hook.phase \in Terminal =>
    hook.address \in Missing \/ hook.phase = row[hook.address]

(* A settled page has the result, or is fetching it, or says that it could *)
(* not: the one full read is neither forgotten nor made twice.             *)
SettlesOnce ==
  LET reads == {i \in Slots : requests[i].op = "final"} IN
  /\ Cardinality(reads) <= 1
  /\ hook.settled =>
       \/ hook.result = hook.address \/ hook.error
       \/ \E i \in reads : requests[i].of = hook.address

(* An outcome is told once it is there, once, and as it is.                *)
OutcomeIsTold == TypeOK /\ OutcomeIsReal /\ SettlesOnce

(* Stream and polling converge: a page that is left open on a run that is  *)
(* over shows that it is over, whatever broke on the way.                  *)
Converges ==
  \A a \in Addresses :
    hook.address = a /\ row[a] \in Terminal
      ~> hook.phase \in Terminal \/ hook.address # a

(* The page of an address shows the events and the result of that address. *)
(* Refuted when the user navigates: README, section 4.                     *)
ShowsItsAddress ==
  /\ hook.result \in {Nobody, hook.address}
  /\ \A n \in 1..Len(hook.timeline) : hook.timeline[n][1] = hook.address
=============================================================================
