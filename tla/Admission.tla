----------------------------- MODULE Admission -----------------------------
(***************************************************************************)
(* What may start an investigation: signed alerts through the ledger that  *)
(* remembers which were taken up (api/events.py, events/), and callers     *)
(* through the limit on their rate (ratelimit/limiter.py).  Both keep      *)
(* their state in keys of Redis that expire (persistence/redis_bus.py),    *)
(* shared by all workers, and answer its failures in opposite ways: an     *)
(* alert is skipped, a caller let through.                                 *)
(*                                                                         *)
(* Time is counted in ticks and kept relative: what is left of each key,   *)
(* how old each request is.  A request stands for the alerts it carries,   *)
(* which fire and name a cluster; signatures are left out, as is one       *)
(* process without Redis, whose dictionaries behave like its keys.         *)
(***************************************************************************)
EXTENDS Integers, Sequences, FiniteSets, SequencesExt, FiniteSetsExt

CONSTANTS
  Alerts, Batches, Requests, Workers,
  Cooldown,      \* EVENT_COOLDOWN_SECONDS
  Tolerance,     \* SIGNATURE_TOLERANCE_SECONDS
  Subjects, Tenant,
  Limit,         \* of each bucket, a subject or the tenant
  Window,        \* WINDOW_SECONDS
  Ahead,         \* how far the clock of each worker is ahead
  MaxFaults,     \* bound: failures of Redis, of the store, of a worker
  MaxArrivals,   \* bound: how often one request arrives
  Traffics,      \* bound: what one behaviour has, alerts or callers or both
  None

Buckets == Subjects \cup {Tenant}

ASSUME AdmissionAssumption ==
  /\ Batches \subseteq Seq(Alerts) /\ Tenant \notin Subjects
  /\ Cooldown \in Nat \ {0} /\ Tolerance \in Nat
  /\ MaxFaults \in Nat /\ MaxArrivals \in Nat
  /\ Limit \in [Buckets -> Nat \ {0}] /\ Window \in Nat \ {0}
  /\ Ahead \in [Workers -> 0..(Window - 1)]
  /\ None \notin Requests \cup Subjects \cup Int
  /\ Traffics \subseteq SUBSET {"alerts", "callers"}

VARIABLES
  seen,      \* ticks left of the key of each alert, 0 when there is none
  request,   \* requests in transit: how old their timestamp is, their alerts,
             \* how often they arrived, and the rows created for them
  handler,   \* receive_event at work on each worker
  claimed,   \* ticks since the ledger gave each alert away, at most Cooldown
  row,       \* ticks since an investigation of it was created, likewise
  time,      \* of Redis, modulo three windows
  counter,   \* of each bucket and window: uses, and ticks left of the key
  calling,   \* the subject each worker has yet to hold against its tenant
  recent,    \* of each bucket: what was let through in the last n ticks
  faults,
  traffic    \* what arrives, for good

ledger  == <<seen, request, handler, claimed, row>>
limiter == <<counter, calling, recent>>
vars    == <<ledger, limiter, time, faults, traffic>>

NoRequest == [age |-> None, batch |-> <<>>, arrived |-> 0,
              rows |-> [a \in Alerts |-> 0]]
Idle      == [on |-> None, todo |-> <<>>, claimed |-> FALSE]
NoKey     == [used |-> 0, ttl |-> 0]

Init ==
  /\ seen = [a \in Alerts |-> 0]
  /\ request = [q \in Requests |-> NoRequest]
  /\ handler = [w \in Workers |-> Idle]
  /\ claimed = [a \in Alerts |-> Cooldown]
  /\ row = [a \in Alerts |-> Cooldown]
  /\ time = 0
  /\ counter = [b \in Buckets |-> [n \in 0..2 |-> NoKey]]
  /\ calling = [w \in Workers |-> None]
  /\ recent = [b \in Buckets |-> [n \in 1..Window |-> 0]]
  /\ faults = 0
  /\ traffic \in Traffics

Fails == faults < MaxFaults /\ faults' = faults + 1

-----------------------------------------------------------------------------
(* The sender.  Alertmanager repeats an alert that goes on firing, and     *)
(* repeats a request that was not answered; its clock may differ.          *)

Send(q, batch) ==
  /\ "alerts" \in traffic /\ request[q].age = None
  /\ \E age \in -Tolerance..0 :
       request' = [request EXCEPT ![q] =
                     [NoRequest EXCEPT !.age = age, !.batch = batch]]
  /\ UNCHANGED <<seen, handler, claimed, row, limiter, time, faults, traffic>>

GivesUp(q) ==
  /\ request[q].age # None /\ \A w \in Workers : handler[w].on # q
  /\ request' = [request EXCEPT ![q] = NoRequest]
  /\ UNCHANGED <<seen, handler, claimed, row, limiter, time, faults, traffic>>

-----------------------------------------------------------------------------
(* receive_event.                                                          *)

(* Faulty: a signed request is good for ever. *)
VerifiedForEver(q) == request[q].age # None

Verified(q) == request[q].age \in -Tolerance..Tolerance

(* A request arrives, once or again.                                       *)
Accept(w, q) ==
  /\ handler[w] = Idle /\ request[q].age # None /\ Verified(q)
  /\ request[q].arrived < MaxArrivals
  /\ request' = [request EXCEPT ![q].arrived = @ + 1]
  /\ handler' = [handler EXCEPT ![w] =
                   [Idle EXCEPT !.on = q, !.todo = request[q].batch]]
  /\ UNCHANGED <<seen, claimed, row, limiter, time, faults, traffic>>

Skip(w) == handler' = [handler EXCEPT ![w].todo = Tail(@), ![w].claimed = FALSE]

(* Faulty: SET without NX. *)
AbsentOrNot(a) == TRUE

Absent(a) == seen[a] = 0

(* SET NX EX.                                                              *)
SetIfAbsent(a) ==
  IF Absent(a)
  THEN seen' = [seen EXCEPT ![a] = Cooldown] /\ claimed' = [claimed EXCEPT ![a] = 0]
  ELSE UNCHANGED <<seen, claimed>>

Claim(w) ==
  /\ handler[w].todo # <<>> /\ ~handler[w].claimed
  /\ LET a == Head(handler[w].todo) IN
     /\ SetIfAbsent(a)
     /\ IF Absent(a)
        THEN handler' = [handler EXCEPT ![w].claimed = TRUE]
        ELSE Skip(w)
  /\ UNCHANGED <<request, row, limiter, time, faults, traffic>>

(* Redis does not answer, having set the key or not: the alert is skipped. *)
ClaimUnanswered(w) ==
  /\ handler[w].todo # <<>> /\ ~handler[w].claimed /\ Fails
  /\ SetIfAbsent(Head(handler[w].todo)) \/ UNCHANGED <<seen, claimed>>
  /\ Skip(w)
  /\ UNCHANGED <<request, row, limiter, time, traffic>>

(* _start.  What fails after the row was created leaves it: whoever looks  *)
(* for unclaimed rows will find it.                                        *)
Start(w) ==
  /\ handler[w].claimed
  /\ LET a == Head(handler[w].todo) IN
     /\ row' = [row EXCEPT ![a] = 0]
     /\ request' = [request EXCEPT ![handler[w].on].rows[a] = @ + 1]
  /\ Skip(w)
  /\ UNCHANGED <<seen, claimed, limiter, time, faults, traffic>>

StartFails(w) ==
  /\ handler[w].claimed /\ Fails /\ Skip(w)
  /\ UNCHANGED <<seen, request, claimed, row, limiter, time, traffic>>

Answer(w) ==
  /\ handler[w].on # None /\ handler[w].todo = <<>>
  /\ handler' = [handler EXCEPT ![w] = Idle]
  /\ UNCHANGED <<seen, request, claimed, row, limiter, time, faults, traffic>>

(* The worker dies, and what its handlers had claimed stays claimed.       *)
Crash(w) ==
  /\ handler[w] # Idle \/ calling[w] # None
  /\ Fails
  /\ handler' = [handler EXCEPT ![w] = Idle]
  /\ calling' = [calling EXCEPT ![w] = None]
  /\ UNCHANGED <<seen, request, claimed, row, counter, recent, time, traffic>>

-----------------------------------------------------------------------------
(* evaluate.                                                               *)

WindowOf(w) == ((time + Ahead[w]) \div Window) % 3

Uses(w, b) == counter[b][WindowOf(w)].used + 1

(* INCR and EXPIRE NX.  Counting stops where it says no more.              *)
Increment(w, b) ==
  counter' = [counter EXCEPT ![b][WindowOf(w)] =
                [used |-> Min({Uses(w, b), Limit[b] + 1}),
                 ttl  |-> IF @.ttl = 0 THEN Window ELSE @.ttl]]

LetThrough(b) == recent' = [recent EXCEPT ![b] = [n \in 1..Window |-> @[n] + 1]]

(* Faulty: compared with what was used before. *)
CallOneMore(w, s) ==
  /\ "callers" \in traffic /\ calling[w] = None
  /\ Increment(w, s)
  /\ IF Uses(w, s) <= Limit[s] + 1
     THEN LetThrough(s) /\ calling' = [calling EXCEPT ![w] = s]
     ELSE UNCHANGED <<recent, calling>>
  /\ UNCHANGED <<ledger, time, faults, traffic>>

(* The subject's own limit is asked first, and alone if it refuses.        *)
Call(w, s) ==
  /\ "callers" \in traffic /\ calling[w] = None
  /\ Increment(w, s)
  /\ IF Uses(w, s) <= Limit[s]
     THEN LetThrough(s) /\ calling' = [calling EXCEPT ![w] = s]
     ELSE UNCHANGED <<recent, calling>>
  /\ UNCHANGED <<ledger, time, faults, traffic>>

CallTenant(w) ==
  /\ calling[w] # None
  /\ calling' = [calling EXCEPT ![w] = None]
  /\ Increment(w, Tenant)
  /\ IF Uses(w, Tenant) <= Limit[Tenant] THEN LetThrough(Tenant) ELSE UNCHANGED recent
  /\ UNCHANGED <<ledger, time, faults, traffic>>

(* Redis does not answer, having counted or not: the caller is let through.*)
CallUnanswered(w, s) ==
  /\ "callers" \in traffic /\ calling[w] = None /\ Fails
  /\ Increment(w, s) \/ UNCHANGED counter
  /\ LetThrough(s) /\ calling' = [calling EXCEPT ![w] = s]
  /\ UNCHANGED <<ledger, time, traffic>>

TenantUnanswered(w) ==
  /\ calling[w] # None /\ Fails
  /\ Increment(w, Tenant) \/ UNCHANGED counter
  /\ LetThrough(Tenant) /\ calling' = [calling EXCEPT ![w] = None]
  /\ UNCHANGED <<ledger, time, traffic>>

-----------------------------------------------------------------------------
(* Faulty: SET without EX.                                                 *)
LessNever(ttl)    == ttl

Less(ttl)  == IF ttl = 0 THEN 0 ELSE ttl - 1
Older(age) == Min({age + 1, Cooldown})

(* Keys expire, and requests age until they will not be accepted.  From    *)
(* the check of a request to its claims a handler waits for nothing but    *)
(* the alerts before, which take less than a tick; the last one may take   *)
(* any time to start.                                                      *)
Tick ==
  /\ \A w \in Workers : \/ handler[w].todo = <<>>
                        \/ handler[w].claimed /\ Len(handler[w].todo) = 1
  /\ seen' = [a \in Alerts |-> Less(seen[a])]
  /\ claimed' = [a \in Alerts |-> Older(claimed[a])]
  /\ row' = [a \in Alerts |-> Older(row[a])]
  /\ request' = [q \in Requests |->
       IF request[q].age = None THEN NoRequest
       ELSE [request[q] EXCEPT !.age = Min({@ + 1, Tolerance + 1})]]
  /\ time' = (time + 1) % (3 * Window)
  /\ counter' = [b \in Buckets |-> [n \in 0..2 |->
       IF counter[b][n].ttl <= 1 THEN NoKey
       ELSE [counter[b][n] EXCEPT !.ttl = @ - 1]]]
  /\ recent' = [b \in Buckets |-> [n \in 1..Window |->
       IF n = 1 THEN 0 ELSE recent[b][n - 1]]]
  /\ UNCHANGED <<handler, calling, faults, traffic>>

Next ==
  \/ Tick
  \/ \E q \in Requests : GivesUp(q) \/ \E batch \in Batches : Send(q, batch)
  \/ \E w \in Workers :
       \/ \E q \in Requests : Accept(w, q)
       \/ Claim(w) \/ ClaimUnanswered(w) \/ Start(w) \/ StartFails(w)
       \/ Answer(w) \/ Crash(w)
       \/ \E s \in Subjects : Call(w, s) \/ CallUnanswered(w, s)
       \/ CallTenant(w) \/ TenantUnanswered(w)

Spec == Init /\ [][Next]_vars

Sends(a)   == \E q \in Requests, batch \in Batches :
                a \in ToSet(batch) /\ Send(q, batch)
Arrives(a) == \E w \in Workers, q \in Requests :
                a \in ToSet(request[q].batch) /\ Accept(w, q)

(* Handlers run to their end; an alert that goes on firing goes on being   *)
(* sent, and some of what is sent arrives in time.                         *)
FairSpec ==
  /\ Spec /\ SF_vars(Tick)
  /\ \A q \in Requests : WF_vars(GivesUp(q))
  /\ \A a \in Alerts : SF_vars(Sends(a)) /\ SF_vars(Arrives(a))
  /\ \A w \in Workers : WF_vars(Claim(w) \/ Start(w) \/ Answer(w))

-----------------------------------------------------------------------------
TypeOK ==
  /\ seen \in [Alerts -> 0..Cooldown]
  /\ request \in [Requests -> [age : (-Tolerance..Tolerance + 1) \cup {None},
                               batch : Batches \cup {<<>>}, arrived : 0..MaxArrivals,
                               rows : [Alerts -> Nat]]]
  /\ handler \in [Workers -> [on : Requests \cup {None}, todo : Seq(Alerts),
                              claimed : BOOLEAN]]
  /\ claimed \in [Alerts -> 0..Cooldown] /\ row \in [Alerts -> 0..Cooldown]
  /\ time \in 0..(3 * Window - 1)
  /\ counter \in [Buckets -> [0..2 -> [used : Nat, ttl : 0..Window]]]
  /\ calling \in [Workers -> Subjects \cup {None}]
  /\ recent \in [Buckets -> [1..Window -> Nat]]
  /\ faults \in 0..MaxFaults /\ traffic \in Traffics

(* Whichever workers its repetitions reach, an alert is taken up once in a *)
(* cooldown: the fleet has one ledger.                                     *)
OncePerCooldown ==
  [][\A a \in Alerts : claimed'[a] < claimed[a] => claimed[a] = Cooldown]_vars

(* A request that arrives again, however late and wherever, starts no      *)
(* second investigation of an alert: it is too old to be accepted before   *)
(* the ledger forgets.                                                     *)
RequestStartsOnce ==
  \A q \in Requests, a \in Alerts : request[q].rows[a] <= 1

(* A claim that came to nothing, because Redis, the store or the worker    *)
(* failed, silences an alert for a cooldown and not for good: as long as   *)
(* it goes on firing it is investigated again and again.                   *)
KeepsInvestigating ==
  "alerts" \in traffic => \A a \in Alerts : []<>(row[a] < Cooldown)

(* The limit holds for the fleet: in no span of one window's length is     *)
(* more let through than the limit of two windows, and what passed while   *)
(* Redis did not answer.                                                   *)
BurstBounded == \A b \in Buckets : recent[b][Window] <= 2 * Limit[b] + faults

(* A tenant is refused when its limit was used in this very window, never  *)
(* because one of its subjects went on calling after being refused.        *)
TenantRefusedWhenSpent ==
  counter[Tenant][(time \div Window) % 3].used > Limit[Tenant] =>
    recent[Tenant][(time % Window) + 1] >= Limit[Tenant]

(* Limits hold both ways: no more than they say, and no less for a tenant. *)
LimitsHold == TypeOK /\ BurstBounded /\ TenantRefusedWhenSpent
=============================================================================
