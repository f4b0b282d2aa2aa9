-------------------------- MODULE Admission_proofs --------------------------
(* That the ledger gives an alert away once in a cooldown, that a request  *)
(* which arrives again starts no second investigation of an alert, and     *)
(* that the limits hold for the fleet, for any number of workers,          *)
(* requests, alerts, callers and failures.                                 *)
EXTENDS Admission, SequenceTheorems, TLAPS

Handler == [on : Requests \cup {None}, todo : Seq(Alerts), claimed : BOOLEAN]
Age     == (-Tolerance..Tolerance + 1) \cup {None}
Sent    == [age : Age, batch : Batches \cup {<<>>}, arrived : 0..MaxArrivals,
            rows : [Alerts -> Nat]]

(* What an alert comes by, and what a caller comes by.                     *)
LedgerTyped ==
  /\ seen \in [Alerts -> 0..Cooldown]
  /\ request \in [Requests -> Sent]
  /\ handler \in [Workers -> Handler]
  /\ claimed \in [Alerts -> 0..Cooldown] /\ row \in [Alerts -> 0..Cooldown]

LimiterTyped ==
  /\ time \in 0..(3 * Window - 1)
  /\ counter \in [Buckets -> [0..2 -> [used : Nat, ttl : 0..Window]]]
  /\ calling \in [Workers -> Subjects \cup {None}]
  /\ recent \in [Buckets -> [1..Window -> Nat]]

Bounded == faults \in 0..MaxFaults /\ traffic \in Traffics

(* A handler has alerts to take up only while it is on a request that was  *)
(* sent, and a claim only on one of them.                                  *)
Occupied ==
  \A w \in Workers :
    /\ handler[w].todo # <<>> => handler[w].on # None
    /\ handler[w].claimed => handler[w].todo # <<>>
    /\ handler[w].on # None => request[handler[w].on].age # None

Typed == LedgerTyped /\ LimiterTyped /\ Bounded /\ Occupied

-----------------------------------------------------------------------------
LEMMA MinOfTwo ==
  ASSUME NEW a \in Int, NEW b \in Int
  PROVE  Min({a, b}) = IF a <= b THEN a ELSE b
<1>1. CASE a <= b
  <2>1. \A x : (x \in {a, b} /\ \A y \in {a, b} : x <= y) <=> x = a
    BY <1>1
  <2> QED
    BY <1>1, <2>1 DEF Min
<1>2. CASE ~(a <= b)
  <2>1. \A x : (x \in {a, b} /\ \A y \in {a, b} : x <= y) <=> x = b
    BY <1>2
  <2> QED
    BY <1>2, <2>1 DEF Min
<1> QED
  BY <1>1, <1>2

LEMMA Types == TypeOK <=> LedgerTyped /\ LimiterTyped /\ Bounded
BY DEF TypeOK, LedgerTyped, LimiterTyped, Bounded, Sent, Age, Handler

(* What AdmissionAssumption says, in parts.                                *)
LEMMA Constants ==
  /\ Cooldown \in Nat /\ Cooldown > 0 /\ Tolerance \in Nat
  /\ MaxFaults \in Nat /\ MaxArrivals \in Nat
  /\ Window \in Nat /\ Window > 0 /\ Ahead \in [Workers -> 0..(Window - 1)]
  /\ \A b \in Buckets : Limit[b] \in Nat
  /\ None \notin Requests /\ None \notin Subjects /\ None \notin Int
BY AdmissionAssumption

LEMMA BatchesAreOfAlerts == \A b \in Batches \cup {<<>>} : b \in Seq(Alerts)
<1>1. Batches \subseteq Seq(Alerts)
  BY AdmissionAssumption
<1>2. <<>> \in Seq(Alerts)
  OBVIOUS
<1> QED
  BY <1>1, <1>2

LEMMA Initially == Init => Typed
<1> SUFFICES ASSUME Init PROVE Typed
  OBVIOUS
<1> USE AdmissionAssumption
<1>1. LedgerTyped
  BY DEF Init, LedgerTyped, Sent, Age, Handler, NoRequest, Idle
<1>2. LimiterTyped
  BY DEF Init, LimiterTyped, NoKey
<1>3. Bounded /\ Occupied
  BY DEF Init, Bounded, Occupied, Idle
<1> QED
  BY <1>1, <1>2, <1>3 DEF Typed

-----------------------------------------------------------------------------
(* Putting a handler past the alert it is at, whatever becomes of it.      *)
LEMMA Skipped ==
  ASSUME handler \in [Workers -> Handler], NEW w \in Workers,
         handler[w].todo # <<>>, Skip(w)
  PROVE  /\ handler' \in [Workers -> Handler]
         /\ \A v \in Workers \ {w} : handler'[v] = handler[v]
         /\ handler'[w].on = handler[w].on
         /\ handler'[w].todo = Tail(handler[w].todo)
         /\ ~handler'[w].claimed
<1>1. handler[w] \in Handler
  OBVIOUS
<1>2. Tail(handler[w].todo) \in Seq(Alerts)
  BY <1>1 DEF Handler
<1>3. handler' = [handler EXCEPT ![w].todo = Tail(@), ![w].claimed = FALSE]
  BY DEF Skip
<1> QED
  BY <1>1, <1>2, <1>3 DEF Handler

(* Rows of a request are counted, and nothing else of it changes.          *)
Counts(q, a) == request' = [request EXCEPT ![q].rows[a] = @ + 1]

LEMMA Counted ==
  ASSUME request \in [Requests -> Sent], NEW q \in Requests, NEW a \in Alerts,
         Counts(q, a)
  PROVE  /\ request' \in [Requests -> Sent]
         /\ \A p \in Requests : request'[p].age = request[p].age
         /\ request'[q].rows[a] = request[q].rows[a] + 1
         /\ \A p \in Requests, b \in Alerts :
              p # q \/ b # a => request'[p].rows[b] = request[p].rows[b]
<1>1. request[q] \in Sent /\ request[q].rows \in [Alerts -> Nat]
  BY DEF Sent
<1>2. /\ \A p \in Requests \ {q} : request'[p] = request[p]
      /\ request'[q] = [request[q] EXCEPT !.rows[a] = @ + 1]
  BY DEF Counts
<1>3. request'[q] \in Sent /\ request'[q].age = request[q].age
  <2>1. [request[q].rows EXCEPT ![a] = @ + 1] \in [Alerts -> Nat]
    BY <1>1
  <2>2. request'[q] = [request[q] EXCEPT !.rows = [request[q].rows EXCEPT ![a] = @ + 1]]
    BY <1>2
  <2> QED
    BY <1>1, <2>1, <2>2 DEF Sent
<1>4. /\ request'[q].rows[a] = request[q].rows[a] + 1
      /\ \A b \in Alerts \ {a} : request'[q].rows[b] = request[q].rows[b]
  BY <1>1, <1>2 DEF Sent
<1> QED
  BY <1>2, <1>3, <1>4 DEF Counts

(* The alert a handler is at, and the request it has it from.              *)
LEMMA AtWork ==
  ASSUME Typed, NEW w \in Workers, handler[w].todo # <<>>
  PROVE  /\ Head(handler[w].todo) \in Alerts
         /\ handler[w].on \in Requests
<1>1. handler[w] \in Handler
  BY DEF Typed, LedgerTyped
<1>2. handler[w].todo \in Seq(Alerts) /\ handler[w].on \in Requests \cup {None}
  BY <1>1 DEF Handler
<1> QED
  BY <1>2 DEF Typed, Occupied

LEMMA SetTyped ==
  ASSUME LedgerTyped, NEW a \in Alerts, SetIfAbsent(a)
  PROVE  seen' \in [Alerts -> 0..Cooldown] /\ claimed' \in [Alerts -> 0..Cooldown]
<1>1. Cooldown \in 0..Cooldown /\ 0 \in 0..Cooldown
  BY AdmissionAssumption
<1> QED
  BY <1>1 DEF LedgerTyped, SetIfAbsent

-----------------------------------------------------------------------------
(* The sender and the handlers keep the types.                             *)
Sending(q) == GivesUp(q) \/ \E batch \in Batches : Send(q, batch)

Handling(w) ==
  \/ \E q \in Requests : Accept(w, q)
  \/ Claim(w) \/ ClaimUnanswered(w) \/ Start(w) \/ StartFails(w) \/ Answer(w)

LEMMA OtherwiseTyped ==
  ASSUME Typed, \/ \E q \in Requests : Sending(q)
                \/ \E w \in Workers : Handling(w)
  PROVE  LimiterTyped' /\ Bounded'
<1>1. UNCHANGED <<limiter, time, traffic>> /\ (UNCHANGED faults \/ Fails)
  BY DEF Sending, Handling, GivesUp, Send, Accept, Claim, ClaimUnanswered, Start,
         StartFails, Answer
<1>2. faults' \in 0..MaxFaults
  BY <1>1, AdmissionAssumption DEF Typed, Bounded, Fails
<1> QED
  BY <1>1, <1>2 DEF Typed, LimiterTyped, Bounded, limiter

LEMMA SenderTyped ==
  ASSUME Typed, NEW q \in Requests, Sending(q)
  PROVE  LedgerTyped' /\ Occupied'
<1>1. /\ UNCHANGED <<seen, handler, claimed, row>>
      /\ request \in [Requests -> Sent]
  BY DEF Sending, GivesUp, Send, Typed, LedgerTyped
<1>2. CASE GivesUp(q)
  <2>1. /\ request' = [request EXCEPT ![q] = NoRequest]
        /\ \A w \in Workers : handler[w].on # q
    BY <1>2 DEF GivesUp
  <2>2. NoRequest \in Sent
    BY AdmissionAssumption DEF NoRequest, Sent, Age
  <2>3. request' \in [Requests -> Sent]
    BY <1>1, <2>1, <2>2
  <2>4. Occupied'
    BY <1>1, <2>1 DEF Typed, Occupied
  <2> QED
    BY <1>1, <2>3, <2>4 DEF Typed, LedgerTyped
<1>3. ASSUME NEW batch \in Batches, Send(q, batch)
      PROVE  LedgerTyped' /\ Occupied'
  <2>1. PICK age \in -Tolerance..0 :
          request' = [request EXCEPT ![q] = [NoRequest EXCEPT !.age = age, !.batch = batch]]
    BY <1>3 DEF Send
  <2> DEFINE new == [NoRequest EXCEPT !.age = age, !.batch = batch]
  <2>2. age \in Age /\ age # None
    BY AdmissionAssumption DEF Age
  <2>3. new \in Sent /\ new.age = age
    <3>1. NoRequest \in Sent
      BY Constants DEF NoRequest, Sent, Age
    <3> QED
      BY <2>2, <3>1 DEF Sent
  <2> HIDE DEF new
  <2>4. request' \in [Requests -> Sent]
    BY <1>1, <2>1, <2>3 DEF new
  <2>5. request'[q].age # None /\ \A p \in Requests \ {q} : request'[p] = request[p]
    BY <1>1, <2>1, <2>2, <2>3 DEF new
  <2>6. Occupied'
    BY <1>1, <2>5 DEF Typed, Occupied, LedgerTyped, Handler
  <2> QED
    BY <1>1, <2>4, <2>6 DEF Typed, LedgerTyped
<1> QED
  BY <1>2, <1>3 DEF Sending

(* The handler of w got past an alert, which leaves the others as they are.*)
LEMMA OccupiedAfterSkip ==
  ASSUME Typed, NEW w \in Workers, handler[w].todo # <<>>, Skip(w),
         \A q \in Requests : request'[q].age = request[q].age
  PROVE  handler' \in [Workers -> Handler] /\ Occupied'
<1>1. handler \in [Workers -> Handler]
  BY DEF Typed, LedgerTyped
<1>2. /\ handler' \in [Workers -> Handler]
      /\ \A v \in Workers \ {w} : handler'[v] = handler[v]
      /\ handler'[w].on = handler[w].on
      /\ handler'[w].todo = Tail(handler[w].todo)
      /\ ~handler'[w].claimed
  BY <1>1, Skipped
<1>3. handler[w].on # None /\ handler[w].on \in Requests
  BY AtWork DEF Typed, Occupied
<1>4. \A v \in Workers : handler[v].on # None => handler[v].on \in Requests
  BY <1>1 DEF Handler
<1> QED
  BY <1>2, <1>3, <1>4 DEF Typed, Occupied

LEMMA HandlerTyped ==
  ASSUME Typed, NEW w \in Workers, Handling(w)
  PROVE  LedgerTyped' /\ Occupied'
<1>1. /\ request \in [Requests -> Sent] /\ handler \in [Workers -> Handler]
      /\ seen \in [Alerts -> 0..Cooldown] /\ claimed \in [Alerts -> 0..Cooldown]
      /\ row \in [Alerts -> 0..Cooldown]
      /\ LedgerTyped
  BY DEF Typed, LedgerTyped
<1>2. handler[w] \in Handler
  BY <1>1
<1>3. ASSUME NEW q \in Requests, Accept(w, q)
      PROVE  LedgerTyped' /\ Occupied'
  <2> DEFINE new == [Idle EXCEPT !.on = q, !.todo = request[q].batch]
  <2>1. /\ request[q] \in Sent /\ request[q].age # None
        /\ request[q].arrived + 1 \in 0..MaxArrivals
    BY <1>1, <1>3, AdmissionAssumption DEF Accept, Sent
  <2>2. /\ request' = [request EXCEPT ![q].arrived = @ + 1]
        /\ handler' = [handler EXCEPT ![w] = new]
        /\ UNCHANGED <<seen, claimed, row>>
    BY <1>3 DEF Accept
  <2>3. request[q].batch \in Seq(Alerts)
    BY <2>1, BatchesAreOfAlerts DEF Sent
  <2>4. new \in Handler /\ new.on = q /\ ~new.claimed
    BY <2>3 DEF Handler, Idle
  <2> HIDE DEF new
  <2>5. /\ request' \in [Requests -> Sent]
        /\ \A p \in Requests : request'[p].age = request[p].age
    BY <1>1, <2>1, <2>2 DEF Sent
  <2>6. handler' \in [Workers -> Handler] /\ handler'[w] = new
        /\ \A v \in Workers \ {w} : handler'[v] = handler[v]
    BY <1>1, <2>2, <2>4
  <2>7. \A v \in Workers : handler[v].on # None => handler[v].on \in Requests
    BY <1>1 DEF Handler
  <2>8. Occupied'
    BY <2>1, <2>4, <2>5, <2>6, <2>7, Constants DEF Typed, Occupied
  <2> QED
    BY <1>1, <2>2, <2>5, <2>6, <2>8 DEF LedgerTyped
<1>4. ASSUME Claim(w)
      PROVE  LedgerTyped' /\ Occupied'
  <2>1. handler[w].todo # <<>> /\ UNCHANGED <<request, row>>
    BY <1>4 DEF Claim
  <2>2. SetIfAbsent(Head(handler[w].todo)) /\ Head(handler[w].todo) \in Alerts
    BY <1>4, <2>1, AtWork DEF Claim
  <2>3. seen' \in [Alerts -> 0..Cooldown] /\ claimed' \in [Alerts -> 0..Cooldown]
    BY <1>1, <2>2, SetTyped
  <2>4. handler' \in [Workers -> Handler] /\ Occupied'
    <3>1. CASE Skip(w)
      BY <2>1, <3>1, OccupiedAfterSkip
    <3>2. CASE handler' = [handler EXCEPT ![w].claimed = TRUE]
      <4>1. /\ handler' \in [Workers -> Handler]
            /\ \A v \in Workers : /\ handler'[v].on = handler[v].on
                                  /\ handler'[v].todo = handler[v].todo
                                  /\ v # w => handler'[v] = handler[v]
        BY <1>1, <1>2, <3>2 DEF Handler
      <4> QED
        BY <2>1, <4>1 DEF Typed, Occupied
    <3> QED
      BY <1>4, <3>1, <3>2 DEF Claim
  <2> QED
    BY <1>1, <2>1, <2>3, <2>4 DEF LedgerTyped
<1>5. ASSUME ClaimUnanswered(w)
      PROVE  LedgerTyped' /\ Occupied'
  <2>1. handler[w].todo # <<>> /\ UNCHANGED <<request, row>> /\ Skip(w)
    BY <1>5 DEF ClaimUnanswered
  <2>2. seen' \in [Alerts -> 0..Cooldown] /\ claimed' \in [Alerts -> 0..Cooldown]
    BY <1>1, <1>5, <2>1, AtWork, SetTyped DEF ClaimUnanswered
  <2> QED
    BY <1>1, <2>1, <2>2, OccupiedAfterSkip DEF LedgerTyped
<1>6. ASSUME Start(w)
      PROVE  LedgerTyped' /\ Occupied'
  <2> DEFINE a == Head(handler[w].todo)
             q == handler[w].on
  <2>1. handler[w].todo # <<>> /\ UNCHANGED <<seen, claimed>> /\ Skip(w)
    BY <1>6 DEF Start, Typed, Occupied
  <2>2. a \in Alerts /\ q \in Requests
    BY <2>1, AtWork
  <2>3. row' = [row EXCEPT ![a] = 0] /\ Counts(q, a)
    BY <1>6 DEF Start, Counts
  <2> HIDE DEF a, q
  <2>4. /\ request' \in [Requests -> Sent]
        /\ \A p \in Requests : request'[p].age = request[p].age
    BY <1>1, <2>2, <2>3, Counted
  <2>5. row' \in [Alerts -> 0..Cooldown]
    BY <1>1, <2>2, <2>3, Constants
  <2> QED
    BY <1>1, <2>1, <2>4, <2>5, OccupiedAfterSkip DEF LedgerTyped
<1>7. ASSUME StartFails(w)
      PROVE  LedgerTyped' /\ Occupied'
  <2>1. /\ handler[w].todo # <<>> /\ Skip(w)
        /\ UNCHANGED <<seen, request, claimed, row>>
    BY <1>7 DEF StartFails, Typed, Occupied
  <2> QED
    BY <1>1, <2>1, OccupiedAfterSkip DEF LedgerTyped
<1>8. ASSUME Answer(w)
      PROVE  LedgerTyped' /\ Occupied'
  <2>1. /\ UNCHANGED <<seen, request, claimed, row>>
        /\ handler' = [handler EXCEPT ![w] = Idle]
    BY <1>8 DEF Answer
  <2>2. Idle \in Handler /\ Idle.on = None /\ Idle.todo = <<>> /\ ~Idle.claimed
    BY DEF Idle, Handler
  <2> QED
    BY <1>1, <2>1, <2>2 DEF LedgerTyped, Typed, Occupied
<1> QED
  BY <1>3, <1>4, <1>5, <1>6, <1>7, <1>8 DEF Handling

-----------------------------------------------------------------------------
(* Callers keep the types.                                                 *)
Key == [used : Nat, ttl : 0..Window]

LEMMA WindowTyped ==
  ASSUME LimiterTyped, NEW w \in Workers
  PROVE  WindowOf(w) \in 0..2
<1>1. time + Ahead[w] \in Int /\ Window \in Nat /\ Window > 0
  BY Constants DEF LimiterTyped
<1>2. (time + Ahead[w]) \div Window \in Int
  BY <1>1
<1> QED
  BY <1>2 DEF WindowOf

LEMMA IncrementTyped ==
  ASSUME LimiterTyped, NEW w \in Workers, NEW b \in Buckets, Increment(w, b)
  PROVE  counter' \in [Buckets -> [0..2 -> Key]]
<1> DEFINE n == WindowOf(w)
           key == counter[b][n]
           new == [used |-> Min({Uses(w, b), Limit[b] + 1}),
                   ttl  |-> IF key.ttl = 0 THEN Window ELSE key.ttl]
<1>1. n \in 0..2 /\ counter \in [Buckets -> [0..2 -> Key]]
  BY WindowTyped DEF LimiterTyped, Key
<1>2. key \in Key
  BY <1>1
<1>3. Uses(w, b) \in Nat /\ Limit[b] + 1 \in Nat
  BY <1>2, Constants DEF Uses, Key
<1>4. Min({Uses(w, b), Limit[b] + 1}) \in Nat
  BY <1>3, MinOfTwo
<1>5. new \in Key
  BY <1>2, <1>4, Constants DEF Key
<1>6. counter' = [counter EXCEPT ![b] = [counter[b] EXCEPT ![n] = new]]
  BY DEF Increment
<1> HIDE DEF n, new
<1>7. [counter[b] EXCEPT ![n] = new] \in [0..2 -> Key]
  BY <1>1, <1>5
<1> QED
  BY <1>1, <1>6, <1>7

LEMMA LetThroughTyped ==
  ASSUME LimiterTyped, NEW b \in Buckets, LetThrough(b)
  PROVE  /\ recent' \in [Buckets -> [1..Window -> Nat]]
         /\ \A n \in 1..Window : recent'[b][n] = recent[b][n] + 1
         /\ \A c \in Buckets \ {b} : recent'[c] = recent[c]
<1> DEFINE new == [n \in 1..Window |-> recent[b][n] + 1]
<1>1. recent \in [Buckets -> [1..Window -> Nat]] /\ recent[b] \in [1..Window -> Nat]
  BY DEF LimiterTyped
<1>2. new \in [1..Window -> Nat] /\ \A n \in 1..Window : new[n] = recent[b][n] + 1
  BY <1>1
<1>3. recent' = [recent EXCEPT ![b] = new]
  BY DEF LetThrough
<1> HIDE DEF new
<1> QED
  BY <1>1, <1>2, <1>3

Calling(w) ==
  \/ \E s \in Subjects : Call(w, s) \/ CallUnanswered(w, s)
  \/ CallTenant(w) \/ TenantUnanswered(w)

(* A use is counted or not, a caller let through or not, and the tenant    *)
(* asked next or not.                                                      *)
LEMMA CallerTyped ==
  ASSUME Typed, NEW w \in Workers, Calling(w)
  PROVE  Typed'
<1>1. LimiterTyped
  BY DEF Typed
<1>2. /\ UNCHANGED <<ledger, time, traffic>> /\ (UNCHANGED faults \/ Fails)
      /\ \E b \in Buckets : /\ Increment(w, b) \/ UNCHANGED counter
                            /\ LetThrough(b) \/ UNCHANGED recent
      /\ \E c \in Subjects \cup {None} :
           calling' = [calling EXCEPT ![w] = c] \/ UNCHANGED calling
  BY DEF Calling, Call, CallUnanswered, CallTenant, TenantUnanswered, Buckets
<1>3. counter' \in [Buckets -> [0..2 -> Key]]
  BY <1>1, <1>2, IncrementTyped DEF LimiterTyped, Key
<1>4. recent' \in [Buckets -> [1..Window -> Nat]]
  BY <1>1, <1>2, LetThroughTyped DEF LimiterTyped
<1>5. calling' \in [Workers -> Subjects \cup {None}]
  BY <1>1, <1>2 DEF LimiterTyped
<1>6. faults' \in 0..MaxFaults
  BY <1>2, Constants DEF Typed, Bounded, Fails
<1>7. LimiterTyped' /\ Bounded'
  BY <1>1, <1>2, <1>3, <1>4, <1>5, <1>6 DEF LimiterTyped, Key, Typed, Bounded
<1>8. LedgerTyped' /\ Occupied'
  BY <1>2 DEF Typed, LedgerTyped, Occupied, ledger
<1> QED
  BY <1>7, <1>8 DEF Typed

LEMMA CrashTyped ==
  ASSUME Typed, NEW w \in Workers, Crash(w)
  PROVE  Typed'
<1>1. /\ handler' = [handler EXCEPT ![w] = Idle]
      /\ calling' = [calling EXCEPT ![w] = None]
      /\ UNCHANGED <<seen, request, claimed, row, counter, recent, time, traffic>>
      /\ Fails
  BY DEF Crash
<1>2. Idle \in Handler /\ Idle.on = None /\ Idle.todo = <<>> /\ ~Idle.claimed
  BY DEF Idle, Handler
<1>3. LedgerTyped' /\ Occupied'
  BY <1>1, <1>2 DEF LedgerTyped, Typed, Occupied
<1>4. calling' \in [Workers -> Subjects \cup {None}]
  BY <1>1 DEF Typed, LimiterTyped
<1>5. LimiterTyped'
  BY <1>1, <1>4 DEF Typed, LimiterTyped
<1>6. Bounded'
  BY <1>1, Constants DEF Typed, Bounded, Fails
<1> QED
  BY <1>3, <1>5, <1>6 DEF Typed

-----------------------------------------------------------------------------
(* A tick: what is left of a key becomes less, what is old older.          *)
LEMMA OlderIs ==
  ASSUME NEW age \in 0..Cooldown
  PROVE  Older(age) = IF age < Cooldown THEN age + 1 ELSE Cooldown
BY Constants, MinOfTwo DEF Older

LEMMA AgeIs ==
  ASSUME NEW age \in -Tolerance..Tolerance + 1
  PROVE  Min({age + 1, Tolerance + 1}) = IF age <= Tolerance THEN age + 1 ELSE age
BY Constants, MinOfTwo

LEMMA RequestsAge ==
  ASSUME Typed, Tick
  PROVE  /\ request' \in [Requests -> Sent]
         /\ \A q \in Requests :
              IF request[q].age = None THEN request'[q] = NoRequest
              ELSE /\ request'[q].rows = request[q].rows
                   /\ request[q].age \in -Tolerance..Tolerance + 1
                   /\ request'[q].age = IF request[q].age <= Tolerance
                                        THEN request[q].age + 1 ELSE request[q].age
<1>1. request \in [Requests -> Sent]
  BY DEF Typed, LedgerTyped
<1>2. NoRequest \in Sent
  BY Constants DEF NoRequest, Sent, Age
<1>3. request' = [q \in Requests |->
         IF request[q].age = None THEN NoRequest
         ELSE [request[q] EXCEPT !.age = Min({@ + 1, Tolerance + 1})]]
  BY DEF Tick
<1>4. ASSUME NEW q \in Requests, request[q].age # None
      PROVE  /\ request'[q] \in Sent
             /\ request'[q].rows = request[q].rows
             /\ request[q].age \in -Tolerance..Tolerance + 1
             /\ request'[q].age = IF request[q].age <= Tolerance
                                  THEN request[q].age + 1 ELSE request[q].age
  <2> DEFINE new == Min({request[q].age + 1, Tolerance + 1})
  <2>1. request[q] \in Sent /\ request[q].age \in -Tolerance..Tolerance + 1
    BY <1>1, <1>4 DEF Sent, Age
  <2>2. new = IF request[q].age <= Tolerance THEN request[q].age + 1 ELSE request[q].age
    BY <2>1, AgeIs
  <2>3. new \in Age
    BY <2>1, <2>2, Constants DEF Age
  <2>4. request'[q] = [request[q] EXCEPT !.age = new]
    BY <1>3, <1>4
  <2> HIDE DEF new
  <2> QED
    BY <2>1, <2>2, <2>3, <2>4 DEF Sent
<1>5. \A q \in Requests : request'[q] \in Sent
  BY <1>2, <1>3, <1>4
<1> QED
  BY <1>3, <1>4, <1>5

LEMMA TickTyped ==
  ASSUME Typed, Tick
  PROVE  Typed'
<1>1. /\ UNCHANGED <<handler, calling, faults, traffic>>
      /\ seen' = [a \in Alerts |-> Less(seen[a])]
      /\ claimed' = [a \in Alerts |-> Older(claimed[a])]
      /\ row' = [a \in Alerts |-> Older(row[a])]
  BY DEF Tick
<1>2. seen' \in [Alerts -> 0..Cooldown]
  BY <1>1, Constants DEF Typed, LedgerTyped, Less
<1>3. \A age \in 0..Cooldown : Older(age) \in 0..Cooldown
  BY OlderIs, Constants
<1>4. claimed' \in [Alerts -> 0..Cooldown] /\ row' \in [Alerts -> 0..Cooldown]
  BY <1>1, <1>3 DEF Typed, LedgerTyped
<1>5. LedgerTyped'
  BY <1>1, <1>2, <1>4, RequestsAge DEF Typed, LedgerTyped
<1>6. Occupied'
  <2>1. \A q \in Requests : request[q].age # None => request'[q].age # None
    BY RequestsAge, Constants
  <2>2. \A w \in Workers : handler[w].on # None => handler[w].on \in Requests
    BY DEF Typed, LedgerTyped, Handler
  <2> QED
    BY <1>1, <2>1, <2>2 DEF Typed, Occupied
<1>7. time' \in 0..(3 * Window - 1)
  BY Constants DEF Tick, Typed, LimiterTyped
<1>8. counter' \in [Buckets -> [0..2 -> Key]]
  <2>1. counter \in [Buckets -> [0..2 -> Key]] /\ NoKey \in Key
    BY Constants DEF Typed, LimiterTyped, Key, NoKey
  <2>2. counter' = [b \in Buckets |-> [n \in 0..2 |->
          IF counter[b][n].ttl <= 1 THEN NoKey ELSE [counter[b][n] EXCEPT !.ttl = @ - 1]]]
    BY DEF Tick
  <2>3. ASSUME NEW b \in Buckets, NEW n \in 0..2, ~(counter[b][n].ttl <= 1)
        PROVE  [counter[b][n] EXCEPT !.ttl = @ - 1] \in Key
    <3>1. counter[b][n] \in Key
      BY <2>1
    <3>2. counter[b][n].ttl - 1 \in 0..Window
      BY <2>3, <3>1, Constants DEF Key
    <3> QED
      BY <3>1, <3>2 DEF Key
  <2> QED
    BY <2>1, <2>2, <2>3
<1>9. recent' \in [Buckets -> [1..Window -> Nat]]
  <2>1. recent \in [Buckets -> [1..Window -> Nat]]
    BY DEF Typed, LimiterTyped
  <2>2. recent' = [b \in Buckets |-> [n \in 1..Window |->
          IF n = 1 THEN 0 ELSE recent[b][n - 1]]]
    BY DEF Tick
  <2>3. \A b \in Buckets, n \in 1..Window : n # 1 => recent[b][n - 1] \in Nat
    BY <2>1, Constants
  <2> QED
    BY <2>2, <2>3
<1>10. LimiterTyped' /\ Bounded'
  BY <1>1, <1>7, <1>8, <1>9 DEF Typed, LimiterTyped, Bounded, Key
<1> QED
  BY <1>5, <1>6, <1>10 DEF Typed

-----------------------------------------------------------------------------
LEMMA Stuttering == Typed /\ UNCHANGED vars => Typed'
BY DEF vars, ledger, limiter, Typed, LedgerTyped, LimiterTyped, Bounded, Occupied

LEMMA NextIs ==
  ASSUME Next
  PROVE  \/ Tick \/ \E q \in Requests : Sending(q)
         \/ \E w \in Workers : Handling(w) \/ Crash(w) \/ Calling(w)
BY DEF Next, Sending, Handling, Calling

LEMMA StaysTyped == Typed /\ [Next]_vars => Typed'
<1> SUFFICES ASSUME Typed, Next PROVE Typed'
  BY Stuttering
<1>1. CASE Tick
  BY <1>1, TickTyped
<1>2. ASSUME NEW q \in Requests, Sending(q) PROVE Typed'
  BY <1>2, SenderTyped, OtherwiseTyped DEF Typed
<1>3. ASSUME NEW w \in Workers, Handling(w) PROVE Typed'
  BY <1>3, HandlerTyped, OtherwiseTyped DEF Typed
<1>4. ASSUME NEW w \in Workers, Crash(w) \/ Calling(w) PROVE Typed'
  BY <1>4, CrashTyped, CallerTyped
<1> QED
  BY <1>1, <1>2, <1>3, <1>4, NextIs

(* Every variable keeps its type.                                          *)
THEOREM AdmissionTypes == Spec => []TypeOK
<1>1. Typed => TypeOK
  BY Types DEF Typed
<1> QED
  BY Initially, StaysTyped, <1>1, PTL DEF Spec

-----------------------------------------------------------------------------
(* The ledger.  A key outlives the cooldown of the claim that set it.      *)
Kept == \A a \in Alerts : seen[a] + claimed[a] >= Cooldown

LEMMA KeptInitially == Init => Kept
BY Constants DEF Init, Kept

(* What the ledger gives away it had not, and it gives it away for as long *)
(* as a cooldown.                                                          *)
LEMMA SetKeeps ==
  ASSUME LedgerTyped, Kept, NEW a \in Alerts, SetIfAbsent(a)
  PROVE  /\ Kept'
         /\ \A b \in Alerts : claimed'[b] < claimed[b] => claimed[b] = Cooldown
         /\ \A b \in Alerts : seen'[b] >= seen[b]
         /\ Absent(a) => seen'[a] = Cooldown
<1>1. seen \in [Alerts -> 0..Cooldown] /\ claimed \in [Alerts -> 0..Cooldown]
  BY DEF LedgerTyped
<1>2. CASE Absent(a)
  <2>1. /\ seen' = [seen EXCEPT ![a] = Cooldown]
        /\ claimed' = [claimed EXCEPT ![a] = 0]
        /\ seen[a] = 0
    BY <1>2 DEF SetIfAbsent, Absent
  <2>2. claimed[a] = Cooldown
    BY <1>1, <2>1, Constants DEF Kept
  <2> QED
    BY <1>1, <2>1, <2>2, Constants DEF Kept
<1>3. CASE ~Absent(a)
  BY <1>1, <1>3 DEF SetIfAbsent, Kept
<1> QED
  BY <1>2, <1>3

LEMMA LedgerStep ==
  ASSUME Typed, Kept, [Next]_vars
  PROVE  Kept' /\ \A a \in Alerts : claimed'[a] < claimed[a] => claimed[a] = Cooldown
<1>1. /\ seen \in [Alerts -> 0..Cooldown] /\ claimed \in [Alerts -> 0..Cooldown]
      /\ LedgerTyped
  BY DEF Typed, LedgerTyped
<1>2. CASE UNCHANGED <<seen, claimed>>
  BY <1>1, <1>2 DEF Kept
<1>3. CASE Tick
  <2>1. \A a \in Alerts : /\ seen'[a] = Less(seen[a])
                          /\ claimed'[a] = Older(claimed[a])
    BY <1>3 DEF Tick
  <2>2. \A a \in Alerts : claimed'[a] = IF claimed[a] < Cooldown THEN claimed[a] + 1
                                        ELSE Cooldown
    BY <1>1, <2>1, OlderIs
  <2> QED
    BY <1>1, <2>1, <2>2, Constants DEF Kept, Less
<1>4. ASSUME NEW w \in Workers, Claim(w) \/ ClaimUnanswered(w), ~UNCHANGED <<seen, claimed>>
      PROVE  Kept' /\ \A a \in Alerts : claimed'[a] < claimed[a] => claimed[a] = Cooldown
  <2>1. handler[w].todo # <<>> /\ SetIfAbsent(Head(handler[w].todo))
    BY <1>4 DEF Claim, ClaimUnanswered
  <2> QED
    BY <1>1, <2>1, AtWork, SetKeeps
<1>5. \/ UNCHANGED <<seen, claimed>> \/ Tick
      \/ \E w \in Workers : Claim(w) \/ ClaimUnanswered(w)
  BY NextIs DEF vars, ledger, Sending, GivesUp, Send, Handling, Accept, Start, StartFails,
     Answer, Crash, Calling, Call, CallUnanswered, CallTenant, TenantUnanswered
<1> QED
  BY <1>2, <1>3, <1>4, <1>5

(* Whichever workers its repetitions reach, an alert is given away once in *)
(* a cooldown.                                                             *)
THEOREM OneClaimPerCooldown == Spec => OncePerCooldown
<1>1. Typed /\ Kept /\ [Next]_vars =>
        [\A a \in Alerts : claimed'[a] < claimed[a] => claimed[a] = Cooldown]_vars
  BY LedgerStep
<1>2. Typed /\ Kept /\ [Next]_vars => Typed' /\ Kept'
  BY StaysTyped, LedgerStep
<1>3. Init => Typed /\ Kept
  BY Initially, KeptInitially
<1> QED
  BY <1>1, <1>2, <1>3, PTL DEF Spec, OncePerCooldown

-----------------------------------------------------------------------------
(* One start per request.  A handler has taken alert a of request q and    *)
(* not yet started an investigation of it.                                 *)
Holding(w, q, a) ==
  /\ handler[w].on = q /\ handler[w].claimed
  /\ handler[w].todo # <<>> /\ Head(handler[w].todo) = a

(* Work that is not merely the start of the last alert is done in the tick *)
(* in which the request was accepted.                                      *)
Prompt ==
  \A w \in Workers :
    \/ handler[w].todo = <<>>
    \/ handler[w].claimed /\ Len(handler[w].todo) = 1
    \/ request[handler[w].on].age \in -Tolerance..Tolerance

(* The ledger remembers the alert for as long as the request is young      *)
(* enough to be accepted.                                                  *)
Remembered(q, a) ==
  /\ request[q].age # None
  /\ request[q].age <= Tolerance => seen[a] + request[q].age + Tolerance >= Cooldown

(* An alert of a request is in one hand, or was started once, or neither.  *)
TakenOnce ==
  \A q \in Requests, a \in Alerts :
    /\ request[q].rows[a] <= 1
    /\ request[q].rows[a] = 1 => Remembered(q, a)
    /\ \A w \in Workers : Holding(w, q, a) =>
         /\ request[q].rows[a] = 0 /\ Remembered(q, a)
         /\ \A v \in Workers : Holding(v, q, a) => v = w

Inv == Typed /\ Prompt /\ TakenOnce

LEMMA InvInitially == Init => Inv
<1> SUFFICES ASSUME Init PROVE Inv
  OBVIOUS
<1>1. \A w \in Workers : handler[w].todo = <<>> /\ ~handler[w].claimed
  BY DEF Init, Idle
<1>2. \A q \in Requests, a \in Alerts : request[q].rows[a] = 0
  BY DEF Init, NoRequest
<1>3. Prompt
  BY <1>1 DEF Prompt
<1>4. TakenOnce
  BY <1>1, <1>2 DEF TakenOnce, Holding
<1> QED
  BY <1>3, <1>4, Initially DEF Inv

(* The types in the form the steps below use.                              *)
LEMMA Ranges ==
  ASSUME Typed
  PROVE  /\ \A a \in Alerts : seen[a] \in 0..Cooldown
         /\ \A q \in Requests : request[q].age \in Age
         /\ \A q \in Requests : request[q].age # None => request[q].age \in Int
         /\ \A q \in Requests, a \in Alerts : request[q].rows[a] \in Nat
         /\ \A w \in Workers : handler[w] \in Handler
         /\ \A w \in Workers : handler[w].on \in Requests \cup {None}
         /\ \A w \in Workers : handler[w].todo \in Seq(Alerts)
         /\ \A w \in Workers : handler[w].todo # <<>> =>
              /\ handler[w].on \in Requests /\ Head(handler[w].todo) \in Alerts
              /\ request[handler[w].on].age # None
<1>1. /\ seen \in [Alerts -> 0..Cooldown] /\ request \in [Requests -> Sent]
      /\ handler \in [Workers -> Handler]
  BY DEF Typed, LedgerTyped
<1>2. \A q \in Requests : request[q] \in Sent
  BY <1>1
<1>3. \A q \in Requests : request[q].age \in Age /\ request[q].rows \in [Alerts -> Nat]
  BY <1>2 DEF Sent
<1>4. \A w \in Workers : handler[w].on \in Requests \cup {None} /\ handler[w].todo \in Seq(Alerts)
  BY <1>1 DEF Handler
<1>5. \A q \in Requests : request[q].age # None => request[q].age \in Int
  BY <1>3, Constants DEF Age
<1>6. \A w \in Workers : handler[w].todo # <<>> =>
        /\ handler[w].on \in Requests /\ Head(handler[w].todo) \in Alerts
        /\ request[handler[w].on].age # None
  BY AtWork, Constants DEF Typed, Occupied
<1> QED
  BY <1>1, <1>3, <1>4, <1>5, <1>6

(* A step that takes no alert and forgets none.                            *)
LEMMA NoneTaken ==
  ASSUME Typed, TakenOnce,
         \A q \in Requests : /\ request'[q].rows = request[q].rows
                             /\ request'[q].age = request[q].age,
         \A a \in Alerts : seen'[a] >= seen[a] /\ seen'[a] \in Nat,
         \A w \in Workers, q \in Requests, a \in Alerts :
           Holding(w, q, a)' => Holding(w, q, a)
  PROVE  TakenOnce'
<1>1. \A q \in Requests, a \in Alerts : Remembered(q, a) => Remembered(q, a)'
  BY Ranges, Constants DEF Remembered
<1> QED
  BY <1>1 DEF TakenOnce

(* A handler past one of its alerts holds none, and the others what they   *)
(* held.                                                                   *)
LEMMA SkipReleases ==
  ASSUME Typed, Prompt, NEW w \in Workers, handler[w].todo # <<>>, Skip(w),
         \A q \in Requests : request'[q].age = request[q].age
  PROVE  /\ Prompt'
         /\ \A v \in Workers, q \in Requests, a \in Alerts :
              Holding(v, q, a)' <=> v # w /\ Holding(v, q, a)
<1>1. /\ handler \in [Workers -> Handler]
      /\ \A v \in Workers \ {w} : handler'[v] = handler[v]
      /\ handler'[w].on = handler[w].on
      /\ handler'[w].todo = Tail(handler[w].todo)
      /\ ~handler'[w].claimed
  BY Skipped DEF Typed, LedgerTyped
<1>2. handler[w].todo \in Seq(Alerts) /\ handler[w].on \in Requests
  BY Ranges
<1>3. Prompt'
  <2>1. ASSUME NEW v \in Workers, v # w, handler[v].todo # <<>>
        PROVE  request'[handler[v].on].age = request[handler[v].on].age
    BY <2>1, Ranges
  <2>2. CASE Tail(handler[w].todo) = <<>>
    BY <1>1, <2>1, <2>2 DEF Prompt
  <2>3. CASE Tail(handler[w].todo) # <<>>
    <3>1. Len(handler[w].todo) # 1
      <4>1. /\ Tail(handler[w].todo) \in Seq(Alerts)
            /\ Len(Tail(handler[w].todo)) = Len(handler[w].todo) - 1
        BY <1>2, HeadTailProperties
      <4>2. Len(Tail(handler[w].todo)) # 0
        BY <2>3, <4>1, EmptySeq
      <4> QED
        BY <1>2, <4>1, <4>2, LenProperties
    <3>2. request[handler[w].on].age \in -Tolerance..Tolerance
      BY <3>1 DEF Prompt
    <3> QED
      BY <1>1, <1>2, <2>1, <3>2 DEF Prompt
  <2> QED
    BY <2>2, <2>3
<1> QED
  BY <1>1, <1>3 DEF Holding

(* A claim falls into the time in which the request is accepted, so the    *)
(* ledger would remember an earlier one.                                   *)
LEMMA ClaimKeeps ==
  ASSUME Inv, Kept, 2 * Tolerance < Cooldown, NEW w \in Workers,
         Claim(w) \/ ClaimUnanswered(w)
  PROVE  Prompt' /\ TakenOnce'
<1>1. /\ Typed /\ Prompt /\ TakenOnce /\ LedgerTyped
      /\ handler[w].todo # <<>> /\ ~handler[w].claimed /\ UNCHANGED request
  BY DEF Inv, Typed, Claim, ClaimUnanswered
<1> PICK q \in Requests, a \in Alerts : q = handler[w].on /\ a = Head(handler[w].todo)
  BY <1>1, Ranges
<1>2. request[q].age \in -Tolerance..Tolerance
  BY <1>1 DEF Prompt
<1>3. SetIfAbsent(a) \/ UNCHANGED <<seen, claimed>>
  BY DEF Claim, ClaimUnanswered
<1>4. \A b \in Alerts : seen'[b] >= seen[b] /\ seen'[b] \in Nat
  <2>1. CASE SetIfAbsent(a)
    BY <1>1, <1>2, <2>1, SetKeeps, SetTyped
  <2>2. CASE UNCHANGED <<seen, claimed>>
    BY <1>1, <2>2, Ranges
  <2> QED
    BY <1>3, <2>1, <2>2
<1>5. CASE Skip(w)
  <2>1. /\ Prompt'
        /\ \A v \in Workers, p \in Requests, b \in Alerts :
             Holding(v, p, b)' => Holding(v, p, b)
    BY <1>1, <1>5, SkipReleases
  <2> QED
    BY <1>1, <1>4, <2>1, NoneTaken
<1>6. CASE ~Skip(w)
  <2>1. /\ Absent(a) /\ SetIfAbsent(a)
        /\ handler' = [handler EXCEPT ![w].claimed = TRUE]
    BY <1>6 DEF Claim, ClaimUnanswered
  <2>2. /\ \A v \in Workers \ {w} : handler'[v] = handler[v]
        /\ handler'[w].on = q /\ handler'[w].todo = handler[w].todo
    BY <1>1, <2>1, Ranges DEF Handler, Typed, LedgerTyped
  <2>3. Prompt'
    BY <1>1, <1>2, <2>2 DEF Prompt
  <2>4. \A v \in Workers, p \in Requests, b \in Alerts :
          Holding(v, p, b)' => Holding(v, p, b) \/ (v = w /\ p = q /\ b = a)
    BY <2>2 DEF Holding
  <2>5. ~Remembered(q, a)
    BY <1>2, <2>1, Constants DEF Remembered, Absent
  <2>6. request[q].rows[a] = 0 /\ \A v \in Workers : ~Holding(v, q, a)
    BY <1>1, <1>2, <2>5, Ranges DEF TakenOnce
  <2>7. Remembered(q, a)'
    <3>1. seen'[a] = Cooldown
      BY <1>1, <1>2, <2>1, SetKeeps
    <3>2. request[q].age # None
      BY <1>1, Ranges
    <3> QED
      BY <1>1, <1>2, <3>1, <3>2, Constants DEF Remembered
  <2>8. \A p \in Requests, b \in Alerts : Remembered(p, b) => Remembered(p, b)'
    BY <1>1, <1>4, Ranges, Constants DEF Remembered
  <2>9. \A p \in Requests, b \in Alerts : request'[p].rows[b] = request[p].rows[b]
    BY <1>1
  <2> QED
    BY <1>1, <2>3, <2>4, <2>6, <2>7, <2>8, <2>9 DEF TakenOnce
<1> QED
  BY <1>5, <1>6

(* The row is created by the one handler that holds the alert.             *)
LEMMA StartKeeps ==
  ASSUME Inv, NEW w \in Workers, Start(w)
  PROVE  Prompt' /\ TakenOnce'
<1>1. /\ Typed /\ Prompt /\ TakenOnce
      /\ handler[w].claimed /\ handler[w].todo # <<>> /\ Skip(w) /\ UNCHANGED seen
  BY DEF Inv, Typed, Occupied, Start
<1> PICK q \in Requests, a \in Alerts : q = handler[w].on /\ a = Head(handler[w].todo)
  BY <1>1, Ranges
<1>2. request \in [Requests -> Sent] /\ Counts(q, a)
  BY <1>1 DEF Typed, LedgerTyped, Start, Counts
<1>3. /\ \A p \in Requests : request'[p].age = request[p].age
      /\ request'[q].rows[a] = request[q].rows[a] + 1
      /\ \A p \in Requests, b \in Alerts :
           p # q \/ b # a => request'[p].rows[b] = request[p].rows[b]
  BY <1>2, Counted
<1>4. /\ Prompt'
      /\ \A v \in Workers, p \in Requests, b \in Alerts :
           Holding(v, p, b)' <=> v # w /\ Holding(v, p, b)
  BY <1>1, <1>3, SkipReleases
<1>5. Holding(w, q, a)
  BY <1>1 DEF Holding
<1>6. /\ request[q].rows[a] = 0 /\ Remembered(q, a)
      /\ \A v \in Workers : Holding(v, q, a) => v = w
  BY <1>1, <1>2, <1>5 DEF TakenOnce
<1>7. \A p \in Requests, b \in Alerts : Remembered(p, b)' <=> Remembered(p, b)
  BY <1>1, <1>3 DEF Remembered
<1> QED
  BY <1>1, <1>2, <1>3, <1>4, <1>6, <1>7 DEF TakenOnce

(* A request is forgotten, or new, only when no handler is on it.          *)
LEMMA SendKeeps ==
  ASSUME Inv, NEW q \in Requests, Sending(q)
  PROVE  Prompt' /\ TakenOnce'
<1>1. /\ Typed /\ Prompt /\ TakenOnce /\ UNCHANGED <<seen, handler>>
      /\ request \in [Requests -> Sent]
  BY DEF Inv, Typed, LedgerTyped, Sending, GivesUp, Send
<1>2. \A p \in Requests \ {q} : request'[p] = request[p]
  BY <1>1 DEF Sending, GivesUp, Send
<1>3. \A a \in Alerts : request'[q].rows[a] = 0
  <2>1. NoRequest.rows = [a \in Alerts |-> 0]
    BY DEF NoRequest
  <2>2. CASE GivesUp(q)
    BY <1>1, <2>1, <2>2 DEF GivesUp
  <2>3. ASSUME NEW batch \in Batches, Send(q, batch)
        PROVE  \A a \in Alerts : request'[q].rows[a] = 0
    <3>1. PICK age : request'[q] = [NoRequest EXCEPT !.age = age, !.batch = batch]
      BY <1>1, <2>3 DEF Send
    <3>2. request'[q].rows = NoRequest.rows
      BY <3>1 DEF NoRequest
    <3> QED
      BY <2>1, <3>2
  <2> QED
    BY <2>2, <2>3 DEF Sending
<1>4. \A w \in Workers : handler[w].on # q
  BY <1>1, Constants DEF Sending, GivesUp, Send, Typed, Occupied
<1>5. Prompt'
  BY <1>1, <1>2, <1>4, Ranges DEF Prompt
<1>6. \A w \in Workers, p \in Requests, a \in Alerts :
        Holding(w, p, a)' <=> p # q /\ Holding(w, p, a)
  BY <1>1, <1>4 DEF Holding
<1>7. \A p \in Requests \ {q}, a \in Alerts : Remembered(p, a)' <=> Remembered(p, a)
  BY <1>1, <1>2 DEF Remembered
<1> QED
  BY <1>1, <1>2, <1>3, <1>5, <1>6, <1>7 DEF TakenOnce

(* Handlers that take nothing and callers.                                 *)
LEMMA QuietKeeps ==
  ASSUME Inv, NEW w \in Workers,
         \/ \E q \in Requests : Accept(w, q)
         \/ StartFails(w) \/ Answer(w) \/ Crash(w) \/ Calling(w)
  PROVE  Prompt' /\ TakenOnce'
<1>1. Typed /\ Prompt /\ TakenOnce /\ UNCHANGED seen
  BY DEF Inv, Accept, StartFails, Answer, Crash, Calling, Call, CallUnanswered,
         CallTenant, TenantUnanswered, ledger
<1>2. \A a \in Alerts : seen'[a] >= seen[a] /\ seen'[a] \in Nat
  BY <1>1, Ranges
<1>3. handler \in [Workers -> Handler] /\ request \in [Requests -> Sent]
  BY <1>1 DEF Typed, LedgerTyped
<1>4. ASSUME NEW q \in Requests, Accept(w, q)
      PROVE  Prompt' /\ TakenOnce'
  <2>1. /\ handler' = [handler EXCEPT ![w] =
                          [Idle EXCEPT !.on = q, !.todo = request[q].batch]]
        /\ request' = [request EXCEPT ![q].arrived = @ + 1]
        /\ request[q].age \in -Tolerance..Tolerance
    BY <1>4 DEF Accept, Verified
  <2>2. \A p \in Requests : /\ request'[p].rows = request[p].rows
                            /\ request'[p].age = request[p].age
    BY <1>3, <2>1 DEF Sent
  <2>3. /\ handler'[w].on = q /\ ~handler'[w].claimed
        /\ \A v \in Workers \ {w} : handler'[v] = handler[v]
    BY <1>3, <2>1 DEF Idle
  <2>4. Prompt'
    BY <1>1, <2>1, <2>2, <2>3, Ranges DEF Prompt
  <2>5. \A v \in Workers, p \in Requests, a \in Alerts :
          Holding(v, p, a)' => Holding(v, p, a)
    BY <2>3 DEF Holding
  <2> QED
    BY <1>1, <1>2, <2>2, <2>4, <2>5, NoneTaken
<1>5. CASE StartFails(w)
  <2>1. handler[w].todo # <<>> /\ Skip(w) /\ UNCHANGED request
    BY <1>1, <1>5 DEF StartFails, Typed, Occupied
  <2> QED
    BY <1>1, <1>2, <2>1, SkipReleases, NoneTaken
<1>6. CASE Answer(w) \/ Crash(w)
  <2>1. handler' = [handler EXCEPT ![w] = Idle] /\ UNCHANGED request
    BY <1>6 DEF Answer, Crash
  <2>2. /\ handler'[w].todo = <<>>
        /\ \A v \in Workers \ {w} : handler'[v] = handler[v]
    BY <1>3, <2>1 DEF Idle
  <2>3. Prompt'
    BY <1>1, <2>1, <2>2 DEF Prompt
  <2>4. \A v \in Workers, p \in Requests, a \in Alerts :
          Holding(v, p, a)' => Holding(v, p, a)
    BY <2>2 DEF Holding
  <2> QED
    BY <1>1, <1>2, <2>1, <2>3, <2>4, NoneTaken
<1>7. CASE Calling(w)
  <2>1. UNCHANGED <<handler, request>>
    BY <1>7 DEF Calling, Call, CallUnanswered, CallTenant, TenantUnanswered, ledger
  <2>2. Prompt' /\ \A v \in Workers, p \in Requests, a \in Alerts :
          Holding(v, p, a)' => Holding(v, p, a)
    BY <1>1, <2>1 DEF Prompt, Holding
  <2> QED
    BY <1>1, <1>2, <2>1, <2>2, NoneTaken
<1> QED
  BY <1>4, <1>5, <1>6, <1>7

(* In a tick the key of an alert loses what its requests gain in age.      *)
LEMMA TickKeeps ==
  ASSUME Inv, Tick
  PROVE  Prompt' /\ TakenOnce'
<1>1. /\ Typed /\ Prompt /\ TakenOnce /\ UNCHANGED handler
      /\ \A a \in Alerts : seen'[a] = Less(seen[a])
  BY DEF Inv, Tick
<1>2. Prompt'
  BY <1>1 DEF Prompt, Tick
<1>3. \A w \in Workers, q \in Requests, a \in Alerts :
        Holding(w, q, a)' <=> Holding(w, q, a)
  BY <1>1 DEF Holding
<1>4. ASSUME NEW q \in Requests, NEW a \in Alerts, Remembered(q, a)
      PROVE  Remembered(q, a)' /\ request'[q].rows[a] = request[q].rows[a]
  <2>1. /\ request'[q].rows = request[q].rows
        /\ request[q].age \in -Tolerance..Tolerance + 1
        /\ request'[q].age = IF request[q].age <= Tolerance THEN request[q].age + 1
                             ELSE request[q].age
    BY <1>1, <1>4, RequestsAge DEF Remembered
  <2>2. seen[a] \in Nat /\ seen'[a] = IF seen[a] = 0 THEN 0 ELSE seen[a] - 1
    BY <1>1, Ranges DEF Less
  <2>3. request'[q].age # None
    BY <2>1, Constants
  <2> QED
    BY <1>4, <2>1, <2>2, <2>3, Constants DEF Remembered
<1>5. ASSUME NEW q \in Requests, NEW a \in Alerts
      PROVE  request'[q].rows[a] \in {0, request[q].rows[a]}
  <2>1. CASE request[q].age = None
    BY <1>1, <2>1, RequestsAge DEF NoRequest
  <2>2. CASE request[q].age # None
    BY <1>1, <2>2, RequestsAge
  <2> QED
    BY <2>1, <2>2
<1> QED
  BY <1>1, <1>2, <1>3, <1>4, <1>5 DEF TakenOnce

LEMMA InvStep ==
  ASSUME Inv, Kept, 2 * Tolerance < Cooldown, [Next]_vars
  PROVE  Inv'
<1>1. Typed'
  BY StaysTyped DEF Inv
<1>2. CASE UNCHANGED vars
  <2>1. UNCHANGED <<seen, handler, request>>
    BY <1>2 DEF vars, ledger
  <2>2. Prompt' /\ TakenOnce'
    BY <2>1 DEF Inv, Prompt, TakenOnce, Remembered, Holding
  <2> QED
    BY <1>1, <2>2 DEF Inv
<1>3. CASE Next
  <2>1. Prompt' /\ TakenOnce'
    BY <1>3, NextIs, TickKeeps, SendKeeps, QuietKeeps, ClaimKeeps, StartKeeps DEF Handling
  <2> QED
    BY <1>1, <2>1 DEF Inv
<1> QED
  BY <1>2, <1>3

(* A request that arrives again, however late and wherever, starts no      *)
(* second investigation of an alert, if the cooldown is longer than the    *)
(* time in which a request is accepted.  It may be configured to be        *)
(* shorter; then the statement is false (README, section 5).              *)
THEOREM OneStartPerRequest ==
  ASSUME 2 * Tolerance < Cooldown
  PROVE  Spec => []RequestStartsOnce
<1>1. Init => Inv /\ Kept
  BY InvInitially, KeptInitially
<1>2. Inv /\ Kept /\ [Next]_vars => Inv' /\ Kept'
  BY InvStep, LedgerStep DEF Inv
<1>3. Inv => RequestStartsOnce
  BY DEF Inv, TakenOnce, RequestStartsOnce
<1> QED
  BY <1>1, <1>2, <1>3, PTL DEF Spec

-----------------------------------------------------------------------------
(* The limits, where the clocks of the workers agree.  Time is that of     *)
(* Redis, modulo three windows: the window it is in, and how far.          *)
Current == time \div Window
Passed  == time % Window

(* The key of a window is there as long as its window, and for the next,   *)
(* as far as the window had come when the key was set; the one after next  *)
(* finds none.                                                             *)
Keys(b) ==
  /\ \A n \in 0..2 : counter[b][n].ttl = 0 => counter[b][n].used = 0
  /\ \A n \in 0..2 :
       /\ n = Current /\ counter[b][n].ttl > 0 => counter[b][n].ttl >= Window - Passed
       /\ n = (Current + 2) % 3 => counter[b][n].ttl <= Window - 1 - Passed
       /\ n = (Current + 1) % 3 => counter[b][n].ttl = 0

(* Uses within the limit, of those a bucket counts in this window.         *)
Spent(b) == IF counter[b][Current].used <= Limit[b] THEN counter[b][Current].used
            ELSE Limit[b]

(* What was let through in this window is what was counted and at most     *)
(* now failures; in the one before, at most the limit and before failures. *)
Accounts(b, now, before) ==
  /\ now + before <= faults
  /\ Spent(b) <= recent[b][Passed + 1] /\ recent[b][Passed + 1] <= Spent(b) + now
  /\ recent[b][Window] <= recent[b][Passed + 1] + Limit[b] + before

Growing(b) == \A n \in 1..Window : n > 1 => recent[b][n - 1] <= recent[b][n]

Accounted(b) == Keys(b) /\ Growing(b) /\ \E now, before \in Nat : Accounts(b, now, before)

AllAccounted == \A b \in Buckets : Accounted(b)

LEMMA TimeIs ==
  ASSUME Typed
  PROVE  /\ Window \in Nat /\ Window > 0
         /\ Current \in 0..2 /\ Passed \in 0..(Window - 1)
         /\ Current % 3 = Current /\ time = Current * Window + Passed
<1>1. Window \in Nat /\ Window > 0 /\ time \in Nat /\ time < 3 * Window
  BY Constants DEF Typed, LimiterTyped
<1> QED
  BY <1>1 DEF Current, Passed

(* In the last tick of a window the next one begins.                       *)
LEMMA TimePasses ==
  ASSUME Typed, Tick
  PROVE  IF Passed = Window - 1 THEN Current' = (Current + 1) % 3 /\ Passed' = 0
         ELSE Current' = Current /\ Passed' = Passed + 1
<1>1. /\ Window \in Nat /\ Window > 0 /\ time \in 0..(3 * Window - 1)
      /\ time' = (time + 1) % (3 * Window)
  BY Constants DEF Typed, LimiterTyped, Tick
<1>2. time' = IF time + 1 = 3 * Window THEN 0 ELSE time + 1
  BY <1>1
<1>3. /\ Current \in 0..2 /\ Passed \in 0..(Window - 1)
      /\ time = Current * Window + Passed
  BY TimeIs
<1>4. /\ Current' = time' \div Window /\ Passed' = time' % Window
  BY DEF Current, Passed
<1>5. ASSUME NEW r \in 0..(Window - 1)
      PROVE  /\ r \div Window = 0 /\ r % Window = r
             /\ (Window + r) \div Window = 1 /\ (Window + r) % Window = r
             /\ (2 * Window + r) \div Window = 2 /\ (2 * Window + r) % Window = r
  <2>1. r \div Window = 0 /\ r % Window = r
    BY <1>1
  <2>2. (Window + r) \div Window = 1 /\ (Window + r) % Window = r
    BY <1>1
  <2>3. (2 * Window + r) \div Window = 2 /\ (2 * Window + r) % Window = r
    BY <1>1
  <2> QED
    BY <2>1, <2>2, <2>3
<1>6. CASE Passed = Window - 1
  <2>1. CASE Current = 2
    <3>1. time' = 0
      BY <1>1, <1>2, <1>3, <1>6, <2>1
    <3> QED
      BY <1>1, <1>4, <1>5, <1>6, <2>1, <3>1
  <2>2. CASE Current = 1
    <3>1. time' = 2 * Window + 0 /\ 0 \in 0..(Window - 1)
      BY <1>1, <1>2, <1>3, <1>6, <2>2
    <3> QED
      BY <1>4, <1>5, <1>6, <2>2, <3>1
  <2>3. CASE Current = 0
    <3>1. time' = Window + 0 /\ 0 \in 0..(Window - 1)
      BY <1>1, <1>2, <1>3, <1>6, <2>3
    <3> QED
      BY <1>4, <1>5, <1>6, <2>3, <3>1
  <2> QED
    BY <1>3, <2>1, <2>2, <2>3
<1>7. CASE Passed # Window - 1
  <2>1. Passed + 1 \in 0..(Window - 1)
    BY <1>1, <1>3, <1>7
  <2>2. CASE Current = 2
    <3>1. time' = 2 * Window + (Passed + 1)
      BY <1>1, <1>2, <1>3, <1>7, <2>2
    <3> QED
      BY <1>4, <1>5, <1>7, <2>1, <2>2, <3>1
  <2>3. CASE Current = 1
    <3>1. time' = Window + (Passed + 1)
      BY <1>1, <1>2, <1>3, <1>7, <2>3
    <3> QED
      BY <1>4, <1>5, <1>7, <2>1, <2>3, <3>1
  <2>4. CASE Current = 0
    <3>1. time' = Passed + 1
      BY <1>1, <1>2, <1>3, <1>7, <2>4
    <3> QED
      BY <1>4, <1>5, <1>7, <2>1, <2>4, <3>1
  <2> QED
    BY <1>3, <2>2, <2>3, <2>4
<1> QED
  BY <1>6, <1>7

(* What the state of the limiter is made of, for the steps below.          *)
LEMMA LimiterIs ==
  ASSUME Typed, NEW b \in Buckets
  PROVE  /\ \A n \in 0..2 : /\ counter[b][n].used \in Nat
                            /\ counter[b][n].ttl \in 0..Window
         /\ \A n \in 1..Window : recent[b][n] \in Nat
         /\ Limit[b] \in Nat /\ faults \in Nat
<1>1. /\ counter \in [Buckets -> [0..2 -> Key]]
      /\ recent \in [Buckets -> [1..Window -> Nat]]
  BY DEF Typed, LimiterTyped, Key
<1>2. \A n \in 0..2 : counter[b][n] \in Key
  BY <1>1
<1>3. recent[b] \in [1..Window -> Nat] /\ faults \in Nat /\ Limit[b] \in Nat
  BY <1>1, Constants DEF Typed, Bounded
<1> QED
  BY <1>2, <1>3 DEF Key

LEMMA AccountedInitially == Init => \A b \in Buckets : Accounted(b)
<1> SUFFICES ASSUME Init, NEW b \in Buckets PROVE Accounted(b)
  OBVIOUS
<1>1. /\ Typed /\ time = 0 /\ faults = 0
      /\ counter = [c \in Buckets |-> [n \in 0..2 |-> NoKey]]
      /\ recent = [c \in Buckets |-> [n \in 1..Window |-> 0]]
  BY Initially DEF Init
<1>2. /\ \A n \in 0..2 : counter[b][n].used = 0 /\ counter[b][n].ttl = 0
      /\ \A n \in 1..Window : recent[b][n] = 0
  BY <1>1 DEF NoKey
<1>3. /\ Window \in Nat /\ Window > 0 /\ Limit[b] \in Nat
      /\ Current \in 0..2 /\ Passed \in 0..(Window - 1)
  BY <1>1, TimeIs, Constants
<1>4. Keys(b)
  BY <1>2, <1>3 DEF Keys
<1>5. Growing(b)
  BY <1>2, <1>3 DEF Growing
<1>6. Accounts(b, 0, 0)
  BY <1>1, <1>2, <1>3 DEF Accounts, Spent
<1> QED
  BY <1>4, <1>5, <1>6 DEF Accounted

(* Steps that leave what a bucket counts, and in which failures only grow. *)
LEMMA StaysAccounted ==
  ASSUME Typed, NEW b \in Buckets, Accounted(b), faults' \in Nat, faults' >= faults,
         counter'[b] = counter[b], recent'[b] = recent[b], UNCHANGED time
  PROVE  Accounted(b)'
<1>1. Keys(b)' /\ Growing(b)'
  BY DEF Accounted, Keys, Growing, Current, Passed
<1>2. PICK now, before \in Nat : Accounts(b, now, before)
  BY DEF Accounted
<1>3. now + before <= faults' 
  BY <1>2, LimiterIs DEF Accounts
<1>4. Spent(b)' = Spent(b)
  BY DEF Spent, Current
<1>5. Accounts(b, now, before)'
  BY <1>2, <1>3, <1>4 DEF Accounts, Passed
<1> QED
  BY <1>1, <1>5 DEF Accounted

(* A use counted in this window, and let through or not.                   *)
LEMMA UseIs ==
  ASSUME Typed, \A v \in Workers : Ahead[v] = 0,
         NEW w \in Workers, NEW b \in Buckets, Increment(w, b)
  PROVE  /\ \A c \in Buckets \ {b} : counter'[c] = counter[c]
         /\ \A n \in 0..2 : n # Current => counter'[b][n] = counter[b][n]
         /\ Uses(w, b) = counter[b][Current].used + 1
         /\ counter'[b][Current].used = IF Uses(w, b) <= Limit[b] THEN Uses(w, b)
                                        ELSE Limit[b] + 1
         /\ counter'[b][Current].ttl = IF counter[b][Current].ttl = 0 THEN Window
                                       ELSE counter[b][Current].ttl
<1>1. counter \in [Buckets -> [0..2 -> Key]] /\ Current \in 0..2
  BY TimeIs DEF Typed, LimiterTyped, Key
<1>2. WindowOf(w) = Current
  <2>1. time + Ahead[w] = time
    BY Constants DEF Typed, LimiterTyped
  <2> QED
    BY <2>1, TimeIs DEF WindowOf, Current
<1>3. Uses(w, b) = counter[b][Current].used + 1
  BY <1>2 DEF Uses
<1>4. Uses(w, b) \in Nat /\ Limit[b] + 1 \in Nat
  BY <1>1, <1>3, LimiterIs
<1>5. Min({Uses(w, b), Limit[b] + 1}) = IF Uses(w, b) <= Limit[b] THEN Uses(w, b)
                                        ELSE Limit[b] + 1
  BY <1>4, MinOfTwo, Constants
<1> DEFINE new == [used |-> Min({Uses(w, b), Limit[b] + 1}),
                   ttl  |-> IF counter[b][Current].ttl = 0 THEN Window
                            ELSE counter[b][Current].ttl]
<1>6. counter' = [counter EXCEPT ![b] = [counter[b] EXCEPT ![Current] = new]]
  BY <1>2 DEF Increment
<1>7. /\ new.used = Min({Uses(w, b), Limit[b] + 1})
      /\ new.ttl = IF counter[b][Current].ttl = 0 THEN Window ELSE counter[b][Current].ttl
  OBVIOUS
<1> HIDE DEF new
<1>8. /\ \A c \in Buckets \ {b} : counter'[c] = counter[c]
      /\ counter'[b] = [counter[b] EXCEPT ![Current] = new]
      /\ counter[b] \in [0..2 -> Key]
  BY <1>1, <1>6
<1>9. /\ counter'[b][Current] = new
      /\ \A n \in 0..2 : n # Current => counter'[b][n] = counter[b][n]
  BY <1>1, <1>8
<1> QED
  BY <1>3, <1>5, <1>7, <1>8, <1>9

(* A key that was set now outlives this window by what had passed of it.   *)
LEMMA UseKeepsKeys ==
  ASSUME Typed, \A v \in Workers : Ahead[v] = 0, UNCHANGED time,
         NEW w \in Workers, NEW b \in Buckets, Increment(w, b), Keys(b)
  PROVE  Keys(b)'
<1>1. /\ Window \in Nat /\ Window > 0
      /\ Current \in 0..2 /\ Passed \in 0..(Window - 1)
      /\ Current' = Current /\ Passed' = Passed
  BY TimeIs DEF Current, Passed
<1>2. /\ \A n \in 0..2 : n # Current => counter'[b][n] = counter[b][n]
      /\ counter'[b][Current].ttl = IF counter[b][Current].ttl = 0 THEN Window
                                    ELSE counter[b][Current].ttl
  BY UseIs
<1>3. counter[b][Current].ttl \in 0..Window
  BY <1>1, LimiterIs
<1>4. counter'[b][Current].ttl > 0 /\ counter'[b][Current].ttl >= Window - Passed
  BY <1>1, <1>2, <1>3 DEF Keys
<1>5. (Current + 1) % 3 # Current /\ (Current + 2) % 3 # Current
  BY <1>1
<1> QED
  BY <1>1, <1>2, <1>4, <1>5 DEF Keys

(* Every span of ticks gains what is let through now.                      *)
LEMMA LetThroughGrows ==
  ASSUME Typed, NEW b \in Buckets, LetThrough(b) \/ UNCHANGED recent, Growing(b)
  PROVE  Growing(b)'
<1>1. LimiterTyped /\ Window \in Nat
  BY Constants DEF Typed
<1>2. CASE LetThrough(b)
  <2>1. \A n \in 1..Window : recent'[b][n] = recent[b][n] + 1
    BY <1>1, <1>2, LetThroughTyped
  <2>2. \A n \in 1..Window : n > 1 =>
          n - 1 \in 1..Window /\ recent[b][n] \in Nat /\ recent[b][n - 1] \in Nat
    BY <1>1, LimiterIs
  <2> QED
    BY <2>1, <2>2 DEF Growing
<1>3. CASE UNCHANGED recent
  BY <1>3 DEF Growing
<1> QED
  BY <1>2, <1>3

(* What a call does to the bucket it uses: it is counted and let through,  *)
(* or refused, or let through because Redis did not answer.                *)
Used(w, b) ==
  \/ Increment(w, b) /\ Uses(w, b) <= Limit[b] /\ LetThrough(b) /\ UNCHANGED faults
  \/ Increment(w, b) /\ ~(Uses(w, b) <= Limit[b]) /\ UNCHANGED <<recent, faults>>
  \/ Fails /\ (Increment(w, b) \/ UNCHANGED counter) /\ LetThrough(b)

LEMMA CallIs ==
  ASSUME NEW w \in Workers, Calling(w)
  PROVE  UNCHANGED time /\ \E b \in Buckets : Used(w, b)
<1>1. ASSUME NEW s \in Subjects, Call(w, s) \/ CallUnanswered(w, s)
      PROVE  UNCHANGED time /\ Used(w, s) /\ s \in Buckets
  BY <1>1 DEF Call, CallUnanswered, Used, Buckets
<1>2. CallTenant(w) \/ TenantUnanswered(w)
        => UNCHANGED time /\ Used(w, Tenant) /\ Tenant \in Buckets
  BY DEF CallTenant, TenantUnanswered, Used, Buckets
<1> QED
  BY <1>1, <1>2 DEF Calling

LEMMA UsedAccounted ==
  ASSUME Typed, \A v \in Workers : Ahead[v] = 0, UNCHANGED time,
         NEW w \in Workers, NEW b \in Buckets, Used(w, b), Accounted(b)
  PROVE  Accounted(b)'
<1> DEFINE used  == counter[b][Current].used
           used1 == counter'[b][Current].used
           now0  == recent[b][Passed + 1]
           now1  == recent'[b][Passed + 1]
           all0  == recent[b][Window]
           all1  == recent'[b][Window]
           limit == Limit[b]
<1>1. /\ Window \in Nat /\ Window > 0
      /\ Current \in 0..2 /\ Passed \in 0..(Window - 1)
      /\ Current' = Current /\ Passed' = Passed
      /\ Passed + 1 \in 1..Window /\ Window \in 1..Window
  <2>1. Current' = Current /\ Passed' = Passed
    BY DEF Current, Passed
  <2> QED
    BY <2>1, TimeIs
<1>2. /\ used \in Nat /\ now0 \in Nat /\ all0 \in Nat
      /\ limit \in Nat /\ faults \in Nat
  BY <1>1, LimiterIs
<1>3. Increment(w, b) => /\ Uses(w, b) = used + 1
                         /\ used1 = IF used + 1 <= limit THEN used + 1 ELSE limit + 1
  BY UseIs
<1>4. LetThrough(b) => now1 = now0 + 1 /\ all1 = all0 + 1
  BY <1>1, LetThroughTyped DEF Typed
<1>5. /\ UNCHANGED recent => now1 = now0 /\ all1 = all0
      /\ UNCHANGED counter => used1 = used
  OBVIOUS
<1>6. Keys(b)'
  <2>1. CASE Increment(w, b)
    BY <2>1, UseKeepsKeys DEF Accounted
  <2>2. CASE UNCHANGED counter
    BY <2>2 DEF Accounted, Keys, Current, Passed
  <2> QED
    BY <2>1, <2>2 DEF Used
<1>7. Growing(b)'
  BY LetThroughGrows DEF Used, Accounted
<1>8. PICK now, before \in Nat : Accounts(b, now, before)
  BY DEF Accounted
<1>9. /\ now + before <= faults
      /\ (IF used <= limit THEN used ELSE limit) <= now0
      /\ now0 <= (IF used <= limit THEN used ELSE limit) + now
      /\ all0 <= now0 + limit + before
  BY <1>8 DEF Accounts, Spent
<1>10. ASSUME NEW now2 \in Nat, now2 + before <= faults',
              (IF used1 <= limit THEN used1 ELSE limit) <= now1,
              now1 <= (IF used1 <= limit THEN used1 ELSE limit) + now2,
              all1 <= now1 + limit + before
       PROVE  Accounts(b, now2, before)'
  BY <1>1, <1>10 DEF Accounts, Spent
<1>11. Fails => faults' = faults + 1
  BY DEF Fails
<1>12. \E now2 \in Nat : Accounts(b, now2, before)'
  <2> HIDE DEF used, used1, now0, now1, all0, all1, limit
  <2>1. CASE Increment(w, b) /\ Uses(w, b) <= limit /\ LetThrough(b) /\ UNCHANGED faults
    <3>1. Accounts(b, now, before)'
      BY <1>2, <1>3, <1>4, <1>8, <1>9, <1>10, <2>1
    <3> QED
      BY <1>8, <3>1
  <2>2. CASE Increment(w, b) /\ ~(Uses(w, b) <= limit) /\ UNCHANGED <<recent, faults>>
    <3>1. Accounts(b, now, before)'
      BY <1>2, <1>3, <1>5, <1>8, <1>9, <1>10, <2>2
    <3> QED
      BY <1>8, <3>1
  <2>3. CASE Fails /\ (Increment(w, b) \/ UNCHANGED counter) /\ LetThrough(b)
    <3>1. now + 1 \in Nat /\ (now + 1) + before <= faults'
      BY <1>2, <1>8, <1>9, <1>11, <2>3
    <3>2. /\ (IF used1 <= limit THEN used1 ELSE limit) <= now1
          /\ now1 <= (IF used1 <= limit THEN used1 ELSE limit) + (now + 1)
          /\ all1 <= now1 + limit + before
      BY <1>2, <1>3, <1>4, <1>5, <1>8, <1>9, <2>3
    <3>3. Accounts(b, now + 1, before)'
      BY <1>10, <3>1, <3>2
    <3> QED
      BY <3>1, <3>3
  <2> QED
    BY <2>1, <2>2, <2>3 DEF Used, limit
<1> QED
  BY <1>6, <1>7, <1>8, <1>12 DEF Accounted

LEMMA CallAccounted ==
  ASSUME Typed, \A v \in Workers : Ahead[v] = 0, NEW w \in Workers, Calling(w),
         \A b \in Buckets : Accounted(b)
  PROVE  \A b \in Buckets : Accounted(b)'
<1> PICK b \in Buckets : Used(w, b)
  BY CallIs
<1>1. UNCHANGED time
  BY CallIs
<1>2. Accounted(b)'
  BY <1>1, UsedAccounted
<1>3. ASSUME NEW c \in Buckets, c # b
      PROVE  Accounted(c)'
  <2>1. counter'[c] = counter[c] /\ recent'[c] = recent[c]
    BY <1>3, UseIs, LetThroughTyped DEF Used, Typed
  <2>2. faults' \in Nat /\ faults' >= faults
    BY LimiterIs DEF Used, Fails
  <2> QED
    BY <1>1, <2>1, <2>2, StaysAccounted
<1> QED
  BY <1>2, <1>3

(* What a tick makes of the keys and the ticks of a bucket.                *)
LEMMA TickIs ==
  ASSUME Typed, Tick, NEW b \in Buckets
  PROVE  /\ UNCHANGED faults
         /\ \A n \in 0..2 :
              IF counter[b][n].ttl <= 1
              THEN counter'[b][n].used = 0 /\ counter'[b][n].ttl = 0
              ELSE /\ counter'[b][n].used = counter[b][n].used
                   /\ counter'[b][n].ttl = counter[b][n].ttl - 1
         /\ \A n \in 1..Window : recent'[b][n] = IF n = 1 THEN 0 ELSE recent[b][n - 1]
<1>1. counter \in [Buckets -> [0..2 -> Key]]
  BY DEF Typed, LimiterTyped, Key
<1>2. \A n \in 0..2 : counter'[b][n] = IF counter[b][n].ttl <= 1 THEN NoKey
                                      ELSE [counter[b][n] EXCEPT !.ttl = @ - 1]
  BY DEF Tick
<1>3. \A n \in 1..Window : recent'[b][n] = IF n = 1 THEN 0 ELSE recent[b][n - 1]
  BY DEF Tick
<1>4. ASSUME NEW n \in 0..2
      PROVE  IF counter[b][n].ttl <= 1
             THEN counter'[b][n].used = 0 /\ counter'[b][n].ttl = 0
             ELSE /\ counter'[b][n].used = counter[b][n].used
                  /\ counter'[b][n].ttl = counter[b][n].ttl - 1
  <2>1. counter[b][n] \in Key
    BY <1>1
  <2> QED
    BY <1>2, <2>1 DEF NoKey, Key
<1> QED
  BY <1>3, <1>4 DEF Tick

LEMMA TickKeepsKeys ==
  ASSUME Typed, Tick, NEW b \in Buckets, Keys(b)
  PROVE  Keys(b)'
<1>1. /\ Window \in Nat /\ Window > 0
      /\ Current \in 0..2 /\ Passed \in 0..(Window - 1)
  BY TimeIs
<1>2. IF Passed = Window - 1 THEN Current' = (Current + 1) % 3 /\ Passed' = 0
      ELSE Current' = Current /\ Passed' = Passed + 1
  BY TimePasses
<1>3. \A n \in 0..2 : counter[b][n].ttl \in 0..Window /\ counter[b][n].used \in Nat
  BY LimiterIs
<1>4. \A n \in 0..2 :
        IF counter[b][n].ttl <= 1
        THEN counter'[b][n].used = 0 /\ counter'[b][n].ttl = 0
        ELSE /\ counter'[b][n].used = counter[b][n].used
             /\ counter'[b][n].ttl = counter[b][n].ttl - 1
  BY TickIs
<1>5. \A n \in 0..2 : counter'[b][n].ttl = 0 => counter'[b][n].used = 0
  BY <1>3, <1>4
<1>6. ASSUME NEW n \in 0..2
      PROVE  /\ n = Current' /\ counter'[b][n].ttl > 0
                  => counter'[b][n].ttl >= Window - Passed'
             /\ n = (Current' + 2) % 3 => counter'[b][n].ttl <= Window - 1 - Passed'
             /\ n = (Current' + 1) % 3 => counter'[b][n].ttl = 0
  <2> DEFINE ttl0 == counter[b][n].ttl
             ttl1 == counter'[b][n].ttl
  <2>1. /\ n = Current /\ ttl0 > 0 => ttl0 >= Window - Passed
        /\ n = (Current + 2) % 3 => ttl0 <= Window - 1 - Passed
        /\ n = (Current + 1) % 3 => ttl0 = 0
    BY DEF Keys
  <2>2. ttl0 \in 0..Window /\ ttl1 = IF ttl0 <= 1 THEN 0 ELSE ttl0 - 1
    BY <1>3, <1>4
  <2> HIDE DEF ttl0, ttl1
  <2>3. CASE Passed = Window - 1
    <3>1. /\ n = Current' <=> n = (Current + 1) % 3
          /\ n = (Current' + 2) % 3 <=> n = Current
          /\ n = (Current' + 1) % 3 <=> n = (Current + 2) % 3
      BY <1>1, <1>2, <2>3
    <3>2. ttl1 <= Window - 1 /\ Passed' = 0
      BY <1>1, <1>2, <2>2, <2>3
    <3> QED
      BY <1>1, <2>1, <2>2, <2>3, <3>1, <3>2 DEF ttl1
  <2>4. CASE Passed # Window - 1
    BY <1>1, <1>2, <2>1, <2>2, <2>4 DEF ttl1
  <2> QED
    BY <2>3, <2>4
<1> QED
  BY <1>5, <1>6 DEF Keys

(* When a window ends, its failures become those of the one before.        *)
LEMMA TickAccounted ==
  ASSUME Typed, Tick, NEW b \in Buckets, Accounted(b)
  PROVE  Accounted(b)'
<1>1. /\ Window \in Nat /\ Window > 0
      /\ Current \in 0..2 /\ Passed \in 0..(Window - 1)
      /\ Passed + 1 \in 1..Window /\ Window \in 1..Window
  BY TimeIs
<1>2. IF Passed = Window - 1 THEN Current' = (Current + 1) % 3 /\ Passed' = 0
      ELSE Current' = Current /\ Passed' = Passed + 1
  BY TimePasses
<1>3. /\ \A n \in 0..2 : counter[b][n].ttl \in 0..Window /\ counter[b][n].used \in Nat
      /\ \A n \in 1..Window : recent[b][n] \in Nat
      /\ Limit[b] \in Nat /\ faults \in Nat
  BY LimiterIs
<1>4. /\ UNCHANGED faults
      /\ \A n \in 0..2 :
           IF counter[b][n].ttl <= 1
           THEN counter'[b][n].used = 0 /\ counter'[b][n].ttl = 0
           ELSE /\ counter'[b][n].used = counter[b][n].used
                /\ counter'[b][n].ttl = counter[b][n].ttl - 1
      /\ \A n \in 1..Window : recent'[b][n] = IF n = 1 THEN 0 ELSE recent[b][n - 1]
  BY TickIs
<1>5. Keys(b)'
  BY TickKeepsKeys DEF Accounted
<1>6. \A n \in 1..Window : n > 1 =>
        n - 1 \in 1..Window /\ recent[b][n - 1] <= recent[b][n]
  BY <1>1 DEF Accounted, Growing
<1>7. Growing(b)'
  <2>1. ASSUME NEW n \in 1..Window, n > 1
        PROVE  recent'[b][n - 1] <= recent'[b][n]
    <3>1. n - 1 \in 1..Window /\ recent'[b][n] = recent[b][n - 1] /\ recent[b][n - 1] \in Nat
      BY <1>3, <1>4, <1>6, <2>1
    <3>2. CASE n = 2
      BY <1>4, <3>1, <3>2
    <3>3. CASE n # 2
      BY <1>4, <1>6, <2>1, <3>1, <3>3
    <3> QED
      BY <3>2, <3>3
  <2> QED
    BY <2>1 DEF Growing
<1>8. recent'[b][Window] \in Nat /\ recent'[b][Window] <= recent[b][Window]
  BY <1>1, <1>3, <1>4, <1>6
<1>9. PICK now, before \in Nat : Accounts(b, now, before)
  BY DEF Accounted
<1>10. /\ now + before <= faults
       /\ Spent(b) <= recent[b][Passed + 1] /\ recent[b][Passed + 1] <= Spent(b) + now
       /\ recent[b][Window] <= recent[b][Passed + 1] + Limit[b] + before
  BY <1>9 DEF Accounts
<1>11. Spent(b) \in Nat /\ Spent(b) <= Limit[b]
  BY <1>1, <1>3 DEF Spent
<1>12. CASE Passed = Window - 1
  <2>1. (Current + 1) % 3 \in 0..2 /\ counter[b][(Current + 1) % 3].ttl = 0
    BY <1>1 DEF Accounted, Keys
  <2>2. counter'[b][(Current + 1) % 3].used = 0
    BY <1>4, <2>1
  <2>3. Spent(b)' = 0
    BY <1>2, <1>3, <1>12, <2>2 DEF Spent
  <2>4. recent'[b][Passed' + 1] = 0
    BY <1>1, <1>2, <1>4, <1>12
  <2>5. recent[b][Window] <= Limit[b] + now
    BY <1>1, <1>3, <1>9, <1>10, <1>11, <1>12
  <2>6. Accounts(b, 0, now)'
    <3>1. 0 + now <= faults'
      BY <1>3, <1>4, <1>9, <1>10
    <3>2. recent'[b][Window] <= 0 + Limit[b] + now
      BY <1>1, <1>3, <1>8, <1>9, <2>5
    <3> QED
      BY <2>3, <2>4, <3>1, <3>2 DEF Accounts
  <2> QED
    BY <1>5, <1>7, <1>9, <2>6 DEF Accounted
<1>13. CASE Passed # Window - 1
  <2>1. Passed' + 1 \in 1..Window /\ Passed' + 1 # 1 /\ (Passed' + 1) - 1 = Passed + 1
    BY <1>1, <1>2, <1>13
  <2>2. recent'[b][Passed' + 1] = recent[b][Passed + 1]
    BY <1>4, <2>1
  <2>3. counter'[b][Current].used = counter[b][Current].used
    <3>1. counter[b][Current].ttl > 0 => counter[b][Current].ttl >= Window - Passed
      BY <1>1 DEF Accounted, Keys
    <3>2. counter[b][Current].ttl = 0 => counter[b][Current].used = 0
      BY <1>1 DEF Accounted, Keys
    <3> QED
      BY <1>1, <1>3, <1>4, <1>13, <3>1, <3>2
  <2>4. Spent(b)' = Spent(b)
    BY <1>2, <1>13, <2>3 DEF Spent
  <2>5. recent'[b][Window] <= recent[b][Passed + 1] + Limit[b] + before
    BY <1>1, <1>3, <1>8, <1>9, <1>10
  <2>6. Accounts(b, now, before)'
    BY <1>4, <1>10, <2>2, <2>4, <2>5 DEF Accounts
  <2> QED
    BY <1>5, <1>7, <1>9, <2>6 DEF Accounted
<1> QED
  BY <1>12, <1>13

LEMMA LimiterInv ==
  ASSUME Typed, \A v \in Workers : Ahead[v] = 0, [Next]_vars,
         \A b \in Buckets : Accounted(b)
  PROVE  \A b \in Buckets : Accounted(b)'
<1>1. CASE UNCHANGED <<limiter, time>> /\ (UNCHANGED faults \/ Fails)
  <2>1. UNCHANGED <<counter, recent, time>> 
    BY <1>1 DEF limiter
  <2> SUFFICES ASSUME NEW b \in Buckets PROVE Accounted(b)'
    OBVIOUS
  <2>2. faults' \in Nat /\ faults' >= faults
    BY <1>1, LimiterIs DEF Fails
  <2> QED
    BY <2>1, <2>2, StaysAccounted
<1>2. ASSUME NEW w \in Workers, Crash(w)
      PROVE  \A b \in Buckets : Accounted(b)'
  <2>1. UNCHANGED <<counter, recent, time>> /\ Fails
    BY <1>2 DEF Crash
  <2> SUFFICES ASSUME NEW b \in Buckets PROVE Accounted(b)'
    OBVIOUS
  <2>2. faults' \in Nat /\ faults' >= faults
    BY <2>1, LimiterIs DEF Fails
  <2> QED
    BY <2>1, <2>2, StaysAccounted
<1>3. CASE UNCHANGED vars
  BY <1>1, <1>3 DEF vars
<1>4. ASSUME NEW q \in Requests, Sending(q)
      PROVE  UNCHANGED <<limiter, time>> /\ (UNCHANGED faults \/ Fails)
  BY <1>4 DEF Sending, GivesUp, Send
<1>5. ASSUME NEW w \in Workers, Handling(w)
      PROVE  UNCHANGED <<limiter, time>> /\ (UNCHANGED faults \/ Fails)
  BY <1>5 DEF Handling, Accept, Claim, ClaimUnanswered, Start, StartFails, Answer
<1>6. CASE Next
  BY <1>1, <1>2, <1>4, <1>5, <1>6, NextIs, TickAccounted, CallAccounted
<1> QED
  BY <1>3, <1>6

(* In no span of one window's length is more let through than the limits   *)
(* of two windows and what passed while Redis did not answer, and a tenant *)
(* is refused only when its limit was used in this very window, whatever   *)
(* its subjects go on asking: for any number of workers and callers, any   *)
(* limits and any window, where the clocks of the workers agree.  Where    *)
(* they do not, the statement is false (README, section 4).                *)
THEOREM LimitsAreKept ==
  ASSUME \A w \in Workers : Ahead[w] = 0
  PROVE  Spec => []LimitsHold
<1>1. Init => Typed /\ AllAccounted
  BY Initially, AccountedInitially DEF AllAccounted
<1>2. Typed /\ AllAccounted /\ [Next]_vars => Typed' /\ AllAccounted'
  BY StaysTyped, LimiterInv DEF AllAccounted
<1>3. Typed /\ AllAccounted => LimitsHold
  <2> SUFFICES ASSUME Typed, \A b \in Buckets : Accounted(b) PROVE LimitsHold
    BY DEF AllAccounted
  <2>1. ASSUME NEW b \in Buckets
        PROVE  /\ recent[b][Window] <= 2 * Limit[b] + faults
               /\ counter[b][Current].used > Limit[b] => recent[b][Passed + 1] >= Limit[b]
    <3> PICK now, before \in Nat : Accounts(b, now, before)
      BY DEF Accounted
    <3>1. /\ Current \in 0..2 /\ Passed + 1 \in 1..Window /\ Window \in 1..Window
      BY TimeIs
    <3>2. /\ counter[b][Current].used \in Nat /\ recent[b][Passed + 1] \in Nat
          /\ recent[b][Window] \in Nat /\ Limit[b] \in Nat /\ faults \in Nat
      BY <3>1, LimiterIs
    <3> QED
      BY <3>2 DEF Accounts, Spent
  <2>2. BurstBounded
    BY <2>1 DEF BurstBounded
  <2>3. TenantRefusedWhenSpent
    BY <2>1, TimeIs DEF TenantRefusedWhenSpent, Current, Passed, Buckets
  <2>4. TypeOK
    BY Types DEF Typed
  <2> QED
    BY <2>2, <2>3, <2>4 DEF LimitsHold
<1> QED
  BY <1>1, <1>2, <1>3, PTL DEF Spec

=============================================================================
