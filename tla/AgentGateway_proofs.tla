------------------------ MODULE AgentGateway_proofs -------------------------
(* That a call over an agent's stream is answered by its own record and    *)
(* not without it, and is released when its stream ends, for any number of *)
(* workers, streams, calls, revocations and faults.                        *)
EXTENDS AgentGateway, SequenceTheorems, TLAPS

StreamTyped  == stream \in [Streams -> Stream]
RequestTyped == request \in [Requests -> Request]

IdentityTyped ==
  /\ certificate \in Certificates /\ revoked \subseteq Certificates
  /\ cache \in [Gateways -> SUBSET Certificates]
  /\ refresh \in [Refreshers -> Refresh]

RouteTyped ==
  /\ opened \in 0..MaxStreams /\ agent \in 0..MaxStreams
  /\ registry \in [Gateways -> 0..MaxStreams]
  /\ presence \in Gateways \cup {NoGateway}
  /\ overtaken \in BOOLEAN /\ faults \in 0..MaxFaults

(* Streams are opened in turn, each on a worker.                           *)
Placed ==
  \A s \in Streams :
    /\ stream[s].on \in IF stream[s].at = "unopened" THEN {NoGateway} ELSE Gateways
    /\ s > opened => stream[s].at = "unopened"

(* The agent works on calls that were made.                                *)
Made == \A r \in Requests : request[r].work # "none" => request[r].stream \in Streams

Typed == StreamTyped /\ RequestTyped /\ IdentityTyped /\ RouteTyped /\ Placed /\ Made

LEMMA Types ==
  TypeOK <=> StreamTyped /\ RequestTyped /\ IdentityTyped /\ RouteTyped
BY DEF TypeOK, StreamTyped, RequestTyped, IdentityTyped, RouteTyped

(* What GatewayAssumption says, in parts.                                  *)
LEMMA Constants ==
  /\ NoGateway \notin Gateways
  /\ MaxStreams \in Nat /\ MaxCertificates \in Nat /\ MaxCertificates > 0
  /\ MaxRevoked \in Nat /\ MaxFaults \in Nat
  /\ NoStream \notin Streams /\ NoStream \in 0..MaxStreams
  /\ Streams = (0..MaxStreams) \ {NoStream}
BY GatewayAssumption DEF NoStream, Streams

-----------------------------------------------------------------------------
(* Types.                                                                  *)

LEMMA UnrefreshedTyped == \A x : Unrefreshed(x) \in Refresh
BY DEF Unrefreshed, Refresh

LEMMA Initially == Init => Typed
<1> SUFFICES ASSUME Init PROVE Typed
  OBVIOUS
<1>1. <<>> \in Seq(Message)
  OBVIOUS
<1>2. StreamTyped /\ Placed
  <2> DEFINE new == [at |-> "unopened", on |-> NoGateway, serial |-> 0, inbox |-> <<>>,
                     closed |-> FALSE, counter |-> 0]
  <2>1. new \in Stream /\ new.at = "unopened" /\ new.on = NoGateway
    BY <1>1, Constants DEF Stream
  <2>2. stream = [s \in Streams |-> new]
    BY DEF Init
  <2> HIDE DEF new
  <2> QED
    BY <2>1, <2>2 DEF StreamTyped, Placed
<1>3. RequestTyped /\ Made
  BY Constants DEF Init, RequestTyped, Request, Made
<1>4. IdentityTyped
  <2>1. certificate \in Certificates /\ revoked \subseteq Certificates
    <3>1. certificate = 1 /\ revoked = {}
      BY DEF Init
    <3> QED
      BY <3>1, Constants DEF Certificates
  <2>2. cache \in [Gateways -> SUBSET Certificates]
    BY DEF Init
  <2>3. refresh \in [Refreshers -> Refresh]
    BY UnrefreshedTyped DEF Init
  <2> QED
    BY <2>1, <2>2, <2>3 DEF IdentityTyped
<1>5. RouteTyped
  <2>1. opened \in 0..MaxStreams /\ agent \in 0..MaxStreams /\ faults \in 0..MaxFaults
    <3>1. opened = 0 /\ agent = NoStream /\ faults = 0
      BY DEF Init
    <3> QED
      BY <3>1, Constants
  <2>2. registry \in [Gateways -> 0..MaxStreams] /\ presence \in Gateways \cup {NoGateway}
    BY Constants DEF Init
  <2>3. overtaken \in BOOLEAN
    BY DEF Init
  <2> QED
    BY <2>1, <2>2, <2>3 DEF RouteTyped
<1> QED
  BY <1>2, <1>3, <1>4, <1>5 DEF Typed

(* What can become of one call.                                            *)
Cancelled(q, reason) ==
  [q EXCEPT !.at = "finished", !.pending = FALSE, !.why = reason]

LEMMA CancelledIs ==
  ASSUME NEW q \in Request, NEW reason \in {"replaced", "disconnected", "revoked"}
  PROVE  /\ Cancelled(q, reason) \in Request
         /\ Cancelled(q, reason).at = "finished" /\ ~Cancelled(q, reason).pending
         /\ Cancelled(q, reason).why = reason
         /\ Cancelled(q, reason).stream = q.stream /\ Cancelled(q, reason).id = q.id
         /\ Cancelled(q, reason).records = q.records
         /\ Cancelled(q, reason).late = q.late /\ Cancelled(q, reason).work = q.work
BY DEF Cancelled, Request

Queued(q, s, id, late) ==
  [q EXCEPT !.at = "waiting", !.stream = s, !.id = id, !.pending = TRUE,
            !.late = late, !.work = "queued"]

LEMMA QueuedIs ==
  ASSUME NEW q \in Request, NEW s \in 0..MaxStreams, NEW id \in Nat, NEW late \in BOOLEAN
  PROVE  LET p == Queued(q, s, id, late) IN
         /\ p \in Request
         /\ p.at = "waiting" /\ p.stream = s /\ p.id = id /\ p.pending
         /\ p.late = late /\ p.work = "queued" /\ p.why = q.why /\ p.records = q.records
BY DEF Queued, Request

(* What a session that is cancelled does to the calls.                     *)
LEMMA AllCancelled ==
  ASSUME RequestTyped, NEW s, NEW reason \in {"replaced", "disconnected", "revoked"}
  PROVE  /\ CancelAll(request, s, reason) \in [Requests -> Request]
         /\ \A r \in Requests :
              CancelAll(request, s, reason)[r] =
                IF request[r].pending /\ request[r].stream = s
                THEN Cancelled(request[r], reason) ELSE request[r]
<1>1. \A r \in Requests : request[r] \in Request
  BY DEF RequestTyped
<1>2. \A r \in Requests : Cancelled(request[r], reason) \in Request
  BY <1>1, CancelledIs
<1>3. CancelAll(request, s, reason) =
        [r \in Requests |-> IF request[r].pending /\ request[r].stream = s
                            THEN Cancelled(request[r], reason) ELSE request[r]]
  BY DEF CancelAll, Cancelled
<1> HIDE DEF Cancelled
<1> QED
  BY <1>1, <1>2, <1>3

(* The steps that leave the calls alone.                                   *)
Silent ==
  \/ \E g \in Gateways : Open(g)
  \/ \E x \in Refreshers : Refreshing(x)
  \/ \E s \in Streams : Resolve(s) \/ Reply(s) \/ EndOfStream(s)
  \/ \E c \in Certificates : Revoke(c)
  \/ Leave \/ Renew \/ Lapse \/ FlushRedis

(* The steps that cancel calls.                                            *)
Cancels ==
  \/ \E s \in Streams : Register(s) \/ Unregister(s)
  \/ \E g \in Gateways : TerminateRevoked(g)

LEMMA NextIs ==
  Next => \/ Silent \/ Cancels
          \/ \E g \in Gateways : Die(g)
          \/ \E r \in Requests, s \in Streams : Collect(r, s)
          \/ \E r \in Requests : Serve(r) \/ Return(r) \/ Timeout(r)
          \/ \E s \in Streams : Consume(s)
BY DEF Next, Silent, Cancels

LEMMA SilentLeaves == Silent => UNCHANGED request
BY DEF Silent, Refreshing, Open, ReadRevoked, CacheRevoked, Resolve, Reply, EndOfStream,
       Revoke, Leave, Renew, Lapse, FlushRedis

LEMMA CancelsCalls ==
  Cancels => \/ UNCHANGED request
             \/ \E s, reason : /\ reason \in {"replaced", "disconnected", "revoked"}
                               /\ request' = CancelAll(request, s, reason)
BY DEF Cancels, Register, Unregister, TerminateRevoked

LEMMA Collected ==
  ASSUME Typed, NEW r \in Requests, NEW s \in Streams, Collect(r, s)
  PROVE  LET p == request'[r] IN
         /\ RequestTyped'
         /\ \A q \in Requests \ {r} : request'[q] = request[q]
         /\ p.at = "waiting" /\ p.stream = s /\ p.id = stream[s].counter + 1 /\ p.pending
         /\ p.late = (stream[s].at = "ended") /\ p.work = "queued"
         /\ p.why = request[r].why /\ p.records = request[r].records
<1>1. RequestTyped /\ request[r] \in Request /\ stream[s] \in Stream
  BY DEF Typed, StreamTyped, RequestTyped
<1>2. PICK id, late : id = stream[s].counter + 1 /\ late = (stream[s].at = "ended")
  OBVIOUS
<1>3. id \in Nat /\ late \in BOOLEAN /\ s \in 0..MaxStreams
  BY <1>1, <1>2, Constants DEF Stream
<1>4. request' = [request EXCEPT ![r] = Queued(request[r], s, id, late)]
  BY <1>2 DEF Collect, Queued
<1>5. LET p == Queued(request[r], s, id, late) IN
      /\ p \in Request
      /\ p.at = "waiting" /\ p.stream = s /\ p.id = id /\ p.pending
      /\ p.late = late /\ p.work = "queued"
      /\ p.why = request[r].why /\ p.records = request[r].records
  BY <1>1, <1>3, QueuedIs
<1>6. /\ request' \in [Requests -> Request]
      /\ request'[r] = Queued(request[r], s, id, late)
      /\ \A q \in Requests \ {r} : request'[q] = request[q]
  BY <1>1, <1>4, <1>5 DEF RequestTyped
<1> QED
  BY <1>2, <1>5, <1>6 DEF RequestTyped

LEMMA RequestStep ==
  ASSUME Typed, Next
  PROVE  RequestTyped'
<1>1. RequestTyped /\ \A r \in Requests : request[r] \in Request
  BY DEF Typed, RequestTyped
<1>2. CASE Silent
  BY <1>1, <1>2, SilentLeaves DEF RequestTyped
<1>3. CASE Cancels
  BY <1>1, <1>3, CancelsCalls, AllCancelled DEF RequestTyped
<1>4. ASSUME NEW g \in Gateways, Die(g)
      PROVE  RequestTyped'
  <2>1. \A r \in Requests : [request[r] EXCEPT !.at = "lost", !.pending = FALSE] \in Request
    BY <1>1 DEF Request
  <2> QED
    BY <1>1, <1>4, <2>1 DEF Die, RequestTyped
<1>5. ASSUME NEW r \in Requests, NEW s \in Streams, Collect(r, s)
      PROVE  RequestTyped'
  BY <1>5, Collected
<1>6. ASSUME NEW r \in Requests, Serve(r) \/ Return(r) \/ Timeout(r)
      PROVE  RequestTyped'
  <2>1. PICK work \in {"recorded", "sent"}, why \in {"", "timeout"} :
          request' \in {[request EXCEPT ![r].work = work],
                        [request EXCEPT ![r].at = "returned", ![r].pending = FALSE],
                        [request EXCEPT ![r].at = "returned", ![r].pending = FALSE,
                                        ![r].why = why]}
    BY <1>6 DEF Serve, SendRecord, SendDone, Work, Return, Timeout
  <2>2. /\ [request[r] EXCEPT !.work = work] \in Request
        /\ [request[r] EXCEPT !.at = "returned", !.pending = FALSE] \in Request
        /\ [request[r] EXCEPT !.at = "returned", !.pending = FALSE, !.why = why] \in Request
    BY <1>1 DEF Request
  <2> QED
    BY <1>1, <2>1, <2>2 DEF RequestTyped
<1>7. ASSUME NEW s \in Streams, Consume(s)
      PROVE  RequestTyped'
  <2> DEFINE from == Head(stream[s].inbox).request
  <2>1. CASE OnEvidence(s, from) /\ Head(stream[s].inbox).kind = "evidence"
    <3>1. stream[s].inbox \in Seq(Message) /\ stream[s].inbox # <<>>
      BY <1>7 DEF Typed, StreamTyped, Stream, Consume
    <3>2. Head(stream[s].inbox) \in Message
      BY <3>1, HeadTailProperties
    <3>3. from \in Requests
      BY <2>1, <3>2 DEF Message
    <3> HIDE DEF from
    <3>4. \A r \in Requests : [request[r] EXCEPT !.records = @ \cup {from}] \in Request
      BY <1>1, <3>3 DEF Request
    <3> QED
      BY <1>1, <2>1, <3>4 DEF OnEvidence, RequestTyped
  <2>2. CASE OnDone(s, from)
    <3>1. \A r \in Requests : [request[r] EXCEPT !.at = "finished"] \in Request
      BY <1>1 DEF Request
    <3> HIDE DEF from
    <3> QED
      BY <1>1, <2>2, <3>1 DEF OnDone, RequestTyped
  <2>3. CASE OnHealth(s)
    BY <1>1, <2>3 DEF OnHealth, RequestTyped
  <2> QED
    BY <1>7, <2>1, <2>2, <2>3 DEF Consume
<1> QED
  BY <1>2, <1>3, <1>4, <1>5, <1>6, <1>7, NextIs

(* A step on one stream that was opened leaves it open, and where it is.   *)
OneStream(s) ==
  /\ stream'[s] \in Stream /\ stream'[s].on = stream[s].on
  /\ stream[s].at # "unopened" /\ stream'[s].at # "unopened"
  /\ stream' \in [Streams -> Stream]
  /\ \A t \in Streams \ {s} : stream'[t] = stream[t]

LEMMA OneStreamPlaced ==
  ASSUME Typed, NEW s \in Streams, OneStream(s), UNCHANGED opened
  PROVE  StreamTyped' /\ Placed'
BY DEF Typed, OneStream, StreamTyped, Placed

LEMMA MessagesTyped ==
  ASSUME NEW r \in Requests
  PROVE  /\ [kind |-> "evidence", request |-> r] \in Message
         /\ [kind |-> "done", request |-> r] \in Message
         /\ [kind |-> "health"] \in Message
BY DEF Message, MessageKinds

LEMMA AppendedTyped ==
  ASSUME Typed, NEW s \in Streams, stream[s].at = "serving", NEW message \in Message,
         stream' = [stream EXCEPT ![s].inbox = Append(@, message)]
  PROVE  OneStream(s)
<1>1. stream \in [Streams -> Stream] /\ stream[s] \in Stream
  BY DEF Typed, StreamTyped
<1>2. Append(stream[s].inbox, message) \in Seq(Message)
  BY <1>1 DEF Stream
<1>3. [stream[s] EXCEPT !.inbox = Append(@, message)] \in Stream
  BY <1>1, <1>2 DEF Stream
<1> QED
  BY <1>1, <1>3 DEF OneStream, Stream

EndedStream(q, at) == [q EXCEPT !.at = at, !.inbox = <<>>]

LEMMA EndedStreamIs ==
  ASSUME NEW q \in Stream, NEW at \in {"over", "gone", "ended"}
  PROVE  /\ EndedStream(q, at) \in Stream
         /\ EndedStream(q, at).at = at /\ EndedStream(q, at).inbox = <<>>
         /\ EndedStream(q, at).on = q.on /\ EndedStream(q, at).counter = q.counter
<1>1. <<>> \in Seq(Message)
  OBVIOUS
<1> QED
  BY <1>1 DEF EndedStream, Stream

LEMMA StreamStep ==
  ASSUME Typed, Next
  PROVE  StreamTyped' /\ Placed'
<1>1. stream \in [Streams -> Stream] /\ \A s \in Streams : stream[s] \in Stream
  BY DEF Typed, StreamTyped
<1>2. CASE UNCHANGED <<stream, opened>>
  BY <1>2 DEF Typed, StreamTyped, Placed
<1>3. ASSUME NEW g \in Gateways, Open(g)
      PROVE  StreamTyped' /\ Placed'
  <2>1. PICK s \in Streams : s = opened + 1
    <3>1. opened \in Nat /\ opened < MaxStreams
      BY <1>3, Constants DEF Open, Typed, RouteTyped
    <3>2. opened + 1 \in Streams
      BY <3>1, Constants DEF Streams
    <3> QED
      BY <3>2
  <2>2. PICK serial \in 0..MaxCertificates : serial = certificate
    BY Constants DEF Typed, IdentityTyped, Certificates
  <2>3. stream' = [stream EXCEPT ![s] =
          [stream[s] EXCEPT !.at = "identifying", !.on = g, !.serial = serial]]
    BY <1>3, <2>1, <2>2 DEF Open
  <2>4. [stream[s] EXCEPT !.at = "identifying", !.on = g, !.serial = serial] \in Stream
    BY <1>1 DEF Stream
  <2>5. /\ StreamTyped' /\ stream'[s].at = "identifying" /\ stream'[s].on = g
        /\ \A t \in Streams \ {s} : stream'[t] = stream[t]
    BY <1>1, <2>3, <2>4 DEF StreamTyped, Stream
  <2>6. \A t \in Streams : t > opened + 1 => t > opened /\ t # s
    BY <2>1, Constants DEF Typed, RouteTyped
  <2>7. opened' = opened + 1
    BY <1>3 DEF Open
  <2> QED
    BY <2>5, <2>6, <2>7 DEF Typed, Placed
<1>4. ASSUME NEW s \in Streams,
             Resolve(s) \/ Register(s) \/ Reply(s) \/ Consume(s) \/ EndOfStream(s) \/ Unregister(s)
      PROVE  OneStream(s) /\ UNCHANGED opened
  <2>1. UNCHANGED opened /\ stream[s].at # "unopened"
    BY <1>4 DEF Resolve, Register, Reply, Consume, EndOfStream, Unregister, Answering, Serving
  <2>2. CASE Resolve(s) \/ Register(s)
    <3>1. PICK at \in {"gone", "greeting", "serving"} : stream' = [stream EXCEPT ![s].at = at]
      BY <2>2 DEF Resolve, Register
    <3>2. [stream[s] EXCEPT !.at = at] \in Stream
      BY <1>1 DEF Stream
    <3> QED
      BY <1>1, <2>1, <3>1, <3>2 DEF OneStream, Stream
  <2>3. CASE Reply(s)
    <3>1. [kind |-> "health"] \in Message
      BY DEF Message
    <3> QED
      BY <2>1, <2>3, <3>1, AppendedTyped DEF Reply, Answering, Serving
  <2>4. CASE Consume(s)
    <3>1. Tail(stream[s].inbox) \in Seq(Message)
      BY <1>1, <2>4, HeadTailProperties DEF Consume, Stream
    <3>2. [stream[s] EXCEPT !.inbox = Tail(@)] \in Stream
      BY <1>1, <3>1 DEF Stream
    <3>3. stream' = [stream EXCEPT ![s].inbox = Tail(@)]
      BY <2>4 DEF Consume
    <3> QED
      BY <1>1, <2>1, <3>2, <3>3 DEF OneStream, Stream
  <2>5. CASE EndOfStream(s) \/ Unregister(s)
    <3>1. PICK at \in {"over", "gone", "ended"} :
            stream' = [stream EXCEPT ![s] = EndedStream(stream[s], at)]
      BY <2>5, <1>1 DEF EndOfStream, Unregister, EndedStream
    <3>2. stream'[s] = EndedStream(stream[s], at)
      BY <1>1, <3>1
    <3> QED
      BY <1>1, <2>1, <3>1, <3>2, EndedStreamIs DEF OneStream
  <2> QED
    BY <1>4, <2>1, <2>2, <2>3, <2>4, <2>5
<1>5. ASSUME NEW r \in Requests, NEW s \in Streams, Collect(r, s)
      PROVE  OneStream(s) /\ UNCHANGED opened
  <2>1. PICK id \in Nat : stream' = [stream EXCEPT ![s].counter = id]
    <3>1. stream[s].counter + 1 \in Nat
      BY <1>1 DEF Stream
    <3> QED
      BY <1>5, <3>1 DEF Collect
  <2>2. [stream[s] EXCEPT !.counter = id] \in Stream
    BY <1>1 DEF Stream
  <2>3. UNCHANGED opened /\ stream[s].at # "unopened"
    BY <1>5 DEF Collect
  <2> QED
    BY <1>1, <2>1, <2>2, <2>3 DEF OneStream, Stream
<1>6. ASSUME NEW r \in Requests, Serve(r)
      PROVE  StreamTyped' /\ Placed'
  <2>1. PICK message \in Message, s \in Streams :
          /\ stream[s].at = "serving" /\ UNCHANGED opened
          /\ stream' = [stream EXCEPT ![s].inbox = Append(@, message)]
    <3>1. request[r].stream \in Streams
      BY <1>6 DEF Typed, Made, Serve, SendRecord, SendDone, Work
    <3> QED
      BY <1>6, <3>1, MessagesTyped DEF Serve, SendRecord, SendDone, Work, Answering, Serving
  <2> QED
    BY <2>1, AppendedTyped, OneStreamPlaced
<1>7. ASSUME NEW g \in Gateways, TerminateRevoked(g)
      PROVE  StreamTyped' /\ Placed'
  <2>1. \A s \in Streams : [stream[s] EXCEPT !.closed = TRUE] \in Stream
    BY <1>1 DEF Stream
  <2>2. UNCHANGED opened
    BY <1>7 DEF TerminateRevoked
  <2>3. UNCHANGED stream \/ stream' = [stream EXCEPT ![registry[g]].closed = TRUE]
    BY <1>7 DEF TerminateRevoked
  <2>4. /\ stream' \in [Streams -> Stream]
        /\ \A s \in Streams : stream'[s].at = stream[s].at /\ stream'[s].on = stream[s].on
    <3>1. CASE stream' = [stream EXCEPT ![registry[g]].closed = TRUE] /\ registry[g] \in Streams
      BY <1>1, <2>1, <3>1 DEF Stream
    <3>2. CASE stream' = [stream EXCEPT ![registry[g]].closed = TRUE] /\ registry[g] \notin Streams
      BY <1>1, <3>2
    <3> QED
      BY <1>1, <2>3, <3>1, <3>2
  <2> QED
    BY <2>2, <2>4 DEF Typed, StreamTyped, Placed
<1>8. ASSUME NEW g \in Gateways, Die(g)
      PROVE  StreamTyped' /\ Placed'
  <2>1. \A s \in Streams : stream'[s] \in {stream[s], EndedStream(stream[s], "gone")}
    BY <1>8 DEF Die, EndedStream
  <2>2. \A s \in Streams : stream'[s] # stream[s] => stream[s].on = g
    BY <1>8 DEF Die, On
  <2>3. /\ stream' \in [Streams -> Stream] /\ UNCHANGED opened
        /\ \A s \in Streams : /\ stream'[s].on = stream[s].on
                               /\ stream'[s].at \in {stream[s].at, "gone"}
    <3>1. \A s \in Streams : /\ stream'[s] \in Stream
                             /\ stream'[s].on = stream[s].on
                             /\ stream'[s].at \in {stream[s].at, "gone"}
      BY <1>1, <2>1, EndedStreamIs
    <3>2. DOMAIN stream' = Streams /\ stream' = [s \in Streams |-> stream'[s]]
      BY <1>8 DEF Die
    <3> QED
      BY <1>8, <3>1, <3>2 DEF Die
  <2> QED
    BY <2>1, <2>2, <2>3, Constants DEF Typed, StreamTyped, Placed
<1>9. ASSUME \/ \E x \in Refreshers : Refreshing(x)
             \/ \E r \in Requests : Return(r) \/ Timeout(r)
             \/ \E c \in Certificates : Revoke(c)
             \/ Leave \/ Renew \/ Lapse \/ FlushRedis
      PROVE  UNCHANGED <<stream, opened>>
  BY <1>9 DEF Refreshing, ReadRevoked, CacheRevoked, Return, Timeout, Revoke, Leave, Renew,
              Lapse, FlushRedis
<1> QED
  BY <1>2, <1>3, <1>4, <1>5, <1>6, <1>7, <1>8, <1>9, OneStreamPlaced DEF Next

(* What becomes of a call that the agent works on or that comes to its end.*)
LEMMA Served ==
  ASSUME RequestTyped, NEW r \in Requests, Serve(r)
  PROVE  /\ \A q \in Requests \ {r} : request'[q] = request[q]
         /\ LET p == request'[r] IN
            /\ p.at = request[r].at /\ p.stream = request[r].stream /\ p.id = request[r].id
            /\ p.pending = request[r].pending /\ p.why = request[r].why
            /\ p.records = request[r].records /\ p.late = request[r].late
            /\ request[r].work # "none" /\ p.work = IF SendRecord(r) THEN "recorded" ELSE "sent"
<1>1. request \in [Requests -> Request] /\ request[r] \in Request
  BY DEF RequestTyped
<1>2. PICK work \in {"recorded", "sent"} :
        /\ request' = [request EXCEPT ![r].work = work] /\ request[r].work # "none"
        /\ work = IF SendRecord(r) THEN "recorded" ELSE "sent"
  BY DEF Serve, SendRecord, SendDone, Work
<1>3. request'[r] = [request[r] EXCEPT !.work = work]
  BY <1>1, <1>2
<1>4. \A q \in Requests \ {r} : request'[q] = request[q]
  BY <1>1, <1>2
<1> QED
  BY <1>1, <1>2, <1>3, <1>4 DEF Request

LEMMA Returned ==
  ASSUME RequestTyped, NEW r \in Requests, Return(r) \/ Timeout(r)
  PROVE  /\ \A q \in Requests \ {r} : request'[q] = request[q]
         /\ LET p == request'[r] IN
            /\ p.at = "returned" /\ ~p.pending
            /\ \/ p.why = request[r].why /\ request[r].at = "finished"
               \/ p.why = "timeout"
            /\ p.stream = request[r].stream /\ p.id = request[r].id /\ p.work = request[r].work
            /\ p.records = request[r].records /\ p.late = request[r].late
<1>1. request \in [Requests -> Request] /\ request[r] \in Request
  BY DEF RequestTyped
<1>2. CASE Return(r)
  <2>1. /\ request'[r] = [request[r] EXCEPT !.at = "returned", !.pending = FALSE]
        /\ \A q \in Requests \ {r} : request'[q] = request[q]
        /\ request[r].at = "finished"
    BY <1>1, <1>2 DEF Return
  <2> QED
    BY <1>1, <2>1 DEF Request
<1>3. CASE Timeout(r)
  <2>1. /\ request'[r] = [request[r] EXCEPT !.at = "returned", !.pending = FALSE,
                                            !.why = "timeout"]
        /\ \A q \in Requests \ {r} : request'[q] = request[q]
    BY <1>1, <1>3 DEF Timeout
  <2> QED
    BY <1>1, <2>1 DEF Request
<1> QED
  BY <1>2, <1>3

(* What the next message of a stream does to a call.                       *)
LEMMA Consumed ==
  ASSUME RequestTyped, NEW s \in Streams, Consume(s), NEW q \in Requests
  PROVE  LET p    == request'[q]
             from == Head(stream[s].inbox).request
             kind == Head(stream[s].inbox).kind
             mine == kind # "health" /\ q \in Asked(s, request[from].id)
         IN /\ p.stream = request[q].stream /\ p.id = request[q].id /\ p.work = request[q].work
            /\ p.pending = request[q].pending /\ p.why = request[q].why
            /\ p.late = request[q].late
            /\ p.at = IF mine /\ kind = "done" THEN "finished" ELSE request[q].at
            /\ p.records = IF mine /\ kind = "evidence" THEN request[q].records \cup {from}
                           ELSE request[q].records
<1>1. request[q] \in Request
  BY DEF RequestTyped
<1> PICK from : from = Head(stream[s].inbox).request
  OBVIOUS
<1> PICK kind : kind = Head(stream[s].inbox).kind
  OBVIOUS
<1>2. CASE kind = "evidence" /\ OnEvidence(s, from)
  <2>1. request'[q] = IF q \in Asked(s, request[from].id)
                      THEN [request[q] EXCEPT !.records = @ \cup {from}] ELSE request[q]
    BY <1>2 DEF OnEvidence
  <2> QED
    BY <1>1, <1>2, <2>1 DEF Request
<1>3. CASE kind = "done" /\ OnDone(s, from)
  <2>1. request'[q] = IF q \in Asked(s, request[from].id)
                      THEN [request[q] EXCEPT !.at = "finished"] ELSE request[q]
    BY <1>3 DEF OnDone
  <2> QED
    BY <1>1, <1>3, <2>1 DEF Request
<1>4. CASE kind = "health" /\ OnHealth(s)
  BY <1>4 DEF OnHealth
<1> QED
  BY <1>2, <1>3, <1>4 DEF Consume

LEMMA MadeStep ==
  ASSUME Typed, Next
  PROVE  Made'
<1>1. /\ \A r \in Requests : request[r] \in Request
      /\ RequestTyped /\ Made
  BY DEF Typed, RequestTyped
<1>2. CASE Silent
  BY <1>1, <1>2, SilentLeaves DEF Made
<1>3. CASE Cancels
  <2>1. ASSUME NEW s, NEW reason \in {"replaced", "disconnected", "revoked"},
               request' = CancelAll(request, s, reason)
        PROVE  Made'
    BY <1>1, <2>1, AllCancelled, CancelledIs DEF Made
  <2> QED
    BY <1>1, <1>3, <2>1, CancelsCalls DEF Made
<1>4. ASSUME NEW g \in Gateways, Die(g)
      PROVE  Made'
  <2>1. \A r \in Requests :
          request'[r] \in {request[r], [request[r] EXCEPT !.at = "lost", !.pending = FALSE]}
    BY <1>4 DEF Die
  <2>2. \A r \in Requests : /\ request'[r].work = request[r].work
                            /\ request'[r].stream = request[r].stream
    BY <1>1, <2>1 DEF Request
  <2> QED
    BY <1>1, <2>2 DEF Made
<1>5. ASSUME NEW r \in Requests, NEW s \in Streams, Collect(r, s)
      PROVE  Made'
  BY <1>1, <1>5, Collected DEF Made
<1>6. ASSUME NEW r \in Requests, Serve(r) \/ Return(r) \/ Timeout(r)
      PROVE  Made'
  BY <1>1, <1>6, Served, Returned DEF Made
<1>7. ASSUME NEW s \in Streams, Consume(s)
      PROVE  Made'
  <2>1. \A r \in Requests : /\ request'[r].work = request[r].work
                            /\ request'[r].stream = request[r].stream
    BY <1>1, <1>7, Consumed
  <2> QED
    BY <1>1, <2>1 DEF Made
<1> QED
  BY <1>2, <1>3, <1>4, <1>5, <1>6, <1>7, NextIs

LEMMA IdentityStep ==
  ASSUME Typed, Next
  PROVE  IdentityTyped'
<1>1. IdentityTyped /\ \A x \in Refreshers : refresh[x] \in Refresh
  BY DEF Typed, IdentityTyped
<1>2. CASE UNCHANGED identity
  BY <1>1, <1>2 DEF identity, IdentityTyped
<1>3. ASSUME NEW g \in Gateways, Open(g)
      PROVE  IdentityTyped'
  <2>1. \A x \in Refreshers : [refresh[x] EXCEPT !.at = "asked"] \in Refresh
    BY <1>1 DEF Refresh
  <2>2. opened + 1 \in Refreshers
    <3>1. opened \in Nat /\ opened < MaxStreams
      BY <1>3, Constants DEF Open, Typed, RouteTyped
    <3> QED
      BY <3>1, Constants DEF Streams, Refreshers
  <2> QED
    BY <1>1, <1>3, <2>1, <2>2 DEF Open, IdentityTyped
<1>4. ASSUME NEW x \in Refreshers, Refreshing(x)
      PROVE  IdentityTyped'
  <2>1. /\ [at |-> "read", serials |-> revoked] \in Refresh
        /\ [refresh[x] EXCEPT !.at = "cached"] \in Refresh
        /\ refresh[x].serials \in SUBSET Certificates
    BY <1>1 DEF Refresh, IdentityTyped
  <2>2. CASE ReadRevoked(x)
    BY <1>1, <2>1, <2>2 DEF ReadRevoked, IdentityTyped
  <2>3. CASE CacheRevoked(x)
    BY <1>1, <2>1, <2>3 DEF CacheRevoked, IdentityTyped
  <2> QED
    BY <1>4, <2>2, <2>3 DEF Refreshing
<1>5. ASSUME NEW x \in Refreshers, refresh' = [refresh EXCEPT ![x] = Unrefreshed(x)],
             UNCHANGED <<certificate, revoked, cache>>
      PROVE  IdentityTyped'
  BY <1>1, <1>5, UnrefreshedTyped DEF IdentityTyped
<1>6. ASSUME NEW g \in Gateways, Die(g)
      PROVE  IdentityTyped'
  <2>1. \A x \in Refreshers : refresh'[x] \in Refresh
    BY <1>1, <1>6, UnrefreshedTyped DEF Die
  <2>2. refresh' \in [Refreshers -> Refresh]
    BY <1>6, <2>1 DEF Die
  <2> QED
    BY <1>1, <1>6, <2>2 DEF Die, IdentityTyped
<1>7. CASE Renew \/ \E c \in Certificates : Revoke(c)
  <2>1. CASE Renew
    <3>1. certificate' \in Certificates
      <4>1. certificate \in 1..MaxCertificates /\ certificate < MaxCertificates
            /\ certificate' = certificate + 1
        BY <1>1, <2>1 DEF Renew, IdentityTyped, Certificates
      <4> QED
        BY <4>1, Constants DEF Certificates
    <3>2. UNCHANGED <<revoked, cache, refresh>>
      BY <2>1 DEF Renew
    <3> QED
      BY <1>1, <3>1, <3>2 DEF IdentityTyped
  <2>2. CASE \E c \in Certificates : Revoke(c)
    BY <1>1, <2>2 DEF Revoke, IdentityTyped
  <2> QED
    BY <1>7, <2>1, <2>2
<1>8. CASE \E s \in Streams : Resolve(s)
  BY <1>5, <1>8 DEF Resolve, Refreshers
<1>9. CASE \E g \in Gateways : TerminateRevoked(g)
  BY <1>5, <1>9 DEF TerminateRevoked, Refreshers
<1>10. ASSUME NEW s \in Streams,
              Register(s) \/ Reply(s) \/ Consume(s) \/ EndOfStream(s) \/ Unregister(s)
       PROVE  IdentityTyped'
  BY <1>2, <1>10 DEF Register, Reply, Consume, EndOfStream, Unregister
<1>11. ASSUME NEW r \in Requests, Serve(r) \/ Return(r) \/ Timeout(r)
       PROVE  IdentityTyped'
  BY <1>2, <1>11 DEF Serve, SendRecord, SendDone, Work, Return, Timeout
<1>12. CASE \E r \in Requests, s \in Streams : Collect(r, s)
  BY <1>2, <1>12 DEF Collect
<1>13. CASE Leave \/ Lapse \/ FlushRedis
  BY <1>2, <1>13 DEF Leave, Lapse, FlushRedis
<1> QED
  BY <1>3, <1>4, <1>6, <1>7, <1>8, <1>9, <1>10, <1>11, <1>12, <1>13 DEF Next

LEMMA RouteStep ==
  ASSUME Typed, Next
  PROVE  RouteTyped'
<1>1. /\ opened \in 0..MaxStreams /\ agent \in 0..MaxStreams
      /\ registry \in [Gateways -> 0..MaxStreams]
      /\ presence \in Gateways \cup {NoGateway}
      /\ overtaken \in BOOLEAN /\ faults \in 0..MaxFaults
  BY DEF Typed, RouteTyped
<1>2. opened' \in 0..MaxStreams /\ agent' \in 0..MaxStreams
  <2>1. \/ UNCHANGED opened /\ agent' \in {agent, NoStream}
        \/ opened < MaxStreams /\ opened' = opened + 1 /\ agent' = opened'
    BY DEF Next, Open, TerminateRevoked, Die, Refreshing, ReadRevoked, CacheRevoked, Resolve,
        Register, Reply, Consume, EndOfStream, Unregister, Collect, Serve, SendRecord, SendDone,
        Work, Return, Timeout, Revoke, Leave, Renew, Lapse, FlushRedis
  <2> QED
    BY <1>1, <2>1, Constants
<1>3. registry' \in [Gateways -> 0..MaxStreams]
  BY <1>1, Constants
  DEF Next, Open, TerminateRevoked, Die, Refreshing, ReadRevoked, CacheRevoked, Resolve,
      Register, Reply, Consume, EndOfStream, Unregister, Unlisted, Collect, Serve, SendRecord,
      SendDone, Work, Return, Timeout, Revoke, Leave, Renew, Lapse, FlushRedis
<1>4. presence' \in Gateways \cup {NoGateway}
  <2>1. \A s \in Streams : stream[s].at \in {"greeting", "serving"} => On(s) \in Gateways
    BY DEF Typed, Placed, On
  <2> QED
    BY <1>1, <2>1
    DEF Next, Open, TerminateRevoked, Die, Refreshing, ReadRevoked, CacheRevoked, Resolve,
        Register, Reply, Consume, OnEvidence, OnDone, OnHealth, Serving, EndOfStream,
        Unregister, Withdraw, Collect, Serve, SendRecord, SendDone, Work, Return, Timeout,
        Revoke, Leave, Renew, Lapse, FlushRedis
<1>5. overtaken' \in BOOLEAN
  BY <1>1
  DEF Next, Open, TerminateRevoked, Die, Refreshing, ReadRevoked, CacheRevoked, Resolve,
      Register, Reply, Consume, EndOfStream, Unregister, Collect, Serve, SendRecord, SendDone,
      Work, Return, Timeout, Revoke, Leave, Renew, Lapse, FlushRedis
<1>6. faults' \in 0..MaxFaults
  <2>1. UNCHANGED faults \/ (faults < MaxFaults /\ faults' = faults + 1)
    BY DEF Next, Open, TerminateRevoked, Die, Refreshing, ReadRevoked, CacheRevoked, Resolve,
        Register, Reply, Consume, EndOfStream, Unregister, Collect, Serve, SendRecord, SendDone,
        Work, Return, Timeout, Revoke, Leave, Renew, Lapse, FlushRedis
  <2> QED
    BY <1>1, <2>1, Constants
<1> QED
  BY <1>2, <1>3, <1>4, <1>5, <1>6 DEF RouteTyped

LEMMA StaysTyped == Typed /\ [Next]_vars => Typed'
<1>1. CASE UNCHANGED vars
  BY <1>1 DEF vars, identity, Typed, StreamTyped, RequestTyped, IdentityTyped, RouteTyped,
              Placed, Made
<1>2. ASSUME Typed, Next PROVE Typed'
  BY <1>2, StreamStep, RequestStep, IdentityStep, RouteStep, MadeStep DEF Typed
<1> QED
  BY <1>1, <1>2

(* The gateway's state is well formed whatever happens to its streams.     *)
THEOREM GatewayTypes == Spec => []TypeOK
<1>1. Typed => TypeOK
  BY Types DEF Typed
<1> QED
  BY <1>1, Initially, StaysTyped, PTL DEF Spec

-----------------------------------------------------------------------------
(* What a call gets.                                                       *)

(* A stream on which no call can have been made yet.                       *)
Early == {"unopened", "identifying", "greeting"}

(* A call that was made is on a stream that was registered, under a number *)
(* no other call on that stream has.                                       *)
Numbered ==
  \A r \in Requests :
    /\ request[r].at = "unasked" => ~request[r].pending
    /\ request[r].at = "unasked" <=> request[r].stream = NoStream
    /\ request[r].stream # NoStream =>
         /\ stream[request[r].stream].at \notin Early
         /\ request[r].id <= stream[request[r].stream].counter
         /\ \A q \in Requests : q # r /\ request[q].stream = request[r].stream
                                  => request[q].id # request[r].id

(* No reason was given why the call is over.                               *)
Unexplained(r) == request[r].why = ""

(* What a call has, when it is over without a reason, is its own record.   *)
AccountedFor(r) ==
  /\ request[r].at = "unasked" => Unexplained(r)
  /\ request[r].at = "waiting" => request[r].pending
  /\ request[r].pending => Unexplained(r) /\ request[r].at # "returned"
  /\ request[r].records \subseteq {r}
  /\ request[r].at \in {"finished", "returned"} /\ Unexplained(r)
       => request[r].records = {r}

Accounted == \A r \in Requests : AccountedFor(r)

(* The record of r was handed over, or is unread before the nth message.   *)
RecordBefore(r, s, n) ==
  \/ r \in request[r].records
  \/ \E k \in 1..Len(stream[s].inbox) :
       k < n /\ stream[s].inbox[k] = [kind |-> "evidence", request |-> r]

(* What is unread on a stream is about calls on it, and the record of a    *)
(* pending call comes before the word that it is done.                     *)
AnswersAt(s, n, r) ==
  /\ stream[s].inbox[n] = [kind |-> "evidence", request |-> r] => request[r].stream = s
  /\ stream[s].inbox[n] = [kind |-> "done", request |-> r] =>
       request[r].stream = s /\ (request[r].pending => RecordBefore(r, s, n))

AnswersOn(s) == \A n \in 1..Len(stream[s].inbox), r \in Requests : AnswersAt(s, n, r)

Answers == \A s \in Streams : AnswersOn(s)

(* The agent says that it is done after it sent the record.                *)
RecordSent ==
  \A r \in Requests :
    LET s == request[r].stream IN
    request[r].work = "recorded" /\ request[r].pending /\ stream[s].at = "serving"
      => RecordBefore(r, s, Len(stream[s].inbox) + 1)

Inv == Numbered /\ Accounted /\ Answers /\ RecordSent /\ EndReleasesRequests

LEMMA InvInitially == Init => Inv
<1> SUFFICES ASSUME Init PROVE Inv
  OBVIOUS
<1>1. \A r \in Requests : /\ request[r].at = "unasked" /\ request[r].stream = NoStream
                          /\ ~request[r].pending /\ Unexplained(r)
                          /\ request[r].records = {}
  BY DEF Init, Unexplained
<1>2. \A s \in Streams : stream[s].inbox = <<>>
  BY DEF Init
<1>3. Numbered /\ Accounted /\ RecordSent /\ EndReleasesRequests
  BY <1>1 DEF Numbered, Accounted, AccountedFor, RecordSent, EndReleasesRequests
<1>4. \A s \in Streams : 1..Len(stream[s].inbox) = {}
  BY <1>2
<1>5. Answers
  BY <1>4 DEF Answers, AnswersOn
<1> QED
  BY <1>3, <1>5 DEF Inv

(* A call comes to an end: it keeps what it has, and has a reason unless   *)
(* that is its record.                                                     *)
Ends(r) ==
  LET q == request'[r] IN
  /\ request[r].at # "unasked"
  /\ q.stream = request[r].stream /\ q.id = request[r].id /\ q.work = request[r].work
  /\ q.records = request[r].records /\ q.late = request[r].late
  /\ ~q.pending /\ q.at \in {"finished", "returned", "lost"}
  /\ q.at # "lost" /\ Unexplained(r)' => request[r].records = {r}

(* A stream moves on: messages are lost with it, and the calls on it are   *)
(* over when it is.                                                        *)
MovesOn(s) ==
  LET t == stream'[s] IN
  /\ t.counter = stream[s].counter
  /\ \/ t.at = stream[s].at /\ t.inbox = stream[s].inbox
     \/ stream[s].at \in Early /\ t.at # "ended" /\ t.inbox \in {stream[s].inbox, <<>>}
     \/ t.at \in {"over", "gone"} /\ t.inbox = <<>>
     \/ /\ t.at = "ended" /\ t.inbox = <<>>
        /\ \A r \in Requests : request'[r].stream = s => request'[r].at # "waiting"

LEMMA MovingKeeps ==
  ASSUME Typed, Inv, \A r \in Requests : request'[r] = request[r] \/ Ends(r),
         \A s \in Streams : MovesOn(s)
  PROVE  Inv'
<1>1. /\ \A r \in Requests : request[r].stream \in Streams \cup {NoStream}
      /\ \A r \in Requests : request'[r].stream = request[r].stream /\ request'[r].id = request[r].id
      /\ \A r \in Requests : request'[r].records = request[r].records
      /\ \A r \in Requests : request'[r].work = request[r].work
      /\ \A r \in Requests : request'[r].pending => request[r].pending
  <2>1. \A r \in Requests : request[r] \in Request
    BY DEF Typed, RequestTyped
  <2>2. \A r \in Requests : request[r].stream \in Streams \cup {NoStream}
    BY <2>1, Constants DEF Request
  <2> QED
    BY <2>2 DEF Ends
<1>2. \A s \in Streams : /\ stream'[s].counter = stream[s].counter
                         /\ stream[s].at \notin Early => stream'[s].at \notin Early
  BY DEF MovesOn, Early
<1>3. Numbered'
  <2>1. ASSUME NEW r \in Requests
        PROVE  /\ request'[r].at = "unasked" => ~request'[r].pending
               /\ request'[r].at = "unasked" <=> request'[r].stream = NoStream
    BY DEF Inv, Numbered, Ends
  <2>2. ASSUME NEW r \in Requests, request'[r].stream # NoStream
        PROVE  /\ stream'[request'[r].stream].at \notin Early
               /\ request'[r].id <= stream'[request'[r].stream].counter
    BY <1>1, <1>2, <2>2 DEF Inv, Numbered
  <2>3. ASSUME NEW r \in Requests, request'[r].stream # NoStream,
               NEW q \in Requests, q # r, request'[q].stream = request'[r].stream
        PROVE  request'[q].id # request'[r].id
    BY <1>1, <2>3 DEF Inv, Numbered
  <2> QED
    BY <2>1, <2>2, <2>3 DEF Numbered
<1>4. Accounted'
  <2>1. ASSUME NEW r \in Requests, request'[r] = request[r] PROVE AccountedFor(r)'
    BY <2>1 DEF Inv, Accounted, AccountedFor, Unexplained
  <2>2. ASSUME NEW r \in Requests, Ends(r) PROVE AccountedFor(r)'
    BY <2>2 DEF Inv, Accounted, AccountedFor, Ends
  <2> QED
    BY <2>1, <2>2 DEF Accounted
<1>5. ASSUME NEW s \in Streams, stream'[s].inbox = stream[s].inbox,
             NEW r \in Requests, NEW n, RecordBefore(r, s, n)
      PROVE  RecordBefore(r, s, n)'
  BY <1>1, <1>5 DEF RecordBefore
<1>6. Answers'
  <2>1. ASSUME NEW s \in Streams, stream'[s].inbox = stream[s].inbox PROVE AnswersOn(s)'
    <3>1. AnswersOn(s)
      BY DEF Inv, Answers
    <3> QED
      BY <1>1, <1>5, <2>1, <3>1 DEF AnswersOn, AnswersAt
  <2>2. ASSUME NEW s \in Streams, stream'[s].inbox = <<>> PROVE AnswersOn(s)'
    <3>1. 1..Len(stream'[s].inbox) = {}
      BY <2>2
    <3> QED
      BY <3>1 DEF AnswersOn
  <2> QED
    BY <2>1, <2>2 DEF Answers, MovesOn
<1>7. RecordSent'
  <2>1. ASSUME NEW r \in Requests, NEW s \in Streams, s = request[r].stream,
               request'[r].work = "recorded", request'[r].pending, stream'[s].at = "serving"
        PROVE  RecordBefore(r, s, Len(stream[s].inbox) + 1)'
    <3>1. stream[s].at = "serving" /\ stream'[s].inbox = stream[s].inbox
      <4>1. stream[s].at \notin Early
        BY <2>1, Constants DEF Inv, Numbered
      <4> QED
        BY <2>1, <4>1 DEF MovesOn
    <3>2. request[r].work = "recorded" /\ request[r].pending
      BY <1>1, <2>1
    <3>3. RecordBefore(r, s, Len(stream[s].inbox) + 1)
      BY <2>1, <3>1, <3>2 DEF Inv, RecordSent
    <3> QED
      BY <1>1, <3>1, <3>3 DEF RecordBefore
  <2>2. \A r \in Requests : request[r].work = "recorded" => request[r].stream \in Streams
    BY DEF Typed, Made
  <2> QED
    BY <1>1, <2>1, <2>2 DEF RecordSent
<1>8. EndReleasesRequests'
  <2> SUFFICES ASSUME NEW r \in Requests, request'[r].at = "waiting",
                      stream'[request'[r].stream].at = "ended"
               PROVE  request'[r].late
    BY DEF EndReleasesRequests
  <2>1. request'[r] = request[r]
    BY DEF Ends
  <2>2. request[r].stream \in Streams /\ stream[request[r].stream].at \notin Early
    BY <1>1, <2>1 DEF Inv, Numbered
  <2>3. stream[request[r].stream].at = "ended"
    BY <2>1, <2>2 DEF MovesOn
  <2> QED
    BY <2>1, <2>3 DEF Inv, EndReleasesRequests
<1> QED
  BY <1>3, <1>4, <1>6, <1>7, <1>8 DEF Inv

LEMMA CancellingEnds ==
  ASSUME Typed, Inv, NEW s, NEW reason \in {"replaced", "disconnected", "revoked"},
         request' = CancelAll(request, s, reason)
  PROVE  /\ \A r \in Requests : request'[r] = request[r] \/ Ends(r)
         /\ \A r \in Requests : request'[r].stream = s => request'[r].at # "waiting"
<1>1. RequestTyped /\ \A r \in Requests : request[r] \in Request
  BY DEF Typed, RequestTyped
<1>2. ASSUME NEW r \in Requests, request[r].pending, request[r].stream = s
      PROVE  Ends(r)
  <2>1. request'[r] = Cancelled(request[r], reason)
    BY <1>1, <1>2, AllCancelled
  <2>2. request[r].at # "unasked"
    BY <1>2 DEF Inv, Numbered
  <2>3. LET q == request'[r] IN
        /\ q.at = "finished" /\ ~q.pending /\ q.why = reason
        /\ q.stream = request[r].stream /\ q.id = request[r].id
        /\ q.records = request[r].records /\ q.late = request[r].late
        /\ q.work = request[r].work
    BY <1>1, <2>1, CancelledIs
  <2>4. ~Unexplained(r)'
    BY <2>3 DEF Unexplained
  <2> QED
    BY <2>2, <2>3, <2>4 DEF Ends
<1>3. ASSUME NEW r \in Requests, ~(request[r].pending /\ request[r].stream = s)
      PROVE  request'[r] = request[r]
  BY <1>1, <1>3, AllCancelled
<1>4. ASSUME NEW r \in Requests, request'[r].stream = s
      PROVE  request'[r].at # "waiting"
  <2>1. CASE request[r].pending /\ request[r].stream = s
    BY <1>2, <2>1 DEF Ends
  <2>2. CASE ~(request[r].pending /\ request[r].stream = s)
    <3>1. request'[r] = request[r]
      BY <1>3, <2>2
    <3> QED
      BY <1>4, <2>2, <3>1 DEF Inv, Accounted, AccountedFor
  <2> QED
    BY <2>1, <2>2
<1> QED
  BY <1>2, <1>3, <1>4

(* Streams on which nothing happens.                                       *)
LEMMA StandsStill ==
  ASSUME NEW s \in Streams, stream'[s] = stream[s]
  PROVE  MovesOn(s)
BY DEF MovesOn

LEMMA EndKeeps ==
  ASSUME Typed, Inv, NEW s \in Streams, EndOfStream(s) \/ Unregister(s)
  PROVE  Inv'
<1>1. stream \in [Streams -> Stream] /\ stream[s] \in Stream
  BY DEF Typed, StreamTyped
<1>2. CASE EndOfStream(s)
  <2>1. PICK at \in {"over", "gone"} : stream' = [stream EXCEPT ![s] = EndedStream(stream[s], at)]
    BY <1>2 DEF EndOfStream, EndedStream
  <2>2. /\ stream'[s] = EndedStream(stream[s], at)
        /\ \A t \in Streams \ {s} : stream'[t] = stream[t]
    BY <1>1, <2>1
  <2>3. MovesOn(s)
    BY <1>1, <2>2, EndedStreamIs DEF MovesOn
  <2>4. UNCHANGED request
    BY <1>2 DEF EndOfStream
  <2> QED
    BY <2>2, <2>3, <2>4, StandsStill, MovingKeeps
<1>3. CASE Unregister(s)
  <2>1. stream' = [stream EXCEPT ![s] = EndedStream(stream[s], "ended")]
    BY <1>3 DEF Unregister, EndedStream
  <2>2. /\ stream'[s] = EndedStream(stream[s], "ended")
        /\ \A t \in Streams \ {s} : stream'[t] = stream[t]
    BY <1>1, <2>1
  <2>3. /\ \A r \in Requests : request'[r] = request[r] \/ Ends(r)
        /\ \A r \in Requests : request'[r].stream = s => request'[r].at # "waiting"
    BY <1>3, CancellingEnds DEF Unregister
  <2>4. MovesOn(s)
    BY <1>1, <2>2, <2>3, EndedStreamIs DEF MovesOn
  <2> QED
    BY <2>2, <2>3, <2>4, StandsStill, MovingKeeps
<1> QED
  BY <1>2, <1>3

LEMMA BeginKeeps ==
  ASSUME Typed, Inv, \/ \E g \in Gateways : Open(g)
                     \/ \E s \in Streams : Resolve(s) \/ Register(s)
  PROVE  Inv'
<1>1. stream \in [Streams -> Stream] /\ \A s \in Streams : stream[s] \in Stream
  BY DEF Typed, StreamTyped
<1>2. ASSUME NEW g \in Gateways, Open(g)
      PROVE  Inv'
  <2>1. PICK s, serial : s = opened + 1 /\ serial = certificate
    OBVIOUS
  <2>2. stream' = [stream EXCEPT ![s] =
          [stream[s] EXCEPT !.at = "identifying", !.on = g, !.serial = serial]]
    BY <1>2, <2>1 DEF Open
  <2>3. \A t \in Streams \ {s} : MovesOn(t)
    BY <1>1, <2>2, StandsStill
  <2>4. ASSUME s \in Streams PROVE MovesOn(s)
    <3>1. stream[s].at = "unopened"
      BY <2>1, <2>4, Constants DEF Typed, Placed, RouteTyped, Streams
    <3>2. stream'[s] = [stream[s] EXCEPT !.at = "identifying", !.on = g, !.serial = serial]
      BY <1>1, <2>2, <2>4
    <3> QED
      BY <1>1, <2>4, <3>1, <3>2 DEF MovesOn, Early, Stream
  <2> QED
    BY <1>2, <2>3, <2>4, MovingKeeps DEF Open
<1>3. ASSUME NEW s \in Streams, Resolve(s) \/ Register(s)
      PROVE  Inv'
  <2>1. PICK at \in {"gone", "greeting", "serving"} : stream' = [stream EXCEPT ![s].at = at]
    BY <1>3 DEF Resolve, Register
  <2>2. stream[s].at \in Early
    BY <1>3 DEF Resolve, Register, Early
  <2>3. /\ \A t \in Streams \ {s} : stream'[t] = stream[t]
        /\ stream'[s] = [stream[s] EXCEPT !.at = at]
    BY <1>1, <2>1
  <2>4. MovesOn(s)
    BY <1>1, <2>2, <2>3 DEF MovesOn, Stream
  <2>5. \A r \in Requests : request'[r] = request[r] \/ Ends(r)
    <3>1. CASE Resolve(s)
      BY <3>1 DEF Resolve
    <3>2. CASE Register(s)
      <4>1. request' = CancelAll(request, registry[On(s)], "replaced")
        BY <3>2 DEF Register
      <4> QED
        BY <4>1, CancellingEnds
    <3> QED
      BY <1>3, <3>1, <3>2
  <2> QED
    BY <2>3, <2>4, <2>5, StandsStill, MovingKeeps
<1> QED
  BY <1>2, <1>3

(* Revocations, deaths, and calls that end by themselves.                  *)
LEMMA RevokingKeeps ==
  ASSUME Typed, Inv, NEW g \in Gateways, TerminateRevoked(g)
  PROVE  Inv'
<1>1. stream \in [Streams -> Stream] /\ \A s \in Streams : stream[s] \in Stream
  BY DEF Typed, StreamTyped
<1>2. CASE UNCHANGED <<stream, request>>
  BY <1>2, StandsStill, MovingKeeps
<1>3. CASE /\ stream' = [stream EXCEPT ![registry[g]].closed = TRUE]
           /\ request' = CancelAll(request, registry[g], "revoked")
  <2>1. \A s \in Streams : stream'[s] \in {stream[s], [stream[s] EXCEPT !.closed = TRUE]}
    BY <1>1, <1>3
  <2>2. \A s \in Streams : MovesOn(s)
    BY <1>1, <2>1 DEF MovesOn, Stream
  <2>3. \A r \in Requests : request'[r] = request[r] \/ Ends(r)
    BY <1>3, CancellingEnds
  <2> QED
    BY <2>2, <2>3, MovingKeeps
<1> QED
  BY <1>2, <1>3 DEF TerminateRevoked

LEMMA DeathKeeps ==
  ASSUME Typed, Inv, NEW g \in Gateways, Die(g)
  PROVE  Inv'
<1>1. /\ \A s \in Streams : stream[s] \in Stream
      /\ \A r \in Requests : request[r] \in Request
  BY DEF Typed, StreamTyped, RequestTyped
<1>2. \A s \in Streams : stream'[s] = stream[s] \/ stream'[s] = EndedStream(stream[s], "gone")
  BY DEF Die, EndedStream
<1>3. \A s \in Streams : MovesOn(s)
  BY <1>1, <1>2, EndedStreamIs DEF MovesOn
<1>4. \A r \in Requests :
        \/ request'[r] = request[r]
        \/ /\ request'[r] = [request[r] EXCEPT !.at = "lost", !.pending = FALSE]
           /\ request[r].stream # NoStream
  BY DEF Die
<1>5. ASSUME NEW r \in Requests, request[r].stream # NoStream,
             request'[r] = [request[r] EXCEPT !.at = "lost", !.pending = FALSE]
      PROVE  Ends(r)
  <2>1. request[r].at # "unasked"
    BY <1>5 DEF Inv, Numbered
  <2>2. LET q == request'[r] IN
        /\ q.at = "lost" /\ ~q.pending
        /\ q.stream = request[r].stream /\ q.id = request[r].id
        /\ q.records = request[r].records /\ q.late = request[r].late
        /\ q.work = request[r].work
    BY <1>1, <1>5 DEF Request
  <2> QED
    BY <2>1, <2>2 DEF Ends
<1> QED
  BY <1>3, <1>4, <1>5, MovingKeeps

LEMMA ReturningKeeps ==
  ASSUME Typed, Inv, NEW r \in Requests, Return(r) \/ Timeout(r)
  PROVE  Inv'
<1>1. RequestTyped /\ UNCHANGED stream /\ request[r].at # "unasked"
  BY DEF Typed, Return, Timeout
<1>2. Ends(r)
  <2>1. Unexplained(r)' => request[r].records = {r}
    <3>1. \/ request'[r].why = request[r].why /\ request[r].at = "finished"
          \/ request'[r].why = "timeout"
      BY <1>1, Returned
    <3> QED
      BY <3>1 DEF Inv, Accounted, AccountedFor, Unexplained
  <2>2. LET p == request'[r] IN
        /\ p.at = "returned" /\ ~p.pending
        /\ p.stream = request[r].stream /\ p.id = request[r].id /\ p.work = request[r].work
        /\ p.records = request[r].records /\ p.late = request[r].late
    BY <1>1, Returned
  <2> QED
    BY <1>1, <2>1, <2>2 DEF Ends
<1> QED
  BY <1>1, <1>2, Returned, StandsStill, MovingKeeps

(* A call is made under the next number of its stream.                     *)
LEMMA CollectKeeps ==
  ASSUME Typed, Inv, NEW r \in Requests, NEW s \in Streams, Collect(r, s)
  PROVE  Inv'
<1>1. /\ stream \in [Streams -> Stream] /\ stream[s] \in Stream /\ stream[s].counter \in Nat
      /\ \A q \in Requests : request[q].id \in Nat
  BY DEF Typed, StreamTyped, RequestTyped, Stream, Request
<1>2. /\ stream[s].at \notin Early /\ request[r].at = "unasked"
      /\ request[r].stream = NoStream
  BY DEF Collect, Early, Inv, Numbered
<1>3. PICK id : id = stream[s].counter + 1
  OBVIOUS
<1>4. LET p == request'[r] IN
      /\ \A q \in Requests \ {r} : request'[q] = request[q]
      /\ p.at = "waiting" /\ p.stream = s /\ p.id = id /\ p.pending
      /\ p.late = (stream[s].at = "ended") /\ p.work = "queued"
      /\ p.records = request[r].records
  BY <1>2, <1>3, Collected
<1>5. /\ \A t \in Streams : stream'[t].at = stream[t].at /\ stream'[t].inbox = stream[t].inbox
      /\ \A t \in Streams \ {s} : stream'[t] = stream[t]
      /\ stream'[s].counter = id
  <2>1. stream' = [stream EXCEPT ![s].counter = id]
    BY <1>3 DEF Collect
  <2> QED
    BY <1>1, <2>1 DEF Stream
<1>6. \A q \in Requests : request[q].stream # NoStream => request[q].stream \in Streams
  BY Constants DEF Typed, RequestTyped, Request
<1>7. Numbered'
  <2>1. ASSUME NEW q \in Requests, request[q].stream # NoStream
        PROVE  /\ stream[request[q].stream].at \notin Early
               /\ request[q].id <= stream[request[q].stream].counter
    BY <2>1 DEF Inv, Numbered
  <2>2. \A q \in Requests : request[q].stream = s => request[q].id < id
    BY <1>1, <1>3, <2>1, Constants
  <2>3. ASSUME NEW q \in Requests
        PROVE  /\ request'[q].at = "unasked" => ~request'[q].pending
               /\ request'[q].at = "unasked" <=> request'[q].stream = NoStream
    BY <1>4, Constants DEF Inv, Numbered
  <2>4. ASSUME NEW q \in Requests, request'[q].stream # NoStream
        PROVE  /\ stream'[request'[q].stream].at \notin Early
               /\ request'[q].id <= stream'[request'[q].stream].counter
    <3>1. CASE q = r
      <4>1. request'[q].stream = s /\ request'[q].id = id /\ stream'[s].counter = id
            /\ stream'[s].at \notin Early
        BY <1>2, <1>4, <1>5, <3>1
      <4> QED
        BY <1>1, <1>3, <4>1
    <3>2. CASE q # r
      <4>1. PICK t \in Streams : t = request[q].stream /\ t = request'[q].stream
        BY <1>4, <1>6, <2>4, <3>2
      <4>2. stream'[t].at \notin Early /\ request'[q].id = request[q].id
        BY <1>4, <1>5, <2>1, <3>2, <4>1, Constants
      <4>3. CASE t = s
        <5>1. stream'[t].counter = id /\ request[q].id < id
          BY <1>5, <2>2, <4>1, <4>3
        <5>2. id \in Nat /\ request[q].id \in Nat
          BY <1>1, <1>3
        <5> QED
          BY <4>1, <4>2, <5>1, <5>2
      <4>4. CASE t # s
        <5>1. stream'[t] = stream[t] /\ request[q].id <= stream[t].counter
          BY <1>5, <2>1, <4>1, <4>4, Constants
        <5> QED
          BY <4>1, <4>2, <5>1
      <4> QED
        BY <4>1, <4>2, <4>3, <4>4
    <3> QED
      BY <3>1, <3>2
  <2>5. ASSUME NEW p \in Requests, request'[p].stream # NoStream,
               NEW q \in Requests, q # p, request'[q].stream = request'[p].stream
        PROVE  request'[q].id # request'[p].id
    <3>1. CASE p # r /\ q # r
      BY <1>4, <2>5, <3>1 DEF Inv, Numbered
    <3>2. CASE p = r
      BY <1>1, <1>3, <1>4, <2>5, <2>2, <3>2
    <3>3. CASE q = r
      BY <1>1, <1>3, <1>4, <2>5, <2>2, <3>3
    <3> QED
      BY <3>1, <3>2, <3>3
  <2> QED
    BY <2>3, <2>4, <2>5 DEF Numbered
<1>8. Accounted'
  <2>1. ASSUME NEW q \in Requests, q # r PROVE AccountedFor(q)'
    BY <1>4, <2>1 DEF Inv, Accounted, AccountedFor, Unexplained
  <2>2. Unexplained(r)'
    <3>1. request'[r].why = request[r].why
      BY Collected
    <3> QED
      BY <1>2, <3>1 DEF Inv, Accounted, AccountedFor, Unexplained
  <2>3. AccountedFor(r)'
    BY <1>4, <2>2 DEF Inv, Accounted, AccountedFor
  <2> QED
    BY <2>1, <2>3 DEF Accounted
<1>9. \A n : \A t \in Streams, q \in Requests : RecordBefore(q, t, n) => RecordBefore(q, t, n)'
  BY <1>4, <1>5 DEF RecordBefore
<1>10. Answers'
  <2>1. ASSUME NEW t \in Streams, NEW n \in 1..Len(stream[t].inbox), NEW q \in Requests
        PROVE  AnswersAt(t, n, q)'
    <3>1. AnswersAt(t, n, q) /\ stream'[t].inbox = stream[t].inbox
      BY <1>5 DEF Inv, Answers, AnswersOn
    <3>2. CASE q = r
      BY <1>2, <3>1, <3>2, Constants DEF AnswersAt
    <3>3. CASE q # r
      BY <1>4, <1>9, <3>1, <3>3 DEF AnswersAt
    <3> QED
      BY <3>2, <3>3
  <2>2. ASSUME NEW t \in Streams PROVE AnswersOn(t)'
    <3>1. stream'[t].inbox = stream[t].inbox
      BY <1>5
    <3> QED
      BY <2>1, <3>1 DEF AnswersOn
  <2> QED
    BY <2>2 DEF Answers
<1>11. RecordSent'
  <2>1. ASSUME NEW q \in Requests, NEW t \in Streams, t = request'[q].stream,
               request'[q].work = "recorded", request'[q].pending, stream'[t].at = "serving"
        PROVE  RecordBefore(q, t, Len(stream[t].inbox) + 1)'
    <3>1. q # r
      BY <1>4, <2>1
    <3>2. RecordBefore(q, t, Len(stream[t].inbox) + 1)
      BY <1>4, <1>5, <2>1, <3>1 DEF Inv, RecordSent
    <3> QED
      BY <1>4, <1>5, <3>1, <3>2 DEF RecordBefore
  <2>2. \A q \in Requests : request'[q].work = "recorded" => request'[q].stream \in Streams
    BY <1>4 DEF Typed, Made
  <2> QED
    BY <2>1, <2>2 DEF RecordSent
<1>12. EndReleasesRequests'
  <2>1. ASSUME NEW q \in Requests, request'[q].at = "waiting",
               stream'[request'[q].stream].at = "ended"
        PROVE  request'[q].late
    <3>1. CASE q = r
      BY <1>4, <1>5, <2>1, <3>1
    <3>2. CASE q # r
      <4>1. request[q].stream \in Streams
        BY <1>4, <1>6, <2>1, <3>2 DEF Inv, Numbered
      <4> QED
        BY <1>4, <1>5, <2>1, <3>2, <4>1 DEF Inv, EndReleasesRequests
    <3> QED
      BY <3>1, <3>2
  <2> QED
    BY <2>1 DEF EndReleasesRequests
<1> QED
  BY <1>7, <1>8, <1>10, <1>11, <1>12 DEF Inv

(* A message more is unread on s, and nothing else happens to streams.     *)
Sent(s, message) == stream' = [stream EXCEPT ![s].inbox = Append(@, message)]

LEMMA SentIs ==
  ASSUME Typed, NEW s \in Streams, NEW message \in Message, Sent(s, message)
  PROVE  /\ \A t \in Streams \ {s} : stream'[t] = stream[t]
         /\ stream'[s].at = stream[s].at /\ stream'[s].counter = stream[s].counter
         /\ Len(stream[s].inbox) \in Nat
         /\ Len(stream'[s].inbox) = Len(stream[s].inbox) + 1
         /\ \A n \in 1..Len(stream[s].inbox) : stream'[s].inbox[n] = stream[s].inbox[n]
         /\ stream'[s].inbox[Len(stream[s].inbox) + 1] = message
<1>1. stream \in [Streams -> Stream] /\ stream[s] \in Stream
  BY DEF Typed, StreamTyped
<1>2. stream[s].inbox \in Seq(Message)
  BY <1>1 DEF Stream
<1>3. /\ stream'[s] = [stream[s] EXCEPT !.inbox = Append(@, message)]
      /\ \A t \in Streams \ {s} : stream'[t] = stream[t]
  BY <1>1 DEF Sent
<1>4. /\ stream'[s].at = stream[s].at /\ stream'[s].counter = stream[s].counter
      /\ stream'[s].inbox = Append(stream[s].inbox, message)
  BY <1>1, <1>3 DEF Stream
<1> QED
  BY <1>2, <1>3, <1>4

(* Agents answer in order: what was recorded stays recorded.               *)
LEMMA SentKeepsRecords ==
  ASSUME Typed, NEW s \in Streams, NEW message \in Message, Sent(s, message),
         \A q \in Requests : request'[q].records = request[q].records
  PROVE  \A n : \A t \in Streams, q \in Requests : RecordBefore(q, t, n) => RecordBefore(q, t, n)'
<1>1. ASSUME NEW t \in Streams, NEW q \in Requests, NEW n, RecordBefore(q, t, n),
             q \notin request[q].records
      PROVE  RecordBefore(q, t, n)'
  <2>1. PICK k \in 1..Len(stream[t].inbox) :
          k < n /\ stream[t].inbox[k] = [kind |-> "evidence", request |-> q]
    BY <1>1 DEF RecordBefore
  <2>2. k \in 1..Len(stream'[t].inbox) /\ stream'[t].inbox[k] = stream[t].inbox[k]
    BY SentIs
  <2> QED
    BY <2>1, <2>2 DEF RecordBefore
<1>2. \A n : \A t \in Streams, q \in Requests :
        q \in request[q].records => RecordBefore(q, t, n)'
  BY DEF RecordBefore
<1> QED
  BY <1>1, <1>2

(* What the agent says of a call on s leaves all the rest as it is.        *)
LEMMA SendingKeeps ==
  ASSUME Typed, Inv, NEW s \in Streams, NEW message \in Message, Sent(s, message),
         \A q \in Requests :
           /\ request'[q].at = request[q].at /\ request'[q].stream = request[q].stream
           /\ request'[q].id = request[q].id /\ request'[q].pending = request[q].pending
           /\ request'[q].why = request[q].why /\ request'[q].records = request[q].records
           /\ request'[q].late = request[q].late,
         \A q \in Requests :
           \/ message = [kind |-> "evidence", request |-> q]
           \/ message = [kind |-> "done", request |-> q]
           => request[q].stream = s,
         \A q \in Requests :
           message = [kind |-> "done", request |-> q] /\ request[q].pending
             => RecordBefore(q, s, Len(stream[s].inbox) + 1),
         \A q \in Requests :
           request'[q].work = "recorded" =>
             \/ request[q].work = "recorded"
             \/ message = [kind |-> "evidence", request |-> q]
  PROVE  Inv'
<1>1. \A t \in Streams : stream'[t].at = stream[t].at /\ stream'[t].counter = stream[t].counter
  BY SentIs
<1>2. \A q \in Requests : request[q].stream # NoStream => request[q].stream \in Streams
  BY Constants DEF Typed, RequestTyped, Request
<1>3. Numbered'
  <2>1. \A q \in Requests : request[q].stream # NoStream =>
          /\ stream'[request[q].stream].at = stream[request[q].stream].at
          /\ stream'[request[q].stream].counter = stream[request[q].stream].counter
    BY <1>1, <1>2
  <2> QED
    BY <2>1 DEF Inv, Numbered
<1>4. Accounted'
  <2>1. ASSUME NEW q \in Requests PROVE AccountedFor(q)'
    <3>1. Unexplained(q)' <=> Unexplained(q)
      BY DEF Unexplained
    <3> QED
      BY <3>1 DEF Inv, Accounted, AccountedFor
  <2> QED
    BY <2>1 DEF Accounted
<1>5. \A n : \A t \in Streams, q \in Requests : RecordBefore(q, t, n) => RecordBefore(q, t, n)'
  BY SentKeepsRecords
<1>6. Answers'
  <2>1. ASSUME NEW t \in Streams, NEW n \in 1..Len(stream[t].inbox), NEW q \in Requests
        PROVE  AnswersAt(t, n, q)'
    <3>1. stream'[t].inbox[n] = stream[t].inbox[n]
      BY SentIs
    <3>2. AnswersAt(t, n, q)
      BY DEF Inv, Answers, AnswersOn
    <3> QED
      BY <1>5, <3>1, <3>2 DEF AnswersAt
  <2>2. ASSUME NEW n, n = Len(stream[s].inbox) + 1, NEW q \in Requests
        PROVE  AnswersAt(s, n, q)'
    <3>1. stream'[s].inbox[n] = message
      BY <2>2, SentIs
    <3> QED
      BY <1>5, <2>2, <3>1 DEF AnswersAt
  <2>3. ASSUME NEW t \in Streams PROVE AnswersOn(t)'
    <3>1. CASE t = s
      <4>1. \A n \in 1..Len(stream'[s].inbox) :
              n \in 1..Len(stream[s].inbox) \/ n = Len(stream[s].inbox) + 1
        BY SentIs
      <4> QED
        BY <2>1, <2>2, <3>1, <4>1 DEF AnswersOn
    <3>2. CASE t # s
      <4>1. stream'[t].inbox = stream[t].inbox
        BY <3>2, SentIs
      <4> QED
        BY <2>1, <4>1 DEF AnswersOn
    <3> QED
      BY <3>1, <3>2
  <2> QED
    BY <2>3 DEF Answers
<1>7. RecordSent'
  <2>1. ASSUME NEW q \in Requests, NEW t \in Streams, t = request[q].stream,
               request'[q].work = "recorded", request[q].pending, stream[t].at = "serving"
        PROVE  RecordBefore(q, t, Len(stream[t].inbox) + 1)'
    <3>1. CASE request[q].work = "recorded"
      <4>1. RecordBefore(q, t, Len(stream[t].inbox) + 1)
        BY <2>1, <3>1 DEF Inv, RecordSent
      <4>2. CASE q \in request[q].records
        BY <4>2 DEF RecordBefore
      <4>3. CASE q \notin request[q].records
        <5>1. PICK k \in 1..Len(stream[t].inbox) :
                stream[t].inbox[k] = [kind |-> "evidence", request |-> q]
          BY <4>1, <4>3 DEF RecordBefore
        <5>2. /\ k \in 1..Len(stream'[t].inbox) /\ k < Len(stream'[t].inbox) + 1
              /\ stream'[t].inbox[k] = stream[t].inbox[k]
          <6>1. k \in 1..Len(stream'[t].inbox) /\ stream'[t].inbox[k] = stream[t].inbox[k]
            BY SentIs
          <6>2. Len(stream'[t].inbox) \in Nat
            BY <6>1
          <6> QED
            BY <6>1, <6>2
        <5> QED
          BY <5>1, <5>2 DEF RecordBefore
      <4> QED
        BY <4>2, <4>3
    <3>2. CASE message = [kind |-> "evidence", request |-> q]
      <4>1. t = s
        BY <2>1, <3>2
      <4>2. PICK k : k = Len(stream[s].inbox) + 1
        OBVIOUS
      <4>3. /\ k \in 1..Len(stream'[t].inbox) /\ k < Len(stream'[t].inbox) + 1
            /\ stream'[t].inbox[k] = message
        BY <4>1, <4>2, SentIs
      <4> QED
        BY <3>2, <4>3 DEF RecordBefore
    <3> QED
      BY <2>1, <3>1, <3>2
  <2>2. \A q \in Requests : request'[q].work = "recorded" => request[q].stream \in Streams
    BY DEF Typed, Made
  <2> QED
    BY <1>1, <2>1, <2>2 DEF RecordSent
<1>8. EndReleasesRequests'
  <2>1. ASSUME NEW q \in Requests, request[q].at = "waiting",
               stream'[request[q].stream].at = "ended"
        PROVE  request[q].late
    <3>1. request[q].stream \in Streams
      BY <1>2, <2>1 DEF Inv, Numbered
    <3> QED
      BY <1>1, <2>1, <3>1 DEF Inv, EndReleasesRequests
  <2> QED
    BY <2>1 DEF EndReleasesRequests
<1> QED
  BY <1>3, <1>4, <1>6, <1>7, <1>8 DEF Inv

LEMMA ServeKeeps ==
  ASSUME Typed, Inv, NEW r \in Requests, Serve(r)
  PROVE  Inv'
<1>1. PICK s \in Streams : s = request[r].stream /\ stream[s].at = "serving"
  BY DEF Typed, Made, Serve, SendRecord, SendDone, Work, Answering, Serving
<1>2. /\ \A q \in Requests \ {r} : request'[q] = request[q]
      /\ LET p == request'[r] IN
         /\ p.at = request[r].at /\ p.stream = request[r].stream /\ p.id = request[r].id
         /\ p.pending = request[r].pending /\ p.why = request[r].why
         /\ p.records = request[r].records /\ p.late = request[r].late
         /\ p.work = IF SendRecord(r) THEN "recorded" ELSE "sent"
  BY Served DEF Typed
<1>3. CASE SendRecord(r)
  <2> DEFINE message == [kind |-> "evidence", request |-> r]
  <2>1. message \in Message /\ Sent(s, message)
    BY <1>1, <1>3, MessagesTyped DEF SendRecord, Work, Sent
  <2>2. \A q \in Requests : message # [kind |-> "done", request |-> q]
    OBVIOUS
  <2>3. \A q \in Requests : message = [kind |-> "evidence", request |-> q] => q = r
    OBVIOUS
  <2> HIDE DEF message
  <2>4. \A q \in Requests :
          request'[q].work = "recorded" => request[q].work = "recorded" \/ q = r
    BY <1>2
  <2>5. message = [kind |-> "evidence", request |-> r]
    BY DEF message
  <2> QED
    BY <1>1, <1>2, <2>1, <2>2, <2>3, <2>4, <2>5, SendingKeeps
<1>4. CASE SendDone(r)
  <2> DEFINE message == [kind |-> "done", request |-> r]
  <2>1. message \in Message /\ Sent(s, message) /\ request[r].work = "recorded"
    BY <1>1, <1>4, MessagesTyped DEF SendDone, Work, Sent
  <2>2. \A q \in Requests : message # [kind |-> "evidence", request |-> q]
    OBVIOUS
  <2>3. \A q \in Requests : message = [kind |-> "done", request |-> q] => q = r
    OBVIOUS
  <2> HIDE DEF message
  <2>4. \A q \in Requests : request'[q].work = "recorded" => request[q].work = "recorded"
    BY <1>2, <2>1
  <2>5. request[r].pending => RecordBefore(r, s, Len(stream[s].inbox) + 1)
    BY <1>1, <2>1 DEF Inv, RecordSent
  <2> QED
    BY <1>1, <1>2, <2>1, <2>2, <2>3, <2>4, <2>5, SendingKeeps
<1> QED
  BY <1>3, <1>4 DEF Serve

LEMMA ReplyKeeps ==
  ASSUME Typed, Inv, NEW s \in Streams, Reply(s)
  PROVE  Inv'
<1> DEFINE message == [kind |-> "health"]
<1>1. message \in Message /\ Sent(s, message) /\ UNCHANGED request
  BY DEF Reply, Message, Sent
<1>2. \A q \in Requests : /\ message # [kind |-> "evidence", request |-> q]
                          /\ message # [kind |-> "done", request |-> q]
  OBVIOUS
<1> HIDE DEF message
<1> QED
  BY <1>1, <1>2, SendingKeeps

(* The next message of a stream is about one call: numbers are not shared. *)
LEMMA ConsumedIs ==
  ASSUME Typed, Inv, NEW s \in Streams, Consume(s)
  PROVE  /\ \A t \in Streams \ {s} : stream'[t] = stream[t]
         /\ stream[s].at = "serving" /\ stream'[s].at = "serving"
         /\ stream'[s].counter = stream[s].counter
         /\ Len(stream[s].inbox) \in Nat \ {0}
         /\ Len(stream'[s].inbox) = Len(stream[s].inbox) - 1
         /\ \A n \in 1..Len(stream'[s].inbox) : stream'[s].inbox[n] = stream[s].inbox[n + 1]
         /\ \A q \in Requests :
              LET p    == request'[q]
                  said == stream[s].inbox[1]
              IN
              /\ p.stream = request[q].stream /\ p.id = request[q].id
              /\ p.work = request[q].work /\ p.pending = request[q].pending
              /\ p.why = request[q].why /\ p.late = request[q].late
              /\ IF said = [kind |-> "done", request |-> q] /\ request[q].pending
                 THEN p.at = "finished" ELSE p.at = request[q].at
              /\ IF said = [kind |-> "evidence", request |-> q] /\ request[q].pending
                 THEN p.records = request[q].records \cup {q}
                 ELSE p.records = request[q].records
<1>1. stream \in [Streams -> Stream] /\ stream[s] \in Stream
  BY DEF Typed, StreamTyped
<1>2. stream[s].inbox \in Seq(Message) /\ stream[s].inbox # <<>> /\ stream[s].at = "serving"
  BY <1>1 DEF Stream, Consume, Serving
<1>3. /\ stream'[s] = [stream[s] EXCEPT !.inbox = Tail(@)]
      /\ \A t \in Streams \ {s} : stream'[t] = stream[t]
  BY <1>1 DEF Consume
<1>4. /\ stream'[s].at = "serving" /\ stream'[s].counter = stream[s].counter
      /\ stream'[s].inbox = Tail(stream[s].inbox)
  BY <1>1, <1>2, <1>3 DEF Stream
<1>5. /\ Len(stream[s].inbox) \in Nat \ {0}
      /\ Len(stream'[s].inbox) = Len(stream[s].inbox) - 1
      /\ \A n \in 1..Len(stream'[s].inbox) : stream'[s].inbox[n] = stream[s].inbox[n + 1]
  BY <1>2, <1>4, HeadTailProperties, EmptySeq
<1>6. PICK said \in Message : said = Head(stream[s].inbox) /\ said = stream[s].inbox[1]
  BY <1>2, HeadTailProperties
<1>7. ASSUME NEW from \in Requests, NEW kind \in {"evidence", "done"},
             said = [kind |-> kind, request |-> from]
      PROVE  request[from].stream = s
  <2>1. 1 \in 1..Len(stream[s].inbox)
    BY <1>5
  <2>2. AnswersAt(s, 1, from)
    BY <2>1 DEF Inv, Answers, AnswersOn
  <2> QED
    BY <1>6, <1>7, <2>2 DEF AnswersAt
<1>8. ASSUME NEW from \in Requests, NEW kind \in {"evidence", "done"},
             said = [kind |-> kind, request |-> from], NEW q \in Requests
      PROVE  q \in Asked(s, request[from].id) <=> q = from /\ request[q].pending
  <2>1. request[from].stream = s /\ s # NoStream
    BY <1>7, <1>8, Constants
  <2> QED
    BY <2>1 DEF Asked, Inv, Numbered
<1>9. ASSUME NEW q \in Requests
      PROVE  LET p == request'[q] IN
             /\ p.stream = request[q].stream /\ p.id = request[q].id
             /\ p.work = request[q].work /\ p.pending = request[q].pending
             /\ p.why = request[q].why /\ p.late = request[q].late
             /\ IF said = [kind |-> "done", request |-> q] /\ request[q].pending
                THEN p.at = "finished" ELSE p.at = request[q].at
             /\ IF said = [kind |-> "evidence", request |-> q] /\ request[q].pending
                THEN p.records = request[q].records \cup {q}
                ELSE p.records = request[q].records
  <2>1. LET p    == request'[q]
            mine == said.kind # "health" /\ q \in Asked(s, request[said.request].id)
        IN /\ p.stream = request[q].stream /\ p.id = request[q].id /\ p.work = request[q].work
           /\ p.pending = request[q].pending /\ p.why = request[q].why
           /\ p.late = request[q].late
           /\ p.at = IF mine /\ said.kind = "done" THEN "finished" ELSE request[q].at
           /\ p.records = IF mine /\ said.kind = "evidence"
                          THEN request[q].records \cup {said.request}
                          ELSE request[q].records
    BY <1>6, Consumed DEF Typed
  <2>2. CASE said.kind \in {"evidence", "done"} /\ said.request \in Requests
             /\ said = [kind |-> said.kind, request |-> said.request]
    <3>1. q \in Asked(s, request[said.request].id) <=> q = said.request /\ request[q].pending
      BY <1>8, <2>2
    <3>2. \A kind \in {"evidence", "done"} :
            said = [kind |-> kind, request |-> q] <=> said.kind = kind /\ said.request = q
      BY <2>2
    <3> QED
      BY <2>1, <2>2, <3>1, <3>2
  <2>3. CASE said.kind = "health"
    <3>1. /\ said # [kind |-> "done", request |-> q]
          /\ said # [kind |-> "evidence", request |-> q]
      BY <2>3
    <3> QED
      BY <2>1, <2>3, <3>1
  <2> QED
    BY <1>6, <2>2, <2>3 DEF Message, MessageKinds
<1> QED
  BY <1>2, <1>3, <1>4, <1>5, <1>6, <1>9

LEMMA ConsumeKeeps ==
  ASSUME Typed, Inv, NEW s \in Streams, Consume(s)
  PROVE  Inv'
<1>1. /\ \A t \in Streams : stream'[t].at = stream[t].at /\ stream'[t].counter = stream[t].counter
      /\ \A t \in Streams \ {s} : stream'[t] = stream[t]
      /\ Len(stream[s].inbox) \in Nat \ {0}
      /\ Len(stream'[s].inbox) = Len(stream[s].inbox) - 1
      /\ \A n \in 1..Len(stream'[s].inbox) : stream'[s].inbox[n] = stream[s].inbox[n + 1]
  BY ConsumedIs
<1>2. \A q \in Requests :
        /\ request'[q].stream = request[q].stream /\ request'[q].id = request[q].id
        /\ request'[q].work = request[q].work /\ request'[q].pending = request[q].pending
        /\ request'[q].why = request[q].why /\ request'[q].late = request[q].late
  BY ConsumedIs
<1> PICK said : said = stream[s].inbox[1]
  OBVIOUS
<1>3. \A q \in Requests :
        /\ IF said = [kind |-> "done", request |-> q] /\ request[q].pending
           THEN request'[q].at = "finished" ELSE request'[q].at = request[q].at
        /\ IF said = [kind |-> "evidence", request |-> q] /\ request[q].pending
           THEN request'[q].records = request[q].records \cup {q}
           ELSE request'[q].records = request[q].records
  BY ConsumedIs
<1>4. \A q \in Requests : request[q].stream # NoStream => request[q].stream \in Streams
  BY Constants DEF Typed, RequestTyped, Request
<1>5. \A q \in Requests : said = [kind |-> "done", request |-> q] /\ request[q].pending
                            => q \in request[q].records
  <2>1. ASSUME NEW q \in Requests, said = [kind |-> "done", request |-> q], request[q].pending
        PROVE  q \in request[q].records
    <3>1. 1 \in 1..Len(stream[s].inbox)
      BY <1>1
    <3>2. AnswersAt(s, 1, q)
      BY <3>1 DEF Inv, Answers, AnswersOn
    <3>3. RecordBefore(q, s, 1)
      BY <2>1, <3>2 DEF AnswersAt
    <3>4. \A k \in 1..Len(stream[s].inbox) : ~(k < 1)
      OBVIOUS
    <3> QED
      BY <3>3, <3>4 DEF RecordBefore
  <2> QED
    BY <2>1
<1>6. Numbered'
  <2>1. \A q \in Requests : request[q].stream # NoStream =>
          /\ stream'[request[q].stream].at = stream[request[q].stream].at
          /\ stream'[request[q].stream].counter = stream[request[q].stream].counter
    BY <1>1, <1>4
  <2>2. \A q \in Requests : request'[q].at = "unasked" <=> request[q].at = "unasked"
    BY <1>3 DEF Inv, Numbered
  <2> QED
    BY <1>2, <2>1, <2>2 DEF Inv, Numbered
<1>7. Accounted'
  <2>1. ASSUME NEW q \in Requests PROVE AccountedFor(q)'
    <3>1. Unexplained(q)' <=> Unexplained(q)
      BY <1>2 DEF Unexplained
    <3>2. AccountedFor(q)
      BY DEF Inv, Accounted
    <3>3. CASE request'[q].at = request[q].at
      BY <1>2, <1>3, <3>1, <3>2, <3>3 DEF AccountedFor
    <3>4. CASE said = [kind |-> "done", request |-> q] /\ request[q].pending
      <4>1. said # [kind |-> "evidence", request |-> q]
        BY <3>4
      <4>2. request'[q].at = "finished" /\ request'[q].records = request[q].records
        BY <1>3, <3>4, <4>1
      <4> QED
        BY <1>2, <1>5, <3>1, <3>2, <3>4, <4>2 DEF AccountedFor
    <3> QED
      BY <1>3, <3>3, <3>4
  <2> QED
    BY <2>1 DEF Accounted
(* What was unread before the nth message is unread before the one before. *)
<1>8. ASSUME NEW t \in Streams, NEW q \in Requests, NEW n \in Nat, request[q].pending,
             RecordBefore(q, t, n)
      PROVE  RecordBefore(q, t, IF t = s THEN n - 1 ELSE n)'
  <2>1. CASE q \in request'[q].records
    BY <2>1 DEF RecordBefore
  <2>2. CASE q \notin request'[q].records
    <3>1. q \notin request[q].records /\ said # [kind |-> "evidence", request |-> q]
      BY <1>3, <1>8, <2>2
    <3>2. PICK k \in 1..Len(stream[t].inbox) :
            k < n /\ stream[t].inbox[k] = [kind |-> "evidence", request |-> q]
      BY <1>8, <3>1 DEF RecordBefore
    <3>3. CASE t = s
      <4>1. k # 1
        BY <3>1, <3>2, <3>3
      <4>2. PICK j : j = k - 1
        OBVIOUS
      <4>3. j \in 1..Len(stream'[s].inbox) /\ j < n - 1 /\ j + 1 = k
        BY <1>1, <3>2, <3>3, <4>1, <4>2
      <4>4. stream'[s].inbox[j] = [kind |-> "evidence", request |-> q]
        BY <1>1, <3>2, <3>3, <4>3
      <4> QED
        BY <3>3, <4>3, <4>4 DEF RecordBefore
    <3>4. CASE t # s
      <4>1. stream'[t].inbox = stream[t].inbox
        BY <1>1, <3>4
      <4> QED
        BY <3>2, <3>4, <4>1 DEF RecordBefore
    <3> QED
      BY <3>3, <3>4
  <2> QED
    BY <2>1, <2>2
<1>9. Answers'
  <2>1. ASSUME NEW t \in Streams, t # s PROVE AnswersOn(t)'
    <3>1. stream'[t].inbox = stream[t].inbox
      BY <1>1, <2>1
    <3>2. ASSUME NEW n \in 1..Len(stream[t].inbox), NEW q \in Requests
          PROVE  AnswersAt(t, n, q)'
      <4>1. AnswersAt(t, n, q) /\ n \in Nat
        BY DEF Inv, Answers, AnswersOn
      <4>2. request[q].pending /\ RecordBefore(q, t, n) => RecordBefore(q, t, n)'
        BY <1>8, <2>1, <4>1
      <4> QED
        BY <1>2, <3>1, <4>1, <4>2 DEF AnswersAt
    <3> QED
      BY <3>1, <3>2 DEF AnswersOn
  <2>2. ASSUME NEW n \in 1..Len(stream'[s].inbox), NEW q \in Requests
        PROVE  AnswersAt(s, n, q)'
    <3>1. PICK m \in 1..Len(stream[s].inbox) :
            m = n + 1 /\ m \in Nat /\ m - 1 = n /\ stream'[s].inbox[n] = stream[s].inbox[m]
      <4>1. n + 1 \in 1..Len(stream[s].inbox) /\ n + 1 \in Nat /\ (n + 1) - 1 = n
        BY <1>1
      <4>2. stream'[s].inbox[n] = stream[s].inbox[n + 1]
        BY <1>1
      <4> QED
        BY <4>1, <4>2
    <3>2. AnswersAt(s, m, q)
      BY DEF Inv, Answers, AnswersOn
    <3>3. request[q].pending /\ RecordBefore(q, s, m) => RecordBefore(q, s, n)'
      BY <1>8, <3>1
    <3> QED
      BY <1>2, <3>1, <3>2, <3>3 DEF AnswersAt
  <2>3. AnswersOn(s)'
    BY <2>2 DEF AnswersOn
  <2> QED
    BY <2>1, <2>3 DEF Answers
<1>10. RecordSent'
  <2>1. ASSUME NEW q \in Requests, NEW t \in Streams, t = request[q].stream,
               request[q].work = "recorded", request[q].pending, stream[t].at = "serving"
        PROVE  RecordBefore(q, t, Len(stream[t].inbox) + 1)'
    <3>1. PICK n \in Nat : n = Len(stream[t].inbox) + 1
      <4>1. Len(stream[t].inbox) \in Nat
        BY DEF Typed, StreamTyped, Stream
      <4> QED
        BY <4>1
    <3>2. RecordBefore(q, t, n)
      BY <2>1, <3>1 DEF Inv, RecordSent
    <3>3. RecordBefore(q, t, IF t = s THEN n - 1 ELSE n)'
      BY <1>8, <2>1, <3>2
    <3>4. (IF t = s THEN n - 1 ELSE n) = Len(stream'[t].inbox) + 1
      BY <1>1, <3>1
    <3> QED
      BY <3>3, <3>4 DEF RecordBefore
  <2>2. \A q \in Requests : request[q].work = "recorded" => request[q].stream \in Streams
    BY DEF Typed, Made
  <2> QED
    BY <1>1, <1>2, <2>1, <2>2 DEF RecordSent
<1>11. EndReleasesRequests'
  <2>1. ASSUME NEW q \in Requests, request'[q].at = "waiting",
               stream'[request[q].stream].at = "ended"
        PROVE  request[q].late
    <3>1. request[q].at = "waiting"
      BY <1>3, <2>1
    <3>2. request[q].stream \in Streams
      BY <1>4, <3>1 DEF Inv, Numbered
    <3> QED
      BY <1>1, <2>1, <3>1, <3>2 DEF Inv, EndReleasesRequests
  <2> QED
    BY <1>2, <2>1 DEF EndReleasesRequests
<1> QED
  BY <1>6, <1>7, <1>9, <1>10, <1>11 DEF Inv

LEMMA InvStep ==
  ASSUME Typed, Inv, [Next]_vars
  PROVE  Inv'
<1>1. ASSUME UNCHANGED <<stream, request>> PROVE Inv'
  BY <1>1, StandsStill, MovingKeeps
<1>2. CASE UNCHANGED vars
  BY <1>1, <1>2 DEF vars
<1>3. ASSUME \/ \E x \in Refreshers : Refreshing(x)
             \/ \E c \in Certificates : Revoke(c)
             \/ Leave \/ Renew \/ Lapse \/ FlushRedis
      PROVE  Inv'
  BY <1>1, <1>3 DEF Refreshing, ReadRevoked, CacheRevoked, Revoke, Leave, Renew, Lapse, FlushRedis
<1>4. CASE Next
  BY <1>3, <1>4, BeginKeeps, EndKeeps, RevokingKeeps, DeathKeeps, ReturningKeeps, CollectKeeps,
     ServeKeeps, ReplyKeeps, ConsumeKeeps DEF Next
<1> QED
  BY <1>2, <1>4

(* A call over an agent's stream is answered by its own record, is not     *)
(* over without it unless it says why, and does not outwait its stream,    *)
(* although numbers begin again with every stream, answers arrive late,    *)
(* streams replace each other, workers die and certificates are revoked.   *)
THEOREM CallsAreAnswered == Spec => []CallsEndWell
<1>1. Init => Typed /\ Inv
  BY Initially, InvInitially
<1>2. (Typed /\ Inv) /\ [Next]_vars => (Typed /\ Inv)'
  BY StaysTyped, InvStep
<1>3. Inv => CallsEndWell
  BY DEF Inv, Accounted, AccountedFor, Unexplained, CallsEndWell, AnsweredByItsOwn
<1> QED
  BY <1>1, <1>2, <1>3, PTL DEF Spec

=============================================================================
