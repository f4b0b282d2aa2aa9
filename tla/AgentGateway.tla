---------------------------- MODULE AgentGateway ----------------------------
(***************************************************************************)
(* The agent of one cluster and the workers that run a gateway: streams    *)
(* that are opened, identified, registered, replaced and ended             *)
(* (gateway/server.py, gateway/session.py), the requests that share a      *)
(* stream, the revocation sweep (gateway/identity.py) and the presence     *)
(* record that says which worker to route to (gateway/presence.py).        *)
(*                                                                         *)
(* A handler runs on the event loop of its worker from one await to the    *)
(* next; what it gives to a thread is a step of its own.  The agent leaves *)
(* a stream without the worker noticing, and what it had sent may still    *)
(* arrive.                                                                 *)
(***************************************************************************)
EXTENDS Naturals, Sequences, SequencesExt

CONSTANTS
  Gateways,         \* workers that run a gateway
  Requests,         \* calls of session.collect
  NoGateway,
  MaxStreams,       \* bound: how often the agent connects
  MaxCertificates,  \* bound: how often the agent is enrolled or renewed
  MaxRevoked,       \* bound: how many of its certificates are revoked
  MaxFaults         \* bound: workers that die and records that Redis loses

ASSUME GatewayAssumption ==
  /\ NoGateway \notin Gateways
  /\ MaxStreams \in Nat /\ MaxCertificates \in Nat \ {0}
  /\ MaxRevoked \in Nat /\ MaxFaults \in Nat

VARIABLES
  opened,       \* streams are numbered as the agent opens them
  stream,       \* each stream, as its worker sees it
  agent,        \* the stream the agent is on
  certificate,  \* the certificate the agent would open the next one with
  revoked,      \* the serials the enrolment store has as revoked
  cache,        \* AgentIdentityService._revoked of each worker
  refresh,      \* calls of refresh_revocations, by a connect or by a sweep
  registry,     \* AgentRegistry._sessions of each worker
  presence,     \* the worker the presence record names
  request,      \* PendingCollection, and how far the agent is with it
  overtaken,    \* history: a stream was registered after a younger one
  faults        \* bounded by MaxFaults

identity == <<certificate, revoked, cache, refresh>>
vars == <<opened, stream, agent, identity, registry, presence, request,
          overtaken, faults>>

Streams      == 1..MaxStreams
NoStream     == 0
Certificates == 1..MaxCertificates

MessageKinds   == {"evidence", "done", "health"}
Message == [kind : MessageKinds, request : Requests] \cup [kind : {"health"}]

Stream == [at : {"unopened", "identifying", "greeting", "serving", "over",
                 "ended", "gone"},
           on : Gateways \cup {NoGateway}, serial : 0..MaxCertificates,
           inbox : Seq(Message), closed : BOOLEAN, counter : Nat]

(* A sweep that waits for its interval is asked.                           *)
Refresh == [at : {"idle", "asked", "read", "cached"},
            serials : SUBSET Certificates]

(* records: the requests whose evidence it was given; work: where the      *)
(* agent is with it; late: it was asked on a session that was over.        *)
Request == [at : {"unasked", "waiting", "finished", "returned", "lost"},
            stream : 0..MaxStreams, id : Nat, pending : BOOLEAN,
            why : {"", "timeout", "replaced", "disconnected", "revoked"},
            records : SUBSET Requests, late : BOOLEAN,
            work : {"none", "queued", "recorded", "sent"}]

On(s) == stream[s].on
Serving(s) == stream[s].at = "serving"

(* _sessions of its worker has s.                                          *)
Listed(s) == On(s) # NoGateway /\ registry[On(s)] = s

(* The agent is on s and would answer what comes down it.                  *)
Answering(s) == Serving(s) /\ agent = s

(* Which worker's cache a refresh fills: a connect's or a sweep's.         *)
Refreshers == Streams \cup Gateways
WorkerOf(x) == IF x \in Gateways THEN x ELSE On(x)
Unrefreshed(x) ==
  [at |-> IF x \in Gateways THEN "asked" ELSE "idle", serials |-> {}]

----------------------------------------------------------------------------

(* What session.cancel_all makes of the requests pending on s.             *)
CancelAll(reqs, s, reason) ==
  [r \in Requests |->
     IF reqs[r].pending /\ reqs[r].stream = s
     THEN [reqs[r] EXCEPT !.at = "finished", !.pending = FALSE, !.why = reason]
     ELSE reqs[r]]

(* Faulty: one table of pending requests for all sessions of a cluster.    *)
AskedOfCluster(s, id) ==
  {r \in Requests : request[r].pending /\ request[r].id = id}

(* _pending.get: the request of session s that has this id.                *)
Asked(s, id) ==
  {r \in Requests : request[r].pending /\ request[r].stream = s
                                       /\ request[r].id = id}

----------------------------------------------------------------------------
(* Connecting.                                                             *)

(* Client.Run: the agent dials whichever worker it is balanced to.         *)
Open(g) ==
  /\ agent = NoStream
  /\ opened < MaxStreams
  /\ opened' = opened + 1
  /\ agent' = opened + 1
  /\ stream' = [stream EXCEPT ![opened + 1] =
       [@ EXCEPT !.at = "identifying", !.on = g, !.serial = certificate]]
  /\ refresh' = [refresh EXCEPT ![opened + 1].at = "asked"]
  /\ UNCHANGED <<certificate, revoked, cache, registry, presence, request,
                 overtaken, faults>>

(* The agent loses the stream, or restarts, and will dial again.           *)
Leave ==
  /\ agent # NoStream
  /\ agent' = NoStream
  /\ UNCHANGED <<opened, stream, identity, registry, presence, request,
                 overtaken, faults>>

(* refresh_revocations, in a thread: reads the store ...                   *)
ReadRevoked(x) ==
  /\ refresh[x].at = "asked"
  /\ refresh' = [refresh EXCEPT ![x] = [at |-> "read", serials |-> revoked]]
  /\ UNCHANGED <<opened, stream, agent, certificate, revoked, cache, registry,
                 presence, request, overtaken, faults>>

(* ... and replaces the cache, whatever another refresh put there.         *)
CacheRevoked(x) ==
  /\ refresh[x].at = "read"
  /\ cache' = [cache EXCEPT ![WorkerOf(x)] = refresh[x].serials]
  /\ refresh' = [refresh EXCEPT ![x].at = "cached"]
  /\ UNCHANGED <<opened, stream, agent, certificate, revoked, registry, presence,
                 request, overtaken, faults>>

(* resolve: a certificate that the cache has as revoked is refused.        *)
Resolve(s) ==
  /\ stream[s].at = "identifying"
  /\ refresh[s].at = "cached"
  /\ refresh' = [refresh EXCEPT ![s] = Unrefreshed(s)]
  /\ IF stream[s].serial \in cache[On(s)]
     THEN /\ stream' = [stream EXCEPT ![s].at = "gone"]
          /\ agent' = IF agent = s THEN NoStream ELSE agent
     ELSE /\ stream' = [stream EXCEPT ![s].at = "greeting"]
          /\ UNCHANGED agent
  /\ UNCHANGED <<opened, certificate, revoked, cache, registry, presence, request,
                 overtaken, faults>>

(* hello, which the agent sent as it dialled: register and announce.       *)
Register(s) ==
  LET g == On(s) IN
  /\ stream[s].at = "greeting"
  /\ stream' = [stream EXCEPT ![s].at = "serving"]
  /\ request' = CancelAll(request, registry[g], "replaced")
  /\ registry' = [registry EXCEPT ![g] = s]
  /\ presence' = g
  /\ overtaken' = (overtaken \/ registry[g] > s)
  /\ UNCHANGED <<opened, agent, identity, faults>>

----------------------------------------------------------------------------
(* Serving.                                                                *)

(* session.collect, on the session a provider was built with, which may    *)
(* have been replaced or have ended since.                                 *)
Collect(r, s) ==
  LET id == stream[s].counter + 1 IN
  /\ request[r].at = "unasked"
  /\ stream[s].at \in {"serving", "over", "ended"}
  /\ stream' = [stream EXCEPT ![s].counter = id]
  /\ request' = [request EXCEPT ![r] =
       [@ EXCEPT !.at = "waiting", !.stream = s, !.id = id, !.pending = TRUE,
                 !.late = stream[s].at = "ended", !.work = "queued"]]
  /\ UNCHANGED <<opened, agent, identity, registry, presence, overtaken, faults>>

(* The agent, on a stream that is still up: takes a request off it and     *)
(* sends the record, and then that it is done.                             *)
Work(r, from, to, message) ==
  LET s == request[r].stream IN
  /\ request[r].work = from
  /\ Answering(s)
  /\ request' = [request EXCEPT ![r].work = to]
  /\ stream' = [stream EXCEPT ![s].inbox = Append(@, message)]
  /\ UNCHANGED <<opened, agent, identity, registry, presence, overtaken, faults>>

SendRecord(r) ==
  Work(r, "queued", "recorded", [kind |-> "evidence", request |-> r])
SendDone(r)   == Work(r, "recorded", "sent", [kind |-> "done", request |-> r])

(* The agent answers a heartbeat (bound: one answer at a time is unread).   *)
Reply(s) ==
  /\ Answering(s)
  /\ [kind |-> "health"] \notin ToSet(stream[s].inbox)
  /\ stream' = [stream EXCEPT ![s].inbox = Append(@, [kind |-> "health"])]
  /\ UNCHANGED <<opened, agent, identity, registry, presence, request, overtaken,
                 faults>>

(* on_evidence: a request that is not pending gets nothing.                *)
OnEvidence(s, from) ==
  /\ request' = [r \in Requests |->
       IF r \in Asked(s, request[from].id)
       THEN [request[r] EXCEPT !.records = @ \cup {from}] ELSE request[r]]
  /\ UNCHANGED presence

(* on_done: the waiting call is woken, and stays pending until it runs.    *)
OnDone(s, from) ==
  /\ request' = [r \in Requests |->
       IF r \in Asked(s, request[from].id)
       THEN [request[r] EXCEPT !.at = "finished"] ELSE request[r]]
  /\ UNCHANGED presence

(* health: the session is announced once more.                             *)
OnHealth(s) == presence' = On(s) /\ UNCHANGED request

(* _consume reads the next message.                                        *)
Consume(s) ==
  LET message == Head(stream[s].inbox) IN
  /\ Serving(s)
  /\ stream[s].inbox # <<>>
  /\ stream' = [stream EXCEPT ![s].inbox = Tail(@)]
  /\ \/ message.kind = "evidence" /\ OnEvidence(s, message.request)
     \/ message.kind = "done" /\ OnDone(s, message.request)
     \/ message.kind = "health" /\ OnHealth(s)
  /\ UNCHANGED <<opened, agent, identity, registry, overtaken, faults>>

(* The call wakes up with what it was given ...                            *)
Return(r) ==
  /\ request[r].at = "finished"
  /\ request' = [request EXCEPT ![r].at = "returned", ![r].pending = FALSE]
  /\ UNCHANGED <<opened, stream, agent, identity, registry, presence, overtaken,
                 faults>>

(* ... or because the deadline passed.                                     *)
Timeout(r) ==
  /\ request[r].at = "waiting"
  /\ request' = [request EXCEPT ![r].at = "returned", ![r].pending = FALSE,
                                ![r].why = "timeout"]
  /\ UNCHANGED <<opened, stream, agent, identity, registry, presence, overtaken,
                 faults>>

----------------------------------------------------------------------------
(* Ending.                                                                 *)

(* The worker notices that the agent is gone; unread messages are lost.    *)
EndOfStream(s) ==
  /\ agent # s
  /\ stream[s].at \in {"greeting", "serving"}
  /\ stream' = [stream EXCEPT
       ![s].at = IF @ = "serving" THEN "over" ELSE "gone", ![s].inbox = <<>>]
  /\ UNCHANGED <<opened, agent, identity, registry, presence, request, overtaken,
                 faults>>

(* Faulty: the entry goes, whichever session it names.                     *)
UnlistedAnyway(s) == [registry EXCEPT ![On(s)] = NoStream]

(* The entry goes only if it is this session's ...                         *)
Unlisted(s) == [registry EXCEPT ![On(s)] = IF @ = s THEN NoStream ELSE @]

(* ... and the presence record goes in any case.                           *)
Withdraw == presence' = NoGateway

(* Connect's finally, after the end of the stream or a revocation.         *)
Unregister(s) ==
  /\ stream[s].at = "over" \/ (Serving(s) /\ stream[s].closed)
  /\ stream' = [stream EXCEPT ![s].at = "ended", ![s].inbox = <<>>]
  /\ registry' = Unlisted(s)
  /\ request' = CancelAll(request, s, "disconnected")
  /\ Withdraw
  /\ agent' = IF agent = s THEN NoStream ELSE agent
  /\ UNCHANGED <<opened, identity, overtaken, faults>>

(* Faulty: the session's calls are cancelled, its stream stays.            *)
CancelRevoked(g) ==
  LET s == registry[g] IN
  /\ refresh[g].at = "cached"
  /\ refresh' = [refresh EXCEPT ![g] = Unrefreshed(g)]
  /\ request' = IF s # NoStream /\ stream[s].serial \in refresh[g].serials
                THEN CancelAll(request, s, "revoked") ELSE request
  /\ UNCHANGED <<opened, stream, agent, certificate, revoked, cache, registry,
                 presence, overtaken, faults>>

(* _sweep_revocations, when its refresh is done: terminate_revoked ends    *)
(* the session that is registered.                                         *)
TerminateRevoked(g) ==
  LET s == registry[g] IN
  /\ refresh[g].at = "cached"
  /\ refresh' = [refresh EXCEPT ![g] = Unrefreshed(g)]
  /\ IF s # NoStream /\ stream[s].serial \in refresh[g].serials
     THEN /\ stream' = [stream EXCEPT ![s].closed = TRUE]
          /\ request' = CancelAll(request, s, "revoked")
     ELSE UNCHANGED <<stream, request>>
  /\ UNCHANGED <<opened, agent, certificate, revoked, cache, registry, presence,
                 overtaken, faults>>

----------------------------------------------------------------------------
(* Surroundings.                                                           *)

(* The agent renews or is enrolled anew; its stream stays as it is.        *)
Renew ==
  /\ certificate < MaxCertificates
  /\ certificate' = certificate + 1
  /\ UNCHANGED <<opened, stream, agent, revoked, cache, refresh, registry,
                 presence, request, overtaken, faults>>

(* An operator revokes a certificate that was issued.                      *)
Revoke(c) ==
  /\ c <= certificate
  /\ c \notin revoked
  /\ Cardinality(revoked) < MaxRevoked
  /\ revoked' = revoked \cup {c}
  /\ UNCHANGED <<opened, stream, agent, certificate, cache, refresh, registry,
                 presence, request, overtaken, faults>>

(* The record's time to live is three heartbeats: it runs out when nobody  *)
(* answers heartbeats on the worker it names.                              *)
Lapse ==
  /\ presence # NoGateway
  /\ \A s \in Streams : Answering(s) => On(s) # presence
  /\ presence' = NoGateway
  /\ UNCHANGED <<opened, stream, agent, identity, registry, request, overtaken,
                 faults>>

FlushRedis ==
  /\ presence # NoGateway
  /\ faults < MaxFaults
  /\ faults' = faults + 1
  /\ presence' = NoGateway
  /\ UNCHANGED <<opened, stream, agent, identity, registry, request, overtaken>>

(* A worker dies and comes back, with nothing but what the store and Redis *)
(* have; the calls it served end with it.                                  *)
Die(g) ==
  LET Here(s) == s # NoStream /\ On(s) = g IN
  /\ faults < MaxFaults
  /\ faults' = faults + 1
  /\ stream' = [s \in Streams |->
       IF Here(s) THEN [stream[s] EXCEPT !.at = "gone", !.inbox = <<>>]
                  ELSE stream[s]]
  /\ agent' = IF Here(agent) THEN NoStream ELSE agent
  /\ request' = [r \in Requests |->
       IF Here(request[r].stream)
       THEN [request[r] EXCEPT !.at = "lost", !.pending = FALSE] ELSE request[r]]
  /\ registry' = [registry EXCEPT ![g] = NoStream]
  /\ cache' = [cache EXCEPT ![g] = revoked]
  /\ refresh' = [x \in Refreshers |->
       IF WorkerOf(x) = g THEN Unrefreshed(x) ELSE refresh[x]]
  /\ UNCHANGED <<opened, certificate, revoked, presence, overtaken>>

----------------------------------------------------------------------------
Init ==
  /\ opened = 0
  /\ stream = [s \in Streams |->
       [at |-> "unopened", on |-> NoGateway, serial |-> 0, inbox |-> <<>>,
        closed |-> FALSE, counter |-> 0]]
  /\ agent = NoStream
  /\ certificate = 1
  /\ revoked = {}
  /\ cache = [g \in Gateways |-> {}]
  /\ refresh = [x \in Refreshers |-> Unrefreshed(x)]
  /\ registry = [g \in Gateways |-> NoStream]
  /\ presence = NoGateway
  /\ request = [r \in Requests |->
       [at |-> "unasked", stream |-> NoStream, id |-> 0, pending |-> FALSE,
        why |-> "", records |-> {}, late |-> FALSE, work |-> "none"]]
  /\ overtaken = FALSE
  /\ faults = 0

Refreshing(x) == ReadRevoked(x) \/ CacheRevoked(x)
Serve(r)      == SendRecord(r) \/ SendDone(r)

Next ==
  \/ \E g \in Gateways : Open(g) \/ TerminateRevoked(g) \/ Die(g)
  \/ \E x \in Refreshers : Refreshing(x)
  \/ \E s \in Streams : \/ Resolve(s) \/ Register(s) \/ Reply(s) \/ Consume(s)
                        \/ EndOfStream(s) \/ Unregister(s)
                        \/ \E r \in Requests : Collect(r, s)
  \/ \E r \in Requests : Serve(r) \/ Return(r) \/ Timeout(r)
  \/ \E c \in Certificates : Revoke(c)
  \/ Leave \/ Renew \/ Lapse \/ FlushRedis

Spec == Init /\ [][Next]_vars

(* Handlers run, threads end, the sweeper keeps its interval and an agent  *)
(* that is on a stream answers heartbeats.  Nobody is obliged to notice    *)
(* that an agent is gone.                                                  *)
Fairness ==
  /\ \A s \in Streams : WF_vars(Reply(s)) /\ WF_vars(Consume(s))
                        /\ WF_vars(Unregister(s))
  /\ \A g \in Gateways : WF_vars(Refreshing(g) \/ TerminateRevoked(g))

FairSpec == Spec /\ Fairness

----------------------------------------------------------------------------
TypeOK ==
  /\ opened \in 0..MaxStreams
  /\ stream \in [Streams -> Stream]
  /\ agent \in 0..MaxStreams
  /\ certificate \in Certificates
  /\ revoked \subseteq Certificates
  /\ cache \in [Gateways -> SUBSET Certificates]
  /\ refresh \in [Refreshers -> Refresh]
  /\ registry \in [Gateways -> 0..MaxStreams]
  /\ presence \in Gateways \cup {NoGateway}
  /\ request \in [Requests -> Request]
  /\ overtaken \in BOOLEAN
  /\ faults \in 0..MaxFaults

(* What a call returns was collected for it, although the ids of requests  *)
(* begin again with every session, answers arrive after their deadline and *)
(* sessions replace each other; and a call that was not cut short has it   *)
(* all ("attributing it to another request would corrupt an unrelated      *)
(* investigation", session.py).                                            *)
AnsweredByItsOwn ==
  \A r \in Requests :
    /\ request[r].records \subseteq {r}
    /\ request[r].at = "returned" /\ request[r].why = "" => request[r].records = {r}

(* A stream that ends or is replaced leaves no call behind to sit out its  *)
(* deadline, unless it was made on the session after that.                 *)
EndReleasesRequests ==
  \A r \in Requests :
    request[r].at = "waiting" /\ stream[request[r].stream].at = "ended"
      => request[r].late

(* A call ends with what was collected for it, or when its stream does.    *)
CallsEndWell == AnsweredByItsOwn /\ EndReleasesRequests

(* An agent that stays connected is found: its worker's registry and the   *)
(* presence record come to name it and keep naming it, although older      *)
(* streams end, withdraw its record and still announce themselves, and     *)
(* Redis forgets; provided streams are registered in the order in which    *)
(* the agent opened them.                                                  *)
AgentIsFound ==
  \A s \in Streams :
    <>[]Answering(s)
      => <>[](overtaken \/ (Listed(s) /\ presence = On(s)))

(* "A gateway sweep ends live sessions whose serial was revoked": also one *)
(* that was identified before the revocation and registered after it, or   *)
(* while another refresh put back an older list.                           *)
RevokedSessionEnds ==
  \A s \in Streams :
    Serving(s) /\ Listed(s) /\ stream[s].serial \in revoked
      ~> ~(Serving(s) /\ Listed(s))
=============================================================================
