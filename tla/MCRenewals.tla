----------------------------- MODULE MCRenewals -----------------------------
(* Four things that run out, break off or move while they are in use: the  *)
(* lease of a running investigation (LeaseClock), the certificate of an    *)
(* agent (AgentIdentity), the stream of an agent, under the calls that are *)
(* made over it (AgentGateway), and the way there (Route).  They share     *)
(* nothing here, so each behaviour is one of one of them.                  *)
EXTENDS LeaseClock, TLC

CONSTANTS
  Life, Backdate, Serials, Tokens, Kinds, MaxRevoked, MaxFaults,   \* of AgentIdentity
  Gateways, Requests, NoGateway, MaxStreams, MaxCertificates,   \* of AgentGateway
  Workers, Nobody, MaxMoves, MaxFailed, MaxTries   \* of Route

VARIABLES
  part,   \* whose behaviour it is
  kind, pc, held, next, checked, disk, call, left, ledger, cached, flag,
  answers, faults, revocations, calm, bought, slips,   \* of AgentIdentity
  opened, stream, agent, certificate, revoked, cache, refresh, registry,
  presence, request, overtaken, losses,   \* of AgentGateway
  gateways, shared, named, sessions, record, valid, banned, at, here, pinned,
  holder, unread, since, seen, still, moves, failed, tries   \* of Route

Agent == INSTANCE AgentIdentity

Symmetry == Permutations(Requests)

(* One worker, two streams, two calls whose ids may be the same; the agent *)
(* renews its certificate when the calls are over, which its streams do    *)
(* not depend on.                                                          *)
Calls == INSTANCE AgentGateway WITH faults <- losses, MaxRevoked <- 0, MaxFaults <- 0

(* Two workers that may share presence, and may both have a gateway.       *)
Routing == INSTANCE Route WITH revoked <- banned, quiet <- still

ASSUME RenewalsAssumption ==
  Agent!AgentAssumption /\ Calls!GatewayAssumption /\ Routing!RouteAssumption

agentVars == <<kind, pc, held, next, checked, disk, call, left, ledger, cached,
               flag, answers, faults, revocations, calm, bought, slips>>

callVars == <<opened, stream, agent, certificate, revoked, cache, refresh,
              registry, presence, request, overtaken, losses>>

routeVars == <<gateways, shared, named, sessions, record, valid, banned, at, here,
               pinned, holder, unread, since, seen, still, moves, failed, tries>>

(* Those that do not run stay in one of their initial states.              *)
MCInit ==
  /\ part \in {"lease", "certificate", "calls", "route"}
  /\ Init /\ Agent!Init /\ Calls!Init /\ Routing!Init
  /\ part # "lease" => reaper.slept = 0 /\ reaper.answering = None
  /\ part # "certificate" => kind = CHOOSE k \in Kinds : TRUE
  /\ part # "route" => gateways = Workers /\ shared /\ named

OfLease ==
  part = "lease" /\ Next /\ UNCHANGED <<part, agentVars, callVars, routeVars>>
OfCertificate ==
  part = "certificate" /\ Agent!Next /\ UNCHANGED <<part, vars, callVars, routeVars>>
OfCalls ==
  /\ part = "calls" /\ Calls!Next /\ UNCHANGED <<part, vars, agentVars, routeVars>>
  /\ certificate' # certificate => \A r \in Requests : request[r].at \in {"returned", "lost"}
OfRoute ==
  part = "route" /\ Routing!Next /\ UNCHANGED <<part, vars, agentVars, callVars>>

MCNext == OfLease \/ OfCertificate \/ OfCalls \/ OfRoute

MCvars == <<part, vars, agentVars, callVars, routeVars>>

MCSpec == MCInit /\ [][MCNext]_MCvars

(* A token spent by gateway/identity.py buys one certificate; what an      *)
(* agent holds is in the ledger revocation works on, one that keeps it in  *)
(* a Secret resumes with it, and one that is revoked is renewed once at    *)
(* most.                                                                   *)
IdentityHolds == Agent!IdentityHolds

(* A call over an agent's stream is answered by its own records, and is    *)
(* released when the stream ends.                                          *)
CallsEndWell == Calls!CallsEndWell

(* An investigation of a cluster reads it through its agent where one is   *)
(* known, and stops short of one for a reason only.                        *)
RoutesSoundly == Routing!RoutesSoundly

(* A certificate runs out only if its last check went wrong.               *)
ExpiresOnlyInTrouble == Agent!ExpiresOnlyInTrouble
=============================================================================
