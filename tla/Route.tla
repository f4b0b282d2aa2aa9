------------------------------- MODULE Route -------------------------------
(***************************************************************************)
(* How an investigation of a named cluster finds its way there: the queue  *)
(* it is put on (jobs/runner.py, agent_affinity), the choice between the   *)
(* cluster's agent and the platform's kubeconfig                           *)
(* (services/investigation_service.py, select_provider), and what the      *)
(* runner makes of a refusal (_run_when_reachable).                        *)
(*                                                                         *)
(* The choice is made of reads, of the worker's registry, the presence     *)
(* record, the certificates twice and the kubeconfig, any of which may     *)
(* fail and between which agents come and go (AgentGateway says how; here  *)
(* they do so in any order).  A context of the kubeconfig that bears the   *)
(* cluster's name may be another cluster.                                  *)
(***************************************************************************)
EXTENDS Naturals, FiniteSets

CONSTANTS
  Workers,
  Nobody,
  MaxMoves,   \* bound: how often something changes in the fleet
  MaxFailed,  \* bound: how many reads fail
  MaxTries    \* bound: how often the runner selects again

RouteAssumption ==
  /\ Workers # {} /\ Nobody \notin Workers
  /\ MaxMoves \in Nat /\ MaxFailed \in Nat /\ MaxTries \in Nat

VARIABLES
  gateways,  \* the workers with a gateway (agent_gateway_enabled)
  shared,    \* are presence and enrolment shared (install_fleet_index)?
  named,     \* is there a context of this name?
  sessions,  \* the workers whose registry lists the cluster's agent
  record,    \* the worker the presence record names
  valid,     \* the cluster has a certificate that is neither revoked nor expired
  revoked,   \* it has a revoked one
  at,        \* how far the investigation is
  here,      \* the worker that runs it
  pinned,    \* the worker it is queued for
  holder,    \* the worker AgentElsewhere names
  unread,    \* the reads of this selection that failed
  since,     \* history: what held throughout this selection
  seen,      \* history: what held at some moment of it
  quiet,     \* history: since the job was queued, and in choosing for whom,
             \* nothing has changed and no read of the record has failed
  moves, failed, tries

setup == <<gateways, shared, named>>
fleet == <<sessions, record, valid, revoked>>
told  == <<unread, since, seen, quiet>>
vars  == <<setup, fleet, at, here, pinned, holder, told, moves, failed, tries>>

----------------------------------------------------------------------------
(* Without shared state there is one process, which runs what it accepts.  *)
Fleet == IF shared THEN Workers ELSE {CHOOSE w \in Workers : TRUE}

(* What may be the case of the fleet.                                      *)

Held         == record \notin {here, Nobody}     \* it names another worker
OutOfService == revoked /\ ~valid                \* taken out by its operator
ByAgentOnly  == valid /\ ~named                  \* no kubeconfig to fall back on
Settled      == record # Nobody /\ sessions = {record}

Facts == {"held", "out", "agent only", "settled"}
Holding == {f \in Facts : \/ f = "held" /\ Held
                          \/ f = "out" /\ OutOfService
                          \/ f = "agent only" /\ ByAgentOnly
                          \/ f = "settled" /\ Settled}

(* Where an agent can exist at all.                                        *)
Asks == here \in gateways \/ shared

Init ==
  /\ shared \in BOOLEAN /\ named \in BOOLEAN /\ gateways \in SUBSET Fleet
  /\ sessions = {} /\ record = Nobody
  /\ valid = FALSE /\ revoked = FALSE
  /\ at = "new" /\ here = Nobody /\ pinned = Nobody /\ holder = Nobody
  /\ unread = {} /\ since = {} /\ seen = {} /\ quiet = TRUE
  /\ moves = 0 /\ failed = 0 /\ tries = 0

----------------------------------------------------------------------------
(* The fleet, as AgentGateway and AgentIdentity have it.                   *)

Moves ==
  /\ moves < MaxMoves /\ moves' = moves + 1
  /\ UNCHANGED <<setup, at, here, pinned, holder, unread, failed, tries>>
  /\ since' = since \cap Holding' /\ seen' = seen \cup Holding'
  /\ quiet' = FALSE

(* An agent registers or answers a heartbeat, and is announced; the error  *)
(* of an announcement is swallowed.  Over plaintext it needs no            *)
(* certificate.                                                            *)
Announced(w) == record' \in IF shared THEN {record, w} ELSE {record}

Attach(w) ==
  /\ w \in gateways
  /\ sessions' = sessions \cup {w} /\ Announced(w)
  /\ UNCHANGED <<valid, revoked>>
  /\ Moves

(* A stream ends: the record goes with it whomever it names, unless Redis  *)
(* does not answer or the worker died.                                     *)
Detach(w) ==
  /\ w \in sessions
  /\ sessions' = sessions \ {w} /\ record' \in {record, Nobody}
  /\ UNCHANGED <<valid, revoked>>
  /\ Moves

(* The record expires, or Redis loses it.                                  *)
Forget ==
  /\ record # Nobody /\ record' = Nobody
  /\ UNCHANGED <<sessions, valid, revoked>>
  /\ Moves

Enrol ==
  /\ valid' = TRUE
  /\ UNCHANGED <<sessions, record, revoked>>
  /\ Moves

(* One serial of the cluster, or all of them.                              *)
Revoke ==
  /\ valid /\ revoked' = TRUE /\ valid' \in BOOLEAN
  /\ UNCHANGED <<sessions, record>>
  /\ Moves

Expire ==
  /\ valid /\ valid' = FALSE
  /\ UNCHANGED <<sessions, record, revoked>>
  /\ Moves

----------------------------------------------------------------------------
(* Queued.                                                                 *)

(* AgentPresence.holder: the worker the record names, unless it is the one *)
(* that asks.                                                              *)
HolderFor(w) == IF record = w THEN Nobody ELSE record

(* Faulty: the registry is not asked, so that the worker that has the      *)
(* stream pins nothing.                                                    *)
AffinityByRecord(w) == HolderFor(w)

(* agent_affinity: the registry first, as in select_provider.              *)
Affinity(w) ==
  IF ~shared THEN Nobody ELSE IF w \in sessions THEN w ELSE HolderFor(w)

Submit(w) ==
  /\ at = "new" /\ at' = "queued"
  /\ pinned' = Affinity(w) /\ quiet' = TRUE
  /\ UNCHANGED <<setup, fleet, here, holder, unread, since, seen, moves, failed, tries>>

(* A record that cannot be read pins nothing.                              *)
SubmitUnread(w) ==
  /\ at = "new" /\ at' = "queued"
  /\ shared /\ w \notin sessions
  /\ pinned' = Nobody /\ quiet' = FALSE
  /\ failed < MaxFailed /\ failed' = failed + 1
  /\ UNCHANGED <<setup, fleet, here, holder, unread, since, seen, moves, tries>>

(* select_provider begins on a worker; one that the job is not pinned to   *)
(* gets it from the shared queue, where the reaper offers it again.        *)
Asking(w) ==
  /\ at' = "asked" /\ here' = w /\ holder' = Nobody
  /\ unread' = {} /\ since' = Holding' /\ seen' = Holding'

Claim(w) ==
  /\ at = "queued"
  /\ UNCHANGED <<setup, fleet, pinned, quiet, moves, failed, tries>>
  /\ Asking(w)

----------------------------------------------------------------------------
(* Choosing.                                                               *)

Goes(from, to) ==
  /\ at = from /\ at' = to
  /\ UNCHANGED <<setup, fleet, here, pinned, since, seen, quiet, moves, tries>>

Answers(from, to) == Goes(from, to) /\ UNCHANGED <<holder, unread, failed>>

Fails(from, to, what) ==
  /\ Goes(from, to) /\ unread' = unread \cup {what}
  /\ failed < MaxFailed /\ failed' = failed + 1
  /\ UNCHANGED holder

LookHere ==
  Answers("asked", IF here \in gateways \cap sessions THEN "agent" ELSE "presence")

(* _fleet_holder: the agent's stream is on another worker.                 *)
LookElsewhere ==
  LET found == IF shared THEN HolderFor(here) ELSE Nobody IN
  /\ Goes("presence", IF found = Nobody THEN "certificates" ELSE "elsewhere")
  /\ holder' = found
  /\ UNCHANGED <<unread, failed>>

(* An index that cannot be read does not refuse, nor is it counted: the    *)
(* exception that _fleet_holder counts is caught in holder().              *)
PresenceUnread == shared /\ Fails("presence", "certificates", "presence")

(* _agent_was_revoked, which refuses when the store does not answer.       *)
LookRevoked ==
  Answers("certificates", IF ~Asks THEN "kubeconfig"
                        ELSE IF OutOfService THEN "out" ELSE "enrolled")

RevokedUnread == Asks /\ Fails("certificates", "out", "certificates")

(* _enrolled_agent_is_away: with a context of its name a cluster is read   *)
(* through that, so that an agent that is briefly away does not matter.    *)
LookEnrolled == Answers("enrolled", IF valid THEN "contexts" ELSE "kubeconfig")

EnrolledUnread == Fails("enrolled", "kubeconfig", "certificates again")

(* _kubeconfig_has_context.                                                *)
LookContexts == Answers("contexts", IF named THEN "kubeconfig" ELSE "away")

ContextsUnread == Fails("contexts", "away", "contexts")

Look ==
  \/ LookHere \/ LookElsewhere \/ LookRevoked \/ LookEnrolled \/ LookContexts
  \/ PresenceUnread \/ RevokedUnread \/ EnrolledUnread \/ ContextsUnread

----------------------------------------------------------------------------
(* Refused.                                                                *)

(* A job that was claimed goes to the worker that has the stream.          *)
HandOff ==
  /\ at = "elsewhere" /\ tries < MaxTries /\ tries' = tries + 1
  /\ at' = "queued" /\ pinned' = holder
  /\ UNCHANGED <<setup, fleet, here, holder, told, moves, failed>>

(* An agent that is away is waited for.                                    *)
Again ==
  /\ at = "away" /\ tries < MaxTries /\ tries' = tries + 1
  /\ UNCHANGED <<setup, fleet, pinned, quiet, moves, failed>>
  /\ Asking(here)

(* The job has gone elsewhere already, or the wait is over.                *)
Refuse ==
  /\ at \in {"elsewhere", "out", "away"} /\ at' = "refused"
  /\ UNCHANGED <<setup, fleet, here, pinned, holder, told, moves, failed, tries>>

Next ==
  \/ \E w \in Fleet : \/ Attach(w) \/ Detach(w)
                     \/ Submit(w) \/ SubmitUnread(w) \/ Claim(w)
  \/ Forget \/ Enrol \/ Revoke \/ Expire
  \/ Look \/ HandOff \/ Again \/ Refuse

Spec == Init /\ [][Next]_vars

----------------------------------------------------------------------------
TypeOK ==
  /\ gateways \subseteq Workers /\ shared \in BOOLEAN /\ named \in BOOLEAN
  /\ sessions \subseteq gateways /\ record \in Workers \cup {Nobody}
  /\ valid \in BOOLEAN /\ revoked \in BOOLEAN
  /\ at \in {"new", "queued", "asked", "presence", "certificates", "enrolled", "contexts",
             "agent", "elsewhere", "out", "away", "kubeconfig", "refused"}
  /\ here \in Workers \cup {Nobody} /\ pinned \in Workers \cup {Nobody}
  /\ holder \in Workers \cup {Nobody}
  /\ unread \subseteq {"presence", "certificates", "certificates again", "contexts"}
  /\ since \subseteq Facts /\ seen \subseteq Facts /\ quiet \in BOOLEAN
  /\ moves \in 0..MaxMoves /\ failed \in 0..MaxFailed /\ tries \in 0..MaxTries

(* The kubeconfig, which may mean another cluster by the name, is not read *)
(* while a record says throughout that another worker has the agent, never *)
(* of a cluster that was taken out of service, and not where it has no     *)
(* such context, as far as this could be read.                             *)
NeverTheNamesake ==
  at = "kubeconfig" =>
    /\ "held" \in since => "presence" \in unread
    /\ Asks => "out" \notin since
    /\ Asks /\ "agent only" \in since => "certificates again" \in unread

(* Nothing is refused without a reason that was there.                     *)
RefusalsHaveReasons ==
  /\ at = "elsewhere" => "held" \in seen /\ holder # here
  /\ at = "out" => "out" \in seen \/ "certificates" \in unread
  /\ at = "away" => "agent only" \in seen \/ "contexts" \in unread

(* An agent that stays where its record says is reached: the investigation *)
(* does not settle for less, and if nothing changed since it was queued,   *)
(* whoever it was queued for is right.                                     *)
SettledAgentIsReached ==
  "settled" \in since =>
    /\ unread = {} => at \notin {"out", "away", "kubeconfig"}
    /\ quiet /\ pinned \in {here, Nobody} => at # "elsewhere"

(* An investigation of a cluster reads it through its agent where one is   *)
(* known, and stops short of one for a reason only.                        *)
RoutesSoundly == NeverTheNamesake /\ RefusalsHaveReasons /\ SettledAgentIsReached
=============================================================================
