--------------------------- MODULE AgentIdentity ---------------------------
(***************************************************************************)
(* How an agent comes by its certificate and keeps it.  The agent process  *)
(* (main.go, transport/enrol.go) loads its stored identity or enrols with  *)
(* a token that is spent once; a loop then renews the certificate at two   *)
(* thirds of its life.  The gateway (gateway/identity.py) spends tokens,   *)
(* issues certificates and keeps the ledger of both, in Postgres or in a   *)
(* file, and decides renewals on a cached copy of the revocations.         *)
(*                                                                         *)
(* Time is counted in the intervals at which the agent looks whether its   *)
(* certificate is due (renewalCheck, an hour against ninety days).  A call *)
(* and a write take less than one, so does the gateway's sweep of the      *)
(* revocations (agent_revocation_sweep_seconds).  The gateway is done with *)
(* a call of a process before the next process of the agent starts: the    *)
(* manifest's strategy is Recreate, there is one process at a time.        *)
(***************************************************************************)
EXTENDS Integers

CONSTANTS
  Life,          \* checks in the life of a certificate (AGENT_CERT_TTL_HOURS)
  Backdate,      \* checks by which the authority backdates a certificate
  Serials,       \* serial numbers, 1 .. n; one nobody holds is used again
  Tokens,        \* the tokens the operator may issue
  Kinds,         \* where the agent keeps its identity: "secret", "file"
  MaxRevoked,    \* how often the operator revokes the cluster
  MaxFaults,     \* outages, crashes, losses and failed writes
  None

(* A certificate lives some checks and is due before its last one; serial  *)
(* numbers are random, so there is always one nobody holds.                *)
AgentAssumption ==
  /\ Life \in Nat /\ Life >= 2 /\ Backdate \in Nat /\ Life + Backdate >= 3
  /\ None \notin Serials /\ None \notin Tokens
  /\ Kinds \subseteq {"secret", "file"}
  /\ MaxRevoked \in Nat /\ MaxFaults \in Nat
  /\ \A a, b, c \in Serials \cup {None} : \E s \in Serials : s \notin {a, b, c}

VARIABLES
  kind,      \* the agent's store: SecretStore or FileStore
  pc,        \* the process: "off", "enrolling", "renewing", "saving", "up"
  held,      \* the Holder: the serial of the certificate in use
  next,      \* checks until nextAttempt
  checked,   \* the loop has looked since the last tick
  disk,      \* the stored identity, by serial: [key, cert, ca]
  call,      \* Register in the gateway: its stage, what it carries and grants
  left,      \* checks each certificate has left
  ledger,    \* EnrolmentStore: [tokens, recorded, revoked]
  cached,    \* the revocations the gateway decides on
  flag,      \* the token the deployment names
  answers,   \* does the gateway answer?
  faults, revocations,
  calm,      \* nothing has gone wrong since the last tick
  bought,    \* certificates issued on each token
  slips      \* certificates issued on a revoked one

agent == <<kind, pc, held, next, checked, disk>>
gateway == <<call, left, ledger, cached>>
operator == <<flag, revocations>>
trouble == <<answers, faults, calm>>
history == <<bought, slips>>
vars == <<agent, gateway, operator, trouble, history>>

Empty == [key |-> None, cert |-> None, ca |-> FALSE]
NoCall == [stage |-> "none", token |-> None, on |-> None, serial |-> None]

Init ==
  /\ kind \in Kinds
  /\ pc = "off" /\ held = None /\ next = 0 /\ checked = TRUE /\ disk = Empty
  /\ call = NoCall /\ left = [s \in Serials |-> 0]
  /\ ledger = [tokens |-> [t \in Tokens |-> "unissued"],
               recorded |-> {}, revoked |-> {}]
  /\ cached = {}
  /\ flag = None /\ revocations = 0
  /\ answers = TRUE /\ faults = 0 /\ calm = FALSE
  /\ bought = [t \in Tokens |-> 0] /\ slips = 0

(* One thing goes wrong. *)
Fault == /\ faults < MaxFaults /\ faults' = faults + 1
         /\ calm' = FALSE /\ UNCHANGED answers

----------------------------------------------------------------------------
(* The clock and the renewal loop. *)

(* Faulty: the next attempt waits for two thirds of what is left.          *)
TwoThirds(n) == (2 * n + 2) \div 3

ThirdOf(n) == (n + 2) \div 3

(* RenewAt counts the backdate as life.                                    *)
Due == 3 * (Life - left[held] + Backdate) >= 2 * (Life + Backdate)

(* Between two checks the agent has looked and is done with what it found, *)
(* and the gateway has swept.                                              *)
Tick ==
  /\ pc \in {"off", "up"} /\ call = NoCall
  /\ pc = "up" => checked
  /\ cached = ledger.revoked
  /\ left' = [s \in Serials |-> IF left[s] > 0 THEN left[s] - 1 ELSE 0]
  /\ next' = IF next > 0 THEN next - 1 ELSE 0
  /\ checked' = FALSE
  /\ calm' = (answers /\ pc = "up")
  /\ UNCHANGED <<kind, pc, held, disk, call, ledger, cached, operator,
                 answers, faults, bought, slips>>

(* KeepFresh: what the loop does when the ticker fires.                    *)
Attempting == Due /\ next = 0

Look ==
  /\ pc = "up" /\ ~checked
  /\ checked' = TRUE
  /\ IF Attempting
     THEN /\ pc' = "renewing"
          /\ call' = [NoCall EXCEPT !.stage = "sent", !.on = held]
     ELSE UNCHANGED <<pc, call>>
  /\ UNCHANGED <<kind, held, next, disk, left, ledger, cached, operator,
                 trouble, history>>

(* An attempt is over, with this certificate in the Holder: the next one   *)
(* is a third of its remaining life away, counted from this check.         *)
Spaced(s) == next' = ThirdOf(left[s])

----------------------------------------------------------------------------
(* The process starts and stops. *)

Exists == disk.key # None /\ disk.cert # None /\ disk.ca
Loads == disk.key = disk.cert

Enrolling(t) ==
  /\ pc' = "enrolling"
  /\ call' = [NoCall EXCEPT !.stage = "sent", !.token = t]
  /\ UNCHANGED <<held, next, checked>>

(* establishIdentity: a stored identity is used, or refused if its parts   *)
(* do not match; without one the agent enrols if it was given a token.     *)
(* Otherwise it exits and is started again.                                *)
Start ==
  /\ pc = "off" /\ call = NoCall
  /\ IF Exists
     THEN /\ Loads
          /\ pc' = "up" /\ held' = disk.cert /\ next' = 0 /\ checked' = TRUE
          /\ UNCHANGED call
     ELSE flag # None /\ Enrolling(flag)
  /\ UNCHANGED <<kind, disk, left, ledger, cached, operator, trouble, history>>

(* SecretStore.Exists answers no when the Secret cannot be read.           *)
StartUnreadable ==
  /\ pc = "off" /\ call = NoCall /\ kind = "secret" /\ flag # None
  /\ Enrolling(flag)
  /\ Fault
  /\ UNCHANGED <<kind, disk, left, ledger, cached, operator, history>>

Stopped == pc' = "off" /\ held' = None /\ next' = 0

Crash ==
  /\ pc # "off"
  /\ Stopped /\ Fault
  /\ UNCHANGED <<kind, checked, disk, gateway, operator, history>>

----------------------------------------------------------------------------
(* The gateway serves Register. *)

(* The call fails: an enrolment ends the process, a renewal is tried again.*)
Fails ==
  /\ call' = NoCall
  /\ CASE pc = "enrolling" -> Stopped
       [] pc = "renewing"  -> pc' = "up" /\ Spaced(held) /\ UNCHANGED held
       [] OTHER            -> UNCHANGED <<pc, held, next>>

(* spend_token: one statement, or one rewrite of the file.                 *)
Spend ==
  /\ call.stage = "sent" /\ call.token # None /\ answers
  /\ IF ledger.tokens[call.token] = "fresh"
     THEN /\ ledger' = [ledger EXCEPT !.tokens[call.token] = "spent"]
          /\ call' = [call EXCEPT !.stage = "cleared"]
          /\ UNCHANGED <<pc, held, next>>
     ELSE Fails /\ UNCHANGED ledger
  /\ UNCHANGED <<kind, checked, disk, left, cached, operator, trouble, history>>

(* _renew: the handshake proves the certificate, the cached revocations    *)
(* decide.                                                                 *)
Renewable == left[call.on] > 0 /\ call.on \notin cached

Renew ==
  /\ call.stage = "sent" /\ call.on # None /\ answers
  /\ IF Renewable
     THEN call' = [call EXCEPT !.stage = "cleared"] /\ UNCHANGED <<pc, held, next>>
     ELSE Fails
  /\ UNCHANGED <<kind, checked, disk, left, ledger, cached, operator,
                 trouble, history>>

Unused == CHOOSE s \in Serials :
  s \notin {held, disk.key, disk.cert, call.on}

(* The certificate exists before the ledger has it.                        *)
Issue ==
  /\ call.stage = "cleared"
  /\ LET s == Unused IN
     /\ call' = [call EXCEPT !.stage = "issued", !.serial = s]
     /\ left' = [left EXCEPT ![s] = Life]
     /\ ledger' = [ledger EXCEPT !.recorded = @ \ {s}, !.revoked = @ \ {s}]
     /\ cached' = cached \ {s}
  /\ bought' = IF call.token = None THEN bought
                                    ELSE [bought EXCEPT ![call.token] = @ + 1]
  /\ slips' = IF call.on \in ledger.revoked THEN slips + 1 ELSE slips
  /\ UNCHANGED <<agent, operator, trouble>>

(* record_certificate, then the reply.                                     *)
RecordCertificate ==
  /\ call.stage = "issued" /\ answers
  /\ ledger' = [ledger EXCEPT !.recorded = @ \cup {call.serial}]
  /\ call' = [call EXCEPT !.stage = "answered"]
  /\ UNCHANGED <<agent, left, cached, operator, trouble, history>>

(* The gateway is away, a statement fails, thirty seconds pass, or the     *)
(* reply is lost: what was spent and recorded stays so.                    *)
CallLost ==
  /\ call.stage # "none" /\ pc # "saving"
  /\ IF answers THEN Fault ELSE UNCHANGED trouble
  /\ Fails
  /\ UNCHANGED <<kind, checked, disk, left, ledger, cached, operator, history>>

(* The reply of a call whose process is gone.                              *)
ReplyDropped ==
  /\ call.stage = "answered" /\ pc = "off"
  /\ call' = NoCall
  /\ UNCHANGED <<agent, left, ledger, cached, operator, trouble, history>>

----------------------------------------------------------------------------
(* The agent stores what it was granted, and uses it. *)

(* Faulty: the certificate is used before it is stored.                    *)
ReplyUsedAtOnce ==
  /\ call.stage = "answered" /\ pc \in {"enrolling", "renewing"}
  /\ pc' = "saving" /\ held' = call.serial
  /\ UNCHANGED <<kind, next, checked, disk, gateway, operator, trouble, history>>

Reply ==
  /\ call.stage = "answered" /\ pc \in {"enrolling", "renewing"}
  /\ pc' = "saving"
  /\ UNCHANGED <<kind, held, next, checked, disk, gateway, operator,
                 trouble, history>>

Stored == pc' = "up" /\ held' = call.serial /\ call' = NoCall

(* After an enrolment the loop begins: it looks at its first tick.         *)
Resumes == IF held = None THEN next' = 0 ELSE Spaced(call.serial)

(* SecretStore.Save: one update of one object.                             *)
SaveSecret ==
  /\ pc = "saving" /\ kind = "secret"
  /\ disk' = [key |-> call.serial, cert |-> call.serial, ca |-> TRUE]
  /\ Stored /\ Resumes /\ checked' = TRUE
  /\ UNCHANGED <<kind, left, ledger, cached, operator, trouble, history>>

(* FileStore.Save: three renames, key, certificate and authority.          *)
SaveFile ==
  /\ pc = "saving" /\ kind = "file"
  /\ \/ /\ disk.key # call.serial
        /\ disk' = [disk EXCEPT !.key = call.serial]
        /\ UNCHANGED <<pc, held, next, checked, call>>
     \/ /\ disk.key = call.serial /\ disk.cert # call.serial
        /\ disk' = [disk EXCEPT !.cert = call.serial]
        /\ UNCHANGED <<pc, held, next, checked, call>>
     \/ /\ disk.cert = call.serial
        /\ disk' = [disk EXCEPT !.ca = TRUE]
        /\ Stored /\ Resumes /\ checked' = TRUE
  /\ UNCHANGED <<kind, left, ledger, cached, operator, trouble, history>>

(* A write fails: what was renamed stays so, what is held stays in use.    *)
SaveFails ==
  /\ pc = "saving"
  /\ call' = NoCall
  /\ IF held = None THEN Stopped
     ELSE pc' = "up" /\ Spaced(held) /\ UNCHANGED held
  /\ Fault
  /\ UNCHANGED <<kind, checked, disk, left, ledger, cached, operator, history>>

----------------------------------------------------------------------------
(* The operator, and the gateway around it. *)

(* agentctl and the API issue tokens and revoke the cluster: statements on *)
(* the ledger.                                                             *)
IssueToken(t) ==
  /\ ledger.tokens[t] = "unissued"
  /\ ledger' = [ledger EXCEPT !.tokens[t] = "fresh"]
  /\ UNCHANGED <<agent, call, left, cached, operator, trouble, history>>

RevokeCluster ==
  /\ revocations < MaxRevoked
  /\ revocations' = revocations + 1
  /\ ledger' = [ledger EXCEPT
       !.revoked = @ \cup {s \in ledger.recorded : left[s] > 0}]
  /\ UNCHANGED <<agent, call, left, cached, flag, trouble, history>>

(* refresh_revocations, from the sweep.                                    *)
Sweep ==
  /\ cached # ledger.revoked
  /\ cached' = ledger.revoked
  /\ UNCHANGED <<agent, call, left, ledger, operator, trouble, history>>

(* The operator redeploys the agent with a new token, clearing the stored  *)
(* identity or leaving it.                                                 *)
Redeploy(t) ==
  /\ ledger.tokens[t] = "fresh" /\ flag # t
  /\ flag' = t
  /\ Stopped /\ calm' = FALSE
  /\ disk' \in {disk, Empty}
  /\ UNCHANGED <<kind, checked, gateway, revocations, answers, faults, history>>

Outage ==
  /\ answers /\ faults < MaxFaults
  /\ answers' = FALSE /\ faults' = faults + 1 /\ calm' = FALSE
  /\ UNCHANGED <<agent, gateway, operator, history>>

Recovers ==
  /\ ~answers
  /\ answers' = TRUE /\ UNCHANGED <<faults, calm>>
  /\ UNCHANGED <<agent, gateway, operator, history>>

Served == Spend \/ Renew \/ Issue \/ RecordCertificate \/ Reply
Saved == SaveSecret \/ SaveFile

Next ==
  \/ Tick \/ Look \/ Start \/ StartUnreadable \/ Crash
  \/ Served \/ CallLost \/ ReplyDropped
  \/ Saved \/ SaveFails
  \/ \E t \in Tokens : IssueToken(t) \/ Redeploy(t)
  \/ RevokeCluster \/ Sweep \/ Outage \/ Recovers

Spec == Init /\ [][Next]_vars

----------------------------------------------------------------------------
SerialOrNone == Serials \cup {None}
TokenOrNone == Tokens \cup {None}

(* Every variable has its type.                                            *)
TypeOK ==
  /\ kind \in Kinds
  /\ pc \in {"off", "enrolling", "renewing", "saving", "up"}
  /\ held \in SerialOrNone /\ (pc = "up" => held # None)
  /\ next \in 0..ThirdOf(Life) /\ checked \in BOOLEAN
  /\ disk \in [key : SerialOrNone, cert : SerialOrNone, ca : BOOLEAN]
  /\ call \in [stage : {"none", "sent", "cleared", "issued", "answered"},
                token : TokenOrNone, on : SerialOrNone, serial : SerialOrNone]
  /\ left \in [Serials -> 0..Life]
  /\ ledger \in [tokens : [Tokens -> {"unissued", "fresh", "spent"}],
                  recorded : SUBSET Serials, revoked : SUBSET Serials]
  /\ ledger.revoked \subseteq ledger.recorded /\ cached \subseteq Serials
  /\ flag \in TokenOrNone /\ revocations \in 0..MaxRevoked
  /\ answers \in BOOLEAN /\ faults \in 0..MaxFaults /\ calm \in BOOLEAN
  /\ bought \in [Tokens -> Nat] /\ slips \in Nat

(* However enrolments are lost, repeated and refused, a token is never     *)
(* good for two certificates: it is spent before anything is issued        *)
(* (identity.py:178-180).                                                  *)
TokenBuysOneCertificate == \A t \in Tokens : bought[t] <= 1

(* The ledger has every certificate an agent may come to use, so that      *)
(* revoking the cluster reaches it: the record is made before the reply.   *)
UsedIsOnRecord ==
  \A s \in {held, disk.cert} \ {None} : s \in ledger.recorded

(* With its identity in a Secret an agent can be stopped at any moment:    *)
(* what it will load is whole, and lives no shorter than what it holds.    *)
RestartResumes ==
  kind = "secret" /\ held # None =>
    Exists /\ Loads /\ left[disk.cert] >= left[held]

(* A sweep lies between two attempts, so a revoked certificate is renewed  *)
(* at most once, in the time before the gateway has heard of it.           *)
RevokedRenewsAtMostOnce == slips <= revocations

(* What an agent uses is known to the ledger, safe from a crash and within *)
(* reach of a revocation.                                                  *)
IdentityIsSound ==
  TypeOK /\ UsedIsOnRecord /\ RestartResumes /\ RevokedRenewsAtMostOnce

(* Tokens and certificates both.                                           *)
IdentityHolds == TokenBuysOneCertificate /\ IdentityIsSound

(* Attempts fail and are spaced out, but never past the end: the agent     *)
(* tries in the last check of a certificate's life, so one that was not    *)
(* revoked runs out in the hands of a running agent only if something goes *)
(* wrong in that very check (enrol.go:232-237).                            *)
ExpiresOnlyInTrouble ==
  [][Tick /\ pc = "up" /\ left[held] = 1 /\ held \notin ledger.revoked
       => ~calm]_vars
=============================================================================
