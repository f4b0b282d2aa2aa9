----------------------------- MODULE MCGateway -----------------------------
(* Two workers and an agent that connects twice, without calls.  When its  *)
(* certificate was revoked it is enrolled anew, before it connects again.  *)
EXTENDS AgentGateway

EnrolledAnew ==
  certificate' # certificate => revoked # {} /\ agent = NoStream /\ opened = 1

MCNext == Next /\ EnrolledAnew

MCSpec == Init /\ [][MCNext]_vars /\ Fairness
=============================================================================
