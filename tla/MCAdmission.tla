---------------------------- MODULE MCAdmission ----------------------------
(* Two workers, one alert that is sent again and again, two callers of one *)
(* tenant.  Alerts and callers share no state, only the failures of Redis: *)
(* a behaviour has one or the other.                                       *)
EXTENDS Admission

MCBatches == {<<"a">>, <<"a", "b">>}
MCLimit   == [b \in Buckets |-> IF b = Tenant THEN 2 ELSE 1]
NoneAhead == [w \in Workers |-> 0]
OneAhead  == [w \in Workers |-> IF w = CHOOSE v \in Workers : TRUE THEN 1 ELSE 0]
OneKind   == {{"alerts"}, {"callers"}}
=============================================================================
