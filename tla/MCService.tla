----------------------------- MODULE MCService ------------------------------
(* What users meet: who may do what (Access), the reports that are kept    *)
(* for them (Reports), and the page of an investigation (Console).  They   *)
(* share nothing here: each behaviour is one of one of them.               *)
(*                                                                         *)
(* Alice and Bob are of one tenant, in which one or both are owners; Carol *)
(* is of another, which nobody has been made a member of.                  *)
EXTENDS Access

CONSTANTS
  Ids, Limit, MaxRenders,                       \* of Reports
  Addresses, Missing, MaxPolls, MaxVisits, MaxBreaks   \* of Console

VARIABLES
  part,   \* whose behaviour it is
  store, content, payload, entry, order, age, saving, again, sweep,
  overtook, unlisted, renders, deaths,   \* of Reports
  row, log, hook, requests, visits, breaks   \* of Console

MCHomeOf == [p \in People |-> IF p = "carol" THEN "t2" ELSE "t1"]
MCGroupRole == [p \in People |-> IF p = "carol" THEN "admin" ELSE None]

Bound(roles) ==
  [p \in People |-> IF p \in DOMAIN roles THEN Granted(roles[p]) ELSE NoRow]

MCBindings == [t \in Tenants |->
  IF t = "t2" THEN {[p \in People |-> NoRow]}
  ELSE {Bound([alice |-> "owner", bob |-> r]) : r \in {"owner", "admin"}}]

Report == INSTANCE Reports WITH
  OwnerOf <- [i \in Ids |-> "alice"], Nobody <- None, Stores <- {"files", "table"},
  faults <- deaths

(* The user stays on the page of an investigation, or leaves it first.     *)
Page == INSTANCE Console WITH
  Nobody <- None, Navigates <- FALSE, MaxFaults <- MaxBreaks, faults <- breaks

ASSUME ServiceAssumption == Report!ReportsAssumption /\ Page!ConsoleAssumption

reportVars == <<store, content, payload, entry, order, age, saving, again, sweep,
                overtook, unlisted, renders, deaths>>

pageVars == <<row, log, hook, requests, visits, breaks>>

MCInit ==
  /\ part \in {"access", "reports", "page"}
  /\ Init /\ Report!Init /\ Page!Init
  /\ part # "access" => ~inFile /\ \A t \in Tenants : members[t] = CHOOSE b \in Bindings[t] : TRUE
  /\ part # "reports" => store = "files"

OfAccess(A)  == part = "access" /\ A /\ UNCHANGED <<part, reportVars, pageVars>>
OfReports(A) == part = "reports" /\ A /\ UNCHANGED <<part, vars, pageVars>>
OnPage(A)    == part = "page" /\ A /\ UNCHANGED <<part, vars, reportVars>>

MCNext == OfAccess(Next) \/ OfReports(Report!Next) \/ OnPage(Page!Next)

MCvars == <<part, vars, reportVars, pageVars>>

(* The fairness of reports and of the page: their FairSpec.                *)
MCSpec ==
  /\ MCInit /\ [][MCNext]_MCvars
  /\ WF_MCvars(OfReports(Report!Sweeps))
  /\ \A i \in Ids : WF_MCvars(OfReports(Report!Renders(i)))
  /\ \A a \in Addresses : /\ WF_MCvars(OnPage(Page!Publish(a)))
                          /\ WF_MCvars(OnPage(Page!RetryTick(a)))
                          /\ WF_MCvars(OnPage(Page!FrameArrives(a)))
                          /\ WF_MCvars(OnPage(Page!StreamEnds(a)))
  /\ \A i \in Page!Slots : /\ WF_MCvars(OnPage(Page!Answered(i)))
                           /\ WF_MCvars(OnPage(Page!Callback(i)))
  /\ WF_MCvars(OnPage(Page!PollTick))

(* A change of members, and every act, is by right; and nothing but two    *)
(* changes at once takes the last owner of a tenant.                       *)
AuthorityHolds == AuthorityIsGranted /\ FloorGivesWayToRaces

(* Retention reaches what it is for.                                       *)
RetentionReaches == Report!RetentionReaches

(* What the page shows is what the platform has, once and in order, and    *)
(* the history offers what can be downloaded, to whose it is.              *)
ShownIsTrue ==
  /\ Page!TimelineComplete /\ Page!OutcomeIsTold
  /\ Report!OfferedIsThere /\ Report!KeepsItsOwner

(* A page that stays open comes to show how its run ended.                 *)
Converges == Page!Converges
=============================================================================
