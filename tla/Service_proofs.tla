--------------------------- MODULE Service_proofs ---------------------------
(* That authority is given and taken by right, for all people, tenants,    *)
(* roles and handlers, and any first members; and that what users are      *)
(* shown is so, for all reports, addresses and numbers of requests.        *)
(*                                                                         *)
(* Three inductive invariants: what each request has established so far    *)
(* (whose it is, that who gives a role outranks it, that what takes an     *)
(* owner away was counted for unless another change came between); what is *)
(* written of each report, and what a sweep may still delete; and how the  *)
(* page follows its run, one way at a time.                                *)
EXTENDS MCService, Sequences, FiniteSetTheorems, WellFoundedInduction, TLAPS

Handling ==
  [stage : Stages, actor : People \cup {None}, tenant : Tenants, holds : Roles \cup {None},
   change : Changes, target : People \cup {None}, stale : BOOLEAN, book : Books \cup {None}]

AtGate == {"authenticated", "seen", "touching"}

Acting(h, at) ==
  /\ at.stage # "idle" =>
       /\ at.target \in People
       /\ h \notin Shells => at.actor \in People /\ at.tenant = HomeOf[at.actor]
  /\ at.stage \in AtGate \cup {"gated"} => h \notin Shells
  /\ at.change.op = "run" => at.stage \in AtGate \cup {"idle"}
  /\ at.stage \in Rewriting => at.book \in Books

(* Whoever is past the comparison of roles outranks what they give.        *)
Outranking(h, at) ==
  /\ at.stage = "granted" => at.change.op # "assign"
  /\ h \notin Shells /\ at.stage \in {"looked", "counting"} \cup Resolved
       /\ at.change.op = "assign" => MayGrant(at.holds, at.change.role)

(* What takes an owner away was counted for, unless another change came    *)
(* between.                                                                *)
Harmless(at) ==
  \/ at.change.op = "assign" /\ at.change.role = "owner"
  \/ at.change.op = "restore"
  \/ ~IsOwner(members[at.tenant][at.target])
  \/ CountOwners(at.tenant) > 1
Counted(at) == at.stage \in Resolved /\ ~at.stale => Harmless(at)

Rightful(h, at) == Acting(h, at) /\ Outranking(h, at) /\ Counted(at)

Authorised == TypeOK /\ \A h \in Handlers : Rightful(h, handler[h])

----------------------------------------------------------------------------
(* Roles.                                                                  *)

LEMMA Ranks ==
  /\ Roles = {"viewer", "operator", "admin", "owner"}
  /\ Rank("viewer") = 1 /\ Rank("operator") = 2 /\ Rank("admin") = 3 /\ Rank("owner") = 4
<1>1. /\ DOMAIN RoleOrder = 1..4 /\ RoleOrder[1] = "viewer" /\ RoleOrder[2] = "operator"
      /\ RoleOrder[3] = "admin" /\ RoleOrder[4] = "owner"
  BY DEF RoleOrder
<1>2. Roles = {RoleOrder[1], RoleOrder[2], RoleOrder[3], RoleOrder[4]}
  <2>1. DOMAIN RoleOrder = {1, 2, 3, 4}
    BY <1>1
  <2>2. QED
    BY <2>1 DEF Roles
<1>3. ASSUME NEW i \in 1..4 PROVE Rank(RoleOrder[i]) = i
  <2>1. \A j \in DOMAIN RoleOrder : RoleOrder[j] = RoleOrder[i] <=> j = i
    BY <1>1
  <2>2. QED
    BY <2>1, <1>1 DEF Rank
<1>4. /\ Rank(RoleOrder[1]) = 1 /\ Rank(RoleOrder[2]) = 2
      /\ Rank(RoleOrder[3]) = 3 /\ Rank(RoleOrder[4]) = 4
  BY <1>3
<1>5. QED
  BY <1>1, <1>2, <1>4

LEMMA RanksAreNumbers == \A r \in Roles : Rank(r) \in 1..4
  BY Ranks

LEMMA HighestIs ==
  ASSUME NEW a \in Roles \cup {None}, NEW b \in Roles \cup {None}
  PROVE  LET r == Highest({a, b})
         IN /\ a = None /\ b = None => r = None
            /\ ~(a = None /\ b = None) =>
                 /\ r \in {a, b} /\ r # None /\ r \in Roles
                 /\ a # None => Rank(a) <= Rank(r)
                 /\ b # None => Rank(b) <= Rank(r)
<1> DEFINE present == {a, b} \ {None}
<1>1. Highest({a, b}) = IF present = {} THEN None
                        ELSE CHOOSE r \in present : \A q \in present : Rank(q) <= Rank(r)
  BY DEF Highest
<1>2. CASE a = None /\ b = None
  BY <1>1, <1>2
<1>3. CASE ~(a = None /\ b = None)
  <2>1. present # {} /\ present \subseteq Roles
    BY <1>3
  <2>2. \E r \in present : \A q \in present : Rank(q) <= Rank(r)
    <3>1. CASE b = None
      <4>1. present = {a} /\ a \in Roles
        BY <3>1, <1>3
      <4>2. QED
        BY <4>1, RanksAreNumbers
    <3>2. CASE a = None
      <4>1. present = {b} /\ b \in Roles
        BY <3>2, <1>3
      <4>2. QED
        BY <4>1, RanksAreNumbers
    <3>3. CASE a # None /\ b # None
      <4>1. present = {a, b} /\ Rank(a) \in 1..4 /\ Rank(b) \in 1..4
        BY <3>3, RanksAreNumbers
      <4>2. QED
        BY <4>1
    <3>4. QED
      BY <3>1, <3>2, <3>3
  <2> DEFINE r == CHOOSE x \in present : \A q \in present : Rank(q) <= Rank(x)
  <2>3. r \in present /\ \A q \in present : Rank(q) <= Rank(r)
    BY <2>2
  <2>4. Highest({a, b}) = r
    BY <1>1, <2>1
  <2> HIDE DEF r
  <2>5. QED
    BY <1>3, <2>1, <2>3, <2>4
<1>4. QED
  BY <1>2, <1>3

LEMMA RowsAre ==
  ASSUME NEW r \in Rows
  PROVE  /\ r.known \in BOOLEAN /\ r.role \in Roles \cup {None} /\ r.suspended \in BOOLEAN
         /\ ~r.known => r = NoRow
<1>1. CASE r \in [known : {TRUE}, role : Roles \cup {None}, suspended : BOOLEAN]
  BY <1>1
<1>2. CASE r = NoRow
  <2>1. r.known = FALSE /\ r.role = None /\ r.suspended = FALSE
    BY <1>2 DEF NoRow
  <2>2. QED
    BY <2>1, <1>2
<1>3. QED
  BY <1>1, <1>2 DEF Rows

LEMMA RowsAreRecords ==
  ASSUME NEW r \in Rows
  PROVE  /\ r \in [known : BOOLEAN, role : Roles \cup {None}, suspended : BOOLEAN]
         /\ r.known => r \in [known : {TRUE}, role : Roles \cup {None}, suspended : BOOLEAN]
<1>1. NoRow \in [known : BOOLEAN, role : Roles \cup {None}, suspended : BOOLEAN] /\ ~NoRow.known
  BY DEF NoRow
<1>2. QED
  BY <1>1 DEF Rows

(* A sighting grants nothing.                                              *)
LEMMA SightedIsNothing ==
  /\ NoRow \in Rows /\ Granted(None) \in Rows
  /\ ~IsOwner(NoRow) /\ ~IsOwner(Granted(None))
  /\ \A p : Resolve(p, NoRow) = Resolve(p, Granted(None))
<1>1. NoRow.role = None /\ Granted(None).role = None
      /\ NoRow.suspended = FALSE /\ Granted(None).suspended = FALSE
  BY DEF NoRow, Granted
<1>2. NoRow \in Rows /\ Granted(None) \in Rows
  BY DEF NoRow, Granted, Rows
<1>3. None # "owner"
  BY AccessAssumption, Ranks
<1>4. QED
  BY <1>1, <1>2, <1>3 DEF IsOwner, Resolve

LEMMA ResolveIs ==
  ASSUME NEW p \in People, NEW r \in Rows
  PROVE  Resolve(p, r) \in Roles \cup {None}
<1>1. GroupRole[p] \in Roles \cup {None} /\ r.role \in Roles \cup {None}
      /\ Fallback \in Roles \cup {None}
  BY AccessAssumption, RowsAre
<1>2. Highest({GroupRole[p], r.role}) \in Roles \cup {None}
  BY <1>1, HighestIs
<1>3. QED
  BY <1>1, <1>2 DEF Resolve

(* Who is given a role is given that role, or keeps what they had.         *)
LEMMA GivenIsGiven ==
  ASSUME NEW p \in People, NEW r \in Rows, NEW role \in Roles,
         NEW changed \in Rows, changed.role = role, changed.suspended = r.suspended,
         Above(Resolve(p, changed), Resolve(p, r))
  PROVE  Resolve(p, changed) = role
<1> DEFINE before == Highest({GroupRole[p], r.role})
           after  == Highest({GroupRole[p], role})
<1>1. GroupRole[p] \in Roles \cup {None} /\ r.role \in Roles \cup {None} /\ role # None
      /\ Fallback \in Roles \cup {None}
  BY AccessAssumption, RowsAre
<1>2. r.suspended = FALSE
  <2>1. r.suspended => Resolve(p, changed) = None
    BY DEF Resolve
  <2>2. QED
    BY <2>1, RowsAre DEF Above
<1>3. /\ after \in {GroupRole[p], role} /\ after # None
      /\ GroupRole[p] # None =>
           before # None /\ before \in Roles /\ Rank(GroupRole[p]) <= Rank(before)
  BY <1>1, HighestIs
<1>4. Resolve(p, changed) = after /\ (before # None => Resolve(p, r) = before)
  BY <1>2, <1>3 DEF Resolve
<1> HIDE DEF before, after
<1>5. ASSUME after # role PROVE FALSE
  <2>1. after = GroupRole[p] /\ GroupRole[p] # None
    BY <1>3, <1>5
  <2>2. Resolve(p, r) = before /\ before # None /\ before \in Roles /\ Rank(after) <= Rank(before)
    BY <2>1, <1>3, <1>4
  <2>3. Rank(after) > Rank(before)
    BY <2>2, <1>4 DEF Above
  <2>4. Rank(after) \in 1..4 /\ Rank(before) \in 1..4
    BY <2>1, <2>2, <1>1, RanksAreNumbers
  <2>5. QED
    BY <2>2, <2>3, <2>4
<1>6. QED
  BY <1>4, <1>5

----------------------------------------------------------------------------
(* Changes.                                                                *)

LEMMA ChangeIs ==
  ASSUME NEW change \in Changes
  PROVE  /\ change.op \in {"assign", "remove", "suspend", "restore", "run"}
         /\ change.op = "assign" => change.role \in Roles
BY AccessAssumption DEF Changes

LEMMA ChangedIs ==
  ASSUME NEW r \in Rows, NEW change \in Changes, change.op # "run"
  PROVE  LET after == Changed(r, change)
         IN /\ after \in Rows
            /\ change.op = "assign" => after.role = change.role /\ after.suspended = r.suspended
            /\ change.op = "restore" /\ IsOwner(r) => IsOwner(after)
<1>1. CASE change.op = "assign"
  <2>1. Changed(r, change) = [r EXCEPT !.known = TRUE, !.role = change.role]
    BY <1>1 DEF Changed
  <2>2. r \in [known : BOOLEAN, role : Roles \cup {None}, suspended : BOOLEAN]
    BY RowsAreRecords
  <2>3. change.role \in Roles
    BY <1>1, ChangeIs
  <2>4. [r EXCEPT !.known = TRUE, !.role = change.role]
          \in [known : {TRUE}, role : Roles \cup {None}, suspended : BOOLEAN]
    BY <2>2, <2>3
  <2>5. /\ [r EXCEPT !.known = TRUE, !.role = change.role].role = change.role
        /\ [r EXCEPT !.known = TRUE, !.role = change.role].suspended = r.suspended
    BY <2>2
  <2>6. QED
    BY <1>1, <2>1, <2>4, <2>5 DEF Rows
<1>2. CASE change.op = "remove"
  <2>1. Changed(r, change) = NoRow
    BY <1>2 DEF Changed
  <2>2. QED
    BY <1>2, <2>1 DEF Rows
<1>3. CASE change.op \in {"suspend", "restore"}
  <2>1. Changed(r, change) = IF r.known THEN [r EXCEPT !.suspended = change.op = "suspend"] ELSE r
    BY <1>3 DEF Changed
  <2>2. CASE r.known
    <3>1. r \in [known : {TRUE}, role : Roles \cup {None}, suspended : BOOLEAN]
      BY <2>2, RowsAreRecords
    <3>2. [r EXCEPT !.suspended = change.op = "suspend"]
            \in [known : {TRUE}, role : Roles \cup {None}, suspended : BOOLEAN]
      BY <3>1
    <3>3. /\ [r EXCEPT !.suspended = change.op = "suspend"].role = r.role
          /\ [r EXCEPT !.suspended = change.op = "suspend"].suspended = (change.op = "suspend")
      BY <3>1
    <3>4. change.op = "restore" => ~(change.op = "suspend")
      OBVIOUS
    <3>5. QED
      BY <1>3, <2>1, <2>2, <3>2, <3>3, <3>4 DEF Rows, IsOwner
  <2>3. CASE ~r.known
    BY <1>3, <2>1, <2>3
  <2>4. QED
    BY <2>2, <2>3
<1>4. QED
  BY <1>1, <1>2, <1>3, ChangeIs

(* Who is an owner decides what is harmless.                               *)
LEMMA HarmlessKept ==
  ASSUME NEW at, at.target \in People,
         Owners(members, at.tenant)' = Owners(members, at.tenant)
  PROVE  Harmless(at) => Harmless(at)'
<1>1. CountOwners(at.tenant)' = CountOwners(at.tenant)
  BY DEF CountOwners
<1>2. IsOwner(members[at.tenant][at.target])' <=> IsOwner(members[at.tenant][at.target])
  BY DEF Owners
<1>3. QED
  BY <1>1, <1>2 DEF Harmless

LEMMA AuthorisedStarts == Init => Authorised
<1>1. SUFFICES ASSUME Init PROVE Authorised
  OBVIOUS
<1>2. inFile \in BOOLEAN /\ members \in Books
  <2>1. inFile \in BOOLEAN
    BY <1>1 DEF Init
  <2>2. members \in [Tenants -> [People -> Rows]]
    BY <1>1, AccessAssumption DEF Init
  <2>3. QED
    BY <2>1, <2>2 DEF Books
<1>3. Idle \in Handling
  BY AccessAssumption DEF Idle, Handling, Stages, Changes
<1>4. TypeOK
  <2>1. handler \in [Handlers -> Handling]
    BY <1>1, <1>3 DEF Init
  <2>2. changes \in 0..MaxChanges /\ faults \in 0..MaxFaults /\ raced \in BOOLEAN
    <3>1. changes = 0 /\ faults = 0 /\ raced = FALSE
      BY <1>1 DEF Init
    <3>2. MaxChanges \in Nat /\ MaxFaults \in Nat
      BY AccessAssumption
    <3>3. changes \in 0..MaxChanges /\ faults \in 0..MaxFaults
      BY <3>1, <3>2
    <3>4. raced \in BOOLEAN
      BY <3>1
    <3>5. QED
      BY <3>3, <3>4
  <2>3. QED
    BY <1>2, <2>1, <2>2 DEF TypeOK, Handling
<1>5. Idle.stage = "idle"
  BY DEF Idle
<1>6. ASSUME NEW h \in Handlers PROVE Rightful(h, handler[h])
  BY <1>1, <1>5 DEF Init, Rightful, Acting, Outranking, Counted, AtGate, Rewriting, Resolved
<1>7. QED
  BY <1>4, <1>6 DEF Authorised

LEMMA Typed ==
  ASSUME Authorised
  PROVE  /\ members \in Books /\ members \in [Tenants -> [People -> Rows]] /\ inFile \in BOOLEAN
         /\ handler \in [Handlers -> Handling]
         /\ changes \in 0..MaxChanges /\ faults \in 0..MaxFaults /\ raced \in BOOLEAN
BY DEF Authorised, TypeOK, Handling, Books

(* A handler goes on, and nothing is written.                              *)
LEMMA GoesOnOnly ==
  ASSUME Authorised, NEW h \in Handlers, NEW at \in Handling,
         handler' = [handler EXCEPT ![h] = at], inFile' = inFile, members' = members,
         changes' \in 0..MaxChanges, faults' \in 0..MaxFaults, raced' = raced,
         Acting(h, at), Outranking(h, at), at.stage \in Resolved /\ ~at.stale => Harmless(at)
  PROVE  Authorised'
<1>1. handler \in [Handlers -> Handling]
  BY Typed
<1>2. TypeOK'
  <2>1. handler' \in [Handlers -> Handling]
    BY <1>1
  <2>2. QED
    BY <2>1, Typed DEF TypeOK, Handling
<1>3. ASSUME NEW g \in Handlers PROVE Rightful(g, handler[g])'
  <2>1. PICK be \in Handling : be = handler'[g]
    BY <1>1
  <2>2. Acting(g, be) /\ Outranking(g, be) /\ (be.stage \in Resolved /\ ~be.stale => Harmless(be))
    <3>1. CASE g = h
      BY <3>1, <1>1, <2>1
    <3>2. CASE g # h
      <4>1. be = handler[g]
        BY <3>2, <1>1, <2>1
      <4>2. QED
        BY <4>1 DEF Authorised, Rightful, Counted
    <3>3. QED
      BY <3>1, <3>2
  <2>3. Harmless(be) => Harmless(be)'
    BY DEF Harmless, CountOwners, Owners
  <2>4. Acting(g, be) /\ Outranking(g, be) /\ Counted(be)'
    BY <2>2, <2>3 DEF Counted
  <2>5. QED
    BY <2>1, <2>4 DEF Rightful, Acting, Outranking, Counted, Harmless
<1>4. QED
  BY <1>2, <1>3 DEF Authorised

(* The stages of a handler, one field at a time.                           *)
LEMMA AtStage ==
  ASSUME NEW at \in Handling, NEW stage \in Stages
  PROVE  LET on == [at EXCEPT !.stage = stage]
         IN /\ on \in Handling /\ on.stage = stage
            /\ on.actor = at.actor /\ on.tenant = at.tenant /\ on.holds = at.holds
            /\ on.change = at.change /\ on.target = at.target /\ on.stale = at.stale
            /\ on.book = at.book
BY DEF Handling

LEMMA IdleIs ==
  /\ Idle \in Handling /\ Idle.stage = "idle"
  /\ \A h : Acting(h, Idle) /\ Outranking(h, Idle)
<1>1. /\ Idle.stage = "idle" /\ Idle \in Handling
  BY AccessAssumption DEF Idle, Handling, Stages, Changes
<1>2. QED
  BY <1>1 DEF Acting, Outranking, AtGate, Rewriting, Resolved

LEMMA DoneKeeps ==
  ASSUME Authorised, NEW h \in Handlers, Done(h), inFile' = inFile, members' = members,
         changes' \in 0..MaxChanges, faults' \in 0..MaxFaults, raced' = raced
  PROVE  Authorised'
BY IdleIs, GoesOnOnly DEF Done, Resolved

(* A handler moves to the stage after.                                     *)
LEMMA StageKeeps ==
  ASSUME Authorised, NEW h \in Handlers, NEW stage \in {"granted", "looked", "counting", "clear"},
         handler' = [handler EXCEPT ![h].stage = stage],
         UNCHANGED <<inFile, members, changes, faults, raced>>,
         handler[h].stage # "idle", handler[h].change.op # "run",
         stage = "granted" => handler[h].change.op # "assign",
         h \notin Shells /\ stage # "granted" /\ handler[h].change.op = "assign"
           => MayGrant(handler[h].holds, handler[h].change.role),
         stage = "clear" => Harmless(handler[h])
  PROVE  Authorised'
<1> DEFINE at == handler[h]
           on == [at EXCEPT !.stage = stage]
<1>1. at \in Handling /\ Acting(h, at)
  BY Typed DEF Authorised, Rightful
<1>2. /\ on \in Handling /\ on.stage = stage /\ on.actor = at.actor /\ on.tenant = at.tenant
      /\ on.holds = at.holds /\ on.change = at.change /\ on.target = at.target
  BY <1>1, AtStage DEF Stages, Resolved
<1>3. handler' = [handler EXCEPT ![h] = on]
  BY Typed
<1>4. Acting(h, on) /\ Outranking(h, on) /\ (on.stage \in Resolved => Harmless(on))
  <2> HIDE DEF on
  <2>1. Acting(h, on)
    BY <1>1, <1>2 DEF Acting, AtGate, Rewriting
  <2>2. Outranking(h, on)
    BY <1>2 DEF Outranking
  <2>3. QED
    BY <1>2, <2>1, <2>2 DEF Harmless, Resolved
<1>5. /\ inFile' = inFile /\ members' = members /\ raced' = raced
      /\ changes' \in 0..MaxChanges /\ faults' \in 0..MaxFaults
  BY Typed
<1> HIDE DEF on
<1>6. QED
  BY <1>2, <1>3, <1>4, <1>5, GoesOnOnly

LEMMA AuthenticateKeeps ==
  ASSUME Authorised, NEW h \in Handlers, Authenticate(h)
  PROVE  Authorised'
<1>1. PICK person \in People, target \in People, change \in Changes :
        handler' = [handler EXCEPT ![h] =
          [Idle EXCEPT !.stage = "authenticated", !.actor = person, !.target = target,
                       !.tenant = Ambient(person), !.change = change]]
  BY DEF Authenticate
<1> DEFINE at == [Idle EXCEPT !.stage = "authenticated", !.actor = person, !.target = target,
                       !.tenant = Ambient(person), !.change = change]
<1>2. Ambient(person) \in Tenants /\ Ambient(person) = HomeOf[person]
  BY AccessAssumption DEF Ambient
<1>3. /\ at \in Handling /\ at.stage = "authenticated" /\ at.actor = person /\ at.target = target
      /\ at.tenant = HomeOf[person] /\ at.change = change
  BY <1>2, IdleIs DEF Handling, Stages
<1>4. Acting(h, at) /\ Outranking(h, at) /\ at.stage \notin Resolved
  <2>1. h \notin Shells
    BY DEF Authenticate
  <2> HIDE DEF at
  <2>2. QED
    BY <1>3, <2>1 DEF Acting, Outranking, AtGate, Rewriting, Resolved
<1>5. /\ changes' \in 0..MaxChanges /\ faults' \in 0..MaxFaults
      /\ inFile' = inFile /\ members' = members /\ raced' = raced
  <2>1. MaxChanges \in Nat
    BY AccessAssumption
  <2>2. QED
    BY <2>1, Typed DEF Authenticate
<1> HIDE DEF at
<1>6. handler' = [handler EXCEPT ![h] = at]
  BY <1>1 DEF at
<1>7. QED
  BY <1>3, <1>4, <1>5, <1>6, GoesOnOnly

LEMMA ShellKeeps ==
  ASSUME Authorised, NEW h \in Handlers, Shell(h)
  PROVE  Authorised'
<1>1. PICK t \in Tenants, target \in People, change \in Changes :
        /\ change.op # "run"
        /\ handler' = [handler EXCEPT ![h] =
             [Idle EXCEPT !.tenant = t, !.target = target, !.change = change,
                          !.stage = IF change.op = "assign"
                                    THEN AfterAssigning(change.role) ELSE "granted"]]
  BY DEF Shell
<1> DEFINE stage == IF change.op = "assign" THEN AfterAssigning(change.role) ELSE "granted"
           at == [Idle EXCEPT !.tenant = t, !.target = target, !.change = change, !.stage = stage]
<1>2. /\ stage \in {"clear", "looked", "granted"}
      /\ stage = "clear" => change.op = "assign" /\ change.role = "owner"
      /\ stage = "granted" => change.op # "assign"
  BY DEF AfterAssigning
<1> HIDE DEF stage
<1>3. /\ at \in Handling /\ at.stage = stage /\ at.target = target
      /\ at.tenant = t /\ at.change = change
  <2>1. stage \in Stages
    BY <1>2 DEF Stages, Resolved
  <2>2. QED
    BY <2>1, IdleIs DEF Handling
<1>4. Acting(h, at) /\ Outranking(h, at) /\ (at.stage \in Resolved => Harmless(at))
  <2>1. h \in Shells
    BY DEF Shell
  <2> HIDE DEF at
  <2>2. QED
    BY <1>1, <1>2, <1>3, <2>1 DEF Acting, Outranking, Harmless, AtGate, Rewriting, Resolved
<1>5. /\ changes' \in 0..MaxChanges /\ faults' \in 0..MaxFaults
      /\ inFile' = inFile /\ members' = members /\ raced' = raced
  <2>1. MaxChanges \in Nat
    BY AccessAssumption
  <2>2. QED
    BY <2>1, Typed DEF Shell
<1>6. handler' = [handler EXCEPT ![h] = at]
  BY <1>1 DEF stage
<1> HIDE DEF at
<1>7. QED
  BY <1>3, <1>4, <1>5, <1>6, GoesOnOnly

(* What is found lets nobody past a change, and gives nobody a role.       *)
LEMMA DecidedIs ==
  ASSUME NEW h \in Handlers \ Shells, NEW at \in Handling, Acting(h, at), at.stage # "idle"
  PROVE  LET on == Decided(at)
         IN /\ on \in Handling /\ on.stage \in {"gated", "idle"}
            /\ Acting(h, on) /\ Outranking(h, on)
<1>1. CASE Decided(at) = Idle
  BY <1>1, IdleIs
<1>2. CASE Decided(at) # Idle
  <2> DEFINE on == [at EXCEPT !.stage = "gated", !.holds = None, !.book = None]
  <2>1. Decided(at) = on /\ at.change.op # "run"
    BY <1>2 DEF Decided
  <2>2. "gated" \in Stages
    BY DEF Stages
  <2>3. /\ on \in Handling /\ on.stage = "gated" /\ on.actor = at.actor
        /\ on.tenant = at.tenant /\ on.change = at.change /\ on.target = at.target
    BY <2>2 DEF Handling
  <2> HIDE DEF on
  <2>4. Acting(h, on) /\ Outranking(h, on)
    BY <2>1, <2>3 DEF Acting, Outranking, AtGate, Rewriting, Resolved
  <2>5. QED
    BY <2>1, <2>3, <2>4
<1>3. QED
  BY <1>1, <1>2

LEMMA GateKeeps ==
  ASSUME Authorised, NEW h \in Handlers, Gate(h)
  PROVE  Authorised'
<1> DEFINE at    == handler[h]
           found == [at EXCEPT !.holds = Found(h)]
           seen  == [found EXCEPT !.stage = "seen"]
<1>1. at \in Handling /\ Acting(h, at) /\ at.stage = "authenticated"
  BY Typed DEF Authorised, Rightful, Gate, Reads, At
<1>2. h \notin Shells /\ at.actor \in People /\ at.tenant \in Tenants
  BY <1>1 DEF Acting, Handling, AtGate
<1>3. Found(h) \in Roles \cup {None}
  <2>1. members[at.tenant][at.actor] \in Rows
    BY <1>2, Typed
  <2>2. QED
    BY <1>2, <2>1, ResolveIs DEF Found, RowOf
<1>4. /\ found \in Handling /\ found.stage = at.stage /\ found.actor = at.actor
      /\ found.tenant = at.tenant /\ found.change = at.change /\ found.target = at.target
  BY <1>1, <1>3 DEF Handling
<1> HIDE DEF found
<1>5. Acting(h, found)
  BY <1>1, <1>2, <1>4 DEF Acting, AtGate, Rewriting
<1>6. /\ inFile' = inFile /\ members' = members /\ raced' = raced
      /\ changes' \in 0..MaxChanges /\ faults' \in 0..MaxFaults
  BY Typed DEF Gate
<1>7. CASE handler' = [handler EXCEPT ![h] = Decided(found)]
  <2> DEFINE on == Decided(found)
  <2>1. /\ on \in Handling /\ on.stage \in {"gated", "idle"}
        /\ Acting(h, on) /\ Outranking(h, on)
    BY <1>1, <1>2, <1>4, <1>5, DecidedIs
  <2>2. handler' = [handler EXCEPT ![h] = on] /\ on.stage \notin Resolved
    BY <1>7, <2>1 DEF Resolved
  <2> HIDE DEF on
  <2>3. QED
    BY <1>6, <2>1, <2>2, GoesOnOnly
<1>8. CASE handler' = [handler EXCEPT ![h] = seen]
  <2>1. "seen" \in Stages
    BY DEF Stages
  <2>2. /\ seen \in Handling /\ seen.stage = "seen" /\ seen.actor = at.actor
        /\ seen.tenant = at.tenant /\ seen.change = at.change /\ seen.target = at.target
    BY <1>4, <2>1, AtStage
  <2> HIDE DEF seen
  <2>3. Acting(h, seen) /\ Outranking(h, seen) /\ seen.stage \notin Resolved
    BY <1>1, <1>2, <2>2 DEF Acting, Outranking, AtGate, Rewriting, Resolved
  <2>4. QED
    BY <1>6, <1>8, <2>2, <2>3, GoesOnOnly
<1>9. QED
  BY <1>7, <1>8 DEF Gate, found

(* The file is read, by who has its lock.                                  *)
LEMMA OpensKeeps ==
  ASSUME Authorised, NEW h \in Handlers, Opens(h)
  PROVE  Authorised'
<1> DEFINE at    == handler[h]
           stage == IF at.stage = "seen" THEN "touching" ELSE "rewriting"
           on    == [at EXCEPT !.stage = stage, !.book = members]
<1>1. /\ at \in Handling /\ Acting(h, at) /\ Outranking(h, at) /\ Counted(at)
      /\ at.stage \in {"seen", "clear"}
  BY Typed DEF Authorised, Rightful, Opens
<1>2. handler' = [handler EXCEPT ![h] = on]
  BY <1>1, Typed DEF Opens, Handling, At
<1>3. /\ stage \in {"touching", "rewriting"} /\ stage \in Stages
      /\ at.stage = "seen" => stage = "touching"
      /\ at.stage = "clear" => stage = "rewriting"
  BY DEF Stages, Rewriting
<1> HIDE DEF stage
<1>4. members \in Books
  BY Typed
<1>5. /\ on \in Handling /\ on.stage = stage /\ on.actor = at.actor /\ on.holds = at.holds
      /\ on.tenant = at.tenant /\ on.change = at.change /\ on.target = at.target
      /\ on.stale = at.stale /\ on.book = members
  BY <1>1, <1>3, <1>4 DEF Handling
<1> HIDE DEF on
<1>6. Acting(h, on)
  BY <1>1, <1>3, <1>4, <1>5 DEF Acting, AtGate, Rewriting
<1>7. Outranking(h, on)
  BY <1>1, <1>3, <1>5 DEF Outranking, Resolved
<1>8. on.stage \in Resolved /\ ~on.stale => Harmless(on)
  BY <1>1, <1>3, <1>5 DEF Counted, Harmless, Resolved
<1>9. /\ inFile' = inFile /\ members' = members /\ raced' = raced
      /\ changes' \in 0..MaxChanges /\ faults' \in 0..MaxFaults
  BY Typed DEF Opens
<1>10. QED
  BY <1>2, <1>5, <1>6, <1>7, <1>8, <1>9, GoesOnOnly

LEMMA GrantKeeps ==
  ASSUME Authorised, NEW h \in Handlers, Grant(h)
  PROVE  Authorised'
<1> DEFINE at == handler[h]
           found == Found(h)
           on(stage) == [[at EXCEPT !.stage = stage] EXCEPT !.holds = found]
<1>1. at \in Handling /\ Acting(h, at) /\ at.stage = "gated" /\ at.change \in Changes
  BY Typed DEF Authorised, Rightful, Grant, Reads, At, Handling
<1>2. h \notin Shells /\ at.change.op # "run" /\ at.actor \in People /\ at.tenant \in Tenants
  BY <1>1 DEF Acting, Handling, AtGate
<1>3. found \in Roles \cup {None}
  <2>1. members[at.tenant][at.actor] \in Rows
    BY <1>2, Typed
  <2>2. QED
    BY <1>2, <2>1, ResolveIs DEF Found, RowOf
<1> HIDE DEF found
<1>4. ASSUME NEW stage \in Stages
      PROVE  /\ on(stage) \in Handling /\ on(stage).stage = stage /\ on(stage).holds = found
             /\ on(stage).actor = at.actor /\ on(stage).tenant = at.tenant
             /\ on(stage).change = at.change /\ on(stage).target = at.target
  BY <1>1, <1>3 DEF Handling
<1>5. /\ inFile' = inFile /\ members' = members /\ raced' = raced
      /\ changes' \in 0..MaxChanges /\ faults' \in 0..MaxFaults
  BY Typed DEF Grant
<1>6. CASE at.change.op # "assign"
  <2>1. handler' = [handler EXCEPT ![h] = on("granted")]
    <3>1. handler' = [handler EXCEPT ![h].stage = "granted", ![h].holds = found]
      BY <1>6 DEF Grant, found
    <3>2. QED
      BY <3>1, <1>1, Typed
  <2>2. "granted" \in Stages
    BY DEF Stages
  <2> DEFINE now == on("granted")
  <2>3. /\ now \in Handling /\ now.stage = "granted" /\ now.actor = at.actor
        /\ now.tenant = at.tenant /\ now.change = at.change /\ now.target = at.target
    BY <1>4, <2>2
  <2> HIDE DEF now
  <2>4. Acting(h, now) /\ Outranking(h, now) /\ now.stage \notin Resolved
    BY <1>1, <1>2, <1>6, <2>3 DEF Acting, Outranking, AtGate, Rewriting, Resolved
  <2>5. handler' = [handler EXCEPT ![h] = now]
    BY <2>1 DEF now
  <2>6. QED
    BY <1>5, <2>3, <2>4, <2>5, GoesOnOnly
<1>7. CASE at.change.op = "assign" /\ MayGrant(found, at.change.role)
  <2> DEFINE stage == AfterAssigning(at.change.role)
             now == on(stage)
  <2>1. handler' = [handler EXCEPT ![h] = now]
    <3>1. handler' = [[handler EXCEPT ![h].stage = "granted", ![h].holds = found]
                        EXCEPT ![h].stage = stage]
      BY <1>7 DEF Grant, found
    <3>2. QED
      BY <3>1, <1>1, Typed
  <2>2. stage \in Stages /\ stage \in {"clear", "looked"}
        /\ (stage = "clear" => at.change.role = "owner")
    BY DEF Stages, Resolved, AfterAssigning
  <2> HIDE DEF stage
  <2>3. /\ now \in Handling /\ now.stage = stage /\ now.actor = at.actor /\ now.holds = found
        /\ now.tenant = at.tenant /\ now.change = at.change /\ now.target = at.target
    BY <1>4, <2>2
  <2> HIDE DEF now
  <2>4. Acting(h, now) /\ Outranking(h, now) /\ (now.stage \in Resolved => Harmless(now))
    BY <1>1, <1>2, <1>7, <2>2, <2>3 DEF Acting, Outranking, Harmless, AtGate, Rewriting, Resolved
  <2>5. QED
    BY <1>5, <2>1, <2>3, <2>4, GoesOnOnly
<1>8. CASE at.change.op = "assign" /\ ~MayGrant(found, at.change.role)
  <2>1. Done(h)
    BY <1>8 DEF Grant, found, Done
  <2>2. QED
    BY <1>5, <2>1, DoneKeeps
<1>9. QED
  BY <1>6, <1>7, <1>8

LEMMA LooksKeep ==
  ASSUME Authorised, NEW h \in Handlers, LookAtTarget(h) \/ LookAtFloor(h) \/ Count(h)
  PROVE  Authorised'
<1> DEFINE at == handler[h]
<1>1. at \in Handling /\ Acting(h, at) /\ Outranking(h, at) /\ at.change \in Changes
  BY Typed DEF Authorised, Rightful, Handling
<1>2. UNCHANGED <<inFile, members, changes, faults, raced>>
  BY DEF LookAtTarget, LookAtFloor, Count
<1>3. CASE Done(h)
  BY <1>2, <1>3, DoneKeeps, Typed
<1>4. CASE LookAtTarget(h) /\ ~Done(h)
  <2> DEFINE stage == IF at.change.op = "restore" THEN "clear" ELSE "looked"
  <2>1. at.stage = "granted" /\ handler' = [handler EXCEPT ![h].stage = stage]
    BY <1>4 DEF LookAtTarget, Done, Reads, At
  <2>2. stage \in {"clear", "looked"} /\ (stage = "clear" => Harmless(at))
    BY DEF Harmless
  <2> HIDE DEF stage
  <2>3. at.change.op # "assign" /\ at.change.op # "run"
    BY <1>1, <2>1 DEF Acting, Outranking, AtGate
  <2>4. QED
    BY <1>2, <2>1, <2>2, <2>3, StageKeeps
<1>5. CASE LookAtFloor(h) /\ ~Done(h)
  <2> DEFINE stage == IF IsOwner(Target(h)) THEN "counting" ELSE "clear"
  <2>1. at.stage = "looked" /\ handler' = [handler EXCEPT ![h].stage = stage]
    BY <1>5 DEF LookAtFloor, Go, Reads, At
  <2>2. stage \in {"clear", "counting"} /\ (stage = "clear" => Harmless(at))
    BY DEF Harmless, Target, RowOf
  <2> HIDE DEF stage
  <2>3. /\ at.change.op # "run"
        /\ h \notin Shells /\ at.change.op = "assign" => MayGrant(at.holds, at.change.role)
    BY <1>1, <2>1 DEF Acting, Outranking, AtGate
  <2>4. QED
    BY <1>2, <2>1, <2>2, <2>3, StageKeeps
<1>6. CASE Count(h) /\ ~Done(h)
  <2>1. at.stage = "counting" /\ handler' = [handler EXCEPT ![h].stage = "clear"]
        /\ ~(CountOwners(at.tenant) <= 1)
    BY <1>6 DEF Count, Go, Reads, At
  <2>2. Harmless(at)
    <3>1. CountOwners(at.tenant) \in Nat
      <4>1. IsFiniteSet(Owners(members, at.tenant))
        BY AccessAssumption, FS_Subset DEF Owners
      <4>2. QED
        BY <4>1, FS_CardinalityType DEF CountOwners
    <3>2. QED
      BY <2>1, <3>1 DEF Harmless
  <2>3. /\ at.change.op # "run"
        /\ h \notin Shells /\ at.change.op = "assign" => MayGrant(at.holds, at.change.role)
    BY <1>1, <2>1 DEF Acting, Outranking, AtGate
  <2>4. QED
    BY <1>2, <2>1, <2>2, <2>3, StageKeeps
<1>7. QED
  BY <1>3, <1>4, <1>5, <1>6

LEMMA StoreFailsKeeps ==
  ASSUME Authorised, NEW h \in Handlers, StoreFails(h)
  PROVE  Authorised'
<1> DEFINE at == handler[h]
           on == IF at.stage \in {"seen", "touching"} THEN Decided(at) ELSE Idle
<1>1. at \in Handling /\ Acting(h, at) /\ at.stage # "idle"
  BY Typed DEF Authorised, Rightful, StoreFails
<1>2. /\ on \in Handling /\ on.stage \in {"gated", "idle"}
      /\ Acting(h, on) /\ Outranking(h, on)
  <2>1. CASE at.stage \in {"seen", "touching"}
    <3>1. h \notin Shells
      BY <1>1, <2>1 DEF Acting, AtGate
    <3>2. QED
      BY <1>1, <2>1, <3>1, DecidedIs
  <2>2. CASE at.stage \notin {"seen", "touching"}
    BY <2>2, IdleIs
  <2>3. QED
    BY <2>1, <2>2
<1>3. handler' = [handler EXCEPT ![h] = on]
  BY Typed DEF StoreFails
<1>4. /\ inFile' = inFile /\ members' = members /\ raced' = raced
      /\ changes' \in 0..MaxChanges /\ faults' \in 0..MaxFaults
  <2>1. MaxFaults \in Nat
    BY AccessAssumption
  <2>2. QED
    BY <2>1, Typed DEF StoreFails
<1> HIDE DEF on
<1>5. on.stage \notin Resolved
  BY <1>2 DEF Resolved
<1>6. QED
  BY <1>2, <1>3, <1>4, <1>5, GoesOnOnly

(* What a write is made to.                                                *)
LEMMA BaseIs ==
  ASSUME Authorised, NEW h \in Handlers, inFile => handler[h].stage \in Rewriting
  PROVE  /\ Base(h) \in Books
         /\ \A t \in Tenants, p \in People : Base(h)[t][p] \in Rows
<1>1. Base(h) \in Books
  BY Typed DEF Base, Authorised, Rightful, Acting
<1>2. QED
  BY <1>1 DEF Books

(* Being seen makes nobody an owner, and gives nobody a role.              *)
LEMMA SeenIsAll ==
  ASSUME Authorised, NEW h \in Handlers, Touch(h)
  PROVE  LET at == handler[h]
             on == Decided(at)
         IN /\ at.stage \in {"seen", "touching"} /\ (inFile => at.stage \in Rewriting)
            /\ Sighted(h) \in Books
            /\ \A t \in Tenants, p \in People :
                 /\ IsOwner(Sighted(h)[t][p]) <=> IsOwner(Base(h)[t][p])
                 /\ Resolve(p, Sighted(h)[t][p]) = Resolve(p, Base(h)[t][p])
            /\ on \in Handling /\ on.stage \in {"gated", "idle"}
            /\ Acting(h, on) /\ Outranking(h, on)
<1> DEFINE at  == handler[h]
           base == Base(h)[at.tenant][at.actor]
<1>1. at.stage \in {"seen", "touching"} /\ (inFile => at.stage \in Rewriting)
  BY DEF Touch, At, Rewriting
<1>2. at \in Handling /\ Acting(h, at)
  BY Typed DEF Authorised, Rightful
<1>3. h \notin Shells /\ at.actor \in People /\ at.tenant \in Tenants
  BY <1>1, <1>2 DEF Acting, Handling, AtGate
<1>4. /\ Decided(at) \in Handling /\ Decided(at).stage \in {"gated", "idle"}
      /\ Acting(h, Decided(at)) /\ Outranking(h, Decided(at))
  BY <1>1, <1>2, <1>3, DecidedIs
<1>5. Base(h) \in Books /\ base \in Rows
  BY <1>1, <1>3, BaseIs
<1>6. CASE base.known
  BY <1>1, <1>4, <1>5, <1>6 DEF Sighted
<1>7. CASE ~base.known
  <2>1. PICK book \in Books : book = Base(h)
    BY <1>5
  <2>2. Sighted(h) = [book EXCEPT ![at.tenant][at.actor] = Granted(None)]
    BY <1>7, <2>1 DEF Sighted
  <2>3. book[at.tenant][at.actor] = NoRow
    BY <1>5, <1>7, <2>1, RowsAre
  <2>4. Sighted(h) \in Books
    BY <1>3, <2>2, SightedIsNothing DEF Books
  <2>5. ASSUME NEW t \in Tenants, NEW p \in People
        PROVE  /\ IsOwner(Sighted(h)[t][p]) <=> IsOwner(book[t][p])
               /\ Resolve(p, Sighted(h)[t][p]) = Resolve(p, book[t][p])
    <3>1. CASE t = at.tenant /\ p = at.actor
      <4>1. Sighted(h)[t][p] = Granted(None) /\ book[t][p] = NoRow
        BY <1>3, <2>2, <2>3, <3>1 DEF Books
      <4>2. QED
        BY <4>1, SightedIsNothing
    <3>2. CASE ~(t = at.tenant /\ p = at.actor)
      <4>1. Sighted(h)[t][p] = book[t][p]
        BY <1>3, <2>2, <3>2 DEF Books
      <4>2. QED
        BY <4>1
    <3>3. QED
      BY <3>1, <3>2
  <2>6. QED
    BY <1>1, <1>4, <2>1, <2>4, <2>5
<1>8. QED
  BY <1>6, <1>7

(* What is written, and where.                                             *)
LEMMA Written ==
  ASSUME Authorised, NEW h \in Handlers, Write(h)
  PROVE  LET at    == handler[h]
             base   == Base(h)[at.tenant][at.target]
             after == Changed(base, at.change)
         IN /\ at \in Handling /\ at.stage \in Resolved /\ (inFile => at.stage \in Rewriting)
            /\ at.target \in People /\ at.tenant \in Tenants
            /\ at.change \in Changes /\ at.change.op # "run"
            /\ base \in Rows /\ after \in Rows
            /\ Altered(h) \in Books
            /\ \/ Altered(h) = members
               \/ \A t \in Tenants, p \in People :
                    Altered(h)[t][p] = IF t = at.tenant /\ p = at.target
                                       THEN after ELSE Base(h)[t][p]
<1> DEFINE at    == handler[h]
           base   == Base(h)[at.tenant][at.target]
           after == Changed(base, at.change)
<1>1. /\ at \in Handling /\ at.stage \in Resolved /\ (inFile => at.stage \in Rewriting)
      /\ Acting(h, at)
  BY Typed DEF Authorised, Rightful, Write, At, Resolved, Rewriting
<1>2. /\ at.target \in People /\ at.tenant \in Tenants /\ at.change \in Changes
      /\ at.change.op # "run"
  BY <1>1 DEF Acting, Handling, AtGate, Resolved
<1>3. Base(h) \in Books /\ base \in Rows
  BY <1>1, <1>2, BaseIs
<1>4. after \in Rows
  BY <1>2, <1>3, ChangedIs
<1>5. \/ Altered(h) = members
      \/ Altered(h) = [Base(h) EXCEPT ![at.tenant][at.target] = after]
  BY DEF Altered
<1>6. members \in Books
  BY Typed
<1> HIDE DEF after
<1>7. CASE Altered(h) = members
  BY <1>1, <1>2, <1>3, <1>4, <1>6, <1>7 DEF after
<1>8. CASE Altered(h) = [Base(h) EXCEPT ![at.tenant][at.target] = after]
  <2>1. PICK book \in Books : book = Base(h)
    BY <1>3
  <2>2. Altered(h) = [book EXCEPT ![at.tenant][at.target] = after]
    BY <1>8, <2>1
  <2>3. Altered(h) \in Books
    BY <1>2, <1>4, <2>2 DEF Books
  <2>4. \A t \in Tenants, p \in People :
          Altered(h)[t][p] = IF t = at.tenant /\ p = at.target THEN after ELSE book[t][p]
    BY <1>2, <2>2 DEF Books
  <2>5. QED
    BY <1>1, <1>2, <1>3, <1>4, <2>1, <2>3, <2>4 DEF after
<1>9. QED
  BY <1>5, <1>7, <1>8

(* Whoever has counted the owners is told of every write that changes them.*)
LEMMA SavesKeep ==
  ASSUME Authorised, NEW h \in Handlers, NEW book \in Books, NEW on \in Handling,
         Saves(h, book, on), Acting(h, on), Outranking(h, on), on.stage \notin Resolved
  PROVE  Authorised'
<1> DEFINE moves(at)  == at.stage \in Resolved /\ Owners(book, at.tenant) # Owners(members, at.tenant)
           stales(at) == [at EXCEPT !.stale = @ \/ moves(at)]
<1>1. handler' = [g \in Handlers |-> IF g = h THEN on ELSE stales(handler[g])]
  BY Typed DEF Saves
<1>2. members' = book /\ inFile' = inFile
  BY DEF Saves
<1>3. raced' \in BOOLEAN /\ changes' \in 0..MaxChanges /\ faults' \in 0..MaxFaults
  <2>1. raced' \in BOOLEAN
    <3>1. raced' = (handler[h].stale \/ Base(h) # members)
      BY DEF Saves
    <3>2. QED
      BY <3>1
  <2>2. QED
    BY <2>1, Typed DEF Saves
<1>4. ASSUME NEW at \in Handling PROVE moves(at) \in BOOLEAN
  OBVIOUS
<1> HIDE DEF moves
<1>5. ASSUME NEW at \in Handling
      PROVE  /\ stales(at) \in Handling /\ stales(at).stage = at.stage /\ stales(at).actor = at.actor
             /\ stales(at).tenant = at.tenant /\ stales(at).holds = at.holds
             /\ stales(at).change = at.change /\ stales(at).target = at.target
             /\ stales(at).book = at.book /\ stales(at).stale = (at.stale \/ moves(at))
  BY <1>4 DEF Handling
<1> HIDE DEF stales
<1>6. handler' \in [Handlers -> Handling]
  BY <1>1, <1>5, Typed
<1>7. TypeOK'
  BY <1>2, <1>3, <1>6, Typed DEF TypeOK, Handling
<1>8. ASSUME NEW g \in Handlers PROVE Rightful(g, handler[g])'
  <2>1. CASE g = h
    <3>1. handler'[g] = on
      BY <1>1, <2>1
    <3>2. QED
      BY <2>1, <3>1 DEF Rightful, Acting, Outranking, Counted
  <2>2. CASE g # h
    <3>1. PICK at \in Handling : at = handler[g]
      BY Typed
    <3>2. PICK be \in Handling : be = handler'[g]
      BY <1>6
    <3>3. /\ be.stage = at.stage /\ be.actor = at.actor /\ be.tenant = at.tenant
          /\ be.holds = at.holds /\ be.change = at.change /\ be.target = at.target
          /\ be.book = at.book /\ be.stale = (at.stale \/ moves(at))
      BY <1>1, <1>5, <2>2, <3>1, <3>2
    <3>4. Acting(g, at) /\ Outranking(g, at) /\ Counted(at)
      BY <3>1 DEF Authorised, Rightful
    <3>5. Acting(g, be) /\ Outranking(g, be)
      BY <3>3, <3>4 DEF Acting, Outranking
    <3>6. ASSUME be.stage \in Resolved, ~be.stale PROVE Harmless(be)'
      <4>1. Harmless(at) /\ ~moves(at) /\ at.stage \in Resolved
        BY <3>3, <3>4, <3>6 DEF Counted
      <4>2. at.target \in People
        BY <3>4, <4>1 DEF Acting, Resolved
      <4>3. Owners(members, at.tenant)' = Owners(members, at.tenant)
        BY <1>2, <4>1 DEF moves, Owners
      <4>4. Harmless(at)'
        BY <4>1, <4>2, <4>3, HarmlessKept
      <4>5. QED
        BY <3>3, <4>4 DEF Harmless
    <3>7. QED
      BY <3>2, <3>5, <3>6 DEF Rightful, Acting, Outranking, Counted, Harmless
  <2>3. QED
    BY <2>1, <2>2
<1>9. QED
  BY <1>7, <1>8 DEF Authorised

LEMMA TouchKeeps ==
  ASSUME Authorised, NEW h \in Handlers, Touch(h)
  PROVE  Authorised'
<1> DEFINE on == Decided(handler[h])
<1>1. Saves(h, Sighted(h), on)
  BY DEF Touch
<1>2. /\ Sighted(h) \in Books /\ on \in Handling /\ on.stage \in {"gated", "idle"}
      /\ Acting(h, on) /\ Outranking(h, on)
  BY SeenIsAll
<1>3. on.stage \notin Resolved
  BY <1>2 DEF Resolved
<1> HIDE DEF on
<1>4. QED
  BY <1>1, <1>2, <1>3, SavesKeep

LEMMA WriteKeeps ==
  ASSUME Authorised, NEW h \in Handlers, Write(h)
  PROVE  Authorised'
<1>1. Saves(h, Altered(h), Idle) /\ Altered(h) \in Books
  BY Written DEF Write
<1>2. Idle.stage \notin Resolved
  BY IdleIs DEF Resolved
<1>3. QED
  BY <1>1, <1>2, IdleIs, SavesKeep

LEMMA AuthorisedKept == Authorised /\ [Next]_vars => Authorised'
<1>1. SUFFICES ASSUME Authorised, [Next]_vars PROVE Authorised'
  OBVIOUS
<1>2. CASE UNCHANGED vars
  BY <1>1, <1>2 DEF vars, Authorised, TypeOK, Rightful, Acting, Outranking, Counted, Harmless,
     CountOwners, Owners
<1>3. CASE Next
  BY <1>1, <1>3, AuthenticateKeeps, GateKeeps, TouchKeeps, GrantKeeps, ShellKeeps, LooksKeep,
     OpensKeeps, WriteKeeps, StoreFailsKeeps DEF Next
<1>4. QED
  BY <1>1, <1>2, <1>3

----------------------------------------------------------------------------
(* What a write does to what people may do.                                *)

LEMMA TouchIsByRight ==
  ASSUME Authorised, NEW h \in Handlers, Touch(h), NEW t \in Tenants, NEW p \in People,
         Effective(t, p)' # Effective(t, p)
  PROVE  Undone(h, t, p)
<1> DEFINE at == handler[h]
           on == Decided(at)
<1>1. /\ (inFile => at.stage \in Rewriting) /\ on \in Handling /\ on.stage \in {"gated", "idle"}
      /\ Resolve(p, Sighted(h)[t][p]) = Resolve(p, Base(h)[t][p])
  BY SeenIsAll
<1>2. members' = Sighted(h) /\ handler'[h] = on
  BY DEF Touch, Saves
<1>3. Effective(t, p)' = Resolve(p, Base(h)[t][p])
  BY <1>1, <1>2 DEF Effective
<1>4. Base(h) # members
  BY <1>3 DEF Effective
<1>5. inFile /\ Base(h) = at.book
  BY <1>4 DEF Base
<1> HIDE DEF on
<1>6. handler'[h].stage \notin Rewriting
  BY <1>1, <1>2 DEF Rewriting
<1>7. QED
  BY <1>1, <1>3, <1>4, <1>5, <1>6 DEF Undone

LEMMA WriteIsByRight ==
  ASSUME Authorised, NEW h \in Handlers, Write(h), NEW t \in Tenants, NEW p \in People,
         Effective(t, p)' # Effective(t, p)
  PROVE  Asked(h, t, p) \/ Undone(h, t, p)
<1> DEFINE at    == handler[h]
           base   == Base(h)[at.tenant][at.target]
           after == Changed(base, at.change)
<1>1. /\ at.stage \in Resolved /\ (inFile => at.stage \in Rewriting)
      /\ at.change \in Changes /\ at.change.op # "run"
      /\ base \in Rows /\ after \in Rows
      /\ \/ Altered(h) = members
         \/ Altered(h)[t][p] = IF t = at.tenant /\ p = at.target THEN after ELSE Base(h)[t][p]
  BY Written
<1>2. members' = Altered(h) /\ handler'[h] = Idle
  BY DEF Write, Saves
<1>3. Altered(h) # members
  BY <1>2 DEF Effective
<1>4. CASE t = at.tenant /\ p = at.target
  <2>1. Effective(t, p)' = Resolve(p, after) /\ base = Base(h)[t][p]
    BY <1>1, <1>2, <1>3, <1>4 DEF Effective
  <2>2. Acting(h, at) /\ Outranking(h, at)
    BY DEF Authorised, Rightful
  <2>3. h \notin Shells => t = HomeOf[at.actor]
    BY <1>1, <1>4, <2>2 DEF Acting, Resolved
  <2>4. ASSUME h \notin Shells, at.change.op = "assign", Above(Resolve(p, after), Resolve(p, base))
        PROVE  Rank(Resolve(p, after)) <= Rank(at.holds)
    <3>1. at.change.role \in Roles
      BY <1>1, <2>4, ChangeIs
    <3>2. after.role = at.change.role /\ after.suspended = base.suspended
      BY <1>1, <2>4, ChangedIs
    <3> HIDE DEF after, base
    <3>3. Resolve(p, after) = at.change.role
      BY <1>1, <2>4, <3>1, <3>2, GivenIsGiven
    <3>4. MayGrant(at.holds, at.change.role)
      BY <1>1, <2>2, <2>4 DEF Outranking
    <3>5. QED
      BY <3>3, <3>4 DEF MayGrant, Outranks
  <2> HIDE DEF after, base
  <2>5. QED
    BY <1>1, <1>2, <1>4, <2>1, <2>3, <2>4 DEF Asked
<1>5. CASE ~(t = at.tenant /\ p = at.target)
  <2>1. Effective(t, p)' = Resolve(p, Base(h)[t][p])
    BY <1>1, <1>2, <1>3, <1>5 DEF Effective
  <2>2. Base(h) # members
    BY <2>1 DEF Effective
  <2>3. inFile /\ Base(h) = at.book
    BY <2>2 DEF Base
  <2>4. handler'[h].stage \notin Rewriting
    BY <1>2, IdleIs DEF Rewriting
  <2>5. QED
    BY <1>1, <2>1, <2>2, <2>3, <2>4 DEF Undone
<1>6. QED
  BY <1>4, <1>5

LEMMA OthersOwn ==
  ASSUME NEW t \in Tenants, CountOwners(t) > 1, NEW p \in People
  PROVE  \E q \in People : q # p /\ IsOwner(members[t][q])
<1> DEFINE owners == Owners(members, t)
<1>1. SUFFICES ASSUME \A q \in People : IsOwner(members[t][q]) => q = p PROVE FALSE
  OBVIOUS
<1>2. owners = {} \/ owners = {p}
  BY <1>1 DEF Owners
<1>3. Cardinality({}) = 0 /\ Cardinality({p}) = 1
  BY FS_EmptySet, FS_Singleton
<1>4. Cardinality(owners) > 1
  BY DEF CountOwners
<1> HIDE DEF owners
<1>5. Cardinality(owners) = 0 \/ Cardinality(owners) = 1
  BY <1>2, <1>3
<1>6. QED
  BY <1>4, <1>5

LEMMA TouchLeavesOwner ==
  ASSUME Authorised, NEW h \in Handlers, Touch(h), NEW t \in Tenants,
         HasOwner(t), ~HasOwner(t)'
  PROVE  raced'
<1>1. SUFFICES ASSUME Base(h) = members PROVE FALSE
  BY DEF Touch, Saves
<1>2. \A p \in People : IsOwner(Sighted(h)[t][p]) <=> IsOwner(members[t][p])
  BY <1>1, SeenIsAll
<1>3. members' = Sighted(h)
  BY DEF Touch, Saves
<1>4. QED
  BY <1>2, <1>3 DEF HasOwner

LEMMA WriteLeavesOwner ==
  ASSUME Authorised, NEW h \in Handlers, Write(h), NEW t \in Tenants,
         HasOwner(t), ~HasOwner(t)'
  PROVE  raced'
<1> DEFINE at    == handler[h]
           base   == Base(h)[at.tenant][at.target]
           after == Changed(base, at.change)
<1>1. /\ at.stage \in Resolved /\ at.change \in Changes /\ at.change.op # "run"
      /\ base \in Rows /\ after \in Rows /\ at.target \in People
      /\ \/ Altered(h) = members
         \/ \A p \in People :
              Altered(h)[t][p] = IF t = at.tenant /\ p = at.target THEN after ELSE Base(h)[t][p]
  BY Written
<1>2. SUFFICES ASSUME ~at.stale, Base(h) = members PROVE FALSE
  BY DEF Write, Saves
<1>3. Harmless(at)
  BY <1>1, <1>2 DEF Authorised, Rightful, Counted
<1>4. PICK q \in People : IsOwner(members[t][q])
  BY DEF HasOwner
<1>5. members' = Altered(h)
  BY DEF Write, Saves
<1>6. \A p \in People : ~IsOwner(Altered(h)[t][p])
  BY <1>5 DEF HasOwner
<1>7. \A p \in People :
        Altered(h)[t][p] = IF t = at.tenant /\ p = at.target THEN after ELSE members[t][p]
  BY <1>1, <1>2, <1>4, <1>6
<1>8. t = at.tenant /\ q = at.target
  BY <1>4, <1>6, <1>7
<1>9. base = members[at.tenant][at.target] /\ IsOwner(base) /\ ~IsOwner(after)
  BY <1>2, <1>4, <1>6, <1>7, <1>8
<1> HIDE DEF after
<1>10. ~(at.change.op = "assign" /\ at.change.role = "owner") /\ at.change.op # "restore"
  BY <1>1, <1>9, ChangedIs DEF IsOwner, after
<1>11. CountOwners(t) > 1
  BY <1>3, <1>8, <1>9, <1>10 DEF Harmless
<1>12. PICK p \in People : p # q /\ IsOwner(members[t][p])
  BY <1>11, OthersOwn
<1>13. QED
  BY <1>6, <1>7, <1>8, <1>12

(* A step by which someone may do more or less, or a tenant loses owners.  *)
ByRight ==
  \A t \in Tenants, p \in People :
    Effective(t, p)' # Effective(t, p) =>
      \E h \in Handlers : Asked(h, t, p) \/ Undone(h, t, p)
LeavesOwner == \A t \in Tenants : HasOwner(t) /\ ~HasOwner(t)' => raced'

LEMMA StepsAreRight == Authorised /\ [Next]_vars => ByRight /\ LeavesOwner
<1>1. SUFFICES ASSUME Authorised, [Next]_vars PROVE ByRight /\ LeavesOwner
  OBVIOUS
<1>2. CASE UNCHANGED members
  BY <1>2 DEF ByRight, LeavesOwner, Effective, HasOwner
<1>3. ASSUME NEW h \in Handlers, Touch(h) PROVE ByRight /\ LeavesOwner
  BY <1>1, <1>3, TouchIsByRight, TouchLeavesOwner DEF ByRight, LeavesOwner
<1>4. ASSUME NEW h \in Handlers, Write(h) PROVE ByRight /\ LeavesOwner
  BY <1>1, <1>4, WriteIsByRight, WriteLeavesOwner DEF ByRight, LeavesOwner
<1>5. Next => UNCHANGED members \/ \E h \in Handlers : Touch(h) \/ Write(h)
  BY DEF Next, Authenticate, Gate, Grant, Shell, LookAtTarget, LookAtFloor, Count, Opens,
     StoreFails
<1>6. QED
  BY <1>1, <1>2, <1>3, <1>4, <1>5 DEF vars

(* The members are changed by right only (require_permission, the handlers *)
(* of /members, and rbacctl): by somebody of the tenant whose role was     *)
(* found, or from the host, giving no more than the giver had, but where a *)
(* rewrite of their file undoes what another process wrote; and a tenant   *)
(* loses its last owner only to two changes at once.                       *)
THEOREM AuthorityIsRight == MCSpec => AuthorityHolds
<1>1. MCSpec => MCInit /\ [][MCNext]_MCvars
  BY PTL DEF MCSpec
<1>2. MCInit => Init
  BY DEF MCInit
<1>3. [MCNext]_MCvars => [Next]_vars
  BY DEF MCNext, MCvars, OfAccess, OfReports, OnPage
<1>4. Init => Authorised
  BY AuthorisedStarts
<1>5. Authorised /\ [Next]_vars => Authorised'
  BY AuthorisedKept
<1>6. Authorised /\ [Next]_vars => [ByRight]_vars /\ [LeavesOwner]_vars
  BY StepsAreRight
<1>7. AuthorityHolds <=> [][ByRight]_vars /\ [][LeavesOwner]_vars
  BY DEF AuthorityHolds, AuthorityIsGranted, FloorGivesWayToRaces, ByRight, LeavesOwner
<1>8. QED
  BY <1>1, <1>2, <1>3, <1>4, <1>5, <1>6, <1>7, PTL

----------------------------------------------------------------------------
(* Reports.                                                                *)

(* The formats that are written by a step of save or of regenerate.        *)
Formatted(at) ==
  CASE at = "pdf"  -> {"pdf"}
    [] at = "json" -> {"pdf", "json"}
    [] at \in {"markdown", "found"} -> {"pdf", "json", "markdown"}
    [] OTHER -> {}

ReportTypes ==
  /\ content \in [Ids -> SUBSET Report!All]
  /\ entry \in [Ids -> [listed : BOOLEAN, owner : {"alice", None}, expired : BOOLEAN]]
  /\ age \in [Ids -> {"none", "fresh", "old"}] /\ saving \in [Ids -> Report!Steps]
  /\ again \in [Ids -> [at : Report!Steps, owner : {"alice", None}]]
  /\ sweep \in [ids : SUBSET Ids, todo : SUBSET (Nat \X (1..3))]

(* A sweep of the disk is of what is old, and deletes what it has listed.  *)
SweepsTheOld ==
  /\ store = "table" => sweep = Report!Resting
  /\ \A i \in sweep.ids : age[i] = "old"
  /\ \A file \in sweep.todo : order[file[1]] \in sweep.ids

(* What save has written stays; what regenerate has written stays or was   *)
(* overtaken by a sweep.                                                   *)
WritesStay(i) ==
  /\ saving[i] \in {"begun"} \cup Report!All =>
       age[i] = "fresh" /\ Formatted(saving[i]) \subseteq content[i]
  /\ Formatted(again[i].at) \subseteq content[i] \/ i \in overtook

(* Who renders again has found the owner, unless the index dropped them.   *)
OwnerIsFound(i) ==
  /\ again[i].at # "none" => entry[i].listed \/ i \in unlisted
  /\ again[i].at = "found" => again[i].owner = "alice" \/ i \in unlisted

OfferStands(i) ==
  /\ Report!OnOffer(i) => content[i] = Report!All \/ i \in sweep.ids \cup overtook
  /\ entry[i].listed => entry[i].owner = "alice" \/ i \in unlisted

Stands(i) == WritesStay(i) /\ OwnerIsFound(i) /\ OfferStands(i)

ReportsStand == ReportTypes /\ SweepsTheOld /\ \A i \in Ids : Stands(i)

LEMMA FormatsAre ==
  /\ Report!All = {"pdf", "json", "markdown"}
  /\ DOMAIN Report!Formats = 1..3
  /\ \A k \in 1..3 : Report!Formats[k] \in Report!All
  /\ Report!Steps = {"none", "begun", "found", "done", "pdf", "json", "markdown"}
  /\ DOMAIN Report!Following = {"begun", "pdf", "json"}
  /\ Report!Following["begun"] = "pdf" /\ Report!Following["pdf"] = "json"
  /\ Report!Following["json"] = "markdown"
<1>1. /\ DOMAIN Report!Formats = 1..3 /\ Report!Formats[1] = "pdf"
      /\ Report!Formats[2] = "json" /\ Report!Formats[3] = "markdown"
  BY DEF Report!Formats
<1>2. Report!All = {Report!Formats[1], Report!Formats[2], Report!Formats[3]}
  <2>1. DOMAIN Report!Formats = {1, 2, 3}
    BY <1>1
  <2>2. QED
    BY <2>1 DEF Report!All
<1>3. /\ DOMAIN Report!Following = {"begun", "pdf", "json"}
      /\ Report!Following["begun"] = "pdf" /\ Report!Following["pdf"] = "json"
      /\ Report!Following["json"] = "markdown"
  BY DEF Report!Following
<1>4. \A k \in 1..3 : Report!Formats[k] \in Report!All
  BY <1>1, <1>2
<1>5. QED
  BY <1>1, <1>2, <1>3, <1>4 DEF Report!Steps

LEMMA FormattedIs ==
  /\ Formatted("none") = {} /\ Formatted("begun") = {} /\ Formatted("done") = {}
  /\ Formatted("pdf") = {"pdf"} /\ Formatted("json") = {"pdf", "json"}
  /\ Formatted("markdown") = Report!All /\ Formatted("found") = Report!All
  /\ \A at \in DOMAIN Report!Following :
       Formatted(Report!Following[at]) = Formatted(at) \cup {Report!Following[at]}
BY FormatsAre DEF Formatted

LEMMA ReportsStart == Report!Init => ReportsStand
<1>1. SUFFICES ASSUME Report!Init PROVE ReportsStand
  OBVIOUS
<1>2. /\ content = [i \in Ids |-> {}] /\ entry = [i \in Ids |-> Report!NoEntry]
      /\ age = [i \in Ids |-> "none"] /\ saving = [i \in Ids |-> "none"]
      /\ again = [i \in Ids |-> [at |-> "none", owner |-> None]]
      /\ sweep = [ids |-> {}, todo |-> {}]
  BY <1>1 DEF Report!Init, Report!Resting
<1>3. Report!NoEntry \in [listed : BOOLEAN, owner : {"alice", None}, expired : BOOLEAN]
      /\ Report!NoEntry.listed = FALSE
  BY DEF Report!NoEntry
<1>4. ReportTypes
  BY <1>2, <1>3, FormatsAre DEF ReportTypes
<1>5. SweepsTheOld
  BY <1>2 DEF SweepsTheOld, Report!Resting
<1>6. ASSUME NEW i \in Ids PROVE Stands(i)
  <2>1. saving[i] = "none" /\ again[i].at = "none" /\ ~entry[i].listed
    BY <1>2, <1>3
  <2>2. "none" \notin {"begun"} \cup Report!All
    BY FormatsAre
  <2>3. QED
    BY <2>1, <2>2, FormattedIs
       DEF Stands, WritesStay, OwnerIsFound, OfferStands, Report!OnOffer
<1>7. QED
  BY <1>4, <1>5, <1>6 DEF ReportsStand

(* What the invariant says of a report, and of the sweep.                  *)
LEMMA OfReport ==
  ASSUME ReportsStand, NEW i \in Ids
  PROVE  /\ content[i] \subseteq Report!All /\ age[i] \in {"none", "fresh", "old"}
         /\ entry[i].listed \in BOOLEAN /\ entry[i].expired \in BOOLEAN
         /\ entry[i].owner \in {"alice", None}
         /\ saving[i] \in Report!Steps
         /\ again[i].at \in Report!Steps /\ again[i].owner \in {"alice", None}
         /\ WritesStay(i) /\ OwnerIsFound(i) /\ OfferStands(i)
BY DEF ReportsStand, ReportTypes, Stands

LEMMA OfSweep ==
  ASSUME ReportsStand
  PROVE  /\ content \in [Ids -> SUBSET Report!All]
         /\ entry \in [Ids -> [listed : BOOLEAN, owner : {"alice", None}, expired : BOOLEAN]]
         /\ age \in [Ids -> {"none", "fresh", "old"}] /\ saving \in [Ids -> Report!Steps]
         /\ again \in [Ids -> [at : Report!Steps, owner : {"alice", None}]]
         /\ sweep \in [ids : SUBSET Ids, todo : SUBSET (Nat \X (1..3))]
         /\ store = "table" => sweep = Report!Resting
         /\ \A i \in sweep.ids : age[i] = "old"
         /\ \A file \in sweep.todo : order[file[1]] \in sweep.ids
BY DEF ReportsStand, ReportTypes, SweepsTheOld

(* A report is there once it is begun, and grows old when it is saved.     *)
LEMMA EnsureKeeps ==
  ASSUME ReportsStand, NEW i \in Ids, Report!Ensure(i) \/ Report!Age(i)
  PROVE  ReportsStand'
<1>1. UNCHANGED <<store, content, entry, order, again, sweep, overtook, unlisted>>
  BY DEF Report!Ensure, Report!Age, Report!kept
<1>2. /\ saving'[i] \in {"begun"} \cup Report!All => saving'[i] = "begun" /\ age'[i] = "fresh"
      /\ age[i] = "old" => age'[i] = "old"
      /\ saving' \in [Ids -> Report!Steps] /\ age' \in [Ids -> {"none", "fresh", "old"}]
      /\ \A j \in Ids \ {i} : saving'[j] = saving[j] /\ age'[j] = age[j]
  BY OfSweep, FormatsAre DEF Report!Ensure, Report!Age
<1>3. ReportTypes'
  BY <1>1, <1>2, OfSweep DEF ReportTypes
<1>4. SweepsTheOld'
  BY <1>1, <1>2, OfSweep DEF SweepsTheOld, Report!Resting
<1>5. ASSUME NEW j \in Ids PROVE Stands(j)'
  <2>1. WritesStay(j)'
    <3>1. CASE j = i
      BY <3>1, <1>1, <1>2, OfReport, FormattedIs DEF WritesStay
    <3>2. CASE j # i
      BY <3>2, <1>1, <1>2, OfReport DEF WritesStay
    <3>3. QED
      BY <3>1, <3>2
  <2>2. OwnerIsFound(j)' /\ OfferStands(j)'
    BY <1>1, OfReport DEF OwnerIsFound, OfferStands, Report!OnOffer
  <2>3. QED
    BY <2>1, <2>2 DEF Stands
<1>6. QED
  BY <1>3, <1>4, <1>5 DEF ReportsStand

(* A report is written in one format, by save or again.                    *)
LEMMA RenderKeeps ==
  ASSUME ReportsStand, NEW i \in Ids, Report!Render(i) \/ Report!RenderAgain(i)
  PROVE  ReportsStand'
<1>1. UNCHANGED <<store, entry, order, age, sweep, overtook, unlisted>>
  BY DEF Report!Render, Report!RenderAgain
<1>2. PICK at \in {"begun", "pdf", "json"} :
        /\ content' = [content EXCEPT ![i] = @ \cup {Report!Following[at]}]
        /\ \/ /\ saving[i] = at /\ again' = again
              /\ saving' = [saving EXCEPT ![i] = Report!Following[at]]
           \/ /\ again[i].at = at /\ saving' = saving
              /\ again' = [again EXCEPT ![i].at = Report!Following[at]]
  BY FormatsAre, OfSweep DEF Report!Render, Report!RenderAgain, Report!Stored
<1> DEFINE next == Report!Following[at]
<1>3. next \in Report!All /\ Formatted(next) = Formatted(at) \cup {next} /\ next # "found"
      /\ at # "none" /\ at \in {"begun"} \cup Report!All
  BY <1>2, FormatsAre, FormattedIs
<1> HIDE DEF next
<1>4. /\ saving' \in [Ids -> Report!Steps]
      /\ again' \in [Ids -> [at : Report!Steps, owner : {"alice", None}]]
      /\ \A j \in Ids \ {i} : saving'[j] = saving[j] /\ again'[j] = again[j]
      /\ \/ saving[i] = at /\ again'[i] = again[i] /\ saving'[i] = next
         \/ /\ again[i].at = at /\ saving'[i] = saving[i]
            /\ again'[i].at = next /\ again'[i].owner = again[i].owner
  <2>1. at # "none" /\ at \in Report!Steps /\ next \in Report!Steps
    BY <1>3, FormatsAre
  <2>2. CASE /\ saving[i] = at /\ again' = again /\ saving' = [saving EXCEPT ![i] = next]
    BY <2>1, <2>2, OfSweep
  <2>3. CASE /\ again[i].at = at /\ saving' = saving /\ again' = [again EXCEPT ![i].at = next]
    BY <2>1, <2>3, OfSweep
  <2>4. QED
    BY <1>2, <2>2, <2>3 DEF next
<1>5. /\ content' \in [Ids -> SUBSET Report!All] /\ content'[i] = content[i] \cup {next}
      /\ \A j \in Ids \ {i} : content'[j] = content[j]
  BY <1>2, <1>3, OfSweep DEF next
<1>6. ReportTypes'
  BY <1>1, <1>4, <1>5, OfSweep DEF ReportTypes
<1>7. SweepsTheOld'
  BY <1>1, OfSweep DEF SweepsTheOld, Report!Resting
<1>8. ASSUME NEW j \in Ids PROVE Stands(j)'
  <2>1. WritesStay(j)'
    <3>1. CASE j = i
      BY <3>1, <1>1, <1>3, <1>4, <1>5, OfReport DEF WritesStay
    <3>2. CASE j # i
      BY <3>2, <1>1, <1>4, <1>5, OfReport DEF WritesStay
    <3>3. QED
      BY <3>1, <3>2
  <2>2. OwnerIsFound(j)'
    <3>1. CASE j = i
      BY <3>1, <1>1, <1>3, <1>4, OfReport DEF OwnerIsFound
    <3>2. CASE j # i
      BY <3>2, <1>1, <1>4, OfReport DEF OwnerIsFound
    <3>3. QED
      BY <3>1, <3>2
  <2>3. OfferStands(j)'
    <3>1. content[j] \subseteq content'[j] /\ content'[j] \subseteq Report!All
      BY <1>5, OfReport
    <3>2. QED
      BY <3>1, <1>1, OfReport DEF OfferStands, Report!OnOffer
  <2>4. QED
    BY <2>1, <2>2, <2>3 DEF Stands
<1>9. QED
  BY <1>6, <1>7, <1>8 DEF ReportsStand

LEMMA RegenerateKeeps ==
  ASSUME ReportsStand, NEW i \in Ids, Report!Regenerate(i) \/ Report!FindEntry(i)
  PROVE  ReportsStand'
<1>1. UNCHANGED <<store, content, entry, order, age, saving, sweep, overtook>>
  BY DEF Report!Regenerate, Report!FindEntry, Report!kept
<1>2. /\ again' \in [Ids -> [at : Report!Steps, owner : {"alice", None}]]
      /\ \A j \in Ids \ {i} : again'[j] = again[j]
      /\ unlisted \subseteq unlisted'
      /\ \/ again'[i].at = "begun" /\ (entry[i].listed \/ i \in unlisted')
         \/ /\ again[i].at = "markdown" /\ again'[i].at = "found"
            /\ again'[i].owner = entry[i].owner
  <2>1. CASE Report!Regenerate(i)
    <3>1. again' = [again EXCEPT ![i].at = "begun"]
          /\ unlisted' = IF entry[i].listed THEN unlisted ELSE unlisted \cup {i}
      BY <2>1 DEF Report!Regenerate
    <3>2. QED
      BY <3>1, OfSweep, FormatsAre
  <2>2. CASE Report!FindEntry(i)
    <3>1. again' = [again EXCEPT ![i] = [at |-> "found", owner |-> entry[i].owner]]
          /\ unlisted' = unlisted /\ again[i].at = "markdown"
      BY <2>2 DEF Report!FindEntry, Report!OwnerFound
    <3>2. entry[i].owner \in {"alice", None}
      BY OfReport
    <3>3. QED
      BY <3>1, <3>2, OfSweep, FormatsAre
  <2>3. QED
    BY <2>1, <2>2
<1>3. ReportTypes'
  BY <1>1, <1>2, OfSweep DEF ReportTypes
<1>4. SweepsTheOld'
  BY <1>1, OfSweep DEF SweepsTheOld, Report!Resting
<1>5. ASSUME NEW j \in Ids PROVE Stands(j)'
  <2>1. WritesStay(j)'
    BY <1>1, <1>2, OfReport, FormattedIs DEF WritesStay
  <2>2. OwnerIsFound(j)'
    <3>1. CASE j = i
      BY <3>1, <1>1, <1>2, OfReport DEF OwnerIsFound, OfferStands
    <3>2. CASE j # i
      BY <3>2, <1>1, <1>2, OfReport DEF OwnerIsFound
    <3>3. QED
      BY <3>1, <3>2
  <2>3. OfferStands(j)'
    BY <1>1, <1>2, OfReport DEF OfferStands, Report!OnOffer
  <2>4. QED
    BY <2>1, <2>2, <2>3 DEF Stands
<1>6. QED
  BY <1>3, <1>4, <1>5 DEF ReportsStand

(* An entry is written for what is whole, under an owner that is its own.  *)
LEMMA UpsertKeeps ==
  ASSUME ReportsStand, NEW i \in Ids, NEW owner \in {"alice", None}, Report!Upsert(i, owner),
         UNCHANGED <<store, content, age, sweep, overtook>>,
         content[i] = Report!All \/ i \in overtook,
         owner = "alice" \/ i \in unlisted,
         saving' \in [Ids -> Report!Steps],
         again' \in [Ids -> [at : Report!Steps, owner : {"alice", None}]],
         \A j \in Ids : saving'[j] = saving[j] \/ saving'[j] = "done",
         \A j \in Ids : again'[j] = again[j] \/ again'[j].at = "none"
  PROVE  ReportsStand'
<1>1. /\ sweep = Report!Resting /\ unlisted \subseteq unlisted'
      /\ \A j \in Ids : \/ entry'[j] = [listed |-> TRUE, owner |-> owner, expired |-> FALSE] /\ j = i
                        \/ entry'[j] = Report!NoEntry /\ j # i /\ j \in unlisted'
                        \/ entry'[j] = entry[j] /\ j # i
      /\ DOMAIN entry' = Ids
      /\ entry' = [j \in Ids |-> entry'[j]]
  <2>1. \E gone :
          /\ Report!Unlocked
          /\ IF store = "files" THEN unlisted' = unlisted \cup gone ELSE UNCHANGED unlisted
          /\ entry' = [j \in Ids |->
               CASE j = i -> [listed |-> TRUE, owner |-> owner, expired |-> FALSE]
                 [] j # i /\ store = "files" /\ j \in gone -> Report!NoEntry
                 [] OTHER -> entry[j]]
    BY DEF Report!Upsert
  <2>2. QED
    BY <2>1 DEF Report!Unlocked
<1>2. ASSUME NEW j \in Ids
      PROVE  /\ entry'[j] \in [listed : BOOLEAN, owner : {"alice", None}, expired : BOOLEAN]
             /\ j # i => \/ entry'[j] = entry[j]
                         \/ ~entry'[j].listed /\ j \in unlisted'
             /\ j = i => entry'[j].owner = owner /\ entry'[j].listed
  <2>1. Report!NoEntry \in [listed : BOOLEAN, owner : {"alice", None}, expired : BOOLEAN]
        /\ Report!NoEntry.listed = FALSE
    BY DEF Report!NoEntry
  <2> DEFINE put == [listed |-> TRUE, owner |-> owner, expired |-> FALSE]
  <2>2. put \in [listed : BOOLEAN, owner : {"alice", None}, expired : BOOLEAN]
        /\ put.listed = TRUE /\ put.owner = owner
    OBVIOUS
  <2>3. entry[j] \in [listed : BOOLEAN, owner : {"alice", None}, expired : BOOLEAN]
    BY OfSweep
  <2>4. \/ entry'[j] = put /\ j = i
        \/ entry'[j] = Report!NoEntry /\ j # i /\ j \in unlisted'
        \/ entry'[j] = entry[j] /\ j # i
    BY <1>1
  <2> HIDE DEF put
  <2>5. QED
    BY <2>1, <2>2, <2>3, <2>4
<1>3. entry' \in [Ids -> [listed : BOOLEAN, owner : {"alice", None}, expired : BOOLEAN]]
  BY <1>1, <1>2
<1>4. ReportTypes'
  BY <1>3, OfSweep DEF ReportTypes
<1>5. SweepsTheOld'
  BY <1>1, OfSweep DEF SweepsTheOld, Report!Resting
<1>6. ASSUME NEW j \in Ids PROVE Stands(j)'
  <2>1. WritesStay(j)'
    BY OfReport, FormatsAre, FormattedIs DEF WritesStay
  <2>2. OwnerIsFound(j)'
    BY <1>1, <1>2, OfReport DEF OwnerIsFound
  <2>3. OfferStands(j)'
    <3>1. CASE j = i
      BY <3>1, <1>1, <1>2 DEF OfferStands, Report!OnOffer
    <3>2. CASE j # i
      BY <3>2, <1>1, <1>2, OfReport DEF OfferStands, Report!OnOffer
    <3>3. QED
      BY <3>1, <3>2
  <2>4. QED
    BY <2>1, <2>2, <2>3 DEF Stands
<1>7. QED
  BY <1>4, <1>5, <1>6 DEF ReportsStand

LEMMA IndexKeeps ==
  ASSUME ReportsStand, NEW i \in Ids, Report!Index(i) \/ Report!IndexAgain(i)
  PROVE  ReportsStand'
<1>1. CASE Report!Index(i)
  <2>1. /\ Report!Upsert(i, "alice") /\ saving[i] = "markdown"
        /\ UNCHANGED <<store, content, age, sweep, overtook>>
        /\ again' = again /\ saving' = [saving EXCEPT ![i] = "done"]
    BY <1>1 DEF Report!Index, Report!Rendered
  <2>2. content[i] = Report!All
    BY <2>1, OfReport, FormatsAre, FormattedIs DEF WritesStay
  <2>3. saving' \in [Ids -> Report!Steps] /\ \A j \in Ids : saving'[j] \in {saving[j], "done"}
    BY <2>1, OfSweep, FormatsAre
  <2>4. QED
    BY <2>1, <2>2, <2>3, OfSweep, UpsertKeeps
<1>2. CASE Report!IndexAgain(i)
  <2>1. /\ Report!Upsert(i, again[i].owner) /\ again[i].at = "found"
        /\ UNCHANGED <<store, content, age, sweep, overtook>>
        /\ saving' = saving /\ again' = [again EXCEPT ![i] = [at |-> "none", owner |-> None]]
    BY <1>2 DEF Report!IndexAgain
  <2>2. content[i] = Report!All \/ i \in overtook
    BY <2>1, OfReport, FormattedIs DEF WritesStay
  <2>3. again[i].owner \in {"alice", None} /\ (again[i].owner = "alice" \/ i \in unlisted)
    BY <2>1, OfReport DEF OwnerIsFound
  <2>4. /\ again' \in [Ids -> [at : Report!Steps, owner : {"alice", None}]]
        /\ \A j \in Ids : again'[j] = again[j] \/ again'[j].at = "none"
    BY <2>1, OfSweep, FormatsAre
  <2>5. QED
    BY <2>1, <2>2, <2>3, <2>4, OfSweep, UpsertKeeps
<1>3. QED
  BY <1>1, <1>2

(* What is deleted at once is no longer on offer.                          *)
LEMMA PruneKeeps ==
  ASSUME ReportsStand, Report!PruneTable
  PROVE  ReportsStand'
<1>1. /\ UNCHANGED <<store, order, age, saving, again, sweep, unlisted>> /\ store = "table"
      /\ content' = [j \in Ids |-> IF age[j] = "old" THEN {} ELSE content[j]]
      /\ entry' = [j \in Ids |-> IF age[j] = "old"
                                 THEN [entry[j] EXCEPT !.expired = entry[j].listed] ELSE entry[j]]
      /\ overtook' = (overtook \ Report!Old) \cup {j \in Report!Old : again[j].at # "none"}
  <2>1. \A j \in Ids : j \in Report!Old <=> age[j] = "old"
    BY DEF Report!Old
  <2>2. QED
    BY <2>1 DEF Report!PruneTable, Report!Overtaken
<1>2. ASSUME NEW j \in Ids
      PROVE  /\ content'[j] = IF age[j] = "old" THEN {} ELSE content[j]
             /\ entry'[j] \in [listed : BOOLEAN, owner : {"alice", None}, expired : BOOLEAN]
             /\ entry'[j].listed = entry[j].listed /\ entry'[j].owner = entry[j].owner
             /\ entry'[j].expired = IF age[j] = "old" THEN entry[j].listed ELSE entry[j].expired
             /\ j \in overtook' <=> IF age[j] = "old" THEN again[j].at # "none" ELSE j \in overtook
  BY <1>1, OfSweep DEF Report!Old
<1>3. ReportTypes'
  <2>1. entry' \in [Ids -> [listed : BOOLEAN, owner : {"alice", None}, expired : BOOLEAN]]
    BY <1>1, <1>2
  <2>2. content' \in [Ids -> SUBSET Report!All]
    BY <1>1, OfSweep
  <2>3. QED
    BY <1>1, <2>1, <2>2, OfSweep DEF ReportTypes
<1>4. SweepsTheOld'
  BY <1>1, OfSweep DEF SweepsTheOld, Report!Resting
<1>5. ASSUME NEW j \in Ids PROVE Stands(j)'
  <2>1. WritesStay(j)'
    BY <1>1, <1>2, OfReport, FormattedIs DEF WritesStay
  <2>2. OwnerIsFound(j)'
    BY <1>1, <1>2, OfReport DEF OwnerIsFound
  <2>3. OfferStands(j)'
    BY <1>1, <1>2, OfReport DEF OfferStands, Report!OnOffer
  <2>4. QED
    BY <2>1, <2>2, <2>3 DEF Stands
<1>6. QED
  BY <1>3, <1>4, <1>5 DEF ReportsStand

LEMMA SweepBeginsKeeps ==
  ASSUME ReportsStand, Report!SweepBegins
  PROVE  ReportsStand'
<1> DEFINE ids == {i \in Report!Old : entry[i].listed /\ ~entry[i].expired}
           todo == {n \in 1..Len(order) : order[n] \in ids} \X DOMAIN Report!Formats
<1>1. /\ UNCHANGED <<store, content, entry, order, age, saving, again, unlisted>>
      /\ store = "files" /\ sweep = Report!Resting
      /\ sweep' = [ids |-> ids, todo |-> todo]
      /\ overtook' = (overtook \ ids) \cup {i \in ids : again[i].at # "none"}
  BY DEF Report!SweepBegins, Report!Overtaken, Report!kept, Report!Unlocked
<1>2. /\ ids \subseteq Ids /\ \A i \in ids : age[i] = "old"
  BY DEF Report!Old
<1>3. todo \subseteq Nat \X (1..3) /\ \A file \in todo : order[file[1]] \in ids
  <2> HIDE DEF ids
  <2>1. QED
    BY FormatsAre
<1> HIDE DEF ids, todo
<1>4. sweep'.ids = ids /\ sweep'.todo = todo /\ sweep.ids = {}
  BY <1>1 DEF Report!Resting
<1>5. ReportTypes'
  BY <1>1, <1>2, <1>3, OfSweep DEF ReportTypes
<1>6. SweepsTheOld'
  BY <1>1, <1>2, <1>3, <1>4 DEF SweepsTheOld
<1>7. ASSUME NEW j \in Ids PROVE Stands(j)'
  <2>1. j \in overtook' <=> IF j \in ids THEN again[j].at # "none" ELSE j \in overtook
    BY <1>1
  <2>2. WritesStay(j)'
    BY <1>1, <2>1, OfReport, FormattedIs DEF WritesStay
  <2>3. OwnerIsFound(j)'
    BY <1>1, OfReport DEF OwnerIsFound
  <2>4. OfferStands(j)'
    BY <1>1, <1>4, <2>1, OfReport DEF OfferStands, Report!OnOffer
  <2>5. QED
    BY <2>2, <2>3, <2>4 DEF Stands
<1>8. QED
  BY <1>5, <1>6, <1>7 DEF ReportsStand

LEMMA UnlinkKeeps ==
  ASSUME ReportsStand, Report!Unlink
  PROVE  ReportsStand'
<1>1. PICK file \in sweep.todo :
        /\ content' = [content EXCEPT ![order[file[1]]] = @ \ {Report!Formats[file[2]]}]
        /\ overtook' = IF again[order[file[1]]].at = "none" THEN overtook
                       ELSE overtook \cup {order[file[1]]}
        /\ sweep' = [sweep EXCEPT !.todo = @ \ {file}]
  BY DEF Report!Unlink
<1> DEFINE i == order[file[1]]
<1>2. i \in sweep.ids /\ i \in Ids /\ age[i] = "old"
  BY OfSweep
<1>3. UNCHANGED <<store, entry, order, age, saving, again, unlisted>>
  BY DEF Report!Unlink
<1>4. store # "table"
  BY OfSweep DEF Report!Resting
<1> HIDE DEF i
<1>5. /\ content' \in [Ids -> SUBSET Report!All] /\ \A j \in Ids : j # i => content'[j] = content[j]
      /\ overtook' = IF again[i].at = "none" THEN overtook ELSE overtook \cup {i}
      /\ sweep'.ids = sweep.ids /\ sweep'.todo \subseteq sweep.todo
      /\ sweep' \in [ids : SUBSET Ids, todo : SUBSET (Nat \X (1..3))]
  BY <1>1, <1>2, OfSweep DEF i
<1>6. ReportTypes'
  BY <1>3, <1>5, OfSweep DEF ReportTypes
<1>7. SweepsTheOld'
  BY <1>3, <1>4, <1>5, OfSweep DEF SweepsTheOld
<1>8. ASSUME NEW j \in Ids PROVE Stands(j)'
  <2>1. WritesStay(j)'
    <3>1. CASE j = i
      BY <3>1, <1>2, <1>3, <1>5, OfReport, FormattedIs DEF WritesStay
    <3>2. CASE j # i
      BY <3>2, <1>3, <1>5, OfReport DEF WritesStay
    <3>3. QED
      BY <3>1, <3>2
  <2>2. OwnerIsFound(j)'
    BY <1>3, OfReport DEF OwnerIsFound
  <2>3. OfferStands(j)'
    BY <1>2, <1>3, <1>5, OfReport DEF OfferStands, Report!OnOffer
  <2>4. QED
    BY <2>1, <2>2, <2>3 DEF Stands
<1>9. QED
  BY <1>6, <1>7, <1>8 DEF ReportsStand

LEMMA SweepEndsKeeps ==
  ASSUME ReportsStand, Report!SweepEnds
  PROVE  ReportsStand'
<1>1. /\ UNCHANGED <<store, content, order, age, saving, again, overtook, unlisted>>
      /\ sweep' = Report!Resting
      /\ entry' = [i \in Ids |->
           IF i \in sweep.ids THEN [entry[i] EXCEPT !.expired = TRUE] ELSE entry[i]]
  BY DEF Report!SweepEnds
<1>2. ASSUME NEW j \in Ids
      PROVE  /\ entry'[j] \in [listed : BOOLEAN, owner : {"alice", None}, expired : BOOLEAN]
             /\ entry'[j].listed = entry[j].listed /\ entry'[j].owner = entry[j].owner
             /\ entry'[j].expired = (j \in sweep.ids \/ entry[j].expired)
  BY <1>1, OfSweep
<1>3. sweep'.ids = {} /\ sweep'.todo = {} /\ sweep' = [ids |-> {}, todo |-> {}]
  BY <1>1 DEF Report!Resting
<1>4. ReportTypes'
  <2>1. entry' \in [Ids -> [listed : BOOLEAN, owner : {"alice", None}, expired : BOOLEAN]]
    BY <1>1, <1>2
  <2>2. QED
    BY <1>1, <1>3, <2>1, OfSweep DEF ReportTypes
<1>5. SweepsTheOld'
  BY <1>1, <1>3 DEF SweepsTheOld, Report!Resting
<1>6. ASSUME NEW j \in Ids PROVE Stands(j)'
  <2>1. WritesStay(j)'
    BY <1>1, OfReport DEF WritesStay
  <2>2. OwnerIsFound(j)'
    BY <1>1, <1>2, OfReport DEF OwnerIsFound
  <2>3. OfferStands(j)'
    BY <1>1, <1>2, <1>3, OfReport DEF OfferStands, Report!OnOffer
  <2>4. QED
    BY <2>1, <2>2, <2>3 DEF Stands
<1>7. QED
  BY <1>4, <1>5, <1>6 DEF ReportsStand

LEMMA DiesKeeps ==
  ASSUME ReportsStand, Report!Dies
  PROVE  ReportsStand'
<1>1. UNCHANGED <<store, content, entry, order, age, unlisted>>
  BY DEF Report!Dies, Report!kept
<1>2. /\ \A j \in Ids : saving'[j] = saving[j] \/ saving'[j] \in {"none", "done"}
      /\ \A j \in Ids : again'[j] = again[j] \/ again'[j].at = "none"
      /\ saving' \in [Ids -> Report!Steps]
      /\ again' \in [Ids -> [at : Report!Steps, owner : {"alice", None}]]
      /\ \/ sweep' = sweep /\ overtook' = overtook
         \/ sweep' = Report!Resting /\ overtook' = overtook \cup sweep.ids
  <2>1. CASE /\ store = "files" /\ sweep' = Report!Resting
             /\ saving' = [i \in Ids |-> IF saving[i] # "none" THEN "done" ELSE saving[i]]
             /\ again' = [i \in Ids |-> [at |-> "none", owner |-> None]]
             /\ overtook' = overtook \cup sweep.ids
    BY <2>1, OfSweep, FormatsAre
  <2>2. CASE \E i \in Ids : /\ UNCHANGED <<sweep, again, overtook>>
                            /\ saving' = [saving EXCEPT ![i] = "done"]
    BY <2>2, OfSweep, FormatsAre
  <2>3. CASE \E i \in Ids : /\ UNCHANGED <<sweep, saving, overtook>>
                            /\ again' = [again EXCEPT ![i] = [at |-> "none", owner |-> None]]
    BY <2>3, OfSweep, FormatsAre
  <2>4. \/ /\ store = "files" /\ sweep' = Report!Resting
           /\ saving' = [i \in Ids |-> IF saving[i] # "none" THEN "done" ELSE saving[i]]
           /\ again' = [i \in Ids |-> [at |-> "none", owner |-> None]]
           /\ overtook' = overtook \cup sweep.ids
        \/ \E i \in Ids : /\ UNCHANGED <<sweep, again, overtook>>
                          /\ saving' = [saving EXCEPT ![i] = "done"]
        \/ \E i \in Ids : /\ UNCHANGED <<sweep, saving, overtook>>
                          /\ again' = [again EXCEPT ![i] = [at |-> "none", owner |-> None]]
    BY DEF Report!Dies
  <2>5. QED
    BY <2>1, <2>2, <2>3, <2>4
<1>3. ReportTypes'
  <2>1. Report!Resting \in [ids : SUBSET Ids, todo : SUBSET (Nat \X (1..3))]
    BY DEF Report!Resting
  <2>2. QED
    BY <1>1, <1>2, <2>1, OfSweep DEF ReportTypes
<1>4. SweepsTheOld'
  <2>1. Report!Resting.ids = {} /\ Report!Resting.todo = {}
    BY DEF Report!Resting
  <2>2. Report!Resting' = Report!Resting
    BY DEF Report!Resting
  <2>3. QED
    BY <1>1, <1>2, <2>1, <2>2, OfSweep DEF SweepsTheOld
<1>5. ASSUME NEW j \in Ids PROVE Stands(j)'
  <2>1. "none" \notin {"begun"} \cup Report!All /\ "done" \notin {"begun"} \cup Report!All
    BY FormatsAre
  <2>2. WritesStay(j)'
    BY <1>1, <1>2, <2>1, OfReport, FormattedIs DEF WritesStay
  <2>3. OwnerIsFound(j)'
    BY <1>1, <1>2, OfReport DEF OwnerIsFound
  <2>4. OfferStands(j)'
    BY <1>1, <1>2, OfReport DEF OfferStands, Report!OnOffer
  <2>5. QED
    BY <2>2, <2>3, <2>4 DEF Stands
<1>6. QED
  BY <1>3, <1>4, <1>5 DEF ReportsStand

LEMMA ReportsKept == ReportsStand /\ [Report!Next]_reportVars => ReportsStand'
<1>1. SUFFICES ASSUME ReportsStand, [Report!Next]_reportVars PROVE ReportsStand'
  OBVIOUS
<1>2. CASE UNCHANGED reportVars
  BY <1>1, <1>2 DEF reportVars, ReportsStand, ReportTypes, SweepsTheOld, Stands, WritesStay,
     OwnerIsFound, OfferStands, Report!OnOffer, Report!Resting
<1>3. CASE Report!Next
  BY <1>1, <1>3, EnsureKeeps, RenderKeeps, RegenerateKeeps, IndexKeeps, PruneKeeps,
     SweepBeginsKeeps, UnlinkKeeps, SweepEndsKeeps, DiesKeeps
     DEF Report!Next, Report!Saves, Report!Renders, Report!Sweeps
<1>4. QED
  BY <1>1, <1>2, <1>3
----------------------------------------------------------------------------
(* The page.                                                               *)

(* What the platform publishes of a job: three events at most, the last    *)
(* when it is over.                                                        *)
Logged(a) ==
  LET size == Len(log[a]) IN
  /\ size \in 1..3
  /\ \A n \in 1..size : log[a][n] = "ended" => n = size /\ row[a] \in Page!Terminal
  /\ row[a] = "pending" => log[a][size] = "queued"
  /\ log[a][size] = "queued" => size = 1
  /\ log[a][size] = "started" => size = 2

(* A request is of the page's investigation, and its answer is true.       *)
Truthful(h, r) ==
  r.op # "idle" =>
    /\ r.of = h.address /\ r.of \in Addresses
    /\ r.op = "final" => r.fallback \in Page!Terminal /\ r.fallback = row[r.of]
    /\ r.answer.kind = "missing" => r.of \in Missing
    /\ r.answer.kind = "given" /\ r.answer.status \in Page!Terminal =>
         r.answer.status = row[r.of]

AllRest(q) == \A i \in Page!Slots : q[i].op = "idle"

(* One way to follow a run at a time: a load, a timer for one, a stream,   *)
(* or polling.                                                             *)
OneWay(h, q) ==
  /\ h.address = None => h = Page!Unmounted /\ AllRest(q)
  /\ h.poller \in {None, h.address}
  /\ h.reading \subseteq {h.address} /\ h.retries \subseteq {h.address}
  /\ \A i \in Page!Slots : q[i].op = "load" =>
       /\ \A j \in Page!Slots : j # i => q[j].op = "idle"
       /\ h.retries = {} /\ h.reading = {} /\ h.poller = None /\ ~h.settled
  /\ h.retries # {} => AllRest(q) /\ h.reading = {} /\ h.poller = None /\ ~h.settled
  /\ h.reading # {} =>
       /\ AllRest(q) /\ h.poller = None /\ ~h.settled
       /\ h.stream = h.address /\ h.pos[h.address] <= h.delivered
  /\ h.poller # None => ~h.settled

(* The full read is made once the run is settled, and once.                *)
ReadOnce(h, q) ==
  /\ \A i \in Page!Slots : q[i].op = "final" => h.settled
  /\ \A i, j \in Page!Slots : q[i].op = "final" /\ q[j].op = "final" => i = j
  /\ h.settled =>
       \/ h.result = h.address \/ h.error
       \/ \E i \in Page!Slots : q[i].op = "final"

(* The timeline of the first events.                                       *)
Events(a, d) == [n \in 1..d |-> <<a, n>>]

(* The timeline is whole, and an outcome that is shown is real.            *)
Whole(h) == h.timeline = Events(h.address, h.delivered)
Shown(h) ==
  /\ Whole(h)
  /\ h.phase \in Page!Terminal => h.address \in Missing \/ h.phase = row[h.address]

PageStands ==
  /\ Page!TypeOK /\ Shown(hook)
  /\ \A a \in Addresses : Logged(a)
  /\ \A i \in Page!Slots : Truthful(hook, requests[i])
  /\ OneWay(hook, requests) /\ ReadOnce(hook, requests)

LEMMA PageAssumed ==
  /\ None \notin Addresses /\ Missing \subseteq Addresses
  /\ MaxPolls \in Nat \ {0} /\ MaxVisits \in Nat /\ MaxBreaks \in Nat
  /\ Page!Slots \subseteq Nat /\ 1 \in Page!Slots
<1>1. /\ None \notin Addresses /\ Missing \subseteq Addresses
      /\ MaxPolls \in Nat \ {0} /\ MaxVisits \in Nat /\ MaxBreaks \in Nat
  BY ServiceAssumption DEF Page!ConsoleAssumption
<1>2. QED
  BY <1>1 DEF Page!Slots

LEMMA EventsAre ==
  ASSUME NEW a \in Addresses, NEW d \in 0..3
  PROVE  /\ Events(a, d) \in Seq(Addresses \X (1..3))
         /\ Append(Events(a, d), <<a, d + 1>>) = Events(a, d + 1)
<1> DEFINE s == [n \in 1..d |-> <<a, n>>]
           t == [n \in 1..(d + 1) |-> <<a, n>>]
<1>1. \A n \in 1..d : <<a, n>> \in Addresses \X (1..3)
  OBVIOUS
<1>2. s \in [1..d -> Addresses \X (1..3)]
  BY <1>1
<1>3. s \in Seq(Addresses \X (1..3)) /\ Len(s) = d
  BY <1>2, d \in Nat
<1>4. Append(s, <<a, d + 1>>) = [n \in 1..(d + 1) |-> IF n <= d THEN s[n] ELSE <<a, d + 1>>]
  BY <1>3
<1>5. \A n \in 1..(d + 1) : (IF n <= d THEN s[n] ELSE <<a, d + 1>>) = <<a, n>>
  <2>1. \A n \in 1..d : s[n] = <<a, n>>
    OBVIOUS
  <2>2. QED
    BY <2>1
<1>6. QED
  BY <1>3, <1>4, <1>5 DEF Events

LEMMA UnmountedIs ==
  LET h == Page!Unmounted
  IN /\ h \in Page!Hook
     /\ h.address = None /\ h.phase = "idle" /\ h.timeline = <<>> /\ h.result = None
     /\ h.error = FALSE /\ h.delivered = 0 /\ h.settled = FALSE /\ h.stream = None
     /\ h.reading = {} /\ h.pos = [a \in Addresses |-> 0] /\ h.poller = None
     /\ h.retry = None /\ h.retries = {}
     /\ h.timeline = Events(h.address, h.delivered)
<1>1. <<>> \in Seq(Addresses \X (1..3))
  OBVIOUS
<1>2. <<>> = [n \in 1..0 |-> <<None, n>>]
  OBVIOUS
<1>3. QED
  BY <1>1, <1>2 DEF Page!Unmounted, Page!Hook, Events

LEMMA RequestIs ==
  ASSUME NEW q \in Page!Request
  PROVE  /\ q.op \in {"idle", "load", "poll", "final"}
         /\ q.of \in Addresses \cup {None} /\ q.fallback \in Page!Terminal \cup {"none"}
         /\ q.answer \in Page!Answer /\ q.answer.kind \in {"none", "down", "missing", "given"}
         /\ q.answer.kind = "given" =>
              q.answer.status \in Page!Statuses /\ q.answer.seq \in 1..3
BY DEF Page!Request, Page!Answer

LEMMA AskIs ==
  ASSUME NEW op \in {"load", "poll", "final"}, NEW a \in Addresses,
         NEW fallback \in Page!Terminal \cup {"none"}
  PROVE  LET q == Page!Ask(op, a, fallback)
         IN /\ q \in Page!Request /\ q.op = op /\ q.of = a /\ q.fallback = fallback
            /\ q.answer.kind = "none"
BY DEF Page!Ask, Page!Request, Page!Answer

LEMMA IdleRequestIs == Page!Idle \in Page!Request /\ Page!Idle.op = "idle"
BY DEF Page!Idle, Page!Request, Page!Answer

----------------------------------------------------------------------------
(* The parts of the hook's handlers.                                       *)

LEMMA HookIs ==
  ASSUME NEW h \in Page!Hook
  PROVE  /\ h.address \in Addresses \cup {None} /\ h.phase \in Page!Statuses \cup {"idle"}
         /\ h.timeline \in Seq(Addresses \X (1..3)) /\ h.result \in Addresses \cup {None}
         /\ h.error \in BOOLEAN /\ h.delivered \in 0..3 /\ h.settled \in BOOLEAN
         /\ h.stream \in Addresses \cup {None} /\ h.reading \subseteq Addresses
         /\ h.pos \in [Addresses -> 0..3] /\ h.poller \in Addresses \cup {None}
         /\ h.retry \in Addresses \cup {None} /\ h.retries \subseteq Addresses
BY DEF Page!Hook

LEMMA TeardownIs ==
  ASSUME NEW h \in Page!Hook
  PROVE  LET t == Page!Teardown(h)
         IN /\ t \in Page!Hook
            /\ t.stream = None /\ t.reading = h.reading \ {h.stream} /\ t.poller = None
            /\ t.retry = None /\ t.retries = h.retries \ {h.retry}
            /\ t.address = h.address /\ t.phase = h.phase /\ t.timeline = h.timeline
            /\ t.result = h.result /\ t.error = h.error /\ t.delivered = h.delivered
            /\ t.settled = h.settled /\ t.pos = h.pos
BY DEF Page!Teardown, Page!Hook

(* What a hook is that adopts the first events of an investigation.        *)
Adopted(t, h, a, seq) ==
  /\ t \in Page!Hook
  /\ t.timeline = Events(a, seq) /\ t.delivered = seq
  /\ t.address = h.address /\ t.phase = h.phase /\ t.result = h.result
  /\ t.error = h.error /\ t.settled = h.settled /\ t.stream = h.stream
  /\ t.reading = h.reading /\ t.pos = h.pos /\ t.poller = h.poller
  /\ t.retry = h.retry /\ t.retries = h.retries

LEMMA AdoptIs ==
  ASSUME NEW h \in Page!Hook, NEW a \in Addresses, NEW seq \in 1..3
  PROVE  Adopted(Page!Adopt(h, a, seq), h, a, seq)
<1> DEFINE s == Events(a, seq)
<1>1. s \in Seq(Addresses \X (1..3)) /\ seq \in 0..3
  <2>1. seq \in 0..3
    OBVIOUS
  <2>2. QED
    BY <2>1, EventsAre
<1>2. Page!Adopt(h, a, seq) = [h EXCEPT !.timeline = s, !.delivered = seq]
  BY DEF Page!Adopt, Events
<1> HIDE DEF s
<1>3. LET t == [h EXCEPT !.timeline = s, !.delivered = seq]
      IN /\ t \in Page!Hook /\ t.timeline = s /\ t.delivered = seq
         /\ t.address = h.address /\ t.phase = h.phase /\ t.result = h.result
         /\ t.error = h.error /\ t.settled = h.settled /\ t.stream = h.stream
         /\ t.reading = h.reading /\ t.pos = h.pos /\ t.poller = h.poller
         /\ t.retry = h.retry /\ t.retries = h.retries
  BY <1>1 DEF Page!Hook
<1>4. QED
  BY <1>2, <1>3 DEF s, Adopted

(* The page of a that has the result of a job of that status.              *)
HasResult(h, a, status) ==
  /\ h \in Page!Hook /\ Whole(h) /\ h.settled = TRUE /\ h.result = a /\ h.phase = status
  /\ h.address = a /\ h.reading = {} /\ h.poller = None /\ h.retries = {}

LEMMA ApplyResultIs ==
  ASSUME NEW h \in Page!Hook, NEW a \in Addresses, NEW answer,
         answer.status \in Page!Statuses, answer.seq \in 1..3,
         h.address = a, h.reading = {}, h.retries = {}
  PROVE  HasResult(Page!ApplyResult(h, a, answer), a, answer.status)
<1> DEFINE u == Page!Adopt(Page!Teardown(h), a, answer.seq)
<1>1. /\ u \in Page!Hook
      /\ u.timeline = Events(a, answer.seq) /\ u.delivered = answer.seq
      /\ u.address = h.address /\ u.stream = None /\ u.reading = h.reading \ {h.stream}
      /\ u.poller = None /\ u.retries = h.retries \ {h.retry} /\ u.pos = h.pos
  <2> DEFINE v == Page!Teardown(h)
  <2>1. /\ v \in Page!Hook /\ v.stream = None /\ v.reading = h.reading \ {h.stream}
        /\ v.poller = None /\ v.retries = h.retries \ {h.retry} /\ v.pos = h.pos
        /\ v.address = h.address
    BY TeardownIs
  <2> HIDE DEF v
  <2> DEFINE k == answer.seq
             w == Page!Adopt(v, a, k)
  <2>2. k \in 1..3
    OBVIOUS
  <2> HIDE DEF k
  <2>3. /\ w \in Page!Hook /\ w.timeline = Events(a, k) /\ w.delivered = k
        /\ w.address = v.address /\ w.stream = v.stream /\ w.reading = v.reading
        /\ w.poller = v.poller /\ w.retries = v.retries /\ w.pos = v.pos
    <3>1. Adopted(w, v, a, k)
      BY <2>1, <2>2, AdoptIs
    <3> HIDE DEF w
    <3>2. QED
      BY <3>1 DEF Adopted
  <2> HIDE DEF w
  <2>4. u = w
    BY DEF u, v, w, k
  <2> HIDE DEF u
  <2>5. QED
    BY <2>1, <2>3, <2>4 DEF k
<1>2. Page!ApplyResult(h, a, answer) =
        [u EXCEPT !.settled = TRUE, !.result = a, !.phase = answer.status,
                  !.error = @ \/ answer.status = "failed"]
  BY DEF Page!ApplyResult
<1> HIDE DEF u
<1>3. (u.error \/ answer.status = "failed") \in BOOLEAN
  BY <1>1, HookIs
<1> DEFINE told == u.error \/ answer.status = "failed"
           t == [u EXCEPT !.settled = TRUE, !.result = a, !.phase = answer.status, !.error = told]
<1>4. told \in BOOLEAN /\ Page!ApplyResult(h, a, answer) = t
  BY <1>2, <1>3
<1> HIDE DEF told
<1>5. /\ t \in Page!Hook
      /\ t.settled = TRUE /\ t.result = a /\ t.phase = answer.status
      /\ t.timeline = u.timeline /\ t.delivered = u.delivered /\ t.address = u.address
      /\ t.stream = u.stream /\ t.reading = u.reading /\ t.poller = u.poller
      /\ t.retries = u.retries /\ t.pos = u.pos
  BY <1>1, <1>4 DEF Page!Hook
<1> HIDE DEF t
<1>6. Whole(t)
  BY <1>1, <1>5 DEF Whole
<1>7. QED
  BY <1>1, <1>4, <1>5, <1>6 DEF HasResult

(* Following what is settled, or is to be fetched in full.                 *)
LEMMA SettlingIs ==
  ASSUME NEW h \in Page!Hook
  PROVE  LET t == Page!Settling(h)
         IN /\ t \in Page!Hook
            /\ t.settled = TRUE /\ t.stream = None /\ t.reading = h.reading \ {h.stream}
            /\ t.poller = None /\ t.retries = h.retries \ {h.retry}
            /\ t.address = h.address /\ t.phase = h.phase /\ t.timeline = h.timeline
            /\ t.result = h.result /\ t.error = h.error /\ t.delivered = h.delivered
            /\ t.pos = h.pos
<1> DEFINE u == Page!Teardown(h)
<1>1. /\ u \in Page!Hook
      /\ u.stream = None /\ u.reading = h.reading \ {h.stream} /\ u.poller = None
      /\ u.retries = h.retries \ {h.retry}
      /\ u.address = h.address /\ u.phase = h.phase /\ u.timeline = h.timeline
      /\ u.result = h.result /\ u.error = h.error /\ u.delivered = h.delivered
      /\ u.pos = h.pos
  BY TeardownIs
<1>2. Page!Settling(h) = [u EXCEPT !.settled = TRUE]
  BY DEF Page!Settling
<1> HIDE DEF u
<1>3. QED
  BY <1>1, <1>2 DEF Page!Hook

(* A stream that ends before the job is settled is replaced by polling.    *)
LEMMA AbandonedIs ==
  ASSUME NEW h \in Page!Hook, NEW a \in Addresses, ~h.settled, h.poller = None
  PROVE  LET t == Page!Abandoned(h, a)
         IN /\ t \in Page!Hook
            /\ t.reading = h.reading \ {a} /\ t.poller = a
            /\ t.settled = h.settled /\ t.retries = h.retries
            /\ t.address = h.address /\ t.phase = h.phase /\ t.timeline = h.timeline
            /\ t.result = h.result /\ t.error = h.error /\ t.delivered = h.delivered
<1>1. Page!Abandoned(h, a) = [[h EXCEPT !.reading = @ \ {a}] EXCEPT !.poller = a]
  BY DEF Page!Abandoned, Page!Poll, Page!Hook
<1>2. QED
  BY <1>1 DEF Page!Hook

(* There is room for a request.                                            *)
LEMMA LeastFree ==
  ASSUME Page!Free # {}
  PROVE  Page!Min(Page!Free) \in Page!Free
<1>1. Page!Free \subseteq Nat
  BY PageAssumed DEF Page!Free
<1> DEFINE R == OpToRel(<, Nat)
<1>2. PICK x \in Page!Free : \A y \in Page!Free : ~(<<y, x>> \in R)
  <2>1. IsWellFoundedOn(R, Nat)
    BY NatLessThanWellFounded
  <2> HIDE DEF R
  <2>2. QED
    BY <1>1, <2>1, WFMin
<1>3. \A y \in Page!Free : x <= y
  <2>1. \A y \in Page!Free : ~(y < x)
    BY <1>1, <1>2 DEF OpToRel
  <2>2. QED
    BY <1>1, <2>1
<1>4. QED
  BY <1>3 DEF Page!Min

----------------------------------------------------------------------------
(* The steps of the page.                                                  *)

LEMMA OfPage ==
  ASSUME PageStands
  PROVE  /\ row \in [Addresses -> Page!Statuses]
         /\ log \in [Addresses -> Seq({"queued", "started", "ended"})]
         /\ hook \in Page!Hook /\ requests \in [Page!Slots -> Page!Request]
         /\ visits \in 0..MaxVisits /\ breaks \in 0..MaxBreaks
         /\ Shown(hook) /\ OneWay(hook, requests) /\ ReadOnce(hook, requests)
         /\ \A a \in Addresses : Logged(a)
         /\ \A i \in Page!Slots : Truthful(hook, requests[i])
BY DEF PageStands, Page!TypeOK

(* The page goes on, and the platform stays as it was.                     *)
LEMMA PageGoesOn ==
  ASSUME PageStands, NEW h \in Page!Hook, NEW q \in [Page!Slots -> Page!Request],
         hook' = h, requests' = q, UNCHANGED <<row, log>>,
         visits' \in 0..MaxVisits, breaks' \in 0..MaxBreaks,
         Shown(h), OneWay(h, q), ReadOnce(h, q),
         \A i \in Page!Slots : Truthful(h, q[i])
  PROVE  PageStands'
<1>1. Page!TypeOK'
  BY OfPage DEF Page!TypeOK
<1>2. Shown(hook)'
  BY DEF Shown, Whole
<1>3. \A a \in Addresses : Logged(a)'
  BY OfPage DEF Logged
<1>4. \A i \in Page!Slots : Truthful(hook, requests[i])'
  BY DEF Truthful
<1>5. OneWay(hook, requests)'
  BY DEF OneWay, AllRest
<1>6. ReadOnce(hook, requests)'
  BY DEF ReadOnce
<1>7. QED
  BY <1>1, <1>2, <1>3, <1>4, <1>5, <1>6 DEF PageStands

(* Nothing is in flight after it.                                          *)
LEMMA PageRests ==
  ASSUME PageStands, NEW h \in Page!Hook, NEW q \in [Page!Slots -> Page!Request],
         hook' = h, requests' = q, UNCHANGED <<row, log>>,
         visits' \in 0..MaxVisits, breaks' \in 0..MaxBreaks,
         AllRest(q), Shown(h), h.address \in Addresses,
         h.poller \in {None, h.address}, h.reading \subseteq {h.address},
         h.retries \subseteq {h.address},
         h.reading # {} => /\ h.retries = {} /\ h.poller = None /\ h.stream = h.address
                           /\ h.pos[h.address] <= h.delivered,
         h.retries # {} => h.poller = None,
         h.reading # {} \/ h.retries # {} \/ h.poller # None => ~h.settled,
         h.settled => h.result = h.address \/ h.error
  PROVE  PageStands'
<1>1. h.address # None
  BY PageAssumed
<1>2. OneWay(h, q)
  BY <1>1 DEF OneWay, AllRest
<1>3. ReadOnce(h, q) /\ \A i \in Page!Slots : Truthful(h, q[i])
  BY DEF ReadOnce, Truthful, AllRest
<1>4. QED
  BY <1>2, <1>3, PageGoesOn

LEMMA AttachKeeps ==
  ASSUME PageStands, NEW a \in Addresses, Page!Attach(a)
  PROVE  PageStands'
<1>1. hook.address = None /\ hook = Page!Unmounted /\ AllRest(requests)
  BY OfPage, PageAssumed DEF Page!Attach, OneWay
<1> DEFINE h == [Page!Unmounted EXCEPT !.address = a, !.phase = "pending"]
           slot == Page!Min(Page!Free)
           ask == Page!Ask("load", a, "none")
           q == [requests EXCEPT ![slot] = ask]
<1>2. hook' = h /\ requests' = q
  <2>1. Page!Reset(Page!Unmounted) = Page!Unmounted
    BY DEF Page!Reset, Page!Unmounted
  <2>2. QED
    BY <1>1, <2>1 DEF Page!Attach
<1>3. slot \in Page!Slots
  <2>1. 1 \in Page!Free
    BY <1>1, PageAssumed DEF AllRest, Page!Free
  <2>2. QED
    BY <2>1, LeastFree DEF Page!Free
<1>4. ask \in Page!Request /\ ask.op = "load" /\ ask.of = a /\ ask.answer.kind = "none"
  BY AskIs
<1>5. /\ h \in Page!Hook /\ h.address = a /\ h.phase = "pending" /\ h.timeline = <<>>
      /\ h.delivered = 0 /\ h.settled = FALSE /\ h.poller = None
      /\ h.reading = {} /\ h.retries = {}
  BY UnmountedIs DEF Page!Hook, Page!Statuses
<1> HIDE DEF h, slot, ask
<1>6. /\ q \in [Page!Slots -> Page!Request] /\ q[slot] = ask
      /\ \A j \in Page!Slots : j # slot => q[j].op = "idle"
  BY <1>1, <1>3, <1>4, OfPage DEF AllRest
<1> HIDE DEF q
<1>7. Shown(h)
  <2>1. <<>> = Events(a, 0)
    BY DEF Events
  <2>2. QED
    BY <1>5, <2>1 DEF Shown, Whole, Page!Terminal
<1>8. OneWay(h, q)
  BY <1>4, <1>5, <1>6, PageAssumed DEF OneWay
<1>9. ReadOnce(h, q)
  BY <1>4, <1>5, <1>6 DEF ReadOnce
<1>10. \A i \in Page!Slots : Truthful(h, q[i])
  BY <1>4, <1>5, <1>6 DEF Truthful
<1>11. visits' \in 0..MaxVisits /\ breaks' \in 0..MaxBreaks /\ UNCHANGED <<row, log>>
  <2>1. visits < MaxVisits /\ visits' = visits + 1
    BY DEF Page!Attach
  <2>2. visits' \in 0..MaxVisits
    BY <2>1, OfPage, PageAssumed
  <2>3. QED
    BY <2>2, OfPage DEF Page!Attach, Page!platform
<1>12. QED
  BY <1>2, <1>5, <1>6, <1>7, <1>8, <1>9, <1>10, <1>11, PageGoesOn

LEMMA LeaveKeeps ==
  ASSUME PageStands, Page!Leave
  PROVE  PageStands'
<1> DEFINE h == Page!Unmounted
           q == [i \in Page!Slots |-> Page!Idle]
<1>1. hook' = h /\ requests' = q /\ UNCHANGED <<row, log, visits, breaks>>
  BY DEF Page!Leave, Page!platform
<1>2. q \in [Page!Slots -> Page!Request] /\ \A i \in Page!Slots : q[i].op = "idle"
  BY IdleRequestIs
<1> HIDE DEF q
<1>3. /\ h \in Page!Hook /\ h.address = None /\ h.phase = "idle"
      /\ h.settled = FALSE /\ h.poller = None /\ h.reading = {} /\ h.retries = {}
      /\ h.timeline = Events(h.address, h.delivered)
  BY UnmountedIs
<1>4. Shown(h)
  BY <1>3 DEF Shown, Whole, Page!Terminal
<1>5. OneWay(h, q)
  <2> DEFINE g == h
  <2>1. g = h
    OBVIOUS
  <2> HIDE DEF g
  <2>2. QED
    BY <1>2, <1>3 DEF OneWay, AllRest
<1>6. ReadOnce(h, q) /\ \A i \in Page!Slots : Truthful(h, q[i])
  BY <1>2, <1>3 DEF ReadOnce, Truthful
<1>7. QED
  BY <1>1, <1>2, <1>3, <1>4, <1>5, <1>6, OfPage, PageGoesOn

LEMMA PageStarts == Page!Init => PageStands
<1> SUFFICES ASSUME Page!Init PROVE PageStands
  OBVIOUS
<1> DEFINE h == Page!Unmounted
           q == [i \in Page!Slots |-> Page!Idle]
<1>1. hook = h /\ requests = q
  BY DEF Page!Init
<1>2. q \in [Page!Slots -> Page!Request] /\ \A i \in Page!Slots : q[i].op = "idle"
  BY IdleRequestIs
<1> HIDE DEF q
<1>3. /\ h \in Page!Hook /\ h.address = None /\ h.phase = "idle"
      /\ h.settled = FALSE /\ h.poller = None /\ h.reading = {} /\ h.retries = {}
      /\ h.timeline = Events(h.address, h.delivered)
  BY UnmountedIs
<1>4. Shown(hook)
  BY <1>1, <1>3 DEF Shown, Whole, Page!Terminal
<1>5. OneWay(hook, requests)
  <2> DEFINE g == h
  <2>1. g = h
    OBVIOUS
  <2> HIDE DEF g
  <2>2. QED
    BY <1>1, <1>2, <1>3 DEF OneWay, AllRest
<1>6. ReadOnce(hook, requests) /\ \A i \in Page!Slots : Truthful(hook, requests[i])
  BY <1>1, <1>2, <1>3 DEF ReadOnce, Truthful
<1>7. /\ row = [a \in Addresses |-> "pending"] /\ log = [a \in Addresses |-> <<"queued">>]
      /\ visits = 0 /\ breaks = 0
  BY DEF Page!Init
<1>8. \A a \in Addresses : Logged(a)
  BY <1>7 DEF Logged
<1>9. Page!TypeOK
  <2>1. <<"queued">> \in Seq({"queued", "started", "ended"})
    OBVIOUS
  <2>2. row \in [Addresses -> Page!Statuses] /\ log \in [Addresses -> Seq({"queued", "started", "ended"})]
    BY <1>7, <2>1 DEF Page!Statuses
  <2>3. 0 \in 0..MaxVisits /\ 0 \in 0..MaxBreaks
    BY PageAssumed
  <2>4. QED
    BY <1>1, <1>2, <1>3, <1>7, <2>2, <2>3 DEF Page!TypeOK
<1>10. QED
  BY <1>4, <1>5, <1>6, <1>8, <1>9 DEF PageStands

(* While a load is in flight, nothing else is.                             *)
LEMMA LoadAlone ==
  ASSUME PageStands, NEW i \in Page!Slots, requests[i].op = "load",
         NEW q, q = [requests EXCEPT ![i] = Page!Idle]
  PROVE  /\ q \in [Page!Slots -> Page!Request] /\ AllRest(q)
         /\ hook.address \in Addresses /\ requests[i].of = hook.address
         /\ hook.retries = {} /\ hook.reading = {} /\ hook.poller = None /\ hook.settled = FALSE
<1>1. requests[i].of = hook.address /\ requests[i].of \in Addresses
  BY OfPage DEF Truthful
<1>2. /\ \A j \in Page!Slots : j # i => requests[j].op = "idle"
      /\ hook.retries = {} /\ hook.reading = {} /\ hook.poller = None /\ ~hook.settled
  BY OfPage DEF OneWay
<1>3. q \in [Page!Slots -> Page!Request] /\ AllRest(q)
  BY <1>2, OfPage, IdleRequestIs DEF AllRest
<1>4. hook.settled = FALSE
  BY <1>2, OfPage, HookIs
<1>5. QED
  BY <1>1, <1>2, <1>3, <1>4

LEMMA LoadArrivesKeeps ==
  ASSUME PageStands, NEW i \in Page!Slots, Page!LoadArrives(i)
  PROVE  PageStands'
<1> DEFINE a == requests[i].of
           answer == requests[i].answer
           q == [requests EXCEPT ![i] = Page!Idle]
<1>1. /\ requests[i].op = "load" /\ answer.kind # "none" /\ requests' = q
      /\ UNCHANGED <<row, log, visits, breaks>>
  BY DEF Page!LoadArrives, Page!Arrived, Page!platform
<1>2. /\ q \in [Page!Slots -> Page!Request] /\ AllRest(q)
      /\ hook.address \in Addresses /\ a = hook.address
      /\ hook.retries = {} /\ hook.reading = {} /\ hook.poller = None /\ hook.settled = FALSE
  BY <1>1, LoadAlone
<1>3. /\ answer \in Page!Answer /\ answer.kind \in {"down", "missing", "given"}
      /\ answer.kind = "given" => answer.status \in Page!Statuses /\ answer.seq \in 1..3
      /\ answer.kind = "missing" => a \in Missing
      /\ answer.kind = "given" /\ answer.status \in Page!Terminal => answer.status = row[a]
  <2>1. requests[i] \in Page!Request /\ Truthful(hook, requests[i])
    BY OfPage
  <2>2. QED
    BY <1>1, <2>1, RequestIs DEF Truthful
<1>4. hook' = CASE answer.kind = "given" -> Page!LoadGiven(hook, a, answer)
                [] answer.kind = "down" -> Page!LoadFailed(hook, a)
                [] answer.kind = "missing" -> [hook EXCEPT !.phase = "failed", !.error = TRUE]
  BY DEF Page!LoadArrives
<1>5. hook \in Page!Hook /\ Shown(hook)
  BY OfPage
<1> HIDE DEF a, answer, q
<1>6. visits' \in 0..MaxVisits /\ breaks' \in 0..MaxBreaks
  BY <1>1, OfPage
<1>7. CASE answer.kind = "down"
  <2> DEFINE h == [hook EXCEPT !.error = TRUE, !.retry = a, !.retries = @ \cup {a}]
  <2>1. hook' = h
    BY <1>4, <1>7 DEF Page!LoadFailed
  <2>2. /\ h \in Page!Hook /\ h.address = hook.address /\ h.phase = hook.phase
        /\ h.timeline = hook.timeline /\ h.delivered = hook.delivered /\ h.settled = FALSE
        /\ h.poller = None /\ h.reading = {} /\ h.retries = {a}
    BY <1>2, <1>5 DEF Page!Hook
  <2> HIDE DEF h
  <2>3. Shown(h)
    BY <1>5, <2>2 DEF Shown, Whole
  <2>4. QED
    BY <1>1, <1>2, <1>6, <2>1, <2>2, <2>3, PageRests
<1>8. CASE answer.kind = "missing"
  <2> DEFINE h == [hook EXCEPT !.phase = "failed", !.error = TRUE]
  <2>1. hook' = h
    BY <1>4, <1>8
  <2>2. /\ h \in Page!Hook /\ h.address = hook.address
        /\ h.timeline = hook.timeline /\ h.delivered = hook.delivered /\ h.settled = FALSE
        /\ h.poller = None /\ h.reading = {} /\ h.retries = {}
    BY <1>2, <1>5 DEF Page!Hook, Page!Statuses, Page!Terminal
  <2> HIDE DEF h
  <2>3. Shown(h)
    BY <1>2, <1>3, <1>5, <1>8, <2>2 DEF Shown, Whole
  <2>4. QED
    BY <1>1, <1>2, <1>6, <2>1, <2>2, <2>3, PageRests
<1>9. CASE answer.kind = "given"
  <2> DEFINE g == [hook EXCEPT !.error = FALSE]
             seq == answer.seq
             status == answer.status
             loaded == Page!Adopt(g, a, seq)
  <2>1. /\ g \in Page!Hook /\ g.address = a /\ g.settled = FALSE /\ g.poller = None
        /\ g.reading = {} /\ g.retries = {}
    BY <1>2, <1>5 DEF Page!Hook
  <2>2. hook' = IF status \in Page!Terminal THEN Page!ApplyResult(loaded, a, answer)
                ELSE [loaded EXCEPT !.phase = status, !.stream = a,
                                    !.reading = @ \cup {a}, !.pos[a] = 0]
    BY <1>4, <1>9 DEF Page!LoadGiven
  <2> HIDE DEF g
  <2>3. seq \in 1..3 /\ status \in Page!Statuses /\ a \in Addresses
    BY <1>2, <1>3, <1>9
  <2>4. /\ loaded \in Page!Hook /\ loaded.timeline = Events(a, seq) /\ loaded.delivered = seq
        /\ loaded.address = a /\ loaded.settled = FALSE /\ loaded.poller = None
        /\ loaded.reading = {} /\ loaded.retries = {}
    <3> HIDE DEF seq
    <3>1. Adopted(loaded, g, a, seq)
      BY <2>1, <2>3, AdoptIs
    <3> HIDE DEF loaded
    <3>2. QED
      BY <2>1, <3>1 DEF Adopted
  <2> HIDE DEF loaded
  <2>5. CASE status \in Page!Terminal
    <3> DEFINE h == Page!ApplyResult(loaded, a, answer)
    <3>1. hook' = h
      BY <2>2, <2>5
    <3> HIDE DEF h
    <3>2. /\ h \in Page!Hook /\ Whole(h) /\ h.settled = TRUE /\ h.result = a
          /\ h.phase = status /\ h.address = a /\ h.reading = {} /\ h.poller = None
          /\ h.retries = {}
      <4>1. answer.status \in Page!Statuses /\ answer.seq \in 1..3
        BY <1>3, <2>3
      <4>2. loaded \in Page!Hook /\ loaded.address = a /\ loaded.reading = {} /\ loaded.retries = {}
        BY <2>4
      <4>3. HasResult(Page!ApplyResult(loaded, a, answer), a, answer.status)
        BY <2>3, <4>1, <4>2, ApplyResultIs
      <4>4. QED
        BY <4>3 DEF h, HasResult
    <3> HIDE DEF seq, status
    <3>3. Shown(h)
      <4>1. status \in Page!Terminal => status = row[a]
        BY <1>3, <1>9 DEF status
      <4>2. QED
        BY <3>2, <4>1 DEF Shown
    <3>5. QED
      BY <1>1, <1>2, <1>6, <2>3, <3>1, <3>2, <3>3, PageRests
  <2>6. CASE status \notin Page!Terminal
    <3> DEFINE place == [loaded.pos EXCEPT ![a] = 0]
               h == [loaded EXCEPT !.phase = status, !.stream = a, !.reading = {a},
                                   !.pos = place]
    <3>1. hook' = h
      <4>1. loaded.reading \cup {a} = {a}
        BY <2>4
      <4>2. [loaded EXCEPT !.phase = status, !.stream = a, !.reading = @ \cup {a}, !.pos[a] = 0] = h
        BY <4>1
      <4>3. QED
        BY <2>2, <2>6, <4>2
    <3> HIDE DEF seq, status
    <3>2. /\ h \in Page!Hook /\ h.timeline = Events(a, seq) /\ h.delivered = seq
          /\ h.settled = FALSE /\ h.phase = status /\ h.address = a /\ h.stream = a
          /\ h.reading = {a} /\ h.poller = None /\ h.retries = {} /\ h.pos[a] = 0
      <4>1. place \in [Addresses -> 0..3] /\ place[a] = 0
        BY <2>3, <2>4, HookIs
      <4> HIDE DEF place
      <4>2. QED
        BY <2>3, <2>4, <4>1 DEF Page!Hook
    <3> HIDE DEF h
    <3>3. Shown(h)
      BY <2>6, <3>2 DEF Shown, Whole
    <3>4. h.pos[h.address] <= h.delivered
      BY <2>3, <3>2
    <3>5. QED
      BY <1>1, <1>2, <1>6, <2>3, <3>1, <3>2, <3>3, <3>4, PageRests
  <2>7. QED
    BY <2>5, <2>6
<1>10. QED
  BY <1>3, <1>7, <1>8, <1>9

LEMMA RetryTickKeeps ==
  ASSUME PageStands, NEW a \in Addresses, Page!RetryTick(a)
  PROVE  PageStands'
<1>1. /\ hook.retries = {a} /\ hook.address = a /\ AllRest(requests)
      /\ hook.reading = {} /\ hook.poller = None /\ ~hook.settled
  BY OfPage DEF Page!RetryTick, OneWay
<1> DEFINE h == [hook EXCEPT !.retries = @ \ {a}, !.retry = None]
           slot == Page!Min(Page!Free)
           ask == Page!Ask("load", a, "none")
           q == [requests EXCEPT ![slot] = ask]
<1>2. hook' = h /\ requests' = q /\ UNCHANGED <<row, log, visits, breaks>>
  BY DEF Page!RetryTick, Page!platform
<1>3. slot \in Page!Slots
  <2>1. 1 \in Page!Free
    BY <1>1, PageAssumed DEF AllRest, Page!Free
  <2>2. QED
    BY <2>1, LeastFree DEF Page!Free
<1>4. ask \in Page!Request /\ ask.op = "load" /\ ask.of = a /\ ask.answer.kind = "none"
  BY AskIs
<1>5. /\ h \in Page!Hook /\ h.address = a /\ h.phase = hook.phase
      /\ h.timeline = hook.timeline /\ h.delivered = hook.delivered
      /\ ~h.settled /\ h.poller = None /\ h.reading = {} /\ h.retries = {}
  BY <1>1, OfPage DEF Page!Hook
<1> HIDE DEF h, slot, ask
<1>6. /\ q \in [Page!Slots -> Page!Request] /\ q[slot] = ask
      /\ \A j \in Page!Slots : j # slot => q[j].op = "idle"
  BY <1>1, <1>3, <1>4, OfPage DEF AllRest
<1> HIDE DEF q
<1>7. Shown(h)
  BY <1>1, <1>5, OfPage DEF Shown, Whole
<1>8. OneWay(h, q)
  BY <1>4, <1>5, <1>6, PageAssumed DEF OneWay
<1>9. ReadOnce(h, q)
  BY <1>4, <1>5, <1>6 DEF ReadOnce
<1>10. \A i \in Page!Slots : Truthful(h, q[i])
  BY <1>4, <1>5, <1>6 DEF Truthful
<1>11. visits' \in 0..MaxVisits /\ breaks' \in 0..MaxBreaks
  BY <1>2, OfPage
<1>12. QED
  BY <1>2, <1>5, <1>6, <1>7, <1>8, <1>9, <1>10, <1>11, PageGoesOn

(* What is known while a request is in flight.                             *)
LEMMA InFlight ==
  ASSUME PageStands, NEW i \in Page!Slots, requests[i].op \in {"poll", "final"}
  PROVE  /\ requests[i].of = hook.address /\ hook.address \in Addresses
         /\ hook.reading = {} /\ hook.retries = {} /\ hook.poller \in {None, hook.address}
         /\ hook.settled => hook.poller = None
         /\ \A j \in Page!Slots : requests[j].op # "load"
         /\ requests[i].op = "final" => /\ hook.settled /\ requests[i].fallback \in Page!Terminal
                                        /\ requests[i].fallback = row[hook.address]
                                        /\ \A j \in Page!Slots : j # i => requests[j].op # "final"
         /\ requests[i].answer.kind = "given" =>
              /\ requests[i].answer.status \in Page!Statuses /\ requests[i].answer.seq \in 1..3
              /\ requests[i].answer.status \in Page!Terminal =>
                   requests[i].answer.status = row[hook.address]
<1>1. requests[i].of = hook.address /\ hook.address \in Addresses
  BY OfPage DEF Truthful
<1>2. ~AllRest(requests)
  BY DEF AllRest
<1>3. hook.reading = {} /\ hook.retries = {} /\ hook.poller \in {None, hook.address}
  BY <1>2, OfPage DEF OneWay
<1>4. hook.settled => hook.poller = None
  BY OfPage DEF OneWay
<1>5. \A j \in Page!Slots : requests[j].op # "load"
  <2>1. \A j \in Page!Slots : requests[j].op = "load" =>
          \A k \in Page!Slots : k # j => requests[k].op = "idle"
    BY OfPage DEF OneWay
  <2>2. QED
    BY <2>1
<1>6. requests[i].op = "final" => /\ requests[i].fallback \in Page!Terminal
                                  /\ requests[i].fallback = row[hook.address]
  BY <1>1, OfPage DEF Truthful
<1>7. requests[i].op = "final" => hook.settled /\ \A j \in Page!Slots : j # i => requests[j].op # "final"
  BY OfPage DEF ReadOnce
<1>8. requests[i].answer.kind = "given" =>
        /\ requests[i].answer.status \in Page!Statuses /\ requests[i].answer.seq \in 1..3
  <2>1. requests[i] \in Page!Request
    BY OfPage
  <2>2. QED
    BY <2>1, RequestIs
<1>9. requests[i].answer.kind = "given" /\ requests[i].answer.status \in Page!Terminal =>
        requests[i].answer.status = row[hook.address]
  BY <1>1, OfPage DEF Truthful
<1>10. QED
  BY <1>1, <1>3, <1>4, <1>5, <1>6, <1>7, <1>8, <1>9

(* An answer has arrived, and nothing was asked.                           *)
LEMMA AnswerTaken ==
  ASSUME PageStands, NEW i \in Page!Slots, requests[i].op \in {"poll", "final"},
         NEW h \in Page!Hook, hook' = h,
         requests' = [requests EXCEPT ![i] = Page!Idle],
         UNCHANGED <<row, log, visits, breaks>>,
         Shown(h), h.address = hook.address, h.reading = {}, h.retries = {},
         h.poller \in {None, h.address}, h.poller # None => ~h.settled,
         h.settled => \/ h.result = h.address \/ h.error
                      \/ \E j \in Page!Slots : j # i /\ requests[j].op = "final",
         \A j \in Page!Slots : j # i /\ requests[j].op = "final" => h.settled
  PROVE  PageStands'
<1> DEFINE q == [requests EXCEPT ![i] = Page!Idle]
<1>1. /\ q \in [Page!Slots -> Page!Request] /\ q[i].op = "idle"
      /\ \A j \in Page!Slots : j # i => q[j] = requests[j]
  BY OfPage, IdleRequestIs
<1>2. requests' = q
  OBVIOUS
<1> HIDE DEF q
<1>3. h.address \in Addresses /\ \A j \in Page!Slots : requests[j].op # "load"
  BY InFlight
<1>4. OneWay(h, q)
  BY <1>1, <1>3, PageAssumed DEF OneWay
<1>5. ReadOnce(h, q)
  <2>1. \A j \in Page!Slots : q[j].op = "final" => h.settled
    BY <1>1
  <2>2. \A j, k \in Page!Slots : q[j].op = "final" /\ q[k].op = "final" => j = k
    BY <1>1, OfPage DEF ReadOnce
  <2>3. (\E j \in Page!Slots : j # i /\ requests[j].op = "final") =>
           \E j \in Page!Slots : q[j].op = "final"
    BY <1>1
  <2>4. QED
    BY <2>1, <2>2, <2>3 DEF ReadOnce
<1>6. \A j \in Page!Slots : Truthful(h, q[j])
  <2> TAKE j \in Page!Slots
  <2>1. CASE j = i
    BY <1>1, <2>1 DEF Truthful
  <2>2. CASE j # i
    BY <1>1, <2>2, OfPage DEF Truthful
  <2>3. QED
    BY <2>1, <2>2
<1>7. visits' \in 0..MaxVisits /\ breaks' \in 0..MaxBreaks
  BY OfPage
<1>8. QED
  BY <1>1, <1>2, <1>4, <1>5, <1>6, <1>7, PageGoesOn

LEMMA FinalArrivesKeeps ==
  ASSUME PageStands, NEW i \in Page!Slots, Page!FinalArrives(i)
  PROVE  PageStands'
<1> DEFINE a == requests[i].of
           answer == requests[i].answer
           fallback == requests[i].fallback
<1>1. /\ requests[i].op = "final" /\ requests' = [requests EXCEPT ![i] = Page!Idle]
      /\ UNCHANGED <<row, log, visits, breaks>>
      /\ hook' = IF answer.kind = "given" THEN Page!ApplyResult(hook, a, answer)
                 ELSE Page!ResultFailed(hook, fallback)
  BY DEF Page!FinalArrives, Page!Arrived, Page!platform
<1>2. /\ a = hook.address /\ hook.address \in Addresses
      /\ hook.reading = {} /\ hook.retries = {} /\ hook.settled /\ hook.poller = None
      /\ fallback \in Page!Terminal /\ fallback = row[hook.address]
      /\ \A j \in Page!Slots : j # i => requests[j].op # "final"
      /\ answer.kind = "given" =>
           /\ answer.status \in Page!Statuses /\ answer.seq \in 1..3
           /\ answer.status \in Page!Terminal => answer.status = row[hook.address]
  BY <1>1, InFlight
<1>3. hook \in Page!Hook /\ Shown(hook)
  BY OfPage
<1> HIDE DEF a, answer, fallback
<1>4. CASE answer.kind = "given"
  <2> DEFINE h == Page!ApplyResult(hook, a, answer)
             status == answer.status
  <2>1. hook' = h
    BY <1>1, <1>4
  <2>2. HasResult(h, a, status)
    BY <1>2, <1>3, <1>4, ApplyResultIs
  <2>3. status \in Page!Terminal => status = row[hook.address]
    BY <1>2, <1>4
  <2> HIDE DEF h, status
  <2>4. /\ h \in Page!Hook /\ Whole(h) /\ h.result = a /\ h.phase = status
        /\ h.address = a /\ h.reading = {} /\ h.poller = None /\ h.retries = {}
    BY <2>2 DEF HasResult
  <2>5. Shown(h)
    BY <1>2, <2>3, <2>4 DEF Shown
  <2>6. QED
    BY <1>1, <1>2, <2>1, <2>4, <2>5, AnswerTaken
<1>5. CASE answer.kind # "given"
  <2> DEFINE h == [hook EXCEPT !.phase = fallback, !.error = TRUE]
  <2>1. hook' = h
    BY <1>1, <1>5 DEF Page!ResultFailed
  <2>2. /\ h \in Page!Hook /\ h.timeline = hook.timeline /\ h.delivered = hook.delivered
        /\ h.error = TRUE /\ h.phase = fallback /\ h.address = hook.address
        /\ h.reading = {} /\ h.poller = None /\ h.retries = {}
    BY <1>2, <1>3 DEF Page!Hook, Page!Statuses
  <2> HIDE DEF h
  <2>3. Shown(h)
    BY <1>2, <1>3, <2>2 DEF Shown, Whole
  <2>4. QED
    BY <1>1, <1>2, <2>1, <2>2, <2>3, AnswerTaken
<1>6. QED
  BY <1>4, <1>5

LEMMA PollArrivesKeeps ==
  ASSUME PageStands, NEW i \in Page!Slots, Page!PollArrives(i)
  PROVE  PageStands'
<1> DEFINE a == requests[i].of
           answer == requests[i].answer
           status == answer.status
           seq == answer.seq
           read == Page!Adopt(hook, a, seq)
           seen == [read EXCEPT !.phase = status]
           idle == [requests EXCEPT ![i] = Page!Idle]
           ask == Page!Ask("final", a, status)
           q == [requests EXCEPT ![i] = ask]
<1>1. requests[i].op = "poll" /\ UNCHANGED <<row, log, visits, breaks>>
  BY DEF Page!PollArrives, Page!Arrived, Page!platform
<1>2. /\ a = hook.address /\ a \in Addresses
      /\ hook.reading = {} /\ hook.retries = {} /\ hook.poller \in {None, hook.address}
      /\ hook.settled => hook.poller = None
      /\ \A j \in Page!Slots : requests[j].op # "load"
      /\ answer.kind = "given" =>
           /\ status \in Page!Statuses /\ seq \in 1..3
           /\ status \in Page!Terminal => status = row[hook.address]
  BY <1>1, InFlight
<1>3. hook \in Page!Hook /\ Shown(hook) /\ ReadOnce(hook, requests)
  BY OfPage
<1>4. \/ answer.kind # "given" /\ hook' = hook /\ requests' = idle
      \/ /\ answer.kind = "given" /\ status \in Page!Terminal /\ ~hook.settled
         /\ hook' = Page!Settling(seen) /\ requests' = q
      \/ answer.kind = "given" /\ hook' = seen /\ requests' = idle
  BY DEF Page!PollArrives
<1>5. answer.kind = "given" =>
        /\ read \in Page!Hook /\ read.timeline = Events(a, seq) /\ read.delivered = seq
        /\ read.address = hook.address /\ read.result = hook.result /\ read.error = hook.error
        /\ read.settled = hook.settled /\ read.reading = hook.reading
        /\ read.poller = hook.poller /\ read.retries = hook.retries
  <2> HIDE DEF seq
  <2>1. answer.kind = "given" => Adopted(read, hook, a, seq)
    BY <1>2, <1>3, AdoptIs
  <2> HIDE DEF read
  <2>2. QED
    BY <2>1 DEF Adopted
<1> HIDE DEF read, seq, status
<1>6. answer.kind = "given" =>
        /\ seen \in Page!Hook /\ Shown(seen)
        /\ seen.address = hook.address /\ seen.result = hook.result /\ seen.error = hook.error
        /\ seen.settled = hook.settled /\ seen.reading = {}
        /\ seen.poller = hook.poller /\ seen.retries = {}
  <2> SUFFICES ASSUME answer.kind = "given"
               PROVE  /\ seen \in Page!Hook /\ Shown(seen)
                      /\ seen.address = hook.address /\ seen.result = hook.result
                      /\ seen.error = hook.error
                      /\ seen.settled = hook.settled /\ seen.reading = {}
                      /\ seen.poller = hook.poller /\ seen.retries = {}
    OBVIOUS
  <2>1. /\ seen \in Page!Hook /\ seen.phase = status
        /\ seen.timeline = read.timeline /\ seen.delivered = read.delivered
        /\ seen.address = read.address /\ seen.result = read.result /\ seen.error = read.error
        /\ seen.settled = read.settled /\ seen.reading = read.reading
        /\ seen.poller = read.poller /\ seen.retries = read.retries
    BY <1>2, <1>5 DEF Page!Hook
  <2> HIDE DEF seen
  <2>2. Shown(seen)
    BY <1>2, <1>5, <2>1 DEF Shown, Whole
  <2>3. QED
    BY <1>2, <1>5, <2>1, <2>2
<1> HIDE DEF seen, a, answer
<1>7. CASE answer.kind # "given" /\ hook' = hook /\ requests' = idle
  <2>1. hook.settled => \/ hook.result = hook.address \/ hook.error
                        \/ \E j \in Page!Slots : j # i /\ requests[j].op = "final"
    BY <1>1, <1>3 DEF ReadOnce
  <2>2. \A j \in Page!Slots : j # i /\ requests[j].op = "final" => hook.settled
    BY <1>3 DEF ReadOnce
  <2>3. QED
    BY <1>1, <1>2, <1>3, <1>7, <2>1, <2>2, AnswerTaken
<1>8. CASE answer.kind = "given" /\ hook' = seen /\ requests' = idle
  <2>1. seen.settled => \/ seen.result = seen.address \/ seen.error
                        \/ \E j \in Page!Slots : j # i /\ requests[j].op = "final"
    BY <1>1, <1>3, <1>6, <1>8 DEF ReadOnce
  <2>2. \A j \in Page!Slots : j # i /\ requests[j].op = "final" => seen.settled
    BY <1>3, <1>6, <1>8 DEF ReadOnce
  <2>3. seen.poller \in {None, seen.address} /\ (seen.poller # None => ~seen.settled)
    BY <1>2, <1>6, <1>8
  <2>4. QED
    BY <1>1, <1>6, <1>8, <2>1, <2>2, <2>3, AnswerTaken
<1>9. CASE /\ answer.kind = "given" /\ status \in Page!Terminal /\ ~hook.settled
           /\ hook' = Page!Settling(seen) /\ requests' = q
  <2> DEFINE h == Page!Settling(seen)
  <2>1. seen \in Page!Hook
    BY <1>6, <1>9
  <2>2. /\ h \in Page!Hook /\ h.settled = TRUE /\ h.poller = None
        /\ h.reading \subseteq seen.reading /\ h.retries \subseteq seen.retries
        /\ h.address = seen.address /\ h.phase = seen.phase /\ h.timeline = seen.timeline
        /\ h.delivered = seen.delivered
    BY <2>1, SettlingIs
  <2> HIDE DEF h
  <2>3. h.reading = {} /\ h.retries = {} /\ h.address = hook.address
    BY <1>6, <1>9, <2>2
  <2>4. Shown(h)
    BY <1>6, <1>9, <2>2 DEF Shown, Whole
  <2>5. /\ ask \in Page!Request /\ ask.op = "final" /\ ask.of = a /\ ask.fallback = status
        /\ ask.answer.kind = "none"
    BY <1>2, <1>9, AskIs
  <2> HIDE DEF ask
  <2>6. /\ q \in [Page!Slots -> Page!Request] /\ q[i] = ask
        /\ \A j \in Page!Slots : j # i => q[j] = requests[j]
    BY <2>5, OfPage
  <2> HIDE DEF q
  <2>7. \A j \in Page!Slots : j # i => q[j].op \notin {"load", "final"}
    BY <1>2, <1>3, <1>9, <2>6 DEF ReadOnce
  <2>8. OneWay(h, q)
    BY <1>2, <2>2, <2>3, <2>5, <2>6, <2>7, PageAssumed DEF OneWay
  <2>9. ReadOnce(h, q)
    BY <2>2, <2>5, <2>6, <2>7 DEF ReadOnce
  <2>10. \A j \in Page!Slots : Truthful(h, q[j])
    <3> TAKE j \in Page!Slots
    <3>1. CASE j = i
      BY <1>2, <1>9, <2>3, <2>5, <2>6, <3>1 DEF Truthful
    <3>2. CASE j # i
      BY <2>3, <2>6, <3>2, OfPage DEF Truthful
    <3>3. QED
      BY <3>1, <3>2
  <2>11. visits' \in 0..MaxVisits /\ breaks' \in 0..MaxBreaks
    BY <1>1, OfPage
  <2>12. QED
    BY <1>1, <1>9, <2>2, <2>4, <2>6, <2>8, <2>9, <2>10, <2>11, PageGoesOn DEF h
<1>10. QED
  BY <1>4, <1>7, <1>8, <1>9

LEMMA CardinalityIs ==
  ASSUME NEW S
  PROVE  Page!Cardinality(S) = Cardinality(S)
BY DEF Page!Cardinality, Cardinality

LEMMA PollTickKeeps ==
  ASSUME PageStands, Page!PollTick
  PROVE  PageStands'
<1> DEFINE a == hook.address
           slot == Page!Min(Page!Free)
           ask == Page!Ask("poll", a, "none")
           q == [requests EXCEPT ![slot] = ask]
           polls == {i \in Page!Slots : requests[i].op = "poll"}
<1>1. /\ hook.poller # None /\ Cardinality(polls) < MaxPolls
      /\ requests' = [requests EXCEPT ![slot] = Page!Ask("poll", hook.poller, "none")]
      /\ UNCHANGED <<row, log, hook, visits, breaks>>
  <2>1. hook.poller # None /\ UNCHANGED <<row, log, hook, visits, breaks>>
    BY DEF Page!PollTick, Page!platform
  <2>2. Cardinality(polls) < MaxPolls
    <3>1. Page!Cardinality(polls) < MaxPolls
      BY DEF Page!PollTick
    <3>2. QED
      BY <3>1, CardinalityIs
  <2>3. requests' = [requests EXCEPT ![slot] = Page!Ask("poll", hook.poller, "none")]
    BY DEF Page!PollTick
  <2>4. QED
    BY <2>1, <2>2, <2>3, Zenon
<1>2. hook \in Page!Hook /\ requests \in [Page!Slots -> Page!Request]
  BY OfPage
<1>3. /\ hook.poller = a /\ a \in Addresses /\ ~hook.settled
      /\ hook.reading = {} /\ hook.retries = {}
  <2>1. OneWay(hook, requests)
    BY OfPage
  <2>2. hook.poller = a /\ ~hook.settled /\ hook.reading = {} /\ hook.retries = {}
    BY <1>1, <2>1 DEF OneWay
  <2>3. a \in Addresses
    BY <1>1, <1>2, <2>2, HookIs
  <2>4. QED
    BY <2>2, <2>3
<1>4. \A i \in Page!Slots : requests[i].op \in {"idle", "poll"}
  <2>1. \A i \in Page!Slots : requests[i].op # "load"
    BY <1>1, OfPage DEF OneWay
  <2>2. \A i \in Page!Slots : requests[i].op # "final"
    BY <1>3, OfPage DEF ReadOnce
  <2>3. \A i \in Page!Slots : requests[i].op \in {"idle", "load", "poll", "final"}
    BY <1>2, RequestIs
  <2>4. QED
    BY <2>1, <2>2, <2>3
<1>5. Page!Free # {}
  <2>1. SUFFICES ASSUME Page!Free = {} PROVE FALSE
    OBVIOUS
  <2>2. polls = 1..(MaxPolls + 2 * MaxVisits)
    BY <1>4, <2>1 DEF Page!Free, Page!Slots
  <2>3. Cardinality(1..(MaxPolls + 2 * MaxVisits)) = MaxPolls + 2 * MaxVisits
    <3> DEFINE n == MaxPolls + 2 * MaxVisits
    <3>1. n \in Nat
      BY PageAssumed
    <3>2. 1 <= n
      BY PageAssumed
    <3> HIDE DEF n
    <3>3. Cardinality(1..n) = n
      BY <3>1, <3>2, FS_Interval
    <3>4. QED
      BY <3>3 DEF n
  <2>4. Cardinality(polls) = MaxPolls + 2 * MaxVisits
    BY <2>2, <2>3
  <2> HIDE DEF polls
  <2>5. QED
    BY <1>1, <2>4, PageAssumed
<1>6. slot \in Page!Slots /\ requests[slot].op = "idle"
  BY <1>5, LeastFree DEF Page!Free
<1>7. ask \in Page!Request /\ ask.op = "poll" /\ ask.of = a /\ ask.answer.kind = "none"
  BY <1>3, AskIs
<1>8. requests' = q
  BY <1>1, <1>3
<1> HIDE DEF slot, ask, polls
<1>9. /\ q \in [Page!Slots -> Page!Request] /\ q[slot] = ask
      /\ \A j \in Page!Slots : j # slot => q[j] = requests[j]
  BY <1>2, <1>6, <1>7
<1> HIDE DEF q
<1>10. \A j \in Page!Slots : q[j].op \in {"idle", "poll"}
  BY <1>4, <1>7, <1>9
<1>11. OneWay(hook, q)
  BY <1>3, <1>10, PageAssumed DEF OneWay
<1>12. ReadOnce(hook, q)
  BY <1>3, <1>10 DEF ReadOnce
<1>13. \A j \in Page!Slots : Truthful(hook, q[j])
  <2> TAKE j \in Page!Slots
  <2>1. CASE j = slot
    BY <1>3, <1>7, <1>9, <2>1 DEF Truthful
  <2>2. CASE j # slot
    BY <1>9, <2>2, OfPage
  <2>3. QED
    BY <2>1, <2>2
<1>14. visits' \in 0..MaxVisits /\ breaks' \in 0..MaxBreaks /\ Shown(hook)
  BY <1>1, OfPage
<1>15. QED
  BY <1>1, <1>2, <1>8, <1>9, <1>11, <1>12, <1>13, <1>14, PageGoesOn

(* What is known while a stream is read.                                   *)
LEMMA WhileReading ==
  ASSUME PageStands, NEW a \in Addresses, a \in hook.reading
  PROVE  /\ hook \in Page!Hook /\ Shown(hook) /\ requests \in [Page!Slots -> Page!Request]
         /\ hook.address = a /\ hook.reading = {a} /\ hook.retries = {} /\ hook.poller = None
         /\ hook.settled = FALSE /\ hook.stream = a /\ hook.pos[a] <= hook.delivered
         /\ AllRest(requests)
<1>1. hook \in Page!Hook /\ Shown(hook) /\ requests \in [Page!Slots -> Page!Request]
  BY OfPage
<1>2. /\ hook.address = a /\ hook.reading = {a} /\ hook.retries = {} /\ hook.poller = None
      /\ ~hook.settled /\ hook.stream = a /\ hook.pos[a] <= hook.delivered
      /\ AllRest(requests)
  BY OfPage DEF OneWay
<1>3. QED
  BY <1>1, <1>2, HookIs

LEMMA StreamEndsKeeps ==
  ASSUME PageStands, NEW a \in Addresses, Page!StreamEnds(a)
  PROVE  PageStands'
<1> DEFINE h == Page!Abandoned(hook, a)
<1>1. /\ a \in hook.reading /\ hook' = h /\ requests' = requests
      /\ UNCHANGED <<row, log, visits, breaks>>
  BY DEF Page!StreamEnds, Page!platform
<1>2. /\ hook \in Page!Hook /\ Shown(hook) /\ requests \in [Page!Slots -> Page!Request]
      /\ hook.address = a /\ hook.reading = {a} /\ hook.retries = {} /\ hook.poller = None
      /\ hook.settled = FALSE /\ AllRest(requests)
  BY <1>1, WhileReading
<1>3. /\ h \in Page!Hook /\ h.reading = {} /\ h.poller = a /\ h.settled = FALSE
      /\ h.retries = {} /\ h.address = a /\ h.phase = hook.phase
      /\ h.timeline = hook.timeline /\ h.delivered = hook.delivered
  BY <1>2, AbandonedIs
<1> HIDE DEF h
<1>4. Shown(h)
  BY <1>2, <1>3 DEF Shown, Whole
<1>5. visits' \in 0..MaxVisits /\ breaks' \in 0..MaxBreaks
  BY <1>1, OfPage
<1>6. QED
  BY <1>1, <1>2, <1>3, <1>4, <1>5, PageRests

LEMMA StreamBreaksKeeps ==
  ASSUME PageStands, NEW a \in Addresses, Page!StreamBreaks(a)
  PROVE  PageStands'
<1> DEFINE u == Page!Abandoned(hook, a)
           h == [u EXCEPT !.stream = None]
<1>1. a \in hook.reading
  BY DEF Page!StreamBreaks
<1>2. /\ hook \in Page!Hook /\ Shown(hook) /\ requests \in [Page!Slots -> Page!Request]
      /\ hook.address = a /\ hook.reading = {a} /\ hook.retries = {} /\ hook.poller = None
      /\ hook.settled = FALSE /\ AllRest(requests)
  BY <1>1, WhileReading
<1>3. hook' = h /\ requests' = requests /\ UNCHANGED <<row, log, visits>>
  BY <1>2 DEF Page!StreamBreaks, Page!platform
<1>4. /\ u \in Page!Hook /\ u.reading = {} /\ u.poller = a /\ u.settled = FALSE
      /\ u.retries = {} /\ u.address = a /\ u.phase = hook.phase
      /\ u.timeline = hook.timeline /\ u.delivered = hook.delivered
  BY <1>2, AbandonedIs
<1> HIDE DEF u
<1>5. /\ h \in Page!Hook /\ h.reading = {} /\ h.poller = a /\ h.settled = FALSE
      /\ h.retries = {} /\ h.address = a /\ h.phase = hook.phase
      /\ h.timeline = hook.timeline /\ h.delivered = hook.delivered
  BY <1>4 DEF Page!Hook
<1> HIDE DEF h
<1>6. Shown(h)
  BY <1>2, <1>5 DEF Shown, Whole
<1>7. visits' \in 0..MaxVisits /\ breaks' \in 0..MaxBreaks
  <2>1. breaks < MaxBreaks /\ breaks' = breaks + 1
    BY DEF Page!StreamBreaks
  <2>2. breaks' \in 0..MaxBreaks
    BY <2>1, OfPage, PageAssumed
  <2>3. QED
    BY <1>3, <2>2, OfPage
<1>8. QED
  BY <1>2, <1>3, <1>5, <1>6, <1>7, PageRests

LEMMA FrameArrivesKeeps ==
  ASSUME PageStands, NEW a \in Addresses, Page!FrameArrives(a)
  PROVE  PageStands'
<1> DEFINE n == hook.pos[a] + 1
           place == [hook.pos EXCEPT ![a] = n]
           read == [hook EXCEPT !.pos[a] = n]
           line == Append(hook.timeline, <<a, n>>)
           seen == [read EXCEPT !.delivered = n, !.timeline = line]
           event == log[a][n]
           told == [seen EXCEPT !.error = @ \/ row[a] = "failed"]
           slot == Page!Min(Page!Free)
           ask == Page!Ask("final", a, row[a])
           q == [requests EXCEPT ![slot] = ask]
<1>1. a \in hook.reading /\ n <= Len(log[a]) /\ UNCHANGED <<row, log, visits, breaks>>
  BY DEF Page!FrameArrives, Page!platform
<1>2. /\ hook \in Page!Hook /\ Shown(hook) /\ requests \in [Page!Slots -> Page!Request]
      /\ hook.address = a /\ hook.reading = {a} /\ hook.retries = {} /\ hook.poller = None
      /\ hook.settled = FALSE /\ hook.stream = a /\ hook.pos[a] <= hook.delivered
      /\ AllRest(requests)
  BY <1>1, WhileReading
<1>3. /\ hook.pos \in [Addresses -> 0..3] /\ hook.delivered \in 0..3
      /\ Len(log[a]) \in 1..3 /\ n \in 1..3
      /\ event = "ended" => row[a] \in Page!Terminal
  <2>1. hook.pos \in [Addresses -> 0..3] /\ hook.delivered \in 0..3
    BY <1>2, HookIs
  <2>2. /\ Len(log[a]) \in 1..3
        /\ \A k \in 1..Len(log[a]) : log[a][k] = "ended" => row[a] \in Page!Terminal
    BY OfPage DEF Logged
  <2>3. hook.pos[a] \in 0..3
    BY <2>1
  <2>4. n \in 1..Len(log[a]) /\ n \in 1..3
    BY <1>1, <2>2, <2>3
  <2>5. QED
    BY <2>1, <2>2, <2>4
<1>4. \/ n <= hook.delivered /\ hook' = read /\ requests' = requests
      \/ /\ ~(n <= hook.delivered) /\ event # "ended" /\ requests' = requests
         /\ hook' \in {[seen EXCEPT !.phase = "running"], seen}
      \/ /\ ~(n <= hook.delivered) /\ event = "ended" /\ requests' = q
         /\ hook' = [Page!Settling(told) EXCEPT !.reading = @ \ {a}]
  <2>1. CASE n <= hook.delivered
    BY <2>1 DEF Page!FrameArrives, Page!Seen
  <2>2. CASE ~(n <= hook.delivered) /\ event # "ended"
    BY <2>2 DEF Page!FrameArrives, Page!Seen
  <2>3. CASE ~(n <= hook.delivered) /\ event = "ended"
    BY <1>2, <2>3 DEF Page!FrameArrives, Page!Seen
  <2>4. QED
    BY <2>1, <2>2, <2>3
<1>5. /\ read \in Page!Hook /\ read.pos = place
      /\ read.timeline = hook.timeline /\ read.delivered = hook.delivered
      /\ read.address = a /\ read.phase = hook.phase /\ read.result = hook.result
      /\ read.error = hook.error /\ read.settled = FALSE /\ read.reading = {a}
      /\ read.retries = {} /\ read.poller = None /\ read.stream = a
  <2>1. place \in [Addresses -> 0..3]
    BY <1>3
  <2>2. read = [hook EXCEPT !.pos = place]
    BY <1>2 DEF Page!Hook
  <2> HIDE DEF place
  <2>3. QED
    BY <1>2, <2>1, <2>2 DEF Page!Hook
<1>6. place[a] = n
  BY <1>3
<1>7. visits' \in 0..MaxVisits /\ breaks' \in 0..MaxBreaks
  BY <1>1, OfPage
<1> HIDE DEF place, read, event
<1>8. CASE n <= hook.delivered /\ hook' = read /\ requests' = requests
  <2>1. Shown(read)
    BY <1>2, <1>5 DEF Shown, Whole
  <2>2. read.pos[a] <= read.delivered
    BY <1>5, <1>6, <1>8
  <2>3. QED
    BY <1>1, <1>2, <1>5, <1>7, <1>8, <2>1, <2>2, PageRests
<1>9. ~(n <= hook.delivered) =>
        /\ line \in Seq(Addresses \X (1..3)) /\ line = Events(a, n) /\ n \in 0..3
  <2> SUFFICES ASSUME ~(n <= hook.delivered)
               PROVE  line \in Seq(Addresses \X (1..3)) /\ line = Events(a, n) /\ n \in 0..3
    OBVIOUS
  <2>1. hook.delivered = n - 1 /\ n - 1 \in 0..3 /\ n \in 0..3
    BY <1>2, <1>3
  <2>2. hook.timeline = Events(a, n - 1)
    BY <1>2, <2>1 DEF Shown, Whole
  <2> DEFINE d == n - 1
  <2>3. d \in 0..3 /\ n = d + 1
    BY <1>3, <2>1
  <2> HIDE DEF n, d
  <2>4. Append(Events(a, d), <<a, d + 1>>) = Events(a, d + 1)
    BY <2>3, EventsAre
  <2>5. line = Events(a, n)
    BY <2>2, <2>3, <2>4 DEF d
  <2>6. Events(a, n) \in Seq(Addresses \X (1..3))
    BY <2>1, EventsAre
  <2>7. QED
    BY <2>1, <2>5, <2>6
<1> HIDE DEF line
<1>10. ~(n <= hook.delivered) =>
        /\ seen \in Page!Hook /\ seen.pos = place /\ seen.timeline = line /\ seen.delivered = n
        /\ seen.address = a /\ seen.phase = hook.phase /\ seen.result = hook.result
        /\ seen.error = hook.error /\ seen.settled = FALSE /\ seen.reading = {a}
        /\ seen.retries = {} /\ seen.poller = None /\ seen.stream = a
  <2> HIDE DEF n
  <2>1. QED
    BY <1>5, <1>9 DEF Page!Hook
<1> HIDE DEF seen
<1>11. CASE /\ ~(n <= hook.delivered) /\ event # "ended" /\ requests' = requests
            /\ hook' \in {[seen EXCEPT !.phase = "running"], seen}
  <2> PICK h \in {[seen EXCEPT !.phase = "running"], seen} : hook' = h
    BY <1>11
  <2>1. /\ h \in Page!Hook /\ h.pos = place /\ h.timeline = line /\ h.delivered = n
        /\ h.address = a /\ h.phase \in {"running", hook.phase} /\ h.settled = FALSE
        /\ h.reading = {a} /\ h.retries = {} /\ h.poller = None /\ h.stream = a
    <3> HIDE DEF n
    <3>1. CASE h = seen
      BY <1>10, <1>11, <3>1
    <3>2. CASE h = [seen EXCEPT !.phase = "running"]
      BY <1>10, <1>11, <3>2 DEF Page!Hook, Page!Statuses
    <3>3. QED
      BY <3>1, <3>2
  <2>2. Shown(h)
    BY <1>2, <1>9, <1>11, <2>1 DEF Shown, Whole, Page!Terminal
  <2>3. h.pos[a] <= h.delivered
    BY <1>3, <1>6, <2>1
  <2>4. QED
    BY <1>1, <1>2, <1>7, <1>11, <2>1, <2>2, <2>3, PageRests
<1>12. CASE /\ ~(n <= hook.delivered) /\ event = "ended" /\ requests' = q
            /\ hook' = [Page!Settling(told) EXCEPT !.reading = @ \ {a}]
  <2> DEFINE over == Page!Settling(told)
             h == [over EXCEPT !.reading = @ \ {a}]
  <2>1. /\ told \in Page!Hook /\ told.timeline = line /\ told.delivered = n
        /\ told.address = a /\ told.phase = hook.phase /\ told.reading = {a}
        /\ told.retries = {}
    <3> DEFINE failed == seen.error \/ row[a] = "failed"
    <3>1. told = [seen EXCEPT !.error = failed] /\ failed \in BOOLEAN
      BY <1>10, <1>12, HookIs
    <3> HIDE DEF n, told, failed
    <3>2. QED
      BY <1>10, <1>12, <3>1 DEF Page!Hook
  <2> HIDE DEF told
  <2>2. /\ over \in Page!Hook /\ over.settled = TRUE /\ over.poller = None
        /\ over.reading \subseteq told.reading /\ over.retries \subseteq told.retries
        /\ over.address = told.address /\ over.phase = told.phase
        /\ over.timeline = told.timeline /\ over.delivered = told.delivered
    BY <2>1, SettlingIs
  <2> HIDE DEF over
  <2>3. /\ h \in Page!Hook /\ h.settled = TRUE /\ h.poller = None /\ h.reading = {}
        /\ h.retries = {} /\ h.address = a /\ h.phase = hook.phase
        /\ h.timeline = line /\ h.delivered = n
    <3> HIDE DEF n
    <3>1. over.reading \ {a} = {} /\ over.retries = {}
      BY <2>1, <2>2
    <3>2. h = [over EXCEPT !.reading = {}]
      BY <3>1
    <3> HIDE DEF h
    <3>3. QED
      BY <2>1, <2>2, <3>1, <3>2 DEF Page!Hook
  <2>4. hook' = h
    BY <1>12 DEF over
  <2> HIDE DEF h
  <2>5. Shown(h)
    BY <1>2, <1>9, <1>12, <2>3 DEF Shown, Whole
  <2>6. slot \in Page!Slots
    <3>1. 1 \in Page!Free
      BY <1>2, PageAssumed DEF AllRest, Page!Free
    <3>2. QED
      BY <3>1, LeastFree DEF Page!Free
  <2>7. row[a] \in Page!Terminal
    BY <1>3, <1>12
  <2>8. ask \in Page!Request /\ ask.op = "final" /\ ask.of = a /\ ask.fallback = row[a]
        /\ ask.answer.kind = "none"
    BY <2>7, AskIs
  <2> HIDE DEF slot, ask
  <2>9. /\ q \in [Page!Slots -> Page!Request] /\ q[slot] = ask
        /\ \A j \in Page!Slots : j # slot => q[j].op = "idle"
    BY <1>2, <2>6, <2>8 DEF AllRest
  <2> HIDE DEF q
  <2>10. OneWay(h, q)
    BY <2>3, <2>8, <2>9, PageAssumed DEF OneWay
  <2>11. ReadOnce(h, q)
    BY <2>3, <2>6, <2>8, <2>9 DEF ReadOnce
  <2>12. \A j \in Page!Slots : Truthful(h, q[j])
    BY <2>3, <2>7, <2>8, <2>9 DEF Truthful
  <2>13. QED
    BY <1>1, <1>7, <1>12, <2>3, <2>4, <2>5, <2>9, <2>10, <2>11, <2>12, PageGoesOn
<1>13. QED
  BY <1>4, <1>8, <1>11, <1>12

(* An answer is on its way: it says what the platform has.                 *)
LEMMA Replied ==
  ASSUME PageStands, NEW i \in Page!Slots, requests[i].op # "idle",
         NEW answer \in Page!Answer, NEW q, q = [requests EXCEPT ![i].answer = answer],
         requests' = q, UNCHANGED <<row, log, hook, visits>>, breaks' \in 0..MaxBreaks,
         answer.kind = "missing" => requests[i].of \in Missing,
         answer.kind = "given" => answer.status = row[requests[i].of]
  PROVE  PageStands'
<1>1. hook \in Page!Hook /\ requests \in [Page!Slots -> Page!Request]
  BY OfPage
<1>2. /\ q \in [Page!Slots -> Page!Request]
      /\ \A j \in Page!Slots : /\ q[j].op = requests[j].op /\ q[j].of = requests[j].of
                               /\ q[j].fallback = requests[j].fallback
                               /\ q[j].answer = IF j = i THEN answer ELSE requests[j].answer
  <2> DEFINE r == [requests[i] EXCEPT !.answer = answer]
  <2>1. /\ r \in Page!Request /\ r.op = requests[i].op /\ r.of = requests[i].of
        /\ r.fallback = requests[i].fallback /\ r.answer = answer
    BY <1>1 DEF Page!Request
  <2>2. q = [requests EXCEPT ![i] = r]
    OBVIOUS
  <2> HIDE DEF r
  <2>3. QED
    BY <1>1, <2>1, <2>2
<1>3. OneWay(hook, q)
  <2>1. OneWay(hook, requests)
    BY OfPage
  <2>2. \A j \in Page!Slots : q[j].op = requests[j].op
    BY <1>2
  <2>3. AllRest(q) <=> AllRest(requests)
    BY <2>2 DEF AllRest
  <2>4. QED
    BY <2>1, <2>2, <2>3 DEF OneWay
<1>4. ReadOnce(hook, q)
  <2>1. \A j \in Page!Slots : q[j].op = requests[j].op
    BY <1>2
  <2>2. QED
    BY <2>1, OfPage DEF ReadOnce
<1>5. \A j \in Page!Slots : Truthful(hook, q[j])
  <2> TAKE j \in Page!Slots
  <2>1. CASE j = i
    BY <1>2, <2>1, OfPage DEF Truthful
  <2>2. CASE j # i
    BY <1>2, <2>2, OfPage DEF Truthful
  <2>3. QED
    BY <2>1, <2>2
<1>6. QED
  BY <1>1, <1>2, <1>3, <1>4, <1>5, OfPage, PageGoesOn

LEMMA AnsweredKeeps ==
  ASSUME PageStands, NEW i \in Page!Slots, Page!Answered(i)
  PROVE  PageStands'
<1> DEFINE a == requests[i].of
           status == row[a]
           seq == Len(log[a])
           answer == IF a \in Missing THEN [kind |-> "missing"]
                     ELSE [kind |-> "given", status |-> status, seq |-> seq]
<1>1. /\ requests[i].op # "idle" /\ requests' = [requests EXCEPT ![i].answer = answer]
      /\ UNCHANGED <<row, log, hook, visits, breaks>>
  BY DEF Page!Answered, Page!platform
<1>2. a \in Addresses
  BY <1>1, OfPage DEF Truthful
<1>3. status \in Page!Statuses /\ seq \in 1..3
  BY <1>2, OfPage DEF Logged
<1> HIDE DEF a, status, seq
<1>4. /\ answer \in Page!Answer
      /\ answer.kind = "missing" => a \in Missing
      /\ answer.kind = "given" => answer.status = status
  <2>1. CASE a \in Missing
    BY <2>1 DEF Page!Answer
  <2>2. CASE a \notin Missing
    BY <1>3, <2>2 DEF Page!Answer
  <2>3. QED
    BY <2>1, <2>2
<1> HIDE DEF answer
<1>5. breaks' \in 0..MaxBreaks
  BY <1>1, OfPage
<1>6. QED
  BY <1>1, <1>4, <1>5, Replied DEF a, status

LEMMA UnansweredKeeps ==
  ASSUME PageStands, NEW i \in Page!Slots, Page!Unanswered(i)
  PROVE  PageStands'
<1> DEFINE answer == [kind |-> "down"]
<1>1. /\ requests[i].op # "idle" /\ requests' = [requests EXCEPT ![i].answer = answer]
      /\ UNCHANGED <<row, log, hook, visits>>
      /\ breaks < MaxBreaks /\ breaks' = breaks + 1
  BY DEF Page!Unanswered, Page!platform
<1>2. answer \in Page!Answer /\ answer.kind = "down"
  BY DEF Page!Answer
<1> HIDE DEF answer
<1>3. breaks' \in 0..MaxBreaks
  BY <1>1, OfPage, PageAssumed
<1>4. QED
  BY <1>1, <1>2, <1>3, Replied

(* The platform goes on: a job ends once, and its events follow its row.   *)
LEMMA AdvanceKeeps ==
  ASSUME PageStands, NEW a \in Addresses, Page!Advance(a)
  PROVE  PageStands'
<1>1. /\ a \notin Missing /\ UNCHANGED <<log, hook, requests, visits, breaks>>
      /\ \E status \in Page!Statuses \ {"pending"} : row' = [row EXCEPT ![a] = status]
  BY DEF Page!Advance, Page!Statuses, Page!Terminal
<1>2. row \in [Addresses -> Page!Statuses] /\ row[a] \notin Page!Terminal
  BY OfPage DEF Page!Advance, Page!Terminal
<1>3. /\ row' \in [Addresses -> Page!Statuses] /\ row'[a] # "pending"
      /\ \A b \in Addresses : b # a => row'[b] = row[b]
  <2> PICK status \in Page!Statuses \ {"pending"} : row' = [row EXCEPT ![a] = status]
    BY <1>1
  <2>1. QED
    BY <1>2
<1>4. \A b \in Addresses : row[b] \in Page!Terminal => row'[b] = row[b]
  BY <1>2, <1>3
<1>5. Page!TypeOK'
  BY <1>1, <1>3, OfPage DEF Page!TypeOK
<1>6. Shown(hook)'
  <2>1. Whole(hook)'
    BY <1>1, OfPage DEF Shown, Whole
  <2>2. hook.phase \in Page!Terminal => hook.address \in Missing \/ hook.phase = row'[hook.address]
    <3> SUFFICES ASSUME hook.phase \in Page!Terminal, hook.address \notin Missing
                 PROVE  hook.phase = row'[hook.address]
      OBVIOUS
    <3>1. hook.phase = row[hook.address]
      BY OfPage DEF Shown
    <3>2. hook.address # None
      BY OfPage, UnmountedIs DEF OneWay, Page!Terminal
    <3>3. hook.address \in Addresses
      BY <3>2, OfPage, HookIs
    <3>4. QED
      BY <1>4, <3>1, <3>3
  <2>3. QED
    BY <1>1, <2>1, <2>2 DEF Shown
<1>7. \A b \in Addresses : Logged(b)'
  <2> TAKE b \in Addresses
  <2>1. Logged(b) /\ log'[b] = log[b]
    BY <1>1, OfPage
  <2>2. row'[b] = "pending" => row[b] = "pending"
    BY <1>3
  <2>3. row[b] \in Page!Terminal => row'[b] \in Page!Terminal
    BY <1>4
  <2>4. QED
    BY <1>1, <2>1, <2>2, <2>3 DEF Logged
<1>8. \A i \in Page!Slots : Truthful(hook, requests[i])'
  <2> TAKE i \in Page!Slots
  <2>1. Truthful(hook, requests[i])
    BY OfPage
  <2>2. QED
    BY <1>1, <1>4, <2>1 DEF Truthful
<1>9. OneWay(hook, requests)' /\ ReadOnce(hook, requests)'
  BY <1>1, OfPage DEF OneWay, AllRest, ReadOnce
<1>10. QED
  BY <1>5, <1>6, <1>7, <1>8, <1>9 DEF PageStands

LEMMA PublishedOnly ==
  ASSUME PageStands, UNCHANGED <<row, hook, requests, visits, breaks>>,
         log' \in [Addresses -> Seq({"queued", "started", "ended"})],
         \A a \in Addresses : Logged(a)'
  PROVE  PageStands'
<1>1. Page!TypeOK'
  BY OfPage DEF Page!TypeOK
<1>2. Shown(hook)'
  BY OfPage DEF Shown, Whole
<1>3. \A i \in Page!Slots : Truthful(hook, requests[i])'
  <2> TAKE i \in Page!Slots
  <2>1. Truthful(hook, requests[i])
    BY OfPage
  <2>2. QED
    BY <2>1 DEF Truthful
<1>4. OneWay(hook, requests)' /\ ReadOnce(hook, requests)'
  BY OfPage DEF OneWay, AllRest, ReadOnce
<1>5. QED
  BY <1>1, <1>2, <1>3, <1>4 DEF PageStands

LEMMA PublishKeeps ==
  ASSUME PageStands, NEW a \in Addresses, Page!Publish(a)
  PROVE  PageStands'
<1> DEFINE size == Len(log[a])
           event == IF row[a] = "running" THEN "started" ELSE "ended"
           line == Append(log[a], event)
<1>1. /\ log' = [log EXCEPT ![a] = line] /\ UNCHANGED <<row, hook, requests, visits, breaks>>
      /\ ~Page!Published(a)
  BY DEF Page!Publish
<1>2. /\ row[a] \in Page!Statuses /\ log[a] \in Seq({"queued", "started", "ended"})
      /\ log \in [Addresses -> Seq({"queued", "started", "ended"})] /\ Logged(a)
  BY OfPage
<1>3. size \in 1..3 /\ log[a][size] \in {"queued", "started", "ended"}
  BY <1>2 DEF Logged
<1>4. CASE row[a] = "running"
  <2>1. log[a][size] # "started" /\ log[a][size] # "ended"
    BY <1>1, <1>2, <1>3, <1>4 DEF Page!Published, Logged, Page!Terminal
  <2>2. size = 1 /\ log[a][1] = "queued" /\ event = "started"
    BY <1>2, <1>3, <1>4, <2>1 DEF Logged
  <2>3. line \in Seq({"queued", "started", "ended"})
    BY <1>2, <2>2
  <2>4. Len(line) = 2 /\ line[1] = "queued" /\ line[2] = "started"
    <3>1. Len(line) = size + 1 /\ line[size + 1] = event
          /\ \A n \in 1..size : line[n] = log[a][n]
      <4>1. log[a] \in Seq({"queued", "started", "ended"}) /\ event \in {"queued", "started", "ended"}
        BY <1>2, <2>2
      <4> HIDE DEF event
      <4>2. QED
        BY <4>1
    <3> HIDE DEF line
    <3>2. Len(line) = 2 /\ line[2] = event /\ line[1] = log[a][1]
      BY <2>2, <3>1
    <3>3. QED
      BY <2>2, <3>2
  <2> HIDE DEF line, event
  <2>5. log' \in [Addresses -> Seq({"queued", "started", "ended"})] /\ log'[a] = line
    BY <1>1, <1>2, <2>3
  <2>6. Logged(a)'
    <3>1. \A n \in 1..2 : line[n] # "ended"
      BY <2>4
    <3>2. row'[a] = "running"
      BY <1>1, <1>4
    <3> DEFINE s == log'[a]
               r == row'[a]
    <3>3. s = line
      BY <2>5
    <3>4. Len(s) = 2 /\ s[Len(s)] = "started" /\ r = "running"
          /\ \A n \in 1..Len(s) : s[n] # "ended"
      BY <2>4, <3>1, <3>2, <3>3
    <3> HIDE DEF s, r
    <3>5. /\ Len(s) \in 1..3
          /\ \A n \in 1..Len(s) : s[n] = "ended" => n = Len(s) /\ r \in Page!Terminal
          /\ r = "pending" => s[Len(s)] = "queued"
          /\ s[Len(s)] = "queued" => Len(s) = 1
          /\ s[Len(s)] = "started" => Len(s) = 2
      BY <3>4
    <3>6. QED
      BY <3>5 DEF Logged, s, r
  <2>7. \A b \in Addresses : Logged(b)'
    BY <1>1, <1>2, <2>6, OfPage DEF Logged
  <2>8. QED
    BY <1>1, <2>5, <2>7, OfPage, PublishedOnly
<1>5. CASE row[a] = "pending"
  BY <1>1, <1>2, <1>3, <1>5 DEF Page!Published, Logged
<1>6. CASE row[a] \in Page!Terminal
  <2>1. log[a][size] # "ended" /\ event = "ended"
    BY <1>1, <1>3, <1>6 DEF Page!Published, Page!Terminal
  <2>2. size \in 1..2 /\ \A n \in 1..size : log[a][n] # "ended"
    BY <1>2, <1>3, <2>1 DEF Logged
  <2>3. /\ line \in Seq({"queued", "started", "ended"}) /\ Len(line) = size + 1
        /\ \A n \in 1..size : line[n] = log[a][n]
        /\ line[size + 1] = "ended"
    BY <1>2, <2>1, <2>2
  <2> HIDE DEF line, event
  <2>5. log' \in [Addresses -> Seq({"queued", "started", "ended"})] /\ log'[a] = line
    BY <1>1, <1>2, <2>3
  <2>6. Logged(a)'
    BY <1>1, <1>6, <2>2, <2>3, <2>5 DEF Logged, Page!Terminal
  <2>7. \A b \in Addresses : Logged(b)'
    BY <1>1, <1>2, <2>6, OfPage DEF Logged
  <2>8. QED
    BY <1>1, <2>5, <2>7, OfPage, PublishedOnly
<1>7. QED
  BY <1>2, <1>4, <1>5, <1>6 DEF Page!Statuses, Page!Terminal

LEMMA PageKept == PageStands /\ [Page!Next]_pageVars => PageStands'
<1> SUFFICES ASSUME PageStands, [Page!Next]_pageVars PROVE PageStands'
  OBVIOUS
<1>1. CASE UNCHANGED pageVars
  <2>1. UNCHANGED <<row, hook, requests, visits, breaks, log>>
    BY <1>1 DEF pageVars
  <2>2. \A a \in Addresses : Logged(a)'
    <3> TAKE a \in Addresses
    <3>1. Logged(a)
      BY OfPage
    <3>2. QED
      BY <2>1, <3>1 DEF Logged
  <2>3. QED
    BY <2>1, <2>2, OfPage, PublishedOnly
<1>2. CASE Page!Next
  <2>1. ASSUME NEW a \in Addresses,
               \/ Page!Advance(a) \/ Page!Publish(a) \/ Page!Attach(a) \/ Page!RetryTick(a)
               \/ Page!FrameArrives(a) \/ Page!StreamEnds(a) \/ Page!StreamBreaks(a)
        PROVE  PageStands'
    BY <2>1, AdvanceKeeps, PublishKeeps, AttachKeeps, RetryTickKeeps, FrameArrivesKeeps,
       StreamEndsKeeps, StreamBreaksKeeps
  <2>2. ASSUME NEW i \in Page!Slots,
               Page!Answered(i) \/ Page!Unanswered(i) \/ Page!Callback(i)
        PROVE  PageStands'
    BY <2>2, AnsweredKeeps, UnansweredKeeps, LoadArrivesKeeps, PollArrivesKeeps,
       FinalArrivesKeeps DEF Page!Callback
  <2>3. QED
    BY <1>2, <2>1, <2>2, LeaveKeeps, PollTickKeeps DEF Page!Next
<1>3. QED
  BY <1>1, <1>2

(* What the user is shown, from the two invariants.                        *)
LEMMA ShownFollows == PageStands /\ ReportsStand => ShownIsTrue
<1> SUFFICES ASSUME PageStands, ReportsStand PROVE ShownIsTrue
  OBVIOUS
<1>1. Page!TimelineComplete
  BY OfPage DEF Shown, Whole, Events, Page!TimelineComplete
<1>2. Page!TypeOK /\ Page!OutcomeIsReal
  BY DEF PageStands, Shown, Page!OutcomeIsReal
<1>3. Page!SettlesOnce
  <2> DEFINE reads == {i \in Page!Slots : requests[i].op = "final"}
  <2>1. \A i, j \in reads : i = j
    BY OfPage DEF ReadOnce
  <2>2. Cardinality(reads) <= 1
    <3>1. CASE reads = {}
      <4>1. Cardinality(reads) = 0
        BY <3>1, FS_EmptySet
      <4>2. QED
        BY <4>1
    <3>2. CASE reads # {}
      <4>1. PICK i \in reads : reads = {i}
        BY <2>1, <3>2
      <4>2. Cardinality({i}) = 1
        BY FS_Singleton
      <4>3. QED
        BY <4>1, <4>2
    <3>3. QED
      BY <3>1, <3>2
  <2>3. Page!Cardinality(reads) <= 1
    BY <2>2, CardinalityIs
  <2>4. hook.settled => \/ hook.result = hook.address \/ hook.error
                        \/ \E i \in reads : requests[i].of = hook.address
    <3>1. \A i \in reads : requests[i].of = hook.address
      BY OfPage DEF Truthful
    <3>2. QED
      BY <3>1, OfPage DEF ReadOnce
  <2>5. QED
    BY <2>3, <2>4, Zenon DEF Page!SettlesOnce
<1>4. Report!OfferedIsThere /\ Report!KeepsItsOwner
  BY DEF ReportsStand, Stands, OfferStands, Report!OfferedIsThere, Report!KeepsItsOwner
<1>5. QED
  BY <1>1, <1>2, <1>3, <1>4 DEF ShownIsTrue, Page!OutcomeIsTold

(* What users are shown is so: the page of an investigation                *)
(* (useInvestigationJob) has every event up to the last it has seen, once  *)
(* and in order, tells an outcome only when it is the platform's, and      *)
(* makes the full read of a settled run once; and the history of reports   *)
(* (report_store, regenerate) offers no file that is gone, but to a sweep  *)
(* of the disk, and keeps the owner of a report that is rendered again.    *)
THEOREM ShownStaysTrue == MCSpec => []ShownIsTrue
<1>1. MCSpec => MCInit /\ [][MCNext]_MCvars
  BY PTL DEF MCSpec
<1>2. MCInit => PageStands /\ ReportsStand
  BY PageStarts, ReportsStart DEF MCInit
<1>3. [MCNext]_MCvars => [Page!Next]_pageVars /\ [Report!Next]_reportVars
  BY DEF MCNext, MCvars, OfAccess, OfReports, OnPage
<1>4. PageStands /\ [Page!Next]_pageVars => PageStands'
  BY PageKept
<1>5. ReportsStand /\ [Report!Next]_reportVars => ReportsStand'
  BY ReportsKept
<1>6. PageStands /\ ReportsStand => ShownIsTrue
  BY ShownFollows
<1>7. QED
  BY <1>1, <1>2, <1>3, <1>4, <1>5, <1>6, PTL

=============================================================================
