------------------------------- MODULE Access -------------------------------
(***************************************************************************)
(* Who may do what in a tenant: authentication (auth/), the gate of every  *)
(* route (authz/dependencies.py), the resolution of a role                 *)
(* (authz/resolver.py), the members of each tenant (authz/store.py,        *)
(* persistence/members.py) and the changes made to them over HTTP          *)
(* (api/members.py) and from the host (rbacctl.py).                        *)
(*                                                                         *)
(* A call of the store is a statement of the database; or it reads the     *)
(* whole file of members, and if it changes anything writes all of it      *)
(* back, under a lock of its own process.  rbacctl is another process, and *)
(* so a rewrite is two steps.  Handlers run in threads of their own and    *)
(* interleave between the calls.  Left out: emails, times, the listing,    *)
(* the audit line of a change made, and the deployments without            *)
(* authentication, where every caller is an owner.                         *)
(***************************************************************************)
EXTENDS Naturals, FiniteSets, FiniteSetsExt

CONSTANTS
  People, Tenants,
  DefaultTenant,   \* of a context nobody has set
  HomeOf,          \* the tenant the credential of each person names
  GroupRole,       \* the strongest role their groups map to, or None
  Fallback,        \* RBAC_DEFAULT_ROLE, or None
  Offered,         \* bound: roles that are asked for
  Handlers,        \* threads that serve requests, and shells of rbacctl
  Shells,          \* those of them that are shells
  Bindings,        \* the rows each tenant may have at first
  MaxChanges,      \* bound: changes begun
  MaxFaults,       \* bound: calls of the store that fail
  None

RoleOrder == <<"viewer", "operator", "admin", "owner">>
Roles == {RoleOrder[i] : i \in DOMAIN RoleOrder}

Rank(role) == CHOOSE i \in DOMAIN RoleOrder : RoleOrder[i] = role

(* A row says that a person was seen, and what was granted them, if it was.*)
NoRow == [known |-> FALSE, role |-> None, suspended |-> FALSE]
Granted(role) == [known |-> TRUE, role |-> role, suspended |-> FALSE]
Rows == [known : {TRUE}, role : Roles \cup {None}, suspended : BOOLEAN] \cup {NoRow}

ASSUME AccessAssumption ==
  /\ IsFiniteSet(People)
  /\ DefaultTenant \in Tenants /\ HomeOf \in [People -> Tenants]
  /\ GroupRole \in [People -> Roles \cup {None}] /\ Fallback \in Roles \cup {None}
  /\ Offered \subseteq Roles /\ Shells \subseteq Handlers /\ None \notin Roles
  /\ \A t \in Tenants : Bindings[t] \subseteq [People -> Rows]
  /\ MaxChanges \in Nat /\ MaxFaults \in Nat

(* What a request can ask: a role for somebody, or None to take their      *)
(* binding away, suspend or restore them; run stands for what members do   *)
(* not concern.                                                            *)
Changes == [op : {"assign"}, role : Offered] \cup
           [op : {"remove", "suspend", "restore", "run"}, role : {None}]

VARIABLES
  inFile,    \* whether the members are kept in a file, or in the database
  members,   \* the row of each person in each tenant
  handler,   \* what each handler is at
  changes,   \* bounded by MaxChanges
  faults,    \* bounded by MaxFaults
  raced      \* whether the last write was by a handler whose look at the
             \* owners, or at the file, another write had outdated

vars == <<inFile, members, handler, changes, faults, raced>>

(* stage: the last thing the handler has done.  holds: the role its actor  *)
(* was last found to have, by source, and tenant: the ambient one.  stale: *)
(* the owners changed after it counted them.  book: the file as it read it *)
(* to write it back.                                                       *)
Idle == [stage |-> "idle", actor |-> None, tenant |-> DefaultTenant, holds |-> None,
         change |-> [op |-> "run", role |-> None], target |-> None, stale |-> FALSE,
         book |-> None]

Rewriting == {"touching", "rewriting"}
Resolved  == {"clear", "rewriting"}
Stages    == {"idle", "authenticated", "seen", "gated", "granted", "looked", "counting"}
               \cup Rewriting \cup Resolved

Books == [Tenants -> [People -> Rows]]

Init ==
  /\ inFile \in BOOLEAN
  /\ members \in {f \in [Tenants -> UNION {Bindings[t] : t \in Tenants}] :
                    \A t \in Tenants : f[t] \in Bindings[t]}
  /\ handler = [h \in Handlers |-> Idle]
  /\ changes = 0 /\ faults = 0 /\ raced = FALSE

-----------------------------------------------------------------------------
(* The model of roles.                                                     *)

Permissions(role) ==
  CASE role = None       -> {}
    [] role = "viewer"   -> {"investigation.read", "cluster.read"}
    [] role = "operator" -> {"investigation.read", "cluster.read", "investigation.run"}
    [] role = "admin"    -> {"investigation.read", "cluster.read", "investigation.run",
                             "cluster.enrol", "cluster.revoke",
                             "member.read", "member.manage"}
    [] role = "owner"    -> {"investigation.read", "cluster.read", "investigation.run",
                             "cluster.enrol", "cluster.revoke",
                             "member.read", "member.manage",
                             "member.manage_owner", "investigation.read_all"}

(* ROUTE_PERMISSIONS.                                                      *)
Needed(op) == IF op = "run" THEN "investigation.run" ELSE "member.manage"

Highest(roles) ==
  LET present == roles \ {None} IN
  IF present = {} THEN None
  ELSE CHOOSE r \in present : \A q \in present : Rank(q) <= Rank(r)

(* What a person may do under a row of theirs: nothing while suspended,    *)
(* else the higher of group and binding, else what the deployment gives.   *)
Resolve(person, row) ==
  LET granted == Highest({GroupRole[person], row.role}) IN
  IF row.suspended THEN None ELSE IF granted # None THEN granted ELSE Fallback

IsOwner(row) == row.role = "owner" /\ ~row.suspended

Owners(book, t) == {p \in People : IsOwner(book[t][p])}
CountOwners(t)  == Cardinality(Owners(members, t))

-----------------------------------------------------------------------------
(* A request, until its handler begins.                                    *)

At(h, stage)  == handler[h].stage = stage
RowOf(h, p)   == members[handler[h].tenant][p]
Target(h)     == RowOf(h, handler[h].target)
Go(h, stage)  == handler' = [handler EXCEPT ![h].stage = stage]
Done(h)       == handler' = [handler EXCEPT ![h] = Idle]

(* The lock of the file store is one of its process: the service, where    *)
(* requests are threads, or the shell.                                     *)
Process(h) == IF h \in Shells THEN h ELSE "service"
Free(h)    == \A g \in Handlers : Process(g) = Process(h) => handler[g].stage \notin Rewriting
Reads(h, stage) == At(h, stage) /\ Free(h)

(* A rewrite of the file begins: all of it is read.                        *)
Opens(h) ==
  /\ inFile /\ handler[h].stage \in {"seen", "clear"} /\ Free(h)
  /\ handler' = [handler EXCEPT
       ![h].stage = IF At(h, "seen") THEN "touching" ELSE "rewriting", ![h].book = members]
  /\ UNCHANGED <<inFile, members, changes, faults, raced>>

(* The rows a change is made to: of the file, as they were read.           *)
Base(h) == IF inFile THEN handler[h].book ELSE members

(* The members become those of book, and h goes on as on.                  *)
Saves(h, book, on) ==
  /\ members' = book
  /\ handler' = [g \in Handlers |->
       IF g = h THEN on
       ELSE [handler[g] EXCEPT !.stale =
               @ \/ /\ handler[g].stage \in Resolved
                    /\ Owners(book, handler[g].tenant) # Owners(members, handler[g].tenant)]]
  /\ raced' = (handler[h].stale \/ Base(h) # members)
  /\ UNCHANGED <<inFile, changes, faults>>

(* Faulty: the tenant is set in the context of a worker thread, and lost. *)
AmbientLost(person) == DefaultTenant

(* The tenant the credential names, for the rest of the request.           *)
Ambient(person) == HomeOf[person]

(* require_principal.  A caller without a usable credential gets no        *)
(* further, and changes nothing.                                           *)
Authenticate(h) ==
  /\ h \notin Shells /\ At(h, "idle")
  /\ changes < MaxChanges /\ changes' = changes + 1
  /\ \E person \in People, target \in People, change \in Changes :
       /\ change.op = "run" => target = person
       /\ handler' = [handler EXCEPT ![h] =
            [Idle EXCEPT !.stage = "authenticated", !.actor = person, !.target = target,
                         !.tenant = Ambient(person), !.change = change]]
  /\ UNCHANGED <<inFile, members, faults, raced>>

Found(h) == Resolve(handler[h].actor, RowOf(h, handler[h].actor))

(* What is found lets a request through, or not.                           *)
Decided(at) ==
  IF Needed(at.change.op) \in Permissions(at.holds) /\ at.change.op # "run"
  THEN [at EXCEPT !.stage = "gated", !.holds = None, !.book = None] ELSE Idle

(* require_permission: resolve; record the sighting, when the last one was *)
(* long enough ago; decide.                                                *)
Gate(h) ==
  /\ Reads(h, "authenticated")
  /\ LET found == [handler[h] EXCEPT !.holds = Found(h)] IN
     \E on \in {Decided(found), [found EXCEPT !.stage = "seen"]} :
       handler' = [handler EXCEPT ![h] = on]
  /\ UNCHANGED <<inFile, members, changes, faults, raced>>

(* Seen and not granted is a row without a role.                           *)
Sighted(h) ==
  LET t == handler[h].tenant
      p == handler[h].actor IN
  IF Base(h)[t][p].known THEN Base(h) ELSE [Base(h) EXCEPT ![t][p] = Granted(None)]

Touch(h) ==
  /\ At(h, IF inFile THEN "touching" ELSE "seen")
  /\ Saves(h, Sighted(h), Decided(handler[h]))

-----------------------------------------------------------------------------
(* The handlers of /members and the service under them.                    *)

(* _refuse_escalation.                                                     *)
Outranks(holds, role) == holds # None /\ Rank(role) <= Rank(holds)

MayGrant(holds, role) ==
  /\ Outranks(holds, role)
  /\ role = "owner" => "member.manage_owner" \in Permissions(holds)

(* Making somebody an owner cannot take the last one away.                 *)
AfterAssigning(role) == IF role = "owner" THEN "clear" ELSE "looked"

(* grant_for, again and by the handler itself; then assign_role compares   *)
(* it with the role asked for.                                             *)
Grant(h) ==
  LET found == Found(h)
      change == handler[h].change
      now == [handler EXCEPT ![h].stage = "granted", ![h].holds = found] IN
  /\ Reads(h, "gated")
  /\ handler' =
       CASE change.op # "assign" -> now
         [] change.op = "assign" /\ MayGrant(found, change.role) ->
              [now EXCEPT ![h].stage = AfterAssigning(change.role)]
         [] OTHER -> [handler EXCEPT ![h] = Idle]
  /\ UNCHANGED <<inFile, members, changes, faults, raced>>

(* rbacctl: the tenant is named on the command line, and no role asked for.*)
Shell(h) ==
  /\ h \in Shells /\ At(h, "idle")
  /\ changes < MaxChanges /\ changes' = changes + 1
  /\ \E t \in Tenants, target \in People, change \in Changes :
       /\ change.op # "run"
       /\ handler' = [handler EXCEPT ![h] =
            [Idle EXCEPT !.tenant = t, !.target = target, !.change = change,
                         !.stage = IF change.op = "assign"
                                   THEN AfterAssigning(change.role) ELSE "granted"]]
  /\ UNCHANGED <<inFile, members, faults, raced>>

(* remove_role and set_suspended look at whom they are about to change.    *)
LookAtTarget(h) ==
  /\ Reads(h, "granted")
  /\ handler' =
       IF \/ ~Target(h).known /\ handler[h].change.op # "remove"
          \/ /\ h \notin Shells /\ Target(h).role # None
             /\ ~Outranks(handler[h].holds, Target(h).role)
       THEN [handler EXCEPT ![h] = Idle]
       ELSE [handler EXCEPT ![h].stage =
               IF handler[h].change.op = "restore" THEN "clear" ELSE "looked"]
  /\ UNCHANGED <<inFile, members, changes, faults, raced>>

(* _refuse_last_owner: is it an owner at all, and then, how many are there?*)
LookAtFloor(h) ==
  /\ Reads(h, "looked")
  /\ Go(h, IF IsOwner(Target(h)) THEN "counting" ELSE "clear")
  /\ UNCHANGED <<inFile, members, changes, faults, raced>>

Count(h) ==
  /\ Reads(h, "counting")
  /\ IF CountOwners(handler[h].tenant) <= 1 THEN Done(h) ELSE Go(h, "clear")
  /\ UNCHANGED <<inFile, members, changes, faults, raced>>

Changed(row, change) ==
  CASE change.op = "assign"  -> [row EXCEPT !.known = TRUE, !.role = change.role]
    [] change.op = "remove"  -> NoRow
    [] change.op \in {"suspend", "restore"} ->
         IF row.known THEN [row EXCEPT !.suspended = change.op = "suspend"] ELSE row

(* What upsert, remove and set_suspended make of the members.  Of whom     *)
(* there is no row, nothing is taken away or suspended, or written.        *)
Altered(h) ==
  LET at  == handler[h]
      row == Base(h)[at.tenant][at.target] IN
  IF at.change.op = "assign" \/ row.known
  THEN [Base(h) EXCEPT ![at.tenant][at.target] = Changed(row, at.change)] ELSE members

Write(h) ==
  /\ At(h, IF inFile THEN "rewriting" ELSE "clear")
  /\ Saves(h, Altered(h), Idle)

(* The store cannot be read or written: 503 or 500, and nothing is done;   *)
(* but for a sighting, which is then missed.                               *)
StoreFails(h) ==
  /\ handler[h].stage # "idle"
  /\ faults < MaxFaults /\ faults' = faults + 1
  /\ handler' = [handler EXCEPT ![h] =
       IF @.stage \in {"seen", "touching"} THEN Decided(@) ELSE Idle]
  /\ UNCHANGED <<inFile, members, changes, raced>>

Next ==
  \E h \in Handlers :
    \/ Authenticate(h) \/ Gate(h) \/ Touch(h) \/ Grant(h) \/ Shell(h)
    \/ LookAtTarget(h) \/ LookAtFloor(h) \/ Count(h) \/ Opens(h) \/ Write(h)
    \/ StoreFails(h)

Spec == Init /\ [][Next]_vars
-----------------------------------------------------------------------------
TypeOK ==
  /\ inFile \in BOOLEAN /\ members \in Books
  /\ handler \in [Handlers -> [stage : Stages, actor : People \cup {None},
       tenant : Tenants, holds : Roles \cup {None}, change : Changes,
       target : People \cup {None}, stale : BOOLEAN, book : Books \cup {None}]]
  /\ changes \in 0..MaxChanges /\ faults \in 0..MaxFaults /\ raced \in BOOLEAN

Effective(t, p) == Resolve(p, members[t][p])
Above(r, q)     == r # None /\ (q = None \/ Rank(r) > Rank(q))

(* A change of what p may do in t that was asked for by a member of that   *)
(* tenant or from the host; by which no one is granted more over HTTP than *)
(* who granted it held.                                                    *)
Asked(h, t, p) ==
  /\ handler[h].stage \in Resolved /\ handler'[h] = Idle
  /\ handler[h].tenant = t /\ handler[h].target = p
  /\ h \in Shells \/ HomeOf[handler[h].actor] = t
  /\ (h \notin Shells /\ handler[h].change.op = "assign"
       /\ Above(Effective(t, p)', Resolve(p, Base(h)[t][p]))) =>
         Rank(Effective(t, p)') <= Rank(handler[h].holds)

(* The file is written back as it was read before another process wrote.   *)
Undone(h, t, p) ==
  /\ handler[h].stage \in Rewriting /\ handler'[h].stage \notin Rewriting
  /\ handler[h].book # members
  /\ Effective(t, p)' = Resolve(p, handler[h].book[t][p])

(* What somebody may do in a tenant changes by a change asked for them, and*)
(* never by their being seen or by somebody else's request, but where the  *)
(* members are a file, and a rewrite of it by one process undoes what      *)
(* another has written since it read it.                                   *)
AuthorityIsGranted ==
  [][\A t \in Tenants, p \in People :
       Effective(t, p)' # Effective(t, p) =>
         \E h \in Handlers : Asked(h, t, p) \/ Undone(h, t, p)]_vars

HasOwner(t) == \E p \in People : IsOwner(members[t][p])

(* A tenant loses its last owner only when two changes overlap: a write by *)
(* who counted the owners, and of the file as it is, leaves one.           *)
FloorGivesWayToRaces ==
  [][\A t \in Tenants : HasOwner(t) /\ ~HasOwner(t)' => raced']_vars

(* "It grants no authority either way": a sighting, or a change of one     *)
(* person, leaves what others may do.                                      *)
NothingIsUndone ==
  [][\A t \in Tenants, p \in People :
       Effective(t, p)' # Effective(t, p) => \E h \in Handlers : Asked(h, t, p)]_vars

(* "A tenant's last owner cannot be demoted, removed or suspended."        *)
LastOwnerStays == [][\A t \in Tenants : HasOwner(t) => HasOwner(t)']_vars
=============================================================================
