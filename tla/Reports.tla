------------------------------ MODULE Reports ------------------------------
(***************************************************************************)
(* The reports of finished investigations and the history that lists them  *)
(* (services/history_service.py), on local disk or in Postgres             *)
(* (services/report_store.py): saving one, rendering it again, and the     *)
(* sweep that deletes what is older than the retention (state.py).         *)
(*                                                                         *)
(* A write of a file or of a row is atomic; what saves, renders again and  *)
(* sweeps runs in threads that interleave between them.  The sweep of      *)
(* Postgres is one transaction; that of the disk deletes file by file and  *)
(* holds the lock of the index.  One process uses the disk.  Left out:     *)
(* what a report says, unreadable files, and deployments without retention.*)
(***************************************************************************)
EXTENDS Naturals, Sequences, FiniteSets, SequencesExt

CONSTANTS
  Ids,          \* investigations
  OwnerOf,      \* whose each of them is
  Nobody,       \* the owner of what has none
  Limit,        \* HISTORY_LIMIT
  Stores,       \* bound: which stores there may be, "files" and "table"
  MaxRenders,   \* bound: reports rendered again
  MaxFaults     \* bound: processes that die

Formats == <<"pdf", "json", "markdown">>
All == {Formats[n] : n \in DOMAIN Formats}

(* The format that is written next, by what was written last.              *)
Following == [begun |-> "pdf", pdf |-> "json", json |-> "markdown"]

(* What is assumed of the constants. *)
ReportsAssumption ==
  /\ Nobody \notin {OwnerOf[i] : i \in Ids} /\ Limit \in Nat \ {0}
  /\ Stores \subseteq {"files", "table"}
  /\ MaxRenders \in Nat /\ MaxFaults \in Nat

VARIABLES
  store,     \* which store it is, for good
  content,   \* the formats stored of each report
  payload,   \* whether the job's row still has the result
  entry,     \* the entry of each investigation in the history
  order,     \* of the index on disk, newest first
  age,       \* of each investigation: none, fresh, or past retention
  saving,    \* how far save has come: none, begun, the format it
             \* wrote last, or done
  again,     \* how far regenerate has come, likewise, and the owner it found
  sweep,     \* the sweep of the disk: entries it expires, files it has left
  overtook,  \* reports the last sweep of which deleted them while they were
             \* being rendered, or died before it marked them
  unlisted,  \* those the index on disk has once dropped, or that were rendered
             \* again before it had them
  renders, faults

kept == <<content, payload, entry, order>>
vars == <<store, kept, age, saving, again, sweep, overtook, unlisted, renders, faults>>

NoEntry == [listed |-> FALSE, owner |-> Nobody, expired |-> FALSE]
Resting == [ids |-> {}, todo |-> {}]
Steps   == {"none", "begun", "found", "done"} \cup All

Init ==
  /\ store \in Stores
  /\ content = [i \in Ids |-> {}] /\ payload = [i \in Ids |-> FALSE]
  /\ entry = [i \in Ids |-> NoEntry] /\ order = <<>>
  /\ age = [i \in Ids |-> "none"]
  /\ saving = [i \in Ids |-> "none"]
  /\ again = [i \in Ids |-> [at |-> "none", owner |-> Nobody]]
  /\ sweep = Resting /\ overtook = {} /\ unlisted = {}
  /\ renders = 0 /\ faults = 0

-----------------------------------------------------------------------------
(* Parts of the stores.                                                    *)

Unlocked == sweep = Resting

Stored(i, format) == content' = [content EXCEPT ![i] = @ \cup {format}]

(* upsert_index: at the head of the index on disk, which keeps so many;    *)
(* on the row of the investigation in Postgres.                            *)
Upsert(i, owner) ==
  LET others == SelectSeq(order, LAMBDA j : j # i)
      newer  == <<i>> \o SubSeq(others, 1, Limit - 1)
      gone   == ToSet(order) \ ToSet(newer) IN
  /\ Unlocked
  /\ IF store = "files"
     THEN order' = newer /\ unlisted' = unlisted \cup gone
     ELSE UNCHANGED <<order, unlisted>>
  /\ entry' = [j \in Ids |->
       CASE j = i -> [listed |-> TRUE, owner |-> owner, expired |-> FALSE]
         [] j # i /\ store = "files" /\ j \in gone -> NoEntry
         [] OTHER -> entry[j]]

-----------------------------------------------------------------------------
(* save, and what its caller does with the row.                            *)

(* The row is created when the job is, or by ensure.                       *)
Ensure(i) ==
  /\ saving[i] = "none" /\ age[i] = "none"
  /\ saving' = [saving EXCEPT ![i] = "begun"]
  /\ age' = [age EXCEPT ![i] = "fresh"]
  /\ UNCHANGED <<store, kept, again, sweep, overtook, unlisted, renders, faults>>

Render(i) ==
  /\ saving[i] \in DOMAIN Following
  /\ Stored(i, Following[saving[i]])
  /\ saving' = [saving EXCEPT ![i] = Following[@]]
  /\ UNCHANGED <<store, payload, entry, order, age, again, sweep, overtook, unlisted,
                 renders, faults>>

(* Faulty: the entry is written before the report is. *)
RenderedAtOnce(i) == saving[i] = "begun"

Rendered(i) == saving[i] = "markdown"

Index(i) ==
  /\ Rendered(i)
  /\ Upsert(i, OwnerOf[i])
  /\ payload' = [payload EXCEPT ![i] = store = "table"]
  /\ saving' = [saving EXCEPT ![i] = "done"]
  /\ UNCHANGED <<store, content, age, again, sweep, overtook, renders, faults>>

-----------------------------------------------------------------------------
(* regenerate.  It is for the owner, or for anybody when no entry says     *)
(* whose the report is.                                                    *)

Regenerate(i) ==
  /\ again[i].at = "none" /\ "json" \in content[i]
  /\ renders < MaxRenders /\ renders' = renders + 1
  /\ again' = [again EXCEPT ![i].at = "begun"]
  /\ unlisted' = IF entry[i].listed THEN unlisted ELSE unlisted \cup {i}
  /\ UNCHANGED <<store, kept, age, saving, sweep, overtook, faults>>

RenderAgain(i) ==
  /\ again[i].at \in DOMAIN Following
  /\ Stored(i, Following[again[i].at])
  /\ again' = [again EXCEPT ![i].at = Following[@]]
  /\ UNCHANGED <<store, payload, entry, order, age, saving, sweep, overtook, unlisted,
                 renders, faults>>

(* The owner is carried across from the entry there is.                    *)
OwnerFound(i) == entry[i].owner

FindEntry(i) ==
  /\ again[i].at = "markdown"
  /\ again' = [again EXCEPT ![i] = [at |-> "found", owner |-> OwnerFound(i)]]
  /\ UNCHANGED <<store, kept, age, saving, sweep, overtook, unlisted, renders, faults>>

IndexAgain(i) ==
  /\ again[i].at = "found"
  /\ Upsert(i, again[i].owner)
  /\ again' = [again EXCEPT ![i] = [at |-> "none", owner |-> Nobody]]
  /\ UNCHANGED <<store, content, payload, age, saving, sweep, overtook, renders, faults>>

-----------------------------------------------------------------------------
(* prune, by the sweep of every worker.                                    *)

(* Retention is days, and a save takes seconds.                            *)
Age(i) ==
  /\ age[i] = "fresh" /\ saving[i] \in {"none", "done"}
  /\ age' = [age EXCEPT ![i] = "old"]
  /\ UNCHANGED <<store, kept, saving, again, sweep, overtook, unlisted, renders, faults>>

Old == {i \in Ids : age[i] = "old"}

Overtaken(ids) == overtook' = (overtook \ ids) \cup {i \in ids : again[i].at # "none"}

(* Faulty: the payload stays. *)
PayloadKept(i) == payload[i]

PayloadLeft(i) == payload[i] /\ i \notin Old

(* Postgres: the content, the payload and the mark, in one transaction.    *)
PruneTable ==
  /\ store = "table"
  /\ \E i \in Old : content[i] # {} \/ payload[i] \/ (entry[i].listed /\ ~entry[i].expired)
  /\ content' = [i \in Ids |-> IF i \in Old THEN {} ELSE content[i]]
  /\ payload' = [i \in Ids |-> PayloadLeft(i)]
  /\ entry' = [i \in Ids |->
       IF i \in Old THEN [entry[i] EXCEPT !.expired = entry[i].listed] ELSE entry[i]]
  /\ Overtaken(Old)
  /\ UNCHANGED <<store, order, age, saving, again, sweep, unlisted, renders, faults>>

(* The disk: the entries past retention and not yet expired; their files,  *)
(* one by one, in the order of the index, which is locked; the mark on the *)
(* entries.  A file is the position of its entry and that of its format.   *)
Before(file, other) ==
  file[1] < other[1] \/ (file[1] = other[1] /\ file[2] < other[2])

SweepBegins ==
  LET ids == {i \in Old : entry[i].listed /\ ~entry[i].expired} IN
  /\ store = "files" /\ Unlocked /\ ids # {}
  /\ sweep' = [ids |-> ids,
               todo |-> {n \in 1..Len(order) : order[n] \in ids} \X DOMAIN Formats]
  /\ Overtaken(ids)
  /\ UNCHANGED <<store, kept, age, saving, again, unlisted, renders, faults>>

Unlink ==
  /\ \E file \in sweep.todo :
       LET i == order[file[1]] IN
       /\ \A other \in sweep.todo : ~Before(other, file)
       /\ content' = [content EXCEPT ![i] = @ \ {Formats[file[2]]}]
       /\ overtook' = IF again[i].at = "none" THEN overtook ELSE overtook \cup {i}
       /\ sweep' = [sweep EXCEPT !.todo = @ \ {file}]
  /\ UNCHANGED <<store, payload, entry, order, age, saving, again, unlisted, renders, faults>>

SweepEnds ==
  /\ sweep.ids # {} /\ sweep.todo = {}
  /\ entry' = [i \in Ids |->
       IF i \in sweep.ids THEN [entry[i] EXCEPT !.expired = TRUE] ELSE entry[i]]
  /\ sweep' = Resting
  /\ UNCHANGED <<store, content, payload, order, age, saving, again, overtook, unlisted,
                 renders, faults>>

(* A process dies, with every thread of it.                                *)
Dies ==
  /\ faults < MaxFaults /\ faults' = faults + 1
  /\ \/ /\ store = "files" /\ sweep' = Resting
        /\ saving' = [i \in Ids |-> IF saving[i] # "none" THEN "done" ELSE saving[i]]
        /\ again' = [i \in Ids |-> [at |-> "none", owner |-> Nobody]]
        /\ overtook' = overtook \cup sweep.ids
     \/ \E i \in Ids :
          /\ store = "table" /\ UNCHANGED <<sweep, again, overtook>>
          /\ saving[i] \notin {"none", "done"} /\ saving' = [saving EXCEPT ![i] = "done"]
     \/ \E i \in Ids :
          /\ store = "table" /\ UNCHANGED <<sweep, saving, overtook>>
          /\ again[i].at # "none"
          /\ again' = [again EXCEPT ![i] = [at |-> "none", owner |-> Nobody]]
  /\ UNCHANGED <<store, kept, age, unlisted, renders>>

-----------------------------------------------------------------------------
Saves(i)   == Ensure(i) \/ Render(i) \/ Index(i)
Renders(i) == RenderAgain(i) \/ FindEntry(i) \/ IndexAgain(i)
Sweeps     == PruneTable \/ SweepBegins \/ Unlink \/ SweepEnds

Next ==
  \/ \E i \in Ids : Saves(i) \/ Regenerate(i) \/ Renders(i) \/ Age(i)
  \/ Sweeps \/ Dies

Spec == Init /\ [][Next]_vars

(* What has begun goes on, and every sweep is followed by another.         *)
FairSpec ==
  /\ Spec /\ WF_vars(Sweeps)
  /\ \A i \in Ids : WF_vars(Renders(i))

-----------------------------------------------------------------------------
TypeOK ==
  /\ store \in Stores
  /\ content \in [Ids -> SUBSET All] /\ payload \in [Ids -> BOOLEAN]
  /\ entry \in [Ids -> [listed : BOOLEAN, owner : {OwnerOf[i] : i \in Ids} \cup {Nobody},
                        expired : BOOLEAN]]
  /\ order \in Seq(Ids) /\ Len(order) <= Limit
  /\ age \in [Ids -> {"none", "fresh", "old"}] /\ saving \in [Ids -> Steps]
  /\ again \in [Ids -> [at : Steps, owner : {OwnerOf[i] : i \in Ids} \cup {Nobody}]]
  /\ overtook \subseteq Ids /\ unlisted \subseteq Ids

OnOffer(i) == entry[i].listed /\ ~entry[i].expired

(* What the history offers can be downloaded in every format, but for a    *)
(* report that was being rendered again when the last sweep deleted it, or *)
(* whose sweep has not come to its end.                                    *)
OfferedIsThere ==
  \A i \in Ids : OnOffer(i) => content[i] = All \/ i \in sweep.ids \cup overtook

(* Rendering a report again does not take it from who owns it, if the      *)
(* history lists it and the index on disk has never dropped it.            *)
KeepsItsOwner ==
  \A i \in Ids : entry[i].listed => entry[i].owner = OwnerOf[i] \/ i \in unlisted

(* What is past retention comes to be gone for good, by every path to it,  *)
(* and its entry to say so, however often it is rendered again meanwhile.  *)
(* On disk that goes for what the index kept, if no process died rendering *)
(* it under a sweep.                                                       *)
Reached(i) == store = "table" \/ (entry[i].listed /\ i \notin unlisted \cup overtook)

RetentionReaches ==
  \A i \in Ids : <>[](age[i] = "old" /\ Reached(i) =>
                       content[i] = {} /\ ~payload[i] /\ ~OnOffer(i))
=============================================================================
