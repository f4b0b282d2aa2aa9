---------------------------- MODULE EventStream ----------------------------
(***************************************************************************)
(* The progress events of one investigation on the distributed store, from *)
(* the threads that publish them (JobProgressReporter, publish) through    *)
(* the table investigation_events and Redis to one server-sent event       *)
(* stream (subscribe, EventSequencer) and the client that resumes it.      *)
(*                                                                         *)
(* Collectors of a wave run concurrently and each awaits its own publish   *)
(* in a thread, so several publishes of a job may be in flight.  Postgres  *)
(* hands out the number at the INSERT and shows the row at the COMMIT; the *)
(* message to Redis follows.  An event is represented by its number.       *)
(***************************************************************************)
EXTENDS Naturals, Sequences, SequencesExt, FiniteSets

CONSTANTS
  Collectors,     \* collectors that run at the same time
  Finisher,       \* the worker that runs the job, when the run is over
  Reaper,         \* another worker, when the lease of the job lapsed
  Cancellers,     \* who marks the job cancelled beside them: the callback of
                  \* a task that was cancelled while its result was persisted,
                  \* and workers that take the id up again (_settle_unclaimable)
  MayCancel,      \* whether the run may be cancelled, which does not wait for
                  \* the threads of its collectors
  MayReap,        \* whether the lease may lapse while the run is still on
  MaxProgress,    \* bound: progress events
  MaxOthers,      \* bound: others than the run that settle the job
  MaxLost,        \* bound: INSERTs and messages that fail
  MaxConnections  \* bound: how often the client opens the stream

ASSUME EventsAssumption ==
  /\ Finisher \notin Collectors /\ Reaper \notin Collectors /\ Finisher # Reaper
  /\ Cancellers \cap (Collectors \cup {Finisher, Reaper}) = {}
  /\ MayCancel \in BOOLEAN /\ MayReap \in BOOLEAN
  /\ MaxProgress \in Nat /\ MaxOthers \in Nat /\ MaxLost \in Nat /\ MaxConnections \in Nat

VARIABLES
  running,      \* the run is still on
  settler,      \* who saw that the row has no terminal status yet, who gave it
                \* one and still owes the event, and who is done
  last,         \* the number handed out last
  terminal,     \* the numbers of terminal events
  log,          \* committed events
  writer,       \* publishes in flight
  crowded,      \* history: one publish began while another was in flight
  abandoned,    \* history: publishes were in flight when the run was over
  buffer,       \* messages Redis holds for the subscription
  stream,       \* the generator subscribe(), with the sequencer's position
  delivered,    \* what the client got, over all its connections
  lost,         \* bounded by MaxLost
  connections   \* bounded by MaxConnections

job == <<running, settler, last, terminal, log, writer, crowded, abandoned>>
vars == <<job, buffer, stream, delivered, lost, connections>>

Settlers == {Finisher, Reaper} \cup Cancellers
Writers  == Collectors \cup Settlers
Numbers  == Nat \ {0}
Idle == [at |-> "idle", seq |-> 0]

(* backlog and batch are what the generator read from the table and from   *)
(* Redis and has still to yield; late says that it began without history   *)
(* and with the complete timeline in the table.                            *)
Stream == [at : {"off", "subscribed", "replaying", "draining", "live", "ended"},
           backlog : SUBSET Numbers, batch : Seq(Numbers),
           position : Nat, late : BOOLEAN]

(* The row has a terminal status. *)
Settled == \E w \in Settlers : settler[w] \in {"owes", "done"}

(* The job is over for everyone: nobody will add an event to the table.    *)
Complete ==
  /\ ~running
  /\ Settled
  /\ \A w \in Settlers : settler[w] \in {"none", "done"}
  /\ \A w \in Writers : writer[w].at # "inserted"

Listening == stream.at \notin {"off", "ended"}

FewOthers ==
  Cardinality({w \in Settlers \ {Finisher} : settler[w] # "none"}) < MaxOthers

----------------------------------------------------------------------------
(* Publishing.                                                             *)

Write(w, n) ==
  /\ last' = n
  /\ crowded' = (crowded \/ \E v \in Writers : writer[v] # Idle)
  /\ writer' = [writer EXCEPT ![w] = [at |-> "inserted", seq |-> n]]

(* report: a collector of a run that is still on, whatever the row says.   *)
Insert(c) ==
  /\ running
  /\ writer[c] = Idle
  /\ last < MaxProgress
  /\ Write(c, last + 1)
  /\ UNCHANGED <<running, settler, terminal, log, abandoned, buffer, stream,
                 delivered, lost, connections>>

Commit(w) ==
  /\ writer[w].at = "inserted"
  /\ log' = log \cup {writer[w].seq}
  /\ writer' = [writer EXCEPT ![w].at = "committed"]
  /\ UNCHANGED <<running, settler, last, terminal, buffer, stream, delivered, lost,
                 connections, crowded,
                 abandoned>>

(* "Could not record event": the number is gone, and nothing is announced. *)
InsertFails(w) ==
  /\ writer[w].at = "inserted"
  /\ lost < MaxLost
  /\ lost' = lost + 1
  /\ writer' = [writer EXCEPT ![w] = Idle]
  /\ UNCHANGED <<running, settler, last, terminal, log, buffer, stream, delivered,
                 connections, crowded,
                 abandoned>>

(* publish_event, which may fail or find nobody subscribed.                *)
Announce(w) ==
  /\ writer[w].at = "committed"
  /\ writer' = [writer EXCEPT ![w] = Idle]
  /\ \/ /\ buffer' = IF Listening THEN Append(buffer, writer[w].seq) ELSE buffer
        /\ UNCHANGED lost
     \/ /\ lost < MaxLost
        /\ lost' = lost + 1
        /\ UNCHANGED buffer
  /\ UNCHANGED <<running, settler, last, terminal, log, stream, delivered,
                 connections, crowded,
                 abandoned>>

(* Faulty: the collectors of a cancelled run go on.                        *)
SettleAndGoOn ==
  /\ running /\ settler[Finisher] = "none"
  /\ MayCancel \/ \A c \in Collectors : writer[c] = Idle
  /\ settler' = [settler EXCEPT ![Finisher] = "owes"]
  /\ UNCHANGED <<running, last, terminal, log, writer, crowded, abandoned, buffer,
                 stream, delivered, lost, connections>>

(* The run is over and gives the row its status, whatever the row says     *)
(* (mark_succeeded, mark_failed, mark_cancelled), by a statement of its    *)
(* own: its collectors awaited their events, or it was cancelled.          *)
Settle ==
  /\ running
  /\ MayCancel \/ \A c \in Collectors : writer[c] = Idle
  /\ running' = FALSE
  /\ abandoned' = \E c \in Collectors : writer[c] # Idle
  /\ settler' = [settler EXCEPT ![Finisher] = "owes"]
  /\ UNCHANGED <<last, terminal, log, writer, crowded, buffer, stream, delivered,
                 lost, connections>>

(* reap_expired: the row is given up, the run is not.                      *)
Reap ==
  /\ MayReap
  /\ ~Settled
  /\ FewOthers
  /\ settler' = [settler EXCEPT ![Reaper] = "owes"]
  /\ UNCHANGED <<running, last, terminal, log, writer, crowded, abandoned, buffer,
                 stream, delivered, lost, connections>>

(* Another who is told of the cancellation reads the row, ...              *)
LookAtJob(w) ==
  /\ MayCancel
  /\ ~Settled
  /\ settler[w] = "none" /\ FewOthers
  /\ settler' = [settler EXCEPT ![w] = "saw"]
  /\ UNCHANGED <<running, last, terminal, log, writer, crowded, abandoned, buffer,
                 stream, delivered, lost, connections>>

(* ... and marks it cancelled, whatever it says by then: the thread that   *)
(* persists the result, or the run itself, goes on.                        *)
MarkCancelled(w) ==
  /\ settler[w] = "saw"
  /\ settler' = [settler EXCEPT ![w] = "owes"]
  /\ UNCHANGED <<running, last, terminal, log, writer, crowded, abandoned, buffer,
                 stream, delivered, lost, connections>>

(* The event that says how the job ended, published after the status.      *)
InsertTerminal(w) ==
  /\ settler[w] = "owes"
  /\ settler' = [settler EXCEPT ![w] = "done"]
  /\ terminal' = terminal \cup {last + 1}
  /\ Write(w, last + 1)
  /\ UNCHANGED <<running, log, abandoned, buffer, stream, delivered, lost,
                 connections>>

----------------------------------------------------------------------------
(* The stream.                                                             *)

(* Faulty: an event is taken whatever its number.                          *)
TakesAny(n, position) == TRUE

(* EventSequencer.accept *)
Accepts(n, position) == n > position

(* Faulty: the first event after the position is skipped.                  *)
BacklogAfterNext(position) == {n \in log : n > position + 1}

(* events_since, in the order of the numbers.                              *)
Backlog(position) == {n \in log : n > position}

(* The client asks for what follows the last id it saw.  Live first ...    *)
Open ==
  /\ stream.at = "off"
  /\ connections < MaxConnections
  /\ connections' = connections + 1
  /\ stream' = [stream EXCEPT !.at = "subscribed", !.backlog = {}, !.batch = <<>>]
  /\ buffer' = <<>>
  /\ UNCHANGED <<job, delivered, lost>>

(* ... then the backlog ...                                                *)
ReadBacklog ==
  /\ stream.at = "subscribed"
  /\ stream' = [stream EXCEPT !.at = "replaying", !.backlog = Backlog(stream.position),
                  !.late = stream.position = 0 /\ Complete]
  /\ UNCHANGED <<job, buffer, delivered, lost, connections>>

(* Takes n and goes to "next", or ends where a terminal event ends it.     *)
Receive(n, next, ends) ==
  IF Accepts(n, stream.position)
  THEN /\ delivered' = Append(delivered, n)
       /\ stream' = [next EXCEPT !.position = n,
                       !.at = IF ends /\ n \in terminal THEN "ended" ELSE @]
  ELSE stream' = next /\ UNCHANGED delivered

Replay ==
  /\ stream.at = "replaying"
  /\ \E n \in stream.backlog :
       /\ \A m \in stream.backlog : n <= m
       /\ Receive(n, [stream EXCEPT !.backlog = @ \ {n}], FALSE)
  /\ UNCHANGED <<job, buffer, lost, connections>>

(* ... then what arrived meanwhile ...                                     *)
Drain ==
  /\ stream.at = "replaying"
  /\ stream.backlog = {}
  /\ stream' = [stream EXCEPT !.at = "draining", !.batch = buffer]
  /\ buffer' = <<>>
  /\ UNCHANGED <<job, delivered, lost, connections>>

YieldDrained ==
  /\ stream.at = "draining"
  /\ stream.batch # <<>>
  /\ Receive(Head(stream.batch), [stream EXCEPT !.batch = Tail(@)], TRUE)
  /\ UNCHANGED <<job, buffer, lost, connections>>

(* ... then the row, and the stream is over if the job is ...              *)
LookAtRow ==
  /\ stream.at = "draining"
  /\ stream.batch = <<>>
  /\ stream' = [stream EXCEPT !.at = IF Settled THEN "ended" ELSE "live"]
  /\ UNCHANGED <<job, buffer, delivered, lost, connections>>

(* ... and otherwise event by event.                                       *)
NextEvent ==
  /\ stream.at = "live"
  /\ buffer # <<>>
  /\ buffer' = Tail(buffer)
  /\ Receive(Head(buffer), stream, TRUE)
  /\ UNCHANGED <<job, lost, connections>>

Disconnect ==
  /\ Listening
  /\ connections < MaxConnections
  /\ stream' = [stream EXCEPT !.at = "off", !.backlog = {}, !.batch = <<>>]
  /\ buffer' = <<>>
  /\ UNCHANGED <<job, delivered, lost, connections>>

----------------------------------------------------------------------------
Init ==
  /\ running = TRUE
  /\ settler = [w \in Settlers |-> "none"]
  /\ last = 0
  /\ terminal = {}
  /\ log = {}
  /\ writer = [w \in Writers |-> Idle]
  /\ crowded = FALSE
  /\ abandoned = FALSE
  /\ buffer = <<>>
  /\ stream = [at |-> "off", backlog |-> {}, batch |-> <<>>, position |-> 0,
               late |-> FALSE]
  /\ delivered = <<>>
  /\ lost = 0
  /\ connections = 0

Publish(w) == Commit(w) \/ InsertFails(w) \/ Announce(w)

Subscribe ==
  ReadBacklog \/ Replay \/ Drain \/ YieldDrained \/ LookAtRow \/ NextEvent

Next ==
  \/ \E c \in Collectors : Insert(c)
  \/ \E w \in Writers : Publish(w)
  \/ Settle \/ Reap \/ \E w \in Cancellers : LookAtJob(w) \/ MarkCancelled(w)
  \/ \E w \in Settlers : InsertTerminal(w)
  \/ Open \/ Subscribe \/ Disconnect

Spec == Init /\ [][Next]_vars

(* Runs and threads finish and the generator is scheduled; no client is    *)
(* obliged to open or keep a stream.                                       *)
FairSpec ==
  /\ Spec
  /\ WF_vars(Subscribe)
  /\ WF_vars(Settle)
  /\ \A w \in Cancellers : WF_vars(MarkCancelled(w))
  /\ \A w \in Settlers : WF_vars(InsertTerminal(w))
  /\ \A w \in Writers : WF_vars(Publish(w))

----------------------------------------------------------------------------
TypeOK ==
  /\ running \in BOOLEAN
  /\ settler \in [Settlers -> {"none", "saw", "owes", "done"}]
  /\ last \in Nat
  /\ terminal \subseteq Numbers
  /\ log \subseteq Numbers
  /\ writer \in [Writers -> [at : {"idle", "inserted", "committed"},
                             seq : Nat]]
  /\ crowded \in BOOLEAN /\ abandoned \in BOOLEAN
  /\ buffer \in Seq(Numbers)
  /\ stream \in Stream
  /\ delivered \in Seq(Numbers)
  /\ lost \in 0..MaxLost
  /\ connections \in 0..MaxConnections

(* No event twice and none out of order, over reconnections, concurrent    *)
(* collectors, lost messages and events that are in both the backlog and   *)
(* the live feed ("the sequence gives no duplicate").                      *)
InOrder ==
  \A i, k \in 1..Len(delivered) : i < k => delivered[i] < delivered[k]

(* A client without history that opens the stream of a job that is over    *)
(* for everyone is shown the whole timeline before the stream ends,        *)
(* whatever was lost on the way to others: "losing a message costs time,   *)
(* never correctness".                                                     *)
LateReaderSeesAll ==
  stream.at = "ended" /\ stream.late => ToSet(delivered) = log

(* subscribe promises "dropping and duplicating nothing": an event in the  *)
(* table is never behind the client's position without having reached it.  *)
(* It breaks that promise when publishes commit out of order (README, 4).  *)
NothingDropped ==
  \A n \in log : n <= stream.position => n \in ToSet(delivered)

(* The promise holds as long as collectors take turns and no message is    *)
(* lost, wherever the publishes fall between the subscription, the         *)
(* backlog, the drained buffer and a reconnection.                         *)
OrderlyDropsNothing == ~crowded /\ lost = 0 => NothingDropped

(* Whoever comes late or comes back misses nothing.                        *)
MissesNothing == LateReaderSeesAll /\ OrderlyDropsNothing

(* A stream that the server ends has delivered the event that says how the *)
(* job ended ("terminal event delivered").  Refuted: README, section 4.    *)
EndsWithTerminal ==
  stream.at = "ended" => terminal \cap ToSet(delivered) # {}

(* Nobody but the run has given the row a terminal status.                 *)
SettledAlone == \A w \in Settlers \ {Finisher} : settler[w] \in {"none", "saw"}

(* A terminal event "cannot overtake the progress events before it"        *)
(* (JobProgressReporter).  Once a run that was not cut off has given the   *)
(* row its status only terminal events enter the table, concurrent         *)
(* publishes or not, and whoever else settles the job.  And once a         *)
(* terminal event is in the table none follows, unless publishes           *)
(* overlapped or another settled the job as well: the reaper, the callback *)
(* of a task cancelled while its result was persisted, a worker that took  *)
(* up the id of a cancelled job.  Without the exceptions it is refuted:    *)
(* README, section 4.                                                      *)
TerminalIsLast ==
  [][/\ settler[Finisher] # "none" /\ ~abandoned => log' \ log \subseteq terminal
     /\ terminal \cap log # {} /\ ~crowded /\ SettledAlone => log' = log]_vars

(* The stream of a job that is settled ends, or its client leaves: nobody  *)
(* watches keepalives of a job that is over.  Refuted when the message of  *)
(* the terminal event is lost: README, section 4.                          *)
StreamEnds == Settled /\ Listening ~> ~Listening

(* It does if no message was lost, although the terminal event may come    *)
(* before, between or after the backlog, the buffer and the look at the    *)
(* row, and a run that was reaped or cancelled goes on reporting after it. *)
HeardStreamEnds == Settled /\ Listening ~> ~Listening \/ lost > 0
=============================================================================
