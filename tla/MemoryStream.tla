---------------------------- MODULE MemoryStream ----------------------------
(***************************************************************************)
(* The progress events of one investigation on the in-process store        *)
(* (jobs/store.py): publish, subscribe and the sentinel that ends a        *)
(* stream.  The subscriber is a generator on the event loop; publishers    *)
(* are threads, for JobProgressReporter and the runner call the store      *)
(* through asyncio.to_thread, and nothing locks the store: another thread  *)
(* may run between any two of its statements.                              *)
(***************************************************************************)
EXTENDS Naturals, Sequences, SequencesExt

CONSTANTS
  Collectors,     \* collectors that run at the same time
  Finisher,       \* the run, or the thread that persists its result
  Callback,       \* the done callback of its task, _finished
  MayCancel,      \* whether the run may be cancelled, which does not wait for
                  \* the threads of its collectors nor for the one that persists
  QueueSize,      \* SUBSCRIBER_QUEUE_SIZE
  MaxProgress,    \* bound: progress events
  MaxConnections  \* bound: how often the client opens the stream

(* Assumed of them.                                                        *)
MemoryAssumption ==
  /\ Finisher \notin Collectors /\ Callback \notin Collectors
  /\ Finisher # Callback
  /\ MayCancel \in BOOLEAN
  /\ QueueSize \in Nat \ {0}
  /\ MaxProgress \in Nat /\ MaxConnections \in Nat

VARIABLES
  status,       \* "running" or "terminal"
  sequence,     \* the store's counter for the job
  events,       \* job.events
  published,    \* progress events begun, bounded by MaxProgress
  writer,       \* calls of publish and _close in flight
  crowded,      \* history: one publish began while another was in flight
  overflowed,   \* history: the queue was full
  queue,        \* the subscriber's queue
  stream,       \* the generator subscribe(), with the sequencer's position
  delivered,    \* events the client got, over all its connections
  connections   \* bounded by MaxConnections

job == <<status, sequence, events, published, writer, crowded>>
client == <<stream, delivered, connections>>
vars == <<job, overflowed, queue, client>>

Settlers == {Finisher, Callback}
Writers  == Collectors \cup Settlers

(* An event: what it says, as its place in the order of the calls, and the *)
(* number publish gave it.  0 says how the job ended.                      *)
TheEnd   == 0
Event    == [says : 0..MaxProgress, seq : Nat \ {0}]
Sentinel == [says |-> TheEnd, seq |-> 0]     \* None in the queue

Writer == [at : {"idle", "saw", "read", "numbered", "appended", "closing", "closed"},
           says : 0..MaxProgress, seq : Nat]
Idle == [at |-> "idle", says |-> TheEnd, seq |-> 0]

(* A call of publish, or of _close behind it, is in flight.                *)
Publishing(w) == writer[w].at \notin {"idle", "saw", "closed"}

(* whole: the stream waited for live events before the job was settled,    *)
(* with every event so far yielded or in its queue.                        *)
Stream == [at : {"off", "registered", "replaying", "live", "ended"},
           batch : Seq(Event), position : Nat, whole : BOOLEAN]

Listening == stream.at \notin {"off", "ended"}

(* put_nowait, and QueueFull: the item is dropped.                         *)
Put(item) ==
  LET full == Listening /\ Len(queue) = QueueSize IN
  /\ queue' = IF Listening /\ ~full THEN Append(queue, item) ELSE queue
  /\ overflowed' = (overflowed \/ full)

----------------------------------------------------------------------------
(* publish: reads the counter, ...                                         *)
Begin(w, says) ==
  /\ crowded' = (crowded \/ \E v \in Writers : Publishing(v))
  /\ writer' = [writer EXCEPT ![w] =
       [at |-> "read", says |-> says, seq |-> sequence + 1]]

Report(c) ==
  /\ status = "running" /\ writer[Callback] = Idle
  /\ writer[c] = Idle
  /\ published < MaxProgress
  /\ published' = published + 1
  /\ Begin(c, published + 1)
  /\ UNCHANGED <<overflowed, status, sequence, events, queue, client>>

(* ... writes it, ...                                                      *)
Number(w) ==
  /\ writer[w].at = "read"
  /\ sequence' = writer[w].seq
  /\ writer' = [writer EXCEPT ![w].at = "numbered"]
  /\ UNCHANGED <<crowded, overflowed, status, events, published, queue,
                 client>>

(* ... records the event ...                                               *)
Record(w) ==
  /\ writer[w].at = "numbered"
  /\ events' = Append(events, [says |-> writer[w].says, seq |-> writer[w].seq])
  /\ writer' = [writer EXCEPT ![w].at = "appended"]
  /\ UNCHANGED <<crowded, overflowed, status, sequence, published, queue,
                 client>>

(* ... and fans it out.                                                    *)
FanOut(w) ==
  /\ writer[w].at = "appended"
  /\ Put([says |-> writer[w].says, seq |-> writer[w].seq])
  /\ writer' = [writer EXCEPT ![w] =
       IF w \in Settlers THEN [@ EXCEPT !.at = "closing"] ELSE Idle]
  /\ UNCHANGED <<crowded, status, sequence, events, published, client>>

(* mark_succeeded, mark_failed, mark_cancelled: the status, whatever it    *)
(* was, the event ...                                                      *)
Mark(w) ==
  /\ status' = "terminal"
  /\ Begin(w, TheEnd)
  /\ UNCHANGED <<overflowed, sequence, events, published, queue, client>>

(* The run is over, whose collectors awaited their events, or cut off.     *)
Settle ==
  /\ writer[Finisher] = Idle
  /\ MayCancel \/ \A c \in Collectors : writer[c] = Idle
  /\ Mark(Finisher)

(* The task is cancelled while a thread persists its result: _finished     *)
(* looks at the status, ...                                                *)
Look ==
  /\ MayCancel
  /\ status = "running"
  /\ writer[Callback] = Idle
  /\ writer' = [writer EXCEPT ![Callback].at = "saw"]
  /\ UNCHANGED <<overflowed, status, sequence, events, published, crowded, queue,
                 client>>

(* ... and marks the job cancelled while the thread goes on.               *)
MarkCancelled ==
  /\ writer[Callback].at = "saw"
  /\ Mark(Callback)

(* Faulty: nobody is told that there will be no more.                      *)
NoClose(w) ==
  /\ writer[w].at = "closing"
  /\ writer' = [writer EXCEPT ![w].at = "closed"]
  /\ UNCHANGED <<crowded, overflowed, status, sequence, events, published,
                 queue, client>>

(* ... and _close.                                                         *)
Close(w) ==
  /\ writer[w].at = "closing"
  /\ Put(Sentinel)
  /\ writer' = [writer EXCEPT ![w].at = "closed"]
  /\ UNCHANGED <<crowded, status, sequence, events, published, client>>

----------------------------------------------------------------------------
(* EventSequencer.accept                                                   *)
Accepts(seq) == seq > stream.position

Deliver(event, next) ==
  IF Accepts(event.seq)
  THEN /\ stream' = [next EXCEPT !.position = event.seq]
       /\ delivered' = Append(delivered, event)
  ELSE stream' = next /\ UNCHANGED delivered

(* subscribe registers its queue ...                                       *)
Register ==
  /\ stream.at = "off"
  /\ connections < MaxConnections
  /\ connections' = connections + 1
  /\ stream' = [stream EXCEPT !.at = "registered", !.batch = <<>>,
                               !.whole = FALSE]
  /\ queue' = <<>>
  /\ UNCHANGED <<job, overflowed, delivered>>

(* ... and copies the events so far, ...                                   *)
Copy ==
  /\ stream.at = "registered"
  /\ stream' = [stream EXCEPT !.at = "replaying", !.batch = events]
  /\ UNCHANGED <<job, overflowed, queue, delivered, connections>>

(* ... which it yields, ...                                                *)
Replay ==
  /\ stream.at = "replaying"
  /\ stream.batch # <<>>
  /\ Deliver(Head(stream.batch), [stream EXCEPT !.batch = Tail(@)])
  /\ UNCHANGED <<job, overflowed, queue, connections>>

(* Faulty: the queue is registered only now.                               *)
RegisterLate ==
  /\ stream.at = "replaying"
  /\ stream.batch = <<>>
  /\ stream' = IF status = "terminal"
               THEN [stream EXCEPT !.at = "ended"]
               ELSE [stream EXCEPT !.at = "live", !.whole = TRUE]
  /\ queue' = <<>>
  /\ UNCHANGED <<job, overflowed, delivered, connections>>

(* ... looks at the status, without looking into the queue, ...            *)
LookAtStatus ==
  /\ stream.at = "replaying"
  /\ stream.batch = <<>>
  /\ stream' = IF status = "terminal"
               THEN [stream EXCEPT !.at = "ended"]
               ELSE [stream EXCEPT !.at = "live", !.whole = TRUE]
  /\ UNCHANGED <<job, overflowed, queue, delivered, connections>>

(* ... and then takes from the queue until the sentinel.                   *)
Get ==
  /\ stream.at = "live"
  /\ queue # <<>>
  /\ queue' = Tail(queue)
  /\ IF Head(queue) = Sentinel
     THEN stream' = [stream EXCEPT !.at = "ended"] /\ UNCHANGED delivered
     ELSE Deliver(Head(queue), stream)
  /\ UNCHANGED <<job, overflowed, connections>>

(* The client goes, and the generator's finally takes the queue away.      *)
Disconnect ==
  /\ Listening
  /\ connections < MaxConnections
  /\ stream' = [stream EXCEPT !.at = "off", !.batch = <<>>]
  /\ queue' = <<>>
  /\ UNCHANGED <<job, overflowed, delivered, connections>>

----------------------------------------------------------------------------
Init ==
  /\ status = "running"
  /\ sequence = 0
  /\ events = <<>>
  /\ published = 0
  /\ writer = [w \in Writers |-> Idle]
  /\ crowded = FALSE
  /\ overflowed = FALSE
  /\ queue = <<>>
  /\ stream = [at |-> "off", batch |-> <<>>, position |-> 0, whole |-> FALSE]
  /\ delivered = <<>>
  /\ connections = 0

Publish(w) == Number(w) \/ Record(w) \/ FanOut(w)

Subscribe == Copy \/ Replay \/ LookAtStatus \/ Get

Next ==
  \/ \E c \in Collectors : Report(c)
  \/ \E w \in Writers : Publish(w)
  \/ Settle \/ Look \/ MarkCancelled \/ \E w \in Settlers : Close(w)
  \/ Register \/ Subscribe \/ Disconnect

Spec == Init /\ [][Next]_vars

(* Threads finish and the event loop runs what is ready; a client owes     *)
(* nothing.                                                                *)
FairSpec ==
  /\ Spec
  /\ WF_vars(Subscribe)
  /\ WF_vars(MarkCancelled)
  /\ \A w \in Settlers : WF_vars(Close(w))
  /\ \A w \in Writers : WF_vars(Publish(w))

----------------------------------------------------------------------------
TypeOK ==
  /\ status \in {"running", "terminal"}
  /\ sequence \in Nat
  /\ events \in Seq(Event)
  /\ published \in 0..MaxProgress
  /\ writer \in [Writers -> Writer]
  /\ crowded \in BOOLEAN /\ overflowed \in BOOLEAN
  /\ queue \in Seq(Event \cup {Sentinel}) /\ Len(queue) <= QueueSize
  /\ stream \in Stream
  /\ delivered \in Seq(Event)
  /\ connections \in 0..MaxConnections

(* The ids a client sees only grow, over reconnections, threads that take  *)
(* the same number and queues that overflow: a resumed stream is never     *)
(* sent anything twice ("no duplicates", "monotonic ids").                 *)
IdsGrow ==
  \A i, k \in 1..Len(delivered) : i < k => delivered[i].seq < delivered[k].seq

(* While publishers take turns and the queue is never full, subscribe loses *)
(* nothing: what is recorded at or below the client's position has reached *)
(* it, wherever events fall between registration, copy, replay and queue.  *)
NothingLost ==
  ~crowded /\ ~overflowed =>
    \A i \in 1..Len(events) :
      events[i].seq <= stream.position => events[i] \in ToSet(delivered)

(* A stream that was live before its job was settled ends with the whole   *)
(* timeline delivered, the event that says how the job ended included.     *)
(* What it can lack is that the job ended again: a cancellation that meets *)
(* the thread that persists the result is recorded next to its outcome,    *)
(* by whoever comes second, behind the sentinel of the first.              *)
LiveStreamSeesAll ==
  stream.at = "ended" /\ stream.whole /\ ~crowded /\ ~overflowed =>
    \A i \in 1..Len(events) :
      \/ events[i] \in ToSet(delivered)
      \/ /\ events[i].says = TheEnd
         /\ \E k \in 1..(i - 1) : events[k].says = TheEnd

(* Whoever subscribes when, nothing recorded escapes him for good, and     *)
(* nothing comes twice.                                                    *)
SeesAll == TypeOK /\ IdsGrow /\ NothingLost /\ LiveStreamSeesAll

(* The stream of a settled job ends or its client leaves, unless the queue *)
(* was full: whenever it was registered, it meets the terminal status or   *)
(* the sentinel, however the threads that publish overtake each other.     *)
LocalStreamEnds == status = "terminal" /\ Listening ~> ~Listening \/ overflowed

(* Every stream that the server ends has delivered the event that says how *)
(* the job ended ("terminal event delivered").  Refuted: README, section 4.*)
EndsWithTerminal ==
  stream.at = "ended" =>
    \E i \in 1..Len(delivered) : delivered[i].says = TheEnd
=============================================================================
