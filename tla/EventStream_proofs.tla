------------------------- MODULE EventStream_proofs -------------------------
(* That a client never gets an event twice or out of order, for any number *)
(* of collectors, events, lost messages and connections, and that it gets  *)
(* all of them where it comes late, or where publishes take turns and no   *)
(* message is lost.  First the distributed store (EventStream), then the   *)
(* in-process one (MemoryStream).                                          *)
EXTENDS MCStreams, TLAPS

(* What TypeOK leaves open and a step relies on: a publish in flight has a *)
(* number, and a run that is on has not settled its job.                   *)
Numbered ==
  /\ \A w \in Writers : writer[w].at # "idle" => writer[w].seq \in Numbers
  /\ running => settler[Finisher] = "none"

(* The position is an upper bound of what was delivered: what InOrder      *)
(* needs to survive an Append.                                             *)
BehindPosition == \A i \in 1..Len(delivered) : delivered[i] <= stream.position

Inv == TypeOK /\ Numbered /\ BehindPosition /\ InOrder

-----------------------------------------------------------------------------
LEMMA Nothing == <<>> \in Seq(Numbers) /\ {} \in SUBSET Numbers
OBVIOUS

(* Yielding one event that is accepted, or dropping it.                    *)
LEMMA ReceiveSafe ==
  ASSUME Inv, NEW n \in Numbers, NEW next \in Stream, NEW ends \in BOOLEAN,
         next.position = stream.position, Receive(n, next, ends)
  PROVE  /\ stream' \in Stream
         /\ delivered' \in Seq(Numbers)
         /\ \A i \in 1..Len(delivered') : delivered'[i] <= stream'.position
         /\ \A i, k \in 1..Len(delivered') : i < k => delivered'[i] < delivered'[k]
<1> USE EventsAssumption
<1>1. /\ delivered \in Seq(Numbers)
      /\ stream \in Stream
      /\ stream.position \in Nat
      /\ n \in Nat
  BY DEF Inv, TypeOK, Stream, Numbers
<1>2. CASE n > stream.position
  <2>1. /\ delivered' = Append(delivered, n)
        /\ stream' = [next EXCEPT !.position = n,
                        !.at = IF ends /\ n \in terminal THEN "ended" ELSE @]
    BY <1>2 DEF Receive, Accepts
  <2>2. stream' \in Stream /\ stream'.position = n
    <3>1. n \in Nat
      BY DEF Numbers
    <3>2. CASE ends /\ n \in terminal
      <4>1. stream' = [next EXCEPT !.position = n, !.at = "ended"]
        BY <2>1, <3>2
      <4> QED
        BY <3>1, <4>1 DEF Stream
    <3>3. CASE ~(ends /\ n \in terminal)
      <4>1. stream' = [next EXCEPT !.position = n, !.at = @]
        BY <2>1, <3>3
      <4> QED
        BY <3>1, <4>1 DEF Stream
    <3> QED
      BY <3>2, <3>3
  <2>3. /\ delivered' \in Seq(Numbers)
        /\ Len(delivered') = Len(delivered) + 1
        /\ \A i \in 1..Len(delivered) : delivered'[i] = delivered[i]
        /\ delivered'[Len(delivered) + 1] = n
    BY <1>1, <2>1
  <2>4. \A i \in 1..Len(delivered) : delivered[i] \in Nat /\ delivered[i] < n
    <3>1. SUFFICES ASSUME NEW i \in 1..Len(delivered)
                   PROVE  delivered[i] \in Nat /\ delivered[i] < n
      OBVIOUS
    <3>2. delivered[i] \in Numbers /\ delivered[i] <= stream.position
      BY <1>1 DEF Inv, BehindPosition
    <3> QED
      BY <1>1, <1>2, <3>2 DEF Numbers
  <2>5. \A i \in 1..Len(delivered') : delivered'[i] <= stream'.position
    BY <1>1, <2>2, <2>3, <2>4
  <2>6. ASSUME NEW i \in 1..Len(delivered'), NEW k \in 1..Len(delivered'), i < k
        PROVE  delivered'[i] < delivered'[k]
    <3>1. i \in 1..Len(delivered)
      BY <1>1, <2>3, <2>6
    <3>2. CASE k \in 1..Len(delivered)
      BY <2>3, <2>6, <3>1, <3>2 DEF Inv, InOrder
    <3>3. CASE k = Len(delivered) + 1
      BY <2>3, <2>4, <3>1, <3>3
    <3> QED
      BY <1>1, <2>3, <2>6, <3>2, <3>3
  <2> QED
    BY <2>2, <2>3, <2>5, <2>6
<1>3. CASE ~(n > stream.position)
  <2>1. stream' = next /\ delivered' = delivered
    BY <1>3 DEF Receive, Accepts
  <2> QED
    BY <1>1, <2>1 DEF Inv, BehindPosition, InOrder
<1> QED
  BY <1>2, <1>3

(* A step that leaves the client's events and position alone.              *)
LEMMA Untouched ==
  ASSUME Inv, delivered' = delivered, stream'.position = stream.position
  PROVE  BehindPosition' /\ InOrder'
BY DEF Inv, BehindPosition, InOrder

-----------------------------------------------------------------------------
(* Handing out the next number.                                            *)
LEMMA WriteTyped ==
  ASSUME TypeOK, NEW w \in Writers, last + 1 \in Numbers, Write(w, last + 1)
  PROVE  /\ last' = last + 1
         /\ last' \in Nat
         /\ crowded' \in BOOLEAN
         /\ writer' \in [Writers -> [at : {"idle", "inserted", "committed"},
                                    seq : Nat]]
         /\ (\A v \in Writers : writer[v].at # "idle" => writer[v].seq \in Numbers)
              => \A v \in Writers : writer'[v].at # "idle" => writer'[v].seq \in Numbers
<1> USE EventsAssumption
<1>1. last + 1 \in Nat
  BY DEF Numbers
<1>2. /\ last' = last + 1
      /\ writer' = [writer EXCEPT ![w] = [at |-> "inserted", seq |-> last + 1]]
  BY DEF Write
<1>3. writer \in [Writers -> [at : {"idle", "inserted", "committed"}, seq : Nat]]
  BY DEF TypeOK
<1>4. crowded' \in BOOLEAN
  BY DEF Write
<1> QED
  BY <1>1, <1>2, <1>3, <1>4

(* Publishing keeps the types and the numbering.                           *)
LEMMA PublishSafe ==
  ASSUME Inv,
         \/ \E c \in Collectors : Insert(c)
         \/ \E w \in Writers : Publish(w)
         \/ Settle \/ Reap \/ \E w \in Cancellers : LookAtJob(w) \/ MarkCancelled(w)
         \/ \E w \in Settlers : InsertTerminal(w)
  PROVE  Inv'
<1> USE EventsAssumption
<1>1. TypeOK /\ Numbered
  BY DEF Inv
<1>2. delivered' = delivered /\ stream' = stream /\ connections' = connections
  BY DEF Insert, Publish, Commit, InsertFails, Announce, Settle, Reap, LookAtJob,
         MarkCancelled, InsertTerminal
<1>3. BehindPosition' /\ InOrder'
  BY <1>2, Untouched
<1>4. ASSUME NEW c \in Collectors, Insert(c) PROVE TypeOK' /\ Numbered'
  <2>1. last \in Nat /\ last < MaxProgress /\ c \in Writers
    BY <1>1, <1>4 DEF TypeOK, Insert, Writers
  <2>2. last + 1 \in Numbers
    BY <2>1 DEF Numbers
  <2>3. /\ Write(c, last + 1)
        /\ UNCHANGED <<running, settler, terminal, log, abandoned, buffer, stream,
                       delivered, lost, connections>>
    BY <1>4 DEF Insert
  <2>4. TypeOK'
    BY <1>1, <2>1, <2>2, <2>3, WriteTyped DEF TypeOK
  <2>5. Numbered'
    BY <1>1, <2>1, <2>2, <2>3, WriteTyped DEF Numbered
  <2> QED
    BY <2>4, <2>5
<1>5. ASSUME NEW w \in Writers, Commit(w) PROVE TypeOK' /\ Numbered'
  <2>1. writer[w].seq \in Numbers
    BY <1>1, <1>5 DEF Numbered, Commit
  <2> QED
    BY <1>1, <1>5, <2>1 DEF TypeOK, Numbered, Commit
<1>6. ASSUME NEW w \in Writers, InsertFails(w) PROVE TypeOK' /\ Numbered'
  <2>1. Idle \in [at : {"idle", "inserted", "committed"}, seq : Nat]
    BY DEF Idle
  <2>2. lost' \in 0..MaxLost
    BY <1>1, <1>6 DEF TypeOK, InsertFails
  <2> QED
    BY <1>1, <1>6, <2>1, <2>2 DEF TypeOK, Numbered, InsertFails, Idle
<1>7. ASSUME NEW w \in Writers, Announce(w) PROVE TypeOK' /\ Numbered'
  <2>1. writer[w].seq \in Numbers
    BY <1>1, <1>7 DEF Numbered, Announce
  <2>2. buffer' \in Seq(Numbers) /\ lost' \in 0..MaxLost
    <3>1. buffer \in Seq(Numbers) /\ lost \in 0..MaxLost /\ lost' \in {lost, lost + 1}
      BY <1>1, <1>7 DEF TypeOK, Announce
    <3>2. buffer' \in {buffer, Append(buffer, writer[w].seq)}
      BY <1>7 DEF Announce
    <3>3. Append(buffer, writer[w].seq) \in Seq(Numbers)
      BY <2>1, <3>1
    <3>4. lost' = lost \/ lost < MaxLost
      BY <1>7 DEF Announce
    <3> QED
      BY <3>1, <3>2, <3>3, <3>4
  <2>3. writer' = [writer EXCEPT ![w] = Idle]
    BY <1>7 DEF Announce
  <2>4. Idle \in [at : {"idle", "inserted", "committed"}, seq : Nat]
    BY DEF Idle
  <2> QED
    BY <1>1, <1>7, <2>2, <2>3, <2>4 DEF TypeOK, Numbered, Announce, Idle
<1>8. ASSUME NEW w \in Settlers, NEW to \in {"saw", "owes"},
             settler' = [settler EXCEPT ![w] = to],
             running' \in BOOLEAN, running' => running /\ w # Finisher,
             abandoned' \in BOOLEAN,
             UNCHANGED <<last, terminal, log, writer, crowded, buffer, lost>>
      PROVE  Inv'
  <2>1. settler' \in [Settlers -> {"none", "saw", "owes", "done"}]
    BY <1>1, <1>8 DEF TypeOK
  <2>2. TypeOK'
    BY <1>1, <1>2, <1>8, <2>1 DEF TypeOK
  <2>3. running' => settler'[Finisher] = "none"
    BY <1>1, <1>8 DEF TypeOK, Numbered, Settlers
  <2> QED
    BY <1>1, <1>3, <1>8, <2>2, <2>3 DEF Numbered, Inv
<1>9. CASE Settle
  <2>1. /\ running' = FALSE /\ abandoned' \in BOOLEAN
        /\ settler' = [settler EXCEPT ![Finisher] = "owes"]
        /\ UNCHANGED <<last, terminal, log, writer, crowded, buffer, lost>>
    BY <1>9 DEF Settle
  <2> QED
    BY <1>8, <2>1 DEF Settlers
<1>10. CASE Reap
  <2>1. /\ running' = running /\ abandoned' = abandoned
        /\ settler' = [settler EXCEPT ![Reaper] = "owes"]
        /\ UNCHANGED <<last, terminal, log, writer, crowded, buffer, lost>>
    BY <1>10 DEF Reap
  <2> QED
    BY <1>1, <1>8, <2>1 DEF TypeOK, Settlers
<1>11. ASSUME NEW w \in Settlers, InsertTerminal(w) PROVE TypeOK' /\ Numbered'
  <2>1. /\ settler[w] = "owes"
        /\ settler' = [settler EXCEPT ![w] = "done"]
        /\ terminal' = terminal \cup {last + 1}
        /\ Write(w, last + 1)
        /\ UNCHANGED <<running, log, abandoned, buffer, stream, delivered, lost,
                       connections>>
    BY <1>11 DEF InsertTerminal
  <2>2. last \in Nat /\ w \in Writers
    BY <1>1, <2>1 DEF TypeOK, Writers
  <2>3. last + 1 \in Numbers
    BY <2>2 DEF Numbers
  <2>4. settler' \in [Settlers -> {"none", "saw", "owes", "done"}] /\ terminal' \subseteq Numbers
    BY <1>1, <2>1, <2>3 DEF TypeOK
  <2>5. TypeOK'
    BY <1>1, <2>1, <2>2, <2>3, <2>4, WriteTyped DEF TypeOK
  <2>6. running' => settler'[Finisher] = "none"
    BY <1>1, <2>1 DEF TypeOK, Numbered, Settlers
  <2>7. \A v \in Writers : writer'[v].at # "idle" => writer'[v].seq \in Numbers
    BY <1>1, <2>1, <2>2, <2>3, WriteTyped DEF Numbered
  <2> QED
    BY <2>5, <2>6, <2>7 DEF Numbered
<1>12. ASSUME NEW w \in Cancellers, LookAtJob(w) \/ MarkCancelled(w) PROVE Inv'
  <2>1. /\ w \in Settlers /\ w # Finisher
        /\ running' = running /\ abandoned' = abandoned
        /\ UNCHANGED <<last, terminal, log, writer, crowded, buffer, lost>>
    BY <1>12 DEF LookAtJob, MarkCancelled, Settlers
  <2>2. PICK to \in {"saw", "owes"} : settler' = [settler EXCEPT ![w] = to]
    BY <1>12 DEF LookAtJob, MarkCancelled
  <2> QED
    BY <1>1, <1>8, <2>1, <2>2 DEF TypeOK
<1> QED
  BY <1>3, <1>4, <1>5, <1>6, <1>7, <1>9, <1>10, <1>11, <1>12 DEF Inv, Publish

(* So does the stream, whichever way it goes.                              *)
LEMMA StreamSafe ==
  ASSUME Inv, Open \/ Subscribe \/ Disconnect
  PROVE  Inv'
<1> USE EventsAssumption
<1>1. TypeOK /\ Numbered /\ stream \in Stream /\ buffer \in Seq(Numbers)
  BY DEF Inv, TypeOK
<1>2. job' = job /\ lost' = lost
  BY DEF Open, Subscribe, ReadBacklog, Replay, Drain, YieldDrained, LookAtRow,
         NextEvent, Disconnect
<1>3. Numbered'
  BY <1>1, <1>2 DEF Numbered, job
<1>4. SUFFICES
        /\ stream' \in Stream
        /\ delivered' \in Seq(Numbers)
        /\ buffer' \in Seq(Numbers)
        /\ connections' \in 0..MaxConnections
        /\ BehindPosition' /\ InOrder'
  BY <1>1, <1>2, <1>3 DEF Inv, TypeOK, job
<1>5. ASSUME stream' \in Stream, stream'.position = stream.position,
             delivered' = delivered,
             buffer' \in Seq(Numbers), connections' \in 0..MaxConnections
      PROVE  Inv'
  <2>1. BehindPosition' /\ InOrder'
    BY <1>5, Untouched
  <2> QED
    BY <1>1, <1>2, <1>3, <1>5, <2>1 DEF Inv, TypeOK, job
<1>6. CASE Open
  <2>1. stream' \in Stream /\ stream'.position = stream.position
    BY <1>1, <1>6, Nothing DEF Open, Stream
  <2> QED
    BY <1>1, <1>5, <1>6, <2>1 DEF Open, TypeOK, Inv
<1>7. CASE ReadBacklog
  <2>1. Backlog(stream.position) \in SUBSET Numbers
    BY <1>1 DEF Backlog, TypeOK
  <2>2. stream' \in Stream /\ stream'.position = stream.position
    BY <1>1, <1>7, <2>1 DEF ReadBacklog, Stream
  <2> QED
    BY <1>1, <1>5, <1>7, <2>2 DEF ReadBacklog, TypeOK, Inv
<1>8. CASE Replay
  <2>1. PICK n \in stream.backlog :
          Receive(n, [stream EXCEPT !.backlog = @ \ {n}], FALSE)
    BY <1>8 DEF Replay
  <2>2. /\ n \in Numbers
        /\ [stream EXCEPT !.backlog = @ \ {n}] \in Stream
        /\ [stream EXCEPT !.backlog = @ \ {n}].position = stream.position
    BY <1>1 DEF Stream
  <2>3. buffer' = buffer /\ connections' = connections
    BY <1>8 DEF Replay
  <2> QED
    BY <1>1, <1>4, <2>1, <2>2, <2>3, ReceiveSafe
       DEF BehindPosition, InOrder, TypeOK
<1>9. CASE Drain
  <2>1. stream' \in Stream /\ stream'.position = stream.position
    BY <1>1, <1>9 DEF Drain, Stream
  <2> QED
    BY <1>1, <1>5, <1>9, <2>1 DEF Drain, TypeOK, Inv
<1>10. CASE YieldDrained
  <2>1. /\ stream.batch # <<>>
        /\ Receive(Head(stream.batch), [stream EXCEPT !.batch = Tail(@)], TRUE)
        /\ buffer' = buffer /\ connections' = connections
    BY <1>10 DEF YieldDrained
  <2>2. Head(stream.batch) \in Numbers /\ Tail(stream.batch) \in Seq(Numbers)
    BY <1>1, <2>1 DEF Stream
  <2>3. /\ [stream EXCEPT !.batch = Tail(@)] \in Stream
        /\ [stream EXCEPT !.batch = Tail(@)].position = stream.position
    BY <1>1, <2>2 DEF Stream
  <2> QED
    BY <1>1, <1>4, <2>1, <2>2, <2>3, ReceiveSafe
       DEF BehindPosition, InOrder, TypeOK
<1>11. CASE LookAtRow
  <2>1. stream' \in Stream /\ stream'.position = stream.position
    BY <1>1, <1>11 DEF LookAtRow, Stream
  <2> QED
    BY <1>1, <1>5, <1>11, <2>1 DEF LookAtRow, TypeOK, Inv
<1>12. CASE NextEvent
  <2>1. /\ buffer # <<>> /\ buffer' = Tail(buffer)
        /\ Receive(Head(buffer), stream, TRUE)
        /\ connections' = connections
    BY <1>12 DEF NextEvent
  <2>2. Head(buffer) \in Numbers /\ Tail(buffer) \in Seq(Numbers)
    BY <1>1, <2>1
  <2> QED
    BY <1>1, <1>4, <2>1, <2>2, ReceiveSafe
       DEF BehindPosition, InOrder, TypeOK
<1>13. CASE Disconnect
  <2>1. stream' \in Stream /\ stream'.position = stream.position
    BY <1>1, <1>13, Nothing DEF Disconnect, Stream
  <2> QED
    BY <1>1, <1>5, <1>13, <2>1 DEF Disconnect, TypeOK, Inv
<1> QED
  BY <1>6, <1>7, <1>8, <1>9, <1>10, <1>11, <1>12, <1>13 DEF Subscribe, Inv

LEMMA Initially == Init => Inv
<1> USE EventsAssumption
<1>1. Init => TypeOK
  <2>1. ASSUME Init PROVE stream \in Stream
    BY <2>1, Nothing DEF Init, Stream
  <2>2. ASSUME Init PROVE writer \in [Writers ->
          [at : {"idle", "inserted", "committed"}, seq : Nat]]
    BY <2>2 DEF Init, Idle
  <2>5. Init => last = 0 /\ terminal = {} /\ log = {} /\ lost = 0 /\ connections = 0
    BY DEF Init
  <2>6. Init => running \in BOOLEAN /\ crowded \in BOOLEAN /\ abandoned \in BOOLEAN
    BY DEF Init
  <2>7. Init => settler \in [Settlers -> {"none", "saw", "owes", "done"}]
    BY DEF Init
  <2>3. ASSUME Init
        PROVE  /\ last \in Nat /\ terminal \subseteq Numbers
               /\ log \subseteq Numbers
               /\ lost \in 0..MaxLost /\ connections \in 0..MaxConnections
    BY <2>3, <2>5
  <2>4. ASSUME Init PROVE buffer \in Seq(Numbers) /\ delivered \in Seq(Numbers)
    BY <2>4, Nothing DEF Init
  <2> QED
    BY <2>1, <2>2, <2>3, <2>4, <2>6, <2>7 DEF TypeOK
<1>2. Init => Numbered
  BY DEF Init, Numbered, Idle, Settlers
<1>3. Init => BehindPosition /\ InOrder
  BY DEF Init, BehindPosition, InOrder
<1> QED
  BY <1>1, <1>2, <1>3 DEF Inv

LEMMA InvHolds == Spec => []Inv
<1>1. Inv /\ [Next]_vars => Inv'
  <2>1. ASSUME Inv, UNCHANGED vars PROVE Inv'
    BY <2>1 DEF Inv, TypeOK, Numbered, BehindPosition, InOrder, vars, job
  <2> QED
    BY <2>1, PublishSafe, StreamSafe DEF Next
<1> QED
  BY <1>1, Initially, PTL DEF Spec

-----------------------------------------------------------------------------
(* Every variable of the stream stays in its type: no publish is without a *)
(* number, and publish and subscribe hand on nothing but numbers.          *)
THEOREM StreamTypeCorrect == Spec => []TypeOK
BY InvHolds, PTL DEF Inv

(* What EventSequencer.accept promises the client: no event twice and none *)
(* out of order, over replay, drained buffer, live feed and reconnections, *)
(* whatever the threads, Postgres and Redis do to the order of messages.   *)
THEOREM NoDuplicateNoDisorder == Spec => []InOrder
BY InvHolds, PTL DEF Inv

-----------------------------------------------------------------------------
(* What reached the client, and what it lacks.  The argument: whatever the *)
(* stream holds is in the table; as long as publishes take turns the       *)
(* queues hold, without a gap, the numbers that were announced last; so an *)
(* event the client lacks is in the backlog, in a queue or still to come,  *)
(* and the next one it takes is the smallest it lacks.                     *)

(* Whether a publish of w is in flight.                                    *)
Busy(w) == writer[w].at # "idle"

Got == ToSet(delivered)

(* What reaches the stream, by whatever way, is in the table, and so is    *)
(* the position of the client.                                             *)
Tabled ==
  /\ \A n \in log : n <= last
  /\ \A w \in Writers : writer[w] = Idle \/ Busy(w)
  /\ \A w \in Writers : Busy(w) => writer[w].seq <= last
  /\ \A w \in Writers : writer[w].at = "committed" => writer[w].seq \in log
  /\ \A i \in 1..Len(buffer) : buffer[i] \in log
  /\ \A i \in 1..Len(stream.batch) : stream.batch[i] \in log
  /\ \A n \in stream.backlog : n \in log /\ n > stream.position
  /\ Got \subseteq log
  /\ stream.position = 0 \/ stream.position \in log

(* Which queues are in use where the generator is.                         *)
Stages ==
  /\ stream.at # "replaying" => stream.backlog = {}
  /\ stream.at \notin {"draining", "ended"} => stream.batch = <<>>

(* A late reader has, or still has in its backlog, all of a table that is  *)
(* complete.                                                               *)
LateIsComplete ==
  stream.late =>
    /\ Complete
    /\ stream.at = "replaying" => log \subseteq Got \cup stream.backlog
    /\ stream.at \in {"draining", "live", "ended"} => log \subseteq Got

(* Unless publishes overlapped there is one at most, of the last number.   *)
TakeTurns ==
  ~crowded =>
    /\ \A v, w \in Writers : Busy(v) /\ Busy(w) => v = w
    /\ \A w \in Writers : Busy(w) => writer[w].seq = last
    /\ \A w \in Writers : writer[w].at = "inserted" => writer[w].seq \notin log

(* Whoever settles the job publishes terminal events; a run that was not   *)
(* cut off has no other publish in flight once it is over; and if nobody   *)
(* else settled the job there is one terminal event, which is the last.    *)
Verdicts ==
  /\ \A w \in Settlers : Busy(w) => writer[w].seq \in terminal
  /\ ~running /\ ~abandoned => \A c \in Collectors : ~Busy(c)
  /\ SettledAlone =>
       /\ terminal # {} => ~running /\ settler[Finisher] = "done"
       /\ \A n \in terminal : n = last

Flying == \E w \in Writers : Busy(w)

(* How many of the numbers up to the last one lie ahead of the batch.      *)
InFlight == IF Flying THEN 1 ELSE 0
Queued == Len(buffer) + InFlight
Ahead  == Len(stream.batch) + Queued

(* buffer and batch hold without a gap what was announced last.            *)
Gapless ==
  /\ \A i \in 1..Len(buffer) : buffer[i] + Queued = last + i
  /\ \A i \in 1..Len(stream.batch) : stream.batch[i] + Ahead = last + i

(* What the client lacks is in the backlog, from its start, or ahead.      *)
Covered ==
  /\ \A n \in stream.backlog, m \in log :
       stream.position < m /\ m < n => m \in stream.backlog
  /\ stream.at # "subscribed" =>
       \A n \in log : n > stream.position /\ n \notin stream.backlog => n + Ahead > last

Orderly ==
  ~crowded /\ lost = 0 =>
    /\ NothingDropped
    /\ Listening => Gapless /\ Covered

Deliveries ==
  Tabled /\ Stages /\ LateIsComplete /\ TakeTurns /\ Verdicts /\ Orderly

-----------------------------------------------------------------------------
LEMMA AppendToSet ==
  ASSUME NEW s \in Seq(Numbers), NEW n \in Numbers
  PROVE  /\ Append(s, n) \in Seq(Numbers)
         /\ ToSet(Append(s, n)) = ToSet(s) \cup {n}
<1>1. /\ Append(s, n) \in Seq(Numbers)
      /\ Len(Append(s, n)) = Len(s) + 1
      /\ Append(s, n)[Len(s) + 1] = n
      /\ \A i \in 1..Len(s) : Append(s, n)[i] = s[i]
  OBVIOUS
<1>2. /\ Len(s) \in Nat
      /\ DOMAIN s = 1..Len(s) /\ DOMAIN Append(s, n) = 1..(Len(s) + 1)
  BY <1>1
<1> QED
  BY <1>1, <1>2 DEF ToSet

(* A sequence of numbers and what is left of it behind its head.           *)
LEMMA HeadAndTail ==
  ASSUME NEW s \in Seq(Numbers), s # <<>>
  PROVE  /\ Head(s) = s[1] /\ 1 \in 1..Len(s)
         /\ Tail(s) \in Seq(Numbers)
         /\ Len(s) \in Nat /\ Len(Tail(s)) \in Nat /\ Len(s) = Len(Tail(s)) + 1
         /\ \A i \in 1..Len(Tail(s)) : Tail(s)[i] = s[i + 1] /\ i + 1 \in 1..Len(s)
OBVIOUS

LEMMA Sums == \A x, y \in Nat : x + (y + 1) = (x + y) + 1
OBVIOUS

(* Every variable a stream step does not touch, and what is typed.         *)
LEMMA Typing ==
  ASSUME Inv
  PROVE  /\ last \in Nat /\ lost \in Nat
         /\ log \subseteq Numbers /\ Numbers \subseteq Nat
         /\ stream \in Stream /\ stream.position \in Nat
         /\ stream.batch \in Seq(Numbers) /\ Len(stream.batch) \in Nat
         /\ buffer \in Seq(Numbers) /\ Len(buffer) \in Nat
         /\ delivered \in Seq(Numbers)
         /\ stream.backlog \subseteq Numbers
BY EventsAssumption DEF Inv, TypeOK, Stream, Numbers

(* What the generator did with the event n it took.                        *)
LEMMA Received ==
  ASSUME Inv, NEW n \in Numbers, NEW next \in Stream, NEW ends \in BOOLEAN,
         next.position = stream.position, Receive(n, next, ends)
  PROVE  /\ stream'.backlog = next.backlog /\ stream'.batch = next.batch
         /\ stream'.late = next.late
         /\ (stream'.at = next.at \/ (ends /\ stream'.at = "ended"))
         /\ \/ n > stream.position /\ stream'.position = n /\ Got' = Got \cup {n}
            \/ n <= stream.position /\ stream'.position = stream.position /\ Got' = Got
<1>1. /\ delivered \in Seq(Numbers) /\ stream.position \in Nat /\ n \in Nat
  BY Typing
<1>2. CASE n > stream.position
  <2>1. /\ delivered' = Append(delivered, n)
        /\ stream' = [next EXCEPT !.position = n,
                        !.at = IF ends /\ n \in terminal THEN "ended" ELSE @]
    BY <1>2 DEF Receive, Accepts
  <2>2. Got' = Got \cup {n}
    BY <1>1, <2>1, AppendToSet DEF Got
  <2>3. /\ stream'.backlog = next.backlog /\ stream'.batch = next.batch
        /\ stream'.late = next.late /\ stream'.position = n
        /\ (stream'.at = next.at \/ (ends /\ stream'.at = "ended"))
    BY <2>1 DEF Stream
  <2> QED
    BY <1>2, <2>2, <2>3
<1>3. CASE ~(n > stream.position)
  <2>1. stream' = next /\ delivered' = delivered
    BY <1>3 DEF Receive, Accepts
  <2>2. Got' = Got /\ n <= stream.position
    BY <1>1, <1>3, <2>1 DEF Got
  <2> QED
    BY <2>1, <2>2
<1> QED
  BY <1>2, <1>3

-----------------------------------------------------------------------------
(* A new number: nobody but w publishes, or publishes overlap.             *)
LEMMA WriteDelivers ==
  ASSUME Inv, Tabled, Stages, TakeTurns, Orderly,
         NEW w \in Writers, last + 1 \in Numbers, Write(w, last + 1),
         UNCHANGED <<log, buffer, stream, delivered, lost>>
  PROVE  Tabled' /\ Stages' /\ TakeTurns' /\ Orderly'
<1>1. /\ last' = last + 1
      /\ writer' = [writer EXCEPT ![w] = [at |-> "inserted", seq |-> last + 1]]
      /\ ~crowded' => ~crowded /\ \A v \in Writers : writer[v] = Idle
  BY DEF Write
<1>2. last \in Nat /\ lost \in Nat /\ log \subseteq Nat
  BY Typing
<1>3. /\ DOMAIN writer = Writers
      /\ \A v \in Writers : v # w => writer'[v] = writer[v]
      /\ writer'[w].at = "inserted" /\ writer'[w].seq = last + 1
  BY <1>1 DEF Inv, TypeOK
<1>4. \A n \in log : n <= last /\ n <= last' /\ n # last + 1
  BY <1>1, <1>2 DEF Tabled
<1>5. \A v \in Writers : writer'[v] = Idle \/ writer'[v].at # "idle"
  BY <1>3 DEF Tabled, Busy
<1>6. Got' = Got
  BY DEF Got
<1>13. \A v \in Writers : writer'[v].at # "idle" => writer'[v].seq <= last'
  <2>1. SUFFICES ASSUME NEW v \in Writers, v # w, Busy(v) PROVE writer[v].seq <= last + 1
    BY <1>1, <1>2, <1>3 DEF Busy
  <2>2. writer[v].seq <= last /\ writer[v].seq \in Nat
    BY <2>1, Typing DEF Tabled, Inv, Numbered, Busy
  <2> QED
    BY <1>2, <2>2
<1>7. Tabled'
  BY <1>3, <1>4, <1>5, <1>6, <1>13 DEF Tabled, Busy
<1>8. Stages'
  BY DEF Stages
<1>9. ~crowded' => \A v \in Writers : Busy(v)' <=> v = w
  BY <1>1, <1>3 DEF Busy, Idle
<1>10. TakeTurns'
  BY <1>1, <1>3, <1>4, <1>9 DEF TakeTurns, Busy
<1>11. ASSUME ~crowded', lost' = 0
       PROVE  NothingDropped' /\ (Listening' => Gapless' /\ Covered')
  <2>1. NothingDropped /\ (Listening => Gapless /\ Covered)
    BY <1>1, <1>11 DEF Orderly
  <2>2. NothingDropped'
    BY <2>1 DEF NothingDropped
  <2>3. ~Flying /\ Flying'
    BY <1>1, <1>3, <1>11 DEF Flying, Busy, Idle
  <2>4. Queued' = Queued + 1 /\ Ahead' = Ahead + 1 /\ Queued \in Nat /\ Ahead \in Nat
    <3>1. buffer' = buffer /\ stream' = stream
      OBVIOUS
    <3>2. Len(buffer) \in Nat /\ Len(stream.batch) \in Nat
      BY Typing
    <3>3. Queued = Len(buffer)
      BY <2>3, <3>2 DEF Queued, InFlight
    <3>4. Queued' = Len(buffer) + 1
      BY <2>3, <3>1 DEF Queued, InFlight
    <3>5. Ahead = Len(stream.batch) + Len(buffer)
      BY <3>3 DEF Ahead
    <3>6. Ahead' = Len(stream.batch) + (Len(buffer) + 1)
      BY <3>1, <3>4 DEF Ahead
    <3>7. Queued \in Nat /\ Queued' = Queued + 1
      BY <3>2, <3>3, <3>4
    <3>8. Ahead \in Nat
      BY <3>2, <3>5
    <3>9. Ahead' = Ahead + 1
      BY <3>2, <3>5, <3>6, Sums
    <3> QED
      BY <3>7, <3>8, <3>9
  <2>5. ASSUME Listening' PROVE Gapless' /\ Covered'
    <3>1. Gapless /\ Covered
      BY <2>1, <2>5 DEF Listening
    <3>2. \A i \in 1..Len(buffer) : buffer[i] \in Nat
      BY Typing
    <3>3. \A i \in 1..Len(stream.batch) : stream.batch[i] \in Nat
      BY Typing
    <3>4. Gapless'
      <4>1. buffer' = buffer /\ stream' = stream
        OBVIOUS
      <4>2. Len(buffer) \in Nat /\ Len(stream.batch) \in Nat
        BY Typing
      <4>3. \A i \in 1..Len(buffer) : buffer[i] + Queued' = last' + i
        BY <1>1, <1>2, <2>4, <3>1, <3>2, <4>2 DEF Gapless
      <4>4. \A i \in 1..Len(stream.batch) : stream.batch[i] + Ahead' = last' + i
        BY <1>1, <1>2, <2>4, <3>1, <3>3, <4>2 DEF Gapless
      <4> QED
        BY <4>1, <4>3, <4>4 DEF Gapless
    <3>5. Covered'
      BY <1>1, <1>2, <2>4, <3>1 DEF Covered
    <3> QED
      BY <3>4, <3>5
  <2> QED
    BY <2>2, <2>5
<1>12. Orderly'
  BY <1>11 DEF Orderly
<1> QED
  BY <1>7, <1>8, <1>10, <1>12

LEMMA InsertDelivers ==
  ASSUME Inv, Deliveries, NEW c \in Collectors, Insert(c)
  PROVE  Deliveries'
<1> USE EventsAssumption
<1>1. Tabled /\ Stages /\ LateIsComplete /\ TakeTurns /\ Verdicts /\ Orderly
  BY DEF Deliveries
<1>2. /\ running /\ last < MaxProgress
      /\ Write(c, last + 1) /\ c \in Writers
      /\ UNCHANGED <<running, settler, terminal, log, abandoned, buffer, stream,
                     delivered, lost>>
  BY DEF Insert, Writers
<1>3. last + 1 \in Numbers
  BY <1>2, Typing DEF Numbers
<1>4. Tabled' /\ Stages' /\ TakeTurns' /\ Orderly'
  BY <1>1, <1>2, <1>3, WriteDelivers
<1>5. LateIsComplete'
  BY <1>1, <1>2 DEF LateIsComplete, Complete
<1>6. Verdicts'
  <2>1. writer' = [writer EXCEPT ![c] = [at |-> "inserted", seq |-> last + 1]] /\ last' = last + 1
    BY <1>2 DEF Write
  <2>2. \A w \in Settlers : writer'[w] = writer[w]
    BY <2>1 DEF Inv, TypeOK, Settlers
  <2>3. SettledAlone => terminal = {}
    BY <1>1, <1>2 DEF Verdicts
  <2> QED
    BY <1>1, <1>2, <2>2, <2>3 DEF Verdicts, Busy, SettledAlone
<1> QED
  BY <1>4, <1>5, <1>6 DEF Deliveries

LEMMA InsertTerminalDelivers ==
  ASSUME Inv, Deliveries, NEW w \in Settlers, InsertTerminal(w)
  PROVE  Deliveries'
<1> USE EventsAssumption
<1>1. Tabled /\ Stages /\ LateIsComplete /\ TakeTurns /\ Verdicts /\ Orderly
  BY DEF Deliveries
<1>2. /\ settler[w] = "owes" /\ w \in Writers
      /\ settler' = [settler EXCEPT ![w] = "done"]
      /\ terminal' = terminal \cup {last + 1}
      /\ Write(w, last + 1)
      /\ UNCHANGED <<running, log, abandoned, buffer, stream, delivered, lost>>
  BY DEF InsertTerminal, Writers
<1>3. last + 1 \in Numbers
  BY <1>2, Typing DEF Inv, Numbered, Numbers
<1>4. Tabled' /\ Stages' /\ TakeTurns' /\ Orderly'
  BY <1>1, <1>2, <1>3, WriteDelivers
<1>5. LateIsComplete'
  BY <1>1, <1>2 DEF LateIsComplete, Complete
<1>6. writer' = [writer EXCEPT ![w] = [at |-> "inserted", seq |-> last + 1]] /\ last' = last + 1
  BY <1>2 DEF Write
<1>7. Verdicts'
  <2>1. \A v \in Writers : v # w => writer'[v] = writer[v]
    BY <1>6 DEF Inv, TypeOK
  <2>2. writer'[w].seq \in terminal'
    BY <1>2, <1>6 DEF Inv, TypeOK
  <2>3. \A v \in Settlers : Busy(v)' => writer'[v].seq \in terminal'
    BY <1>1, <1>2, <2>1, <2>2 DEF Verdicts, Busy, Writers
  <2>4. \A c \in Collectors : c # w /\ c \in Writers
    BY DEF Settlers, Writers
  <2>5. ~running' /\ ~abandoned' => \A c \in Collectors : ~Busy(c)'
    BY <1>1, <1>2, <2>1, <2>4 DEF Verdicts, Busy
  <2>6. ASSUME SettledAlone'
        PROVE  /\ terminal' # {} => ~running' /\ settler'[Finisher] = "done"
               /\ \A n \in terminal' : n = last'
    <3>1. settler'[w] = "done" /\ \A v \in Settlers : v # w => settler'[v] = settler[v]
      BY <1>2 DEF Inv, TypeOK
    <3>2. w = Finisher
      BY <2>6, <3>1 DEF SettledAlone
    <3>3. SettledAlone
      BY <2>6, <3>1, <3>2 DEF SettledAlone
    <3>4. ~running /\ terminal = {}
      BY <1>1, <1>2, <3>2, <3>3 DEF Inv, Numbered, Verdicts
    <3> QED
      BY <1>2, <1>6, <3>1, <3>2, <3>4
  <2> QED
    BY <2>3, <2>5, <2>6 DEF Verdicts
<1> QED
  BY <1>4, <1>5, <1>7 DEF Deliveries

(* An event enters the table: the last one, if publishes take turns, and   *)
(* then the client is not there yet.                                       *)
LEMMA CommitDelivers ==
  ASSUME Inv, Deliveries, NEW w \in Writers, Commit(w)
  PROVE  Deliveries'
<1>1. Tabled /\ Stages /\ LateIsComplete /\ TakeTurns /\ Verdicts /\ Orderly
  BY DEF Deliveries
<1>2. /\ writer[w].at = "inserted"
      /\ log' = log \cup {writer[w].seq}
      /\ writer' = [writer EXCEPT ![w].at = "committed"]
      /\ running' = running /\ settler' = settler /\ last' = last
      /\ terminal' = terminal /\ crowded' = crowded /\ buffer' = buffer
      /\ stream' = stream /\ delivered' = delivered /\ lost' = lost
      /\ abandoned' = abandoned
  BY DEF Commit
<1>3. writer[w].seq \in Numbers /\ writer[w].seq <= last
  BY <1>1, <1>2 DEF Inv, Numbered, Tabled, Busy
<1>4. /\ \A v \in Writers : v # w => writer'[v] = writer[v]
      /\ writer'[w].at = "committed" /\ writer'[w].seq = writer[w].seq
      /\ \A v \in Writers : Busy(v)' <=> Busy(v)
  BY <1>2 DEF Inv, TypeOK, Busy
<1>5. Got' = Got
  BY <1>2 DEF Got
<1>6. Tabled'
  <2>1. \A n \in log' : n <= last'
    BY <1>1, <1>2, <1>3 DEF Tabled
  <2>2. \A v \in Writers : writer'[v] = Idle \/ Busy(v)'
    BY <1>1, <1>4 DEF Tabled, Busy
  <2>3. \A v \in Writers : Busy(v)' => writer'[v].seq <= last'
    BY <1>1, <1>2, <1>4 DEF Tabled, Busy
  <2>4. \A v \in Writers : writer'[v].at = "committed" => writer'[v].seq \in log'
    BY <1>1, <1>2, <1>4 DEF Tabled
  <2> QED
    BY <1>1, <1>2, <1>5, <2>1, <2>2, <2>3, <2>4 DEF Tabled, Busy
<1>7. Stages' /\ Verdicts'
  <2>1. \A v \in Writers : writer'[v].seq = writer[v].seq
    BY <1>4
  <2> QED
    BY <1>1, <1>2, <1>4, <2>1 DEF Stages, Verdicts, SettledAlone, Writers
<1>8. LateIsComplete'
  BY <1>1, <1>2 DEF LateIsComplete, Complete
<1>9. TakeTurns'
  BY <1>1, <1>2, <1>4 DEF TakeTurns, Busy
<1>10. ASSUME ~crowded, lost = 0
       PROVE  NothingDropped' /\ (Listening' => Gapless' /\ Covered')
  <2>1. writer[w].seq = last /\ last \notin log /\ last \in Numbers /\ log' = log \cup {last}
    BY <1>1, <1>2, <1>3, <1>10 DEF TakeTurns, Busy
  <2>2. stream.position < last
    BY <1>1, <2>1, Typing DEF Tabled, Numbers
  <2>3. Flying /\ Flying'
    BY <1>2, <1>4 DEF Flying, Busy
  <2>4. NothingDropped'
    BY <1>1, <1>2, <1>10, <2>1, <2>2, Typing DEF Orderly, NothingDropped
  <2>5. Queued' = Queued /\ Ahead' = Ahead /\ Ahead \in Nat /\ last + Ahead > last
    <3>1. Len(buffer) \in Nat /\ Len(stream.batch) \in Nat /\ last \in Nat
      BY Typing
    <3>2. Queued = Len(buffer) + 1 /\ Queued' = Len(buffer) + 1
      BY <1>2, <2>3 DEF Queued, InFlight
    <3>3. Ahead = (Len(stream.batch) + Len(buffer)) + 1
      BY <3>1, <3>2, Sums DEF Ahead
    <3>4. Ahead' = Ahead
      BY <1>2, <3>2 DEF Ahead
    <3> QED
      BY <3>1, <3>2, <3>3, <3>4
  <2>6. ASSUME Listening' PROVE Gapless' /\ Covered'
    <3>1. Gapless /\ Covered
      BY <1>1, <1>2, <1>10, <2>6 DEF Orderly, Listening
    <3>2. Gapless'
      BY <1>2, <2>5, <3>1 DEF Gapless
    <3>3. \A n \in stream.backlog : n \in log /\ n <= last
      BY <1>1 DEF Tabled
    <3>4. \A n \in stream.backlog, m \in log' :
            stream.position < m /\ m < n => m \in stream.backlog
      BY <2>1, <3>1, <3>3, Typing DEF Covered
    <3>5. stream.at # "subscribed" =>
            \A n \in log' : n > stream.position /\ n \notin stream.backlog
                             => n + Ahead' > last
      BY <2>1, <2>5, <3>1 DEF Covered
    <3>6. Covered'
      BY <1>2, <3>4, <3>5 DEF Covered
    <3> QED
      BY <3>2, <3>6
  <2> QED
    BY <2>4, <2>6
<1>11. Orderly'
  BY <1>2, <1>10 DEF Orderly
<1> QED
  BY <1>6, <1>7, <1>8, <1>9, <1>11 DEF Deliveries

(* A publish that goes on or is over settles nothing.                      *)
LEMMA VerdictsKept ==
  ASSUME Verdicts, running' = running, settler' = settler, last' = last,
         terminal' = terminal, abandoned' = abandoned,
         \A w \in Writers : Busy(w)' => Busy(w) /\ writer'[w].seq = writer[w].seq
  PROVE  Verdicts'
<1>1. SettledAlone' <=> SettledAlone
  BY DEF SettledAlone
<1>2. Settlers \subseteq Writers /\ Collectors \subseteq Writers
  BY DEF Writers
<1>3. \A w \in Settlers : Busy(w)' => writer'[w].seq \in terminal'
  BY <1>2 DEF Verdicts
<1>4. ~running' /\ ~abandoned' => \A c \in Collectors : ~Busy(c)'
  BY <1>2 DEF Verdicts
<1>5. SettledAlone' =>
        /\ terminal' # {} => ~running' /\ settler'[Finisher] = "done"
        /\ \A n \in terminal' : n = last'
  BY <1>1 DEF Verdicts
<1> QED
  BY <1>3, <1>4, <1>5 DEF Verdicts

(* A publish that is over, whether it failed or not.                       *)
LEMMA OverDelivers ==
  ASSUME Inv, Tabled, TakeTurns, NEW w \in Writers, Busy(w),
         writer' = [writer EXCEPT ![w] = Idle],
         UNCHANGED <<last, log, crowded>>
  PROVE  /\ \A v \in Writers : Busy(v)' <=> Busy(v) /\ v # w
         /\ \A v \in Writers : v # w => writer'[v] = writer[v]
         /\ \A v \in Writers : writer'[v] = Idle \/ Busy(v)'
         /\ \A v \in Writers : Busy(v)' => writer'[v].seq <= last
         /\ \A v \in Writers : writer'[v].at = "committed" => writer'[v].seq \in log
         /\ TakeTurns'
<1>1. /\ \A v \in Writers : v # w => writer'[v] = writer[v]
      /\ writer'[w] = Idle /\ writer'[w].at = "idle"
  BY DEF Inv, TypeOK, Idle
<1>2. \A v \in Writers : Busy(v)' <=> Busy(v) /\ v # w
  BY <1>1 DEF Busy
<1>3. TakeTurns'
  BY <1>1, <1>2 DEF TakeTurns, Busy
<1> QED
  BY <1>1, <1>2, <1>3 DEF Tabled, Busy

LEMMA InsertFailsDelivers ==
  ASSUME Inv, Deliveries, NEW w \in Writers, InsertFails(w)
  PROVE  Deliveries'
<1>1. Tabled /\ Stages /\ LateIsComplete /\ TakeTurns /\ Verdicts /\ Orderly
  BY DEF Deliveries
<1>2. /\ writer[w].at = "inserted" /\ Busy(w)
      /\ writer' = [writer EXCEPT ![w] = Idle]
      /\ lost' = lost + 1
      /\ UNCHANGED <<last, log, crowded>>
      /\ running' = running /\ settler' = settler
      /\ terminal' = terminal /\ buffer' = buffer
      /\ stream' = stream /\ delivered' = delivered /\ abandoned' = abandoned
  BY DEF InsertFails, Busy
<1>3. Tabled' /\ TakeTurns'
  BY <1>1, <1>2, OverDelivers DEF Tabled, Got
<1>4. Verdicts'
  BY <1>1, <1>2, OverDelivers, VerdictsKept
<1>5. Stages' /\ LateIsComplete'
  BY <1>1, <1>2 DEF Stages, LateIsComplete, Complete
<1>6. Orderly'
  BY <1>2, Typing DEF Orderly
<1> QED
  BY <1>3, <1>4, <1>5, <1>6 DEF Deliveries

(* The message is held for the subscription, next to those before it.      *)
LEMMA AnnounceDelivers ==
  ASSUME Inv, Deliveries, NEW w \in Writers, Announce(w)
  PROVE  Deliveries'
<1>1. Tabled /\ Stages /\ LateIsComplete /\ TakeTurns /\ Verdicts /\ Orderly
  BY DEF Deliveries
<1>2. /\ writer[w].at = "committed" /\ Busy(w)
      /\ writer' = [writer EXCEPT ![w] = Idle]
      /\ UNCHANGED <<last, log, crowded>>
      /\ last' = last /\ log' = log /\ crowded' = crowded
      /\ running' = running /\ settler' = settler
      /\ terminal' = terminal /\ abandoned' = abandoned
      /\ stream' = stream /\ delivered' = delivered
  BY DEF Announce, Busy
<1>3. \/ /\ lost' = lost
         /\ buffer' = IF Listening THEN Append(buffer, writer[w].seq) ELSE buffer
      \/ lost' = lost + 1 /\ buffer' = buffer
  BY DEF Announce
<1>4. writer[w].seq \in log /\ writer[w].seq \in Numbers
  BY <1>1, <1>2, Typing DEF Tabled
<1>5. \A i \in 1..Len(buffer') : buffer'[i] \in log
  <2>1. CASE buffer' = buffer
    BY <1>1, <2>1 DEF Tabled
  <2>2. CASE buffer' = Append(buffer, writer[w].seq)
    <3>1. /\ buffer \in Seq(Numbers)
          /\ \A i \in 1..Len(buffer) : buffer[i] \in log
      BY <1>1, Typing DEF Tabled
    <3>2. /\ Len(buffer') = Len(buffer) + 1
          /\ \A i \in 1..Len(buffer) : buffer'[i] = buffer[i]
          /\ buffer'[Len(buffer) + 1] = writer[w].seq
          /\ Len(buffer) \in Nat
      BY <1>4, <2>2, <3>1
    <3> QED
      BY <1>4, <3>1, <3>2
  <2> QED
    BY <1>3, <2>1, <2>2
<1>6. Tabled' /\ TakeTurns'
  BY <1>1, <1>2, <1>5, OverDelivers DEF Tabled, Got
<1>7. Stages' /\ Verdicts'
  <2>1. Verdicts'
    BY <1>1, <1>2, OverDelivers, VerdictsKept
  <2> QED
    BY <1>1, <1>2, <2>1 DEF Stages
<1>8. \A v \in Writers : writer'[v].at = "inserted" => writer[v].at = "inserted"
  BY <1>2 DEF Inv, TypeOK, Idle
<1>9. LateIsComplete'
  BY <1>1, <1>2, <1>8 DEF LateIsComplete, Complete, Settled, Got
<1>10. ASSUME ~crowded, lost' = 0
       PROVE  NothingDropped' /\ (Listening' => Gapless' /\ Covered')
  <2>1. lost = 0 /\ buffer' = IF Listening THEN Append(buffer, writer[w].seq) ELSE buffer
    BY <1>3, <1>10, Typing
  <2>2. NothingDropped /\ (Listening => Gapless /\ Covered)
    BY <1>1, <1>10, <2>1 DEF Orderly
  <2>3. NothingDropped'
    BY <1>2, <2>2 DEF NothingDropped
  <2>4. writer[w].seq = last
    BY <1>1, <1>2, <1>10 DEF TakeTurns
  <2>5. Flying /\ ~Flying'
    BY <1>1, <1>2, <1>10, OverDelivers DEF Flying, TakeTurns
  <2>6. ASSUME Listening' PROVE Gapless' /\ Covered'
    <3>1. Listening /\ Gapless /\ Covered
      BY <1>2, <2>2, <2>6 DEF Listening
    <3>2. buffer' = Append(buffer, last) /\ last \in Numbers
      BY <1>4, <2>1, <2>4, <3>1
    <3>3. /\ Len(buffer) \in Nat /\ last \in Nat
          /\ Len(buffer') = Len(buffer) + 1
          /\ \A i \in 1..Len(buffer) : buffer'[i] = buffer[i]
          /\ buffer'[Len(buffer) + 1] = last
      BY <3>2, Typing
    <3>4. Queued = Len(buffer) + 1 /\ Queued' = Len(buffer) + 1
      BY <2>5, <3>3 DEF Queued, InFlight
    <3>5. Ahead' = Ahead
      BY <1>2, <3>4 DEF Ahead
    <3>6. \A i \in 1..Len(buffer') : buffer'[i] + Queued' = last + i
      BY <3>1, <3>3, <3>4 DEF Gapless
    <3>7. Gapless'
      BY <1>2, <3>1, <3>5, <3>6 DEF Gapless
    <3>8. Covered'
      BY <1>2, <3>1, <3>5 DEF Covered
    <3> QED
      BY <3>7, <3>8
  <2> QED
    BY <2>3, <2>6
<1>11. Orderly'
  BY <1>2, <1>10 DEF Orderly
<1> QED
  BY <1>6, <1>7, <1>9, <1>11 DEF Deliveries

(* The row gets its status, or is seen to have none yet.                   *)
LEMMA SettleDelivers ==
  ASSUME Inv, Deliveries,
         Settle \/ Reap \/ \E w \in Cancellers : LookAtJob(w) \/ MarkCancelled(w)
  PROVE  Deliveries'
<1>1. Tabled /\ Stages /\ LateIsComplete /\ TakeTurns /\ Verdicts /\ Orderly
  BY DEF Deliveries
<1>2. /\ last' = last /\ log' = log /\ writer' = writer /\ terminal' = terminal
      /\ crowded' = crowded /\ buffer' = buffer /\ stream' = stream
      /\ delivered' = delivered /\ lost' = lost
  BY DEF Settle, Reap, LookAtJob, MarkCancelled
<1>3. ~stream.late
  <2>1. \A w \in Cancellers : w \in Settlers
    BY DEF Settlers
  <2> QED
    BY <1>1, <2>1 DEF Settle, Reap, LookAtJob, MarkCancelled, LateIsComplete, Complete
<1>4. \A v \in Writers : Busy(v)' <=> Busy(v)
  BY <1>2 DEF Busy
<1>5. Tabled' /\ TakeTurns' /\ Stages'
  BY <1>1, <1>2, <1>4 DEF Tabled, TakeTurns, Stages, Got, Busy
<1>6. Verdicts'
  <2>1. \A v \in Settlers : Busy(v)' => writer'[v].seq \in terminal'
    BY <1>1, <1>2, <1>4 DEF Verdicts, Busy
  <2>2. CASE Settle
    <3>1. settler' = [settler EXCEPT ![Finisher] = "owes"] /\ running
      BY <2>2 DEF Settle
    <3>2. SettledAlone' => SettledAlone
      BY <3>1 DEF SettledAlone, Inv, TypeOK
    <3>3. SettledAlone => terminal = {}
      BY <1>1, <3>1 DEF Verdicts
    <3>4. ~abandoned' => \A c \in Collectors : ~Busy(c)
      BY <2>2 DEF Settle, Busy, Idle
    <3>5. ~abandoned' => \A c \in Collectors : ~Busy(c)'
      BY <1>2, <3>4 DEF Busy
    <3> QED
      BY <1>2, <2>1, <3>2, <3>3, <3>5 DEF Verdicts
  <2>3. ASSUME NEW w \in Settlers \ {Finisher}, NEW to \in {"saw", "owes"},
               settler' = [settler EXCEPT ![w] = to], settler[w] \in {"none", "saw"},
               running' = running, abandoned' = abandoned
        PROVE  Verdicts'
    <3>1. SettledAlone' => SettledAlone
      BY <2>3 DEF SettledAlone, Inv, TypeOK
    <3>2. settler'[Finisher] = settler[Finisher]
      BY <2>3 DEF Inv, TypeOK, Settlers
    <3>3. ~running' /\ ~abandoned' => \A c \in Collectors : ~Busy(c)'
      BY <1>1, <1>2, <2>3 DEF Verdicts, Busy
    <3>4. SettledAlone' =>
            /\ terminal' # {} => ~running' /\ settler'[Finisher] = "done"
            /\ \A n \in terminal' : n = last'
      <4>1. SettledAlone =>
              /\ terminal # {} => ~running /\ settler[Finisher] = "done"
              /\ \A n \in terminal : n = last
        BY <1>1 DEF Verdicts
      <4> QED
        BY <1>2, <2>3, <3>1, <3>2, <4>1
    <3> QED
      BY <2>1, <3>3, <3>4 DEF Verdicts
  <2>4. CASE Reap
    <3>1. Reaper \in Settlers \ {Finisher} /\ settler[Reaper] \in {"none", "saw"}
          /\ settler' = [settler EXCEPT ![Reaper] = "owes"]
          /\ running' = running /\ abandoned' = abandoned
      BY <2>4, EventsAssumption DEF Reap, Settled, Settlers, Inv, TypeOK
    <3> QED
      BY <2>3, <3>1
  <2>5. ASSUME NEW w \in Cancellers, LookAtJob(w) \/ MarkCancelled(w) PROVE Verdicts'
    <3>1. w \in Settlers \ {Finisher}
      BY EventsAssumption DEF Settlers
    <3>2. PICK to \in {"saw", "owes"} : settler' = [settler EXCEPT ![w] = to]
      BY <2>5 DEF LookAtJob, MarkCancelled
    <3>3. settler[w] \in {"none", "saw"} /\ running' = running /\ abandoned' = abandoned
      BY <2>5 DEF LookAtJob, MarkCancelled
    <3> QED
      BY <2>3, <3>1, <3>2, <3>3
  <2> QED
    BY <2>2, <2>4, <2>5
<1>7. LateIsComplete'
  BY <1>2, <1>3 DEF LateIsComplete
<1>8. Queued' = Queued /\ Ahead' = Ahead
  BY <1>2 DEF Queued, InFlight, Ahead, Flying, Busy
<1>9. Orderly'
  BY <1>1, <1>2, <1>8 DEF Orderly, NothingDropped, Listening, Gapless, Covered
<1> QED
  BY <1>5, <1>6, <1>7, <1>9 DEF Deliveries

-----------------------------------------------------------------------------
(* The stream changes nothing of the job.                                  *)
LEMMA JobStays ==
  ASSUME TakeTurns, Verdicts, job' = job
  PROVE  /\ TakeTurns' /\ Verdicts'
         /\ Complete' <=> Complete
         /\ InFlight' = InFlight
         /\ last' = last /\ log' = log /\ crowded' = crowded /\ writer' = writer
         /\ \A v \in Writers : Busy(v)' <=> Busy(v)
<1>1. /\ last' = last /\ log' = log /\ crowded' = crowded /\ writer' = writer
      /\ running' = running /\ settler' = settler /\ terminal' = terminal
      /\ abandoned' = abandoned
  BY DEF job
<1>2. \A v \in Writers : Busy(v)' <=> Busy(v)
  BY <1>1 DEF Busy
<1>3. TakeTurns'
  BY <1>1, <1>2 DEF TakeTurns
<1>4. Verdicts' /\ (Complete' <=> Complete)
  <2>1. Verdicts'
    BY <1>1, <1>2, VerdictsKept
  <2> QED
    BY <1>1, <2>1 DEF Complete, Settled
<1>5. InFlight' = InFlight
  BY <1>1 DEF InFlight, Flying, Busy
<1> QED
  BY <1>1, <1>2, <1>3, <1>4, <1>5

LEMMA AheadTyped ==
  ASSUME Inv
  PROVE  /\ InFlight \in Nat /\ Queued \in Nat /\ Ahead \in Nat
         /\ stream.batch = <<>> => Ahead = Queued
         /\ buffer = <<>> => Queued = InFlight
<1>1. Len(buffer) \in Nat /\ Len(stream.batch) \in Nat
  BY Typing
<1>2. InFlight \in Nat
  BY DEF InFlight
<1>3. Queued \in Nat /\ (buffer = <<>> => Queued = InFlight)
  BY <1>1, <1>2 DEF Queued
<1> QED
  BY <1>1, <1>2, <1>3 DEF Ahead

(* The client comes, or comes back, and leaves.                            *)
LEMMA OpenDelivers ==
  ASSUME Inv, Deliveries, Open \/ Disconnect
  PROVE  Deliveries'
<1>1. Tabled /\ Stages /\ LateIsComplete /\ TakeTurns /\ Verdicts /\ Orderly
  BY DEF Deliveries
<1>2. /\ job' = job /\ lost' = lost /\ delivered' = delivered /\ buffer' = <<>>
      /\ stream'.at \in {"subscribed", "off"}
      /\ stream'.backlog = {} /\ stream'.batch = <<>>
      /\ stream'.position = stream.position /\ stream'.late = stream.late
  BY Typing DEF Open, Disconnect, Stream
<1>3. /\ TakeTurns' /\ Verdicts'
      /\ Complete' <=> Complete
      /\ last' = last /\ log' = log /\ crowded' = crowded /\ writer' = writer
      /\ \A v \in Writers : Busy(v)' <=> Busy(v)
  BY <1>1, <1>2, JobStays
<1>4. Tabled'
  BY <1>1, <1>2, <1>3 DEF Tabled, Got
<1>5. Stages' /\ LateIsComplete'
  BY <1>1, <1>2, <1>3 DEF Stages, LateIsComplete
<1>6. Gapless'
  BY <1>2 DEF Gapless
<1>7. Listening' => Covered'
  BY <1>2 DEF Covered, Listening
<1>8. Orderly'
  BY <1>1, <1>2, <1>3, <1>6, <1>7 DEF Orderly, NothingDropped
<1> QED
  BY <1>3, <1>4, <1>5, <1>8 DEF Deliveries

LEMMA ReadBacklogDelivers ==
  ASSUME Inv, Deliveries, ReadBacklog
  PROVE  Deliveries'
<1>1. Tabled /\ Stages /\ LateIsComplete /\ TakeTurns /\ Verdicts /\ Orderly
  BY DEF Deliveries
<1>2. /\ stream.at = "subscribed" /\ stream'.at = "replaying"
      /\ stream'.backlog = Backlog(stream.position) /\ stream'.batch = stream.batch
      /\ stream'.position = stream.position
      /\ stream'.late => stream.position = 0 /\ Complete
      /\ job' = job /\ lost' = lost /\ delivered' = delivered /\ buffer' = buffer
  BY Typing DEF ReadBacklog, Stream, Complete
<1>3. /\ TakeTurns' /\ Verdicts'
      /\ Complete' <=> Complete
      /\ InFlight' = InFlight
      /\ last' = last /\ log' = log /\ crowded' = crowded /\ writer' = writer
      /\ \A v \in Writers : Busy(v)' <=> Busy(v)
  BY <1>1, <1>2, JobStays
<1>4. stream'.backlog = {n \in log : n > stream.position}
  BY <1>2 DEF Backlog
<1>5. Tabled'
  BY <1>1, <1>2, <1>3, <1>4 DEF Tabled, Got
<1>6. Stages'
  BY <1>1, <1>2 DEF Stages
<1>7. LateIsComplete'
  <2>1. stream.position = 0 => log \subseteq stream'.backlog
    BY <1>4, Typing DEF Numbers
  <2> QED
    BY <1>2, <1>3, <2>1 DEF LateIsComplete
<1>8. Queued' = Queued /\ Ahead' = Ahead
  BY <1>2, <1>3 DEF Queued, Ahead
<1>9. Covered'
  BY <1>2, <1>3, <1>4 DEF Covered
<1>10. Orderly'
  BY <1>1, <1>2, <1>3, <1>8, <1>9 DEF Orderly, NothingDropped, Listening, Gapless
<1> QED
  BY <1>3, <1>5, <1>6, <1>7, <1>10 DEF Deliveries

LEMMA DrainDelivers ==
  ASSUME Inv, Deliveries, Drain
  PROVE  Deliveries'
<1>1. Tabled /\ Stages /\ LateIsComplete /\ TakeTurns /\ Verdicts /\ Orderly
  BY DEF Deliveries
<1>2. /\ stream.at = "replaying" /\ stream'.at = "draining"
      /\ stream.backlog = {} /\ stream'.backlog = {} /\ stream'.batch = buffer
      /\ stream'.position = stream.position /\ stream'.late = stream.late
      /\ job' = job /\ lost' = lost /\ delivered' = delivered /\ buffer' = <<>>
  BY Typing DEF Drain, Stream
<1>3. /\ TakeTurns' /\ Verdicts'
      /\ Complete' <=> Complete
      /\ InFlight' = InFlight
      /\ last' = last /\ log' = log /\ crowded' = crowded /\ writer' = writer
      /\ \A v \in Writers : Busy(v)' <=> Busy(v)
  BY <1>1, <1>2, JobStays
<1>4. Tabled'
  BY <1>1, <1>2, <1>3 DEF Tabled, Got
<1>5. Stages'
  BY <1>1, <1>2 DEF Stages
<1>6. LateIsComplete'
  BY <1>1, <1>2, <1>3 DEF LateIsComplete, Got
<1>7. Ahead' = Ahead /\ Ahead = Queued
  <2>1. stream.batch = <<>>
    BY <1>1, <1>2 DEF Stages
  <2>2. Ahead = Queued /\ Queued = Len(buffer) + InFlight /\ InFlight \in Nat
    BY <2>1, AheadTyped DEF Queued
  <2>3. Queued' = InFlight
    BY <1>2, <1>3, <2>2 DEF Queued
  <2>4. Ahead' = Len(buffer) + InFlight
    BY <1>2, <2>3 DEF Ahead
  <2> QED
    BY <2>2, <2>4
<1>8. Gapless => Gapless'
  BY <1>2, <1>3, <1>7 DEF Gapless
<1>9. Covered => Covered'
  BY <1>2, <1>3, <1>7 DEF Covered
<1>10. Orderly'
  BY <1>1, <1>2, <1>3, <1>8, <1>9 DEF Orderly, NothingDropped, Listening
<1> QED
  BY <1>3, <1>4, <1>5, <1>6, <1>10 DEF Deliveries

LEMMA LookAtRowDelivers ==
  ASSUME Inv, Deliveries, LookAtRow
  PROVE  Deliveries'
<1>1. Tabled /\ Stages /\ LateIsComplete /\ TakeTurns /\ Verdicts /\ Orderly
  BY DEF Deliveries
<1>2. /\ stream.at = "draining" /\ stream'.at \in {"live", "ended"}
      /\ stream.batch = <<>> /\ stream'.batch = <<>>
      /\ stream'.backlog = stream.backlog
      /\ stream'.position = stream.position /\ stream'.late = stream.late
      /\ job' = job /\ lost' = lost /\ delivered' = delivered /\ buffer' = buffer
  BY Typing DEF LookAtRow, Stream
<1>3. /\ TakeTurns' /\ Verdicts'
      /\ Complete' <=> Complete
      /\ InFlight' = InFlight
      /\ last' = last /\ log' = log /\ crowded' = crowded /\ writer' = writer
      /\ \A v \in Writers : Busy(v)' <=> Busy(v)
  BY <1>1, <1>2, JobStays
<1>4. Tabled'
  BY <1>1, <1>2, <1>3 DEF Tabled, Got
<1>5. Stages'
  BY <1>1, <1>2 DEF Stages
<1>6. LateIsComplete'
  BY <1>1, <1>2, <1>3 DEF LateIsComplete, Got
<1>7. Queued' = Queued /\ Ahead' = Ahead
  BY <1>2, <1>3 DEF Queued, Ahead
<1>8. Listening
  BY <1>2 DEF Listening
<1>9. Orderly'
  BY <1>1, <1>2, <1>3, <1>7, <1>8 DEF Orderly, NothingDropped, Gapless, Covered
<1> QED
  BY <1>3, <1>4, <1>5, <1>6, <1>9 DEF Deliveries

(* Whatever is beyond the last by less than n is not before n.             *)
LEMMA NotBefore ==
  ASSUME NEW m \in Nat, NEW n \in Nat, NEW l \in Nat, NEW a, NEW b \in Nat,
         a = b + 1, m + a > l, n + a = l + 1
  PROVE  m >= n
OBVIOUS

(* The generator takes the event n from the head of a queue: it is the     *)
(* next one the client lacks, or one that it has.                          *)
LEMMA TakeDelivers ==
  ASSUME Inv, Deliveries, stream.at \in {"draining", "live"},
         NEW n \in log, job' = job, lost' = lost,
         stream'.backlog = stream.backlog, stream'.late = stream.late,
         stream'.at = stream.at \/ stream'.at = "ended",
         \/ n > stream.position /\ stream'.position = n /\ Got' = Got \cup {n}
         \/ n <= stream.position /\ stream'.position = stream.position /\ Got' = Got,
         \A i \in 1..Len(buffer') : buffer'[i] \in log,
         \A i \in 1..Len(stream'.batch) : stream'.batch[i] \in log,
         stream'.at \notin {"draining", "ended"} => stream'.batch = <<>>,
         Gapless => Gapless' /\ n + Ahead = last + 1 /\ Ahead' \in Nat /\ Ahead = Ahead' + 1
  PROVE  Deliveries'
<1>1. Tabled /\ Stages /\ LateIsComplete /\ TakeTurns /\ Verdicts /\ Orderly
  BY DEF Deliveries
<1>2. /\ TakeTurns' /\ Verdicts'
      /\ Complete' <=> Complete
      /\ last' = last /\ log' = log /\ crowded' = crowded /\ writer' = writer
      /\ \A v \in Writers : Busy(v)' <=> Busy(v)
  BY <1>1, JobStays
<1>3. /\ n \in Nat /\ last \in Nat /\ stream.position \in Nat
      /\ log \subseteq Numbers /\ Numbers \subseteq Nat
  BY Typing
<1>4. stream.backlog = {} /\ stream'.backlog = {} /\ Listening
  BY <1>1 DEF Stages, Listening
<1>5. /\ Got \subseteq Got' /\ Got' \subseteq log
      /\ stream'.position = 0 \/ stream'.position \in log
  BY <1>1 DEF Tabled
<1>6. Tabled'
  BY <1>1, <1>2, <1>4, <1>5 DEF Tabled
<1>7. Stages'
  BY <1>1, <1>4 DEF Stages
<1>8. LateIsComplete'
  BY <1>1, <1>2, <1>4, <1>5 DEF LateIsComplete
<1>9. ASSUME ~crowded, lost = 0
      PROVE  NothingDropped' /\ Gapless' /\ Covered'
  <2>1. NothingDropped /\ Gapless /\ Covered
    BY <1>1, <1>4, <1>9 DEF Orderly
  <2>2. \A m \in log : m <= stream.position => m \in Got
    BY <2>1 DEF NothingDropped, Got
  <2>3. Gapless' /\ n + Ahead = last + 1 /\ Ahead' \in Nat /\ Ahead = Ahead' + 1
    BY <2>1
  <2>4. \A m \in log : m \in Nat /\ (m > stream.position => m + Ahead > last)
    BY <1>3, <1>4, <2>1 DEF Covered
  <2>5. ASSUME NEW m \in log, m > stream.position PROVE m >= n
    <3>1. m \in Nat /\ m + Ahead > last
      BY <2>4, <2>5
    <3> QED
      BY <1>3, <2>3, <3>1, NotBefore
  <2>6. ASSUME NEW m \in log, m <= stream'.position PROVE m \in Got'
    <3>1. CASE m <= stream.position
      BY <1>5, <2>2, <3>1
    <3>2. CASE m > stream.position
      <4>1. stream'.position = n /\ Got' = Got \cup {n}
        BY <1>3, <2>6, <3>2
      <4>2. m = n
        BY <1>3, <2>5, <2>6, <3>2, <4>1
      <4> QED
        BY <4>1, <4>2
    <3>3. m \in Nat
      BY <2>4
    <3> QED
      BY <1>3, <3>1, <3>2, <3>3
  <2>7. NothingDropped'
    BY <1>2, <2>6 DEF NothingDropped, Got
  <2>8. ASSUME NEW m \in log, m > stream'.position PROVE m + Ahead' > last
    <3>1. m > n /\ m \in Nat
      <4>1. CASE stream'.position = n
        BY <1>3, <2>8, <4>1
      <4>2. CASE n <= stream.position /\ stream'.position = stream.position
        BY <1>3, <2>8, <4>2
      <4> QED
        BY <4>1, <4>2
    <3> QED
      BY <1>3, <2>3, <3>1
  <2>9. Covered'
    BY <1>2, <1>4, <2>8 DEF Covered
  <2> QED
    BY <2>3, <2>7, <2>9
<1>10. Orderly'
  BY <1>2, <1>9 DEF Orderly
<1> QED
  BY <1>2, <1>6, <1>7, <1>8, <1>10 DEF Deliveries

LEMMA YieldDrainedDelivers ==
  ASSUME Inv, Deliveries, YieldDrained
  PROVE  Deliveries'
<1>1. Tabled
  BY DEF Deliveries
<1> DEFINE n == Head(stream.batch)
<1> DEFINE next == [stream EXCEPT !.batch = Tail(@)]
<1>2. /\ stream.at = "draining" /\ stream.batch # <<>>
      /\ Receive(n, next, TRUE)
      /\ job' = job /\ buffer' = buffer /\ lost' = lost
  BY DEF YieldDrained
<1>3. /\ stream.batch \in Seq(Numbers) /\ stream \in Stream /\ buffer \in Seq(Numbers)
      /\ log \subseteq Numbers
  BY Typing
<1>4. /\ n = stream.batch[1] /\ 1 \in 1..Len(stream.batch)
      /\ Tail(stream.batch) \in Seq(Numbers)
      /\ Len(stream.batch) \in Nat /\ Len(Tail(stream.batch)) \in Nat
      /\ Len(stream.batch) = Len(Tail(stream.batch)) + 1
      /\ \A i \in 1..Len(Tail(stream.batch)) :
           Tail(stream.batch)[i] = stream.batch[i + 1] /\ i + 1 \in 1..Len(stream.batch)
  BY <1>2, <1>3, HeadAndTail
<1>5. n \in log /\ n \in Numbers
  BY <1>1, <1>3, <1>4 DEF Tabled
<1>6. /\ next \in Stream
      /\ next.position = stream.position /\ next.late = stream.late
      /\ next.at = "draining" /\ next.backlog = stream.backlog
      /\ next.batch = Tail(stream.batch)
  BY <1>2, <1>3, <1>4 DEF Stream
<1>7. /\ stream'.backlog = stream.backlog /\ stream'.batch = Tail(stream.batch)
      /\ stream'.late = stream.late
      /\ stream'.at = "draining" \/ stream'.at = "ended"
      /\ \/ n > stream.position /\ stream'.position = n /\ Got' = Got \cup {n}
         \/ n <= stream.position /\ stream'.position = stream.position /\ Got' = Got
  <2> HIDE DEF n, next
  <2> QED
    BY <1>2, <1>5, <1>6, Received
<1> HIDE DEF n, next
<1>8. \A i \in 1..Len(stream'.batch) : stream'.batch[i] \in log
  BY <1>1, <1>4, <1>7 DEF Tabled
<1>9. \A i \in 1..Len(buffer') : buffer'[i] \in log
  BY <1>1, <1>2 DEF Tabled
<1>10. ASSUME Gapless
       PROVE  Gapless' /\ n + Ahead = last + 1 /\ Ahead' \in Nat /\ Ahead = Ahead' + 1
  <2>1. InFlight' = InFlight /\ last' = last
    BY <1>2 DEF job, InFlight, Flying, Busy
  <2>2. Queued' = Queued /\ Queued \in Nat /\ last \in Nat
    BY <1>2, <2>1, AheadTyped, Typing DEF Queued
  <2>3. Ahead' = Len(Tail(stream.batch)) + Queued
    BY <1>7, <2>2 DEF Ahead
  <2>4. Ahead = (Len(Tail(stream.batch)) + 1) + Queued
    BY <1>4 DEF Ahead
  <2>5. Ahead' \in Nat /\ Ahead = Ahead' + 1
    BY <1>4, <2>2, <2>3, <2>4
  <2>6. n + Ahead = last + 1
    BY <1>4, <1>10 DEF Gapless
  <2>7. \A i \in 1..Len(Tail(stream.batch)) : Tail(stream.batch)[i] + Ahead' = last + i
    <3>1. SUFFICES ASSUME NEW i \in 1..Len(Tail(stream.batch))
                   PROVE  Tail(stream.batch)[i] + Ahead' = last + i
      OBVIOUS
    <3>2. stream.batch[i + 1] + Ahead = last + (i + 1) /\ i \in Nat
      BY <1>4, <1>10 DEF Gapless
    <3>3. Tail(stream.batch)[i] = stream.batch[i + 1] /\ stream.batch[i + 1] \in Nat
      BY <1>3, <1>4, Typing
    <3> QED
      BY <2>2, <2>5, <3>2, <3>3
  <2>8. Gapless'
    BY <1>2, <1>7, <1>10, <2>1, <2>2, <2>7 DEF Gapless
  <2> QED
    BY <2>5, <2>6, <2>8
<1> QED
  BY <1>2, <1>5, <1>7, <1>8, <1>9, <1>10, TakeDelivers

LEMMA NextEventDelivers ==
  ASSUME Inv, Deliveries, NextEvent
  PROVE  Deliveries'
<1>1. Tabled /\ Stages
  BY DEF Deliveries
<1> DEFINE n == Head(buffer)
<1>2. /\ stream.at = "live" /\ buffer # <<>>
      /\ Receive(n, stream, TRUE) /\ buffer' = Tail(buffer)
      /\ job' = job /\ lost' = lost
  BY DEF NextEvent
<1>3. stream \in Stream /\ buffer \in Seq(Numbers) /\ log \subseteq Numbers
  BY Typing
<1>4. /\ n = buffer[1] /\ 1 \in 1..Len(buffer)
      /\ buffer' \in Seq(Numbers)
      /\ Len(buffer) \in Nat /\ Len(buffer') \in Nat /\ Len(buffer) = Len(buffer') + 1
      /\ \A i \in 1..Len(buffer') : buffer'[i] = buffer[i + 1] /\ i + 1 \in 1..Len(buffer)
  BY <1>2, <1>3, HeadAndTail
<1>5. n \in log /\ n \in Numbers
  BY <1>1, <1>3, <1>4 DEF Tabled
<1> HIDE DEF n
<1>6. stream.batch = <<>>
  BY <1>1, <1>2 DEF Stages
<1>7. /\ stream'.backlog = stream.backlog /\ stream'.batch = stream.batch
      /\ stream'.late = stream.late
      /\ stream'.at = "live" \/ stream'.at = "ended"
      /\ \/ n > stream.position /\ stream'.position = n /\ Got' = Got \cup {n}
         \/ n <= stream.position /\ stream'.position = stream.position /\ Got' = Got
  BY <1>2, <1>3, <1>5, Received
<1>8. \A i \in 1..Len(stream'.batch) : stream'.batch[i] \in log
  BY <1>1, <1>7 DEF Tabled
<1>9. \A i \in 1..Len(buffer') : buffer'[i] \in log
  BY <1>1, <1>4 DEF Tabled
<1>10. ASSUME Gapless
       PROVE  Gapless' /\ n + Ahead = last + 1 /\ Ahead' \in Nat /\ Ahead = Ahead' + 1
  <2>1. InFlight' = InFlight /\ last' = last /\ InFlight \in Nat /\ last \in Nat
    BY <1>2, AheadTyped, Typing DEF job, InFlight, Flying, Busy
  <2>2. Queued' = Len(buffer') + InFlight /\ Queued = (Len(buffer') + 1) + InFlight
    BY <1>4, <2>1 DEF Queued
  <2>3. Queued' \in Nat /\ Queued = Queued' + 1
    BY <1>4, <2>1, <2>2
  <2>4. Ahead = Queued
    BY <1>6, AheadTyped
  <2>5. Ahead' = Queued'
    <3>1. Len(stream'.batch) = 0
      BY <1>6, <1>7
    <3>2. Ahead' = Len(stream'.batch) + Queued'
      BY DEF Ahead
    <3>3. PICK q \in Nat : q = Queued'
      BY <2>3
    <3>4. 0 + q = q
      OBVIOUS
    <3> QED
      BY <3>1, <3>2, <3>3, <3>4, Zenon
  <2>6. n + Queued = last + 1
    BY <1>4, <1>10 DEF Gapless
  <2>7. \A i \in 1..Len(buffer') : buffer'[i] + Queued' = last + i
    <3>1. SUFFICES ASSUME NEW i \in 1..Len(buffer')
                   PROVE  buffer'[i] + Queued' = last + i
      OBVIOUS
    <3>2. buffer[i + 1] + Queued = last + (i + 1) /\ i \in Nat
      BY <1>4, <1>10 DEF Gapless
    <3>3. buffer'[i] = buffer[i + 1] /\ buffer[i + 1] \in Nat
      BY <1>3, <1>4, Typing
    <3> QED
      BY <2>1, <2>3, <3>2, <3>3
  <2>8. Gapless'
    BY <1>6, <1>7, <2>1, <2>7 DEF Gapless
  <2> QED
    BY <2>3, <2>4, <2>5, <2>6, <2>8
<1> QED
  BY <1>2, <1>5, <1>6, <1>7, <1>8, <1>9, <1>10, TakeDelivers

(* The backlog goes out from its smallest number, and nothing is between   *)
(* that and the position of the client.                                    *)
LEMMA ReplayDelivers ==
  ASSUME Inv, Deliveries, Replay
  PROVE  Deliveries'
<1>1. Tabled /\ Stages /\ LateIsComplete /\ TakeTurns /\ Verdicts /\ Orderly
  BY DEF Deliveries
<1>2. PICK n \in stream.backlog :
        /\ \A m \in stream.backlog : n <= m
        /\ Receive(n, [stream EXCEPT !.backlog = @ \ {n}], FALSE)
  BY DEF Replay
<1> DEFINE next == [stream EXCEPT !.backlog = @ \ {n}]
<1>3. /\ stream.at = "replaying" /\ job' = job /\ buffer' = buffer /\ lost' = lost
      /\ Receive(n, next, FALSE)
  BY <1>2 DEF Replay
<1>4. /\ n \in log /\ n \in Numbers /\ n > stream.position
      /\ stream \in Stream /\ stream.backlog \subseteq Numbers
      /\ log \subseteq Nat /\ stream.position \in Nat /\ n \in Nat
      /\ ~(n <= stream.position)
  BY <1>1, Typing DEF Tabled
<1>5. /\ next \in Stream
      /\ next.position = stream.position /\ next.late = stream.late
      /\ next.at = "replaying" /\ next.backlog = stream.backlog \ {n}
      /\ next.batch = stream.batch
  BY <1>3, <1>4 DEF Stream
<1> HIDE DEF next
<1>6. /\ stream'.backlog = stream.backlog \ {n} /\ stream'.batch = stream.batch
      /\ stream'.late = stream.late /\ stream'.at = "replaying"
      /\ stream'.position = n /\ Got' = Got \cup {n}
  <2>1. FALSE \in BOOLEAN
    OBVIOUS
  <2> QED
    BY <1>3, <1>4, <1>5, <2>1, Received
<1>7. /\ TakeTurns' /\ Verdicts'
      /\ Complete' <=> Complete
      /\ InFlight' = InFlight
      /\ last' = last /\ log' = log /\ crowded' = crowded /\ writer' = writer
      /\ \A v \in Writers : Busy(v)' <=> Busy(v)
  BY <1>1, <1>3, JobStays
<1>8. \A m \in stream'.backlog : m \in log /\ m > n
  <2>1. SUFFICES ASSUME NEW m \in stream.backlog, m # n PROVE m \in log /\ m > n
    BY <1>6
  <2>2. n <= m /\ m \in log
    BY <1>1, <1>2 DEF Tabled
  <2> QED
    BY <1>4, <2>1, <2>2
<1>9. Tabled'
  BY <1>1, <1>3, <1>4, <1>6, <1>7, <1>8 DEF Tabled
<1>10. Stages'
  BY <1>1, <1>3, <1>6 DEF Stages
<1>11. LateIsComplete'
  BY <1>1, <1>3, <1>6, <1>7 DEF LateIsComplete
<1>12. Queued' = Queued /\ Ahead' = Ahead
  BY <1>3, <1>6, <1>7 DEF Queued, Ahead
<1>13. ASSUME ~crowded, lost = 0
       PROVE  NothingDropped' /\ Gapless' /\ Covered'
  <2>1. NothingDropped /\ Gapless /\ Covered
    BY <1>1, <1>3, <1>13 DEF Orderly, Listening
  <2>2. ASSUME NEW m \in log, m <= n PROVE m \in Got'
    <3>1. CASE m <= stream.position
      BY <1>6, <2>1, <3>1 DEF NothingDropped, Got
    <3>2. CASE m > stream.position /\ m # n
      <4>0. m \in Nat /\ m < n /\ stream.position < m
        BY <1>4, <2>2, <3>2
      <4>1. m \in stream.backlog
        <5>1. \A k \in stream.backlog, j \in log :
                stream.position < j /\ j < k => j \in stream.backlog
          BY <2>1 DEF Covered
        <5> QED
          BY <4>0, <5>1
      <4> QED
        BY <1>2, <1>4, <2>2, <3>2, <4>1
    <3>3. CASE m = n
      BY <1>6, <3>3
    <3> QED
      BY <1>4, <3>1, <3>2, <3>3
  <2>3. NothingDropped'
    BY <1>6, <1>7, <2>2 DEF NothingDropped, Got
  <2>4. Gapless'
    BY <1>3, <1>6, <1>7, <1>12, <2>1 DEF Gapless
  <2>5. ASSUME NEW k \in stream'.backlog, NEW m \in log, n < m, m < k
        PROVE  m \in stream'.backlog
    <3>1. m \in Nat /\ stream.position < m /\ m # n
      <4>1. m \in Nat
        BY <1>4
      <4> QED
        BY <1>4, <2>5, <4>1
    <3>2. m \in stream.backlog
      BY <1>6, <2>1, <2>5, <3>1 DEF Covered
    <3> QED
      BY <1>6, <3>1, <3>2
  <2>6. ASSUME NEW m \in log, m > n, m \notin stream'.backlog PROVE m + Ahead > last
    <3>1. m > stream.position /\ m \notin stream.backlog
      BY <1>4, <1>6, <2>6
    <3> QED
      BY <1>3, <2>1, <3>1 DEF Covered
  <2>7. Covered'
    BY <1>6, <1>7, <1>12, <2>5, <2>6 DEF Covered
  <2> QED
    BY <2>3, <2>4, <2>7
<1>14. Orderly'
  BY <1>3, <1>7, <1>13 DEF Orderly
<1> QED
  BY <1>7, <1>9, <1>10, <1>11, <1>14 DEF Deliveries

LEMMA InitDelivers == Init => Deliveries
<1> SUFFICES ASSUME Init PROVE Deliveries
  OBVIOUS
<1>1. Inv
  BY Initially
<1>2. /\ log = {} /\ terminal = {} /\ buffer = <<>> /\ delivered = <<>>
      /\ \A w \in Writers : writer[w] = Idle
      /\ stream.at = "off" /\ stream.backlog = {} /\ stream.batch = <<>>
      /\ stream.position = 0 /\ ~stream.late
  BY DEF Init
<1>3. \A w \in Writers : ~Busy(w)
  BY <1>2 DEF Busy, Idle
<1>4. Got = {}
  BY <1>2 DEF Got, ToSet
<1>5. Tabled
  BY <1>2, <1>3, <1>4 DEF Tabled, Busy
<1>6. Stages /\ LateIsComplete /\ TakeTurns
  BY <1>2, <1>3 DEF Stages, LateIsComplete, TakeTurns
<1>8. Verdicts
  BY <1>2, <1>3 DEF Verdicts, Writers
<1>7. Orderly
  BY <1>2 DEF Orderly, NothingDropped, Listening
<1> QED
  BY <1>5, <1>6, <1>7, <1>8 DEF Deliveries

LEMMA StutterDelivers ==
  ASSUME Deliveries, UNCHANGED vars
  PROVE  Deliveries'
<1>1. /\ last' = last /\ log' = log /\ writer' = writer /\ terminal' = terminal
      /\ crowded' = crowded /\ buffer' = buffer /\ stream' = stream
      /\ delivered' = delivered /\ lost' = lost
      /\ running' = running /\ settler' = settler /\ abandoned' = abandoned
  BY DEF vars, job
<1>2. \A v \in Writers : Busy(v)' <=> Busy(v)
  BY <1>1 DEF Busy
<1>3. Tabled' /\ TakeTurns' /\ Stages' /\ Verdicts' /\ LateIsComplete'
  <2>1. Verdicts'
    BY <1>1, <1>2, VerdictsKept DEF Deliveries
  <2>2. Tabled' /\ TakeTurns' /\ Stages'
    BY <1>1, <1>2 DEF Deliveries, Tabled, TakeTurns, Stages, Got
  <2>3. LateIsComplete'
    BY <1>1, <1>2 DEF Deliveries, LateIsComplete, Complete, Settled, Got
  <2> QED
    BY <2>1, <2>2, <2>3
<1>4. Orderly'
  <2>1. Queued' = Queued /\ Ahead' = Ahead
    BY <1>1 DEF Queued, InFlight, Ahead, Flying, Busy
  <2> QED
    BY <1>1, <2>1 DEF Deliveries, Orderly, NothingDropped, Listening, Gapless, Covered
<1> QED
  BY <1>3, <1>4 DEF Deliveries

LEMMA DeliveriesHold == Spec => [](Inv /\ Deliveries)
<1>1. Inv /\ Deliveries /\ [Next]_vars => Deliveries'
  <2> SUFFICES ASSUME Inv, Deliveries, [Next]_vars PROVE Deliveries'
    OBVIOUS
  <2>1. CASE \E c \in Collectors : Insert(c)
    BY <2>1, InsertDelivers
  <2>2. CASE \E w \in Writers : Publish(w)
    BY <2>2, CommitDelivers, InsertFailsDelivers, AnnounceDelivers DEF Publish
  <2>3. CASE Settle \/ Reap \/ \E w \in Cancellers : LookAtJob(w) \/ MarkCancelled(w)
    BY <2>3, SettleDelivers
  <2>4. CASE \E w \in Settlers : InsertTerminal(w)
    BY <2>4, InsertTerminalDelivers
  <2>5. CASE Open \/ Disconnect
    BY <2>5, OpenDelivers
  <2>6. CASE Subscribe
    BY <2>6, ReadBacklogDelivers, ReplayDelivers, DrainDelivers, YieldDrainedDelivers,
       LookAtRowDelivers, NextEventDelivers DEF Subscribe
  <2>7. CASE UNCHANGED vars
    BY <2>7, StutterDelivers
  <2> QED
    BY <2>1, <2>2, <2>3, <2>4, <2>5, <2>6, <2>7 DEF Next
<1> QED
  BY <1>1, InvHolds, InitDelivers, PTL DEF Spec

LEMMA NothingIsMissed ==
  ASSUME Inv, Deliveries
  PROVE  MissesNothing
<1>1. Tabled /\ LateIsComplete /\ Orderly
  BY DEF Deliveries
<1>2. LateReaderSeesAll
  BY <1>1 DEF LateReaderSeesAll, Tabled, LateIsComplete, Got
<1>3. OrderlyDropsNothing
  BY <1>1 DEF OrderlyDropsNothing, Orderly
<1> QED
  BY <1>2, <1>3 DEF MissesNothing

(* Whoever comes late or comes back misses nothing: the stream of a job    *)
(* that is over shows the whole table before it ends, and while publishes  *)
(* take turns and no message is lost nothing in the table is behind the    *)
(* position of a client that did not get it, wherever the publishes fall   *)
(* between subscription, backlog, drained buffer, live feed and            *)
(* reconnection.                                                           *)
THEOREM NothingMissed == Spec => []MissesNothing
BY DeliveriesHold, NothingIsMissed, PTL

(* Once a run that was not cut off has given the row its status nothing    *)
(* but terminal events enters the table, whoever else settles the job and  *)
(* however publishes overlap (JobProgressReporter: a terminal event        *)
(* "cannot overtake the progress events before it"); and where nobody else *)
(* settles it and publishes took turns, nothing follows a terminal event.  *)
THEOREM TerminalComesLast == Spec => TerminalIsLast
<1>1. ASSUME Inv, Deliveries, [Next]_vars
      PROVE  \/ \E w \in Writers : Commit(w)
             \/ log' = log
  <2>1. CASE \E w \in Writers : Publish(w)
    BY <2>1 DEF Publish, InsertFails, Announce
  <2>2. CASE UNCHANGED vars
    BY <2>2 DEF vars, job
  <2>3. CASE \E c \in Collectors : Insert(c)
    BY <2>3 DEF Insert
  <2>4. CASE Settle \/ Reap \/ \E w \in Settlers : InsertTerminal(w)
    BY <2>4 DEF Settle, Reap, InsertTerminal
  <2>5. CASE \E w \in Cancellers : LookAtJob(w) \/ MarkCancelled(w)
    BY <2>5 DEF LookAtJob, MarkCancelled
  <2>6. CASE Open \/ Subscribe \/ Disconnect
    BY <2>6 DEF Open, Subscribe, ReadBacklog, Replay, Drain, YieldDrained, LookAtRow,
                NextEvent, Disconnect, job
  <2> QED
    BY <1>1, <2>1, <2>2, <2>3, <2>4, <2>5, <2>6 DEF Next
<1>2. ASSUME Inv, Deliveries, NEW w \in Writers, Commit(w),
             settler[Finisher] # "none", ~abandoned
      PROVE  log' \ log \subseteq terminal
  <2>1. Verdicts /\ ~running /\ Busy(w) /\ log' = log \cup {writer[w].seq}
    BY <1>2 DEF Deliveries, Inv, Numbered, Commit, Busy
  <2>2. w \in Settlers
    BY <1>2, <2>1 DEF Verdicts, Writers
  <2> QED
    BY <2>1, <2>2 DEF Verdicts
<1>3. ASSUME Inv, Deliveries, NEW w \in Writers, Commit(w),
             terminal \cap log # {}, ~crowded, SettledAlone
      PROVE  FALSE
  <2>1. last \in log
    BY <1>3 DEF Deliveries, Verdicts
  <2> QED
    BY <1>3, <2>1 DEF Deliveries, TakeTurns, Busy, Commit
<1>4. Inv /\ Deliveries /\ [Next]_vars =>
        [/\ settler[Finisher] # "none" /\ ~abandoned => log' \ log \subseteq terminal
         /\ terminal \cap log # {} /\ ~crowded /\ SettledAlone => log' = log]_vars
  BY <1>1, <1>2, <1>3
<1> QED
  BY <1>4, DeliveriesHold, PTL DEF Spec, TerminalIsLast

-----------------------------------------------------------------------------
(* The in-process store.  Its ids grow because the position of the client  *)
(* bounds what it got (ReceivedBehind).  That it loses nothing rests on    *)
(* what holds as long as publishes take turns and the queue was never      *)
(* full: events are numbered without a gap (InTurn), what is replayed and  *)
(* what is queued are runs of them (Replayed, LinedUp), each begins where  *)
(* the one before it ends (Joined), and so what is yielded next is what    *)
(* the client lacks next (Whole).  Once the job ended, all that can follow *)
(* is that it ended again (EndStays), and the sentinel lies behind that    *)
(* (Ended).                                                                *)

(* What TypeOK leaves open: a publish in flight has a number, what ends a  *)
(* job says so, and a job that is running was not marked.                  *)
Taken ==
  /\ \A w \in Memory!Writers : threads[w].at \notin {"idle", "saw"} => threads[w].seq >= 1
  /\ \A w \in Memory!Settlers : threads[w].says = Memory!TheEnd
  /\ status = "running" => threads[Finisher].at = "idle" /\ threads[Callback].at \in {"idle", "saw"}
  /\ \A c \in LocalCollectors :
       /\ threads[c].at \notin {"saw", "closing", "closed"}
       /\ threads[c].at # "idle" => threads[c].says # Memory!TheEnd

ReceivedBehind == \A i \in 1..Len(received) : received[i].seq <= generator.position

LocalTypes == Memory!TypeOK /\ Taken /\ ReceivedBehind /\ Memory!IdsGrow

LEMMA WriterFields ==
  ASSUME LocalTypes, NEW w \in Memory!Writers
  PROVE  /\ threads[w] \in Memory!Writer
         /\ threads[w].at \in {"idle", "saw", "read", "numbered", "appended", "closing", "closed"}
         /\ threads[w].says \in 0..LocalProgress
         /\ threads[w].seq \in Nat
BY DEF LocalTypes, Memory!TypeOK, Memory!Writer

(* Who publishes.                                                          *)
LEMMA WhoWrites ==
  /\ Finisher \in Memory!Writers /\ Callback \in Memory!Writers /\ Finisher # Callback
  /\ Finisher \in Memory!Settlers /\ Callback \in Memory!Settlers
  /\ \A w \in Memory!Settlers : w \in Memory!Writers /\ w \in {Finisher, Callback}
  /\ \A c \in LocalCollectors :
       c \in Memory!Writers /\ c \notin Memory!Settlers /\ c # Finisher /\ c # Callback
  /\ \A w \in Memory!Writers : w \in LocalCollectors \/ w \in Memory!Settlers
BY StreamsAssumption DEF Memory!Writers, Memory!Settlers, Memory!MemoryAssumption

LEMMA StreamFields ==
  ASSUME LocalTypes
  PROVE  /\ generator.at \in {"off", "registered", "replaying", "live", "ended"}
         /\ generator.batch \in Seq(Memory!Event)
         /\ generator.position \in Nat
         /\ generator.whole \in BOOLEAN
BY DEF LocalTypes, Memory!TypeOK, Memory!Stream

LEMMA JobFields ==
  ASSUME LocalTypes
  PROVE  /\ LocalProgress \in Nat /\ 0 \in 0..LocalProgress
         /\ published \in 0..LocalProgress /\ status \in {"running", "terminal"}
         /\ sequence \in Nat
BY StreamsAssumption DEF LocalTypes, Memory!TypeOK, Memory!MemoryAssumption

(* publish reads the counter and takes the number after it.                *)
LEMMA BeginTyped ==
  ASSUME LocalTypes, NEW w \in Memory!Writers, NEW says \in 0..LocalProgress,
         Memory!Begin(w, says)
  PROVE  /\ raced' \in BOOLEAN
         /\ threads' \in [Memory!Writers -> Memory!Writer]
         /\ threads'[w].at = "read" /\ threads'[w].seq = sequence + 1
         /\ threads'[w].says = says
         /\ \A v \in Memory!Writers \ {w} : threads'[v] = threads[v]
<1> DEFINE new == [at |-> "read", says |-> says, seq |-> sequence + 1]
<1>1. new \in Memory!Writer
  BY JobFields DEF Memory!Writer
<1>2. threads' = [threads EXCEPT ![w] = new] /\ threads \in [Memory!Writers -> Memory!Writer]
  BY DEF Memory!Begin, LocalTypes, Memory!TypeOK
<1>3. raced' \in BOOLEAN
  BY DEF Memory!Begin, LocalTypes, Memory!TypeOK
<1> HIDE DEF new
<1>4. new.at = "read" /\ new.seq = sequence + 1 /\ new.says = says
  BY DEF new
<1> QED
  BY <1>1, <1>2, <1>3, <1>4

LEMMA ClientUntouched ==
  ASSUME LocalTypes, UNCHANGED <<generator, received, opened>>
  PROVE  /\ generator' \in Memory!Stream /\ received' \in Seq(Memory!Event)
         /\ opened' \in 0..MaxConnections
         /\ ReceivedBehind' /\ Memory!IdsGrow'
BY DEF LocalTypes, Memory!TypeOK, ReceivedBehind, Memory!IdsGrow

LEMMA ReportTyped ==
  ASSUME LocalTypes, NEW c \in LocalCollectors, Memory!Report(c)
  PROVE  LocalTypes'
<1>1. /\ status = "running" /\ status' = "running" /\ published' = published + 1
      /\ published < LocalProgress /\ Memory!Begin(c, published + 1)
      /\ UNCHANGED <<overflowed, sequence, events, queue, generator, received, opened>>
  BY DEF Memory!Report, Memory!client
<1>2. published + 1 \in 0..LocalProgress /\ published' \in 0..LocalProgress
  BY <1>1, JobFields
<1>3. /\ raced' \in BOOLEAN
      /\ threads' \in [Memory!Writers -> Memory!Writer]
      /\ threads'[c].at = "read" /\ threads'[c].seq = sequence + 1
      /\ threads'[c].says = published + 1
      /\ \A v \in Memory!Writers \ {c} : threads'[v] = threads[v]
  BY <1>1, <1>2, WhoWrites, BeginTyped
<1>4. Memory!TypeOK'
  BY <1>1, <1>2, <1>3, ClientUntouched DEF LocalTypes, Memory!TypeOK
<1>5. Taken'
  <2>1. \A w \in Memory!Writers :
          threads'[w].at \notin {"idle", "saw"} => threads'[w].seq >= 1
    BY <1>3, JobFields DEF LocalTypes, Taken
  <2>2. \A w \in Memory!Settlers : threads'[w] = threads[w]
    BY <1>3, WhoWrites
  <2>3. ASSUME NEW d \in LocalCollectors
        PROVE  /\ threads'[d].at \notin {"saw", "closing", "closed"}
               /\ threads'[d].at # "idle" => threads'[d].says # Memory!TheEnd
    <3>1. published + 1 # Memory!TheEnd
      BY JobFields DEF Memory!TheEnd
    <3> QED
      BY <1>3, <3>1, WhoWrites DEF LocalTypes, Taken
  <2> QED
    BY <1>1, <2>1, <2>2, <2>3, WhoWrites DEF LocalTypes, Taken
<1> QED
  BY <1>1, <1>4, <1>5, ClientUntouched DEF LocalTypes

(* What mark_succeeded, mark_failed and mark_cancelled do first.           *)
LEMMA MarkTyped ==
  ASSUME LocalTypes, NEW w \in Memory!Settlers, Memory!Mark(w)
  PROVE  LocalTypes'
<1>1. /\ status' = "terminal" /\ Memory!Begin(w, Memory!TheEnd)
      /\ UNCHANGED <<overflowed, sequence, events, published, queue, generator, received, opened>>
  BY DEF Memory!Mark, Memory!client
<1>2. /\ raced' \in BOOLEAN
      /\ threads' \in [Memory!Writers -> Memory!Writer]
      /\ threads'[w].at = "read" /\ threads'[w].seq = sequence + 1
      /\ threads'[w].says = Memory!TheEnd
      /\ \A v \in Memory!Writers \ {w} : threads'[v] = threads[v]
  <2>1. Memory!TheEnd \in 0..LocalProgress
    BY JobFields DEF Memory!TheEnd
  <2> QED
    BY <1>1, <2>1, WhoWrites, BeginTyped
<1>3. Memory!TypeOK'
  BY <1>1, <1>2, ClientUntouched DEF LocalTypes, Memory!TypeOK
<1>4. Taken'
  <2>1. \A v \in Memory!Writers :
          threads'[v].at \notin {"idle", "saw"} => threads'[v].seq >= 1
    BY <1>2, JobFields DEF LocalTypes, Taken
  <2>2. \A v \in Memory!Settlers : threads'[v].says = Memory!TheEnd
    BY <1>2, WhoWrites DEF LocalTypes, Taken
  <2>3. ASSUME NEW d \in LocalCollectors
        PROVE  /\ threads'[d].at \notin {"saw", "closing", "closed"}
               /\ threads'[d].at # "idle" => threads'[d].says # Memory!TheEnd
    BY <1>2, WhoWrites DEF LocalTypes, Taken
  <2> QED
    BY <1>1, <2>1, <2>2, <2>3 DEF Taken
<1> QED
  BY <1>1, <1>3, <1>4, ClientUntouched DEF LocalTypes

LEMMA SettleTyped ==
  ASSUME LocalTypes, Memory!Settle \/ Memory!MarkCancelled
  PROVE  LocalTypes'
BY MarkTyped, WhoWrites DEF Memory!Settle, Memory!MarkCancelled

LEMMA LookTyped ==
  ASSUME LocalTypes, Memory!Look
  PROVE  LocalTypes'
<1>1. /\ threads' = [threads EXCEPT ![Callback].at = "saw"] /\ threads[Callback] = Memory!Idle
      /\ UNCHANGED <<overflowed, status, sequence, events, published, raced, queue,
                     generator, received, opened>>
  BY DEF Memory!Look, Memory!client
<1>2. threads \in [Memory!Writers -> Memory!Writer]
  BY DEF LocalTypes, Memory!TypeOK
<1>3. /\ threads' \in [Memory!Writers -> Memory!Writer]
      /\ threads'[Callback].at = "saw" /\ threads'[Callback].says = threads[Callback].says
      /\ \A v \in Memory!Writers \ {Callback} : threads'[v] = threads[v]
  BY <1>1, <1>2, WhoWrites DEF Memory!Writer
<1>4. Taken'
  BY <1>1, <1>3, WhoWrites DEF LocalTypes, Taken
<1> QED
  BY <1>1, <1>3, <1>4, ClientUntouched DEF LocalTypes, Memory!TypeOK



(* A step of one publish on its way.                                       *)
LEMMA AdvanceTyped ==
  ASSUME LocalTypes, NEW w \in Memory!Writers, NEW at,
         at \in {"numbered", "appended", "closing", "closed"},
         threads[w].at \notin {"idle", "saw"},
         at \in {"closing", "closed"} => w \in Memory!Settlers,
         threads' = [threads EXCEPT ![w].at = at],
         UNCHANGED status
  PROVE  /\ threads' \in [Memory!Writers -> Memory!Writer]
         /\ threads'[w].at = at /\ threads'[w].seq = threads[w].seq
         /\ threads'[w].says = threads[w].says
         /\ \A v \in Memory!Writers \ {w} : threads'[v] = threads[v]
         /\ Taken'
<1>1. threads \in [Memory!Writers -> Memory!Writer]
  BY DEF LocalTypes, Memory!TypeOK
<1>2. threads' \in [Memory!Writers -> Memory!Writer]
  BY <1>1 DEF Memory!Writer
<1>3. /\ threads'[w].at = at /\ threads'[w].seq = threads[w].seq
      /\ threads'[w].says = threads[w].says
      /\ \A v \in Memory!Writers \ {w} : threads'[v] = threads[v]
  BY <1>1, WriterFields DEF Memory!Writer
<1>4. \A v \in Memory!Writers :
        threads'[v].at \notin {"idle", "saw"} => threads'[v].seq >= 1
  BY <1>3 DEF LocalTypes, Taken
<1>5. \A v \in Memory!Settlers : threads'[v].says = Memory!TheEnd
  BY <1>3, WhoWrites DEF LocalTypes, Taken
<1>6. status = "running" =>
        threads'[Finisher].at = "idle" /\ threads'[Callback].at \in {"idle", "saw"}
  BY <1>3, WhoWrites DEF LocalTypes, Taken
<1>7. ASSUME NEW c \in LocalCollectors
      PROVE  /\ threads'[c].at \notin {"saw", "closing", "closed"}
             /\ threads'[c].at # "idle" => threads'[c].says # Memory!TheEnd
  BY <1>3, WhoWrites DEF LocalTypes, Taken
<1> QED
  BY <1>2, <1>3, <1>4, <1>5, <1>6, <1>7 DEF Taken

LEMMA NumberTyped ==
  ASSUME LocalTypes, NEW w \in Memory!Writers, Memory!Number(w)
  PROVE  LocalTypes'
<1>1. /\ threads[w].at = "read" /\ sequence' = threads[w].seq
      /\ threads' = [threads EXCEPT ![w].at = "numbered"]
      /\ UNCHANGED <<raced, overflowed, status, events, published, queue, generator, received, opened>>
  BY DEF Memory!Number, Memory!client
<1>2. sequence' \in Nat
  BY <1>1, WriterFields
<1>3. Taken' /\ threads' \in [Memory!Writers -> Memory!Writer]
  BY <1>1, AdvanceTyped
<1> QED
  BY <1>1, <1>2, <1>3, ClientUntouched DEF LocalTypes, Memory!TypeOK

(* What a publish on its way says.                                         *)
LEMMA EventTyped ==
  ASSUME LocalTypes, NEW w \in Memory!Writers, threads[w].at \notin {"idle", "saw"}
  PROVE  [says |-> threads[w].says, seq |-> threads[w].seq] \in Memory!Event
<1>1. threads[w].seq \in Nat \ {0}
  BY WriterFields DEF LocalTypes, Taken
<1> QED
  BY <1>1, WriterFields DEF Memory!Event

LEMMA RecordTyped ==
  ASSUME LocalTypes, NEW w \in Memory!Writers, Memory!Record(w)
  PROVE  LocalTypes'
<1>1. /\ threads[w].at = "numbered"
      /\ events' = Append(events, [says |-> threads[w].says, seq |-> threads[w].seq])
      /\ threads' = [threads EXCEPT ![w].at = "appended"]
      /\ UNCHANGED <<raced, overflowed, status, sequence, published, queue, generator, received, opened>>
  BY DEF Memory!Record, Memory!client
<1>2. events' \in Seq(Memory!Event)
  BY <1>1, EventTyped DEF LocalTypes, Memory!TypeOK
<1>3. Taken' /\ threads' \in [Memory!Writers -> Memory!Writer]
  BY <1>1, AdvanceTyped
<1> QED
  BY <1>1, <1>2, <1>3, ClientUntouched DEF LocalTypes, Memory!TypeOK

LEMMA PutTyped ==
  ASSUME LocalTypes, NEW item \in Memory!Event \cup {Memory!Sentinel}, Memory!Put(item)
  PROVE  /\ queue' \in Seq(Memory!Event \cup {Memory!Sentinel}) /\ Len(queue') <= QueueSize
         /\ overflowed' \in BOOLEAN
<1>1. /\ queue \in Seq(Memory!Event \cup {Memory!Sentinel}) /\ Len(queue) <= QueueSize
      /\ overflowed \in BOOLEAN /\ QueueSize \in Nat
  BY StreamsAssumption DEF LocalTypes, Memory!TypeOK, Memory!MemoryAssumption
<1>2. CASE queue' = Append(queue, item) /\ Len(queue) # QueueSize
  BY <1>1, <1>2 DEF Memory!Put
<1>3. CASE queue' = queue
  BY <1>1, <1>3 DEF Memory!Put
<1> QED
  BY <1>1, <1>2, <1>3 DEF Memory!Put

LEMMA FanOutTyped ==
  ASSUME LocalTypes, NEW w \in Memory!Writers, Memory!FanOut(w)
  PROVE  LocalTypes'
<1>1. /\ threads[w].at = "appended"
      /\ Memory!Put([says |-> threads[w].says, seq |-> threads[w].seq])
      /\ threads' = [threads EXCEPT ![w] =
           IF w \in Memory!Settlers THEN [@ EXCEPT !.at = "closing"] ELSE Memory!Idle]
      /\ UNCHANGED <<raced, status, sequence, events, published, generator, received, opened>>
  BY DEF Memory!FanOut, Memory!client
<1>2. /\ queue' \in Seq(Memory!Event \cup {Memory!Sentinel}) /\ Len(queue') <= QueueSize
      /\ overflowed' \in BOOLEAN
  BY <1>1, EventTyped, PutTyped
<1>3. CASE w \in Memory!Settlers
  <2>1. threads' = [threads EXCEPT ![w].at = "closing"]
    BY <1>1, <1>3
  <2>2. Taken' /\ threads' \in [Memory!Writers -> Memory!Writer]
    BY <1>1, <1>3, <2>1, AdvanceTyped
  <2> QED
    BY <1>1, <1>2, <2>2, ClientUntouched DEF LocalTypes, Memory!TypeOK
<1>4. CASE w \notin Memory!Settlers
  <2>1. /\ threads \in [Memory!Writers -> Memory!Writer] /\ Memory!Idle \in Memory!Writer
    BY JobFields DEF LocalTypes, Memory!TypeOK, Memory!Idle, Memory!Writer, Memory!TheEnd
  <2>2. /\ threads' \in [Memory!Writers -> Memory!Writer] /\ threads'[w] = Memory!Idle
        /\ \A v \in Memory!Writers \ {w} : threads'[v] = threads[v]
    BY <1>1, <1>4, <2>1
  <2>3. Memory!Idle.at = "idle"
    BY DEF Memory!Idle
  <2>4. Taken'
    BY <1>1, <1>4, <2>2, <2>3, WhoWrites DEF LocalTypes, Taken
  <2> QED
    BY <1>1, <1>2, <2>2, <2>4, ClientUntouched DEF LocalTypes, Memory!TypeOK
<1> QED
  BY <1>3, <1>4

LEMMA CloseTyped ==
  ASSUME LocalTypes, NEW w \in Memory!Settlers, Memory!Close(w)
  PROVE  LocalTypes'
<1>1. /\ threads[w].at = "closing" /\ Memory!Put(Memory!Sentinel)
      /\ threads' = [threads EXCEPT ![w].at = "closed"]
      /\ UNCHANGED <<raced, status, sequence, events, published, generator, received, opened>>
  BY DEF Memory!Close, Memory!client
<1>2. /\ queue' \in Seq(Memory!Event \cup {Memory!Sentinel}) /\ Len(queue') <= QueueSize
      /\ overflowed' \in BOOLEAN
  BY <1>1, PutTyped
<1>3. Taken' /\ threads' \in [Memory!Writers -> Memory!Writer]
  BY <1>1, WhoWrites, AdvanceTyped
<1> QED
  BY <1>1, <1>2, <1>3, ClientUntouched DEF LocalTypes, Memory!TypeOK

(* A step of the client changes nothing of the publishes.                  *)
LEMMA JobUntouched ==
  ASSUME LocalTypes, UNCHANGED <<status, sequence, events, published, threads, raced>>
  PROVE  /\ Taken'
         /\ status' \in {"running", "terminal"} /\ sequence' \in Nat
         /\ events' \in Seq(Memory!Event) /\ published' \in 0..LocalProgress
         /\ threads' \in [Memory!Writers -> Memory!Writer] /\ raced' \in BOOLEAN
BY DEF LocalTypes, Memory!TypeOK, Taken

(* Yielding an event that is accepted, or dropping it.                     *)
LEMMA DeliverTyped ==
  ASSUME LocalTypes, NEW e \in Memory!Event, NEW next \in Memory!Stream,
         next.position = generator.position, Memory!Deliver(e, next)
  PROVE  /\ generator' \in Memory!Stream /\ received' \in Seq(Memory!Event)
         /\ generator'.at = next.at /\ generator'.batch = next.batch
         /\ generator'.whole = next.whole
         /\ ReceivedBehind' /\ Memory!IdsGrow'
<1>1. /\ received \in Seq(Memory!Event) /\ generator.position \in Nat
      /\ e.seq \in Nat
  BY StreamFields DEF LocalTypes, Memory!TypeOK, Memory!Event
<1>2. CASE e.seq > generator.position
  <2>1. generator' = [next EXCEPT !.position = e.seq] /\ received' = Append(received, e)
    BY <1>2 DEF Memory!Deliver, Memory!Accepts
  <2>2. /\ generator' \in Memory!Stream /\ generator'.position = e.seq
        /\ generator'.at = next.at /\ generator'.batch = next.batch
        /\ generator'.whole = next.whole
    BY <1>1, <2>1 DEF Memory!Stream
  <2>3. /\ received' \in Seq(Memory!Event) /\ Len(received') = Len(received) + 1
        /\ \A i \in 1..Len(received) : received'[i] = received[i]
        /\ received'[Len(received) + 1] = e
    BY <1>1, <2>1
  <2>4. \A i \in 1..Len(received) : received[i].seq \in Nat /\ received[i].seq < e.seq
    <3>1. SUFFICES ASSUME NEW i \in 1..Len(received)
                   PROVE  received[i].seq \in Nat /\ received[i].seq < e.seq
      OBVIOUS
    <3>2. received[i] \in Memory!Event /\ received[i].seq <= generator.position
      BY <1>1 DEF LocalTypes, ReceivedBehind
    <3>3. received[i].seq \in Nat
      BY <3>2 DEF Memory!Event
    <3> QED
      BY <1>1, <1>2, <3>2, <3>3
  <2>5. Len(received) \in Nat
    BY <1>1
  <2>6. ReceivedBehind'
    BY <1>1, <2>2, <2>3, <2>4, <2>5 DEF ReceivedBehind
  <2>7. ASSUME NEW i \in 1..Len(received'), NEW k \in 1..Len(received'), i < k
        PROVE  received'[i].seq < received'[k].seq
    <3>1. i \in 1..Len(received)
      BY <2>3, <2>5, <2>7
    <3>2. CASE k \in 1..Len(received)
      BY <2>3, <2>7, <3>1, <3>2 DEF LocalTypes, Memory!IdsGrow
    <3>3. CASE k = Len(received) + 1
      BY <2>3, <2>4, <3>1, <3>3
    <3> QED
      BY <2>3, <2>5, <2>7, <3>2, <3>3
  <2> QED
    BY <2>2, <2>3, <2>6, <2>7 DEF Memory!IdsGrow
<1>3. CASE ~(e.seq > generator.position)
  <2>1. generator' = next /\ received' = received
    BY <1>3 DEF Memory!Deliver, Memory!Accepts
  <2> QED
    BY <1>1, <2>1 DEF LocalTypes, ReceivedBehind, Memory!IdsGrow
<1> QED
  BY <1>2, <1>3

LEMMA SubscriberTyped ==
  ASSUME LocalTypes,
         Memory!Register \/ Memory!Copy \/ Memory!LookAtStatus \/ Memory!Disconnect
  PROVE  LocalTypes'
<1>1. UNCHANGED <<status, sequence, events, published, threads, raced, overflowed, received>>
  BY DEF Memory!Register, Memory!Copy, Memory!LookAtStatus, Memory!Disconnect, Memory!job
<1>2. generator' \in Memory!Stream /\ generator'.position = generator.position
  <2>1. generator \in Memory!Stream /\ <<>> \in Seq(Memory!Event) /\ events \in Seq(Memory!Event)
    BY DEF LocalTypes, Memory!TypeOK
  <2>2. CASE Memory!Register \/ Memory!Disconnect
    BY <2>1, <2>2 DEF Memory!Register, Memory!Disconnect, Memory!Stream
  <2>3. CASE Memory!Copy
    BY <2>1, <2>3 DEF Memory!Copy, Memory!Stream
  <2>4. CASE Memory!LookAtStatus
    BY <2>1, <2>4 DEF Memory!LookAtStatus, Memory!Stream
  <2> QED
    BY <2>2, <2>3, <2>4
<1>3. opened' \in 0..MaxConnections
  BY StreamsAssumption DEF LocalTypes, Memory!TypeOK, Memory!MemoryAssumption, Memory!Register,
     Memory!Copy, Memory!LookAtStatus, Memory!Disconnect
<1>4. queue' \in Seq(Memory!Event \cup {Memory!Sentinel}) /\ Len(queue') <= QueueSize
  <2>1. queue' = queue \/ queue' = <<>>
    BY DEF Memory!Register, Memory!Copy, Memory!LookAtStatus, Memory!Disconnect
  <2>2. <<>> \in Seq(Memory!Event \cup {Memory!Sentinel}) /\ Len(<<>>) <= QueueSize
    BY StreamsAssumption DEF Memory!MemoryAssumption
  <2> QED
    BY <2>1, <2>2 DEF LocalTypes, Memory!TypeOK
<1>5. ReceivedBehind' /\ Memory!IdsGrow' /\ received' \in Seq(Memory!Event) /\ overflowed' \in BOOLEAN
  BY <1>1, <1>2 DEF LocalTypes, ReceivedBehind, Memory!IdsGrow, Memory!TypeOK
<1> QED
  BY <1>1, <1>2, <1>3, <1>4, <1>5, JobUntouched DEF LocalTypes, Memory!TypeOK

(* The head of a sequence and what is left of it.                          *)
LEMMA HeadTyped ==
  ASSUME NEW S, NEW s \in Seq(S), s # <<>>
  PROVE  /\ Head(s) \in S /\ Head(s) = s[1] /\ Tail(s) \in Seq(S)
         /\ Len(s) >= 1 /\ Len(Tail(s)) = Len(s) - 1 /\ Len(s) \in Nat
         /\ \A i \in 1..(Len(s) - 1) : Tail(s)[i] = s[i + 1]
OBVIOUS

LEMMA ReplayTyped ==
  ASSUME LocalTypes, Memory!Replay
  PROVE  LocalTypes'
<1>1. /\ generator.batch # <<>>
      /\ Memory!Deliver(Head(generator.batch), [generator EXCEPT !.batch = Tail(@)])
      /\ UNCHANGED <<status, sequence, events, published, threads, raced, overflowed, queue, opened>>
  BY DEF Memory!Replay, Memory!job
<1>2. Head(generator.batch) \in Memory!Event /\ Tail(generator.batch) \in Seq(Memory!Event)
  BY <1>1, HeadTyped, StreamFields
<1> DEFINE next == [generator EXCEPT !.batch = Tail(@)]
<1>3. next \in Memory!Stream /\ next.position = generator.position
  BY <1>2 DEF LocalTypes, Memory!TypeOK, Memory!Stream
<1> HIDE DEF next
<1>4. Memory!Deliver(Head(generator.batch), next)
  BY <1>1 DEF next
<1>5. /\ generator' \in Memory!Stream /\ received' \in Seq(Memory!Event)
      /\ ReceivedBehind' /\ Memory!IdsGrow'
  BY <1>2, <1>3, <1>4, DeliverTyped
<1> QED
  BY <1>1, <1>5, JobUntouched DEF LocalTypes, Memory!TypeOK

LEMMA GetTyped ==
  ASSUME LocalTypes, Memory!Get
  PROVE  LocalTypes'
<1>1. /\ queue # <<>> /\ queue' = Tail(queue)
      /\ IF Head(queue) = Memory!Sentinel
         THEN generator' = [generator EXCEPT !.at = "ended"] /\ received' = received
         ELSE Memory!Deliver(Head(queue), generator)
      /\ UNCHANGED <<status, sequence, events, published, threads, raced, overflowed, opened>>
  BY DEF Memory!Get, Memory!job
<1>2. /\ Head(queue) \in Memory!Event \cup {Memory!Sentinel}
      /\ queue' \in Seq(Memory!Event \cup {Memory!Sentinel}) /\ Len(queue') <= QueueSize
  BY <1>1, HeadTyped, StreamsAssumption DEF LocalTypes, Memory!TypeOK, Memory!MemoryAssumption
<1>3. generator \in Memory!Stream /\ received \in Seq(Memory!Event)
  BY DEF LocalTypes, Memory!TypeOK
<1>4. /\ generator' \in Memory!Stream /\ received' \in Seq(Memory!Event)
      /\ ReceivedBehind' /\ Memory!IdsGrow'
  <2>1. CASE Head(queue) = Memory!Sentinel
    <3>1. generator' \in Memory!Stream /\ generator'.position = generator.position
      BY <1>1, <1>3, <2>1 DEF Memory!Stream
    <3> QED
      BY <1>1, <1>3, <2>1, <3>1 DEF LocalTypes, ReceivedBehind, Memory!IdsGrow
  <2>2. CASE Head(queue) # Memory!Sentinel
    BY <1>1, <1>2, <1>3, <2>2, DeliverTyped
  <2> QED
    BY <2>1, <2>2
<1> QED
  BY <1>1, <1>2, <1>4, JobUntouched DEF LocalTypes, Memory!TypeOK

LEMMA LocalTypesHold == LocalTypes /\ [Memory!Next]_memoryVars => LocalTypes'
<1> SUFFICES ASSUME LocalTypes, [Memory!Next]_memoryVars PROVE LocalTypes'
  OBVIOUS
<1>1. CASE Memory!Next
  BY <1>1, ReportTyped, NumberTyped, RecordTyped, FanOutTyped, SettleTyped, LookTyped,
     CloseTyped,
     SubscriberTyped, ReplayTyped, GetTyped
     DEF Memory!Next, Memory!Publish, Memory!Subscribe
<1>2. CASE UNCHANGED memoryVars
  BY <1>2, JobUntouched, ClientUntouched DEF memoryVars, LocalTypes, Memory!TypeOK
<1> QED
  BY <1>1, <1>2

LEMMA LocalTypesAtFirst == Memory!Init => LocalTypes
<1> SUFFICES ASSUME Memory!Init PROVE LocalTypes
  OBVIOUS
<1>1. Memory!Idle \in Memory!Writer /\ Memory!Idle.at = "idle"
      /\ Memory!Idle.says = Memory!TheEnd
  BY StreamsAssumption DEF Memory!MemoryAssumption, Memory!Idle, Memory!Writer, Memory!TheEnd
<1>2. Memory!TypeOK
  <2>1. /\ LocalProgress \in Nat /\ QueueSize \in Nat /\ MaxConnections \in Nat
        /\ 0 \in 0..LocalProgress /\ 0 \in 0..MaxConnections
    BY StreamsAssumption DEF Memory!MemoryAssumption
  <2>2. generator \in Memory!Stream
    BY <2>1 DEF Memory!Init, Memory!Stream
  <2>3. /\ events \in Seq(Memory!Event) /\ received \in Seq(Memory!Event)
        /\ queue \in Seq(Memory!Event \cup {Memory!Sentinel}) /\ Len(queue) <= QueueSize
    BY <2>1 DEF Memory!Init
  <2>4. threads \in [Memory!Writers -> Memory!Writer]
    BY <1>1 DEF Memory!Init
  <2> QED
    BY <2>1, <2>2, <2>3, <2>4 DEF Memory!Init, Memory!TypeOK
<1>3. Taken
  BY <1>1, WhoWrites DEF Memory!Init, Taken
<1>4. ReceivedBehind /\ Memory!IdsGrow
  BY DEF Memory!Init, ReceivedBehind, Memory!IdsGrow
<1> QED
  BY <1>2, <1>3, <1>4 DEF LocalTypes

-----------------------------------------------------------------------------
(* The client has every event at or below its position.                    *)
Whole ==
  /\ generator.position <= Len(events)
  /\ \A i \in 1..Len(events) :
       i <= generator.position => \E k \in 1..Len(received) : received[k] = events[i]

(* The publishes take turns: what is recorded is numbered without a gap.   *)
InTurn ==
  /\ \A v, w \in Memory!Writers : Memory!Publishing(v) /\ Memory!Publishing(w) => v = w
  /\ status = "terminal" => \A c \in LocalCollectors : ~Memory!Publishing(c)
  /\ \A i \in 1..Len(events) : events[i].seq = i
  /\ (\A w \in Memory!Writers : ~Memory!Publishing(w)) => sequence = Len(events)
  /\ \A w \in Memory!Writers :
       /\ threads[w].at = "read" => sequence = Len(events) /\ threads[w].seq = sequence + 1
       /\ threads[w].at = "numbered" => sequence = Len(events) + 1 /\ threads[w].seq = sequence
       /\ threads[w].at \in {"appended", "closing"} => sequence = Len(events)
       /\ threads[w].at = "appended" =>
            /\ threads[w].seq = Len(events)
            /\ events[Len(events)] = [says |-> threads[w].says, seq |-> threads[w].seq]

(* How many of the events were fanned out.                                 *)
Fanned ==
  IF \E w \in Memory!Writers : threads[w].at = "appended" THEN Len(events) - 1 ELSE Len(events)

(* How far the client gets with what it was given to replay.               *)
Top ==
  IF generator.batch = <<>> THEN generator.position
  ELSE generator.batch[Len(generator.batch)].seq

(* e is among the events, at the place its number says.                    *)
IsRecorded(e) == e.seq \in 1..Len(events) /\ e = events[e.seq]

(* What there is to replay: a run of the events, from where the client is. *)
Replayed ==
  /\ \A i \in 1..Len(generator.batch) :
       /\ IsRecorded(generator.batch[i])
       /\ generator.batch[i].seq = generator.batch[1].seq + i - 1
  /\ generator.batch # <<>> =>
       generator.batch[1].seq <= generator.position + 1 /\ generator.position <= Top

(* The first n events tell that the job ended.                             *)
Ended(n) == \E k \in 1..Len(events) : k <= n /\ events[k].says = Memory!TheEnd

(* Of a job that ended, nothing is recorded but that it ended again.       *)
EndStays ==
  /\ \A i, k \in 1..Len(events) :
       i < k /\ events[i].says = Memory!TheEnd => events[k].says = Memory!TheEnd
  /\ Ended(Len(events)) => status = "terminal"
  /\ \A w \in Memory!Settlers :
       threads[w].at \in {"appended", "closing"} => Ended(Len(events))

(* The queue, as far as the first sentinel: the events fanned out last.    *)
Before(i) == \A k \in 1..(i - 1) : queue[k] # Memory!Sentinel
LinedUp ==
  /\ \A i \in 1..Len(queue) : Before(i) =>
       IF queue[i] = Memory!Sentinel
       THEN Ended(IF i = 1 THEN Len(events) ELSE queue[i - 1].seq)
       ELSE IsRecorded(queue[i]) /\ queue[i].seq = queue[1].seq + i - 1
  /\ queue # <<>> /\ Before(Len(queue) + 1) => queue[Len(queue)].seq = Fanned

(* Nothing is missing between it and what the client has.                  *)
Joined ==
  IF queue = <<>> THEN Fanned <= Top
  ELSE IF queue[1] = Memory!Sentinel THEN Ended(Top) ELSE queue[1].seq <= Top + 1

(* Which of them are in use where the generator is.                        *)
Staged ==
  /\ generator.at # "replaying" => generator.batch = <<>>
  /\ generator.at \in {"registered", "replaying"} => ~generator.whole
  /\ generator.at = "live" => generator.whole

(* Publishes took turns and the queue was never full.                      *)
Steady == ~raced /\ ~overflowed

LosesNothing ==
  /\ InTurn /\ EndStays /\ Whole
  /\ Memory!Listening => LinedUp
  /\ generator.at \in {"replaying", "live"} => Replayed /\ Joined
  /\ generator.at = "ended" /\ generator.whole => Ended(generator.position)

LocalInv == LocalTypes /\ Staged /\ (Steady => LosesNothing)

-----------------------------------------------------------------------------
LEMMA Staging == LocalTypes /\ Staged /\ [Memory!Next]_memoryVars => Staged'
<1> SUFFICES ASSUME LocalTypes, Staged, [Memory!Next]_memoryVars PROVE Staged'
  OBVIOUS
<1>1. CASE generator' = generator
  BY <1>1 DEF Staged
<1>2. CASE Memory!Register \/ Memory!Copy \/ Memory!LookAtStatus \/ Memory!Disconnect
  BY <1>2, StreamFields DEF Staged, LocalTypes, Memory!TypeOK, Memory!Stream,
     Memory!Register, Memory!Copy, Memory!LookAtStatus, Memory!Disconnect
<1>3. CASE Memory!Replay
  <2>1. /\ generator.at = "replaying" /\ generator.batch # <<>>
        /\ Memory!Deliver(Head(generator.batch), [generator EXCEPT !.batch = Tail(@)])
    BY <1>3 DEF Memory!Replay
  <2>2. generator'.at = generator.at /\ generator'.whole = generator.whole
    BY <2>1 DEF LocalTypes, Memory!TypeOK, Memory!Stream, Memory!Deliver
  <2> QED
    BY <2>1, <2>2 DEF Staged
<1>4. CASE Memory!Get
  <2>1. /\ generator.at = "live"
        /\ \/ generator' = [generator EXCEPT !.at = "ended"]
           \/ Memory!Deliver(Head(queue), generator)
    BY <1>4 DEF Memory!Get
  <2>2. /\ generator'.at \in {generator.at, "ended"} /\ generator'.whole = generator.whole
        /\ generator'.batch = generator.batch
    BY <2>1 DEF LocalTypes, Memory!TypeOK, Memory!Stream, Memory!Deliver
  <2> QED
    BY <2>1, <2>2 DEF Staged
<1> QED
  BY <1>1, <1>2, <1>3, <1>4 DEF Memory!Next, Memory!Publish, Memory!Subscribe, Memory!Report,
     Memory!Number, Memory!Record, Memory!FanOut, Memory!Settle, Memory!Look,
     Memory!MarkCancelled, Memory!Mark, Memory!Close, Memory!client, memoryVars

LEMMA FannedTyped ==
  ASSUME LocalTypes, InTurn
  PROVE  /\ Fanned \in Int /\ Fanned <= Len(events) /\ Len(events) \in Nat
         /\ (\A w \in Memory!Writers : threads[w].at # "appended") => Fanned = Len(events)
         /\ (\E w \in Memory!Writers : threads[w].at = "appended") => Fanned = Len(events) - 1
<1>1. Len(events) \in Nat
  BY DEF LocalTypes, Memory!TypeOK
<1> QED
  BY <1>1 DEF Fanned

(* What the first events tell, the others with them tell.                  *)
LEMMA EndedTyped ==
  ASSUME LocalTypes
  PROVE  /\ Len(events) \in Nat
         /\ \A n, m \in Int : Ended(n) /\ n <= m => Ended(m)
         /\ \A n \in Int : Ended(n) => Ended(Len(events))
<1>1. Len(events) \in Nat
  BY DEF LocalTypes, Memory!TypeOK
<1>2. ASSUME NEW n \in Int, NEW m \in Int, Ended(n), n <= m PROVE Ended(m)
  BY <1>1, <1>2 DEF Ended
<1>3. ASSUME NEW n \in Int, Ended(n) PROVE Ended(Len(events))
  BY <1>1, <1>3 DEF Ended
<1> QED
  BY <1>1, <1>2, <1>3

(* A step of a publish that leaves the client and its queue as they are.   *)
LEMMA ClientKept ==
  ASSUME LocalTypes, LosesNothing, UNCHANGED <<generator, received, queue>>,
         events' \in Seq(Memory!Event), Len(events') >= Len(events),
         \A i \in 1..Len(events) : events'[i] = events[i],
         Fanned' = Fanned, InTurn', EndStays'
  PROVE  LosesNothing'
<1>1. /\ Len(events) \in Nat /\ Len(events') \in Nat
      /\ generator.position \in Nat /\ generator.position <= Len(events)
  BY StreamFields DEF LocalTypes, Memory!TypeOK, LosesNothing, Whole
<1>2. Whole'
  BY <1>1 DEF LosesNothing, Whole
<1>3. \A e : IsRecorded(e) => IsRecorded(e)'
  BY <1>1 DEF IsRecorded
<1>4. \A n : Ended(n) => Ended(n)'
  BY <1>1 DEF Ended
<1>5. Ended(Len(events)) => Ended(Len(events))'
  BY <1>1 DEF Ended
<1>6. Memory!Listening' = Memory!Listening /\ Top' = Top /\ \A i : Before(i)' <=> Before(i)
  BY DEF Memory!Listening, Top, Before
<1>7. ASSUME LinedUp PROVE LinedUp'
  <2>1. ASSUME NEW i \in 1..Len(queue), Before(i)
        PROVE  IF queue[i] = Memory!Sentinel
               THEN Ended(IF i = 1 THEN Len(events) ELSE queue[i - 1].seq)'
               ELSE IsRecorded(queue[i])' /\ queue[i].seq = queue[1].seq + i - 1
    <3>1. CASE queue[i] = Memory!Sentinel /\ i = 1
      BY <1>5, <1>7, <2>1, <3>1 DEF LinedUp
    <3>2. CASE queue[i] = Memory!Sentinel /\ i # 1
      BY <1>4, <1>7, <2>1, <3>2 DEF LinedUp
    <3>3. CASE queue[i] # Memory!Sentinel
      BY <1>3, <1>7, <2>1, <3>3 DEF LinedUp
    <3> QED
      BY <3>1, <3>2, <3>3
  <2> QED
    BY <1>6, <1>7, <2>1 DEF LinedUp
<1>8. Memory!Listening => LinedUp'
  BY <1>7 DEF LosesNothing
<1>9. ASSUME Replayed, Joined PROVE Replayed' /\ Joined'
  BY <1>3, <1>4, <1>6, <1>9 DEF Replayed, Joined
<1>10. generator.at \in {"replaying", "live"} => Replayed' /\ Joined'
  BY <1>9 DEF LosesNothing
<1>11. generator.at = "ended" /\ generator.whole => Ended(generator.position)'
  BY <1>4 DEF LosesNothing
<1> QED
  BY <1>2, <1>6, <1>8, <1>10, <1>11 DEF LosesNothing

(* A publish begins, and while they take turns it finds none under way.    *)
LEMMA BeginInTurn ==
  ASSUME LocalTypes, LosesNothing, NEW w \in Memory!Writers, NEW says \in 0..LocalProgress,
         Memory!Begin(w, says), ~raced', status' = status \/ status' = "terminal",
         status' = "terminal" => w \in Memory!Settlers,
         UNCHANGED <<sequence, events, queue, generator, received>>
  PROVE  LosesNothing'
<1>1. /\ threads'[w].at = "read" /\ threads'[w].seq = sequence + 1
      /\ \A v \in Memory!Writers \ {w} : threads'[v] = threads[v]
  BY BeginTyped
<1>2. \A v \in Memory!Writers : ~Memory!Publishing(v)
  BY DEF Memory!Begin
<1>3. sequence = Len(events) /\ \A i \in 1..Len(events) : events[i].seq = i
  BY <1>2 DEF LosesNothing, InTurn
<1>4. \A v \in Memory!Writers \ {w} :
        threads'[v].at \in {"idle", "saw", "closed"} /\ ~Memory!Publishing(v)'
  BY <1>1, <1>2, WriterFields DEF Memory!Publishing
<1>5. InTurn'
  <2>1. \A v \in Memory!Writers : Memory!Publishing(v)' => v = w
    BY <1>4
  <2>2. Memory!Publishing(w)'
    BY <1>1 DEF Memory!Publishing
  <2>3. status' = "terminal" => \A c \in LocalCollectors : ~Memory!Publishing(c)'
    BY <1>4, WhoWrites
  <2>4. ASSUME NEW v \in Memory!Writers
        PROVE  /\ threads'[v].at \in {"read", "idle", "saw", "closed"}
               /\ threads'[v].at = "read" => threads'[v].seq = sequence + 1
    BY <1>1, <1>4
  <2> QED
    BY <1>3, <2>1, <2>2, <2>3, <2>4 DEF InTurn
<1>6. EndStays'
  <2>1. \A v \in Memory!Settlers : threads'[v].at \notin {"appended", "closing"}
    BY <1>1, <1>4, WhoWrites
  <2> QED
    BY <2>1 DEF LosesNothing, EndStays, Ended
<1>7. Fanned' = Fanned
  <2>1. \A v \in Memory!Writers : threads[v].at # "appended" /\ threads'[v].at # "appended"
    BY <1>1, <1>2, <1>4 DEF Memory!Publishing
  <2> QED
    BY <2>1 DEF Fanned
<1>8. events' \in Seq(Memory!Event) /\ Len(events) \in Nat
  BY DEF LocalTypes, Memory!TypeOK
<1> QED
  BY <1>5, <1>6, <1>7, <1>8, ClientKept

LEMMA ReportLoses ==
  ASSUME LocalTypes, LosesNothing, ~raced', NEW c \in LocalCollectors, Memory!Report(c)
  PROVE  LosesNothing'
<1>1. /\ status = "running" /\ status' = "running"
      /\ published < LocalProgress /\ Memory!Begin(c, published + 1)
      /\ UNCHANGED <<sequence, events, queue, generator, received>>
  BY DEF Memory!Report, Memory!client
<1>2. published + 1 \in 0..LocalProgress
  BY <1>1, JobFields
<1> QED
  BY <1>1, <1>2, WhoWrites, BeginInTurn

LEMMA SettleLoses ==
  ASSUME LocalTypes, LosesNothing, ~raced', Memory!Settle \/ Memory!MarkCancelled
  PROVE  LosesNothing'
<1>1. PICK w \in Memory!Settlers : Memory!Mark(w)
  BY WhoWrites DEF Memory!Settle, Memory!MarkCancelled
<1>2. /\ status' = "terminal" /\ Memory!Begin(w, Memory!TheEnd)
      /\ UNCHANGED <<sequence, events, queue, generator, received>>
  BY <1>1 DEF Memory!Mark, Memory!client
<1>3. Memory!TheEnd \in 0..LocalProgress
  BY JobFields DEF Memory!TheEnd
<1> QED
  BY <1>2, <1>3, WhoWrites, BeginInTurn

LEMMA LookLosesNothing ==
  ASSUME LocalTypes, LosesNothing, Memory!Look
  PROVE  LosesNothing'
<1>1. /\ threads' = [threads EXCEPT ![Callback].at = "saw"] /\ threads[Callback].at = "idle"
      /\ UNCHANGED <<status, sequence, events, published, raced, queue, generator, received>>
  BY DEF Memory!Look, Memory!client, Memory!Idle
<1>2. /\ threads'[Callback].at = "saw"
      /\ \A v \in Memory!Writers \ {Callback} : threads'[v] = threads[v]
  BY <1>1, WhoWrites DEF LocalTypes, Memory!TypeOK, Memory!Writer
<1>3. \A v \in Memory!Writers : Memory!Publishing(v)' <=> Memory!Publishing(v)
  BY <1>1, <1>2, WhoWrites DEF Memory!Publishing
<1>4. InTurn'
  BY <1>1, <1>2, <1>3, WhoWrites DEF LosesNothing, InTurn
<1>5. EndStays'
  BY <1>1, <1>2, WhoWrites DEF LosesNothing, EndStays, Ended
<1>6. Fanned' = Fanned
  BY <1>1, <1>2, WhoWrites DEF Fanned
<1>7. events' \in Seq(Memory!Event) /\ Len(events) \in Nat
  BY <1>1 DEF LocalTypes, Memory!TypeOK
<1> QED
  BY <1>1, <1>4, <1>5, <1>6, <1>7, ClientKept

LEMMA NumberLoses ==
  ASSUME LocalTypes, LosesNothing, NEW w \in Memory!Writers, Memory!Number(w)
  PROVE  LosesNothing'
<1>1. /\ threads[w].at = "read" /\ sequence' = threads[w].seq
      /\ threads' = [threads EXCEPT ![w].at = "numbered"]
      /\ UNCHANGED <<raced, status, events, published, queue, generator, received>>
  BY DEF Memory!Number, Memory!client
<1>2. /\ threads'[w].at = "numbered" /\ threads'[w].seq = threads[w].seq
      /\ \A v \in Memory!Writers \ {w} : threads'[v] = threads[v]
  BY <1>1, AdvanceTyped
<1>3. Memory!Publishing(w) /\ Memory!Publishing(w)' /\ \A v \in Memory!Writers \ {w} : ~Memory!Publishing(v) /\ ~Memory!Publishing(v)'
  BY <1>1, <1>2 DEF LosesNothing, InTurn, Memory!Publishing
<1>4. sequence' = Len(events) + 1
  BY <1>1 DEF LosesNothing, InTurn
<1>5. InTurn'
  <2>1. status' = "terminal" => \A c \in LocalCollectors : ~Memory!Publishing(c)'
    BY <1>1, <1>2, <1>3, StreamsAssumption DEF LosesNothing, InTurn, Memory!Writers, Memory!MemoryAssumption
  <2>2. ASSUME NEW v \in Memory!Writers
        PROVE  /\ threads'[v].at \in {"numbered", "idle", "saw", "closed"}
               /\ threads'[v].at = "numbered" => threads'[v].seq = sequence'
    BY <1>1, <1>2, <1>3, WriterFields DEF Memory!Publishing
  <2> QED
    BY <1>1, <1>3, <1>4, <2>1, <2>2 DEF InTurn, LosesNothing
<1>6. Fanned' = Fanned
  <2>1. \A v \in Memory!Writers : threads[v].at # "appended" /\ threads'[v].at # "appended"
    BY <1>1, <1>2, <1>3 DEF Memory!Publishing
  <2> QED
    BY <1>1, <2>1 DEF Fanned
<1>7. EndStays'
  BY <1>1, <1>2, WhoWrites DEF LosesNothing, EndStays, Ended
<1>8. events' \in Seq(Memory!Event) /\ Len(events) \in Nat
  BY <1>1 DEF LocalTypes, Memory!TypeOK
<1> QED
  BY <1>1, <1>5, <1>6, <1>7, <1>8, ClientKept

LEMMA RecordLoses ==
  ASSUME LocalTypes, LosesNothing, NEW w \in Memory!Writers, Memory!Record(w)
  PROVE  LosesNothing'
<1> DEFINE e == [says |-> threads[w].says, seq |-> threads[w].seq]
<1>1. /\ threads[w].at = "numbered" /\ events' = Append(events, e)
      /\ threads' = [threads EXCEPT ![w].at = "appended"]
      /\ UNCHANGED <<raced, status, sequence, published, queue, generator, received>>
  BY DEF Memory!Record, Memory!client
<1>2. /\ threads'[w].at = "appended" /\ threads'[w].seq = threads[w].seq
      /\ threads'[w].says = threads[w].says
      /\ \A v \in Memory!Writers \ {w} : threads'[v] = threads[v]
  BY <1>1, AdvanceTyped
<1>3. Memory!Publishing(w) /\ Memory!Publishing(w)' /\ \A v \in Memory!Writers \ {w} : ~Memory!Publishing(v) /\ ~Memory!Publishing(v)'
  BY <1>1, <1>2 DEF LosesNothing, InTurn, Memory!Publishing
<1>4. sequence = Len(events) + 1 /\ threads[w].seq = Len(events) + 1
  BY <1>1 DEF LosesNothing, InTurn
<1>5. e \in Memory!Event /\ e.seq = threads[w].seq
  BY <1>1, EventTyped
<1> HIDE DEF e
<1>6. /\ events \in Seq(Memory!Event) /\ Len(events) \in Nat
      /\ events' \in Seq(Memory!Event) /\ Len(events') = Len(events) + 1
      /\ \A i \in 1..Len(events) : events'[i] = events[i]
      /\ events'[Len(events) + 1] = e
  BY <1>1, <1>5 DEF LocalTypes, Memory!TypeOK
<1>7. \A i \in 1..Len(events') : events'[i].seq = i
  BY <1>4, <1>5, <1>6 DEF LosesNothing, InTurn
<1>8. InTurn'
  <2>1. status' = "terminal" => \A c \in LocalCollectors : ~Memory!Publishing(c)'
    BY <1>1, <1>2, <1>3, StreamsAssumption DEF LosesNothing, InTurn, Memory!Writers, Memory!MemoryAssumption
  <2>2. ASSUME NEW v \in Memory!Writers
        PROVE  /\ threads'[v].at \in {"appended", "idle", "saw", "closed"}
               /\ threads'[v].at = "appended" => v = w
    BY <1>1, <1>2, <1>3, WriterFields DEF Memory!Publishing
  <2>3. /\ threads'[w].seq = Len(events')
        /\ events'[Len(events')] = [says |-> threads'[w].says, seq |-> threads'[w].seq]
    BY <1>2, <1>4, <1>6 DEF e
  <2>4. sequence' = Len(events')
    BY <1>1, <1>4, <1>6
  <2> QED
    BY <1>3, <1>7, <2>1, <2>2, <2>3, <2>4 DEF InTurn
<1>9. Fanned' = Fanned
  <2>1. \A v \in Memory!Writers : threads[v].at # "appended"
    BY <1>1, <1>3 DEF Memory!Publishing
  <2>2. Fanned = Len(events)
    BY <2>1 DEF Fanned
  <2>3. Fanned' = Len(events') - 1
    BY <1>2 DEF Fanned
  <2> QED
    BY <1>6, <2>2, <2>3
<1>10. EndStays'
  <2>1. CASE w \in Memory!Settlers
    <3>1. e.says = Memory!TheEnd /\ status' = "terminal"
      <4>1. threads[w].says = Memory!TheEnd /\ status # "running"
        BY <1>1, <2>1, WhoWrites DEF LocalTypes, Taken
      <4> QED
        BY <1>1, <4>1, JobFields DEF e
    <3>2. Ended(Len(events))'
      <4>1. Len(events') \in 1..Len(events') /\ events'[Len(events')].says = Memory!TheEnd
        BY <1>6, <3>1
      <4> QED
        BY <1>6, <4>1 DEF Ended
    <3>3. \A i, k \in 1..Len(events') :
            i < k /\ events'[i].says = Memory!TheEnd => events'[k].says = Memory!TheEnd
      BY <1>6, <3>1 DEF LosesNothing, EndStays
    <3> QED
      BY <3>1, <3>2, <3>3 DEF EndStays
  <2>2. CASE w \notin Memory!Settlers
    <3>1. status # "terminal"
      BY <1>3, <2>2, WhoWrites DEF LosesNothing, InTurn
    <3>2. ~Ended(Len(events))
      BY <3>1 DEF LosesNothing, EndStays
    <3>3. \A i \in 1..Len(events) : events'[i].says # Memory!TheEnd
      BY <1>6, <3>2 DEF Ended
    <3>4. e.says # Memory!TheEnd
      BY <1>1, <2>2, WhoWrites DEF LocalTypes, Taken, e
    <3>5. ~Ended(Len(events))'
      BY <1>6, <3>3, <3>4 DEF Ended
    <3>6. \A v \in Memory!Settlers : threads'[v].at \notin {"appended", "closing"}
      BY <1>2, <1>3, <2>2, WhoWrites DEF Memory!Publishing
    <3>7. \A i \in 1..Len(events') : events'[i].says # Memory!TheEnd
      BY <1>6, <3>3, <3>4
    <3> QED
      BY <3>5, <3>6, <3>7 DEF EndStays
  <2> QED
    BY <2>1, <2>2
<1> QED
  BY <1>1, <1>6, <1>8, <1>9, <1>10, ClientKept

LEMMA TopTyped == LocalTypes => Top \in Nat
<1> SUFFICES ASSUME LocalTypes PROVE Top \in Nat
  OBVIOUS
<1>1. CASE generator.batch = <<>>
  BY <1>1, StreamFields, JobFields DEF Top
<1>2. CASE generator.batch # <<>>
  <2>1. generator.batch[Len(generator.batch)] \in Memory!Event
    BY <1>2, StreamFields
  <2> QED
    BY <1>2, <2>1, JobFields DEF Top, Memory!Event
<1> QED
  BY <1>1, <1>2

(* What is put into the queue next to the last event is joined to it.      *)
LEMMA PutJoins ==
  ASSUME LocalTypes, LosesNothing, NEW item, Memory!Put(item), ~overflowed',
         item \in Memory!Event \cup {Memory!Sentinel},
         UNCHANGED <<events, generator, received>>, InTurn', EndStays',
         \/ item # Memory!Sentinel /\ IsRecorded(item) /\ item.seq = Fanned + 1 /\ Fanned' = Fanned + 1
         \/ /\ item = Memory!Sentinel /\ Fanned' = Fanned /\ Fanned = Len(events)
            /\ Ended(Len(events))
  PROVE  LosesNothing'
<1>1. /\ queue \in Seq(Memory!Event \cup {Memory!Sentinel}) /\ Len(queue) \in Nat
      /\ events \in Seq(Memory!Event) /\ Len(events) \in Nat
  BY DEF LocalTypes, Memory!TypeOK
<1>2. Fanned \in Int
  BY FannedTyped DEF LosesNothing
<1>3. Whole' /\ Top' = Top /\ Memory!Listening' = Memory!Listening
  BY DEF LosesNothing, Whole, Top, Memory!Listening
<1>4. /\ \A e : IsRecorded(e)' <=> IsRecorded(e)
      /\ \A n : Ended(n)' <=> Ended(n)
  BY DEF IsRecorded, Ended
<1>5. generator.at = "ended" /\ generator.whole => Ended(generator.position)'
  BY <1>4 DEF LosesNothing
<1>6. generator.at \in {"replaying", "live"} => Replayed'
  BY <1>3, <1>4 DEF LosesNothing, Replayed
<1>7. CASE Memory!Listening
  <2>1. queue' = Append(queue, item)
    BY <1>1, <1>7 DEF Memory!Put
  <2>2. /\ Len(queue') = Len(queue) + 1 /\ queue'[Len(queue) + 1] = item
        /\ \A i \in 1..Len(queue) : queue'[i] = queue[i]
        /\ queue' # <<>> /\ Len(queue) + 1 \in 1..Len(queue')
        /\ \A i \in 1..Len(queue') : i \in 1..Len(queue) \/ i = Len(queue) + 1
    BY <1>1, <2>1
  <2>3. LinedUp
    BY <1>7 DEF LosesNothing
  <2>4. \A i \in 1..(Len(queue) + 1) : Before(i)' => Before(i)
    BY <1>1, <2>2 DEF Before
  <2>5. ASSUME NEW i \in 1..Len(queue'), Before(i)'
        PROVE  IF queue'[i] = Memory!Sentinel
               THEN Ended(IF i = 1 THEN Len(events) ELSE queue'[i - 1].seq)
               ELSE IsRecorded(queue'[i]) /\ queue'[i].seq = queue'[1].seq + i - 1
    <3>1. CASE i \in 1..Len(queue)
      <4>1. Before(i)
        BY <2>2, <2>4, <2>5
      <4>2. queue'[i] = queue[i] /\ queue'[1] = queue[1] /\ (i # 1 => queue'[i - 1] = queue[i - 1])
        BY <1>1, <2>2, <3>1
      <4> QED
        BY <2>3, <3>1, <4>1, <4>2 DEF LinedUp
    <3>2. CASE i = Len(queue) + 1
      <4>1. Before(Len(queue) + 1) /\ queue'[i] = item
        BY <2>2, <2>4, <2>5, <3>2
      <4>2. CASE queue = <<>>
        <5>1. i = 1 /\ queue'[1] = item
          BY <2>2, <3>2, <4>2
        <5>2. CASE item = Memory!Sentinel
          BY <4>1, <5>1, <5>2
        <5>3. CASE item # Memory!Sentinel
          <6>1. IsRecorded(item) /\ item.seq \in Int
            BY <1>2, <5>3
          <6> QED
            BY <5>1, <5>3, <6>1
        <5> QED
          BY <5>2, <5>3
      <4>3. CASE queue # <<>>
        <5>1. Len(queue) \in 1..Len(queue) /\ 1 \in 1..Len(queue) /\ Len(queue) # 0
          BY <1>1, <4>3
        <5>2. queue[Len(queue)].seq = Fanned
          BY <2>3, <4>1, <4>3 DEF LinedUp
        <5>3. queue[Len(queue)] # Memory!Sentinel /\ Before(Len(queue))
          BY <1>1, <4>1, <5>1 DEF Before
        <5>4. queue[Len(queue)].seq = queue[1].seq + Len(queue) - 1
          BY <2>3, <5>1, <5>3 DEF LinedUp
        <5>5. i # 1 /\ i - 1 = Len(queue) /\ queue'[i - 1] = queue[Len(queue)] /\ queue'[1] = queue[1]
          BY <1>1, <2>2, <3>2, <5>1
        <5>6. queue[1] # Memory!Sentinel
          BY <1>1, <4>1, <5>1 DEF Before
        <5>7. queue[1].seq \in Int
          BY <1>1, <5>1, <5>6 DEF Memory!Event
        <5>8. CASE item = Memory!Sentinel
          <6>1. Ended(queue'[i - 1].seq)
            BY <5>2, <5>5, <5>8
          <6> QED
            BY <4>1, <5>5, <5>8, <6>1
        <5>9. CASE item # Memory!Sentinel
          <6>1. IsRecorded(item) /\ item.seq = Fanned + 1
            BY <5>9
          <6>2. queue[1].seq + Len(queue) - 1 = Fanned
            BY <5>2, <5>4
          <6>3. item.seq = queue[1].seq + (Len(queue) + 1) - 1
            BY <1>1, <1>2, <5>7, <6>1, <6>2
          <6>4. item.seq = queue'[1].seq + i - 1
            BY <3>2, <5>5, <6>3
          <6> QED
            BY <4>1, <5>9, <6>1, <6>4
        <5> QED
          BY <5>8, <5>9
      <4> QED
        BY <4>2, <4>3
    <3> QED
      BY <2>2, <3>1, <3>2
  <2>6. Before(Len(queue) + 1)' => queue'[Len(queue')].seq = Fanned'
    <3>1. SUFFICES ASSUME Before(Len(queue) + 1)' PROVE item.seq = Fanned'
      BY <2>2
    <3>2. queue'[Len(queue')] # Memory!Sentinel
      BY <1>1, <2>2, <3>1 DEF Before
    <3> QED
      BY <2>2, <3>2
  <2>7. LinedUp'
    BY <1>4, <2>5, <2>6 DEF LinedUp
  <2>8. generator.at \in {"replaying", "live"} => Joined'
    <3>1. SUFFICES ASSUME Joined PROVE Joined'
      BY DEF LosesNothing
    <3>2. CASE queue = <<>>
      <4>1. Fanned <= Top /\ queue'[1] = item /\ Top \in Nat
        BY <2>2, <3>1, <3>2, TopTyped DEF Joined
      <4>2. CASE item = Memory!Sentinel
        <5>1. Ended(Top)
          BY <1>1, <4>1, <4>2, EndedTyped
        <5> QED
          BY <1>3, <1>4, <2>2, <4>1, <4>2, <5>1 DEF Joined
      <4>3. CASE item # Memory!Sentinel
        <5>1. item.seq <= Top + 1
          BY <1>2, <4>1, <4>3
        <5> QED
          BY <1>3, <2>2, <4>1, <4>3, <5>1 DEF Joined
      <4> QED
        BY <4>2, <4>3
    <3>3. CASE queue # <<>>
      <4>1. queue'[1] = queue[1]
        BY <1>1, <2>2, <3>3
      <4> QED
        BY <1>3, <1>4, <2>2, <3>1, <3>3, <4>1 DEF Joined
    <3> QED
      BY <3>2, <3>3
  <2> QED
    BY <1>3, <1>5, <1>6, <2>7, <2>8 DEF LosesNothing
<1>8. CASE ~Memory!Listening
  <2>1. generator.at \notin {"replaying", "live"}
    BY <1>8 DEF Memory!Listening
  <2> QED
    BY <1>3, <1>5, <1>8, <2>1 DEF LosesNothing
<1> QED
  BY <1>7, <1>8

LEMMA FanOutLoses ==
  ASSUME LocalTypes, LosesNothing, ~overflowed', NEW w \in Memory!Writers, Memory!FanOut(w)
  PROVE  LosesNothing'
<1> DEFINE e == [says |-> threads[w].says, seq |-> threads[w].seq]
<1>1. /\ threads[w].at = "appended" /\ Memory!Put(e)
      /\ threads' = [threads EXCEPT ![w] =
           IF w \in Memory!Settlers THEN [@ EXCEPT !.at = "closing"] ELSE Memory!Idle]
      /\ UNCHANGED <<raced, status, sequence, events, published, generator, received>>
  BY DEF Memory!FanOut, Memory!client
<1>2. /\ threads'[w].at = IF w \in Memory!Settlers THEN "closing" ELSE "idle"
      /\ \A v \in Memory!Writers \ {w} : threads'[v] = threads[v]
  BY <1>1, WriterFields DEF LocalTypes, Memory!TypeOK, Memory!Writer, Memory!Idle
<1>3. Memory!Publishing(w) /\ \A v \in Memory!Writers \ {w} : ~Memory!Publishing(v) /\ ~Memory!Publishing(v)'
  BY <1>1, <1>2 DEF LosesNothing, InTurn, Memory!Publishing
<1>4. EndStays'
  BY <1>1, <1>2, WhoWrites DEF LosesNothing, EndStays, Ended
<1>5. sequence = Len(events) /\ threads[w].seq = Len(events) /\ events[Len(events)] = e
  BY <1>1 DEF LosesNothing, InTurn
<1>6. e \in Memory!Event /\ e.seq = threads[w].seq /\ e # Memory!Sentinel
  <2>1. e \in Memory!Event /\ e.seq = threads[w].seq
    BY <1>1, EventTyped
  <2>2. e.seq >= 1
    BY <2>1, JobFields DEF Memory!Event
  <2> QED
    BY <2>1, <2>2 DEF Memory!Sentinel
<1> HIDE DEF e
<1>7. IsRecorded(e)
  BY <1>5, <1>6, JobFields DEF IsRecorded, Memory!Event
<1>8. InTurn'
  <2>1. status' = "terminal" => \A c \in LocalCollectors : ~Memory!Publishing(c)'
    BY <1>1, <1>2, <1>3, StreamsAssumption DEF LosesNothing, InTurn, Memory!Writers, Memory!MemoryAssumption
  <2>2. ASSUME NEW v \in Memory!Writers
        PROVE  threads'[v].at \in {"closing", "idle", "saw", "closed"} /\ (Memory!Publishing(v)' => v = w)
    BY <1>2, <1>3, WriterFields DEF Memory!Publishing
  <2> QED
    BY <1>1, <1>5, <2>1, <2>2 DEF InTurn, LosesNothing
<1>9. Fanned' = Fanned + 1 /\ e.seq = Fanned + 1
  <2>1. \A v \in Memory!Writers : threads'[v].at # "appended"
    BY <1>2, <1>3 DEF Memory!Publishing
  <2>2. Fanned' = Len(events)
    BY <1>1, <2>1 DEF Fanned
  <2>3. Fanned = Len(events) - 1
    BY <1>1 DEF Fanned
  <2>4. Len(events) \in Nat
    BY DEF LocalTypes, Memory!TypeOK
  <2> QED
    BY <1>5, <1>6, <2>2, <2>3, <2>4
<1> QED
  BY <1>1, <1>4, <1>6, <1>7, <1>8, <1>9, PutJoins

LEMMA CloseLoses ==
  ASSUME LocalTypes, LosesNothing, ~overflowed', NEW w \in Memory!Settlers, Memory!Close(w)
  PROVE  LosesNothing'
<1>1. /\ threads[w].at = "closing" /\ Memory!Put(Memory!Sentinel)
      /\ threads' = [threads EXCEPT ![w].at = "closed"]
      /\ UNCHANGED <<raced, status, sequence, events, published, generator, received>>
  BY DEF Memory!Close, Memory!client
<1>2. w \in Memory!Writers
  BY WhoWrites
<1>3. /\ threads'[w].at = "closed"
      /\ \A v \in Memory!Writers \ {w} : threads'[v] = threads[v]
  BY <1>1, <1>2, AdvanceTyped
<1>4. Memory!Publishing(w)
      /\ \A v \in Memory!Writers \ {w} : ~Memory!Publishing(v) /\ ~Memory!Publishing(v)'
  BY <1>1, <1>2, <1>3 DEF LosesNothing, InTurn, Memory!Publishing
<1>5. Ended(Len(events))
  BY <1>1 DEF LosesNothing, EndStays
<1>6. sequence = Len(events)
  BY <1>1, <1>2 DEF LosesNothing, InTurn
<1>7. InTurn'
  <2>1. status' = "terminal" => \A c \in LocalCollectors : ~Memory!Publishing(c)'
    BY <1>4, WhoWrites
  <2>2. ASSUME NEW v \in Memory!Writers
        PROVE  threads'[v].at \in {"idle", "saw", "closed"} /\ ~Memory!Publishing(v)'
    BY <1>3, <1>4, WriterFields DEF Memory!Publishing
  <2> QED
    BY <1>1, <1>6, <2>1, <2>2 DEF InTurn, LosesNothing
<1>8. \A v \in Memory!Writers : threads[v].at # "appended" /\ threads'[v].at # "appended"
  BY <1>1, <1>3, <1>4 DEF Memory!Publishing
<1>9. Fanned' = Fanned /\ Fanned = Len(events)
  BY <1>1, <1>8 DEF Fanned
<1>10. EndStays'
  BY <1>1, <1>3, <1>5, WhoWrites DEF LosesNothing, EndStays, Ended
<1> QED
  BY <1>1, <1>5, <1>7, <1>9, <1>10, PutJoins

-----------------------------------------------------------------------------
(* Whatever the client does, the publishes and their table are as before.  *)
LEMMA TableKept ==
  ASSUME LosesNothing, UNCHANGED <<status, sequence, events, threads>>
  PROVE  /\ InTurn' /\ EndStays' /\ Fanned' = Fanned
         /\ \A e : IsRecorded(e)' <=> IsRecorded(e)
         /\ \A n : Ended(n)' <=> Ended(n)
<1>1. InTurn'
  BY DEF LosesNothing, InTurn, Memory!Publishing
<1>2. EndStays'
  BY DEF LosesNothing, EndStays, Ended
<1> QED
  BY <1>1, <1>2 DEF Fanned, IsRecorded, Ended

LEMMA QueueKept ==
  ASSUME LosesNothing, LinedUp, UNCHANGED <<status, sequence, events, threads, queue>>
  PROVE  LinedUp'
BY TableKept DEF LinedUp, Before

LEMMA OpenedLoses ==
  ASSUME LocalTypes, Staged, LosesNothing, Memory!Register \/ Memory!Disconnect
  PROVE  LosesNothing'
<1>1. /\ UNCHANGED <<status, sequence, events, published, threads, raced, received>>
      /\ queue' = <<>>
  BY DEF Memory!Register, Memory!Disconnect, Memory!job
<1>2. generator'.at \in {"registered", "off"} /\ generator'.position = generator.position
  BY DEF Memory!Register, Memory!Disconnect, LocalTypes, Memory!TypeOK, Memory!Stream
<1>3. LinedUp'
  BY <1>1 DEF LinedUp
<1>4. Whole'
  BY <1>1, <1>2 DEF LosesNothing, Whole
<1> QED
  BY <1>1, <1>2, <1>3, <1>4, TableKept DEF LosesNothing

LEMMA CopyLoses ==
  ASSUME LocalTypes, LosesNothing, Memory!Copy
  PROVE  LosesNothing'
<1>1. /\ UNCHANGED <<status, sequence, events, published, threads, raced, received, queue>>
      /\ generator.at = "registered"
      /\ generator' = [generator EXCEPT !.at = "replaying", !.batch = events]
  BY DEF Memory!Copy, Memory!job
<1>2. /\ generator'.at = "replaying" /\ generator'.position = generator.position
      /\ generator'.batch = events
  BY <1>1 DEF LocalTypes, Memory!TypeOK, Memory!Stream
<1>3. /\ Len(events) \in Nat /\ generator.position \in Nat /\ generator.position <= Len(events)
      /\ \A i \in 1..Len(events) : events[i].seq = i
      /\ events = <<>> <=> Len(events) = 0
  BY StreamFields, JobFields DEF LocalTypes, Memory!TypeOK, LosesNothing, InTurn, Whole
<1>4. Top' >= Len(events) /\ Top' \in Nat /\ generator.position <= Top'
  <2>1. CASE events = <<>>
    BY <1>2, <1>3, <2>1 DEF Top
  <2>2. CASE events # <<>>
    BY <1>2, <1>3, <2>2 DEF Top
  <2> QED
    BY <2>1, <2>2
<1>5. Replayed'
  <2>1. ASSUME NEW i \in 1..Len(events)
        PROVE  IsRecorded(events[i]) /\ events[i].seq = events[1].seq + i - 1
    <3>1. 1 \in 1..Len(events)
      BY <1>3
    <3> QED
      BY <1>3, <3>1 DEF IsRecorded
  <2>2. events # <<>> => events[1].seq <= generator.position + 1
    BY <1>3
  <2>3. \A e : IsRecorded(e)' <=> IsRecorded(e)
    BY <1>1, TableKept
  <2> QED
    BY <1>2, <1>4, <2>1, <2>2, <2>3 DEF Replayed
<1>6. LinedUp /\ LinedUp'
  BY <1>1, QueueKept DEF LosesNothing, Memory!Listening
<1>7. Joined'
  <2>1. Fanned <= Len(events) /\ Fanned \in Int
    BY FannedTyped DEF LosesNothing
  <2>2. Fanned <= Top'
    BY <1>3, <1>4, <2>1
  <2>3. ASSUME queue # <<>>
        PROVE  IF queue[1] = Memory!Sentinel THEN Ended(Top') ELSE queue[1].seq <= Top' + 1
    <3>1. 1 \in 1..Len(queue) /\ Before(1)
      BY <2>3 DEF LocalTypes, Memory!TypeOK, Before
    <3>2. CASE queue[1] = Memory!Sentinel
      <4>1. Ended(Len(events))
        BY <1>6, <3>1, <3>2 DEF LinedUp
      <4> QED
        BY <1>3, <1>4, <3>2, <4>1, EndedTyped
    <3>3. CASE queue[1] # Memory!Sentinel
      <4>1. IsRecorded(queue[1])
        BY <1>6, <3>1, <3>3 DEF LinedUp
      <4> QED
        BY <1>3, <1>4, <3>3, <4>1 DEF IsRecorded
    <3> QED
      BY <3>2, <3>3
  <2> QED
    BY <1>1, <2>2, <2>3, TableKept DEF Joined
<1>8. Whole'
  BY <1>1, <1>2 DEF LosesNothing, Whole
<1> QED
  BY <1>1, <1>2, <1>5, <1>6, <1>7, <1>8, TableKept DEF LosesNothing

LEMMA LookLoses ==
  ASSUME LocalTypes, Staged, LosesNothing, Memory!LookAtStatus
  PROVE  LosesNothing'
<1>1. /\ UNCHANGED <<status, sequence, events, published, threads, raced, received, queue>>
      /\ generator.at = "replaying" /\ generator.batch = <<>>
      /\ \/ generator' = [generator EXCEPT !.at = "ended"]
         \/ generator' = [generator EXCEPT !.at = "live", !.whole = TRUE]
  BY DEF Memory!LookAtStatus, Memory!job
<1>2. /\ generator'.position = generator.position /\ generator'.batch = generator.batch
      /\ generator'.at \in {"ended", "live"}
      /\ generator'.at = "ended" => generator'.whole = generator.whole
  BY <1>1 DEF LocalTypes, Memory!TypeOK, Memory!Stream
<1>3. ~generator.whole
  BY <1>1 DEF Staged
<1>4. Whole' /\ Top' = Top
  BY <1>1, <1>2 DEF LosesNothing, Whole, Top
<1>5. LinedUp /\ Replayed /\ Joined
  BY <1>1 DEF LosesNothing, Memory!Listening
<1>6. LinedUp' /\ Replayed' /\ Joined'
  BY <1>1, <1>2, <1>4, <1>5, TableKept, QueueKept DEF Replayed, Joined
<1> QED
  BY <1>1, <1>2, <1>3, <1>4, <1>6, TableKept DEF LosesNothing

(* The next event, or one the client has, keeps what it got whole.         *)
LEMMA DeliverKeepsWhole ==
  ASSUME LocalTypes, LosesNothing, NEW e \in Memory!Event, NEW next \in Memory!Stream,
         next.position = generator.position, Memory!Deliver(e, next), events' = events,
         IsRecorded(e), e.seq <= generator.position + 1
  PROVE  /\ Whole' /\ generator'.position \in Nat /\ e.seq \in Nat
         /\ generator'.position = IF e.seq > generator.position THEN e.seq ELSE generator.position
         /\ e.seq <= generator'.position /\ generator.position <= generator'.position
<1>1. /\ generator.position \in Nat /\ e.seq \in Nat /\ Len(events) \in Nat
      /\ e.seq <= Len(events) /\ e = events[e.seq] /\ generator.position <= Len(events)
      /\ received \in Seq(Memory!Event)
  <2>1. events \in Seq(Memory!Event) /\ received \in Seq(Memory!Event)
    BY DEF LocalTypes, Memory!TypeOK
  <2>2. generator.position \in Nat
    BY StreamFields, JobFields
  <2>3. Len(events) \in Nat
    BY <2>1
  <2>4. e.seq \in 1..Len(events) /\ e = events[e.seq]
    BY DEF IsRecorded
  <2>5. e.seq \in Nat /\ e.seq <= Len(events)
    BY <2>3, <2>4
  <2>6. generator.position <= Len(events)
    BY DEF LosesNothing, Whole
  <2> QED
    BY <2>1, <2>2, <2>3, <2>4, <2>5, <2>6
<1>2. CASE e.seq > generator.position
  <2>1. generator' = [next EXCEPT !.position = e.seq] /\ received' = Append(received, e)
    BY <1>2 DEF Memory!Deliver, Memory!Accepts
  <2>2. generator'.position = e.seq /\ e.seq = generator.position + 1
    BY <1>1, <1>2, <2>1 DEF Memory!Stream
  <2>3. /\ Len(received') = Len(received) + 1 /\ Len(received) \in Nat
        /\ \A i \in 1..Len(received) : received'[i] = received[i]
        /\ received'[Len(received) + 1] = e
    BY <1>1, <2>1
  <2>4. ASSUME NEW i \in 1..Len(events), i <= generator'.position
        PROVE  \E k \in 1..Len(received') : received'[k] = events[i]
    <3>1. CASE i = e.seq
      <4>1. Len(received) + 1 \in 1..Len(received')
        BY <2>3
      <4> QED
        BY <1>1, <2>3, <3>1, <4>1
    <3>2. CASE i # e.seq
      <4>1. i <= generator.position
        BY <1>1, <2>2, <2>4, <3>2
      <4>2. PICK k \in 1..Len(received) : received[k] = events[i]
        BY <4>1 DEF LosesNothing, Whole
      <4>3. k \in 1..Len(received') /\ received'[k] = events[i]
        BY <2>3, <4>2
      <4> QED
        BY <4>3
    <3> QED
      BY <3>1, <3>2
  <2> QED
    BY <1>1, <1>2, <2>2, <2>4 DEF Whole
<1>3. CASE ~(e.seq > generator.position)
  <2>1. generator' = next /\ received' = received
    BY <1>3 DEF Memory!Deliver, Memory!Accepts
  <2> QED
    BY <1>1, <1>3, <2>1 DEF LosesNothing, Whole
<1> QED
  BY <1>2, <1>3

LEMMA ReplayLoses ==
  ASSUME LocalTypes, LosesNothing, Memory!Replay
  PROVE  LosesNothing'
<1> DEFINE batch == generator.batch
           rest == Tail(batch)
           e == Head(batch)
           next == [generator EXCEPT !.batch = rest]
           n == Len(batch)
<1>1. /\ UNCHANGED <<status, sequence, events, published, threads, raced, queue>>
      /\ generator.at = "replaying" /\ batch # <<>> /\ Memory!Deliver(e, next)
  BY DEF Memory!Replay, Memory!job
<1>2. /\ e \in Memory!Event /\ e = batch[1] /\ rest \in Seq(Memory!Event)
      /\ n >= 1 /\ Len(rest) = n - 1 /\ n \in Nat
      /\ \A i \in 1..(n - 1) : rest[i] = batch[i + 1]
  BY <1>1, HeadTyped, StreamFields
<1>3. next \in Memory!Stream /\ next.position = generator.position /\ next.at = generator.at
      /\ next.batch = rest
  BY <1>2 DEF LocalTypes, Memory!TypeOK, Memory!Stream
<1>4. Replayed /\ Joined /\ LinedUp
  BY <1>1 DEF LosesNothing, Memory!Listening
<1>5. IsRecorded(e) /\ e.seq <= generator.position + 1
  BY <1>1, <1>2, <1>4 DEF Replayed
<1>6. generator'.at = "replaying" /\ generator'.batch = rest
  BY <1>1, <1>2, <1>3, DeliverTyped
<1>7. /\ Whole' /\ generator'.position \in Nat /\ e.seq \in Nat
      /\ generator'.position = IF e.seq > generator.position THEN e.seq ELSE generator.position
      /\ e.seq <= generator'.position
  BY <1>1, <1>2, <1>3, <1>5, DeliverKeepsWhole
<1>8. generator.position \in Nat /\ generator.position <= Top
  BY <1>1, <1>4, StreamFields, JobFields DEF Replayed
<1>9. \A i \in 1..n : IsRecorded(batch[i]) /\ batch[i].seq = e.seq + i - 1
  BY <1>2, <1>4 DEF Replayed
<1>10. Top = batch[n].seq
  BY <1>1 DEF Top
<1>11. Top' = IF rest = <<>> THEN generator'.position ELSE rest[Len(rest)].seq
  BY <1>6 DEF Top
<1> HIDE DEF e, next, batch, rest, n
<1>12. Top = e.seq + n - 1
  <2>1. n \in 1..n
    BY <1>2
  <2> QED
    BY <1>9, <1>10, <2>1
<1>13. rest = <<>> <=> n = 1
  BY <1>2
<1>14. Top' = Top /\ generator'.position <= Top
  <2>1. CASE n = 1
    <3>1. Top = e.seq /\ Top' = generator'.position
      BY <1>7, <1>11, <1>12, <1>13, <2>1
    <3>2. generator'.position = e.seq
      BY <1>7, <1>8, <3>1
    <3> QED
      BY <1>7, <3>1, <3>2
  <2>2. CASE n # 1
    <3>1. n - 1 \in 1..(n - 1) /\ n \in 1..n
      BY <1>2, <2>2
    <3>2. rest[n - 1] = batch[(n - 1) + 1] /\ rest # <<>>
      BY <1>2, <1>13, <2>2, <3>1
    <3>3. (n - 1) + 1 = n
      BY <1>2
    <3>4. Top' = batch[n].seq
      BY <1>2, <1>11, <3>2, <3>3
    <3>5. Top' = Top
      BY <1>10, <3>4
    <3>6. e.seq <= Top /\ generator.position <= Top
      BY <1>2, <1>7, <1>8, <1>12
    <3> QED
      BY <1>7, <3>5, <3>6
  <2> QED
    BY <2>1, <2>2
<1>15. Replayed'
  <2>1. ASSUME NEW i \in 1..(n - 1)
        PROVE  IsRecorded(rest[i]) /\ rest[i].seq = rest[1].seq + i - 1
    <3>1. i + 1 \in 1..n /\ 2 \in 1..n /\ 1 \in 1..(n - 1)
      BY <1>2
    <3>2. rest[i] = batch[i + 1] /\ rest[1] = batch[1 + 1]
      BY <1>2, <3>1
    <3>3. batch[i + 1].seq = e.seq + (i + 1) - 1 /\ batch[2].seq = e.seq + 2 - 1 /\ IsRecorded(batch[i + 1])
      BY <1>9, <3>1
    <3> QED
      BY <1>7, <3>2, <3>3
  <2>2. rest # <<>> => rest[1].seq <= generator'.position + 1
    <3>1. SUFFICES ASSUME n # 1 PROVE rest[1].seq <= generator'.position + 1
      BY <1>13
    <3>2. 1 \in 1..(n - 1) /\ 2 \in 1..n
      BY <1>2, <3>1
    <3>3. rest[1] = batch[1 + 1]
      BY <1>2, <3>2
    <3>4. batch[2].seq = e.seq + 2 - 1
      BY <1>9, <3>2
    <3> QED
      BY <1>7, <3>3, <3>4
  <2>3. \A x : IsRecorded(x)' <=> IsRecorded(x)
    BY <1>1, TableKept
  <2>4. generator'.batch = rest /\ Len(rest) = n - 1
    BY <1>2, <1>6
  <2> QED
    BY <1>14, <2>1, <2>2, <2>3, <2>4 DEF Replayed
<1>16. Joined' /\ LinedUp'
  BY <1>1, <1>4, <1>14, TableKept, QueueKept DEF Joined
<1> QED
  BY <1>1, <1>6, <1>7, <1>15, <1>16, TableKept DEF LosesNothing

LEMMA GetLoses ==
  ASSUME LocalTypes, Staged, LosesNothing, Memory!Get
  PROVE  LosesNothing'
<1> DEFINE e == Head(queue)
<1>1. /\ UNCHANGED <<status, sequence, events, published, threads, raced>>
      /\ generator.at = "live" /\ queue # <<>> /\ queue' = Tail(queue)
      /\ IF e = Memory!Sentinel
         THEN generator' = [generator EXCEPT !.at = "ended"] /\ received' = received
         ELSE Memory!Deliver(e, generator)
  BY DEF Memory!Get, Memory!job
<1>2. /\ e \in Memory!Event \cup {Memory!Sentinel} /\ e = queue[1]
      /\ Len(queue) >= 1 /\ Len(queue') = Len(queue) - 1 /\ Len(queue) \in Nat
      /\ \A i \in 1..(Len(queue) - 1) : queue'[i] = queue[i + 1]
      /\ queue' \in Seq(Memory!Event \cup {Memory!Sentinel})
  BY <1>1, HeadTyped DEF LocalTypes, Memory!TypeOK
<1>3. LinedUp /\ Joined /\ Replayed /\ generator.batch = <<>> /\ generator \in Memory!Stream
  BY <1>1 DEF LosesNothing, Memory!Listening, Staged, LocalTypes, Memory!TypeOK
<1>4. Top = generator.position /\ generator.position \in Nat
  BY <1>3, StreamFields, JobFields DEF Top
<1>5. 1 \in 1..Len(queue)
  BY <1>2
<1>6. CASE e = Memory!Sentinel
  <2>1. Ended(generator.position)
    BY <1>1, <1>2, <1>3, <1>4, <1>6 DEF Joined
  <2>2. generator'.at = "ended" /\ generator'.position = generator.position /\ received' = received
    BY <1>1, <1>3, <1>6 DEF Memory!Stream
  <2>3. Whole'
    BY <1>1, <2>2 DEF LosesNothing, Whole
  <2> QED
    BY <1>1, <2>1, <2>2, <2>3, TableKept DEF LosesNothing, Memory!Listening
<1>7. CASE e # Memory!Sentinel
  <2>1. Before(1) /\ e \in Memory!Event
    BY <1>2, <1>7 DEF Before
  <2>2. IsRecorded(e) /\ e.seq <= generator.position + 1
    BY <1>1, <1>2, <1>3, <1>4, <1>5, <1>7, <2>1 DEF LinedUp, Joined
  <2>3. /\ Whole' /\ generator'.position \in Nat /\ e.seq \in Nat
        /\ e.seq <= generator'.position /\ generator.position <= generator'.position
    BY <1>1, <1>3, <1>7, <2>1, <2>2, DeliverKeepsWhole
  <2>4. generator'.at = "live" /\ generator'.batch = <<>>
    BY <1>1, <1>3, <1>7, <2>1, DeliverTyped
  <2>5. Top' = generator'.position
    BY <2>4 DEF Top
  <2>6. \A i \in 1..Len(queue) : Before(i)' => Before(i + 1)
    <3>1. SUFFICES ASSUME NEW i \in 1..Len(queue), Before(i)', NEW k \in 1..((i + 1) - 1)
                   PROVE  queue[k] # Memory!Sentinel
      BY DEF Before
    <3>2. CASE k = 1
      BY <1>2, <1>7, <3>2
    <3>3. CASE k # 1
      <4>1. k - 1 \in 1..(i - 1) /\ k - 1 \in 1..(Len(queue) - 1) /\ (k - 1) + 1 = k
        BY <1>2, <3>1, <3>3
      <4>2. queue'[k - 1] = queue[k]
        BY <1>2, <4>1
      <4> QED
        BY <3>1, <4>1, <4>2 DEF Before
    <3> QED
      BY <3>2, <3>3
  <2>7. ASSUME NEW i \in 1..Len(queue'), Before(i)'
        PROVE  IF queue'[i] = Memory!Sentinel
               THEN Ended(IF i = 1 THEN Len(events) ELSE queue'[i - 1].seq)
               ELSE IsRecorded(queue'[i]) /\ queue'[i].seq = queue'[1].seq + i - 1
    <3>1. i \in 1..(Len(queue) - 1) /\ i \in 1..Len(queue) /\ i + 1 \in 1..Len(queue) /\ i + 1 # 1
          /\ (i + 1) - 1 = i
      BY <1>2
    <3>2. queue'[i] = queue[i + 1] /\ Before(i + 1)
      BY <1>2, <2>6, <2>7, <3>1
    <3>3. CASE queue[i + 1] = Memory!Sentinel
      <4>1. Ended(queue[i].seq)
        BY <1>3, <3>1, <3>2, <3>3 DEF LinedUp
      <4>2. CASE i = 1
        <5>1. Ended(Len(events))
          BY <1>2, <2>3, <4>1, <4>2, EndedTyped
        <5> QED
          BY <3>2, <3>3, <4>2, <5>1
      <4>3. CASE i # 1
        <5>1. i - 1 \in 1..(Len(queue) - 1) /\ (i - 1) + 1 = i
          BY <3>1, <4>3
        <5>2. queue'[i - 1] = queue[i]
          BY <1>2, <5>1
        <5> QED
          BY <3>2, <3>3, <4>1, <4>3, <5>2
      <4> QED
        BY <4>2, <4>3
    <3>4. CASE queue[i + 1] # Memory!Sentinel
      <4>1. IsRecorded(queue[i + 1]) /\ queue[i + 1].seq = e.seq + (i + 1) - 1
        BY <1>2, <1>3, <3>1, <3>2, <3>4 DEF LinedUp
      <4>2. queue'[1] = queue[2] /\ 2 \in 1..Len(queue)
        BY <1>2, <3>1
      <4>3. queue[2] # Memory!Sentinel /\ Before(2)
        <5>1. CASE i = 1
          BY <3>2, <3>4, <5>1
        <5>2. CASE i # 1
          BY <1>2, <1>7, <3>1, <3>2, <5>2 DEF Before
        <5> QED
          BY <5>1, <5>2
      <4>4. queue[2].seq = e.seq + 2 - 1
        BY <1>2, <1>3, <4>2, <4>3 DEF LinedUp
      <4>5. queue'[i].seq = queue'[1].seq + i - 1
        BY <2>3, <3>1, <3>2, <4>1, <4>2, <4>4
      <4> QED
        BY <3>2, <3>4, <4>1, <4>5
    <3> QED
      BY <3>3, <3>4
  <2>8. ASSUME queue' # <<>>, Before(Len(queue) + 1)'
        PROVE  queue'[Len(queue')].seq = Fanned
    <3>1. /\ Len(queue') \in 1..(Len(queue) - 1) /\ Len(queue') + 1 = Len(queue)
          /\ Len(queue') + 1 \in 1..Len(queue)
      BY <1>2, <2>8
    <3>2. Before(Len(queue) + 1)
      BY <2>6, <2>8, <3>1
    <3> QED
      BY <1>1, <1>2, <1>3, <3>1, <3>2 DEF LinedUp
  <2>9. LinedUp'
    BY <1>1, <2>7, <2>8, TableKept DEF LinedUp
  <2>10. Joined'
    <3>1. CASE queue' = <<>>
      <4>0. Len(queue') = 0
        BY <3>1
      <4>1. Len(queue) = 1
        BY <1>2, <4>0
      <4>2. Before(Len(queue) + 1)
        BY <1>2, <1>7, <4>1 DEF Before
      <4>3. e.seq = Fanned
        BY <1>1, <1>2, <1>3, <4>1, <4>2 DEF LinedUp
      <4> QED
        BY <1>1, <2>3, <2>5, <3>1, <4>3, TableKept DEF Joined
    <3>2. CASE queue' # <<>>
      <4>1. 1 \in 1..(Len(queue) - 1) /\ 2 \in 1..Len(queue)
        BY <1>2, <3>2
      <4>2. queue'[1] = queue[2] /\ Before(2)
        BY <1>2, <1>7, <4>1 DEF Before
      <4>3. CASE queue[2] = Memory!Sentinel
        <5>1. Ended(queue[1].seq)
          BY <1>3, <4>1, <4>2, <4>3 DEF LinedUp
        <5>2. Ended(Top')
          BY <1>2, <2>3, <2>5, <5>1, EndedTyped
        <5> QED
          BY <1>1, <3>2, <4>2, <4>3, <5>2, TableKept DEF Joined
      <4>4. CASE queue[2] # Memory!Sentinel
        <5>1. queue[2].seq = e.seq + 2 - 1
          BY <1>2, <1>3, <4>1, <4>2, <4>4 DEF LinedUp
        <5>2. queue'[1].seq <= Top' + 1
          BY <2>3, <2>5, <4>2, <5>1
        <5> QED
          BY <3>2, <4>2, <4>4, <5>2 DEF Joined
      <4> QED
        BY <4>3, <4>4
    <3> QED
      BY <3>1, <3>2
  <2>11. Replayed'
    BY <2>4 DEF Replayed
  <2> QED
    BY <1>1, <2>3, <2>4, <2>9, <2>10, <2>11, TableKept DEF LosesNothing
<1> QED
  BY <1>6, <1>7

LEMMA LosesHold ==
  LocalTypes /\ Staged /\ (Steady => LosesNothing) /\ [Memory!Next]_memoryVars
    => (Steady => LosesNothing)'
<1> SUFFICES ASSUME LocalTypes, Staged, Steady => LosesNothing, [Memory!Next]_memoryVars, Steady'
             PROVE  LosesNothing'
  OBVIOUS
<1>1. ~raced' /\ ~overflowed'
  BY DEF Steady
<1>2. CASE Memory!Next
  <2>1. ~raced
    BY <1>1, <1>2, Zenon DEF Memory!Next, Memory!Publish, Memory!Subscribe, Memory!Report,
       Memory!Number, Memory!Record, Memory!FanOut, Memory!Settle, Memory!Look,
       Memory!MarkCancelled, Memory!Mark, Memory!Close, Memory!Begin,
       Memory!Register, Memory!Copy, Memory!Replay, Memory!LookAtStatus, Memory!Get,
       Memory!Disconnect, Memory!job
  <2>2. ~overflowed
    BY <1>1, <1>2, Zenon DEF Memory!Next, Memory!Publish, Memory!Subscribe, Memory!Report,
       Memory!Number, Memory!Record, Memory!FanOut, Memory!Settle, Memory!Look,
       Memory!MarkCancelled, Memory!Mark, Memory!Close, Memory!Put, Memory!Register, Memory!Copy, Memory!Replay, Memory!LookAtStatus, Memory!Get,
       Memory!Disconnect
  <2>3. Steady
    BY <2>1, <2>2 DEF Steady
  <2> QED
    BY <1>1, <1>2, <2>3, ReportLoses, NumberLoses, RecordLoses, FanOutLoses, SettleLoses,
       LookLosesNothing, CloseLoses, OpenedLoses, CopyLoses, LookLoses, ReplayLoses, GetLoses
       DEF Memory!Next, Memory!Publish, Memory!Subscribe
<1>3. CASE UNCHANGED memoryVars
  <2>1. LosesNothing
    BY <1>1, <1>3 DEF Steady, memoryVars
  <2> QED
    BY <1>3, <2>1 DEF memoryVars, LosesNothing, InTurn, Memory!Publishing, EndStays, Ended, Whole,
       Fanned, Before, IsRecorded, Memory!Listening, LinedUp, Replayed, Joined, Top
<1> QED
  BY <1>2, <1>3

LEMMA LosesNothingAtFirst == Memory!Init => Staged /\ LosesNothing
<1> SUFFICES ASSUME Memory!Init PROVE Staged /\ LosesNothing
  OBVIOUS
<1>1. \A w \in Memory!Writers : threads[w].at = "idle"
  BY DEF Memory!Init, Memory!Idle
<1>2. Len(events) = 0 /\ sequence = 0 /\ status = "running"
  BY DEF Memory!Init
<1>3. InTurn
  BY <1>1, <1>2 DEF InTurn, Memory!Publishing
<1>4. EndStays
  BY <1>1, <1>2, WhoWrites DEF EndStays, Ended
<1>5. Whole
  BY <1>2 DEF Memory!Init, Whole
<1> QED
  BY <1>3, <1>4, <1>5 DEF Memory!Init, Staged, LosesNothing, Memory!Listening

LEMMA LocalInvHolds == MCSpec => []LocalInv
<1>1. MCInit => LocalInv
  BY LocalTypesAtFirst, LosesNothingAtFirst DEF MCInit, LocalInv
<1>2. LocalInv /\ [MCNext]_MCvars => LocalInv'
  <2>1. [MCNext]_MCvars => [Memory!Next]_memoryVars
    BY DEF MCNext, InTable, InMemory, MCvars
  <2> QED
    BY <2>1, LocalTypesHold, Staging, LosesHold DEF LocalInv
<1> QED
  BY <1>1, <1>2, PTL DEF MCSpec

LEMMA LocalStreamSeesAll == LocalInv => SeesAll
<1> SUFFICES ASSUME LocalInv PROVE SeesAll
  OBVIOUS
<1>1. Memory!TypeOK /\ Memory!IdsGrow
  BY DEF LocalInv, LocalTypes
<1>2. Memory!ToSet(received) = {received[k] : k \in 1..Len(received)}
  BY <1>1 DEF Memory!ToSet, Memory!TypeOK
<1>3. ASSUME Steady, NEW i \in 1..Len(events), events[i].seq <= generator.position
      PROVE  events[i] \in Memory!ToSet(received)
  BY <1>2, <1>3 DEF LocalInv, LosesNothing, InTurn, Whole
<1>4. ASSUME Steady, generator.at = "ended", generator.whole, NEW i \in 1..Len(events)
      PROVE  \/ events[i] \in Memory!ToSet(received)
             \/ /\ events[i].says = Memory!TheEnd
                /\ \E k \in 1..(i - 1) : events[k].says = Memory!TheEnd
  <2>1. LosesNothing /\ generator.position \in Nat /\ Len(events) \in Nat
    BY <1>1, <1>4 DEF LocalInv, Memory!TypeOK, Memory!Stream
  <2>2. PICK k \in 1..Len(events) :
          k <= generator.position /\ events[k].says = Memory!TheEnd
    BY <1>4, <2>1 DEF LosesNothing, Ended
  <2>3. events[i].seq = i
    BY <2>1 DEF LosesNothing, InTurn
  <2>4. CASE i <= generator.position
    BY <1>3, <1>4, <2>3, <2>4
  <2>5. CASE ~(i <= generator.position)
    <3>1. k < i /\ k \in 1..(i - 1)
      BY <2>1, <2>2, <2>5
    <3>2. events[i].says = Memory!TheEnd
      BY <2>1, <2>2, <3>1 DEF LosesNothing, EndStays
    <3> QED
      BY <2>2, <3>1, <3>2
  <2> QED
    BY <2>4, <2>5
<1> QED
  BY <1>1, <1>3, <1>4 DEF SeesAll, Memory!SeesAll, Memory!NothingLost, Memory!LiveStreamSeesAll, Steady

(* On the in-process store, for any number of collectors, events and       *)
(* connections and any size of the queue: the ids a client sees only grow, *)
(* and while publishes take turns and the queue is never full nothing at   *)
(* or below its position is missing, and a stream that was live before its *)
(* job was settled ends with everything delivered up to the event that     *)
(* says how the job ended.  The status is set whatever it was, so a job    *)
(* cancelled while a thread persists its result ends twice: what follows   *)
(* that event, and may not arrive, says only that the job ended again.     *)
THEOREM LocalClientSeesAll == MCSpec => []SeesAll
BY LocalInvHolds, LocalStreamSeesAll, PTL
=============================================================================
