------------------------ MODULE InvestigationJobs_proofs ------------------------
(***************************************************************************)
(* The safety of InvestigationJobs for all jobs, workers and tasks and any *)
(* bounds.  Every step is either quiet (nobody gets a job in hand, nothing *)
(* is offered, nothing begins to read the cluster) or one of five, and so  *)
(* each property needs six cases and not one for every action.  Before it, *)
(* type correctness, with one case per action: Shape is what TypeOK needs  *)
(* to be inductive, and says where an id, a worker or a destination is     *)
(* really one and not the placeholder.                                     *)
(***************************************************************************)
EXTENDS InvestigationJobs, TLAPS

(* What goes with a place or a call: an id in hand is a job, a task that   *)
(* exists has a worker and a job, a thread outlives only tasks that no     *)
(* longer run, and a hand-off is to a worker.                              *)
Shape ==
  /\ \A w \in Workers : consumer[w].at # "idle" => consumer[w].job \in Jobs
  /\ \A t \in Tasks :
       /\ task[t].pc # "free" => task[t].on \in Workers /\ task[t].job \in Jobs
       /\ task[t].call # "none" =>
            task[t].pc \notin {"free", "created", "selecting", "collecting"}
       /\ task[t].call \in {"handOff", "push"} => task[t].dest \in Workers

Typed == TypeOK /\ Shape

(* The records stay records under the updates the actions make.            *)
LEMMA RowFields ==
  ASSUME NEW r \in Row
  PROVE  /\ [r EXCEPT !.cancel = TRUE] \in Row
         /\ \A b \in BOOLEAN : [r EXCEPT !.expired = b] \in Row
         /\ \A s \in Status : [r EXCEPT !.status = s] \in Row
         /\ \A s \in Status, w \in Workers \cup {Nobody} :
              [r EXCEPT !.status = s, !.lease = w, !.expired = FALSE] \in Row
BY DEF Row

LEMMA TaskFields ==
  ASSUME NEW r \in Task
  PROVE  /\ \A p \in Places : [r EXCEPT !.pc = p] \in Task
         /\ \A p \in Places, b \in BOOLEAN :
              /\ [r EXCEPT !.pc = p, !.watching = b] \in Task
              /\ \A c \in Calls : [r EXCEPT !.pc = p, !.watching = b, !.call = c] \in Task
              /\ \A c \in Calls : [r EXCEPT !.pc = p, !.call = c, !.watching = b] \in Task
         /\ \A p \in Places, c \in Calls :
              /\ [r EXCEPT !.pc = p, !.call = c] \in Task
              /\ \A w \in Workers : [r EXCEPT !.pc = p, !.call = c, !.dest = w] \in Task
         /\ \A c \in Calls : [r EXCEPT !.call = c] \in Task
         /\ [r EXCEPT !.cancelling = TRUE] \in Task
         /\ \A b, c \in BOOLEAN : [r EXCEPT !.cancelling = b, !.watching = c] \in Task
         /\ \A c \in Calls : AfterCall(r, c) \in Task
         /\ AfterTask(r) \in Task
         /\ Unread(r) \in Calls
         /\ Free \in Task
         /\ \A w \in Workers, j \in Jobs :
              [Free EXCEPT !.pc = "created", !.on = w, !.job = j] \in Task
<1>1. Free \in Task
  BY DEF Task, Places, Calls, Free
<1>2. \A w \in Workers, j \in Jobs : [Free EXCEPT !.pc = "created", !.on = w, !.job = j] \in Task
  BY DEF Task, Places, Calls, Free
<1>3. \A c \in Calls : AfterCall(r, c) \in Task
  BY <1>1 DEF Task, Places, Calls, AfterCall
<1>4. AfterTask(r) \in Task
  <2>1. [r EXCEPT !.pc = "gone", !.cancelling = FALSE] \in Task
    BY DEF Task, Places
  <2> QED
    BY <1>1, <2>1 DEF AfterTask
<1>5. Unread(r) \in Calls
  BY DEF Task, Calls, Unread
<1>6. /\ \A p \in Places : [r EXCEPT !.pc = p] \in Task
      /\ \A p \in Places, b \in BOOLEAN : [r EXCEPT !.pc = p, !.watching = b] \in Task
      /\ [r EXCEPT !.cancelling = TRUE] \in Task
      /\ \A c \in Calls : [r EXCEPT !.call = c] \in Task
      /\ \A b, c \in BOOLEAN : [r EXCEPT !.cancelling = b, !.watching = c] \in Task
  BY DEF Task
<1>7. \A p \in Places, b \in BOOLEAN, c \in Calls :
        /\ [r EXCEPT !.pc = p, !.watching = b, !.call = c] \in Task
        /\ [r EXCEPT !.pc = p, !.call = c, !.watching = b] \in Task
  BY DEF Task
<1>8. \A p \in Places, c \in Calls :
        /\ [r EXCEPT !.pc = p, !.call = c] \in Task
        /\ \A w \in Workers : [r EXCEPT !.pc = p, !.call = c, !.dest = w] \in Task
  BY DEF Task
<1> QED
  BY <1>1, <1>2, <1>3, <1>4, <1>5, <1>6, <1>7, <1>8

LEMMA ConsumerFields ==
  ASSUME NEW c \in Consumer
  PROVE  /\ \A a \in {"popped", "claimed", "unclaimable", "settling"} :
              /\ [c EXCEPT !.at = a] \in Consumer
              /\ \A j \in Jobs : [at |-> a, job |-> j] \in Consumer
         /\ Idle \in Consumer
BY DEF Consumer, Idle

(* The initial state is typed.                                             *)
LEMMA InitTyped == Init => Typed
BY JobsAssumption DEF Init, Typed, TypeOK, Shape, Row, Status, Consumer, Idle,
   Task, Free,
   Queues, Places, Calls

(* Pushing an id, and settling a row or failing to, keeps the types.       *)
LEMMA PushTyped ==
  ASSUME TypeOK, NEW q \in Queues, NEW j \in Jobs, Push(q, j)
  PROVE  queue' \in [Queues -> Seq(Jobs)]
<1>1. Append(queue[q], j) \in Seq(Jobs)
  BY DEF TypeOK
<1> QED
  BY <1>1 DEF TypeOK, Push

LEMMA SettleTyped ==
  ASSUME TypeOK, NEW j \in Jobs, NEW o \in Terminal, TrySettle(j, o)
  PROVE  row' \in [Jobs -> Row] /\ faults' \in 0..MaxFaults /\ handOffs' \in 0..MaxHandOffs
<1>1. CASE Settle(j, o) /\ UNCHANGED bounds
  <2>1. [row[j] EXCEPT !.status = o, !.lease = Nobody, !.expired = FALSE] \in Row
    BY RowFields DEF TypeOK, Status
  <2> QED
    BY <1>1, <2>1 DEF TypeOK, Settle, bounds
<1>2. CASE StatementFails
  BY <1>2, JobsAssumption DEF TypeOK, StatementFails
<1> QED
  BY <1>1, <1>2 DEF TrySettle

(* What Typed says of each element, for citing.                            *)
LEMMA InHand ==
  ASSUME Typed
  PROVE  /\ \A w \in Workers : consumer[w] \in Consumer
         /\ \A w \in Workers : consumer[w].at # "idle" => consumer[w].job \in Jobs
         /\ \A t \in Tasks : task[t] \in Task
         /\ \A t \in Tasks : task[t].pc # "free" => task[t].job \in Jobs /\ task[t].on \in Workers
         /\ \A t \in Tasks : task[t].call # "none" => task[t].job \in Jobs /\ task[t].on \in Workers
         /\ \A t \in Tasks : CancelOutcome(task[t].on) \in Terminal
         /\ \A j \in Jobs : row[j] \in Row
BY DEF Typed, TypeOK, Shape, CancelOutcome, Terminal

(* Every step keeps the types ...                                          *)
LEMMA StepType == Typed /\ [Next]_vars => TypeOK'
<1> SUFFICES ASSUME Typed, [Next]_vars PROVE TypeOK'
  OBVIOUS
<1> USE DEF Typed, TypeOK, bounds
<1>1. ASSUME NEW j \in Jobs, Submit(j) PROVE TypeOK'
  <2>1. row' \in [Jobs -> Row]
    BY <1>1, RowFields, InHand DEF Submit, Status
  <2>2. queue' \in [Queues -> Seq(Jobs)]
    BY <1>1, PushTyped DEF Submit
  <2> QED
    BY <1>1, <2>1, <2>2 DEF Submit
<1>2. ASSUME NEW j \in Jobs, RequestCancel(j) PROVE TypeOK'
  <2>1. row' \in [Jobs -> Row]
    BY <1>2, RowFields, InHand DEF RequestCancel
  <2>2. control' \in [Workers -> SUBSET Jobs]
    BY <1>2 DEF RequestCancel
  <2> QED
    BY <1>2, <2>1, <2>2 DEF RequestCancel
<1>3. ASSUME NEW j \in Jobs, LeaseExpires(j) PROVE TypeOK'
  <2>1. row' \in [Jobs -> Row]
    BY <1>3, RowFields, InHand DEF LeaseExpires
  <2> QED
    BY <1>3, <2>1 DEF LeaseExpires
<1>4. ASSUME NEW w \in Workers, NEW j \in Jobs, ReceiveCancel(w, j) PROVE TypeOK'
  <2>1. task' \in [Tasks -> Task]
    BY <1>4, TaskFields, InHand DEF ReceiveCancel
  <2>2. control' \in [Workers -> SUBSET Jobs]
    BY <1>4 DEF ReceiveCancel
  <2> QED
    BY <1>4, <2>1, <2>2 DEF ReceiveCancel
<1>5. ASSUME NEW w \in Workers, NEW j \in Jobs, Requeue(w, j) PROVE TypeOK'
  <2>1. queue' \in [Queues -> Seq(Jobs)]
    BY <1>5, PushTyped DEF Requeue, Queues
  <2> QED
    BY <1>5, <2>1 DEF Requeue
<1>6. ASSUME NEW w \in Workers, Dequeue(w) PROVE TypeOK'
  <2> DEFINE q == IF queue[w] # <<>> THEN w ELSE Shared
  <2>1. q \in Queues /\ queue[q] \in Seq(Jobs) /\ queue[q] # <<>>
    BY <1>6 DEF Dequeue, Queues
  <2>2. Tail(queue[q]) \in Seq(Jobs) /\ Head(queue[q]) \in Jobs
    BY <2>1
  <2>3. queue' \in [Queues -> Seq(Jobs)]
    BY <1>6, <2>1, <2>2 DEF Dequeue
  <2>4. [at |-> "popped", job |-> Head(queue[q])] \in Consumer
    BY <2>2, ConsumerFields, InHand
  <2>5. consumer' \in [Workers -> Consumer]
    BY <1>6, <2>4 DEF Dequeue
  <2> QED
    BY <1>6, <2>3, <2>5 DEF Dequeue
<1>7. ASSUME NEW w \in Workers, Claim(w) PROVE TypeOK'
  <2> DEFINE j == consumer[w].job
  <2>1. j \in Jobs
    BY <1>7, InHand DEF Claim
  <2>2. [row[j] EXCEPT !.status = "running", !.lease = w, !.expired = FALSE] \in Row
    BY <2>1, RowFields, InHand DEF Status
  <2>3. row' \in [Jobs -> Row]
    BY <1>7, <2>1, <2>2 DEF Claim
  <2>4. consumer' \in [Workers -> Consumer]
    <3>1. \A a \in {"claimed", "unclaimable"} : [consumer[w] EXCEPT !.at = a] \in Consumer
      BY ConsumerFields, InHand
    <3> QED
      BY <1>7, <3>1 DEF Claim
  <2> QED
    BY <1>7, <2>3, <2>4 DEF Claim
<1>8. ASSUME NEW w \in Workers, NEW t \in Tasks, Start(w, t) PROVE TypeOK'
  <2>1. task' \in [Tasks -> Task]
    BY <1>8, TaskFields, InHand DEF Start
  <2>2. registered' \in [Workers -> [Jobs -> Tasks \cup {NoTask}]]
    BY <1>8, InHand DEF Start
  <2>3. consumer' \in [Workers -> Consumer]
    BY <1>8, ConsumerFields, InHand DEF Start
  <2> QED
    BY <1>8, <2>1, <2>2, <2>3 DEF Start
<1>9. ASSUME NEW w \in Workers, ReadUnclaimable(w) PROVE TypeOK'
  <2>1. consumer' \in [Workers -> Consumer]
    BY <1>9, ConsumerFields, InHand DEF ReadUnclaimable
  <2> QED
    BY <1>9, <2>1 DEF ReadUnclaimable
<1>10. ASSUME NEW w \in Workers, SettleUnclaimable(w) PROVE TypeOK'
  <2>1. row' \in [Jobs -> Row] /\ faults' \in 0..MaxFaults /\ handOffs' \in 0..MaxHandOffs
    BY <1>10, SettleTyped, InHand DEF SettleUnclaimable, TrySettle, Terminal
  <2>2. consumer' \in [Workers -> Consumer]
    BY <1>10, ConsumerFields, InHand DEF SettleUnclaimable
  <2> QED
    BY <1>10, <2>1, <2>2 DEF SettleUnclaimable
<1>11. ASSUME NEW w \in Workers, Abandon(w) PROVE TypeOK'
  <2>1. consumer' \in [Workers -> Consumer]
    BY <1>11, ConsumerFields, InHand DEF Abandon
  <2>2. faults' \in 0..MaxFaults
    BY <1>11, JobsAssumption DEF Abandon
  <2> QED
    BY <1>11, <2>1, <2>2 DEF Abandon
<1>12. ASSUME NEW w \in Workers, Reap(w) PROVE TypeOK'
  <2>1. row' \in [Jobs -> Row]
    BY <1>12, RowFields, InHand DEF Reap, Reaped, Status, Terminal
  <2> QED
    BY <1>12, <2>1 DEF Reap
<1>13. ASSUME NEW t \in Tasks, Begin(t) PROVE TypeOK'
  <2>1. task' \in [Tasks -> Task]
    BY <1>13, TaskFields, InHand DEF Begin, Places
  <2> QED
    BY <1>13, <2>1 DEF Begin
<1>14. ASSUME NEW t \in Tasks, Select(t) PROVE TypeOK'
  <2>1. task' \in [Tasks -> Task]
    BY <1>14, TaskFields, InHand DEF Select, Places
  <2>2. collected' \in [Jobs -> Nat]
    BY <1>14, InHand DEF Select, At
  <2> QED
    BY <1>14, <2>1, <2>2 DEF Select
<1>15. ASSUME NEW t \in Tasks, NEW w \in Workers, SelectElsewhere(t, w)
   PROVE TypeOK'
  <2>1. task' \in [Tasks -> Task]
    BY <1>15, TaskFields, InHand DEF SelectElsewhere, Places, Calls
  <2>2. handOffs' \in 0..MaxHandOffs
    BY <1>15, JobsAssumption DEF SelectElsewhere
  <2> QED
    BY <1>15, <2>1, <2>2 DEF SelectElsewhere
<1>16. ASSUME NEW t \in Tasks, RunFails(t) PROVE TypeOK'
  <2>1. row' \in [Jobs -> Row] /\ faults' \in 0..MaxFaults /\ handOffs' \in 0..MaxHandOffs
    BY <1>16, SettleTyped, InHand DEF RunFails, At, Terminal
  <2>2. task' \in [Tasks -> Task]
    BY <1>16, TaskFields, InHand DEF RunFails, Places
  <2> QED
    BY <1>16, <2>1, <2>2 DEF RunFails
<1>17. ASSUME NEW t \in Tasks, RunReturns(t) PROVE TypeOK'
  <2>1. task' \in [Tasks -> Task]
    <3>1. PICK write \in {"succeed", "fail"} :
            task' = [task EXCEPT ![t] = [@ EXCEPT !.pc = "persisting", !.call = write,
                                                  !.watching = FALSE]]
      BY <1>17 DEF RunReturns
    <3> QED
      BY <3>1, TaskFields, InHand DEF Places, Calls
  <2> QED
    BY <1>17, <2>1 DEF RunReturns
<1>18. ASSUME NEW t \in Tasks, HandOffRow(t) PROVE TypeOK'
  <2> DEFINE j == task[t].job
  <2>1. j \in Jobs
    BY <1>18, InHand DEF HandOffRow
  <2>2. [row[j] EXCEPT !.status = "pending", !.lease = Nobody, !.expired = FALSE] \in Row
    BY <2>1, RowFields, InHand DEF Status
  <2>3. row' \in [Jobs -> Row]
    BY <1>18, <2>1, <2>2 DEF HandOffRow, GiveBack, StatementFails
  <2>4. faults' \in 0..MaxFaults /\ handOffs' \in 0..MaxHandOffs
    BY <1>18, JobsAssumption DEF HandOffRow, StatementFails
  <2>5. task' \in [Tasks -> Task]
    <3>1. /\ [task[t] EXCEPT !.call = "push"] \in Task
          /\ AfterCall(task[t], "refused") \in Task
      BY TaskFields, InHand DEF Calls
    <3> QED
      BY <1>18, <3>1 DEF HandOffRow
  <2> QED
    BY <1>18, <2>3, <2>4, <2>5 DEF HandOffRow
<1>19. ASSUME NEW t \in Tasks, HandOffPush(t) PROVE TypeOK'
  <2>1. task[t].job \in Jobs /\ task[t].dest \in Queues
    BY <1>19, InHand DEF HandOffPush, Shape, Queues
  <2>2. queue' \in [Queues -> Seq(Jobs)]
    BY <1>19, <2>1, PushTyped DEF HandOffPush
  <2>3. faults' \in 0..MaxFaults
    BY <1>19, JobsAssumption DEF HandOffPush
  <2>4. task' \in [Tasks -> Task]
    <3>1. /\ AfterCall(task[t], "handedOff") \in Task
          /\ AfterCall(task[t], "refused") \in Task
      BY TaskFields, InHand DEF Calls
    <3> QED
      BY <1>19, <3>1 DEF HandOffPush
  <2> QED
    BY <1>19, <2>2, <2>3, <2>4 DEF HandOffPush
<1>20. ASSUME NEW t \in Tasks, HandedOff(t) PROVE TypeOK'
  <2>1. task' \in [Tasks -> Task]
    BY <1>20, TaskFields, InHand DEF HandedOff, Places, Calls
  <2> QED
    BY <1>20, <2>1 DEF HandedOff
<1>21. ASSUME NEW t \in Tasks, HandOffRefused(t) PROVE TypeOK'
  <2>1. row' \in [Jobs -> Row] /\ faults' \in 0..MaxFaults /\ handOffs' \in 0..MaxHandOffs
    BY <1>21, SettleTyped, InHand DEF HandOffRefused, At, Terminal
  <2>2. task' \in [Tasks -> Task]
    BY <1>21, TaskFields, InHand DEF HandOffRefused, Places, Calls
  <2> QED
    BY <1>21, <2>1, <2>2 DEF HandOffRefused
<1>22. ASSUME NEW t \in Tasks, Persist(t) PROVE TypeOK'
  <2>1. row' \in [Jobs -> Row] /\ faults' \in 0..MaxFaults /\ handOffs' \in 0..MaxHandOffs
    BY <1>22, SettleTyped, InHand DEF Persist, Terminal
  <2>2. task' \in [Tasks -> Task]
    BY <1>22, TaskFields, InHand DEF Persist, Calls
  <2> QED
    BY <1>22, <2>1, <2>2 DEF Persist
<1>23. ASSUME NEW t \in Tasks, Persisted(t) PROVE TypeOK'
  <2>1. task' \in [Tasks -> Task]
    BY <1>23, TaskFields, InHand DEF Persisted, Places, Calls
  <2> QED
    BY <1>23, <2>1 DEF Persisted
<1>24. ASSUME NEW t \in Tasks, CancelInTry(t) PROVE TypeOK'
  <2> DEFINE o == CancelOutcome(task[t].on)
  <2>1. task[t].job \in Jobs /\ o \in Terminal
    BY <1>24, InHand DEF CancelInTry
  <2>2. TrySettle(task[t].job, o)
    BY <1>24 DEF CancelInTry, TrySettle
  <2>3. row' \in [Jobs -> Row] /\ faults' \in 0..MaxFaults /\ handOffs' \in 0..MaxHandOffs
    BY <2>1, <2>2, SettleTyped
  <2>4. PICK p \in Places :
          task' = [task EXCEPT ![t] = [@ EXCEPT !.pc = p, !.watching = FALSE,
                                                !.call = Unread(task[t])]]
    BY <1>24 DEF CancelInTry, Places
  <2>5. task' \in [Tasks -> Task]
    BY <2>4, TaskFields, InHand
  <2> QED
    BY <1>24, <2>3, <2>5 DEF CancelInTry
<1>25. ASSUME NEW t \in Tasks, CancelOutsideTry(t) PROVE TypeOK'
  <2>1. task' \in [Tasks -> Task]
    BY <1>25, TaskFields, InHand DEF CancelOutsideTry, Places
  <2> QED
    BY <1>25, <2>1 DEF CancelOutsideTry
<1>26. ASSUME NEW t \in Tasks, Finished(t) PROVE TypeOK'
  <2>1. task' \in [Tasks -> Task]
    BY <1>26, TaskFields, InHand DEF Finished, Places
  <2>2. registered' \in [Workers -> [Jobs -> Tasks \cup {NoTask}]]
    BY <1>26, InHand DEF Finished
  <2> QED
    BY <1>26, <2>1, <2>2 DEF Finished
<1>27. ASSUME NEW t \in Tasks, RecordCancel(t) PROVE TypeOK'
  <2>1. row' \in [Jobs -> Row] /\ faults' \in 0..MaxFaults /\ handOffs' \in 0..MaxHandOffs
    BY <1>27, SettleTyped, InHand DEF RecordCancel
  <2>2. task' \in [Tasks -> Task]
    BY <1>27, TaskFields, InHand DEF RecordCancel
  <2> QED
    BY <1>27, <2>1, <2>2 DEF RecordCancel
<1>28. ASSUME NEW t \in Tasks, WatchdogCancels(t) PROVE TypeOK'
  <2>1. \A u \in Tasks : \A b, c \in BOOLEAN :
          [task[u] EXCEPT !.cancelling = b, !.watching = c] \in Task
    BY TaskFields, InHand
  <2>2. \A u \in Tasks : /\ (task[u].cancelling \/ Reached(u, task[t].on, task[t].job)) \in BOOLEAN
                         /\ (task[u].watching /\ u # t) \in BOOLEAN
    BY InHand DEF Reached
  <2>3. task' \in [Tasks -> Task]
    BY <1>28, <2>1, <2>2 DEF WatchdogCancels
  <2> QED
    BY <1>28, <2>3 DEF WatchdogCancels
<1>29. ASSUME NEW t \in Tasks, WatchdogRenews(t) PROVE TypeOK'
  <2>1. row' \in [Jobs -> Row]
    BY <1>29, RowFields, InHand DEF WatchdogRenews
  <2> QED
    BY <1>29, <2>1 DEF WatchdogRenews
<1>30. ASSUME NEW w \in Workers, LoseProcess(w), faults' \in 0..MaxFaults
   PROVE TypeOK'
  <2>1. task' \in [Tasks -> Task]
    BY <1>30, TaskFields, InHand DEF LoseProcess
  <2>2. consumer' \in [Workers -> Consumer]
    BY <1>30, ConsumerFields DEF LoseProcess
  <2>3. registered' \in [Workers -> [Jobs -> Tasks \cup {NoTask}]]
    BY <1>30 DEF LoseProcess
  <2> QED
    BY <1>30, <2>1, <2>2, <2>3 DEF LoseProcess
<1>31. ASSUME NEW w \in Workers, Crash(w) PROVE TypeOK'
  <2>1. LoseProcess(w) /\ faults' \in 0..MaxFaults
    BY <1>31, JobsAssumption DEF Crash
  <2> QED
    BY <2>1, <1>30
<1>32. ASSUME NEW w \in Workers, Restart(w) PROVE TypeOK'
  BY <1>32 DEF Restart
<1>33. ASSUME NEW w \in Workers, BeginShutdown(w) PROVE TypeOK'
  <2>1. faults' \in 0..MaxFaults
    BY <1>33, JobsAssumption DEF BeginShutdown
  <2> QED
    BY <1>33, <2>1 DEF BeginShutdown
<1>34. ASSUME NEW w \in Workers, CancelRemaining(w) PROVE TypeOK'
  <2>1. task' \in [Tasks -> Task]
    BY <1>34, TaskFields, InHand DEF CancelRemaining
  <2> QED
    BY <1>34, <2>1 DEF CancelRemaining
<1>35. ASSUME NEW w \in Workers, Exit(w) PROVE TypeOK'
  <2>1. LoseProcess(w) /\ faults' \in 0..MaxFaults
    BY <1>35, JobsAssumption DEF Exit
  <2> QED
    BY <2>1, <1>30
<1>36. ASSUME FlushRedis PROVE TypeOK'
  <2>1. faults' \in 0..MaxFaults
    BY <1>36, JobsAssumption DEF FlushRedis
  <2>2. queue' \in [Queues -> Seq(Jobs)]
    BY <1>36 DEF FlushRedis
  <2>3. control' \in [Workers -> SUBSET Jobs]
    BY <1>36 DEF FlushRedis
  <2> QED
    BY <1>36, <2>1, <2>2, <2>3 DEF FlushRedis
<1>37. CASE UNCHANGED vars
  BY <1>37 DEF vars
<1> QED
  BY <1>1, <1>2, <1>3, <1>4, <1>5, <1>6, <1>7, <1>8, <1>9, <1>10, <1>11, <1>12,
     <1>13, <1>14, <1>15, <1>16, <1>17, <1>18, <1>19, <1>20, <1>21, <1>22, <1>23,
     <1>24, <1>25, <1>26, <1>27, <1>28, <1>29, <1>31, <1>32, <1>33, <1>34, <1>35,
     <1>36, <1>37
     DEF Next, Consume, Coroutine, Thread, Watchdog, Process

(* ... and the shape.                                                      *)
LEMMA StepShape == Typed /\ [Next]_vars => Shape'
<1> SUFFICES ASSUME Typed, [Next]_vars PROVE Shape'
  OBVIOUS
<1> USE DEF Typed, Shape
<1>1. ASSUME NEW j \in Jobs, Submit(j) PROVE Shape'
  BY <1>1 DEF Submit
<1>2. ASSUME NEW j \in Jobs, RequestCancel(j) PROVE Shape'
  BY <1>2 DEF RequestCancel
<1>3. ASSUME NEW j \in Jobs, LeaseExpires(j) PROVE Shape'
  BY <1>3 DEF LeaseExpires
<1>4. ASSUME NEW w \in Workers, NEW j \in Jobs, ReceiveCancel(w, j) PROVE Shape'
  BY <1>4 DEF ReceiveCancel, TypeOK, Task
<1>5. ASSUME NEW w \in Workers, NEW j \in Jobs, Requeue(w, j) PROVE Shape'
  BY <1>5 DEF Requeue
<1>6. ASSUME NEW w \in Workers, Dequeue(w) PROVE Shape'
  <2> DEFINE q == IF queue[w] # <<>> THEN w ELSE Shared
  <2>1. q \in Queues /\ queue[q] \in Seq(Jobs) /\ queue[q] # <<>>
    BY <1>6 DEF Dequeue, Queues, Typed, TypeOK
  <2>2. Head(queue[q]) \in Jobs
    BY <2>1
  <2>3. /\ consumer' = [consumer EXCEPT ![w] = [at |-> "popped", job |-> Head(queue[q])]]
        /\ task' = task
    BY <1>6 DEF Dequeue
  <2> QED
    BY <2>2, <2>3 DEF TypeOK
<1>7. ASSUME NEW w \in Workers, Claim(w) PROVE Shape'
  <2>1. task' = task /\ consumer[w].at # "idle" /\ consumer[w] \in Consumer
    BY <1>7, InHand DEF Claim
  <2>2. PICK a \in {"claimed", "unclaimable"} : consumer' = [consumer EXCEPT ![w].at = a]
    BY <1>7 DEF Claim
  <2> QED
    BY <2>1, <2>2 DEF TypeOK, Consumer
<1>8. ASSUME NEW w \in Workers, NEW t \in Tasks, Start(w, t) PROVE Shape'
  BY <1>8 DEF Start, TypeOK, Consumer, Task, Idle, Free
<1>9. ASSUME NEW w \in Workers, ReadUnclaimable(w) PROVE Shape'
  BY <1>9 DEF ReadUnclaimable, TypeOK, Consumer, Idle
<1>10. ASSUME NEW w \in Workers, SettleUnclaimable(w) PROVE Shape'
  BY <1>10 DEF SettleUnclaimable, TypeOK, Idle
<1>11. ASSUME NEW w \in Workers, Abandon(w) PROVE Shape'
  BY <1>11 DEF Abandon, TypeOK, Idle
<1>12. ASSUME NEW w \in Workers, Reap(w) PROVE Shape'
  BY <1>12 DEF Reap
<1>13. ASSUME NEW t \in Tasks, Begin(t) PROVE Shape'
  BY <1>13 DEF Begin, At, TypeOK, Task
<1>14. ASSUME NEW t \in Tasks, Select(t) PROVE Shape'
  BY <1>14 DEF Select, At, TypeOK, Task
<1>15. ASSUME NEW t \in Tasks, NEW w \in Workers, SelectElsewhere(t, w) PROVE Shape'
  BY <1>15 DEF SelectElsewhere, At, TypeOK, Task
<1>16. ASSUME NEW t \in Tasks, RunFails(t) PROVE Shape'
  BY <1>16 DEF RunFails, At, TypeOK, Task
<1>17. ASSUME NEW t \in Tasks, RunReturns(t) PROVE Shape'
  BY <1>17 DEF RunReturns, At, TypeOK, Task
<1>18. ASSUME NEW t \in Tasks, HandOffRow(t) PROVE Shape'
  <2>1. consumer' = consumer /\ task[t].call = "handOff" /\ task[t] \in Task
    BY <1>18, InHand DEF HandOffRow
  <2>2. CASE task' = [task EXCEPT ![t].call = "push"]
    BY <2>1, <2>2 DEF TypeOK, Task
  <2>3. CASE task' = [task EXCEPT ![t] = AfterCall(@, "refused")]
    BY <2>1, <2>3 DEF TypeOK, Task, AfterCall, Awaiting, Free
  <2> QED
    BY <1>18, <2>2, <2>3 DEF HandOffRow
<1>19. ASSUME NEW t \in Tasks, HandOffPush(t) PROVE Shape'
  <2>1. consumer' = consumer /\ task[t].call = "push" /\ task[t] \in Task
    BY <1>19, InHand DEF HandOffPush
  <2>2. PICK c \in {"handedOff", "refused"} : task' = [task EXCEPT ![t] = AfterCall(@, c)]
    BY <1>19 DEF HandOffPush
  <2> QED
    BY <2>1, <2>2 DEF TypeOK, Task, AfterCall, Awaiting, Free
<1>20. ASSUME NEW t \in Tasks, HandedOff(t) PROVE Shape'
  BY <1>20 DEF HandedOff, At, TypeOK, Task
<1>21. ASSUME NEW t \in Tasks, HandOffRefused(t) PROVE Shape'
  BY <1>21 DEF HandOffRefused, At, TypeOK, Task
<1>22. ASSUME NEW t \in Tasks, Persist(t) PROVE Shape'
  BY <1>22 DEF Persist, TypeOK, Task, AfterCall, Awaiting, Free
<1>23. ASSUME NEW t \in Tasks, Persisted(t) PROVE Shape'
  BY <1>23 DEF Persisted, At, TypeOK, Task
<1>24. ASSUME NEW t \in Tasks, CancelInTry(t) PROVE Shape'
  BY <1>24 DEF CancelInTry, TypeOK, Task, Unread
<1>25. ASSUME NEW t \in Tasks, CancelOutsideTry(t) PROVE Shape'
  BY <1>25 DEF CancelOutsideTry, TypeOK, Task, Unread
<1>26. ASSUME NEW t \in Tasks, Finished(t) PROVE Shape'
  BY <1>26 DEF Finished, TypeOK, Task, AfterTask, Free
<1>27. ASSUME NEW t \in Tasks, RecordCancel(t) PROVE Shape'
  BY <1>27 DEF RecordCancel, TypeOK, Task, AfterTask, Free
<1>28. ASSUME NEW t \in Tasks, WatchdogCancels(t) PROVE Shape'
  <2>1. consumer' = consumer
    BY <1>28 DEF WatchdogCancels
  <2>2. \A u \in Tasks : /\ task'[u].pc = task[u].pc /\ task'[u].call = task[u].call
                         /\ task'[u].on = task[u].on /\ task'[u].job = task[u].job
                         /\ task'[u].dest = task[u].dest
    BY <1>28, InHand DEF WatchdogCancels, Task
  <2> QED
    BY <2>1, <2>2 DEF Typed, Shape
<1>29. ASSUME NEW t \in Tasks, WatchdogRenews(t) PROVE Shape'
  BY <1>29 DEF WatchdogRenews
<1>30. ASSUME NEW w \in Workers, LoseProcess(w) PROVE Shape'
  BY <1>30 DEF LoseProcess, TypeOK, Idle, Free
<1>31. ASSUME NEW w \in Workers, Crash(w) PROVE Shape'
  BY <1>30, <1>31 DEF Crash
<1>32. ASSUME NEW w \in Workers, Restart(w) PROVE Shape'
  BY <1>32 DEF Restart
<1>33. ASSUME NEW w \in Workers, BeginShutdown(w) PROVE Shape'
  BY <1>33 DEF BeginShutdown
<1>34. ASSUME NEW w \in Workers, CancelRemaining(w) PROVE Shape'
  BY <1>34 DEF CancelRemaining, TypeOK, Task
<1>35. ASSUME NEW w \in Workers, Exit(w) PROVE Shape'
  BY <1>30, <1>35 DEF Exit
<1>36. ASSUME FlushRedis PROVE Shape'
  BY <1>36 DEF FlushRedis
<1>37. CASE UNCHANGED vars
  BY <1>37 DEF vars
<1> QED
  BY <1>1, <1>2, <1>3, <1>4, <1>5, <1>6, <1>7, <1>8, <1>9, <1>10, <1>11, <1>12,
     <1>13, <1>14, <1>15, <1>16, <1>17, <1>18, <1>19, <1>20, <1>21, <1>22, <1>23,
     <1>24, <1>25, <1>26, <1>27, <1>28, <1>29, <1>31, <1>32, <1>33, <1>34, <1>35,
     <1>36, <1>37
     DEF Next, Consume, Coroutine, Thread, Watchdog, Process

(* Every variable has its type in every reachable state, whatever the      *)
(* numbers of jobs, workers, tasks and faults (all of jobs/ that is        *)
(* modelled).                                                              *)
THEOREM TypeCorrect == Spec => []TypeOK
<1>1. Typed /\ [Next]_vars => Typed'
  BY StepType, StepShape DEF Typed
<1>2. Typed => TypeOK
  BY DEF Typed
<1> QED
  BY <1>1, <1>2, InitTyped, PTL DEF Spec


----------------------------------------------------------------------------
(* The inductive invariant.                                                *)

(* A consumer about to start a job does so under the lease it claimed.     *)
StartsUnderItsLease ==
  \A w \in Workers, j \in Jobs :
    Starting(w, j) /\ row[j].status = "running" => row[j].lease = w

(* Once a run of j has read the cluster nobody can claim j again, start it *)
(* or give it back: this is why a second collection is impossible.         *)
CollectedIsClaimed ==
  \A j \in Jobs : collected[j] > 0 =>
    /\ row[j].status \notin {"none", "pending"}
    /\ \A w \in Workers : ~Starting(w, j)
    /\ \A t \in Tasks : ~Early(t, j)

Safe ==
  /\ OneRunner
  /\ RunningIsLeased
  /\ RunsUnderItsLease
  /\ StartsUnderItsLease
  /\ CollectedAtMostOnce
  /\ CollectedIsClaimed

Inv == Typed /\ Safe

----------------------------------------------------------------------------
(* Most steps are quiet: a row is settled or keeps its status and lease,   *)
(* nobody gets a job in hand, and nothing begins to read the cluster.      *)
RowsQuiet ==
  \A j \in Jobs :
    \/ row'[j].status = row[j].status /\ row'[j].lease = row[j].lease
    \/ row'[j].status \in Terminal /\ row'[j].lease = Nobody

HandsQuiet ==
  /\ \A w \in Workers, j \in Jobs : Starting(w, j)' => Starting(w, j)
  /\ \A t \in Tasks, j \in Jobs : Early(t, j)' => Early(t, j)
  /\ \A t \in Tasks, j \in Jobs :
       Running(t, j)' => Running(t, j) /\ task'[t].on = task[t].on

Quiet == RowsQuiet /\ HandsQuiet /\ collected' = collected

(* The others: a submission, a claim that matched the row, the start of a  *)
(* claimed job, the beginning of a collection, and a hand-off that matched.*)
Took(w) == Claim(w) /\ Claimable(consumer[w].job)
GaveBack(t) ==
  /\ HandOffRow(t)
  /\ Returnable(task[t].job, task[t].on)
  /\ GiveBack(task[t].job)
  /\ task' = [task EXCEPT ![t].call = "push"]

Loud ==
  \/ \E j \in Jobs : Submit(j)
  \/ \E w \in Workers : Took(w)
  \/ \E w \in Workers, t \in Tasks : Start(w, t)
  \/ \E t \in Tasks : Select(t) \/ GaveBack(t)

(* Settling a row, or failing to, is quiet.                                *)
LEMMA SettleQuiet ==
  ASSUME TypeOK, NEW j \in Jobs, NEW o \in Terminal, TrySettle(j, o)
  PROVE  RowsQuiet
BY DEF TypeOK, Row, TrySettle, Settle, StatementFails, RowsQuiet

(* Every step is quiet or one of the five.                                 *)
LEMMA StepKinds == Typed /\ [Next]_vars => Quiet \/ Loud
<1> SUFFICES ASSUME Typed, [Next]_vars PROVE Quiet \/ Loud
  OBVIOUS
<1> USE DEF Typed
<1>1. ASSUME NEW j \in Jobs, Submit(j) PROVE Loud
  BY <1>1 DEF Loud
<1>2. ASSUME NEW j \in Jobs, RequestCancel(j) PROVE Quiet
  <2>1. RowsQuiet
    BY <1>2, InHand DEF RequestCancel, TypeOK, Row, RowsQuiet
  <2>2. HandsQuiet
    BY <1>2, InHand DEF RequestCancel, HandsQuiet, Starting, Early, Running
  <2> QED
    BY <1>2, <2>1, <2>2 DEF RequestCancel, Quiet
<1>3. ASSUME NEW j \in Jobs, LeaseExpires(j) PROVE Quiet
  <2>1. RowsQuiet
    BY <1>3, InHand DEF LeaseExpires, TypeOK, Row, RowsQuiet
  <2>2. HandsQuiet
    BY <1>3, InHand DEF LeaseExpires, HandsQuiet, Starting, Early, Running
  <2> QED
    BY <1>3, <2>1, <2>2 DEF LeaseExpires, Quiet
<1>4. ASSUME NEW w \in Workers, NEW j \in Jobs, ReceiveCancel(w, j) PROVE Quiet
  <2>1. HandsQuiet
    BY <1>4, InHand DEF ReceiveCancel, TypeOK, Task, HandsQuiet, Starting, Early,
       Running
  <2> QED
    BY <1>4, <2>1 DEF ReceiveCancel, Quiet, RowsQuiet
<1>5. ASSUME NEW w \in Workers, NEW j \in Jobs, Requeue(w, j) PROVE Quiet
  <2>1. HandsQuiet
    BY <1>5, InHand DEF Requeue, HandsQuiet, Starting, Early, Running
  <2> QED
    BY <1>5, <2>1 DEF Requeue, Quiet, RowsQuiet
<1>6. ASSUME NEW w \in Workers, Dequeue(w) PROVE Quiet
  <2>1. HandsQuiet
    BY <1>6, InHand DEF Dequeue, TypeOK, HandsQuiet, Starting, Early, Running
  <2> QED
    BY <1>6, <2>1 DEF Dequeue, Quiet, RowsQuiet
<1>7. ASSUME NEW w \in Workers, Claim(w) PROVE Quiet \/ Loud
  <2>1. CASE Claimable(consumer[w].job)
    BY <1>7, <2>1 DEF Loud, Took
  <2>2. CASE ~Claimable(consumer[w].job)
    <3>1. /\ row' = row /\ task' = task /\ collected' = collected
          /\ consumer' = [consumer EXCEPT ![w].at = "unclaimable"]
      BY <1>7, <2>2 DEF Claim
    <3> QED
      BY <3>1 DEF TypeOK, Consumer, Quiet, RowsQuiet, HandsQuiet, Starting, Early,
         Running
  <2> QED
    BY <2>1, <2>2
<1>8. ASSUME NEW w \in Workers, NEW t \in Tasks, Start(w, t) PROVE Loud
  BY <1>8 DEF Loud
<1>9. ASSUME NEW w \in Workers, ReadUnclaimable(w) PROVE Quiet
  <2>1. HandsQuiet
    BY <1>9, InHand DEF ReadUnclaimable, TypeOK, Consumer, Idle, HandsQuiet,
       Starting, Early, Running
  <2> QED
    BY <1>9, <2>1 DEF ReadUnclaimable, Quiet, RowsQuiet
<1>10. ASSUME NEW w \in Workers, SettleUnclaimable(w) PROVE Quiet
  <2>1. RowsQuiet
    BY <1>10, SettleQuiet, InHand DEF SettleUnclaimable, TrySettle, Terminal
  <2>2. HandsQuiet
    BY <1>10, InHand DEF SettleUnclaimable, TypeOK, Idle, HandsQuiet, Starting,
       Early, Running
  <2> QED
    BY <1>10, <2>1, <2>2 DEF SettleUnclaimable, Quiet
<1>11. ASSUME NEW w \in Workers, Abandon(w) PROVE Quiet
  <2>1. HandsQuiet
    BY <1>11, InHand DEF Abandon, TypeOK, Idle, HandsQuiet, Starting, Early, Running
  <2> QED
    BY <1>11, <2>1 DEF Abandon, Quiet, RowsQuiet
<1>12. ASSUME NEW w \in Workers, Reap(w) PROVE Quiet
  <2>1. RowsQuiet
    BY <1>12, InHand DEF Reap, Reaped, TypeOK, Row, RowsQuiet, Terminal
  <2>2. HandsQuiet
    BY <1>12, InHand DEF Reap, HandsQuiet, Starting, Early, Running
  <2> QED
    BY <1>12, <2>1, <2>2 DEF Reap, Quiet
<1>13. ASSUME NEW t \in Tasks, Begin(t) PROVE Quiet
  <2>1. HandsQuiet
    BY <1>13, InHand DEF Begin, At, TypeOK, Task, HandsQuiet, Starting, Early,
       Running
  <2> QED
    BY <1>13, <2>1 DEF Begin, Quiet, RowsQuiet
<1>14. ASSUME NEW t \in Tasks, Select(t) PROVE Loud
  BY <1>14 DEF Loud
<1>15. ASSUME NEW t \in Tasks, NEW w \in Workers, SelectElsewhere(t, w) PROVE Quiet
  <2>1. HandsQuiet
    BY <1>15, InHand DEF SelectElsewhere, At, TypeOK, Task, HandsQuiet, Starting,
       Early, Running
  <2> QED
    BY <1>15, <2>1 DEF SelectElsewhere, Quiet, RowsQuiet
<1>16. ASSUME NEW t \in Tasks, RunFails(t) PROVE Quiet
  <2>1. RowsQuiet
    BY <1>16, SettleQuiet, InHand DEF RunFails, At, Terminal
  <2>2. HandsQuiet
    BY <1>16, InHand DEF RunFails, At, TypeOK, Shape, Task, HandsQuiet, Starting,
       Early, Running
  <2> QED
    BY <1>16, <2>1, <2>2 DEF RunFails, Quiet
<1>17. ASSUME NEW t \in Tasks, RunReturns(t) PROVE Quiet
  <2>1. HandsQuiet
    BY <1>17, InHand DEF RunReturns, At, TypeOK, Task, HandsQuiet, Starting,
       Early, Running
  <2> QED
    BY <1>17, <2>1 DEF RunReturns, Quiet, RowsQuiet
<1>18. ASSUME NEW t \in Tasks, HandOffRow(t) PROVE Quiet \/ Loud
  <2> DEFINE j == task[t].job
  <2>1. CASE Returnable(j, task[t].on) /\ GiveBack(j) /\ task' = [task EXCEPT ![t].call = "push"]
    BY <1>18, <2>1 DEF Loud, GaveBack
  <2>2. CASE row' = row /\ task' = [task EXCEPT ![t] = AfterCall(@, "refused")]
    <3>1. consumer' = consumer /\ collected' = collected /\ task[t].call = "handOff"
      BY <1>18 DEF HandOffRow
    <3>2. HandsQuiet
      BY <2>2, <3>1 DEF TypeOK, Shape, Task, AfterCall, Awaiting, Free,
         HandsQuiet, Starting,
         Early, Running
    <3> QED
      BY <2>2, <3>1, <3>2 DEF Quiet, RowsQuiet
  <2> QED
    BY <1>18, <2>1, <2>2 DEF HandOffRow, StatementFails
<1>19. ASSUME NEW t \in Tasks, HandOffPush(t) PROVE Quiet
  <2>1. HandsQuiet
    <3>1. /\ consumer' = consumer /\ task[t].call = "push"
          /\ task[t].pc \notin {"free", "created", "selecting", "collecting"}
      BY <1>19 DEF HandOffPush, Shape
    <3>2. PICK c \in {"handedOff", "refused"} : task' = [task EXCEPT ![t] = AfterCall(@, c)]
      BY <1>19 DEF HandOffPush
    <3>3. /\ \A u \in Tasks : u # t => task'[u] = task[u]
          /\ task'[t] = Free \/ (task'[t].pc = task[t].pc /\ task'[t].call # "handOff")
      BY <3>2, InHand DEF TypeOK, Task, AfterCall
    <3> QED
      BY <3>1, <3>3 DEF Free, HandsQuiet, Starting, Early, Running
  <2> QED
    BY <1>19, <2>1 DEF HandOffPush, Quiet, RowsQuiet
<1>20. ASSUME NEW t \in Tasks, HandedOff(t) PROVE Quiet
  <2>1. HandsQuiet
    BY <1>20, InHand DEF HandedOff, At, TypeOK, Task, HandsQuiet, Starting, Early,
       Running
  <2> QED
    BY <1>20, <2>1 DEF HandedOff, Quiet, RowsQuiet
<1>21. ASSUME NEW t \in Tasks, HandOffRefused(t) PROVE Quiet
  <2>1. RowsQuiet
    BY <1>21, SettleQuiet, InHand DEF HandOffRefused, At, Terminal
  <2>2. HandsQuiet
    BY <1>21, InHand DEF HandOffRefused, At, TypeOK, Task, HandsQuiet, Starting,
       Early, Running
  <2> QED
    BY <1>21, <2>1, <2>2 DEF HandOffRefused, Quiet
<1>22. ASSUME NEW t \in Tasks, Persist(t) PROVE Quiet
  <2>1. RowsQuiet
    BY <1>22, SettleQuiet, InHand DEF Persist, Terminal
  <2>2. HandsQuiet
    BY <1>22, InHand DEF Persist, AfterCall, Awaiting, Free, TypeOK, Shape, Task,
       HandsQuiet, Starting, Early, Running
  <2> QED
    BY <1>22, <2>1, <2>2 DEF Persist, Quiet
<1>23. ASSUME NEW t \in Tasks, Persisted(t) PROVE Quiet
  <2>1. HandsQuiet
    BY <1>23, InHand DEF Persisted, At, TypeOK, Task, HandsQuiet, Starting, Early,
       Running
  <2> QED
    BY <1>23, <2>1 DEF Persisted, Quiet, RowsQuiet
<1>24. ASSUME NEW t \in Tasks, CancelInTry(t) PROVE Quiet
  <2>1. RowsQuiet
    BY <1>24, SettleQuiet, InHand DEF CancelInTry, TrySettle
  <2>2. HandsQuiet
    BY <1>24, InHand DEF CancelInTry, Unread, TypeOK, Task, HandsQuiet, Starting,
       Early, Running
  <2> QED
    BY <1>24, <2>1, <2>2 DEF CancelInTry, Quiet
<1>25. ASSUME NEW t \in Tasks, CancelOutsideTry(t) PROVE Quiet
  <2>1. HandsQuiet
    BY <1>25, InHand DEF CancelOutsideTry, Unread, TypeOK, Task, HandsQuiet,
       Starting, Early, Running
  <2> QED
    BY <1>25, <2>1 DEF CancelOutsideTry, Quiet, RowsQuiet
<1>26. ASSUME NEW t \in Tasks, Finished(t) PROVE Quiet
  <2>1. HandsQuiet
    BY <1>26, InHand DEF Finished, AfterTask, Free, TypeOK, Shape, Task,
       HandsQuiet, Starting, Early, Running
  <2> QED
    BY <1>26, <2>1 DEF Finished, Quiet, RowsQuiet
<1>27. ASSUME NEW t \in Tasks, RecordCancel(t) PROVE Quiet
  <2>1. RowsQuiet
    BY <1>27, SettleQuiet, InHand DEF RecordCancel
  <2>2. HandsQuiet
    BY <1>27, InHand DEF RecordCancel, AfterTask, Free, TypeOK, Shape, Task,
       HandsQuiet, Starting, Early, Running
  <2> QED
    BY <1>27, <2>1, <2>2 DEF RecordCancel, Quiet
<1>28. ASSUME NEW t \in Tasks, WatchdogCancels(t) PROVE Quiet
  <2>1. HandsQuiet
    BY <1>28, InHand DEF WatchdogCancels, TypeOK, Task, HandsQuiet, Starting,
       Early, Running
  <2> QED
    BY <1>28, <2>1 DEF WatchdogCancels, Quiet, RowsQuiet
<1>29. ASSUME NEW t \in Tasks, WatchdogRenews(t) PROVE Quiet
  <2>1. RowsQuiet
    BY <1>29, InHand DEF WatchdogRenews, TypeOK, Row, RowsQuiet
  <2>2. HandsQuiet
    BY <1>29, InHand DEF WatchdogRenews, HandsQuiet, Starting, Early, Running
  <2> QED
    BY <1>29, <2>1, <2>2 DEF WatchdogRenews, Quiet
<1>30. ASSUME NEW w \in Workers, LoseProcess(w) PROVE Quiet
  <2>1. HandsQuiet
    BY <1>30, InHand DEF LoseProcess, TypeOK, Idle, Free, HandsQuiet, Starting,
       Early, Running
  <2> QED
    BY <1>30, <2>1 DEF LoseProcess, Quiet, RowsQuiet
<1>31. ASSUME NEW w \in Workers, Crash(w) PROVE Quiet
  BY <1>30, <1>31 DEF Crash
<1>32. ASSUME NEW w \in Workers, Restart(w) PROVE Quiet
  <2>1. HandsQuiet
    BY <1>32, InHand DEF Restart, HandsQuiet, Starting, Early, Running
  <2> QED
    BY <1>32, <2>1 DEF Restart, Quiet, RowsQuiet
<1>33. ASSUME NEW w \in Workers, BeginShutdown(w) PROVE Quiet
  <2>1. HandsQuiet
    BY <1>33, InHand DEF BeginShutdown, HandsQuiet, Starting, Early, Running
  <2> QED
    BY <1>33, <2>1 DEF BeginShutdown, Quiet, RowsQuiet
<1>34. ASSUME NEW w \in Workers, CancelRemaining(w) PROVE Quiet
  <2>1. HandsQuiet
    BY <1>34, InHand DEF CancelRemaining, TypeOK, Task, HandsQuiet, Starting,
       Early, Running
  <2> QED
    BY <1>34, <2>1 DEF CancelRemaining, Quiet, RowsQuiet
<1>35. ASSUME NEW w \in Workers, Exit(w) PROVE Quiet
  BY <1>30, <1>35 DEF Exit
<1>36. ASSUME FlushRedis PROVE Quiet
  <2>1. HandsQuiet
    BY <1>36, InHand DEF FlushRedis, HandsQuiet, Starting, Early, Running
  <2> QED
    BY <1>36, <2>1 DEF FlushRedis, Quiet, RowsQuiet
<1>37. CASE UNCHANGED vars
  BY <1>37 DEF vars, Quiet, RowsQuiet, HandsQuiet, Starting, Early, Running
<1> QED
  BY <1>1, <1>2, <1>3, <1>4, <1>5, <1>6, <1>7, <1>8, <1>9, <1>10, <1>11, <1>12,
     <1>13, <1>14, <1>15, <1>16, <1>17, <1>18, <1>19, <1>20, <1>21, <1>22, <1>23,
     <1>24, <1>25, <1>26, <1>27, <1>28, <1>29, <1>31, <1>32, <1>33, <1>34, <1>35,
     <1>36, <1>37
     DEF Next, Consume, Coroutine, Thread, Watchdog, Process

----------------------------------------------------------------------------
(* Every kind of step keeps the invariant.                                 *)
LEMMA QuietSafe == Inv /\ Quiet /\ TypeOK' => Safe'
<1> SUFFICES ASSUME Inv, Quiet, TypeOK' PROVE Safe'
  OBVIOUS
<1> USE JobsAssumption DEF Inv, Safe, Quiet, RowsQuiet, HandsQuiet
<1>1. OneRunner'
  BY DEF OneRunner, Held, Terminal
<1>2. RunningIsLeased'
  BY DEF RunningIsLeased, Terminal
<1>3. RunsUnderItsLease'
  BY DEF RunsUnderItsLease, Terminal
<1>4. StartsUnderItsLease'
  BY DEF StartsUnderItsLease, Terminal
<1>5. CollectedAtMostOnce' /\ CollectedIsClaimed'
  BY DEF CollectedAtMostOnce, CollectedIsClaimed, Terminal
<1> QED
  BY <1>1, <1>2, <1>3, <1>4, <1>5

(* A new row is in nobody's hands.                                         *)
LEMMA SubmitSafe ==
  ASSUME Inv, NEW j \in Jobs, Submit(j)
  PROVE  Safe'
<1>1. /\ row[j].status = "none" /\ row[j].lease = Nobody
      /\ row'[j].status = "pending" /\ row'[j].lease = Nobody
      /\ \A k \in Jobs \ {j} : row'[k] = row[k]
  BY JobsAssumption DEF Submit, Inv, Typed, TypeOK, Row, Safe, RunningIsLeased
<1>2. UNCHANGED <<consumer, task, collected>>
  BY DEF Submit
<1> QED
  BY <1>1, <1>2 DEF Inv, Safe, OneRunner, RunningIsLeased, RunsUnderItsLease,
     StartsUnderItsLease,
     CollectedAtMostOnce, CollectedIsClaimed, Held, Starting, Early, Running

(* A claim finds a pending row, which nobody has in hand.                  *)
LEMMA TookSafe ==
  ASSUME Inv, NEW w \in Workers, Took(w)
  PROVE  Safe'
<1> DEFINE j == consumer[w].job
<1>1. /\ j \in Jobs /\ consumer[w].at = "popped" /\ row[j].status = "pending"
      /\ consumer' = [consumer EXCEPT ![w].at = "claimed"]
      /\ UNCHANGED <<task, collected>>
  BY InHand DEF Took, Claim, Claimable, Inv
<1>2. /\ row'[j].status = "running" /\ row'[j].lease = w
      /\ \A k \in Jobs \ {j} : row'[k] = row[k]
  <2>1. row' = [row EXCEPT ![j] = [@ EXCEPT !.status = "running", !.lease = w,
                                            !.expired = FALSE]]
    BY DEF Took, Claim
  <2>2. row \in [Jobs -> Row] /\ row[j] \in Row
    BY <1>1 DEF Inv, Typed, TypeOK
  <2> QED
    BY <1>1, <2>1, <2>2 DEF Row
<1>3. /\ Starting(w, j)'
      /\ \A x \in Workers, k \in Jobs : x # w \/ k # j => (Starting(x, k)' <=> Starting(x, k))
  BY <1>1 DEF Starting, Inv, Typed, TypeOK, Consumer
<1>4. \A t \in Tasks, k \in Jobs : /\ Early(t, k)' <=> Early(t, k)
                                   /\ Running(t, k)' <=> Running(t, k)
  BY <1>1 DEF Early, Running
<1>5. ~Held(j) /\ ~(collected[j] > 0)
  BY <1>1 DEF Inv, Safe, OneRunner, CollectedIsClaimed
<1>6. OneRunner'
  BY <1>1, <1>2, <1>3, <1>4, <1>5 DEF Inv, Safe, OneRunner, Held
<1>7. RunningIsLeased'
  BY <1>1, <1>2, JobsAssumption DEF Inv, Safe, RunningIsLeased
<1>8. RunsUnderItsLease' /\ StartsUnderItsLease'
  BY <1>1, <1>2, <1>3, <1>4, <1>5 DEF Inv, Safe, RunsUnderItsLease,
     StartsUnderItsLease, Held
<1>9. CollectedAtMostOnce' /\ CollectedIsClaimed'
  BY <1>1, <1>2, <1>3, <1>4, <1>5 DEF Inv, Safe, CollectedAtMostOnce,
     CollectedIsClaimed
<1> QED
  BY <1>6, <1>7, <1>8, <1>9 DEF Safe

(* The consumer passes the job to the task it starts.                      *)
LEMMA StartSafe ==
  ASSUME Inv, NEW w \in Workers, NEW t \in Tasks, Start(w, t)
  PROVE  Safe'
<1> DEFINE j == consumer[w].job
<1>1. /\ j \in Jobs /\ Starting(w, j) /\ task[t].pc = "free" /\ task[t].call = "none"
      /\ UNCHANGED <<row, collected>>
  BY InHand DEF Start, Starting, Inv, Typed, Shape
<1>2. /\ task'[t].pc = "created" /\ task'[t].on = w /\ task'[t].job = j /\ task'[t].call = "none"
      /\ \A u \in Tasks \ {t} : task'[u] = task[u]
  BY DEF Start, Free, Inv, Typed, TypeOK
<1>3. \A x \in Workers, k \in Jobs : Starting(x, k)' <=> Starting(x, k) /\ x # w
  BY DEF Start, Starting, Idle, Inv, Typed, TypeOK
<1>4. /\ \A u \in Tasks, k \in Jobs :
           u # t => (Early(u, k)' <=> Early(u, k)) /\ (Running(u, k)' <=> Running(u, k))
      /\ \A k \in Jobs : /\ ~Running(t, k) /\ ~Early(t, k)
                         /\ Running(t, k)' <=> k = j
                         /\ Early(t, k)' <=> k = j
  BY <1>1, <1>2 DEF Early, Running
<1>5. \A k \in Jobs : Starting(w, k) => k = j
  BY DEF Starting
<1>6. OneRunner'
  BY <1>1, <1>2, <1>3, <1>4, <1>5 DEF Inv, Safe, OneRunner, Held
<1>7. RunsUnderItsLease' /\ StartsUnderItsLease'
  BY <1>1, <1>2, <1>3, <1>4, <1>5 DEF Inv, Safe, RunsUnderItsLease,
     StartsUnderItsLease
<1>8. CollectedAtMostOnce' /\ CollectedIsClaimed'
  BY <1>1, <1>2, <1>3, <1>4, <1>5 DEF Inv, Safe, CollectedAtMostOnce,
     CollectedIsClaimed
<1> QED
  BY <1>1, <1>6, <1>7, <1>8 DEF Inv, Safe, RunningIsLeased

(* A collection begins in the only hands the job is in.                    *)
LEMMA SelectSafe ==
  ASSUME Inv, NEW t \in Tasks, Select(t)
  PROVE  Safe'
<1> DEFINE j == task[t].job
<1>1. /\ j \in Jobs /\ task[t].pc = "selecting" /\ task[t].call = "none"
      /\ UNCHANGED <<row, consumer>>
  BY InHand DEF Select, At, Inv, Typed, Shape
<1>2. /\ task'[t].pc = "collecting" /\ task'[t].on = task[t].on /\ task'[t].job = j
      /\ task'[t].call = "none"
      /\ \A u \in Tasks \ {t} : task'[u] = task[u]
  BY <1>1, InHand DEF Select, Inv, Typed, TypeOK, Task
<1>3. \A x \in Workers, k \in Jobs : Starting(x, k)' <=> Starting(x, k)
  BY <1>1 DEF Starting
<1>4. /\ \A u \in Tasks, k \in Jobs : /\ Running(u, k)' <=> Running(u, k)
                                      /\ Early(u, k)' <=> Early(u, k) /\ u # t
                                      /\ task'[u].on = task[u].on
      /\ Early(t, j) /\ Running(t, j)
  BY <1>1, <1>2 DEF Early, Running
<1>5. collected[j] = 0
  BY <1>1, <1>4 DEF Inv, Typed, TypeOK, Safe, CollectedIsClaimed
<1>6. collected'[j] = 1 /\ \A k \in Jobs \ {j} : collected'[k] = collected[k]
  BY <1>1, <1>5 DEF Select, Inv, Typed, TypeOK
<1>7. OneRunner' /\ RunsUnderItsLease' /\ StartsUnderItsLease' /\ RunningIsLeased'
  BY <1>1, <1>3, <1>4 DEF Inv, Safe, OneRunner, Held, RunsUnderItsLease,
     StartsUnderItsLease,
     RunningIsLeased
<1>8. CollectedAtMostOnce'
  BY <1>6 DEF Inv, Safe, CollectedAtMostOnce
<1>9. CollectedIsClaimed'
  <2>1. /\ row[j].status \notin {"none", "pending"} /\ \A w \in Workers : ~Starting(w, j)
        /\ \A u \in Tasks \ {t} : ~Early(u, j)
    BY <1>1, <1>4 DEF Inv, Safe, OneRunner, Held, Running
  <2> QED
    BY <1>1, <1>3, <1>4, <1>6, <2>1 DEF Inv, Safe, CollectedIsClaimed
<1> QED
  BY <1>7, <1>8, <1>9 DEF Safe

(* A hand-off takes the job out of the only hands it is in.                *)
LEMMA GaveBackSafe ==
  ASSUME Inv, NEW t \in Tasks, GaveBack(t)
  PROVE  Safe'
<1> DEFINE j == task[t].job
<1>1. /\ j \in Jobs /\ task[t].call = "handOff" /\ UNCHANGED <<consumer, collected>>
      /\ task[t].pc \notin {"created", "selecting", "collecting"}
  BY InHand DEF GaveBack, HandOffRow, Inv, Typed, Shape
<1>2. /\ task'[t].pc = task[t].pc /\ task'[t].on = task[t].on /\ task'[t].job = j
      /\ task'[t].call = "push"
      /\ \A u \in Tasks \ {t} : task'[u] = task[u]
  BY <1>1, InHand DEF GaveBack, Inv, Typed, TypeOK, Task
<1>3. /\ row'[j].status = "pending" /\ row'[j].lease = Nobody
      /\ \A k \in Jobs \ {j} : row'[k] = row[k]
  BY <1>1 DEF GaveBack, GiveBack, Inv, Typed, TypeOK, Row
<1>4. \A x \in Workers, k \in Jobs : Starting(x, k)' <=> Starting(x, k)
  BY <1>1 DEF Starting
<1>5. /\ \A u \in Tasks, k \in Jobs : /\ Running(u, k)' <=> Running(u, k) /\ u # t
                                      /\ Early(u, k)' <=> Early(u, k) /\ u # t
                                      /\ task'[u].on = task[u].on
      /\ Early(t, j) /\ Running(t, j)
  BY <1>1, <1>2 DEF Early, Running
<1>6. OneRunner'
  <2>1. /\ \A x \in Workers : ~Starting(x, j)
        /\ \A u \in Tasks : Running(u, j) => u = t
    BY <1>1, <1>5 DEF Inv, Safe, OneRunner
  <2> QED
    BY <1>1, <1>3, <1>4, <1>5, <2>1 DEF Inv, Safe, OneRunner, Held
<1>7. RunningIsLeased'
  BY <1>1, <1>3, JobsAssumption DEF Inv, Safe, RunningIsLeased
<1>8. RunsUnderItsLease' /\ StartsUnderItsLease'
  BY <1>1, <1>3, <1>4, <1>5 DEF Inv, Safe, RunsUnderItsLease, StartsUnderItsLease
<1>9. CollectedAtMostOnce' /\ CollectedIsClaimed'
  BY <1>1, <1>3, <1>4, <1>5 DEF Inv, Safe, CollectedAtMostOnce, CollectedIsClaimed
<1> QED
  BY <1>6, <1>7, <1>8, <1>9 DEF Safe

(* Initially no job exists.                                                *)
LEMMA InitSafe == Init => Safe
BY JobsAssumption DEF Init, Idle, Free, Safe, OneRunner, RunningIsLeased,
   RunsUnderItsLease,
   StartsUnderItsLease, CollectedAtMostOnce, CollectedIsClaimed, Held, Starting, Early, Running

(* The invariant is inductive.                                             *)
LEMMA StepInv == Inv /\ [Next]_vars => Inv'
<1> SUFFICES ASSUME Inv, [Next]_vars PROVE Inv'
  OBVIOUS
<1>1. Typed'
  BY StepType, StepShape DEF Inv, Typed
<1>2. CASE Quiet
  BY <1>1, <1>2, QuietSafe DEF Inv, Typed
<1>3. CASE Loud
  BY <1>1, <1>3, SubmitSafe, TookSafe, StartSafe, SelectSafe, GaveBackSafe
     DEF Loud, Inv
<1> QED
  BY <1>2, <1>3, StepKinds DEF Inv

(* The inductive invariant holds in every reachable state.                 *)
THEOREM InvariantHolds == Spec => []Inv
<1>1. Init => Inv
  BY InitTyped, InitSafe DEF Inv
<1> QED
  BY <1>1, StepInv, PTL DEF Spec

(* No investigation is in two hands at once, on two workers or one, and a  *)
(* row on offer is in nobody's (the conditional UPDATEs of claim and       *)
(* hand_off in jobs/distributed.py).                                       *)
THEOREM NoSecondRunner == Spec => []OneRunner
<1>1. Inv => OneRunner
  BY DEF Inv, Safe
<1> QED
  BY <1>1, InvariantHolds, PTL

(* No investigation begins to read the cluster a second time, however many *)
(* re-offers, hand-offs, crashes and lapsed leases there are.              *)
THEOREM NeverCollectedTwice == Spec => []CollectedAtMostOnce
<1>1. Inv => CollectedAtMostOnce
  BY DEF Inv, Safe
<1> QED
  BY <1>1, InvariantHolds, PTL

(* Exactly the running rows are leased, and whoever runs one is on the     *)
(* worker in the lease, which is the one that renews it.                   *)
THEOREM LeaseIsKept == Spec => [](RunningIsLeased /\ RunsUnderItsLease)
<1>1. Inv => RunningIsLeased /\ RunsUnderItsLease
  BY DEF Inv, Safe
<1> QED
  BY <1>1, InvariantHolds, PTL

(* A settled investigation is never offered or run again.                  *)
THEOREM TerminalIsForGood == Spec => NeverReopened
<1> DEFINE A == \A j \in Jobs : row[j].status \in Terminal => row'[j].status \in Terminal
<1>1. Inv /\ [Next]_vars => [A]_vars
  <2> SUFFICES ASSUME Inv, [Next]_vars PROVE A
    OBVIOUS
  <2>1. CASE Quiet
    BY <2>1 DEF Quiet, RowsQuiet
  <2>2. ASSUME NEW k \in Jobs, Submit(k) PROVE A
    BY <2>2 DEF Submit, Terminal, Inv, Typed, TypeOK
  <2>3. ASSUME NEW w \in Workers, Took(w) PROVE A
    BY <2>3 DEF Took, Claim, Claimable, Terminal, Inv, Typed, TypeOK
  <2>4. ASSUME NEW w \in Workers, NEW t \in Tasks, Start(w, t) PROVE A
    BY <2>4 DEF Start
  <2>5. ASSUME NEW t \in Tasks, Select(t) PROVE A
    BY <2>5 DEF Select
  <2>6. ASSUME NEW t \in Tasks, GaveBack(t) PROVE A
    BY <2>6 DEF GaveBack, Returnable, GiveBack, Terminal, Inv, Typed, TypeOK
  <2> QED
    BY <2>1, <2>2, <2>3, <2>4, <2>5, <2>6, StepKinds DEF Loud, Inv
<1> QED
  BY <1>1, InvariantHolds, PTL DEF Spec, NeverReopened

(* An investigation cancelled while in nobody's hands never comes into any.*)
THEOREM CancelBeatsClaim == Spec => CancelledIsNeverClaimed
<1> DEFINE A == \A j \in Jobs : row[j].cancel /\ ~Held(j) => ~Held(j)'
<1>1. Inv /\ [Next]_vars => [A]_vars
  <2> SUFFICES ASSUME Inv, [Next]_vars PROVE A
    OBVIOUS
  <2>1. CASE Quiet
    BY <2>1 DEF Quiet, HandsQuiet, Held
  <2>2. ASSUME NEW k \in Jobs, Submit(k) PROVE A
    BY <2>2 DEF Submit, Held, Starting, Early, Running
  <2>3. ASSUME NEW w \in Workers, Took(w) PROVE A
    <3>1. \A x \in Workers, k \in Jobs : Starting(x, k)' => Starting(x, k) \/ k = consumer[w].job
      <4>1. consumer' = [consumer EXCEPT ![w].at = "claimed"]
        BY <2>3 DEF Took, Claim
      <4> QED
        BY <4>1 DEF Starting, Inv, Typed, TypeOK, Consumer
    <3>2. ~row[consumer[w].job].cancel /\ task' = task
      BY <2>3 DEF Took, Claim, Claimable
    <3> QED
      BY <3>1, <3>2 DEF Held, Early, Running
  <2>4. ASSUME NEW w \in Workers, NEW t \in Tasks, Start(w, t) PROVE A
    <3>1. \A k \in Jobs : Held(k)' => Held(k)
      BY <2>4 DEF Start, Held, Starting, Early, Running, Idle, Free, Inv, Typed,
         TypeOK
    <3> QED
      BY <3>1
  <2>5. ASSUME NEW t \in Tasks, Select(t) PROVE A
    BY <2>5 DEF Select, At, Held, Starting, Early, Running, Inv, Typed, TypeOK, Task
  <2>6. ASSUME NEW t \in Tasks, GaveBack(t) PROVE A
    BY <2>6 DEF GaveBack, HandOffRow, Held, Starting, Early, Running, Inv, Typed,
       TypeOK, Task
  <2> QED
    BY <2>1, <2>2, <2>3, <2>4, <2>5, <2>6, StepKinds DEF Loud, Inv
<1> QED
  BY <1>1, InvariantHolds, PTL DEF Spec, CancelledIsNeverClaimed

----------------------------------------------------------------------------
(* The refinement: quiet steps conclude, and the five others are the       *)
(* contract's actions.                                                     *)
(* A job is in at most one worker's hands.                                 *)
LEMMA AtMostOneHand ==
  ASSUME Inv, NEW j \in Jobs, NEW w \in HandsOf(j)
  PROVE  HandsOf(j) = {w}
BY DEF HandsOf, Inv, Safe, OneRunner

(* Initial states are initial states of the contract.                      *)
LEMMA ContractInit == Init => Contract!Init
BY JobsAssumption DEF Init, Contract!Init, HandsOf, Starting, Running, Early,
   Idle, Free

(* A quiet step loses hold of jobs or settles them, if it does anything.   *)
LEMMA QuietConcludes ==
  ASSUME Inv, Quiet
  PROVE  Contract!Next
<1> SUFFICES ASSUME NEW j \in Jobs PROVE Contract!Conclude(j)
  BY DEF Contract!Next, Contract!JobStep
<1>1. HandsOf(j)' \subseteq HandsOf(j)
  BY DEF Quiet, HandsQuiet, HandsOf
<1>2. HandsOf(j)' \in {{}, HandsOf(j)}
  BY <1>1, AtMostOneHand
<1>3. row'[j].status \in Terminal \cup {row[j].status} /\ collected'[j] = collected[j]
  BY DEF Quiet, RowsQuiet
<1> QED
  BY <1>2, <1>3 DEF Contract!Conclude

(* A step that takes, offers, gives back or reads moves one job; of the    *)
(* others it leaves everything as it was.                                  *)
LEMMA OneMoves ==
  ASSUME NEW j \in Jobs,
         \A k \in Jobs \ {j} : /\ row'[k] = row[k] /\ collected'[k] = collected[k]
                               /\ HandsOf(k)' = HandsOf(k),
         Contract!JobStep(j)
  PROVE  Contract!Next
<1>1. \A k \in Jobs \ {j} : Contract!JobStep(k)
  BY DEF Contract!JobStep, Contract!Same
<1> QED
  BY <1>1 DEF Contract!Next

(* Each other step is an action of the contract for one job.               *)
LEMMA LoudIsPromised ==
  ASSUME Inv, Loud
  PROVE  Contract!Next
<1> USE DEF Inv, Typed
<1>1. ASSUME NEW j \in Jobs, Submit(j) PROVE Contract!Next
  <2>1. /\ row[j].status = "none" /\ row'[j].status = "pending"
        /\ \A k \in Jobs \ {j} : row'[k] = row[k]
        /\ UNCHANGED <<consumer, task, collected>>
    BY <1>1 DEF Submit, TypeOK, Row
  <2>2. \A k \in Jobs : HandsOf(k)' = HandsOf(k)
    BY <2>1 DEF HandsOf, Starting, Early, Running
  <2>3. Contract!Accept(j)
    BY <2>1, <2>2 DEF Contract!Accept
  <2> QED
    BY <2>1, <2>2, <2>3, OneMoves DEF Contract!JobStep
<1>2. ASSUME NEW w \in Workers, Took(w) PROVE Contract!Next
  <2> DEFINE j == consumer[w].job
  <2>1. /\ j \in Jobs /\ consumer[w].at = "popped" /\ row[j].status = "pending"
        /\ consumer' = [consumer EXCEPT ![w].at = "claimed"]
        /\ row' = [row EXCEPT ![j] = [@ EXCEPT !.status = "running", !.lease = w,
                                              !.expired = FALSE]]
        /\ UNCHANGED <<task, collected>>
    BY <1>2, InHand DEF Took, Claim, Claimable
  <2>2. /\ row'[j].status = "running"
        /\ \A k \in Jobs \ {j} : row'[k] = row[k]
    BY <2>1, InHand DEF TypeOK, Row
  <2>3. \A x \in Workers, k \in Jobs : Starting(x, k)' <=> Starting(x, k) \/ (x = w /\ k = j)
    BY <2>1 DEF Starting, TypeOK, Consumer
  <2>4. \A k \in Jobs : HandsOf(k)' = IF k = j THEN HandsOf(k) \cup {w} ELSE HandsOf(k)
    BY <2>1, <2>3 DEF HandsOf, Early, Running
  <2>5. HandsOf(j) = {} /\ collected[j] = 0
    BY <2>1 DEF Safe, OneRunner, Held, HandsOf, CollectedIsClaimed, TypeOK
  <2>6. Contract!Take(j, w)
    BY <2>1, <2>2, <2>4, <2>5 DEF Contract!Take
  <2> QED
    BY <2>1, <2>2, <2>4, <2>6, OneMoves DEF Contract!JobStep
<1>3. ASSUME NEW w \in Workers, NEW t \in Tasks, Start(w, t) PROVE Contract!Next
  <2> DEFINE j == consumer[w].job
  <2>1. /\ j \in Jobs /\ Starting(w, j) /\ task[t].pc = "free" /\ task[t].call = "none"
        /\ UNCHANGED <<row, collected>>
    BY <1>3, InHand DEF Start, Starting, Shape
  <2>2. /\ task'[t].pc = "created" /\ task'[t].on = w /\ task'[t].job = j
        /\ task'[t].call = "none"
        /\ \A u \in Tasks \ {t} : task'[u] = task[u]
    BY <1>3 DEF Start, Free, TypeOK
  <2>3. \A x \in Workers, k \in Jobs : Starting(x, k)' <=> Starting(x, k) /\ x # w
    BY <1>3 DEF Start, Starting, Idle, TypeOK
  <2>4. \A u \in Tasks, k \in Jobs :
          Running(u, k)' <=> Running(u, k) \/ (u = t /\ k = j)
    BY <2>1, <2>2 DEF Early, Running
  <2>5. \A k \in Jobs : Starting(w, k) <=> k = j
    BY <2>1 DEF Starting
  <2>6. \A k \in Jobs, x \in Workers : x \in HandsOf(k)' <=> x \in HandsOf(k)
    BY <2>1, <2>2, <2>3, <2>4, <2>5 DEF HandsOf, Early, Running
  <2>7. \A k \in Jobs : HandsOf(k)' = HandsOf(k)
    BY <2>6 DEF HandsOf
  <2> QED
    BY <2>1, <2>7 DEF Contract!Next, Contract!JobStep, Contract!Same
<1>4. ASSUME NEW t \in Tasks, Select(t) PROVE Contract!Next
  <2>0. PICK j \in Jobs : j = task[t].job
    BY <1>4, InHand DEF Select, At, GaveBack, HandOffRow
  <2>1. /\ j \in Jobs /\ task[t].pc = "selecting" /\ task[t].on \in Workers
        /\ UNCHANGED <<row, consumer>>
    BY <1>4, <2>0, InHand DEF Select, At
  <2>2. /\ task'[t].pc = "collecting" /\ task'[t].on = task[t].on /\ task'[t].job = j
        /\ \A u \in Tasks \ {t} : task'[u] = task[u]
    BY <1>4, <2>0, <2>1, InHand DEF Select, TypeOK, Task
  <2>3. \A u \in Tasks, k \in Jobs : Running(u, k)' <=> Running(u, k)
    BY <2>0, <2>1, <2>2 DEF Early, Running
  <2>4. \A k \in Jobs : HandsOf(k)' = HandsOf(k)
    BY <2>1, <2>2, <2>3 DEF HandsOf, Starting
  <2>5. Early(t, j) /\ task[t].on \in HandsOf(j)
    BY <2>0, <2>1 DEF Early, Running, HandsOf
  <2>6. collected[j] = 0
    <3>1. ~(collected[j] > 0)
      BY <2>5 DEF Safe, CollectedIsClaimed
    <3>2. collected[j] \in Nat
      BY DEF TypeOK
    <3> QED
      BY <3>1, <3>2
  <2>7. collected'[j] = 1 /\ \A k \in Jobs \ {j} : collected'[k] = collected[k]
    BY <1>4, <2>0, <2>1, <2>6 DEF Select, TypeOK
  <2>8. Contract!Read(j)
    BY <2>1, <2>4, <2>5, <2>6, <2>7 DEF Contract!Read
  <2> QED
    BY <2>1, <2>4, <2>7, <2>8, OneMoves DEF Contract!JobStep
<1>5. ASSUME NEW t \in Tasks, GaveBack(t) PROVE Contract!Next
  <2>0. PICK j \in Jobs : j = task[t].job
    BY <1>5, InHand DEF Select, At, GaveBack, HandOffRow
  <2>1. /\ j \in Jobs /\ task[t].call = "handOff" /\ row[j].status = "running"
        /\ task[t].pc \notin {"created", "selecting", "collecting"}
        /\ UNCHANGED <<consumer, collected>>
    BY <1>5, <2>0, InHand DEF GaveBack, HandOffRow, Returnable, Shape
  <2>2. /\ task'[t].pc = task[t].pc /\ task'[t].on = task[t].on /\ task'[t].job = j
        /\ task'[t].call = "push"
        /\ \A u \in Tasks \ {t} : task'[u] = task[u]
    BY <1>5, <2>0, <2>1, InHand DEF GaveBack, TypeOK, Task
  <2>3. /\ row'[j].status = "pending"
        /\ \A k \in Jobs \ {j} : row'[k] = row[k]
    BY <1>5, <2>0, <2>1 DEF GaveBack, GiveBack, TypeOK, Row
  <2>4. \A u \in Tasks, k \in Jobs : Running(u, k)' <=> Running(u, k) /\ u # t
    BY <2>0, <2>1, <2>2 DEF Early, Running
  <2>5. Early(t, j) /\ Running(t, j) /\ \A k \in Jobs : Running(t, k) => k = j
    BY <2>0, <2>1 DEF Early, Running
  <2>6. HandsOf(j)' = {}
    BY <2>1, <2>2, <2>4, <2>5 DEF Safe, OneRunner, HandsOf, Starting
  <2>7. \A k \in Jobs \ {j} : HandsOf(k)' = HandsOf(k)
    BY <2>1, <2>2, <2>4, <2>5 DEF HandsOf, Starting
  <2>8. collected[j] = 0
    <3>1. ~(collected[j] > 0)
      BY <2>5 DEF Safe, CollectedIsClaimed
    <3>2. collected[j] \in Nat
      BY DEF TypeOK
    <3> QED
      BY <3>1, <3>2
  <2>9. Contract!GiveBack(j)
    BY <2>1, <2>3, <2>6, <2>8 DEF Contract!GiveBack
  <2> QED
    BY <2>1, <2>3, <2>7, <2>9, OneMoves DEF Contract!JobStep
<1> QED
  BY <1>1, <1>2, <1>3, <1>4, <1>5 DEF Loud

(* The rows, queues, threads and processes of jobs/ implement the contract *)
(* of a job: every step is a step of JobContract or changes nothing in it. *)
THEOREM ContractIsKept == Spec => KeepsContract
<1>1. Inv /\ [Next]_vars => [Contract!Next]_Contract!vars
  BY StepKinds, QuietConcludes, LoudIsPromised DEF Inv
<1> QED
  BY <1>1, ContractInit, InvariantHolds, PTL DEF Spec, KeepsContract, Contract!Spec
=============================================================================
