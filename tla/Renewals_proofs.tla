-------------------------- MODULE Renewals_proofs --------------------------
(* That no outage costs a live worker its investigation, for any length of *)
(* lease, interval of reaper and watchdog, and any outages; that an        *)
(* investigation finds its way, for all workers and any bounds on what     *)
(* moves and what fails; that a token buys one certificate, that what an   *)
(* agent uses is known to the ledger and safe from a crash, that a         *)
(* revocation lets one renewal slip at most, and that a certificate runs   *)
(* out only in trouble, for any life, any tokens and serials, and however  *)
(* much goes wrong; and that the calls of MCRenewals keep what             *)
(* AgentGateway_proofs shows of them alone.  Each behaviour of MCRenewals  *)
(* is one of each of the four, with stuttering.  C and Calls are two       *)
(* instances of one module with one substitution, so their definitions are *)
(* the same formulas; lemmas say so.                                       *)
EXTENDS MCRenewals, TLAPS

(* How much of the time to the next renewal is used up at least: what the  *)
(* watchdog has slept, and all of it once it asks for the renewal.         *)
Elapsed ==
  IF watch.at = "renewing" THEN Third + Poll ELSE watch.since + watch.slept

(* The reaper has not seen the outage that goes on.                        *)
OutageIsShort ==
  \/ reaper.at = "asleep" /\ store.for <= reaper.slept + Backoff
  \/ /\ reaper.at = "probing"
     /\ \/ store.for <= Reaper + Backoff
        \/ /\ store.state = "hanging" /\ reaper.took <= Third
           /\ store.for <= Reaper + Backoff + reaper.took
  \/ reaper.at = "reaping" /\ store.state = "refusing" /\ store.for = 0

(* It will not take its trust in the store from before the outage.         *)
OutageIsSeen ==
  \/ reaper.answering = None
  \/ reaper.at = "probing" /\ reaper.took > Third

(* While the worker lives, in the three phases of an outage: every renewal *)
(* so far was in time; the lease runs down; and the store answers again,   *)
(* but the renewal is still to come.                                       *)
Steady == lease + Elapsed >= Lease

DuringOutage ==
  /\ OutageIsSeen \/ OutageIsShort
  /\ store.for < Lease =>
       /\ store.state = "refusing" => lease + store.for + Third + Poll >= Lease
       /\ store.state = "hanging"  => lease + store.for + Elapsed >= Lease

AfterOutage ==
  /\ store.for <= Elapsed
  /\ \/ OutageIsSeen
     \/ reaper.answering \in Int /\ reaper.answering <= store.for
     \/ lease + Elapsed >= Third + Poll

Inv ==
  /\ TypeOK
  /\ reaper.at = "reaping" =>
       reaper.answering = Lease /\ (store.state # "hanging" \/ hung)
  /\ worker = "alive" /\ ~hung =>
       /\ job = "running"
       /\ IF Down THEN DuringOutage ELSE Steady \/ AfterOutage

-----------------------------------------------------------------------------
(* A loop that goes back to sleep.                                         *)
LEMMA WatchSleeps ==
  ASSUME NEW w \in Watch, NEW v, v = AsleepAgain(w)
  PROVE  v = [at |-> "asleep", slept |-> 0, since |-> w.since]
BY DEF AsleepAgain, Watch

LEMMA ReaperSleeps ==
  ASSUME NEW r \in Loop, NEW v, v = AsleepAgain(r)
  PROVE  v = [at |-> "asleep", slept |-> 0, took |-> r.took, answering |-> r.answering]
BY DEF AsleepAgain, Loop

(* What a poll that is answered makes of the watchdog.                     *)
LEMMA PolledIs ==
  ASSUME NEW w \in Watch, w.since < Third, NEW v, v = Polled(w)
  PROVE  v = IF w.since + Poll >= Third
             THEN [at |-> "renewing", slept |-> w.slept, since |-> 0]
             ELSE [at |-> "asleep", slept |-> 0, since |-> w.since + Poll]
<1> USE ClockAssumption DEF ClockAssumption
<1>1. CASE w.since + Poll >= Third
  <2>1. v = [w EXCEPT !.at = "renewing", !.since = 0]
    BY <1>1 DEF Polled
  <2> QED
    BY <1>1, <2>1 DEF Watch
<1>2. CASE ~(w.since + Poll >= Third)
  <2>1. PICK u : u = [w EXCEPT !.since = @ + Poll]
    OBVIOUS
  <2>2. w.since + Poll \in 0..Third
    BY <1>2 DEF Watch
  <2>3. u \in Watch /\ u.since = w.since + Poll
    BY <2>1, <2>2 DEF Watch
  <2>4. v = AsleepAgain(u)
    BY <1>2, <2>1 DEF Polled
  <2> QED
    BY <1>2, <2>3, <2>4, WatchSleeps
<1> QED
  BY <1>1, <1>2

(* The record of each loop after each of its actions, in full.             *)
LEMMA WatchAfter ==
  ASSUME watch \in Watch
  PROVE  /\ WatchWakes => watch' = [at |-> "polling", slept |-> watch.slept,
                                   since |-> watch.since]
         /\ Renews \/ WatchRaises =>
              watch' = [at |-> "asleep", slept |-> 0, since |-> watch.since]
BY WatchSleeps DEF WatchWakes, Renews, WatchRaises, Watch

LEMMA ReaperAfter ==
  ASSUME reaper \in Loop
  PROVE  /\ ReaperWakes => reaper' = [at |-> "probing", slept |-> reaper.slept, took |-> 0,
                                     answering |-> reaper.answering]
         /\ ProbeRaises => reaper' = [at |-> "asleep", slept |-> 0, took |-> 0,
                                     answering |-> None]
         /\ Reaps => reaper' = [at |-> "asleep", slept |-> 0, took |-> reaper.took,
                               answering |-> reaper.answering]
         /\ ReapRaises => reaper' = [at |-> "asleep", slept |-> -Backoff,
                                    took |-> reaper.took, answering |-> reaper.answering]
<1>1. ReaperWakes => reaper' = [at |-> "probing", slept |-> reaper.slept, took |-> 0,
                                answering |-> reaper.answering]
  BY DEF ReaperWakes, Loop
<1>2. ProbeRaises => reaper' = [at |-> "asleep", slept |-> 0, took |-> 0,
                                answering |-> None]
  BY DEF ProbeRaises, NotAnswering, AsleepAgain, Loop
<1>3. Reaps => reaper' = [at |-> "asleep", slept |-> 0, took |-> reaper.took,
                          answering |-> reaper.answering]
  BY ReaperSleeps DEF Reaps
<1>4. ReapRaises => reaper' = [at |-> "asleep", slept |-> -Backoff,
                               took |-> reaper.took, answering |-> reaper.answering]
  BY DEF ReapRaises, AsleepAgain, Loop
<1> QED
  BY <1>1, <1>2, <1>3, <1>4

(* What the passing of time does to the records.                           *)
LEMMA TickIs ==
  ASSUME TypeOK, Tick
  PROVE  /\ store' = [state |-> store.state, for |-> UpTo(Lease, store.for + 1)]
         /\ watch' = [at |-> watch.at, since |-> watch.since,
                      slept |-> IF worker = "alive" /\ watch.at = "asleep"
                                THEN watch.slept + 1 ELSE watch.slept]
         /\ reaper' = [at |-> reaper.at,
                       slept |-> IF reaper.at = "asleep"
                                 THEN reaper.slept + 1 ELSE reaper.slept,
                       took |-> IF reaper.at = "probing"
                                THEN UpTo(Third + 1, reaper.took + 1) ELSE reaper.took,
                       answering |-> IF reaper.answering = None THEN None
                                     ELSE UpTo(Lease, reaper.answering + 1)]
<1>1. store' = [state |-> store.state, for |-> UpTo(Lease, store.for + 1)]
  BY DEF Tick, TypeOK
<1>2. watch' = [at |-> watch.at, since |-> watch.since,
                slept |-> IF worker = "alive" /\ watch.at = "asleep"
                          THEN watch.slept + 1 ELSE watch.slept]
  BY DEF Tick, TypeOK, Watch
<1>3. reaper' = [at |-> reaper.at,
                 slept |-> IF reaper.at = "asleep" THEN reaper.slept + 1 ELSE reaper.slept,
                 took |-> IF reaper.at = "probing"
                          THEN UpTo(Third + 1, reaper.took + 1) ELSE reaper.took,
                 answering |-> IF reaper.answering = None THEN None
                               ELSE UpTo(Lease, reaper.answering + 1)]
  BY DEF Tick, TypeOK, Loop
<1> QED
  BY <1>1, <1>2, <1>3

-----------------------------------------------------------------------------
(* The variables have their types, the watchdog's account of its sleep     *)
(* among them.                                                             *)
THEOREM Types == Spec => []TypeOK
<1> USE ClockAssumption DEF ClockAssumption, Lease
<1>1. Init => TypeOK
  <2> SUFFICES ASSUME Init PROVE TypeOK
    OBVIOUS
  <2>1. hung \in BOOLEAN
    BY Zenon DEF Init
  <2> QED
    BY <2>1 DEF Init, TypeOK, Watch, Loop, Patience
<1>2. TypeOK /\ [Next]_vars => TypeOK'
  <2> SUFFICES ASSUME TypeOK, [Next]_vars PROVE TypeOK'
    OBVIOUS
  <2> USE DEF TypeOK, Watch, Loop
  <2>1. CASE WatchWakes
    BY <2>1, WatchAfter DEF WatchWakes
  <2>2. CASE PollAnswers
    BY <2>2, PolledIs DEF PollAnswers
  <2>3. CASE Renews
    BY <2>3, WatchAfter DEF Renews
  <2>4. CASE WatchRaises
    BY <2>4, WatchAfter DEF WatchRaises
  <2>5. CASE ReaperWakes
    BY <2>5, ReaperAfter DEF ReaperWakes
  <2>6. CASE ProbeAnswers
    BY <2>6 DEF ProbeAnswers, Answering
  <2>7. CASE ProbeRaises
    BY <2>7, ReaperAfter DEF ProbeRaises
  <2>8. CASE Reaps
    BY <2>8, ReaperAfter DEF Reaps
  <2>9. CASE ReapRaises
    BY <2>9, ReaperAfter DEF ReapRaises
  <2>10. CASE ReaperRestarts
    BY <2>10 DEF ReaperRestarts, Patience
  <2>11. CASE OutageBegins
    BY <2>11 DEF OutageBegins, Patience
  <2>12. CASE OutageEnds
    BY <2>12 DEF OutageEnds, Down
  <2>13. CASE WorkerDies
    BY <2>13 DEF WorkerDies, Patience
  <2>14. CASE Tick
    <3>1. store' \in [state : {"up", "refusing", "hanging"}, for : 0..Lease]
      BY <2>14, TickIs DEF UpTo
    <3>2. watch' \in Watch /\ watch'.since < Third
      BY <2>14, TickIs DEF Tick, Due
    <3>3. reaper' \in Loop
      BY <2>14, TickIs DEF Tick, Due, UpTo
    <3>4. quiet' \in 0..Patience
      BY <2>14 DEF Tick, UpTo, Patience
    <3> QED
      BY <2>14, <3>1, <3>2, <3>3, <3>4 DEF Tick
  <2>15. CASE UNCHANGED vars
    BY <2>15 DEF vars
  <2> QED
    BY <2>1, <2>2, <2>3, <2>4, <2>5, <2>6, <2>7, <2>8, <2>9, <2>10, <2>11,
       <2>12, <2>13, <2>14, <2>15 DEF Next
<1> QED
  BY <1>1, <1>2, PTL DEF Spec

-----------------------------------------------------------------------------
(* The invariant is kept by each action of a loop, ...                     *)
LEMMA WatchKeepsInv ==
  ASSUME Inv, TypeOK', WatchWakes \/ PollAnswers \/ Renews \/ WatchRaises
  PROVE  Inv'
<1> USE ClockAssumption DEF ClockAssumption, Lease
<1>1. /\ watch \in Watch /\ lease \in Int /\ store.for \in 0..Lease
      /\ reaper \in Loop
  BY DEF Inv, TypeOK
<1>2. /\ UNCHANGED <<store, job, worker, reaper>> /\ worker = "alive"
      /\ ~Renews => hung' = hung
      /\ Renews /\ job # "running" => hung' = hung
  <2>1. UNCHANGED <<store, job, worker, reaper>> /\ worker = "alive"
    BY DEF WatchWakes, PollAnswers, Renews, WatchRaises
  <2>2. ~Renews => hung' = hung
    BY Zenon DEF WatchWakes, PollAnswers, WatchRaises
  <2>3. ASSUME Renews, job # "running" PROVE hung' = hung
    <3>1. hung \in BOOLEAN
      BY DEF Inv, TypeOK
    <3> QED
      BY <2>3, <3>1, Zenon DEF Renews
  <2> QED
    BY <2>1, <2>2, <2>3
<1>3. OutageIsShort' <=> OutageIsShort
  BY <1>2 DEF OutageIsShort
<1>4. OutageIsSeen' <=> OutageIsSeen
  BY <1>2 DEF OutageIsSeen
<1> USE DEF Elapsed, Steady, DuringOutage, AfterOutage, Down, Watch, Loop
<1>5. CASE WatchWakes
  <2>1. lease' = lease /\ Elapsed' = Elapsed /\ hung' = hung
    BY <1>1, <1>5, WatchAfter DEF WatchWakes
  <2> QED
    BY <1>1, <1>2, <1>3, <1>4, <2>1 DEF Inv
<1>6. CASE PollAnswers
  <2>1. /\ ~Down /\ lease' = lease /\ hung' = hung
        /\ Elapsed' >= Elapsed /\ Elapsed \in Int /\ Elapsed' \in Int
    BY <1>1, <1>6, PolledIs DEF PollAnswers, Inv, TypeOK
  <2> QED
    BY <1>1, <1>2, <1>3, <1>4, <2>1 DEF Inv
<1>7. CASE Renews
  <2>1. ~Down
    BY <1>7 DEF Renews
  <2>2. CASE job = "running"
    <3>1. /\ lease' = Lease /\ watch'.at = "asleep" /\ watch'.slept = 0
          /\ watch'.since = watch.since
      BY <1>1, <1>2, <1>7, <2>2, WatchAfter DEF Renews
    <3>2. Steady'
      BY <1>1, <3>1
    <3> QED
      BY <1>1, <1>2, <2>1, <2>2, <3>2 DEF Inv
  <2>3. CASE job # "running"
    <3>1. hung' = hung /\ (hung \/ worker # "alive")
      BY <1>2, <1>7, <2>3 DEF Inv
    <3> QED
      BY <1>2, <2>1, <3>1 DEF Inv
  <2> QED
    BY <2>2, <2>3
<1>8. CASE WatchRaises
  <2>1. store.state = "refusing" /\ lease' = lease /\ hung' = hung
    BY <1>8 DEF WatchRaises
  <2> QED
    BY <1>1, <1>2, <1>3, <1>4, <2>1 DEF Inv
<1> QED
  BY <1>5, <1>6, <1>7, <1>8

LEMMA ReaperKeepsInv ==
  ASSUME Inv, TypeOK',
         \/ ReaperWakes \/ ProbeAnswers \/ ProbeRaises \/ Reaps \/ ReapRaises
         \/ ReaperRestarts
  PROVE  Inv'
<1> USE ClockAssumption DEF ClockAssumption, Lease
<1>1. /\ watch \in Watch /\ lease \in Int /\ store.for \in 0..Lease
      /\ reaper \in Loop /\ watch.since < Third
  BY DEF Inv, TypeOK
<1>2. UNCHANGED <<store, lease, worker, watch, hung>> /\ Elapsed' = Elapsed
  BY DEF ReaperWakes, ProbeAnswers, ProbeRaises, Reaps, ReapRaises, ReaperRestarts, Elapsed
<1>3. Elapsed \in Int /\ 0 <= Elapsed /\ Elapsed <= Third + Poll
  BY <1>1 DEF Elapsed, Watch
<1> USE DEF Steady, DuringOutage, AfterOutage, OutageIsShort, OutageIsSeen, Down, Loop
<1>4. CASE ReaperWakes
  BY <1>1, <1>2, <1>3, <1>4, ReaperAfter DEF Inv, ReaperWakes
<1>5. CASE ProbeAnswers
  <2>1. /\ reaper'.answering = Answering(reaper) /\ ~Down /\ job' = job
        /\ reaper'.at = "reaping" => Answering(reaper) >= Lease
    BY <1>5 DEF ProbeAnswers
  <2>2. Answering(reaper) \in 0..Lease
    BY <1>1 DEF Answering
  <2>3. ASSUME worker = "alive", AfterOutage PROVE AfterOutage'
    <3>1. CASE OutageIsSeen
      BY <1>1, <1>2, <2>1, <2>2, <2>3, <3>1 DEF Answering
    <3>2. CASE reaper.answering \in Int /\ reaper.answering <= store.for
      BY <1>1, <1>2, <2>1, <2>2, <2>3, <3>2 DEF Answering
    <3>3. CASE lease + Elapsed >= Third + Poll
      BY <1>1, <1>2, <2>3, <3>3
    <3> QED
      BY <2>3, <3>1, <3>2, <3>3
  <2> QED
    BY <1>1, <1>2, <2>1, <2>2, <2>3 DEF Inv
<1>6. CASE ProbeRaises
  BY <1>1, <1>2, <1>6, ReaperAfter DEF Inv, ProbeRaises
<1>7. CASE Reaps
  <2>1. reaper.answering = Lease /\ ~Down /\ reaper.at = "reaping"
    BY <1>7 DEF Reaps, Inv
  <2>2. worker = "alive" /\ ~hung => lease >= 0
    <3>1. SUFFICES ASSUME worker = "alive", ~hung PROVE lease >= 0
      OBVIOUS
    <3>2. CASE Steady
      BY <1>1, <1>3, <3>2
    <3>3. CASE AfterOutage
      BY <1>1, <1>3, <2>1, <3>3
    <3> QED
      BY <2>1, <3>1, <3>2, <3>3 DEF Inv
  <2> QED
    BY <1>1, <1>2, <1>7, <2>1, <2>2, ReaperAfter DEF Inv, Reaps
<1>8. CASE ReapRaises
  BY <1>1, <1>2, <1>8, ReaperAfter DEF Inv, ReapRaises
<1>9. CASE ReaperRestarts
  BY <1>1, <1>2, <1>9 DEF Inv, ReaperRestarts
<1> QED
  BY <1>4, <1>5, <1>6, <1>7, <1>8, <1>9

(* ... by the beginning and the end of an outage, ...                      *)
LEMMA OutageKeepsInv ==
  ASSUME Inv, TypeOK', OutageBegins \/ OutageEnds
  PROVE  Inv'
<1> USE ClockAssumption DEF ClockAssumption, Lease
<1>1. /\ watch \in Watch /\ lease \in Int /\ store.for \in 0..Lease
      /\ reaper \in Loop /\ watch.since < Third
  BY DEF Inv, TypeOK
<1>2. /\ UNCHANGED <<lease, job, worker, watch, reaper>> /\ Elapsed' = Elapsed
      /\ hung => hung'
  <2>1. UNCHANGED <<lease, job, worker, watch, reaper>>
    BY DEF OutageBegins, OutageEnds
  <2>2. hung => hung'
    BY Zenon DEF OutageBegins, OutageEnds
  <2> QED
    BY <2>1, <2>2 DEF Elapsed
<1>3. Elapsed \in Int /\ 0 <= Elapsed /\ Elapsed <= Third + Poll
  BY <1>1 DEF Elapsed, Watch
<1>4. OutageIsSeen' <=> OutageIsSeen
  BY <1>2 DEF OutageIsSeen
<1>5. CASE OutageBegins
  <2>1. ~Down /\ store.for >= Lease
    BY <1>5 DEF OutageBegins
  <2>2. /\ Down' /\ store'.for = 0
        /\ reaper.at = "reaping" => store'.state = "refusing" \/ hung'
    <3>1. PICK k \in Outages :
            /\ store' = [state |-> k, for |-> 0]
            /\ hung' = (hung \/ (reaper.at = "reaping" /\ k = "hanging"))
      BY <1>5 DEF OutageBegins
    <3> QED
      BY <3>1 DEF Down
  <2>3. worker = "alive" /\ ~hung => Steady
    BY <1>1, <1>3, <2>1 DEF Inv, AfterOutage
  <2>4. ~hung' => OutageIsShort'
    BY <1>1, <1>2, <2>2 DEF OutageIsShort, Loop
  <2>5. worker = "alive" /\ ~hung' => DuringOutage'
    BY <1>1, <1>2, <1>3, <2>2, <2>3, <2>4 DEF Steady, DuringOutage
  <2> QED
    BY <1>2, <2>2, <2>5 DEF Inv
<1>6. CASE OutageEnds
  <2>1. Down /\ ~Down' /\ store'.for = 0 /\ store'.state = "up"
    BY <1>6 DEF OutageEnds, Down
  <2>2. worker = "alive" /\ ~hung => AfterOutage'
    <3>1. SUFFICES ASSUME worker = "alive", ~hung PROVE AfterOutage'
      OBVIOUS
    <3>2. DuringOutage
      BY <2>1, <3>1 DEF Inv
    <3>3. CASE OutageIsSeen
      BY <1>2, <1>3, <1>4, <2>1, <3>3 DEF AfterOutage
    <3>4. CASE OutageIsShort
      <4>1. store.for <= Reaper + Backoff + Third /\ store.for < Lease
        BY <1>1, <3>4 DEF OutageIsShort, Loop
      <4>2. CASE store.state = "refusing"
        <5>1. store.for <= Reaper + Backoff
          BY <1>1, <3>4, <4>2 DEF OutageIsShort, Loop
        <5>2. lease + store.for + Third + Poll >= Lease
          BY <3>2, <4>1, <4>2 DEF DuringOutage
        <5>3. lease + Elapsed >= Third + Poll
          BY <1>1, <1>3, <5>1, <5>2
        <5> QED
          BY <1>2, <1>3, <2>1, <5>3 DEF AfterOutage
      <4>3. CASE store.state = "hanging"
        <5>1. lease + store.for + Elapsed >= Lease
          BY <3>2, <4>1, <4>3 DEF DuringOutage
        <5>2. lease + Elapsed >= Third + Poll
          BY <1>1, <1>3, <4>1, <5>1
        <5> QED
          BY <1>2, <1>3, <2>1, <5>2 DEF AfterOutage
      <4> QED
        BY <2>1, <4>2, <4>3 DEF Inv, TypeOK, Down
    <3> QED
      BY <3>2, <3>3, <3>4 DEF DuringOutage
  <2> QED
    BY <1>2, <1>6, <2>1, <2>2 DEF Inv, OutageEnds
<1> QED
  BY <1>5, <1>6

(* ... and by time.                                                        *)
LEMMA TickKeepsInv ==
  ASSUME Inv, TypeOK', Tick
  PROVE  Inv'
<1> USE ClockAssumption DEF ClockAssumption, Lease
<1>1. /\ watch \in Watch /\ lease \in -1..Lease /\ store.for \in 0..Lease
      /\ reaper \in Loop /\ watch.since < Third
      /\ store.state \in {"up", "refusing", "hanging"}
  BY DEF Inv, TypeOK
<1>2. /\ store'.state = store.state /\ store'.for <= store.for + 1
      /\ store'.for \in 0..Lease
      /\ store'.for < Lease => store'.for = store.for + 1
      /\ reaper'.at = reaper.at /\ watch'.at = watch.at /\ watch'.since = watch.since
      /\ reaper'.answering = None <=> reaper.answering = None
      /\ lease' = IF lease < 0 THEN lease ELSE lease - 1
      /\ UNCHANGED <<job, worker, hung>>
  BY <1>1, TickIs DEF Tick, UpTo, Inv, Loop
<1>3. reaper.at = "reaping" => hung /\ reaper'.answering = Lease
  <2>1. SUFFICES ASSUME reaper.at = "reaping" PROVE hung /\ reaper'.answering = Lease
    OBVIOUS
  <2>2. reaper.answering = Lease /\ hung
    BY <2>1 DEF Tick, Due, Inv
  <2> QED
    BY <1>1, <2>2, TickIs DEF UpTo, Inv, Loop
<1>4. SUFFICES ASSUME worker = "alive", ~hung
               PROVE  IF Down' THEN DuringOutage' ELSE Steady' \/ AfterOutage'
  BY <1>2, <1>3 DEF Inv
<1>5. job = "running" /\ IF Down THEN DuringOutage ELSE Steady \/ AfterOutage
  BY <1>4 DEF Inv
<1>6. OutageIsSeen => OutageIsSeen'
  BY <1>1, TickIs DEF OutageIsSeen, UpTo, Loop, Inv
<1>7. CASE ~Down
  <2>1. watch.at = "asleep" /\ reaper.at = "asleep" /\ ~Down'
    BY <1>2, <1>4, <1>7 DEF Tick, Due, Down
  <2>2. Elapsed' = Elapsed + 1 /\ Elapsed \in Int
    BY <1>1, <1>4, <2>1, TickIs DEF Elapsed, Watch, Inv
  <2>3. Steady => Steady'
    BY <1>1, <1>2, <2>2 DEF Steady
  <2>4. ASSUME AfterOutage PROVE AfterOutage'
    <3>1. store'.for <= Elapsed'
      BY <1>1, <1>2, <2>2, <2>4 DEF AfterOutage
    <3>2. ASSUME reaper.answering \in Int, reaper.answering <= store.for
          PROVE  reaper'.answering \in Int /\ reaper'.answering <= store'.for
      BY <1>1, <3>2, TickIs DEF UpTo, Inv, Loop
    <3>3. lease + Elapsed >= Third + Poll => lease' + Elapsed' >= Third + Poll
      BY <1>1, <1>2, <2>2
    <3> QED
      BY <1>6, <2>4, <3>1, <3>2, <3>3 DEF AfterOutage
  <2> QED
    BY <1>5, <1>7, <2>1, <2>3, <2>4
<1>8. CASE Down
  <2>1. DuringOutage /\ Down'
    BY <1>2, <1>5, <1>8 DEF Down
  <2>2. ASSUME OutageIsShort PROVE OutageIsSeen' \/ OutageIsShort'
    <3>1. CASE reaper.at = "asleep" /\ store.for <= reaper.slept + Backoff
      <4>1. reaper'.slept = reaper.slept + 1
        BY <3>1, TickIs DEF Inv
      <4> QED
        BY <1>1, <1>2, <3>1, <4>1 DEF OutageIsShort, Loop
    <3>2. CASE reaper.at = "probing"
      <4>1. store.state = "hanging"
        BY <3>2 DEF Tick, Due
      <4>2. reaper'.took = UpTo(Third + 1, reaper.took + 1)
        BY <3>2, TickIs DEF Inv
      <4>3. CASE reaper.took < Third
        <5>1. reaper'.took = reaper.took + 1
          BY <1>1, <4>2, <4>3 DEF UpTo, Loop
        <5> QED
          BY <1>1, <1>2, <2>2, <3>2, <4>1, <4>3, <5>1 DEF OutageIsShort, Loop
      <4>4. CASE ~(reaper.took < Third)
        <5>1. reaper'.took > Third
          BY <1>1, <4>2, <4>4 DEF UpTo, Loop
        <5> QED
          BY <1>2, <3>2, <5>1 DEF OutageIsSeen
      <4> QED
        BY <4>3, <4>4
    <3> QED
      BY <1>3, <1>4, <2>2, <3>1, <3>2 DEF OutageIsShort
  <2>3. Elapsed' >= Elapsed /\ Elapsed \in Int /\ Elapsed' \in Int
    BY <1>1, <1>4, TickIs DEF Elapsed, Watch, Inv
  <2>4. store'.for < Lease =>
          /\ store.state = "refusing" => lease' + store'.for + Third + Poll >= Lease
          /\ store.state = "hanging" => lease' + store'.for + Elapsed' >= Lease
    BY <1>1, <1>2, <2>1, <2>3 DEF DuringOutage
  <2> QED
    BY <1>2, <1>6, <2>1, <2>2, <2>4 DEF DuringOutage
<1> QED
  BY <1>7, <1>8

(* No outage of the store, whatever its length and kind, has an            *)
(* investigation with a live worker failed, but for one that holds the     *)
(* reaper's second statement.                                              *)
THEOREM LiveJobs == Spec => []LiveJobsAreKept
<1>1. Init => Inv
  <2> SUFFICES ASSUME Init PROVE Inv
    OBVIOUS
  <2>1. hung \in BOOLEAN
    BY Zenon DEF Init
  <2> QED
    BY <2>1, ClockAssumption
    DEF ClockAssumption, Init, Inv, TypeOK, Watch, Loop, Patience, Lease, Down,
        Steady, Elapsed
<1>2. Inv /\ TypeOK' /\ [Next]_vars => Inv'
  <2>1. CASE UNCHANGED vars
    BY <2>1 DEF vars, Inv, TypeOK, Down, DuringOutage, Steady, AfterOutage,
                OutageIsShort, OutageIsSeen, Elapsed
  <2>2. ASSUME Inv, WorkerDies, TypeOK' PROVE Inv'
    BY <2>2 DEF WorkerDies, Inv
  <2> QED
    BY <2>1, <2>2, WatchKeepsInv, ReaperKeepsInv, OutageKeepsInv, TickKeepsInv
    DEF Next
<1>3. Inv => LiveJobsAreKept
  BY DEF Inv, TypeOK, LiveJobsAreKept
<1> QED
  BY <1>1, <1>2, <1>3, Types, PTL DEF Spec

-----------------------------------------------------------------------------
(* How long the reaper has slept, and all of its interval during a call.   *)
Slept == IF reaper.at = "asleep" THEN reaper.slept ELSE Reaper

(* What quiet time has passed since the death is behind the lease, behind  *)
(* the reaper's trust in the store, and behind its next look.              *)
Overdue ==
  /\ Down => quiet = 0
  /\ reaper.at = "probing" /\ reaper.took > 0 => quiet = 0
  /\ reaper.at = "reaping" => reaper.answering # None
  /\ reaper.answering = None => quiet <= Slept + Backoff
  /\ reaper.answering \notin {None, Lease} =>
       quiet <= reaper.answering + Reaper + Backoff
  /\ worker = "dead" /\ lease >= 0 => lease + quiet <= Lease
  /\ worker = "dead" /\ job = "running" => quiet <= Slept + Lease + Reaper + Backoff

(* A tick off the lease makes up for one of quiet time, and one of the     *)
(* reaper's sleep or trust likewise.                                       *)
LEMMA TickOff ==
  ASSUME NEW l \in Int, NEW q \in Int, NEW r \in Int, NEW b \in Int, r <= q + 1
  PROVE  /\ l + q <= b => (l - 1) + r <= b
         /\ q <= l + b => r <= (l + 1) + b
OBVIOUS

LEMMA ReaperKeepsOverdue ==
  ASSUME TypeOK, TypeOK', Overdue,
         \/ ReaperWakes \/ ProbeAnswers \/ ProbeRaises \/ Reaps \/ ReapRaises
         \/ ReaperRestarts
  PROVE  Overdue'
<1> USE ClockAssumption DEF ClockAssumption, Lease, Overdue, Slept, Down, Loop
<1>1. /\ lease \in Int /\ reaper \in Loop /\ quiet \in Int
      /\ job \in {"running", "reaped"}
  BY DEF TypeOK
<1>2. UNCHANGED <<store, lease, worker>>
  BY DEF ReaperWakes, ProbeAnswers, ProbeRaises, Reaps, ReapRaises, ReaperRestarts
<1>3. CASE ReaperWakes
  BY <1>1, <1>2, <1>3, ReaperAfter DEF ReaperWakes
<1>4. CASE ProbeAnswers
  <2>1. /\ reaper'.answering = Answering(reaper) /\ UNCHANGED <<job, quiet>>
        /\ reaper'.at = IF Answering(reaper) >= Lease THEN "reaping" ELSE "asleep"
        /\ reaper'.slept = 0 /\ reaper.at = "probing"
    BY <1>4 DEF ProbeAnswers
  <2>2. Answering(reaper) \in 0..Lease
    BY <1>1 DEF Answering
  <2>3. CASE Answering(reaper) = 0
    <3>1. quiet <= Reaper + Backoff
      BY <1>1, <2>1, <2>3 DEF Answering
    <3> QED
      BY <1>1, <1>2, <2>1, <2>2, <2>3, <3>1
  <2>4. CASE Answering(reaper) = reaper.answering
    BY <1>1, <1>2, <2>1, <2>2, <2>4
  <2> QED
    BY <2>3, <2>4 DEF Answering
<1>5. CASE ProbeRaises
  BY <1>1, <1>2, <1>5, ReaperAfter DEF ProbeRaises
<1>6. CASE Reaps
  BY <1>1, <1>2, <1>6, ReaperAfter DEF Reaps
<1>7. CASE ReapRaises
  <2>1. quiet = 0 /\ UNCHANGED <<job, quiet>> /\ reaper'.answering = reaper.answering
        /\ reaper'.at = "asleep" /\ reaper'.slept = -Backoff
    BY <1>1, <1>7, ReaperAfter DEF ReapRaises
  <2>2. reaper'.answering \notin {None, Lease} =>
          quiet' <= reaper'.answering + Reaper + Backoff
    BY <1>1, <2>1
  <2>3. quiet' <= Slept' + Backoff /\ quiet' <= Slept' + Lease + Reaper + Backoff
    BY <2>1
  <2>4. worker' = "dead" /\ lease' >= 0 => lease' + quiet' <= Lease
    BY <1>1, <1>2, <2>1 DEF TypeOK
  <2>5. store' = store /\ quiet' = 0 /\ reaper'.at = "asleep"
    BY <1>2, <2>1
  <2> QED
    BY <2>2, <2>3, <2>4, <2>5
<1>8. CASE ReaperRestarts
  BY <1>1, <1>2, <1>8 DEF ReaperRestarts, TypeOK
<1> QED
  BY <1>3, <1>4, <1>5, <1>6, <1>7, <1>8

LEMMA TickKeepsOverdue ==
  ASSUME TypeOK, TypeOK', Overdue, Tick
  PROVE  Overdue'
<1> USE ClockAssumption DEF ClockAssumption, Lease, Loop, Down
<1>1. /\ lease \in -1..Lease /\ reaper \in Loop /\ quiet \in Int /\ quiet' \in Int
      /\ store.state \in {"up", "refusing", "hanging"}
  BY DEF TypeOK, Patience
<1>2. /\ reaper'.at = reaper.at /\ UNCHANGED <<job, worker>>
      /\ reaper'.answering = IF reaper.answering = None THEN None
                             ELSE UpTo(Lease, reaper.answering + 1)
      /\ lease >= 0 => lease' = lease - 1
      /\ lease < 0 => lease' = lease
      /\ store'.state = store.state
  BY <1>1, TickIs DEF Tick
<1>3. Slept' \in Int /\ -Backoff <= Slept' /\ Slept \in Int
  BY DEF Slept, TypeOK
<1>4. CASE Down
  <2>1. quiet = 0 /\ quiet' = 0
    BY <1>4 DEF Overdue, Tick
  <2>2. worker = "dead" /\ lease' >= 0 => lease' + quiet' <= Lease
    BY <1>1, <1>2, <2>1
  <2>3. quiet' <= Slept' + Backoff /\ quiet' <= Slept' + Lease + Reaper + Backoff
    <3>1. ASSUME NEW n \in Int, -Backoff <= n
          PROVE  0 <= n + Backoff /\ 0 <= n + Lease + Reaper + Backoff
      BY <3>1
    <3> QED
      BY <1>3, <2>1, <3>1
  <2>4. reaper'.answering \notin {None, Lease} =>
          quiet' <= reaper'.answering + Reaper + Backoff
    BY <2>1 DEF TypeOK
  <2>5. reaper.at = "reaping" => reaper'.answering # None
    BY <1>1, <1>2 DEF Overdue, UpTo
  <2> QED
    BY <1>2, <1>4, <2>1, <2>2, <2>3, <2>4, <2>5 DEF Overdue
<1>5. CASE ~Down
  <2>1. reaper.at = "asleep"
    BY <1>1, <1>5 DEF Tick, Due
  <2>2. quiet' <= quiet + 1 /\ Slept' = Slept + 1
    BY <1>1, <1>2, <1>5, <2>1, TickIs DEF Slept, Tick, UpTo, Patience
  <2>3. worker = "dead" /\ lease' >= 0 => lease' + quiet' <= Lease
    BY <1>1, <1>2, <2>2, TickOff DEF Overdue
  <2>4. reaper'.answering = None => quiet' <= Slept' + Backoff
    <3>1. reaper'.answering = None => reaper.answering = None
      BY <1>1, <1>2 DEF UpTo
    <3> QED
      BY <1>1, <1>3, <2>2, <3>1, TickOff DEF Overdue
  <2>5. reaper'.answering \notin {None, Lease} =>
          quiet' <= reaper'.answering + Reaper + Backoff
    <3>1. SUFFICES ASSUME reaper'.answering \notin {None, Lease}
                   PROVE  quiet' <= reaper'.answering + Reaper + Backoff
      OBVIOUS
    <3>2. /\ reaper.answering \in 0..Lease /\ reaper.answering # Lease
          /\ reaper'.answering = reaper.answering + 1
      BY <1>1, <1>2, <3>1 DEF UpTo
    <3>3. quiet <= reaper.answering + (Reaper + Backoff)
      BY <3>2 DEF Overdue
    <3> QED
      BY <1>1, <2>2, <3>2, <3>3, TickOff
  <2>6. worker = "dead" /\ job = "running" => quiet' <= Slept' + Lease + Reaper + Backoff
    <3>1. worker = "dead" /\ job = "running" => quiet <= Slept + (Lease + Reaper + Backoff)
      BY <1>3 DEF Overdue
    <3> QED
      BY <1>1, <1>3, <2>2, <3>1, TickOff
  <2> QED
    BY <1>2, <1>5, <2>1, <2>3, <2>4, <2>5, <2>6 DEF Overdue
<1> QED
  BY <1>4, <1>5

(* A dead worker's investigation is failed, within a lease, two looks of   *)
(* the reaper and its pause, once nothing more goes wrong.                 *)
THEOREM DeadJobs == Spec => []DeadJobsAreReaped
<1> USE ClockAssumption DEF ClockAssumption, Lease
<1>1. Init => Overdue
  BY DEF Init, Overdue, Slept, Down
<1>2. TypeOK /\ TypeOK' /\ Overdue /\ [Next]_vars => Overdue'
  <2> SUFFICES ASSUME TypeOK, TypeOK', Overdue, [Next]_vars PROVE Overdue'
    OBVIOUS
  <2>1. ASSUME WatchWakes \/ PollAnswers \/ WatchRaises \/ UNCHANGED vars PROVE Overdue'
    BY <2>1 DEF WatchWakes, PollAnswers, WatchRaises, vars, Overdue, Slept, Down
  <2>2. CASE Renews
    BY <2>2 DEF Renews, Overdue, Slept, Down
  <2>3. CASE OutageBegins \/ OutageEnds \/ WorkerDies
    <3>1. /\ quiet' = 0 /\ UNCHANGED <<reaper, lease, job>>
      BY <2>3 DEF OutageBegins, OutageEnds, WorkerDies, Overdue
    <3>2. lease <= Lease /\ lease \in Int /\ Slept >= -Backoff /\ Slept \in Int
      BY DEF TypeOK, Slept, Loop
    <3> QED
      BY <3>1, <3>2 DEF Overdue, Slept, TypeOK, Loop
  <2> QED
    BY <2>1, <2>2, <2>3, ReaperKeepsOverdue, TickKeepsOverdue DEF Next
<1>3. TypeOK /\ Overdue => DeadJobsAreReaped
  <2> SUFFICES ASSUME TypeOK, Overdue, worker = "dead", quiet >= Patience
               PROVE  job = "reaped"
    BY DEF DeadJobsAreReaped
  <2>1. Slept <= Reaper /\ Slept \in Int /\ quiet \in Int
    BY DEF TypeOK, Slept, Loop
  <2> QED
    BY <2>1 DEF TypeOK, Overdue, Patience
<1> QED
  BY <1>1, <1>2, <1>3, Types, PTL DEF Spec
----------------------------------------------------------------------------
(* The way there.  A selection remembers what it read, and the fleet moves *)
(* on: the inductive invariant says what each place in it has ruled out of *)
(* what held throughout.                                                   *)

(* The histories mean what they say, and no presence record is written     *)
(* where it is not shared.                                                 *)
RouteRemembers ==
  /\ ~shared => record = Nobody
  /\ since \subseteq Routing!Holding
  /\ Routing!Holding \subseteq seen
  /\ at \notin {"new", "queued"} => here \in Workers

PastPresence == {"certificates", "enrolled", "contexts", "out", "away", "kubeconfig"}
PastRevoked  == {"enrolled", "contexts", "away"}

(* What has been ruled out where the investigation is.                     *)
RuledOut ==
  /\ at \in PastPresence /\ "held" \in since => "presence" \in unread
  /\ at \in PastPresence /\ unread = {} => "settled" \notin since
  /\ at \in {"presence", "elsewhere"} /\ "settled" \in since => record # here
  /\ at \in PastRevoked => "out" \notin since
  /\ at \in PastRevoked => Routing!Asks
  /\ at = "contexts" => named \/ "agent only" \in seen

(* While nothing changes, the job is queued for, and handed off to, the    *)
(* worker that has the agent.                                              *)
QueuedRight ==
  still /\ Routing!Settled =>
    /\ at # "new" => pinned = record
    /\ at = "elsewhere" => holder = record

RouteInv ==
  /\ Routing!TypeOK /\ RouteRemembers /\ RuledOut /\ QueuedRight
  /\ Routing!NeverTheNamesake /\ Routing!RefusalsHaveReasons

----------------------------------------------------------------------------
(* What holds, one fact at a time.                                         *)
LEMMA HoldingIs ==
  /\ "held" \in Routing!Holding <=> Routing!Held
  /\ "out" \in Routing!Holding <=> Routing!OutOfService
  /\ "agent only" \in Routing!Holding <=> Routing!ByAgentOnly
  /\ "settled" \in Routing!Holding <=> Routing!Settled
  /\ Routing!Holding \subseteq Routing!Facts
  BY DEF Routing!Holding, Routing!Facts

(* A record nobody else would be looked for under.                         *)
LEMMA HolderForIs ==
  ASSUME NEW w
  PROVE  /\ record = w => Routing!HolderFor(w) = Nobody
         /\ record # w => Routing!HolderFor(w) = record
  BY DEF Routing!HolderFor

LEMMA FleetWorks ==
  ASSUME Routing!RouteAssumption
  PROVE  Routing!Fleet \subseteq Workers
  BY DEF Routing!RouteAssumption, Routing!Fleet

LEMMA RouteStarts ==
  ASSUME Routing!RouteAssumption
  PROVE  Routing!Init => RouteInv
<1> SUFFICES ASSUME Routing!Init PROVE RouteInv
  OBVIOUS
<1>1. ~Routing!Held /\ ~Routing!OutOfService /\ ~Routing!ByAgentOnly /\ ~Routing!Settled
      /\ sessions = {}
  BY DEF Routing!Init, Routing!Held, Routing!OutOfService, Routing!ByAgentOnly,
     Routing!Settled
<1>2. Routing!Holding = {}
  BY <1>1 DEF Routing!Holding, Routing!Facts
<1>3. Routing!TypeOK
  <2>1. MaxMoves \in Nat /\ MaxFailed \in Nat /\ MaxTries \in Nat
    BY Routing!RouteAssumption DEF Routing!RouteAssumption
  <2>2. moves \in 0..MaxMoves /\ failed \in 0..MaxFailed /\ tries \in 0..MaxTries
    BY <2>1 DEF Routing!Init
  <2> QED
    BY <2>2, FleetWorks DEF Routing!Init, Routing!TypeOK
<1>4. RouteRemembers
  BY <1>2 DEF Routing!Init, RouteRemembers
<1>5. RuledOut /\ Routing!NeverTheNamesake /\ Routing!RefusalsHaveReasons
  BY DEF Routing!Init, RuledOut, PastPresence, PastRevoked, Routing!NeverTheNamesake,
       Routing!RefusalsHaveReasons
<1>6. QueuedRight
  BY <1>1 DEF QueuedRight
<1> QED
  BY <1>3, <1>4, <1>5, <1>6 DEF RouteInv

----------------------------------------------------------------------------
(* The fleet moves: what held throughout can only become less, and what    *)
(* was ruled out of it stays ruled out.                                    *)
LEMMA FleetMovesKeep ==
  ASSUME Routing!RouteAssumption, RouteInv, Routing!Moves,
         sessions' \subseteq gateways, record' \in Workers \cup {Nobody},
         valid' \in BOOLEAN, banned' \in BOOLEAN,
         ~shared => record' = Nobody,
         Routing!Settled /\ Routing!Settled' => record' = record
  PROVE  RouteInv'
<1>1. /\ gateways' = gateways /\ shared' = shared /\ named' = named
      /\ at' = at /\ here' = here /\ pinned' = pinned /\ holder' = holder
      /\ unread' = unread /\ failed' = failed /\ tries' = tries
      /\ since' = since \cap Routing!Holding' /\ seen' = seen \cup Routing!Holding'
      /\ still' = FALSE /\ moves < MaxMoves /\ moves' = moves + 1
  BY DEF Routing!Moves, Routing!setup
<1>2. Routing!Holding' \subseteq Routing!Facts
  BY DEF Routing!Holding
<1>3. Routing!TypeOK'
  <2>1. MaxMoves \in Nat /\ moves \in 0..MaxMoves
    BY Routing!RouteAssumption DEF Routing!RouteAssumption, RouteInv, Routing!TypeOK
  <2>2. moves' \in 0..MaxMoves
    BY <2>1, <1>1
  <2> QED
    BY <1>1, <1>2, <2>2 DEF RouteInv, Routing!TypeOK
<1>4. RouteRemembers'
  BY <1>1 DEF RouteInv, RouteRemembers
<1>5. "settled" \in since' => "settled" \in since /\ record' = record
  <2>1. "settled" \in since' => "settled" \in since /\ Routing!Settled'
    BY <1>1 DEF Routing!Holding
  <2>2. "settled" \in since => Routing!Settled
    BY HoldingIs DEF RouteInv, RouteRemembers
  <2> QED
    BY <2>1, <2>2
<1>6. since' \subseteq since /\ seen \subseteq seen'
  BY <1>1
<1>7. Routing!Asks' <=> Routing!Asks
  BY <1>1 DEF Routing!Asks
<1>8. RuledOut'
  BY <1>1, <1>5, <1>6, <1>7 DEF RouteInv, RuledOut, PastPresence, PastRevoked
<1>9. QueuedRight'
  BY <1>1 DEF QueuedRight
<1>10. Routing!NeverTheNamesake' /\ Routing!RefusalsHaveReasons'
  BY <1>1, <1>6, <1>7 DEF RouteInv, Routing!NeverTheNamesake, Routing!RefusalsHaveReasons
<1> QED
  BY <1>3, <1>4, <1>8, <1>9, <1>10 DEF RouteInv

LEMMA FleetKeeps ==
  ASSUME Routing!RouteAssumption, RouteInv,
         \/ \E w \in Workers : Routing!Attach(w) \/ Routing!Detach(w)
         \/ Routing!Forget \/ Routing!Enrol \/ Routing!Revoke \/ Routing!Expire
  PROVE  RouteInv'
<1> USE DEF RouteInv, Routing!TypeOK, RouteRemembers
<1>1. ASSUME NEW w \in Workers, Routing!Attach(w)
      PROVE  RouteInv'
  <2>1. /\ w \in gateways /\ Routing!Moves /\ sessions' = sessions \cup {w}
        /\ record' \in (IF shared THEN {record, w} ELSE {record})
        /\ valid' = valid /\ banned' = banned
    BY <1>1 DEF Routing!Attach, Routing!Announced
  <2>2. Routing!Settled /\ Routing!Settled' => record' = record
    BY <2>1 DEF Routing!Settled
  <2>3. sessions' \subseteq gateways /\ record' \in Workers \cup {Nobody}
    BY <2>1
  <2>4. ~shared => record' = Nobody
    BY <2>1
  <2> QED
    BY <2>1, <2>2, <2>3, <2>4, FleetMovesKeep
<1>2. ASSUME NEW w \in Workers, Routing!Detach(w)
      PROVE  RouteInv'
  <2>1. /\ Routing!Moves /\ sessions' = sessions \ {w} /\ record' \in {record, Nobody}
        /\ valid' = valid /\ banned' = banned
    BY <1>2 DEF Routing!Detach
  <2>2. Routing!Settled /\ Routing!Settled' => record' = record
    BY <2>1 DEF Routing!Settled
  <2> QED
    BY <2>1, <2>2, FleetMovesKeep
<1>3. CASE Routing!Forget
  BY <1>3, FleetMovesKeep DEF Routing!Forget, Routing!Settled
<1>4. CASE Routing!Enrol
  BY <1>4, FleetMovesKeep DEF Routing!Enrol
<1>5. CASE Routing!Revoke
  BY <1>5, FleetMovesKeep DEF Routing!Revoke
<1>6. CASE Routing!Expire
  BY <1>6, FleetMovesKeep DEF Routing!Expire
<1> QED
  BY <1>1, <1>2, <1>3, <1>4, <1>5, <1>6

----------------------------------------------------------------------------
(* The investigation moves: the fleet is as it was.                        *)
LEMMA FleetIsStill ==
  ASSUME UNCHANGED <<Routing!setup, Routing!fleet>>
  PROVE  /\ UNCHANGED <<gateways, shared, named, sessions, record, valid, banned>>
         /\ Routing!Settled' <=> Routing!Settled
         /\ here' = here => Routing!Holding' = Routing!Holding /\ (Routing!Asks' <=> Routing!Asks)
<1>1. UNCHANGED <<gateways, shared, named, sessions, record, valid, banned>>
  BY DEF Routing!setup, Routing!fleet
<1>2. Routing!Settled' <=> Routing!Settled
  BY <1>1 DEF Routing!Settled
<1>3. here' = here => Routing!Holding' = Routing!Holding /\ (Routing!Asks' <=> Routing!Asks)
  BY <1>1 DEF Routing!Holding, Routing!Held, Routing!OutOfService, Routing!ByAgentOnly,
       Routing!Settled, Routing!Asks
<1> QED
  BY <1>1, <1>2, <1>3

(* A job is queued for the worker that has the agent, if one has.          *)
LEMMA SubmitKeeps ==
  ASSUME Routing!RouteAssumption, RouteInv, NEW w \in Workers, Routing!Submit(w)
  PROVE  RouteInv'
<1>1. /\ UNCHANGED <<Routing!setup, Routing!fleet>> /\ at = "new" /\ at' = "queued"
      /\ pinned' = Routing!Affinity(w) /\ still' = TRUE
      /\ UNCHANGED <<here, holder, unread, since, seen, moves, failed, tries>>
  BY DEF Routing!Submit
<1>2. Routing!Affinity(w) \in Workers \cup {Nobody}
  BY DEF RouteInv, Routing!TypeOK, Routing!Affinity, Routing!HolderFor
<1>3. Routing!TypeOK'
  BY <1>1, <1>2, FleetIsStill DEF RouteInv, Routing!TypeOK
<1>4. RouteRemembers'
  BY <1>1, FleetIsStill DEF RouteInv, RouteRemembers
<1>5. RuledOut' /\ Routing!NeverTheNamesake' /\ Routing!RefusalsHaveReasons'
  BY <1>1 DEF RuledOut, PastPresence, PastRevoked, Routing!NeverTheNamesake,
       Routing!RefusalsHaveReasons
<1>6. Routing!Settled => Routing!Affinity(w) = record
  BY DEF RouteInv, RouteRemembers, Routing!Settled, Routing!Affinity, Routing!HolderFor
<1>7. QueuedRight'
  BY <1>1, <1>6, FleetIsStill DEF QueuedRight
<1> QED
  BY <1>3, <1>4, <1>5, <1>7 DEF RouteInv

LEMMA SubmitUnreadKeeps ==
  ASSUME Routing!RouteAssumption, RouteInv, NEW w \in Workers, Routing!SubmitUnread(w)
  PROVE  RouteInv'
<1>1. /\ UNCHANGED <<Routing!setup, Routing!fleet>> /\ at = "new" /\ at' = "queued"
      /\ pinned' = Nobody /\ still' = FALSE /\ failed < MaxFailed /\ failed' = failed + 1
      /\ UNCHANGED <<here, holder, unread, since, seen, moves, tries>>
  BY DEF Routing!SubmitUnread
<1>2. failed' \in 0..MaxFailed
  <2>1. MaxFailed \in Nat /\ failed \in 0..MaxFailed
    BY Routing!RouteAssumption DEF Routing!RouteAssumption, RouteInv, Routing!TypeOK
  <2> QED
    BY <2>1, <1>1
<1>3. Routing!TypeOK'
  BY <1>1, <1>2, FleetIsStill DEF RouteInv, Routing!TypeOK
<1>4. RouteRemembers'
  BY <1>1, FleetIsStill DEF RouteInv, RouteRemembers
<1>5. RuledOut' /\ Routing!NeverTheNamesake' /\ Routing!RefusalsHaveReasons' /\ QueuedRight'
  BY <1>1 DEF RuledOut, PastPresence, PastRevoked, Routing!NeverTheNamesake,
       Routing!RefusalsHaveReasons,
             QueuedRight
<1> QED
  BY <1>3, <1>4, <1>5 DEF RouteInv

(* A selection begins with what holds at that moment.                      *)
LEMMA AskingKeeps ==
  ASSUME Routing!RouteAssumption, RouteInv, NEW w \in Workers, Routing!Asking(w),
         UNCHANGED <<Routing!setup, Routing!fleet, pinned, still, moves, failed>>,
         tries' \in 0..MaxTries, at # "new"
  PROVE  RouteInv'
<1>1. /\ UNCHANGED <<Routing!setup, Routing!fleet>> /\ UNCHANGED <<pinned, still, moves, failed>>
      /\ at' = "asked" /\ here' = w /\ holder' = Nobody
      /\ unread' = {} /\ since' = Routing!Holding' /\ seen' = Routing!Holding'
  BY DEF Routing!Asking
<1>2. Routing!Holding' \subseteq Routing!Facts
  BY DEF Routing!Holding
<1>3. Routing!TypeOK'
  BY <1>1, <1>2, FleetIsStill DEF RouteInv, Routing!TypeOK
<1>4. RouteRemembers'
  BY <1>1, FleetIsStill DEF RouteInv, RouteRemembers
<1>5. RuledOut' /\ Routing!NeverTheNamesake' /\ Routing!RefusalsHaveReasons'
  BY <1>1 DEF RuledOut, PastPresence, PastRevoked, Routing!NeverTheNamesake,
       Routing!RefusalsHaveReasons
<1>6. QueuedRight'
  BY <1>1, FleetIsStill DEF RouteInv, QueuedRight
<1> QED
  BY <1>3, <1>4, <1>5, <1>6 DEF RouteInv

Places == {"asked", "presence", "certificates", "enrolled", "contexts",
           "agent", "elsewhere", "out", "away", "kubeconfig"}
ReadsThatFail == {"presence", "certificates", "certificates again", "contexts"}

(* A look takes the selection on; what is left to show of it is that what  *)
(* it found rules out what its next place says.                            *)
LEMMA GoesKeeps ==
  ASSUME Routing!RouteAssumption, RouteInv, NEW from \in Places, NEW to \in Places,
       Routing!Goes(from, to),
         holder' \in Workers \cup {Nobody}, unread' \subseteq ReadsThatFail,
         failed' \in 0..MaxFailed,
         to = "elsewhere" => holder' = record,
         RuledOut', Routing!NeverTheNamesake', Routing!RefusalsHaveReasons'
  PROVE  RouteInv'
<1>1. /\ UNCHANGED <<Routing!setup, Routing!fleet>>
      /\ UNCHANGED <<here, pinned, since, seen, still, moves, tries>>
      /\ at = from /\ at' = to
  BY DEF Routing!Goes
<1>2. Routing!TypeOK'
  BY <1>1, FleetIsStill DEF RouteInv, Routing!TypeOK, Places, ReadsThatFail
<1>3. RouteRemembers'
  BY <1>1, FleetIsStill DEF RouteInv, RouteRemembers, Places
<1>4. QueuedRight'
  BY <1>1, FleetIsStill DEF RouteInv, QueuedRight, Places
<1> QED
  BY <1>2, <1>3, <1>4 DEF RouteInv

(* What every look leaves as it was, and what is known when it is taken.   *)
LEMMA GoesLeaves ==
  ASSUME RouteInv, NEW from, NEW to, Routing!Goes(from, to)
  PROVE  /\ at = from /\ at' = to /\ here' = here /\ named' = named
         /\ since' = since /\ seen' = seen /\ (Routing!Asks' <=> Routing!Asks) /\ record' = record
  BY FleetIsStill DEF Routing!Goes

LEMMA AnswersLeaves ==
  ASSUME RouteInv, NEW from, NEW to, Routing!Answers(from, to)
  PROVE  /\ Routing!Goes(from, to) /\ holder' = holder /\ unread' = unread
         /\ holder' \in Workers \cup {Nobody} /\ unread' \subseteq ReadsThatFail
         /\ failed' \in 0..MaxFailed
  BY DEF Routing!Answers, RouteInv, Routing!TypeOK, ReadsThatFail

LEMMA FailsLeaves ==
  ASSUME Routing!RouteAssumption, RouteInv, NEW from, NEW to, NEW what \in ReadsThatFail,
         Routing!Fails(from, to, what)
  PROVE  /\ Routing!Goes(from, to) /\ holder' = holder /\ unread' = unread \cup {what}
         /\ holder' \in Workers \cup {Nobody} /\ unread' \subseteq ReadsThatFail
         /\ failed' \in 0..MaxFailed
<1>1. MaxFailed \in Nat /\ failed \in 0..MaxFailed
  BY Routing!RouteAssumption DEF Routing!RouteAssumption, RouteInv, Routing!TypeOK
<1>2. failed < MaxFailed /\ failed' = failed + 1
  BY DEF Routing!Fails
<1>3. failed' \in 0..MaxFailed
  BY <1>1, <1>2
<1> QED
  BY <1>3 DEF Routing!Fails, RouteInv, Routing!TypeOK, ReadsThatFail

LEMMA LooksKeep ==
  ASSUME Routing!RouteAssumption, RouteInv, Routing!Look
  PROVE  RouteInv'
<1> USE DEF Places, ReadsThatFail, PastPresence, PastRevoked
<1>1. CASE Routing!LookHere
  <2>1. PICK to \in {"agent", "presence"} :
          /\ Routing!Answers("asked", to)
          /\ to = "presence" => ~(here \in gateways /\ here \in sessions)
    BY <1>1 DEF Routing!LookHere
  <2>2. to = "presence" /\ "settled" \in since => record # here
    BY <2>1, HoldingIs DEF RouteInv, Routing!TypeOK, RouteRemembers, Routing!Settled
  <2>3. RuledOut' /\ Routing!NeverTheNamesake' /\ Routing!RefusalsHaveReasons'
    BY <2>1, <2>2, AnswersLeaves, GoesLeaves
       DEF RouteInv, RouteRemembers, RuledOut, Routing!NeverTheNamesake,
            Routing!RefusalsHaveReasons
  <2> QED
    BY <2>1, <2>3, AnswersLeaves, GoesKeeps
<1>2. CASE Routing!LookElsewhere
  <2> DEFINE found == IF shared THEN Routing!HolderFor(here) ELSE Nobody
             to    == IF found = Nobody THEN "certificates" ELSE "elsewhere"
  <2>1. Routing!Goes("presence", to) /\ holder' = found /\ unread' = unread /\ failed' = failed
    BY <1>2 DEF Routing!LookElsewhere
  <2>2. found # Nobody => Routing!Held /\ found = record /\ record # here
    BY DEF Routing!HolderFor, Routing!Held
  <2>3. found = Nobody => ~Routing!Held
    BY DEF Routing!HolderFor, Routing!Held, RouteInv, RouteRemembers
  <2>4. found = Nobody => "settled" \notin since
    BY <2>1, GoesLeaves, HoldingIs DEF Routing!HolderFor, RouteInv, RouteRemembers,
       RuledOut,
         Routing!Settled
  <2>5. found \in Workers \cup {Nobody}
    BY <2>2 DEF RouteInv, Routing!TypeOK
  <2>6. to \in Places /\ (to = "elsewhere" <=> found # Nobody)
        /\ (to = "certificates" <=> found = Nobody)
    OBVIOUS
  <2> HIDE DEF found, to
  <2>7. RuledOut' /\ Routing!NeverTheNamesake' /\ Routing!RefusalsHaveReasons'
    BY <2>1, <2>2, <2>3, <2>4, <2>6, HoldingIs, GoesLeaves
       DEF RouteInv, RouteRemembers, RuledOut, Routing!NeverTheNamesake,
            Routing!RefusalsHaveReasons
  <2> QED
    BY <2>1, <2>2, <2>5, <2>6, <2>7, GoesKeeps DEF RouteInv, Routing!TypeOK
<1>3. CASE Routing!PresenceUnread
  <2>1. Routing!Fails("presence", "certificates", "presence")
    BY <1>3 DEF Routing!PresenceUnread
  <2>2. at = "presence" /\ at' = "certificates"
        /\ unread' = unread \cup {"presence"}
        /\ since' = since /\ seen' = seen /\ here' = here /\ named' = named
        /\ record' = record /\ (Routing!Asks' <=> Routing!Asks)
    BY <2>1, FailsLeaves, GoesLeaves
  <2>3. RuledOut' /\ Routing!NeverTheNamesake' /\ Routing!RefusalsHaveReasons'
    BY <2>2 DEF RouteInv, RuledOut, Routing!NeverTheNamesake, Routing!RefusalsHaveReasons
  <2> QED
    BY <2>1, <2>3, FailsLeaves, GoesKeeps
<1>4. CASE Routing!LookRevoked
  <2>1. PICK to \in {"kubeconfig", "out", "enrolled"} :
          /\ Routing!Answers("certificates", to)
          /\ to = "kubeconfig" => ~Routing!Asks
          /\ to = "out" => Routing!OutOfService
          /\ to = "enrolled" => ~Routing!OutOfService /\ Routing!Asks
    BY <1>4 DEF Routing!LookRevoked
  <2>2. RuledOut' /\ Routing!NeverTheNamesake' /\ Routing!RefusalsHaveReasons'
    BY <2>1, HoldingIs, AnswersLeaves, GoesLeaves
       DEF RouteInv, RouteRemembers, RuledOut, Routing!NeverTheNamesake,
            Routing!RefusalsHaveReasons
  <2> QED
    BY <2>1, <2>2, AnswersLeaves, GoesKeeps
<1>5. CASE Routing!RevokedUnread
  <2>1. Routing!Fails("certificates", "out", "certificates")
    BY <1>5 DEF Routing!RevokedUnread
  <2>2. at = "certificates" /\ at' = "out"
        /\ unread' = unread \cup {"certificates"}
        /\ since' = since /\ seen' = seen /\ here' = here /\ named' = named
        /\ record' = record /\ (Routing!Asks' <=> Routing!Asks)
    BY <2>1, FailsLeaves, GoesLeaves
  <2>3. RuledOut' /\ Routing!NeverTheNamesake' /\ Routing!RefusalsHaveReasons'
    BY <2>2 DEF RouteInv, RuledOut, Routing!NeverTheNamesake, Routing!RefusalsHaveReasons
  <2> QED
    BY <2>1, <2>3, FailsLeaves, GoesKeeps
<1>6. CASE Routing!LookEnrolled
  <2>1. PICK to \in {"contexts", "kubeconfig"} :
          /\ Routing!Answers("enrolled", to)
          /\ to = "contexts" <=> valid
    BY <1>6 DEF Routing!LookEnrolled, RouteInv, Routing!TypeOK
  <2>2. to = "contexts" => named \/ "agent only" \in seen
    BY <2>1, HoldingIs DEF Routing!ByAgentOnly, RouteInv, RouteRemembers
  <2>3. to = "kubeconfig" => "agent only" \notin since
    BY <2>1, HoldingIs DEF Routing!ByAgentOnly, RouteInv, RouteRemembers
  <2>4. RuledOut' /\ Routing!NeverTheNamesake' /\ Routing!RefusalsHaveReasons'
    BY <2>1, <2>2, <2>3, AnswersLeaves, GoesLeaves
       DEF RouteInv, RouteRemembers, RuledOut, Routing!NeverTheNamesake,
            Routing!RefusalsHaveReasons
  <2> QED
    BY <2>1, <2>4, AnswersLeaves, GoesKeeps
<1>7. CASE Routing!EnrolledUnread
  <2>1. Routing!Fails("enrolled", "kubeconfig", "certificates again")
    BY <1>7 DEF Routing!EnrolledUnread
  <2>2. at = "enrolled" /\ at' = "kubeconfig"
        /\ unread' = unread \cup {"certificates again"}
        /\ since' = since /\ seen' = seen /\ here' = here /\ named' = named
        /\ record' = record /\ (Routing!Asks' <=> Routing!Asks)
    BY <2>1, FailsLeaves, GoesLeaves
  <2>3. RuledOut' /\ Routing!NeverTheNamesake' /\ Routing!RefusalsHaveReasons'
    BY <2>2 DEF RouteInv, RuledOut, Routing!NeverTheNamesake, Routing!RefusalsHaveReasons
  <2> QED
    BY <2>1, <2>3, FailsLeaves, GoesKeeps
<1>8. CASE Routing!LookContexts
  <2>1. PICK to \in {"kubeconfig", "away"} :
          /\ Routing!Answers("contexts", to)
          /\ to = "kubeconfig" <=> named
    BY <1>8 DEF Routing!LookContexts, RouteInv, Routing!TypeOK
  <2>2. to = "kubeconfig" => "agent only" \notin since
    BY <2>1, HoldingIs DEF Routing!ByAgentOnly, RouteInv, RouteRemembers
  <2>3. RuledOut' /\ Routing!NeverTheNamesake' /\ Routing!RefusalsHaveReasons'
    BY <2>1, <2>2, AnswersLeaves, GoesLeaves
       DEF RouteInv, RouteRemembers, RuledOut, Routing!NeverTheNamesake,
            Routing!RefusalsHaveReasons
  <2> QED
    BY <2>1, <2>3, AnswersLeaves, GoesKeeps
<1>9. CASE Routing!ContextsUnread
  <2>1. Routing!Fails("contexts", "away", "contexts")
    BY <1>9 DEF Routing!ContextsUnread
  <2>2. at = "contexts" /\ at' = "away"
        /\ unread' = unread \cup {"contexts"}
        /\ since' = since /\ seen' = seen /\ here' = here /\ named' = named
        /\ record' = record /\ (Routing!Asks' <=> Routing!Asks)
    BY <2>1, FailsLeaves, GoesLeaves
  <2>3. RuledOut' /\ Routing!NeverTheNamesake' /\ Routing!RefusalsHaveReasons'
    BY <2>2 DEF RouteInv, RuledOut, Routing!NeverTheNamesake, Routing!RefusalsHaveReasons
  <2> QED
    BY <2>1, <2>3, FailsLeaves, GoesKeeps
<1> QED
  BY <1>1, <1>2, <1>3, <1>4, <1>5, <1>6, <1>7, <1>8, <1>9 DEF Routing!Look

----------------------------------------------------------------------------
(* A job that is refused is handed off, tried again or given up.           *)
LEMMA HandOffKeeps ==
  ASSUME Routing!RouteAssumption, RouteInv, Routing!HandOff
  PROVE  RouteInv'
<1>1. /\ UNCHANGED <<Routing!setup, Routing!fleet>>
      /\ UNCHANGED <<here, holder, unread, since, seen, still, moves, failed>>
      /\ at = "elsewhere" /\ at' = "queued" /\ pinned' = holder
      /\ tries < MaxTries /\ tries' = tries + 1
  BY DEF Routing!HandOff, Routing!told
<1>2. tries' \in 0..MaxTries
  <2>1. MaxTries \in Nat /\ tries \in 0..MaxTries
    BY Routing!RouteAssumption DEF Routing!RouteAssumption, RouteInv, Routing!TypeOK
  <2> QED
    BY <2>1, <1>1
<1>3. Routing!TypeOK'
  BY <1>1, <1>2, FleetIsStill DEF RouteInv, Routing!TypeOK
<1>4. RouteRemembers'
  BY <1>1, FleetIsStill DEF RouteInv, RouteRemembers
<1>5. RuledOut' /\ Routing!NeverTheNamesake' /\ Routing!RefusalsHaveReasons'
  BY <1>1 DEF RuledOut, PastPresence, PastRevoked, Routing!NeverTheNamesake,
       Routing!RefusalsHaveReasons
<1>6. QueuedRight'
  BY <1>1, FleetIsStill DEF RouteInv, QueuedRight
<1> QED
  BY <1>3, <1>4, <1>5, <1>6 DEF RouteInv

LEMMA RefuseKeeps ==
  ASSUME Routing!RouteAssumption, RouteInv, Routing!Refuse
  PROVE  RouteInv'
<1>1. /\ UNCHANGED <<Routing!setup, Routing!fleet>>
      /\ UNCHANGED <<here, pinned, holder, unread, since, seen, still, moves, failed, tries>>
      /\ at \in {"elsewhere", "out", "away"} /\ at' = "refused"
  BY DEF Routing!Refuse, Routing!told
<1>2. Routing!TypeOK'
  BY <1>1, FleetIsStill DEF RouteInv, Routing!TypeOK
<1>3. RouteRemembers'
  BY <1>1, FleetIsStill DEF RouteInv, RouteRemembers
<1>4. RuledOut' /\ Routing!NeverTheNamesake' /\ Routing!RefusalsHaveReasons'
  BY <1>1 DEF RuledOut, PastPresence, PastRevoked, Routing!NeverTheNamesake,
       Routing!RefusalsHaveReasons
<1>5. QueuedRight'
  BY <1>1, FleetIsStill DEF RouteInv, QueuedRight
<1> QED
  BY <1>2, <1>3, <1>4, <1>5 DEF RouteInv

LEMMA RouteStep ==
  ASSUME Routing!RouteAssumption, RouteInv, [Routing!Next]_Routing!vars
  PROVE  RouteInv'
<1>1. ASSUME NEW w \in Workers, Routing!Claim(w)
      PROVE  RouteInv'
  <2>1. /\ at = "queued" /\ Routing!Asking(w)
        /\ UNCHANGED <<Routing!setup, Routing!fleet, pinned, still, moves, failed>>
        /\ tries' = tries
    BY <1>1 DEF Routing!Claim
  <2>2. tries' \in 0..MaxTries
    BY <2>1 DEF RouteInv, Routing!TypeOK
  <2> QED
    BY <2>1, <2>2, AskingKeeps
<1>2. CASE Routing!Again
  <2>1. /\ at = "away" /\ Routing!Asking(here) /\ tries < MaxTries /\ tries' = tries + 1
        /\ UNCHANGED <<Routing!setup, Routing!fleet, pinned, still, moves, failed>>
    BY <1>2 DEF Routing!Again
  <2>2. tries' \in 0..MaxTries
    <3>1. MaxTries \in Nat /\ tries \in 0..MaxTries
      BY Routing!RouteAssumption DEF Routing!RouteAssumption, RouteInv, Routing!TypeOK
    <3> QED
      BY <3>1, <2>1
  <2>3. here \in Workers
    BY <2>1 DEF RouteInv, RouteRemembers
  <2> QED
    BY <2>1, <2>2, <2>3, AskingKeeps
<1>3. CASE UNCHANGED Routing!vars
  <2>1. UNCHANGED <<Routing!setup, Routing!fleet>>
        /\ UNCHANGED <<at, here, pinned, holder, unread, since, seen, still, moves,
                       failed, tries>>
    BY <1>3 DEF Routing!vars, Routing!told
  <2>2. Routing!TypeOK'
    BY <2>1, FleetIsStill DEF RouteInv, Routing!TypeOK
  <2>3. RouteRemembers' /\ QueuedRight'
    BY <2>1, FleetIsStill DEF RouteInv, RouteRemembers, QueuedRight
  <2>4. RuledOut' /\ Routing!NeverTheNamesake' /\ Routing!RefusalsHaveReasons'
    BY <2>1, FleetIsStill DEF RouteInv, RuledOut, PastPresence, PastRevoked,
         Routing!NeverTheNamesake,
                              Routing!RefusalsHaveReasons
  <2> QED
    BY <2>2, <2>3, <2>4 DEF RouteInv
<1> QED
  BY <1>1, <1>2, <1>3, FleetWorks, FleetKeeps, SubmitKeeps, SubmitUnreadKeeps,
     LooksKeep, HandOffKeeps, RefuseKeeps DEF Routing!Next

(* An agent that stays where its record says is reached.                   *)
LEMMA SettledIsReached ==
  ASSUME RouteInv
  PROVE  Routing!SettledAgentIsReached
<1>1. "settled" \in since => Routing!Settled
  BY HoldingIs DEF RouteInv, RouteRemembers
<1>2. "settled" \in since /\ unread = {} => at \notin {"out", "away", "kubeconfig"}
  BY DEF RouteInv, RuledOut, PastPresence
<1>3. "settled" \in since /\ still /\ pinned \in {here, Nobody} => at # "elsewhere"
  BY <1>1 DEF RouteInv, RuledOut, QueuedRight, Routing!Settled
<1> QED
  BY <1>2, <1>3 DEF Routing!SettledAgentIsReached

LEMMA RoutesAreSound ==
  ASSUME Routing!RouteAssumption
  PROVE  Routing!Spec => []Routing!RoutesSoundly
<1>1. RouteInv => Routing!RoutesSoundly
  BY SettledIsReached DEF RouteInv, Routing!RoutesSoundly
<1>2. Routing!Init => RouteInv
  BY RouteStarts
<1>3. RouteInv /\ [Routing!Next]_Routing!vars => RouteInv'
  BY RouteStep
<1> QED
  BY <1>1, <1>2, <1>3, PTL DEF Routing!Spec

-----------------------------------------------------------------------------
(* The identity of an agent, whose operators have the name Agent here.     *)

(* A call for a token is on no certificate, one that is on a certificate   *)
(* is on the one in use; what it grants was issued in this check and is on *)
(* record before it is answered.                                           *)
CallIsOfAgent ==
  /\ call.stage = "none" => pc \in {"off", "up"}
  /\ call.stage # "none" => held \in {None, call.on}
  /\ call.token # None => call.on = None
  /\ call.stage \in {"issued", "answered"} =>
       call.serial \in Serials /\ left[call.serial] = Life
  /\ call.stage = "answered" => call.serial \in ledger.recorded
  /\ pc = "up" => call.stage = "none"
  /\ pc \in {"off", "enrolling"} => held = None
  /\ pc = "renewing" => held # None /\ held = call.on
  /\ pc = "saving" => call.stage = "answered"

(* A token that is not spent bought nothing, and the call it was spent for *)
(* has yet to be issued a certificate.                                     *)
TokensAreSpent ==
  \A t \in Tokens :
    /\ ledger.tokens[t] # "spent" => bought[t] = 0
    /\ call.stage = "cleared" /\ call.token = t =>
         bought[t] = 0 /\ ledger.tokens[t] = "spent"

(* A Secret holds what is in use, whole.                                   *)
SecretIsHeld ==
  kind = "secret" /\ held # None => disk.key = held /\ disk.cert = held /\ disk.ca

(* A renewal is under way, or may begin in this check, that the gateway    *)
(* would refuse had it heard of the revocation.                            *)
MaySlip ==
  \/ call.stage = "sent" /\ call.on \in ledger.revoked \ cached
  \/ call.stage = "cleared" /\ call.on \in ledger.revoked
  \/ pc = "up" /\ ~checked /\ held \in ledger.revoked \ cached

(* It is paid for by a revocation, and there is one attempt in a check.    *)
SlipsAreBought ==
  /\ slips <= revocations
  /\ MaySlip => slips + 1 <= revocations
  /\ pc = "renewing" \/ (pc = "saving" /\ held # None) => checked
  /\ cached \subseteq ledger.revoked

(* Attempts are spaced, so that there is one in the last check, and only a *)
(* revocation or trouble makes that one fail.                              *)
Attempts ==
  /\ calm => answers /\ held # None
  /\ pc \in {"up", "renewing", "saving"} /\ held # None /\ left[held] > 1 =>
       next < left[held]
  /\ pc = "up" /\ ~checked /\ left[held] > 0 => next < left[held]
  /\ calm /\ pc = "up" /\ checked /\ left[held] = 1 => held \in ledger.revoked

Identified ==
  /\ Agent!TypeOK /\ CallIsOfAgent /\ Agent!UsedIsOnRecord /\ SecretIsHeld
  /\ TokensAreSpent /\ Agent!TokenBuysOneCertificate
  /\ SlipsAreBought /\ Attempts

-----------------------------------------------------------------------------
LEMMA DivThree ==
  ASSUME NEW m \in Nat
  PROVE  (m \div 3) \in Nat /\ 3 * (m \div 3) <= m /\ m < 3 * (m \div 3) + 3
OBVIOUS

LEMMA Thirds ==
  ASSUME Agent!AgentAssumption, NEW n \in 0..Life
  PROVE  Agent!ThirdOf(n) \in 0..Agent!ThirdOf(Life) /\ (n > 1 => Agent!ThirdOf(n) < n)
<1> DEFINE a == (n + 2) \div 3
<1> DEFINE b == (Life + 2) \div 3
<1>1. n \in Nat /\ Life \in Nat /\ n <= Life /\ n + 2 \in Nat /\ Life + 2 \in Nat
  BY DEF Agent!AgentAssumption
<1>2. a \in Nat /\ 3 * a <= n + 2 /\ n + 2 < 3 * a + 3
  BY <1>1, DivThree
<1>3. b \in Nat /\ 3 * b <= Life + 2 /\ Life + 2 < 3 * b + 3
  BY <1>1, DivThree
<1>4. Agent!ThirdOf(n) = a /\ Agent!ThirdOf(Life) = b
  BY DEF Agent!ThirdOf
<1> HIDE DEF a, b
<1>5. a <= b /\ (n > 1 => a < n)
  BY <1>1, <1>2, <1>3
<1> QED
  BY <1>2, <1>3, <1>4, <1>5

LEMMA InitIdentified == ASSUME Agent!AgentAssumption, Agent!Init PROVE Identified
<1>1. 0 \in 0..Agent!ThirdOf(Life) /\ 0 \in 0..Life /\ 0 \in 0..MaxFaults /\ 0 \in 0..MaxRevoked
  <2>1. Life \in 0..Life /\ MaxFaults \in Nat /\ MaxRevoked \in Nat
    BY DEF Agent!AgentAssumption
  <2>2. Agent!ThirdOf(Life) \in 0..Agent!ThirdOf(Life)
    BY <2>1, Thirds
  <2> QED
    BY <2>1, <2>2
<1>2. Agent!TypeOK
  BY <1>1 DEF Agent!Init, Agent!TypeOK, Agent!Empty, Agent!NoCall, Agent!SerialOrNone,
     Agent!TokenOrNone
<1>3. CallIsOfAgent /\ Agent!UsedIsOnRecord /\ SecretIsHeld
  BY DEF Agent!Init, Agent!Empty, Agent!NoCall, CallIsOfAgent, Agent!UsedIsOnRecord,
     SecretIsHeld, Agent!AgentAssumption
<1>4. TokensAreSpent /\ Agent!TokenBuysOneCertificate
  BY DEF Agent!Init, Agent!NoCall, TokensAreSpent, Agent!TokenBuysOneCertificate
<1>5. SlipsAreBought /\ Attempts
  BY DEF Agent!Init, Agent!NoCall, SlipsAreBought, MaySlip, Attempts
<1> QED
  BY <1>2, <1>3, <1>4, <1>5 DEF Identified

-----------------------------------------------------------------------------
(* The conjuncts of the invariant, for a step to take.                     *)
LEMMA Parts ==
  ASSUME Identified
  PROVE  /\ Agent!TypeOK /\ CallIsOfAgent /\ Agent!UsedIsOnRecord /\ SecretIsHeld
         /\ TokensAreSpent /\ Agent!TokenBuysOneCertificate
         /\ SlipsAreBought /\ Attempts
BY DEF Identified

(* The clock: every certificate and the wait of the agent lose one.        *)
LEMMA TickSafe == ASSUME Agent!AgentAssumption, Identified, Agent!Tick PROVE Identified'
<1> USE Parts
<1>1. /\ pc \in {"off", "up"} /\ call.stage = "none"
      /\ (pc = "up" => checked) /\ cached = ledger.revoked
      /\ left' = [s \in Serials |-> IF left[s] > 0 THEN left[s] - 1 ELSE 0]
      /\ next' = (IF next > 0 THEN next - 1 ELSE 0)
      /\ checked' = FALSE /\ calm' = (answers /\ pc = "up")
      /\ kind' = kind /\ pc' = pc /\ held' = held /\ disk' = disk /\ call' = call
      /\ ledger' = ledger /\ cached' = cached /\ flag' = flag
      /\ revocations' = revocations /\ answers' = answers /\ faults' = faults
      /\ bought' = bought /\ slips' = slips
  BY DEF Agent!Tick, Agent!NoCall, Agent!operator
<1>2. /\ left \in [Serials -> 0..Life] /\ next \in 0..Agent!ThirdOf(Life) /\ Life \in Nat
      /\ Agent!ThirdOf(Life) \in Nat /\ held \in Serials \cup {None}
  <2>1. Life \in 0..Life /\ Life \in Nat
    BY DEF Agent!AgentAssumption
  <2>2. Agent!ThirdOf(Life) \in Nat
    BY <2>1, Thirds
  <2> QED
    BY <2>1, <2>2 DEF Agent!TypeOK, Agent!SerialOrNone
<1>3. next' \in 0..Agent!ThirdOf(Life)
  BY <1>1, <1>2
<1>4. left' \in [Serials -> 0..Life]
  BY <1>1, <1>2
<1>5. Agent!TypeOK'
  BY <1>1, <1>3, <1>4 DEF Agent!TypeOK
<1>6. CallIsOfAgent' /\ Agent!UsedIsOnRecord' /\ SecretIsHeld'
  BY <1>1 DEF CallIsOfAgent, Agent!UsedIsOnRecord, SecretIsHeld
<1>7. TokensAreSpent' /\ Agent!TokenBuysOneCertificate'
  BY <1>1 DEF TokensAreSpent, Agent!TokenBuysOneCertificate
<1>8. SlipsAreBought'
  BY <1>1 DEF SlipsAreBought, MaySlip
<1>9. Attempts'
  <2>1. ASSUME pc = "up", left'[held] > 0 PROVE next' < left'[held]
    <3>1. held \in Serials /\ checked
      BY <1>1, <1>2, <2>1 DEF Agent!TypeOK
    <3>2. left[held] \in Nat /\ left[held] > 1 /\ left'[held] = left[held] - 1
      BY <1>1, <1>2, <2>1, <3>1
    <3>3. next < left[held] /\ next \in Nat
      BY <1>1, <1>2, <2>1, <3>1, <3>2 DEF Attempts, Agent!AgentAssumption
    <3> QED
      BY <1>1, <3>2, <3>3
  <2>2. calm' => answers' /\ held' # None
    BY <1>1 DEF Agent!TypeOK
  <2>3. ASSUME pc \in {"up", "renewing", "saving"}, held # None, left'[held] > 1
        PROVE  next' < left'[held]
    <3>1. pc = "up" /\ left'[held] > 0
      BY <1>1, <1>2, <1>4, <2>3
    <3> QED
      BY <2>1, <3>1
  <2> QED
    BY <1>1, <2>1, <2>2, <2>3 DEF Attempts
<1> QED
  BY <1>5, <1>6, <1>7, <1>8, <1>9 DEF Identified

(* The loop looks: an attempt is a call on the certificate in use, and in  *)
(* the last check of that one it is due and not spaced out any more.       *)
LEMMA LookSafe == ASSUME Agent!AgentAssumption, Identified, Agent!Look PROVE Identified'
<1> USE Parts
<1>1. /\ pc = "up" /\ ~checked /\ checked' = TRUE
      /\ kind' = kind /\ held' = held /\ next' = next /\ disk' = disk
      /\ left' = left /\ ledger' = ledger /\ cached' = cached
      /\ flag' = flag /\ revocations' = revocations
      /\ answers' = answers /\ faults' = faults /\ calm' = calm
      /\ bought' = bought /\ slips' = slips
  BY DEF Agent!Look, Agent!operator, Agent!trouble, Agent!history
<1>2. \/ /\ Agent!Attempting /\ pc' = "renewing"
         /\ call' = [Agent!NoCall EXCEPT !.stage = "sent", !.on = held]
      \/ ~Agent!Attempting /\ pc' = pc /\ call' = call
  BY DEF Agent!Look
<1>3. held \in Serials /\ held # None
  BY <1>1 DEF Agent!TypeOK, Agent!SerialOrNone, Agent!AgentAssumption
<1>4. Agent!TypeOK'
  BY <1>1, <1>2, <1>3 DEF Agent!TypeOK, Agent!NoCall, Agent!SerialOrNone, Agent!TokenOrNone
<1>5. CallIsOfAgent' /\ Agent!UsedIsOnRecord' /\ SecretIsHeld'
  BY <1>1, <1>2, <1>3 DEF CallIsOfAgent, Agent!UsedIsOnRecord, SecretIsHeld, Agent!NoCall
<1>6. TokensAreSpent' /\ Agent!TokenBuysOneCertificate'
  BY <1>1, <1>2 DEF TokensAreSpent, Agent!TokenBuysOneCertificate, Agent!NoCall
<1>7. SlipsAreBought'
  <2>1. MaySlip' => MaySlip
    BY <1>1, <1>2 DEF MaySlip, Agent!NoCall
  <2> QED
    BY <1>1, <2>1 DEF SlipsAreBought
<1>8. Attempts'
  <2>1. left[held] = 1 => Agent!Attempting
    <3>1. ASSUME left[held] = 1 PROVE Agent!Attempting
      <4>1. next < 1 /\ next \in 0..Agent!ThirdOf(Life) /\ Life \in 0..Life
        BY <1>1, <3>1 DEF Attempts, Agent!TypeOK, Agent!AgentAssumption
      <4>2. next = 0
        BY <4>1, Thirds
      <4>3. 3 * (Life - 1 + Backdate) >= 2 * (Life + Backdate)
        BY DEF Agent!AgentAssumption
      <4> QED
        BY <3>1, <4>2, <4>3 DEF Agent!Attempting, Agent!Due
    <3> QED
      BY <3>1
  <2> QED
    BY <1>1, <1>2, <1>3, <2>1 DEF Attempts
<1> QED
  BY <1>4, <1>5, <1>6, <1>7, <1>8 DEF Identified

-----------------------------------------------------------------------------
(* The process is gone, and what it asked for goes on or is over.          *)
LEMMA GoneSafe ==
  ASSUME Agent!AgentAssumption, Identified,
         pc' = "off", held' = None, next' \in {0, next}, kind' = kind,
         checked' = checked, disk' \in {disk, Agent!Empty}, call' \in {call, Agent!NoCall},
         left' = left, ledger' = ledger, cached' = cached,
         flag' \in Agent!TokenOrNone, revocations' = revocations,
         answers' \in BOOLEAN, faults' \in 0..MaxFaults, calm' = FALSE,
         bought' = bought, slips' = slips
  PROVE  Identified'
<1> USE Parts
<1>1. Life \in 0..Life /\ Life \in Nat
  BY DEF Agent!AgentAssumption
<1>2. 0 \in 0..Agent!ThirdOf(Life)
  BY <1>1, Thirds
<1>3. disk' \in [key : Agent!SerialOrNone, cert : Agent!SerialOrNone, ca : BOOLEAN]
  <2>1. Agent!Empty \in [key : Agent!SerialOrNone, cert : Agent!SerialOrNone, ca : BOOLEAN]
    BY DEF Agent!Empty, Agent!SerialOrNone
  <2>2. disk \in [key : Agent!SerialOrNone, cert : Agent!SerialOrNone, ca : BOOLEAN]
    BY DEF Agent!TypeOK
  <2>3. disk' = disk \/ disk' = Agent!Empty
    OBVIOUS
  <2> HIDE Parts
  <2> QED
    BY <2>1, <2>2, <2>3
<1>4. call' \in [stage : {"none", "sent", "cleared", "issued", "answered"},
                 token : Agent!TokenOrNone, on : Agent!SerialOrNone, serial : Agent!SerialOrNone]
  BY DEF Agent!TypeOK, Agent!NoCall, Agent!TokenOrNone, Agent!SerialOrNone
<1>5. Agent!TypeOK'
  BY <1>2, <1>3, <1>4 DEF Agent!TypeOK, Agent!SerialOrNone
<1>6. CallIsOfAgent' /\ SecretIsHeld'
  BY DEF CallIsOfAgent, SecretIsHeld, Agent!NoCall
<1>7. Agent!UsedIsOnRecord'
  BY DEF Agent!UsedIsOnRecord, Agent!Empty
<1>8. TokensAreSpent' /\ Agent!TokenBuysOneCertificate'
  BY DEF TokensAreSpent, Agent!TokenBuysOneCertificate, Agent!NoCall
<1>9. SlipsAreBought' /\ Attempts'
  BY DEF SlipsAreBought, MaySlip, Agent!NoCall, Attempts
<1> QED
  BY <1>5, <1>6, <1>7, <1>8, <1>9 DEF Identified

(* An attempt came to nothing: the next one is a third of what is left     *)
(* away, before the end unless this was the last.                          *)
LEMMA AttemptOverSafe ==
  ASSUME Agent!AgentAssumption, Identified,
         held # None, checked, pc' = "up", held' = held, Agent!Spaced(held), kind' = kind,
         checked' = checked, disk' = disk, call' = Agent!NoCall,
         left' = left, ledger' = ledger, cached' = cached,
         flag' = flag, revocations' = revocations,
         answers' \in BOOLEAN, faults' \in 0..MaxFaults, calm' \in BOOLEAN,
         calm' => answers' /\ (left[held] = 1 => held \in ledger.revoked),
         bought' = bought, slips' = slips
  PROVE  Identified'
<1> USE Parts
<1>1. held \in Serials /\ left[held] \in 0..Life /\ next' = Agent!ThirdOf(left[held])
  BY DEF Agent!TypeOK, Agent!SerialOrNone, Agent!Spaced
<1>2. next' \in 0..Agent!ThirdOf(Life) /\ (left[held] > 1 => next' < left[held])
  BY <1>1, Thirds
<1>3. call' \in [stage : {"none", "sent", "cleared", "issued", "answered"},
                 token : Agent!TokenOrNone, on : Agent!SerialOrNone, serial : Agent!SerialOrNone]
  BY DEF Agent!TypeOK, Agent!NoCall, Agent!TokenOrNone, Agent!SerialOrNone
<1>4. Agent!TypeOK'
  BY <1>2, <1>3 DEF Agent!TypeOK
<1>5. CallIsOfAgent' /\ Agent!UsedIsOnRecord' /\ SecretIsHeld'
  BY DEF CallIsOfAgent, Agent!UsedIsOnRecord, SecretIsHeld, Agent!NoCall
<1>6. TokensAreSpent' /\ Agent!TokenBuysOneCertificate'
  BY DEF TokensAreSpent, Agent!TokenBuysOneCertificate, Agent!NoCall
<1>7. SlipsAreBought'
  BY DEF SlipsAreBought, MaySlip, Agent!NoCall
<1>8. Attempts'
  BY <1>1, <1>2 DEF Attempts
<1> QED
  BY <1>4, <1>5, <1>6, <1>7, <1>8 DEF Identified

LEMMA FailsSafe ==
  ASSUME Agent!AgentAssumption, Identified, call.stage # "none", pc # "saving", Agent!Fails,
         kind' = kind, checked' = checked, disk' = disk,
         left' = left, ledger' = ledger, cached' = cached,
         flag' = flag, revocations' = revocations,
         answers' \in BOOLEAN, faults' \in 0..MaxFaults, calm' \in BOOLEAN,
         calm' => calm /\ answers' /\ (left[held] = 1 => held \in ledger.revoked),
         bought' = bought, slips' = slips
  PROVE  Identified'
<1> USE Parts
<1>1. call' = Agent!NoCall /\ flag' \in Agent!TokenOrNone
  BY DEF Agent!Fails, Agent!TypeOK
<1>2. CASE pc = "renewing"
  <2>1. /\ held # None /\ checked
        /\ pc' = "up" /\ Agent!Spaced(held) /\ held' = held
    BY <1>2 DEF Agent!Fails, CallIsOfAgent, SlipsAreBought
  <2> QED
    BY <1>1, <2>1, AttemptOverSafe
<1>3. CASE pc \in {"off", "enrolling"}
  <2>1. held = None /\ calm' = FALSE
    BY <1>3 DEF CallIsOfAgent, Attempts
  <2>2. pc' = "off" /\ held' = None /\ next' \in {0, next}
    BY <1>3, <2>1 DEF Agent!Fails, Agent!Stopped
  <2> QED
    BY <1>1, <2>1, <2>2, GoneSafe
<1>4. pc \in {"renewing", "off", "enrolling"}
  BY DEF Agent!TypeOK, CallIsOfAgent
<1> QED
  BY <1>2, <1>3, <1>4

LEMMA Faulted ==
  ASSUME Agent!AgentAssumption, Identified, Agent!Fault
  PROVE  answers' \in BOOLEAN /\ faults' \in 0..MaxFaults /\ calm' = FALSE
BY DEF Agent!AgentAssumption, Identified, Agent!TypeOK, Agent!Fault

LEMMA CallLostSafe ==
  ASSUME Agent!AgentAssumption, Identified, Agent!CallLost
  PROVE  Identified'
<1> USE Parts
<1>1. /\ call.stage # "none" /\ pc # "saving" /\ Agent!Fails
      /\ kind' = kind /\ checked' = checked /\ disk' = disk
      /\ left' = left /\ ledger' = ledger /\ cached' = cached
      /\ flag' = flag /\ revocations' = revocations
      /\ bought' = bought /\ slips' = slips
  BY DEF Agent!CallLost, Agent!operator, Agent!history
<1>2. answers' \in BOOLEAN /\ faults' \in 0..MaxFaults /\ calm' = FALSE
  <2>1. CASE answers
    BY <2>1, Faulted DEF Agent!CallLost
  <2>2. CASE ~answers
    BY <2>2 DEF Agent!CallLost, Agent!trouble, Agent!TypeOK, Attempts
  <2> QED
    BY <2>1, <2>2
<1> QED
  BY <1>1, <1>2, FailsSafe

LEMMA CrashSafe == ASSUME Agent!AgentAssumption, Identified, Agent!Crash PROVE Identified'
<1>1. /\ Agent!Fault /\ pc' = "off" /\ held' = None /\ next' = 0
      /\ kind' = kind /\ checked' = checked /\ disk' = disk /\ call' = call
      /\ left' = left /\ ledger' = ledger /\ cached' = cached
      /\ flag' = flag /\ revocations' = revocations
      /\ bought' = bought /\ slips' = slips /\ flag' \in Agent!TokenOrNone
  BY DEF Agent!Crash, Agent!Stopped, Agent!gateway, Agent!operator, Agent!history,
     Identified, Agent!TypeOK
<1> QED
  BY <1>1, Faulted, GoneSafe

LEMMA RedeploySafe ==
  ASSUME Agent!AgentAssumption, Identified, NEW t \in Tokens, Agent!Redeploy(t)
  PROVE  Identified'
<1>1. /\ pc' = "off" /\ held' = None /\ next' = 0 /\ calm' = FALSE
      /\ kind' = kind /\ checked' = checked /\ disk' \in {disk, Agent!Empty} /\ call' = call
      /\ left' = left /\ ledger' = ledger /\ cached' = cached
      /\ flag' = t /\ revocations' = revocations
      /\ bought' = bought /\ slips' = slips /\ answers' = answers /\ faults' = faults
  BY DEF Agent!Redeploy, Agent!Stopped, Agent!gateway, Agent!history
<1>2. flag' \in Agent!TokenOrNone /\ answers' \in BOOLEAN /\ faults' \in 0..MaxFaults
  BY <1>1 DEF Agent!TokenOrNone, Identified, Agent!TypeOK
<1> QED
  BY <1>1, <1>2, GoneSafe

LEMMA ReplyDroppedSafe ==
  ASSUME Agent!AgentAssumption, Identified, Agent!ReplyDropped
  PROVE  Identified'
<1> USE Parts
<1>1. /\ pc = "off" /\ call' = Agent!NoCall /\ pc' = pc /\ held' = held /\ next' = next
      /\ kind' = kind /\ checked' = checked /\ disk' = disk
      /\ left' = left /\ ledger' = ledger /\ cached' = cached
      /\ flag' = flag /\ revocations' = revocations
      /\ bought' = bought /\ slips' = slips
      /\ answers' = answers /\ faults' = faults /\ calm' = calm
  BY DEF Agent!ReplyDropped, Agent!agent, Agent!operator, Agent!trouble, Agent!history
<1>2. held = None /\ calm = FALSE /\ flag' \in Agent!TokenOrNone
  BY <1>1 DEF CallIsOfAgent, Attempts, Agent!TypeOK
<1>3. answers' \in BOOLEAN /\ faults' \in 0..MaxFaults
  BY <1>1 DEF Agent!TypeOK
<1> QED
  BY <1>1, <1>2, <1>3, GoneSafe

-----------------------------------------------------------------------------
(* The process starts, to enrol or on what it stored.                      *)
LEMMA EnrollingSafe ==
  ASSUME Agent!AgentAssumption, Identified, NEW t \in Tokens, pc = "off", Agent!Enrolling(t),
         kind' = kind, disk' = disk, left' = left, ledger' = ledger, cached' = cached,
         flag' = flag, revocations' = revocations,
         answers' \in BOOLEAN, faults' \in 0..MaxFaults, calm' = calm \/ calm' = FALSE,
         bought' = bought, slips' = slips
  PROVE  Identified'
<1> USE Parts
<1>1. /\ pc' = "enrolling" /\ held' = held /\ next' = next /\ checked' = checked
      /\ call' = [Agent!NoCall EXCEPT !.stage = "sent", !.token = t]
  BY DEF Agent!Enrolling
<1>2. held = None /\ calm' = FALSE
  <2>1. held = None
    BY DEF CallIsOfAgent
  <2>2. calm = FALSE
    BY <2>1 DEF Attempts, Agent!TypeOK
  <2> QED
    BY <2>1, <2>2
<1>3. call'.stage = "sent" /\ call'.token = t /\ call'.on = None
  BY <1>1 DEF Agent!NoCall
<1>4. call' \in [stage : {"none", "sent", "cleared", "issued", "answered"},
                 token : Agent!TokenOrNone, on : Agent!SerialOrNone, serial : Agent!SerialOrNone]
  BY <1>1 DEF Agent!NoCall, Agent!TokenOrNone, Agent!SerialOrNone
<1>5. Agent!TypeOK'
  BY <1>1, <1>2, <1>4 DEF Agent!TypeOK
<1>6. CallIsOfAgent' /\ Agent!UsedIsOnRecord' /\ SecretIsHeld'
  BY <1>1, <1>2, <1>3 DEF CallIsOfAgent, Agent!UsedIsOnRecord, SecretIsHeld
<1>7. TokensAreSpent' /\ Agent!TokenBuysOneCertificate'
  BY <1>3 DEF TokensAreSpent, Agent!TokenBuysOneCertificate
<1>8. None \notin ledger.revoked
  BY DEF Agent!TypeOK, Agent!AgentAssumption
<1>9. SlipsAreBought' /\ Attempts'
  BY <1>1, <1>2, <1>3, <1>8 DEF SlipsAreBought, MaySlip, Attempts
<1> QED
  BY <1>5, <1>6, <1>7, <1>9 DEF Identified

LEMMA StartSafe == ASSUME Agent!AgentAssumption, Identified, Agent!Start PROVE Identified'
<1> USE Parts
<1>1. /\ pc = "off" /\ call.stage = "none"
      /\ kind' = kind /\ disk' = disk /\ left' = left /\ ledger' = ledger
      /\ cached' = cached /\ flag' = flag /\ revocations' = revocations
      /\ answers' = answers /\ faults' = faults /\ calm' = calm
      /\ bought' = bought /\ slips' = slips
  BY DEF Agent!Start, Agent!NoCall, Agent!operator, Agent!trouble, Agent!history
<1>2. CASE Agent!Exists
  <2>1. /\ Agent!Loads /\ pc' = "up" /\ held' = disk.cert /\ next' = 0
        /\ checked' = TRUE /\ call' = call
    BY <1>2 DEF Agent!Start
  <2>2. disk.cert # None /\ disk.key = disk.cert /\ disk.ca /\ disk.cert \in Serials
    BY <1>2, <2>1 DEF Agent!Exists, Agent!Loads, Agent!TypeOK, Agent!SerialOrNone
  <2>3. calm' = FALSE
    BY <1>1 DEF CallIsOfAgent, Attempts, Agent!TypeOK
  <2>4. 0 \in 0..Agent!ThirdOf(Life) /\ left[disk.cert] \in Nat
    <3>1. Life \in 0..Life
      BY DEF Agent!AgentAssumption
    <3> QED
      BY <2>2, <3>1, Thirds DEF Agent!TypeOK
  <2>5. Agent!TypeOK'
    BY <1>1, <2>1, <2>2, <2>4 DEF Agent!TypeOK, Agent!SerialOrNone
  <2>6. CallIsOfAgent' /\ Agent!UsedIsOnRecord' /\ SecretIsHeld'
    BY <1>1, <2>1, <2>2 DEF CallIsOfAgent, Agent!UsedIsOnRecord, SecretIsHeld
  <2>7. TokensAreSpent' /\ Agent!TokenBuysOneCertificate'
    BY <1>1, <2>1 DEF TokensAreSpent, Agent!TokenBuysOneCertificate
  <2>8. SlipsAreBought'
    BY <1>1, <2>1 DEF SlipsAreBought, MaySlip
  <2>9. Attempts'
    BY <1>1, <2>1, <2>3, <2>4 DEF Attempts
  <2> QED
    BY <2>5, <2>6, <2>7, <2>8, <2>9 DEF Identified
<1>3. CASE ~Agent!Exists
  <2>1. flag \in Tokens /\ Agent!Enrolling(flag)
    BY <1>3 DEF Agent!Start, Agent!TypeOK, Agent!TokenOrNone
  <2>2. answers' \in BOOLEAN /\ faults' \in 0..MaxFaults
    BY <1>1 DEF Agent!TypeOK
  <2> QED
    BY <1>1, <2>1, <2>2, EnrollingSafe
<1> QED
  BY <1>2, <1>3

LEMMA StartUnreadableSafe ==
  ASSUME Agent!AgentAssumption, Identified, Agent!StartUnreadable
  PROVE  Identified'
<1>1. /\ pc = "off" /\ flag \in Tokens /\ Agent!Enrolling(flag) /\ Agent!Fault
      /\ kind' = kind /\ disk' = disk /\ left' = left /\ ledger' = ledger
      /\ cached' = cached /\ flag' = flag /\ revocations' = revocations
      /\ bought' = bought /\ slips' = slips
  BY DEF Agent!StartUnreadable, Agent!operator, Agent!history, Identified,
     Agent!TypeOK, Agent!TokenOrNone
<1> QED
  BY <1>1, Faulted, EnrollingSafe

-----------------------------------------------------------------------------
(* The gateway: what a stage of a call leaves alone.                       *)
LEMMA SpendSafe == ASSUME Agent!AgentAssumption, Identified, Agent!Spend PROVE Identified'
<1> USE Parts
<1>1. /\ call.stage = "sent" /\ call.token \in Tokens /\ call.on = None
      /\ kind' = kind /\ checked' = checked /\ disk' = disk /\ left' = left
      /\ cached' = cached /\ flag' = flag /\ revocations' = revocations
      /\ answers' = answers /\ faults' = faults /\ calm' = calm
      /\ bought' = bought /\ slips' = slips
  BY DEF Agent!Spend, Agent!operator, Agent!trouble, Agent!history, Agent!TypeOK,
     Agent!TokenOrNone, CallIsOfAgent
<1>2. pc \notin {"saving", "renewing"}
  BY <1>1 DEF CallIsOfAgent, Agent!TypeOK, Agent!AgentAssumption
<1>3. CASE ledger.tokens[call.token] = "fresh"
  <2>1. /\ ledger' = [ledger EXCEPT !.tokens[call.token] = "spent"]
        /\ call' = [call EXCEPT !.stage = "cleared"]
        /\ pc' = pc /\ held' = held /\ next' = next
    BY <1>3 DEF Agent!Spend
  <2>2. /\ call'.stage = "cleared" /\ call'.token = call.token /\ call'.on = call.on
        /\ call'.serial = call.serial
        /\ ledger'.revoked = ledger.revoked /\ ledger'.recorded = ledger.recorded
        /\ ledger'.tokens = [ledger.tokens EXCEPT ![call.token] = "spent"]
    BY <2>1 DEF Agent!TypeOK
  <2>3. Agent!TypeOK'
    BY <1>1, <2>1, <2>2 DEF Agent!TypeOK
  <2>4. CallIsOfAgent' /\ Agent!UsedIsOnRecord' /\ SecretIsHeld'
    BY <1>1, <2>1, <2>2 DEF CallIsOfAgent, Agent!UsedIsOnRecord, SecretIsHeld
  <2>5. TokensAreSpent' /\ Agent!TokenBuysOneCertificate'
    BY <1>1, <1>3, <2>1, <2>2 DEF TokensAreSpent, Agent!TokenBuysOneCertificate,
       Agent!TypeOK
  <2>6. None \notin ledger.revoked
    BY DEF Agent!TypeOK, Agent!AgentAssumption
  <2>7. SlipsAreBought' /\ Attempts'
    BY <1>1, <2>1, <2>2, <2>6 DEF SlipsAreBought, MaySlip, Attempts
  <2> QED
    BY <2>3, <2>4, <2>5, <2>7 DEF Identified
<1>4. CASE ledger.tokens[call.token] # "fresh"
  <2>1. Agent!Fails /\ ledger' = ledger
    BY <1>4 DEF Agent!Spend
  <2>2. calm' = FALSE
    BY <1>1, <1>2 DEF CallIsOfAgent, Attempts, Agent!TypeOK
  <2>3. answers' \in BOOLEAN /\ faults' \in 0..MaxFaults
    BY <1>1 DEF Agent!TypeOK
  <2> QED
    BY <1>1, <1>2, <2>1, <2>2, <2>3, FailsSafe
<1> QED
  BY <1>3, <1>4

(* A renewal fails only if the certificate is over or known to be revoked. *)
LEMMA RenewSafe == ASSUME Agent!AgentAssumption, Identified, Agent!Renew PROVE Identified'
<1> USE Parts
<1>1. /\ call.stage = "sent" /\ call.on \in Serials /\ answers
      /\ kind' = kind /\ checked' = checked /\ disk' = disk /\ left' = left
      /\ ledger' = ledger
      /\ cached' = cached /\ flag' = flag /\ revocations' = revocations
      /\ answers' = answers /\ faults' = faults /\ calm' = calm
      /\ bought' = bought /\ slips' = slips
  BY DEF Agent!Renew, Agent!operator, Agent!trouble, Agent!history, Agent!TypeOK,
     Agent!SerialOrNone
<1>2. call.token = None
  BY <1>1 DEF CallIsOfAgent, Agent!AgentAssumption
<1>3. CASE Agent!Renewable
  <2>1. /\ call' = [call EXCEPT !.stage = "cleared"]
        /\ pc' = pc /\ held' = held /\ next' = next
    BY <1>3 DEF Agent!Renew
  <2>2. /\ call'.stage = "cleared" /\ call'.token = call.token /\ call'.on = call.on
        /\ call'.serial = call.serial
    BY <2>1 DEF Agent!TypeOK
  <2>3. Agent!TypeOK'
    BY <1>1, <2>1 DEF Agent!TypeOK
  <2>4. CallIsOfAgent' /\ Agent!UsedIsOnRecord' /\ SecretIsHeld'
    BY <1>1, <2>1, <2>2 DEF CallIsOfAgent, Agent!UsedIsOnRecord, SecretIsHeld
  <2>5. TokensAreSpent' /\ Agent!TokenBuysOneCertificate'
    BY <1>1, <1>2, <2>2 DEF TokensAreSpent, Agent!TokenBuysOneCertificate,
       Agent!AgentAssumption
  <2>6. MaySlip' => MaySlip
    BY <1>1, <1>3, <2>1, <2>2 DEF MaySlip, Agent!Renewable
  <2>7. SlipsAreBought' /\ Attempts'
    BY <1>1, <2>1, <2>6 DEF SlipsAreBought, Attempts
  <2> QED
    BY <2>3, <2>4, <2>5, <2>7 DEF Identified
<1>4. CASE ~Agent!Renewable
  <2>1. Agent!Fails
    BY <1>4 DEF Agent!Renew
  <2>2. /\ pc # "saving" /\ answers' \in BOOLEAN /\ faults' \in 0..MaxFaults
        /\ calm' \in BOOLEAN
    BY <1>1 DEF CallIsOfAgent, Agent!TypeOK
  <2>3. ASSUME calm', left[held] = 1 PROVE held \in ledger.revoked
    <3>1. held = call.on
      BY <1>1, <2>3 DEF CallIsOfAgent, Attempts
    <3>2. held \in cached
      BY <1>4, <2>3, <3>1 DEF Agent!Renewable
    <3> QED
      BY <3>2 DEF SlipsAreBought
  <2> QED
    BY <1>1, <2>1, <2>2, <2>3, FailsSafe
<1> QED
  BY <1>3, <1>4

(* The serial of a new certificate is nobody's, as a call is on the        *)
(* certificate in use or on none.                                          *)
LEMMA UnusedIsFree ==
  ASSUME Agent!AgentAssumption, Identified, call.stage = "cleared"
  PROVE  Agent!Unused \in Serials /\ Agent!Unused \notin {held, disk.key, disk.cert, call.on}
<1> USE Parts
<1>1. /\ disk.key \in Serials \cup {None} /\ disk.cert \in Serials \cup {None}
      /\ call.on \in Serials \cup {None} /\ held \in {None, call.on}
  BY DEF Agent!TypeOK, Agent!SerialOrNone, CallIsOfAgent
<1>2. \E s \in Serials : s \notin {disk.key, disk.cert, call.on}
  BY <1>1 DEF Agent!AgentAssumption
<1>3. \E s \in Serials : s \notin {held, disk.key, disk.cert, call.on}
  BY <1>1, <1>2 DEF Agent!AgentAssumption
<1> QED
  BY <1>3 DEF Agent!Unused

LEMMA IssueSafe == ASSUME Agent!AgentAssumption, Identified, Agent!Issue PROVE Identified'
<1> USE Parts
<1>1. PICK s \in Serials :
        /\ s \notin {held, disk.key, disk.cert, call.on}
        /\ call' = [call EXCEPT !.stage = "issued", !.serial = s]
        /\ left' = [left EXCEPT ![s] = Life]
        /\ ledger' = [ledger EXCEPT !.recorded = @ \ {s}, !.revoked = @ \ {s}]
        /\ cached' = cached \ {s}
  BY UnusedIsFree DEF Agent!Issue
<1>2. /\ call.stage = "cleared"
      /\ kind' = kind /\ pc' = pc /\ held' = held /\ next' = next
      /\ checked' = checked /\ disk' = disk /\ flag' = flag
      /\ revocations' = revocations
      /\ answers' = answers /\ faults' = faults /\ calm' = calm
  BY DEF Agent!Issue, Agent!agent, Agent!operator, Agent!trouble
<1>3. /\ call'.stage = "issued" /\ call'.token = call.token /\ call'.on = call.on
      /\ call'.serial = s
  BY <1>1 DEF Agent!TypeOK
<1>4. /\ ledger'.tokens = ledger.tokens
      /\ ledger'.recorded = ledger.recorded \ {s}
      /\ ledger'.revoked = ledger.revoked \ {s}
  BY <1>1 DEF Agent!TypeOK
<1>5. /\ Life \in 0..Life
      /\ left' \in [Serials -> 0..Life] /\ left'[s] = Life
      /\ \A x \in Serials : x # s => left'[x] = left[x]
  <2>1. Life \in 0..Life
    BY DEF Agent!AgentAssumption
  <2>2. left \in [Serials -> 0..Life]
    BY DEF Agent!TypeOK
  <2> QED
    BY <1>1, <2>1, <2>2
<1>6. call' \in [stage : {"none", "sent", "cleared", "issued", "answered"},
                 token : Agent!TokenOrNone, on : Agent!SerialOrNone, serial : Agent!SerialOrNone]
  BY <1>1 DEF Agent!TypeOK, Agent!SerialOrNone
<1>7. ledger' \in [tokens : [Tokens -> {"unissued", "fresh", "spent"}],
                   recorded : SUBSET Serials, revoked : SUBSET Serials]
  BY <1>1 DEF Agent!TypeOK
<1>8. /\ bought' \in [Tokens -> Nat]
      /\ \A t \in Tokens :
           bought'[t] = bought[t] \/ (call.token = t /\ bought'[t] = bought[t] + 1)
  <2>1. bought' = IF call.token = None THEN bought
                                      ELSE [bought EXCEPT ![call.token] = @ + 1]
    BY DEF Agent!Issue
  <2>2. bought \in [Tokens -> Nat] /\ call.token \in Tokens \cup {None}
    BY DEF Agent!TypeOK, Agent!TokenOrNone
  <2> QED
    BY <2>1, <2>2
<1>9. slips' \in Nat /\ slips' = IF call.on \in ledger.revoked THEN slips + 1 ELSE slips
  <2>1. slips' = IF call.on \in ledger.revoked THEN slips + 1 ELSE slips
    BY DEF Agent!Issue
  <2>2. slips \in Nat
    BY DEF Agent!TypeOK
  <2> QED
    BY <2>1, <2>2
<1>10. Agent!TypeOK'
  BY <1>1, <1>2, <1>4, <1>5, <1>6, <1>7, <1>8, <1>9 DEF Agent!TypeOK
<1>11. CallIsOfAgent' /\ Agent!UsedIsOnRecord' /\ SecretIsHeld'
  BY <1>1, <1>2, <1>3, <1>4, <1>5 DEF CallIsOfAgent, Agent!UsedIsOnRecord, SecretIsHeld
<1>12. TokensAreSpent' /\ Agent!TokenBuysOneCertificate'
  <2>1. ASSUME NEW t \in Tokens, bought'[t] # bought[t]
        PROVE  bought'[t] = 1 /\ ledger.tokens[t] = "spent"
    BY <1>2, <1>8, <2>1 DEF TokensAreSpent
  <2> QED
    BY <1>3, <1>4, <2>1 DEF TokensAreSpent, Agent!TokenBuysOneCertificate
<1>13. SlipsAreBought'
  <2>1. slips' <= revocations
    BY <1>2, <1>9 DEF SlipsAreBought, MaySlip
  <2>2. ~MaySlip'
    BY <1>2, <1>3 DEF MaySlip, CallIsOfAgent
  <2> QED
    BY <1>1, <1>2, <1>4, <2>1, <2>2 DEF SlipsAreBought
<1>14. Attempts'
  BY <1>1, <1>2, <1>3, <1>4, <1>5 DEF Attempts, Agent!TypeOK, Agent!SerialOrNone,
     CallIsOfAgent
<1> QED
  BY <1>10, <1>11, <1>12, <1>13, <1>14 DEF Identified

LEMMA RecordCertificateSafe ==
  ASSUME Agent!AgentAssumption, Identified, Agent!RecordCertificate
  PROVE  Identified'
<1> USE Parts
<1>1. /\ call.stage = "issued" /\ call.serial \in Serials
      /\ ledger' = [ledger EXCEPT !.recorded = @ \cup {call.serial}]
      /\ call' = [call EXCEPT !.stage = "answered"]
      /\ kind' = kind /\ pc' = pc /\ held' = held /\ next' = next
      /\ checked' = checked /\ disk' = disk /\ left' = left /\ cached' = cached
      /\ flag' = flag /\ revocations' = revocations
      /\ answers' = answers /\ faults' = faults /\ calm' = calm
      /\ bought' = bought /\ slips' = slips
  BY DEF Agent!RecordCertificate, Agent!agent, Agent!operator, Agent!trouble,
     Agent!history, CallIsOfAgent
<1>2. /\ call'.stage = "answered" /\ call'.token = call.token /\ call'.on = call.on
      /\ call'.serial = call.serial
      /\ ledger'.tokens = ledger.tokens /\ ledger'.revoked = ledger.revoked
      /\ ledger'.recorded = ledger.recorded \cup {call.serial}
  BY <1>1 DEF Agent!TypeOK
<1>3. Agent!TypeOK'
  BY <1>1, <1>2 DEF Agent!TypeOK
<1>4. CallIsOfAgent' /\ Agent!UsedIsOnRecord' /\ SecretIsHeld'
  BY <1>1, <1>2 DEF CallIsOfAgent, Agent!UsedIsOnRecord, SecretIsHeld
<1>5. TokensAreSpent' /\ Agent!TokenBuysOneCertificate'
  BY <1>1, <1>2 DEF TokensAreSpent, Agent!TokenBuysOneCertificate
<1>6. SlipsAreBought' /\ Attempts'
  BY <1>1, <1>2 DEF SlipsAreBought, MaySlip, Attempts
<1> QED
  BY <1>3, <1>4, <1>5, <1>6 DEF Identified

-----------------------------------------------------------------------------
(* The agent stores what it was granted.                                   *)
LEMMA ReplySafe == ASSUME Agent!AgentAssumption, Identified, Agent!Reply PROVE Identified'
<1> USE Parts
<1>1. /\ call.stage = "answered" /\ pc \in {"enrolling", "renewing"} /\ pc' = "saving"
      /\ kind' = kind /\ held' = held /\ next' = next
      /\ checked' = checked /\ disk' = disk /\ call' = call /\ left' = left
      /\ ledger' = ledger /\ cached' = cached
      /\ flag' = flag /\ revocations' = revocations
      /\ answers' = answers /\ faults' = faults /\ calm' = calm
      /\ bought' = bought /\ slips' = slips
  BY DEF Agent!Reply, Agent!gateway, Agent!operator, Agent!trouble, Agent!history
<1>2. Agent!TypeOK'
  BY <1>1 DEF Agent!TypeOK
<1>3. CallIsOfAgent' /\ Agent!UsedIsOnRecord' /\ SecretIsHeld'
  BY <1>1 DEF CallIsOfAgent, Agent!UsedIsOnRecord, SecretIsHeld
<1>4. TokensAreSpent' /\ Agent!TokenBuysOneCertificate'
  BY <1>1 DEF TokensAreSpent, Agent!TokenBuysOneCertificate
<1>5. SlipsAreBought' /\ Attempts'
  BY <1>1 DEF SlipsAreBought, MaySlip, Attempts, CallIsOfAgent
<1> QED
  BY <1>2, <1>3, <1>4, <1>5 DEF Identified

(* The last write of a save: the certificate is in use from now on.        *)
LEMMA StoredSafe ==
  ASSUME Agent!AgentAssumption, Identified, pc = "saving", Agent!Stored, Agent!Resumes, checked' = TRUE,
         disk' \in [key : Agent!SerialOrNone, cert : Agent!SerialOrNone, ca : BOOLEAN],
         kind = "secret" => disk'.key = call.serial,
         disk'.cert = call.serial, disk'.ca = TRUE,
         kind' = kind, left' = left, ledger' = ledger, cached' = cached,
         flag' = flag, revocations' = revocations,
         answers' = answers, faults' = faults, calm' = calm,
         bought' = bought, slips' = slips
  PROVE  Identified'
<1> USE Parts
<1>1. /\ call.serial \in Serials /\ call.serial \in ledger.recorded
      /\ call.serial # None
      /\ pc' = "up" /\ held' = call.serial /\ call' = Agent!NoCall
  BY DEF CallIsOfAgent, Agent!Stored, Agent!AgentAssumption
<1>2. left[call.serial] \in 0..Life /\ Life \in 0..Life /\ left[call.serial] \in Nat
  BY <1>1 DEF Agent!TypeOK, Agent!AgentAssumption
<1>3. next' = 0 \/ next' = Agent!ThirdOf(left[call.serial])
  BY DEF Agent!Resumes, Agent!Spaced
<1>4. /\ next' \in 0..Agent!ThirdOf(Life)
      /\ left[call.serial] > 1 => next' < left[call.serial]
  BY <1>2, <1>3, Thirds
<1>5. call' \in [stage : {"none", "sent", "cleared", "issued", "answered"},
                 token : Agent!TokenOrNone, on : Agent!SerialOrNone, serial : Agent!SerialOrNone]
  BY <1>1 DEF Agent!NoCall, Agent!TokenOrNone, Agent!SerialOrNone
<1>6. Agent!TypeOK'
  BY <1>1, <1>4, <1>5 DEF Agent!TypeOK, Agent!SerialOrNone
<1>7. CallIsOfAgent' /\ Agent!UsedIsOnRecord' /\ SecretIsHeld'
  BY <1>1 DEF CallIsOfAgent, Agent!UsedIsOnRecord, SecretIsHeld, Agent!NoCall
<1>8. TokensAreSpent' /\ Agent!TokenBuysOneCertificate'
  BY <1>1 DEF TokensAreSpent, Agent!TokenBuysOneCertificate, Agent!NoCall
<1>9. SlipsAreBought'
  BY <1>1 DEF SlipsAreBought, MaySlip, Agent!NoCall
<1>10. left[call.serial] > 1
  <2>1. left[call.serial] = Life
    BY DEF CallIsOfAgent
  <2> QED
    BY <2>1 DEF Agent!AgentAssumption
<1>11. Attempts'
  BY <1>1, <1>4, <1>10 DEF Attempts
<1> QED
  BY <1>6, <1>7, <1>8, <1>9, <1>11 DEF Identified

LEMMA SaveSecretSafe ==
  ASSUME Agent!AgentAssumption, Identified, Agent!SaveSecret
  PROVE  Identified'
<1> USE Parts
<1>1. /\ pc = "saving" /\ Agent!Stored /\ Agent!Resumes /\ checked' = TRUE
      /\ disk' = [key |-> call.serial, cert |-> call.serial, ca |-> TRUE]
      /\ kind' = kind /\ left' = left /\ ledger' = ledger /\ cached' = cached
      /\ flag' = flag /\ revocations' = revocations
      /\ answers' = answers /\ faults' = faults /\ calm' = calm
      /\ bought' = bought /\ slips' = slips
  BY DEF Agent!SaveSecret, Agent!operator, Agent!trouble, Agent!history
<1>2. call.serial \in Agent!SerialOrNone
  BY <1>1 DEF Agent!TypeOK
<1>3. /\ disk' \in [key : Agent!SerialOrNone, cert : Agent!SerialOrNone, ca : BOOLEAN]
      /\ disk'.key = call.serial /\ disk'.cert = call.serial /\ disk'.ca = TRUE
  BY <1>1, <1>2
<1> QED
  BY <1>1, <1>3, StoredSafe

(* Between the renames of a file nothing is held that is not on record.    *)
LEMMA SaveFileSafe ==
  ASSUME Agent!AgentAssumption, Identified, Agent!SaveFile
  PROVE  Identified'
<1> USE Parts
<1>1. /\ pc = "saving" /\ kind = "file"
      /\ kind' = kind /\ left' = left /\ ledger' = ledger /\ cached' = cached
      /\ flag' = flag /\ revocations' = revocations
      /\ answers' = answers /\ faults' = faults /\ calm' = calm
      /\ bought' = bought /\ slips' = slips
  BY DEF Agent!SaveFile, Agent!operator, Agent!trouble, Agent!history
<1>2. /\ disk \in [key : Agent!SerialOrNone, cert : Agent!SerialOrNone, ca : BOOLEAN]
      /\ call.serial \in Serials /\ call.serial \in ledger.recorded
  BY <1>1 DEF Agent!TypeOK, CallIsOfAgent
<1>3. ASSUME disk' \in [key : Agent!SerialOrNone, cert : Agent!SerialOrNone, ca : BOOLEAN],
             disk'.cert \in {disk.cert, call.serial},
             pc' = pc, held' = held, next' = next, checked' = checked, call' = call
      PROVE  Identified'
  <2>1. Agent!TypeOK'
    BY <1>1, <1>3 DEF Agent!TypeOK
  <2>2. CallIsOfAgent' /\ SecretIsHeld'
    BY <1>1, <1>3 DEF CallIsOfAgent, SecretIsHeld
  <2>3. Agent!UsedIsOnRecord'
    BY <1>1, <1>2, <1>3 DEF Agent!UsedIsOnRecord
  <2>4. TokensAreSpent' /\ Agent!TokenBuysOneCertificate'
    BY <1>1, <1>3 DEF TokensAreSpent, Agent!TokenBuysOneCertificate
  <2>5. SlipsAreBought' /\ Attempts'
    BY <1>1, <1>3 DEF SlipsAreBought, MaySlip, Attempts
  <2> QED
    BY <2>1, <2>2, <2>3, <2>4, <2>5 DEF Identified
<1>4. CASE /\ disk.key # call.serial
           /\ disk' = [disk EXCEPT !.key = call.serial]
           /\ UNCHANGED <<pc, held, next, checked, call>>
  <2>1. /\ disk' \in [key : Agent!SerialOrNone, cert : Agent!SerialOrNone, ca : BOOLEAN]
        /\ disk'.cert = disk.cert
    BY <1>2, <1>4 DEF Agent!SerialOrNone
  <2> QED
    BY <1>3, <1>4, <2>1
<1>5. CASE /\ disk.key = call.serial /\ disk.cert # call.serial
           /\ disk' = [disk EXCEPT !.cert = call.serial]
           /\ UNCHANGED <<pc, held, next, checked, call>>
  <2>1. /\ disk' \in [key : Agent!SerialOrNone, cert : Agent!SerialOrNone, ca : BOOLEAN]
        /\ disk'.cert = call.serial
    BY <1>2, <1>5 DEF Agent!SerialOrNone
  <2> QED
    BY <1>3, <1>5, <2>1
<1>6. CASE /\ disk.cert = call.serial
           /\ disk' = [disk EXCEPT !.ca = TRUE]
           /\ Agent!Stored /\ Agent!Resumes /\ checked' = TRUE
  <2>1. /\ disk' \in [key : Agent!SerialOrNone, cert : Agent!SerialOrNone, ca : BOOLEAN]
        /\ disk'.cert = call.serial
    BY <1>2, <1>6
  <2>2. disk'.ca = TRUE
    BY <1>2, <1>6
  <2> QED
    BY <1>1, <1>6, <2>1, <2>2, StoredSafe
<1> QED
  BY <1>4, <1>5, <1>6 DEF Agent!SaveFile

LEMMA SaveFailsSafe ==
  ASSUME Agent!AgentAssumption, Identified, Agent!SaveFails
  PROVE  Identified'
<1> USE Parts
<1>1. /\ pc = "saving" /\ call' = Agent!NoCall /\ Agent!Fault
      /\ kind' = kind /\ checked' = checked /\ disk' = disk /\ left' = left
      /\ ledger' = ledger /\ cached' = cached
      /\ flag' = flag /\ revocations' = revocations
      /\ bought' = bought /\ slips' = slips /\ flag' \in Agent!TokenOrNone
  BY DEF Agent!SaveFails, Agent!operator, Agent!history, Agent!TypeOK
<1>2. answers' \in BOOLEAN /\ faults' \in 0..MaxFaults /\ calm' = FALSE
  BY <1>1, Faulted
<1>3. CASE held = None
  BY <1>1, <1>2, <1>3, GoneSafe DEF Agent!SaveFails, Agent!Stopped
<1>4. CASE held # None
  <2>1. checked /\ pc' = "up" /\ Agent!Spaced(held) /\ held' = held
    BY <1>1, <1>4 DEF Agent!SaveFails, SlipsAreBought
  <2> QED
    BY <1>1, <1>2, <1>4, <2>1, AttemptOverSafe
<1> QED
  BY <1>3, <1>4

-----------------------------------------------------------------------------
(* The operator, the sweep and the weather.                                *)
LEMMA IssueTokenSafe ==
  ASSUME Agent!AgentAssumption, Identified, NEW t \in Tokens, Agent!IssueToken(t)
  PROVE  Identified'
<1> USE Parts
<1>1. /\ ledger.tokens[t] = "unissued"
      /\ ledger' = [ledger EXCEPT !.tokens[t] = "fresh"]
      /\ kind' = kind /\ pc' = pc /\ held' = held /\ next' = next
      /\ checked' = checked /\ disk' = disk /\ call' = call
      /\ left' = left /\ cached' = cached
      /\ flag' = flag /\ revocations' = revocations
      /\ answers' = answers /\ faults' = faults /\ calm' = calm
      /\ bought' = bought /\ slips' = slips
  BY DEF Agent!IssueToken, Agent!agent, Agent!operator, Agent!trouble, Agent!history
<1>2. /\ ledger'.recorded = ledger.recorded /\ ledger'.revoked = ledger.revoked
      /\ ledger'.tokens = [ledger.tokens EXCEPT ![t] = "fresh"]
  BY <1>1 DEF Agent!TypeOK
<1>3. Agent!TypeOK'
  BY <1>1, <1>2 DEF Agent!TypeOK
<1>4. CallIsOfAgent' /\ Agent!UsedIsOnRecord' /\ SecretIsHeld'
  BY <1>1, <1>2 DEF CallIsOfAgent, Agent!UsedIsOnRecord, SecretIsHeld
<1>5. TokensAreSpent' /\ Agent!TokenBuysOneCertificate'
  BY <1>1, <1>2 DEF TokensAreSpent, Agent!TokenBuysOneCertificate, Agent!TypeOK
<1>6. SlipsAreBought' /\ Attempts'
  BY <1>1, <1>2 DEF SlipsAreBought, MaySlip, Attempts
<1> QED
  BY <1>3, <1>4, <1>5, <1>6 DEF Identified

(* A revocation pays for the one renewal that may slip through it.         *)
LEMMA RevokeClusterSafe ==
  ASSUME Agent!AgentAssumption, Identified, Agent!RevokeCluster
  PROVE  Identified'
<1> USE Parts
<1>1. /\ revocations < MaxRevoked /\ revocations' = revocations + 1
      /\ ledger' = [ledger EXCEPT
            !.revoked = @ \cup {s \in ledger.recorded : left[s] > 0}]
      /\ kind' = kind /\ pc' = pc /\ held' = held /\ next' = next
      /\ checked' = checked /\ disk' = disk /\ call' = call
      /\ left' = left /\ cached' = cached /\ flag' = flag
      /\ answers' = answers /\ faults' = faults /\ calm' = calm
      /\ bought' = bought /\ slips' = slips
  BY DEF Agent!RevokeCluster, Agent!agent, Agent!trouble, Agent!history
<1>2. /\ ledger'.recorded = ledger.recorded /\ ledger'.tokens = ledger.tokens
      /\ ledger'.revoked = ledger.revoked \cup {s \in ledger.recorded : left[s] > 0}
  BY <1>1 DEF Agent!TypeOK
<1>3. revocations' \in 0..MaxRevoked /\ revocations \in Nat /\ slips \in Nat
  <2>1. MaxRevoked \in Nat
    BY DEF Agent!AgentAssumption
  <2>2. revocations \in 0..MaxRevoked /\ slips \in Nat
    BY DEF Agent!TypeOK
  <2> QED
    BY <1>1, <2>1, <2>2
<1>4. Agent!TypeOK'
  BY <1>1, <1>2, <1>3 DEF Agent!TypeOK
<1>5. CallIsOfAgent' /\ Agent!UsedIsOnRecord' /\ SecretIsHeld'
  BY <1>1, <1>2 DEF CallIsOfAgent, Agent!UsedIsOnRecord, SecretIsHeld
<1>6. TokensAreSpent' /\ Agent!TokenBuysOneCertificate'
  BY <1>1, <1>2 DEF TokensAreSpent, Agent!TokenBuysOneCertificate
<1>7. SlipsAreBought'
  <2>1. slips' <= revocations' /\ slips' + 1 <= revocations'
    BY <1>1, <1>3 DEF SlipsAreBought
  <2>2. cached' \subseteq ledger'.revoked
    BY <1>1, <1>2 DEF SlipsAreBought
  <2> QED
    BY <1>1, <2>1, <2>2 DEF SlipsAreBought
<1>8. Attempts'
  BY <1>1, <1>2 DEF Attempts
<1> QED
  BY <1>4, <1>5, <1>6, <1>7, <1>8 DEF Identified

LEMMA SweepSafe == ASSUME Agent!AgentAssumption, Identified, Agent!Sweep PROVE Identified'
<1> USE Parts
<1>1. /\ cached' = ledger.revoked
      /\ kind' = kind /\ pc' = pc /\ held' = held /\ next' = next
      /\ checked' = checked /\ disk' = disk /\ call' = call
      /\ left' = left /\ ledger' = ledger
      /\ flag' = flag /\ revocations' = revocations
      /\ answers' = answers /\ faults' = faults /\ calm' = calm
      /\ bought' = bought /\ slips' = slips
  BY DEF Agent!Sweep, Agent!agent, Agent!operator, Agent!trouble, Agent!history
<1>2. Agent!TypeOK'
  BY <1>1 DEF Agent!TypeOK
<1>3. CallIsOfAgent' /\ Agent!UsedIsOnRecord' /\ SecretIsHeld'
  BY <1>1 DEF CallIsOfAgent, Agent!UsedIsOnRecord, SecretIsHeld
<1>4. TokensAreSpent' /\ Agent!TokenBuysOneCertificate'
  BY <1>1 DEF TokensAreSpent, Agent!TokenBuysOneCertificate
<1>5. SlipsAreBought' /\ Attempts'
  BY <1>1 DEF SlipsAreBought, MaySlip, Attempts
<1> QED
  BY <1>2, <1>3, <1>4, <1>5 DEF Identified

(* An outage begins or ends, or nothing happens.                           *)
LEMMA WeatherSafe ==
  ASSUME Agent!AgentAssumption, Identified, Agent!Outage \/ Agent!Recovers \/ UNCHANGED Agent!vars
  PROVE  Identified'
<1> USE Parts
<1>1. /\ kind' = kind /\ pc' = pc /\ held' = held /\ next' = next
      /\ checked' = checked /\ disk' = disk /\ call' = call
      /\ left' = left /\ ledger' = ledger /\ cached' = cached
      /\ flag' = flag /\ revocations' = revocations
      /\ bought' = bought /\ slips' = slips
  BY DEF Agent!Outage, Agent!Recovers, Agent!vars, Agent!agent, Agent!gateway,
     Agent!operator, Agent!history
<1>2. /\ answers' \in BOOLEAN /\ faults' \in 0..MaxFaults /\ calm' \in BOOLEAN
      /\ calm' => calm /\ answers'
  <2>1. CASE Agent!Outage
    <3>1. MaxFaults \in Nat
      BY DEF Agent!AgentAssumption
    <3>2. faults \in 0..MaxFaults
      BY DEF Agent!TypeOK
    <3>3. answers' = FALSE /\ calm' = FALSE
      BY <2>1 DEF Agent!Outage
    <3>4. faults < MaxFaults /\ faults' = faults + 1
      BY <2>1 DEF Agent!Outage
    <3>5. faults' \in 0..MaxFaults
      BY <3>1, <3>2, <3>4
    <3> QED
      BY <3>3, <3>5
  <2>2. CASE Agent!Recovers
    BY <2>2 DEF Agent!Recovers, Agent!TypeOK
  <2>3. CASE UNCHANGED Agent!vars
    BY <2>3 DEF Agent!vars, Agent!trouble, Agent!TypeOK, Attempts
  <2> QED
    BY <2>1, <2>2, <2>3
<1>3. Agent!TypeOK'
  BY <1>1, <1>2 DEF Agent!TypeOK
<1>4. CallIsOfAgent' /\ Agent!UsedIsOnRecord' /\ SecretIsHeld'
  BY <1>1 DEF CallIsOfAgent, Agent!UsedIsOnRecord, SecretIsHeld
<1>5. TokensAreSpent' /\ Agent!TokenBuysOneCertificate'
  BY <1>1 DEF TokensAreSpent, Agent!TokenBuysOneCertificate
<1>6. SlipsAreBought' /\ Attempts'
  BY <1>1, <1>2 DEF SlipsAreBought, MaySlip, Attempts
<1> QED
  BY <1>3, <1>4, <1>5, <1>6 DEF Identified

-----------------------------------------------------------------------------
LEMMA IdentityStep ==
  ASSUME Agent!AgentAssumption, Identified, [Agent!Next]_Agent!vars
  PROVE  Identified'
<1>1. CASE Agent!Tick \/ Agent!Look \/ Agent!Start \/ Agent!StartUnreadable \/ Agent!Crash
  BY <1>1, TickSafe, LookSafe, StartSafe, StartUnreadableSafe, CrashSafe
<1>2. CASE Agent!Served
  BY <1>2, SpendSafe, RenewSafe, IssueSafe, RecordCertificateSafe,
     ReplySafe DEF Agent!Served
<1>3. CASE Agent!CallLost \/ Agent!ReplyDropped
  BY <1>3, CallLostSafe, ReplyDroppedSafe
<1>4. CASE Agent!Saved \/ Agent!SaveFails
  BY <1>4, SaveSecretSafe, SaveFileSafe, SaveFailsSafe DEF Agent!Saved
<1>5. CASE \E t \in Tokens : Agent!IssueToken(t) \/ Agent!Redeploy(t)
  BY <1>5, IssueTokenSafe, RedeploySafe
<1>6. CASE Agent!RevokeCluster \/ Agent!Sweep
  BY <1>6, RevokeClusterSafe, SweepSafe
<1>7. CASE Agent!Outage \/ Agent!Recovers \/ UNCHANGED Agent!vars
  BY <1>7, WeatherSafe
<1> QED
  BY <1>1, <1>2, <1>3, <1>4, <1>5, <1>6, <1>7 DEF Agent!Next

LEMMA IdentifiedAlways == ASSUME Agent!AgentAssumption PROVE Agent!Spec => []Identified
<1>1. Agent!Init => Identified
  BY InitIdentified
<1>2. Identified /\ [Agent!Next]_Agent!vars => Identified'
  BY IdentityStep
<1> QED
  BY <1>1, <1>2, PTL DEF Agent!Spec

LEMMA IdentifiedIsSound ==
  ASSUME Agent!AgentAssumption, Identified
  PROVE  Agent!IdentityHolds
<1> USE Parts
<1>1. Agent!RestartResumes
  <2> SUFFICES ASSUME kind = "secret", held # None
               PROVE  Agent!Exists /\ Agent!Loads /\ left[disk.cert] >= left[held]
    BY DEF Agent!RestartResumes
  <2>1. disk.key = held /\ disk.cert = held /\ disk.ca
    BY DEF SecretIsHeld
  <2>2. left[held] \in 0..Life
    BY DEF Agent!TypeOK, Agent!SerialOrNone
  <2> QED
    BY <2>1, <2>2 DEF Agent!Exists, Agent!Loads
<1>2. Agent!RevokedRenewsAtMostOnce
  BY DEF SlipsAreBought, Agent!RevokedRenewsAtMostOnce
<1> QED
  BY <1>1, <1>2 DEF Agent!IdentityHolds, Agent!IdentityIsSound

(* However calls, replies and writes are lost, processes stopped and       *)
(* repeated: a token spent by gateway/identity.py buys one certificate,    *)
(* what an agent uses is in the ledger a revocation works on, one that     *)
(* keeps its identity in a Secret resumes with what it held, and a         *)
(* revocation lets one renewal slip at most.                               *)
THEOREM IdentitiesHold ==
  ASSUME Agent!AgentAssumption
  PROVE  Agent!Spec => []Agent!IdentityHolds
<1>1. Identified => Agent!IdentityHolds
  BY IdentifiedIsSound
<1> QED
  BY <1>1, IdentifiedAlways, PTL

(* The renewals of enrol.go are spaced out, but never past the end: a      *)
(* certificate that was not revoked runs out in the hands of a running     *)
(* agent only if something went wrong in the last check of its life.       *)
THEOREM RunsOutInTrouble ==
  ASSUME Agent!AgentAssumption
  PROVE  Agent!Spec => Agent!ExpiresOnlyInTrouble
<1>1. ASSUME Identified, Agent!Tick, pc = "up", left[held] = 1, held \notin ledger.revoked
      PROVE  ~calm
  BY <1>1 DEF Agent!Tick, Identified, Attempts
<1>2. Identified /\ [Agent!Next]_Agent!vars =>
        [Agent!Tick /\ pc = "up" /\ left[held] = 1 /\ held \notin ledger.revoked
           => ~calm]_Agent!vars
  BY <1>1
<1> QED
  BY <1>2, IdentifiedAlways, PTL DEF Agent!Spec, Agent!ExpiresOnlyInTrouble

-----------------------------------------------------------------------------
(* The other one.                                                          *)
C == INSTANCE AgentGateway_proofs
       WITH faults <- losses, MaxRevoked <- 0, MaxFaults <- 0

(* What a call can do is what AgentGateway says.                           *)
LEMMA SameCallsInit == C!Init <=> Calls!Init
  BY DEF C!Streams, Calls!Streams, C!NoStream, Calls!NoStream,
         C!Refreshers, Calls!Refreshers, C!Unrefreshed, Calls!Unrefreshed,
         C!Init, Calls!Init

LEMMA SameCallsNext == C!Next <=> Calls!Next
  BY DEF C!ToSet, Calls!ToSet, C!Cardinality, Calls!Cardinality,
         C!identity, Calls!identity, C!Streams, Calls!Streams, C!NoStream,
         Calls!NoStream, C!Certificates, Calls!Certificates, C!On,
         Calls!On, C!Serving, Calls!Serving, C!Answering, Calls!Answering,
         C!Refreshers, Calls!Refreshers, C!WorkerOf, Calls!WorkerOf,
         C!Unrefreshed, Calls!Unrefreshed, C!CancelAll, Calls!CancelAll,
         C!Asked, Calls!Asked, C!Open, Calls!Open, C!Leave, Calls!Leave,
         C!ReadRevoked, Calls!ReadRevoked, C!CacheRevoked,
         Calls!CacheRevoked, C!Resolve, Calls!Resolve, C!Register,
         Calls!Register, C!Collect, Calls!Collect, C!Work, Calls!Work,
         C!SendRecord, Calls!SendRecord, C!SendDone, Calls!SendDone,
         C!Reply, Calls!Reply, C!OnEvidence, Calls!OnEvidence, C!OnDone,
         Calls!OnDone, C!OnHealth, Calls!OnHealth, C!Consume,
         Calls!Consume, C!Return, Calls!Return, C!Timeout, Calls!Timeout,
         C!EndOfStream, Calls!EndOfStream, C!Unlisted, Calls!Unlisted,
         C!Withdraw, Calls!Withdraw, C!Unregister, Calls!Unregister,
         C!TerminateRevoked, Calls!TerminateRevoked, C!Renew, Calls!Renew,
         C!Revoke, Calls!Revoke, C!Lapse, Calls!Lapse, C!FlushRedis,
         Calls!FlushRedis, C!Die, Calls!Die, C!Refreshing,
         Calls!Refreshing, C!Serve, Calls!Serve, C!Next, Calls!Next

LEMMA SameEnd == C!CallsEndWell <=> Calls!CallsEndWell
  BY DEF C!AnsweredByItsOwn, Calls!AnsweredByItsOwn, C!EndReleasesRequests,
         Calls!EndReleasesRequests, C!CallsEndWell, Calls!CallsEndWell

----------------------------------------------------------------------------
(* The assumptions of the three are among those of MCRenewals.             *)
LEMMA AgentAssumed == Agent!AgentAssumption
  BY RenewalsAssumption DEF RenewalsAssumption

LEMMA CallsAssumed == C!GatewayAssumption
  BY RenewalsAssumption DEF RenewalsAssumption, C!GatewayAssumption,
     Calls!GatewayAssumption

LEMMA RouteAssumed == Routing!RouteAssumption
  BY RenewalsAssumption DEF RenewalsAssumption

(* A behaviour of MCRenewals is one of an agent's identity ...             *)
LEMMA AgentBehaves == MCSpec => Agent!Spec
<1>1. MCInit => Agent!Init
  BY DEF MCInit
<1>2. UNCHANGED agentVars => UNCHANGED Agent!vars
  BY DEF agentVars, Agent!vars, Agent!agent, Agent!gateway, Agent!operator,
     Agent!trouble, Agent!history
<1>3. [MCNext]_MCvars => [Agent!Next]_Agent!vars
  <2>1. CASE OfLease
    BY <2>1, <1>2 DEF OfLease
  <2>2. CASE OfCertificate
    BY <2>2 DEF OfCertificate
  <2>3. CASE OfCalls
    BY <2>3, <1>2 DEF OfCalls
  <2>4. CASE OfRoute
    BY <2>4, <1>2 DEF OfRoute
  <2>5. CASE UNCHANGED MCvars
    BY <2>5, <1>2 DEF MCvars
  <2> QED
    BY <2>1, <2>2, <2>3, <2>4, <2>5 DEF MCNext
<1> QED
  BY <1>1, <1>3, PTL DEF MCSpec, Agent!Spec

(* ... one of its streams, on which nothing is revoked or goes wrong ...   *)
LEMMA CallsBehave == MCSpec => C!Spec
<1>1. MCInit => C!Init
  BY SameCallsInit DEF MCInit
<1>2. UNCHANGED callVars => UNCHANGED C!vars
  BY DEF callVars, C!vars, C!identity
<1>3. [MCNext]_MCvars => [C!Next]_C!vars
  <2>1. CASE OfLease
    BY <2>1, <1>2 DEF OfLease
  <2>2. CASE OfCertificate
    BY <2>2, <1>2 DEF OfCertificate
  <2>3. CASE OfCalls
    BY <2>3, SameCallsNext DEF OfCalls
  <2>4. CASE OfRoute
    BY <2>4, <1>2 DEF OfRoute
  <2>5. CASE UNCHANGED MCvars
    BY <2>5, <1>2 DEF MCvars
  <2> QED
    BY <2>1, <2>2, <2>3, <2>4, <2>5 DEF MCNext
<1> QED
  BY <1>1, <1>3, PTL DEF MCSpec, C!Spec

(* ... and one of the way there.                                           *)
LEMMA RoutesBehave == MCSpec => Routing!Spec
<1>1. MCInit => Routing!Init
  BY DEF MCInit
<1>2. UNCHANGED routeVars => UNCHANGED Routing!vars
  BY DEF routeVars, Routing!vars, Routing!setup, Routing!fleet, Routing!told
<1>3. [MCNext]_MCvars => [Routing!Next]_Routing!vars
  <2>1. CASE OfLease
    BY <2>1, <1>2 DEF OfLease
  <2>2. CASE OfCertificate
    BY <2>2, <1>2 DEF OfCertificate
  <2>3. CASE OfCalls
    BY <2>3, <1>2 DEF OfCalls
  <2>4. CASE OfRoute
    BY <2>4 DEF OfRoute
  <2>5. CASE UNCHANGED MCvars
    BY <2>5, <1>2 DEF MCvars
  <2> QED
    BY <2>1, <2>2, <2>3, <2>4, <2>5 DEF MCNext
<1> QED
  BY <1>1, <1>3, PTL DEF MCSpec, Routing!Spec

----------------------------------------------------------------------------
(* A token buys one certificate, and what an agent uses, stores or reads   *)
(* back is a certificate revocation can reach (gateway/identity.py:97-196, *)
(* agent/internal/transport/enrol.go).                                     *)
THEOREM RenewedSoundly == MCSpec => []IdentityHolds
<1>1. Agent!IdentityHolds => IdentityHolds
  BY DEF IdentityHolds
<1> QED
  BY <1>1, AgentAssumed, IdentitiesHold, AgentBehaves, PTL

(* A certificate nobody revoked runs out in the hands of a running agent   *)
(* only if its last check went wrong (enrol.go:232-237).                   *)
THEOREM RunsOutOnlyInTrouble == MCSpec => ExpiresOnlyInTrouble
  BY AgentAssumed, RunsOutInTrouble, AgentBehaves, PTL DEF ExpiresOnlyInTrouble

(* A call is completed by its own answer only, and released when its       *)
(* session ends (gateway/session.py).                                      *)
THEOREM EveryCallEndsWell == MCSpec => []CallsEndWell
<1>1. C!Spec => []C!CallsEndWell
  BY CallsAssumed, C!CallsAreAnswered
<1>2. C!CallsEndWell => CallsEndWell
  BY SameEnd DEF CallsEndWell
<1> QED
  BY <1>1, <1>2, CallsBehave, PTL

(* An investigation of a named cluster reads it through its agent where    *)
(* one is known and stops short of one for a reason only                   *)
(* (services/investigation_service.py, select_provider).                   *)
THEOREM RoutedSoundly == MCSpec => []RoutesSoundly
<1>1. Routing!RoutesSoundly => RoutesSoundly
  BY DEF RoutesSoundly
<1> QED
  BY <1>1, RouteAssumed, RoutesAreSound, RoutesBehave, PTL
=============================================================================
