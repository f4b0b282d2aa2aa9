------------------------- MODULE Collection_proofs -------------------------
(* That the evidence an investigation collects is as fresh as it says, and *)
(* collected within its bounds: for any investigations, collectors, reads, *)
(* sizes and budgets, however the cluster changes and whatever fails.      *)
EXTENDS Collection, SequenceTheorems, WellFoundedInduction, FiniteSetTheorems, TLAPS

(* A set of natural numbers has a least one.                               *)
LEMMA Least ==
  ASSUME NEW S, S \subseteq Nat, S # {}
  PROVE  \E x \in S : \A y \in S : x <= y
<1> DEFINE R == OpToRel(<, Nat)
<1>1. PICK x \in S : \A y \in S : ~(<<y, x>> \in R)
  <2>1. IsWellFoundedOn(R, Nat)
    BY NatLessThanWellFounded
  <2> HIDE DEF R
  <2>2. QED
    BY <2>1, WFMin
<1>2. \A y \in S : x <= y
  <2>1. \A y \in S : ~(y < x)
    BY <1>1 DEF OpToRel
  <2>2. QED
    BY <2>1
<1>3. QED
  BY <1>2

(* The part of one number of a set follows from the one before.            *)
LEMMA OneByOne ==
  ASSUME NEW N \in Nat, NEW P, 0 \in P,
         \A n \in 1..N : n - 1 \in P => n \in P
  PROVE  \A n \in 0..N : n \in P
<1> DEFINE Bad == {n \in 0..N : n \notin P}
<1> SUFFICES ASSUME Bad # {} PROVE FALSE
  OBVIOUS
<1>1. PICK n \in Bad : \A m \in Bad : n <= m
  <2>1. Bad \subseteq Nat
    OBVIOUS
  <2> HIDE DEF Bad
  <2> QED
    BY <2>1, Least
<1>2. n \in 1..N /\ n - 1 \in 0..N /\ n - 1 \notin Bad
  BY <1>1
<1> QED
  BY <1>1, <1>2

(* What goes on move by move from a base, never leaving a set, is defined. *)
Goes(g, N, base, move) == g[0] = base /\ \A n \in 1..N : g[n] = move[<<n, g[n - 1]>>]

LEMMA Recursion ==
  ASSUME NEW N \in Nat, NEW S, NEW base \in S, NEW move \in [(1..N) \X S -> S]
  PROVE  \E g \in [0..N -> S] : Goes(g, N, base, move)
<1> DEFINE Upto(m, g) == g[0] = base /\ \A n \in 1..m : g[n] = move[<<n, g[n - 1]>>]
           P == {m \in 0..N : \E g \in [0..m -> S] : Upto(m, g)}
<1>1. 0 \in P
  <2> DEFINE g == [n \in 0..0 |-> base]
  <2>1. g \in [0..0 -> S] /\ Upto(0, g)
    OBVIOUS
  <2> HIDE DEF g, Upto
  <2> QED
    BY <2>1
<1>2. ASSUME NEW m \in 1..N, m - 1 \in P
      PROVE  m \in P
  <2>1. PICK f \in [0..(m - 1) -> S] : Upto(m - 1, f)
    BY <1>2
  <2> DEFINE g == [n \in 0..m |-> IF n < m THEN f[n] ELSE move[<<m, f[m - 1]>>]]
  <2>2. move[<<m, f[m - 1]>>] \in S
    OBVIOUS
  <2>3. g \in [0..m -> S] /\ g[m] = move[<<m, f[m - 1]>>]
    BY <2>2
  <2>4. ASSUME NEW n \in 1..m
        PROVE  g[n] = move[<<n, g[n - 1]>>]
    <3>1. g[n - 1] = f[n - 1]
      OBVIOUS
    <3>2. CASE n = m
      BY <2>3, <3>1, <3>2
    <3>3. CASE n # m
      <4>1. n \in 1..(m - 1) /\ g[n] = f[n]
        BY <3>3
      <4> QED
        BY <2>1, <3>1, <4>1
    <3> QED
      BY <3>2, <3>3
  <2>5. g[0] = base
    BY <2>1
  <2> HIDE DEF g
  <2>7. Upto(m, g)
    BY <2>4, <2>5
  <2> HIDE DEF Upto
  <2> QED
    BY <2>3, <2>7
<1> HIDE DEF P
<1>3. N \in P
  BY <1>1, <1>2, OneByOne
<1> QED
  BY <1>3 DEF P, Goes

(* A bounded set of numbers has a greatest, and two numbers a least.       *)
LEMMA Greatest ==
  ASSUME NEW B \in Nat, NEW S, S \subseteq 0..B, S # {}
  PROVE  /\ Max(S) \in S
         /\ \A y \in S : y <= Max(S)
<1> DEFINE Up == {B - x : x \in S}
<1>1. Up \subseteq Nat /\ Up # {}
  <2>1. PICK x : x \in S
    OBVIOUS
  <2>2. B - x \in Up
    BY <2>1
  <2>3. \A y \in S : B - y \in Nat
    OBVIOUS
  <2> QED
    BY <2>2, <2>3
<1>2. PICK u \in Up : \A v \in Up : u <= v
  <2> HIDE DEF Up
  <2> QED
    BY <1>1, Least
<1>3. PICK x \in S : u = B - x
  BY <1>2
<1>4. \A y \in S : x >= y
  BY <1>2, <1>3
<1> QED
  BY <1>4 DEF Max

LEMMA LesserOfTwo ==
  ASSUME NEW a \in Int, NEW b \in Int
  PROVE  Min({a, b}) = IF a <= b THEN a ELSE b
<1>1. \A x : (x \in {a, b} /\ \A y \in {a, b} : x <= y) <=> x = IF a <= b THEN a ELSE b
  OBVIOUS
<1> QED
  BY <1>1 DEF Min

LEMMA GreaterOfTwo ==
  ASSUME NEW a \in Int, NEW b \in Int
  PROVE  Max({a, b}) = IF a >= b THEN a ELSE b
<1>1. \A x : (x \in {a, b} /\ \A y \in {a, b} : x >= y) <=> x = IF a >= b THEN a ELSE b
  OBVIOUS
<1> QED
  BY <1>1 DEF Max

LEMMA Given ==
  /\ MaxBytes \in Nat /\ Ttl \in Nat /\ Timeout \in Nat /\ Timeout > 0 /\ Deadline \in Nat
  /\ Concurrency \in Nat /\ Concurrency > 0 /\ MaxFaults \in Nat
  /\ \A r \in Reads : Size[r] \in Nat /\ Size[r] > 0
  /\ \A c \in Collectors : Requests[c] \in Seq(Reads)
  /\ MaxTime \in Nat /\ IsFiniteSet(Collectors)
<1>1. IsFiniteSet(Baseline) /\ IsFiniteSet(Targeted)
  BY CollectionAssumption
<1>2. IsFiniteSet(Collectors)
  BY <1>1, FS_Union DEF Collectors
<1>3. Cardinality(Collectors) \in Nat
  BY <1>2, FS_CardinalityType
<1>4. Timeout * Cardinality(Collectors) \in Nat
  BY <1>3, CollectionAssumption
<1> QED
  BY <1>2, <1>4, CollectionAssumption DEF MaxTime

-----------------------------------------------------------------------------
(* The cache: caches of entries of a set, whose account of bytes is right  *)
(* and which hold a read once.                                             *)
Once(q) == \A m, n \in 1..Len(q) : q[m].read = q[n].read => m = n

Books(E) == {s \in [entries : Seq(E), bytes : Nat] :
               s.bytes = Total(s.entries) /\ Once(s.entries)}

Small(E) == {s \in Books(E) : s.bytes <= MaxBytes}

(* Sums h of the first entries are the sums of Total.                      *)
Sums(q, h) ==
  /\ h \in [0..Len(q) -> Nat] /\ h[0] = 0
  /\ \A n \in 1..Len(q) : h[n] = h[n - 1] + Size[q[n].read]

LEMMA TotalIs ==
  ASSUME NEW q \in Seq(Entry)
  PROVE  \E h : Sums(q, h) /\ Total(q) = h[Len(q)]
<1> DEFINE N == Len(q)
           move == [p \in (1..N) \X Nat |-> p[2] + Size[q[p[1]].read]]
           f == CHOOSE g : g = [n \in 0..Len(q) |-> IF n = 0 THEN 0
                                ELSE g[n - 1] + Size[q[n].read]]
<1>1. N \in Nat /\ \A n \in 1..N : Size[q[n].read] \in Nat
  <2>1. \A n \in 1..N : q[n] \in Entry
    OBVIOUS
  <2> QED
    BY <2>1, Given DEF Entry
<1>2. move \in [(1..N) \X Nat -> Nat]
  BY <1>1
<1>3. \A n \in 1..N, x \in Nat : move[<<n, x>>] = x + Size[q[n].read]
  OBVIOUS
<1> HIDE DEF move, N
<1>4. PICK g \in [0..N -> Nat] : Goes(g, N, 0, move)
  <2>1. N \in Nat /\ 0 \in Nat
    BY <1>1
  <2> QED
    BY <1>2, <2>1, Recursion
<1> USE DEF N, Goes
<1> USE DEF N
<1>5. g = [n \in 0..Len(q) |-> IF n = 0 THEN 0 ELSE g[n - 1] + Size[q[n].read]]
  <2> HIDE DEF N
  <2>1. \A n \in 0..N : n # 0 => n \in 1..N /\ n - 1 \in 0..N /\ g[n - 1] \in Nat
    <3>1. \A n \in 0..N : n # 0 => n \in 1..N /\ n - 1 \in 0..N
      BY <1>1
    <3> QED
      BY <1>4, <3>1
  <2>2. \A n \in 0..N : g[n] = IF n = 0 THEN 0 ELSE g[n - 1] + Size[q[n].read]
    BY <1>3, <1>4, <2>1
  <2> QED
    BY <1>4, <2>2 DEF N
<1>6. f = [n \in 0..Len(q) |-> IF n = 0 THEN 0 ELSE f[n - 1] + Size[q[n].read]]
  BY <1>5, Zenon
<1>7. Total(q) = f[Len(q)]
  BY Zenon DEF Total
<1> HIDE DEF f
<1>8. \A n \in 0..N : f[n] = g[n]
  <2> DEFINE P == {n \in 0..N : f[n] = g[n]}
  <2>1. 0 \in P
    BY <1>1, <1>5, <1>6
  <2>2. ASSUME NEW n \in 1..N, n - 1 \in P
        PROVE  n \in P
    <3>1. f[n - 1] = g[n - 1] /\ n \in 0..N /\ n # 0
      BY <2>2
    <3> QED
      BY <1>5, <1>6, <3>1
  <2> HIDE DEF P
  <2>3. \A n \in 0..N : n \in P
    BY <1>1, <2>1, <2>2, OneByOne
  <2> QED
    BY <2>3 DEF P
<1>9. Sums(q, g)
  <2>1. g \in [0..Len(q) -> Nat]
    BY <1>4
  <2>2. g[0] = 0
    BY <1>4
  <2>3. \A n \in 1..Len(q) : n \in 0..Len(q) /\ n # 0
    BY <1>1
  <2>4. \A n \in 1..Len(q) : g[n] = g[n - 1] + Size[q[n].read]
    BY <1>5, <2>3
  <2> QED
    BY <2>1, <2>2, <2>4 DEF Sums
<1> QED
  BY <1>1, <1>7, <1>8, <1>9

LEMMA OneTotal ==
  ASSUME NEW q \in Seq(Entry), NEW h, Sums(q, h)
  PROVE  Total(q) = h[Len(q)] /\ Total(q) \in Nat
<1>1. PICK g : Sums(q, g) /\ Total(q) = g[Len(q)]
  BY TotalIs
<1> DEFINE P == {n \in 0..Len(q) : h[n] = g[n]}
<1>2. 0 \in P /\ Len(q) \in Nat
  BY <1>1 DEF Sums
<1>3. ASSUME NEW n \in 1..Len(q), n - 1 \in P
      PROVE  n \in P
  BY <1>1, <1>3 DEF Sums
<1> HIDE DEF P
<1>4. \A n \in 0..Len(q) : n \in P
  BY <1>2, <1>3, OneByOne
<1> QED
  BY <1>1, <1>2, <1>4 DEF P, Sums

LEMMA TotalAppended ==
  ASSUME NEW q \in Seq(Entry), NEW e \in Entry
  PROVE  Total(Append(q, e)) = Total(q) + Size[e.read]
<1>1. PICK g : Sums(q, g) /\ Total(q) = g[Len(q)]
  BY TotalIs
<1> DEFINE more == Append(q, e)
           h == [n \in 0..Len(more) |-> IF n <= Len(q) THEN g[n] ELSE g[Len(q)] + Size[e.read]]
<1>2. /\ more \in Seq(Entry) /\ Len(more) = Len(q) + 1 /\ Len(q) \in Nat
      /\ more[Len(q) + 1] = e /\ \A n \in 1..Len(q) : more[n] = q[n]
  OBVIOUS
<1>3. Size[e.read] \in Nat
  BY Given DEF Entry
<1> HIDE DEF more
<1>4. /\ h \in [0..Len(more) -> Nat] /\ h[0] = 0
      /\ \A n \in 0..Len(q) : h[n] = g[n]
      /\ h[Len(more)] = g[Len(q)] + Size[e.read]
  BY <1>1, <1>2, <1>3 DEF Sums
<1> HIDE DEF h
<1>5. ASSUME NEW n \in 1..Len(more)
      PROVE  h[n] = h[n - 1] + Size[more[n].read]
  <2>1. CASE n <= Len(q)
    <3>1. n \in 1..Len(q) /\ n \in 0..Len(q) /\ n - 1 \in 0..Len(q)
      BY <1>2, <2>1
    <3>2. g[n] = g[n - 1] + Size[q[n].read]
      BY <1>1, <3>1 DEF Sums
    <3> QED
      BY <1>2, <1>4, <3>1, <3>2
  <2>2. CASE ~(n <= Len(q))
    <3>1. n = Len(q) + 1 /\ n - 1 = Len(q) /\ Len(q) \in 0..Len(q)
      BY <1>2, <2>2
    <3>2. h[n - 1] = g[Len(q)] /\ more[n] = e /\ h[n] = g[Len(q)] + Size[e.read]
      BY <1>2, <1>4, <3>1
    <3> QED
      BY <3>2
  <2> QED
    BY <2>1, <2>2
<1>6. Sums(more, h)
  BY <1>4, <1>5 DEF Sums
<1> QED
  BY <1>1, <1>2, <1>4, <1>6, OneTotal DEF more

(* One entry out of a sequence, that of a place.                           *)
LEMMA RemoveAtIs ==
  ASSUME NEW E, NEW q \in Seq(E), NEW p \in 1..Len(q)
  PROVE  /\ RemoveAt(q, p) \in Seq(E)
         /\ Len(RemoveAt(q, p)) = Len(q) - 1
         /\ \A n \in 1..(Len(q) - 1) :
              RemoveAt(q, p)[n] = IF n < p THEN q[n] ELSE q[n + 1]
<1> DEFINE front == SubSeq(q, 1, p - 1)
           back == SubSeq(q, p + 1, Len(q))
<1>1. /\ front \in Seq(E) /\ Len(front) = p - 1 /\ \A n \in 1..(p - 1) : front[n] = q[n]
  BY SubSeqProperties
<1>2. /\ back \in Seq(E) /\ Len(back) = Len(q) - p
      /\ \A n \in 1..(Len(q) - p) : back[n] = q[n + p]
  BY SubSeqProperties
<1>3. RemoveAt(q, p) = front \o back
  BY DEF RemoveAt
<1> HIDE DEF front, back
<1>4. /\ front \o back \in Seq(E) /\ Len(front \o back) = Len(front) + Len(back)
      /\ \A n \in 1..(Len(front) + Len(back)) :
           (front \o back)[n] = IF n <= Len(front) THEN front[n] ELSE back[n - Len(front)]
  BY <1>1, <1>2, ConcatProperties
<1> DEFINE all == front \o back
<1> HIDE DEF all
<1>5. /\ all \in Seq(E) /\ Len(all) = Len(front) + Len(back)
      /\ \A n \in 1..(Len(front) + Len(back)) :
           all[n] = IF n <= Len(front) THEN front[n] ELSE back[n - Len(front)]
  BY <1>4 DEF all
<1>6. Len(all) = Len(q) - 1 /\ Len(q) \in Nat /\ p \in Nat /\ p > 0 /\ p <= Len(q)
  BY <1>1, <1>2, <1>5
<1>7. ASSUME NEW n \in 1..(Len(q) - 1)
      PROVE  all[n] = IF n < p THEN q[n] ELSE q[n + 1]
  <2>1. all[n] = IF n <= p - 1 THEN front[n] ELSE back[n - (p - 1)]
    BY <1>1, <1>2, <1>5, <1>6
  <2>2. CASE n < p
    <3>1. n \in 1..(p - 1) /\ n <= p - 1
      BY <1>6, <2>2
    <3> QED
      BY <1>1, <2>1, <2>2, <3>1
  <2>3. CASE ~(n < p)
    <3>1. /\ n - (p - 1) \in 1..(Len(q) - p) /\ ~(n <= p - 1)
          /\ (n - (p - 1)) + p = n + 1
      BY <1>6, <2>3
    <3>2. back[n - (p - 1)] = q[n + 1]
      BY <1>2, <3>1
    <3> QED
      BY <2>1, <2>3, <3>1, <3>2
  <2> QED
    BY <2>2, <2>3
<1>8. RemoveAt(q, p) = all
  BY <1>3 DEF all
<1> QED
  BY <1>5, <1>6, <1>7, <1>8

LEMMA TotalRemoved ==
  ASSUME NEW q \in Seq(Entry), NEW p \in 1..Len(q)
  PROVE  /\ Total(RemoveAt(q, p)) = Total(q) - Size[q[p].read]
         /\ Total(RemoveAt(q, p)) \in Nat
<1>1. PICK g : Sums(q, g) /\ Total(q) = g[Len(q)]
  BY TotalIs
<1> DEFINE less == RemoveAt(q, p)
           size == Size[q[p].read]
           h == [n \in 0..(Len(q) - 1) |-> IF n < p THEN g[n] ELSE g[n + 1] - size]
<1>2. /\ less \in Seq(Entry) /\ Len(less) = Len(q) - 1 /\ Len(q) \in Nat
      /\ \A n \in 1..(Len(q) - 1) : less[n] = IF n < p THEN q[n] ELSE q[n + 1]
  <2>1. /\ less \in Seq(Entry) /\ Len(less) = Len(q) - 1
        /\ \A n \in 1..(Len(q) - 1) : less[n] = IF n < p THEN q[n] ELSE q[n + 1]
    BY RemoveAtIs, Zenon
  <2>2. Len(q) \in Nat
    OBVIOUS
  <2> QED
    BY <2>1, <2>2, Zenon
<1>3. /\ size \in Nat /\ \A n \in 1..Len(q) : Size[q[n].read] \in Nat
  <2>1. \A n \in 1..Len(q) : q[n] \in Entry
    OBVIOUS
  <2> QED
    BY <2>1, Given DEF Entry
<1> HIDE DEF less
<1>4. \A n \in 0..(Len(q) - 1) : h[n] = IF n < p THEN g[n] ELSE g[n + 1] - size
  OBVIOUS
<1>5. /\ \A n \in 1..Len(q) : g[n] = g[n - 1] + Size[q[n].read]
      /\ \A n \in 0..Len(q) : g[n] \in Nat
      /\ g[0] = 0 /\ g[p] = g[p - 1] + size
  BY <1>1 DEF Sums
<1>6. \A n \in 0..(Len(q) - 1) : n >= p => g[n + 1] - size \in Nat
  <2> DEFINE P == {n \in 0..Len(q) : n >= p => g[n] >= size}
  <2>1. 0 \in P
    BY <1>2
  <2>2. ASSUME NEW n \in 1..Len(q), n - 1 \in P
        PROVE  n \in P
    <3>1. CASE n < p
      BY <3>1
    <3>2. n - 1 \in 0..Len(q) /\ g[n] = g[n - 1] + Size[q[n].read] /\ g[n - 1] \in Nat
      BY <1>2, <1>5
    <3>3. CASE n = p
      BY <1>3, <3>2, <3>3
    <3>4. CASE n > p
      <4>1. g[n - 1] >= size /\ Size[q[n].read] \in Nat
        BY <1>3, <2>2, <3>4
      <4> QED
        BY <1>3, <3>2, <4>1
    <3> QED
      BY <3>1, <3>3, <3>4
  <2> HIDE DEF P
  <2>3. \A n \in 0..Len(q) : n \in P
    BY <1>2, <2>1, <2>2, OneByOne
  <2>4. ASSUME NEW n \in 0..(Len(q) - 1), n >= p
        PROVE  g[n + 1] - size \in Nat
    <3>1. n + 1 \in 0..Len(q) /\ n + 1 >= p
      BY <1>2, <2>4
    <3>2. g[n + 1] >= size
      BY <2>3, <3>1 DEF P
    <3>3. g[n + 1] \in Nat
      BY <1>5, <3>1
    <3> QED
      BY <1>3, <3>2, <3>3
  <2> QED
    BY <2>4
<1>7. h \in [0..Len(less) -> Nat] /\ h[0] = 0
  <2>1. Len(less) = Len(q) - 1 /\ 0 \in 0..(Len(q) - 1) /\ 0 < p
    BY <1>2
  <2>2. ASSUME NEW n \in 0..(Len(q) - 1)
        PROVE  h[n] \in Nat
    <3>1. CASE n < p
      <4>1. h[n] = g[n] /\ n \in 0..Len(q)
        BY <1>2, <1>4, <3>1
      <4> QED
        BY <1>5, <4>1
    <3>2. CASE ~(n < p)
      <4>1. h[n] = g[n + 1] - size /\ n >= p
        BY <1>4, <3>2
      <4> QED
        BY <1>6, <4>1
    <3> QED
      BY <3>1, <3>2
  <2>3. h = [n \in 0..(Len(q) - 1) |-> h[n]]
    OBVIOUS
  <2>4. h[0] = 0
    BY <1>4, <1>5, <2>1
  <2> HIDE DEF h
  <2> QED
    BY <2>1, <2>2, <2>3, <2>4
<1>8. h[Len(q) - 1] = g[Len(q)] - size
  <2>1. CASE p = Len(q)
    BY <1>2, <1>3, <1>4, <1>5, <2>1
  <2>2. CASE p # Len(q)
    BY <1>2, <1>3, <1>4, <1>5, <2>2
  <2> QED
    BY <2>1, <2>2
<1> HIDE DEF h, size
<1>9. ASSUME NEW n \in 1..Len(less)
      PROVE  h[n] = h[n - 1] + Size[less[n].read]
  <2>1. n \in 0..(Len(q) - 1) /\ n - 1 \in 0..(Len(q) - 1) /\ n \in 1..(Len(q) - 1)
    BY <1>2
  <2>2. CASE n < p
    <3>1. less[n] = q[n] /\ n \in 1..Len(q)
      BY <1>2, <2>1, <2>2
    <3>2. h[n] = g[n] /\ h[n - 1] = g[n - 1]
      BY <1>4, <2>1, <2>2
    <3>3. g[n] = g[n - 1] + Size[q[n].read]
      BY <1>5, <3>1
    <3> QED
      BY <3>1, <3>2, <3>3
  <2>3. CASE n >= p
    <3>1. h[n] = g[n + 1] - size /\ less[n] = q[n + 1] /\ g[n + 1] = g[n] + Size[q[n + 1].read]
      <4>1. g[n + 1] = g[(n + 1) - 1] + Size[q[n + 1].read]
        <5>1. n + 1 \in 1..Len(q)
          BY <1>2, <2>1
        <5> QED
          BY <1>5, <5>1
      <4>2. (n + 1) - 1 = n
        BY <2>1
      <4>3. h[n] = g[n + 1] - size /\ less[n] = q[n + 1]
        BY <1>2, <1>4, <2>1, <2>3
      <4> QED
        BY <4>1, <4>2, <4>3
    <3>2. h[n - 1] = g[n] - size
      <4>1. CASE n = p
        <5>1. h[n - 1] = g[n - 1] /\ g[n] = g[n - 1] + size
          BY <1>4, <1>5, <2>1, <4>1
        <5>2. g[n - 1] \in Nat
          BY <1>2, <1>5, <2>1
        <5> QED
          BY <1>3, <5>1, <5>2
      <4>2. CASE n # p
        BY <1>4, <2>1, <2>3, <4>2
      <4> QED
        BY <4>1, <4>2
    <3>3. g[n + 1] \in Nat /\ g[n] \in Nat /\ Size[q[n + 1].read] \in Nat
      BY <1>3, <1>5, <2>1
    <3> QED
      BY <1>3, <3>1, <3>2, <3>3
  <2> QED
    BY <2>2, <2>3
<1>10. Sums(less, h)
  BY <1>7, <1>9 DEF Sums
<1>11. Total(less) = h[Len(less)] /\ Total(less) \in Nat
  BY <1>2, <1>10, OneTotal
<1> QED
  BY <1>1, <1>2, <1>8, <1>11 DEF less, size

LEMMA AlsoIn ==
  ASSUME NEW E, NEW F, E \subseteq F, NEW q \in Seq(E)
  PROVE  q \in Seq(F)
<1>1. \A n \in 1..Len(q) : q[n] \in F
  OBVIOUS
<1> QED
  BY <1>1, SeqDef

LEMMA PlaceIs ==
  ASSUME NEW s, NEW r, Holds(s, r)
  PROVE  /\ PlaceOf(s, r) \in 1..Len(s.entries)
         /\ s.entries[PlaceOf(s, r)].read = r
         /\ EntryOf(s, r) = s.entries[PlaceOf(s, r)]
<1>1. \E n \in 1..Len(s.entries) : s.entries[n].read = r
  BY Zenon DEF Holds
<1>2. /\ PlaceOf(s, r) \in 1..Len(s.entries)
      /\ s.entries[PlaceOf(s, r)].read = r
  BY <1>1, Zenon DEF PlaceOf
<1> QED
  BY <1>2, Zenon DEF EntryOf

(* q is what is left without a read: fewer bytes, no other read than before.*)
LessOne(E, s, r, q) ==
  /\ q \in Seq(E) /\ Once(q) /\ Total(q) = s.bytes - Size[r]
  /\ s.bytes - Size[r] \in Nat /\ Size[r] \in Nat
  /\ \A n \in 1..Len(q) : /\ q[n].read # r
                          /\ \E m \in 1..Len(s.entries) : q[n] = s.entries[m]

LEMMA WithoutIs ==
  ASSUME NEW E, E \subseteq Entry, NEW s \in Books(E),
         NEW r, Holds(s, r)
  PROVE  LessOne(E, s, r, Without(s, r))
<1> DEFINE p == PlaceOf(s, r)
           q == s.entries
           less == Without(s, r)
<1>1. p \in 1..Len(q) /\ q[p].read = r
  BY PlaceIs, Zenon
<1>2. q \in Seq(E) /\ s.bytes \in Nat /\ s.bytes = Total(q) /\ Once(q)
  BY DEF Books
<1>3. less = RemoveAt(q, p)
  BY Zenon DEF Without
<1> HIDE DEF p, q, less
<1>4. q \in Seq(Entry)
  BY <1>2, AlsoIn, Zenon
<1>5. /\ less \in Seq(E) /\ Len(less) = Len(q) - 1 /\ Len(q) \in Nat
      /\ \A n \in 1..(Len(q) - 1) : less[n] = IF n < p THEN q[n] ELSE q[n + 1]
  <2>1. /\ RemoveAt(q, p) \in Seq(E) /\ Len(RemoveAt(q, p)) = Len(q) - 1
        /\ \A n \in 1..(Len(q) - 1) :
             RemoveAt(q, p)[n] = IF n < p THEN q[n] ELSE q[n + 1]
    BY <1>1, <1>2, RemoveAtIs
  <2>2. Len(q) \in Nat
    BY <1>2
  <2> QED
    BY <1>3, <2>1, <2>2, Zenon
<1>6. Total(less) = s.bytes - Size[r] /\ Total(less) \in Nat
  BY <1>1, <1>2, <1>3, <1>4, TotalRemoved
<1>7. Size[r] \in Nat
  <2>1. q[p] \in Entry
    BY <1>1, <1>4
  <2> QED
    BY <1>1, <2>1, Given DEF Entry
<1>8. \A n \in 1..Len(less) :
        \E m \in 1..Len(q) : m = (IF n < p THEN n ELSE n + 1) /\ m # p /\ less[n] = q[m]
  BY <1>1, <1>5
<1>9. \A n \in 1..Len(less) : less[n].read # r /\ \E m \in 1..Len(q) : less[n] = q[m]
  BY <1>1, <1>2, <1>8 DEF Once
<1>10. Once(less)
  <2> SUFFICES ASSUME NEW m \in 1..Len(less), NEW n \in 1..Len(less), less[m].read = less[n].read
               PROVE  m = n
    BY DEF Once
  <2>1. PICK a \in 1..Len(q) : a = (IF m < p THEN m ELSE m + 1) /\ less[m] = q[a]
    BY <1>8
  <2>2. PICK b \in 1..Len(q) : b = (IF n < p THEN n ELSE n + 1) /\ less[n] = q[b]
    BY <1>8
  <2>3. a = b
    BY <1>2, <2>1, <2>2 DEF Once
  <2> QED
    BY <1>1, <1>5, <2>1, <2>2, <2>3
<1> QED
  BY <1>5, <1>6, <1>7, <1>9, <1>10 DEF less, q, LessOne

LEMMA BooksOf ==
  ASSUME NEW E, NEW q \in Seq(E), Once(q), NEW b \in Nat, b = Total(q)
  PROVE  [entries |-> q, bytes |-> b] \in Books(E)
BY DEF Books

LEMMA DropIs ==
  ASSUME NEW E, E \subseteq Entry, NEW s \in Books(E), NEW r
  PROVE  /\ Drop(s, r) \in Books(E) /\ Drop(s, r).bytes <= s.bytes
         /\ \A n \in 1..Len(Drop(s, r).entries) :
              /\ Drop(s, r).entries[n].read # r
              /\ \E m \in 1..Len(s.entries) : Drop(s, r).entries[n] = s.entries[m]
<1>1. CASE Holds(s, r)
  <2> DEFINE less == Without(s, r)
  <2>1. Drop(s, r) = [entries |-> less, bytes |-> s.bytes - Size[r]]
    BY <1>1, Zenon DEF Drop
  <2>2. LessOne(E, s, r, less)
    BY <1>1, WithoutIs, Zenon
  <2>3. s.bytes \in Nat
    BY DEF Books
  <2> HIDE DEF less
  <2>4. [entries |-> less, bytes |-> s.bytes - Size[r]] \in Books(E)
    BY <2>2, BooksOf DEF LessOne
  <2> QED
    BY <2>1, <2>2, <2>3, <2>4 DEF LessOne
<1>2. CASE ~Holds(s, r)
  <2>1. Drop(s, r) = s
    BY <1>2, Zenon DEF Drop
  <2>2. \A n \in 1..Len(s.entries) : s.entries[n].read # r
    BY <1>2, Zenon DEF Holds
  <2>3. s.bytes <= s.bytes
    BY DEF Books
  <2> QED
    BY <2>1, <2>2, <2>3, Zenon
<1> QED
  BY <1>1, <1>2

LEMMA AppendOnce ==
  ASSUME NEW E, NEW q \in Seq(E), Once(q), NEW e \in E,
         \A n \in 1..Len(q) : q[n].read # e.read
  PROVE  Append(q, e) \in Seq(E) /\ Once(Append(q, e))
<1>1. /\ Append(q, e) \in Seq(E) /\ Len(Append(q, e)) = Len(q) + 1 /\ Len(q) \in Nat
      /\ Append(q, e)[Len(q) + 1] = e /\ \A n \in 1..Len(q) : Append(q, e)[n] = q[n]
  OBVIOUS
<1>2. \A n \in 1..(Len(q) + 1) : n \in 1..Len(q) \/ n = Len(q) + 1
  BY <1>1
<1> QED
  BY <1>1, <1>2 DEF Once

LEMMA GetIs ==
  ASSUME NEW E, E \subseteq Entry, NEW s \in Small(E), NEW r
  PROVE  Get(s, r) \in Small(E)
<1>1. s \in Books(E) /\ s.bytes <= MaxBytes /\ MaxBytes \in Nat /\ s.bytes \in Nat
  BY Given DEF Small, Books
<1>2. CASE Hits(s, r)
  <2> DEFINE less == Without(s, r)
             e == EntryOf(s, r)
             q == Append(less, e)
  <2>1. Holds(s, r)
    BY <1>2, Zenon DEF Hits
  <2>2. Get(s, r) = [s EXCEPT !.entries = q]
    BY <1>2, Zenon DEF Get
  <2>0. LessOne(E, s, r, less)
    BY <1>1, <2>1, WithoutIs, Zenon
  <2> HIDE DEF less
  <2>3. /\ less \in Seq(E) /\ Once(less) /\ Total(less) = s.bytes - Size[r]
        /\ s.bytes - Size[r] \in Nat /\ Size[r] \in Nat
        /\ \A n \in 1..Len(less) : less[n].read # r
    BY <2>0 DEF LessOne
  <2>4. e \in E /\ e.read = r
    <3>1. /\ PlaceOf(s, r) \in 1..Len(s.entries)
          /\ s.entries[PlaceOf(s, r)].read = r
          /\ e = s.entries[PlaceOf(s, r)]
      BY <2>1, PlaceIs, Zenon
    <3>2. s.entries \in Seq(E)
      BY <1>1 DEF Books
    <3> HIDE DEF e
    <3> QED
      BY <3>1, <3>2
  <2> HIDE DEF e
  <2>5. q \in Seq(E) /\ Once(q)
    BY <2>3, <2>4, AppendOnce
  <2>6. less \in Seq(Entry) /\ e \in Entry
    BY <2>3, <2>4, AlsoIn
  <2>7. Total(q) = s.bytes
    <3>1. Total(q) = Total(less) + Size[e.read]
      BY <2>6, TotalAppended
    <3> HIDE DEF q
    <3> QED
      BY <1>1, <2>3, <2>4, <3>1
  <2>8. s \in [entries : Seq(E), bytes : Nat]
    BY <1>1 DEF Books
  <2> HIDE DEF q
  <2>9. [s EXCEPT !.entries = q] = [entries |-> q, bytes |-> s.bytes]
    BY <2>8
  <2>10. [entries |-> q, bytes |-> s.bytes] \in Books(E)
    BY <1>1, <2>5, <2>7, BooksOf
  <2> QED
    BY <1>1, <2>2, <2>9, <2>10 DEF Small
<1>3. CASE ~Hits(s, r)
  <2>1. Get(s, r) = Drop(s, r)
    BY <1>3, Zenon DEF Get
  <2>2. Drop(s, r) \in Books(E) /\ Drop(s, r).bytes <= s.bytes
    BY <1>1, DropIs, Zenon
  <2>3. Drop(s, r).bytes \in Nat
    BY <2>2 DEF Books
  <2> QED
    BY <1>1, <2>1, <2>2, <2>3 DEF Small
<1> QED
  BY <1>2, <1>3

(* The only entry that may be left does not exceed the budget.             *)
LEMMA OneLeft ==
  ASSUME NEW E, E \subseteq Entry, NEW s \in Books(E),
         NEW r \in Reads, Size[r] <= MaxBytes,
         \A n \in 1..Len(s.entries) : s.entries[n].read = r
  PROVE  s.bytes <= MaxBytes
<1> DEFINE q == s.entries
<1>1. /\ q \in Seq(E) /\ s.bytes = Total(q) /\ Once(q) /\ Len(q) \in Nat
      /\ Size[r] \in Nat /\ MaxBytes \in Nat
  BY Given DEF Books
<1>2. \A n \in 1..Len(q) : q[n].read = r
  OBVIOUS
<1> HIDE DEF q
<1>3. q \in Seq(Entry)
  BY <1>1, AlsoIn
<1>4. PICK g : Sums(q, g) /\ Total(q) = g[Len(q)]
  BY <1>3, TotalIs
<1>5. CASE Len(q) = 0
  BY <1>1, <1>4, <1>5 DEF Sums
<1>6. CASE Len(q) = 1
  <2>1. g[1] = g[0] + Size[q[1].read] /\ q[1].read = r /\ g[0] = 0
    BY <1>2, <1>4, <1>6 DEF Sums
  <2> QED
    BY <1>1, <1>4, <1>6, <2>1
<1>7. ASSUME Len(q) > 1 PROVE FALSE
  <2>1. 1 \in 1..Len(q) /\ 2 \in 1..Len(q)
    BY <1>1, <1>7
  <2>2. q[1].read = q[2].read
    BY <1>2, <2>1
  <2>3. 1 = 2
    BY <1>1, <2>1, <2>2, Zenon DEF Once
  <2> QED
    BY <2>3
<1>8. Len(q) = 0 \/ Len(q) = 1
  <2>1. ~(Len(q) > 1)
    BY <1>7, Zenon
  <2>2. \A k \in Nat : ~(k > 1) => k = 0 \/ k = 1
    OBVIOUS
  <2>3. Len(q) \in Nat
    BY <1>1, Zenon
  <2> QED
    BY <2>1, <2>2, <2>3, Zenon
<1> QED
  BY <1>5, <1>6, <1>8, Zenon

LEMMA EvictIs ==
  ASSUME NEW E, E \subseteq Entry, NEW s \in Books(E),
         NEW r \in Reads, Size[r] <= MaxBytes
  PROVE  Evict(s, r) \in Small(E)
<1> DEFINE N == Len(s.entries)
           Then(n, x) == IF x.bytes > MaxBytes /\ s.entries[n].read # r
                         THEN Drop(x, s.entries[n].read) ELSE x
           move == [p \in (1..N) \X Books(E) |-> Then(p[1], p[2])]
           f == CHOOSE left : left = [n \in 0..Len(s.entries) |->
                  IF n = 0 THEN s
                  ELSE IF left[n - 1].bytes > MaxBytes /\ s.entries[n].read # r
                  THEN Drop(left[n - 1], s.entries[n].read)
                  ELSE left[n - 1]]
           Gone(n, x) == \/ x.bytes <= MaxBytes
                         \/ \A m \in 1..n : s.entries[m].read # r =>
                              \A k \in 1..Len(x.entries) :
                                x.entries[k].read # s.entries[m].read
           Left(x) == \A k \in 1..Len(x.entries) : \E m \in 1..N : x.entries[k] = s.entries[m]
<1>1. N \in Nat /\ MaxBytes \in Nat
  BY Given DEF Books
<1>2. ASSUME NEW n \in 1..N, NEW x \in Books(E)
      PROVE  Then(n, x) \in Books(E)
  BY DropIs
<1>3. move \in [(1..N) \X Books(E) -> Books(E)]
  <2>1. \A p \in (1..N) \X Books(E) : Then(p[1], p[2]) \in Books(E)
    BY <1>2
  <2> HIDE DEF Then
  <2> QED
    BY <2>1
<1>4. \A n \in 1..N, x \in Books(E) : move[<<n, x>>] = Then(n, x)
  <2> HIDE DEF Then
  <2> QED
    OBVIOUS
<1> HIDE DEF move
<1>5. PICK g \in [0..N -> Books(E)] : Goes(g, N, s, move)
  <2> HIDE DEF N
  <2> QED
    BY <1>1, <1>3, Recursion
<1>6. \A n \in 0..N : n # 0 => n \in 1..N /\ n - 1 \in 0..N
  BY <1>1
<1>7. \A n \in 0..N : g[n] = IF n = 0 THEN s ELSE Then(n, g[n - 1])
  <2> HIDE DEF Then, N
  <2> QED
    BY <1>4, <1>5, <1>6 DEF Goes
<1>8. g = [n \in 0..Len(s.entries) |->
             IF n = 0 THEN s
             ELSE IF g[n - 1].bytes > MaxBytes /\ s.entries[n].read # r
             THEN Drop(g[n - 1], s.entries[n].read)
             ELSE g[n - 1]]
  BY <1>5, <1>7
<1>9. f = [n \in 0..Len(s.entries) |->
             IF n = 0 THEN s
             ELSE IF f[n - 1].bytes > MaxBytes /\ s.entries[n].read # r
             THEN Drop(f[n - 1], s.entries[n].read)
             ELSE f[n - 1]]
  BY <1>8, Zenon
<1>10. Evict(s, r) = f[N]
  BY Zenon DEF Evict
<1> HIDE DEF f
<1>11. \A n \in 0..N : f[n] = IF n = 0 THEN s ELSE Then(n, f[n - 1])
  BY <1>9
<1> DEFINE P == {n \in 0..N : f[n] \in Books(E) /\ Gone(n, f[n]) /\ Left(f[n])}
<1>12. 0 \in P
  <2>1. f[0] = s /\ 0 \in 0..N
    BY <1>1, <1>11
  <2>2. Gone(0, s) /\ Left(s)
    OBVIOUS
  <2> HIDE DEF Gone, Left
  <2> QED
    BY <2>1, <2>2
<1>13. ASSUME NEW n \in 1..N, n - 1 \in P
       PROVE  n \in P
  <2> DEFINE x == f[n - 1]
             y == f[n]
             d == s.entries[n].read
  <2>1. x \in Books(E) /\ Gone(n - 1, x) /\ Left(x)
    BY <1>13
  <2>2. n \in 0..N /\ n # 0 /\ \A m \in 1..n : m \in 1..(n - 1) \/ m = n
    BY <1>1
  <2>3. y = Then(n, x)
    BY <1>11, <2>2
  <2> HIDE DEF x, y
  <2>4. CASE x.bytes > MaxBytes /\ d # r
    <3>1. y = Drop(x, d)
      BY <2>3, <2>4
    <3> HIDE DEF d
    <3>2. /\ y \in Books(E)
          /\ \A k \in 1..Len(y.entries) :
               y.entries[k].read # d /\ \E m \in 1..Len(x.entries) : y.entries[k] = x.entries[m]
      <4>1. /\ Drop(x, d) \in Books(E)
            /\ \A k \in 1..Len(Drop(x, d).entries) :
                 /\ Drop(x, d).entries[k].read # d
                 /\ \E m \in 1..Len(x.entries) : Drop(x, d).entries[k] = x.entries[m]
        BY <2>1, DropIs
      <4> QED
        BY <3>1, <4>1, Zenon
    <3>3. Left(y)
      <4>1. ASSUME NEW k \in 1..Len(y.entries)
            PROVE  \E m \in 1..N : y.entries[k] = s.entries[m]
        <5>1. PICK m \in 1..Len(x.entries) : y.entries[k] = x.entries[m]
          BY <3>2, Zenon
        <5>2. \E l \in 1..N : x.entries[m] = s.entries[l]
          BY <2>1, Zenon
        <5> QED
          BY <5>1, <5>2, Zenon
      <4> QED
        BY <4>1, Zenon
    <3>4. x.bytes \in Nat
      BY <2>1 DEF Books
    <3>5. \A m \in 1..(n - 1) : s.entries[m].read # r =>
            \A k \in 1..Len(x.entries) : x.entries[k].read # s.entries[m].read
      BY <1>1, <2>1, <2>4, <3>4
    <3>6. Gone(n, y)
      <4> SUFFICES ASSUME NEW m \in 1..n, s.entries[m].read # r, NEW k \in 1..Len(y.entries)
                   PROVE  y.entries[k].read # s.entries[m].read
        OBVIOUS
      <4>1. CASE m = n
        BY <3>2, <4>1 DEF d
      <4>2. CASE m \in 1..(n - 1)
        <5>1. PICK l \in 1..Len(x.entries) : y.entries[k] = x.entries[l]
          BY <3>2, Zenon
        <5> QED
          BY <3>5, <4>2, <5>1
      <4> QED
        BY <2>2, <4>1, <4>2
    <3> HIDE DEF Gone, Left
    <3> QED
      BY <2>2, <3>2, <3>3, <3>6 DEF y
  <2>5. CASE ~(x.bytes > MaxBytes /\ d # r)
    <3>1. y = x
      BY <2>3, <2>5
    <3>2. x.bytes \in Nat
      BY <2>1 DEF Books
    <3>3. CASE d # r
      <4>1. Gone(n, x)
        BY <1>1, <2>5, <3>2, <3>3
      <4> HIDE DEF Gone, Left
      <4> QED
        BY <2>1, <2>2, <3>1, <4>1 DEF y
    <3>4. CASE d = r
      <4>1. Gone(n, x)
        BY <2>1, <2>2, <3>4
      <4> HIDE DEF Gone, Left
      <4> QED
        BY <2>1, <2>2, <3>1, <4>1 DEF y
    <3> QED
      BY <3>3, <3>4
  <2> QED
    BY <2>4, <2>5
<1> HIDE DEF P
<1>14. N \in P
  <2>1. \A n \in 0..N : n \in P
    <3> HIDE DEF N
    <3> QED
      BY <1>1, <1>12, <1>13, OneByOne
  <2> QED
    BY <1>1, <2>1
<1> DEFINE x == f[N]
<1>15. x \in Books(E) /\ Gone(N, x) /\ Left(x)
  BY <1>14 DEF P
<1>16. Evict(s, r) = x
  BY <1>10
<1> HIDE DEF x
<1>17. x.bytes <= MaxBytes
  <2>1. CASE x.bytes <= MaxBytes
    BY <2>1
  <2>2. CASE ~(x.bytes <= MaxBytes)
    <3>1. ASSUME NEW k \in 1..Len(x.entries)
          PROVE  x.entries[k].read = r
      <4>1. PICK m \in 1..N : x.entries[k] = s.entries[m]
        BY <1>15, Zenon
      <4>2. s.entries[m].read # r => x.entries[k].read # s.entries[m].read
        BY <1>15, <2>2, Zenon
      <4> QED
        BY <4>1, <4>2
    <3> QED
      BY <1>15, <3>1, OneLeft, Zenon
  <2> QED
    BY <2>1, <2>2
<1> QED
  BY <1>15, <1>16, <1>17 DEF Small

LEMMA PutIs ==
  ASSUME NEW E, E \subseteq Entry, NEW s \in Small(E),
         NEW r \in Reads, NEW fact, [read |-> r, fact |-> fact, fetched |-> now] \in E
  PROVE  Put(s, r, fact) \in Small(E)
<1> DEFINE kept == Drop(s, r)
           e == [read |-> r, fact |-> fact, fetched |-> now]
           more == [entries |-> Append(kept.entries, e), bytes |-> kept.bytes + Size[r]]
<1>1. Put(s, r, fact) = IF Size[r] > MaxBytes THEN s ELSE Evict(more, r)
  BY Zenon DEF Put
<1>2. s \in Books(E) /\ MaxBytes \in Nat /\ Size[r] \in Nat /\ Size[r] > 0
  BY Given DEF Small
<1>3. /\ kept \in Books(E)
      /\ \A n \in 1..Len(kept.entries) : kept.entries[n].read # r
  BY <1>2, DropIs
<1> HIDE DEF kept
<1>4. /\ kept.entries \in Seq(E) /\ Once(kept.entries) /\ kept.bytes \in Nat
      /\ kept.bytes = Total(kept.entries)
  BY <1>3 DEF Books
<1>5. e \in E /\ e.read = r
  OBVIOUS
<1> HIDE DEF e
<1>6. Append(kept.entries, e) \in Seq(E) /\ Once(Append(kept.entries, e))
  BY <1>3, <1>4, <1>5, AppendOnce
<1>7. kept.entries \in Seq(Entry) /\ e \in Entry
  BY <1>4, <1>5, AlsoIn
<1>8. Total(Append(kept.entries, e)) = kept.bytes + Size[r]
  BY <1>4, <1>5, <1>7, TotalAppended
<1>9. kept.bytes + Size[r] \in Nat
  BY <1>2, <1>4
<1>10. more \in Books(E)
  BY <1>6, <1>8, <1>9, BooksOf
<1> HIDE DEF more
<1>11. Size[r] <= MaxBytes => Evict(more, r) \in Small(E)
  BY <1>10, EvictIs
<1> QED
  BY <1>1, <1>2, <1>11

LEMMA GetAllIs ==
  ASSUME NEW E, E \subseteq Entry, NEW s \in Small(E),
         NEW reads \in Seq(Reads)
  PROVE  GetAll(s, reads) \in Small(E)
<1> DEFINE N == Len(reads)
           move == [p \in (1..N) \X Small(E) |-> Get(p[2], reads[p[1]])]
           f == CHOOSE after : after = [n \in 0..Len(reads) |->
                  IF n = 0 THEN s ELSE Get(after[n - 1], reads[n])]
<1>1. N \in Nat
  OBVIOUS
<1>2. \A n \in 1..N, x \in Small(E) : Get(x, reads[n]) \in Small(E)
  BY GetIs, Zenon
<1>3. move \in [(1..N) \X Small(E) -> Small(E)]
  BY <1>2
<1>4. \A n \in 1..N, x \in Small(E) : move[<<n, x>>] = Get(x, reads[n])
  OBVIOUS
<1> HIDE DEF move
<1>5. PICK g \in [0..N -> Small(E)] : Goes(g, N, s, move)
  <2> HIDE DEF N
  <2> QED
    BY <1>1, <1>3, Recursion
<1>6. \A n \in 0..N : n # 0 => n \in 1..N /\ n - 1 \in 0..N
  BY <1>1
<1>7. \A n \in 0..N : g[n] = IF n = 0 THEN s ELSE Get(g[n - 1], reads[n])
  <2> HIDE DEF N
  <2> QED
    BY <1>4, <1>5, <1>6 DEF Goes
<1>8. g = [n \in 0..Len(reads) |-> IF n = 0 THEN s ELSE Get(g[n - 1], reads[n])]
  BY <1>5, <1>7
<1>9. f = [n \in 0..Len(reads) |-> IF n = 0 THEN s ELSE Get(f[n - 1], reads[n])]
  BY <1>8, Zenon
<1>10. GetAll(s, reads) = f[N]
  BY Zenon DEF GetAll
<1> HIDE DEF f
<1>11. \A n \in 0..N : f[n] = IF n = 0 THEN s ELSE Get(f[n - 1], reads[n])
  BY <1>9
<1> DEFINE P == {n \in 0..N : f[n] \in Small(E)}
<1> HIDE DEF N
<1>12. 0 \in P
  BY <1>1, <1>11
<1>13. ASSUME NEW n \in 1..N, n - 1 \in P
       PROVE  n \in P
  <2>1. f[n - 1] \in Small(E) /\ n \in 0..N /\ n # 0
    BY <1>1, <1>13
  <2> QED
    BY <1>2, <1>11, <2>1
<1> HIDE DEF P
<1>14. \A n \in 0..N : n \in P
  BY <1>1, <1>12, <1>13, OneByOne
<1> QED
  BY <1>1, <1>10, <1>14 DEF P

LEMMA PutAllIs ==
  ASSUME NEW E, E \subseteq Entry, NEW s \in Small(E),
         NEW reads \in Seq(Reads), NEW facts, NEW good,
         \A n \in 1..Len(reads) : reads[n] \in good =>
           [read |-> reads[n], fact |-> facts[reads[n]], fetched |-> now] \in E
  PROVE  PutAll(s, reads, facts, good) \in Small(E)
<1> DEFINE N == Len(reads)
           Then(n, x) == IF reads[n] \in good
                         THEN Put(x, reads[n], facts[reads[n]]) ELSE x
           move == [p \in (1..N) \X Small(E) |-> Then(p[1], p[2])]
           f == CHOOSE after : after = [n \in 0..Len(reads) |->
                  IF n = 0 THEN s
                  ELSE IF reads[n] \in good
                  THEN Put(after[n - 1], reads[n], facts[reads[n]])
                  ELSE after[n - 1]]
<1>1. N \in Nat /\ \A n \in 1..N : reads[n] \in Reads
  OBVIOUS
<1>2. \A n \in 1..N, x \in Small(E) : Then(n, x) \in Small(E)
  BY <1>1, PutIs
<1>3. move \in [(1..N) \X Small(E) -> Small(E)]
  <2> HIDE DEF Then
  <2> QED
    BY <1>2
<1>4. \A n \in 1..N, x \in Small(E) : move[<<n, x>>] = Then(n, x)
  <2> HIDE DEF Then
  <2> QED
    OBVIOUS
<1> HIDE DEF move
<1>5. PICK g \in [0..N -> Small(E)] : Goes(g, N, s, move)
  <2> HIDE DEF N
  <2> QED
    BY <1>1, <1>3, Recursion
<1>6. \A n \in 0..N : n # 0 => n \in 1..N /\ n - 1 \in 0..N
  BY <1>1
<1>7. \A n \in 0..N : g[n] = IF n = 0 THEN s ELSE Then(n, g[n - 1])
  <2> HIDE DEF Then, N
  <2> QED
    BY <1>4, <1>5, <1>6 DEF Goes
<1>8. g = [n \in 0..Len(reads) |->
             IF n = 0 THEN s
             ELSE IF reads[n] \in good
             THEN Put(g[n - 1], reads[n], facts[reads[n]])
             ELSE g[n - 1]]
  BY <1>5, <1>7
<1>9. f = [n \in 0..Len(reads) |->
             IF n = 0 THEN s
             ELSE IF reads[n] \in good
             THEN Put(f[n - 1], reads[n], facts[reads[n]])
             ELSE f[n - 1]]
  BY <1>8, Zenon
<1>10. PutAll(s, reads, facts, good) = f[N]
  BY Zenon DEF PutAll
<1> HIDE DEF f
<1>11. \A n \in 0..N : f[n] = IF n = 0 THEN s ELSE Then(n, f[n - 1])
  BY <1>9
<1> DEFINE P == {n \in 0..N : f[n] \in Small(E)}
<1> HIDE DEF N, Then
<1>12. 0 \in P
  BY <1>1, <1>11
<1>13. ASSUME NEW n \in 1..N, n - 1 \in P
       PROVE  n \in P
  <2>1. f[n - 1] \in Small(E) /\ n \in 0..N /\ n # 0
    BY <1>1, <1>13
  <2> QED
    BY <1>2, <1>11, <2>1
<1> HIDE DEF P
<1>14. \A n \in 0..N : n \in P
  BY <1>1, <1>12, <1>13, OneByOne
<1> QED
  BY <1>1, <1>10, <1>14 DEF P

-----------------------------------------------------------------------------
(* What is at work and what was made of it.                                *)
Asks(c) == ToSet(Requests[c])

(* The time one read may take, before t.                                   *)
Old(t) == Max({t, Timeout}) - Timeout

(* Entries that held when they were fetched.                               *)
Lasting == {e \in Entry :
              e.fetched <= now /\ HeldAt(e.read, e.fact, Old(e.fetched))}

ChangesArePast ==
  \A r \in Reads : changes[r] # {} /\ \A d \in changes[r] : d <= now

(* What a task has of a read: an answer of its own, or one it reused.      *)
Live(r, t) == HeldAt(r, t.facts[r], t.since)

Reused(i, r, t) ==
  /\ r \notin t.missed /\ i \notin Refreshing
  /\ t.window <= now /\ HeldAt(r, t.facts[r], Old(t.window))

Working(i, c, t) ==
  /\ t.at # "none" => t.limit <= Timeout
  /\ t.at = "queued" => t.window = MaxTime + 1
  /\ t.at = "running" =>
    /\ t.since <= now /\ now <= t.since + t.limit
    /\ t.since <= t.window + Ttl
    /\ t.asked \subseteq t.missed /\ t.missed \subseteq Asks(c)
    /\ \A r \in Asks(c) \ t.asked : Live(r, t) \/ Reused(i, r, t)

Founded(i, c, e) ==
  e.status = "ok" =>
    /\ e.stamp <= now /\ e.since <= now /\ e.since <= e.stamp + Ttl
    /\ \A r \in Asks(c) :
         /\ HeldAt(r, e.facts[r], Old(e.stamp))
         /\ i \in Refreshing => HeldAt(r, e.facts[r], e.since)

LEMMA OldIs ==
  ASSUME NEW t \in Nat
  PROVE  /\ Old(t) = IF t >= Timeout THEN t - Timeout ELSE 0
         /\ Old(t) \in Nat /\ Old(t) <= t
<1>1. Timeout \in Nat
  BY Given
<1>2. Max({t, Timeout}) = IF t >= Timeout THEN t ELSE Timeout
  BY <1>1, GreaterOfTwo
<1> QED
  BY <1>1, <1>2 DEF Old

LEMMA OldGrows ==
  ASSUME NEW t \in Nat, NEW u \in Nat, t <= u
  PROVE  Old(t) <= Old(u)
<1>1. Timeout \in Nat
  BY Given
<1>2. /\ Old(t) = IF t >= Timeout THEN t - Timeout ELSE 0
      /\ Old(u) = IF u >= Timeout THEN u - Timeout ELSE 0
  BY OldIs
<1> QED
  BY <1>1, <1>2

LEMMA AsksIs ==
  ASSUME NEW c \in Collectors
  PROVE  /\ Asks(c) \subseteq Reads /\ IsFiniteSet(Asks(c))
         /\ Requests[c] \in Seq(Reads)
         /\ \A n \in 1..Len(Requests[c]) : Requests[c][n] \in Reads /\ Requests[c][n] \in Asks(c)
<1>1. Requests[c] \in Seq(Reads)
  BY Given
<1> DEFINE q == Requests[c]
<1>2. Asks(c) = {q[n] : n \in DOMAIN q}
  BY DEF Asks, ToSet
<1> HIDE DEF q
<1>3. q \in Seq(Reads) /\ DOMAIN q = 1..Len(q) /\ Len(q) \in Nat
  BY <1>1 DEF q
<1>4. IsFiniteSet(DOMAIN q)
  <2>1. 1 \in Int /\ Len(q) \in Int
    BY <1>3
  <2>2. IsFiniteSet(1..Len(q))
    BY <2>1, FS_Interval
  <2> QED
    BY <1>3, <2>2
<1>5. IsFiniteSet(Asks(c))
  <2> DEFINE S == DOMAIN q
             T == Asks(c)
  <2>1. q \in [S -> T] /\ \A r \in T : \E n \in S : q[n] = r
    BY <1>2, <1>3
  <2>2. IsFiniteSet(S)
    BY <1>4
  <2> HIDE DEF S, T
  <2>3. q \in Surjection(S, T)
    BY <2>1 DEF Surjection
  <2>4. IsFiniteSet(T)
    BY <2>2, <2>3, FS_Surjection
  <2> QED
    BY <2>4 DEF T
<1>6. Asks(c) \subseteq Reads /\ \A n \in 1..Len(q) : q[n] \in Reads /\ q[n] \in Asks(c)
  <2>1. \A n \in 1..Len(q) : q[n] \in Reads
    BY <1>3
  <2>2. \A n \in 1..Len(q) : q[n] \in Asks(c)
    BY <1>2, <1>3, Zenon
  <2>3. \A r \in Asks(c) : \E n \in 1..Len(q) : r = q[n]
    BY <1>2, <1>3, Zenon
  <2> QED
    BY <2>1, <2>2, <2>3, Zenon
<1> QED
  BY <1>3, <1>5, <1>6 DEF q

(* What held at a time held before, and what is so now still holds.        *)
LEMMA HeldBefore ==
  ASSUME TypeOK, NEW r \in Reads, NEW fact, NEW t \in Nat, NEW u \in Nat, u <= t,
         HeldAt(r, fact, t)
  PROVE  HeldAt(r, fact, u)
<1>1. \A d \in changes[r] : d \in Nat
  <2>1. changes[r] \subseteq Times
    BY DEF TypeOK
  <2> QED
    BY <2>1 DEF Times
<1> QED
  BY <1>1 DEF HeldAt

LEMMA FactHolds ==
  ASSUME TypeOK, ChangesArePast, NEW r \in Reads, NEW t
  PROVE  Fact(r) \in Times /\ HeldAt(r, Fact(r), t)
<1>1. changes[r] \subseteq Times /\ changes[r] # {}
  BY DEF TypeOK, ChangesArePast
<1>2. MaxTime \in Nat /\ Times = 0..MaxTime
  BY Given DEF Times
<1>3. /\ Max(changes[r]) \in changes[r]
      /\ \A d \in changes[r] : d <= Max(changes[r])
  BY <1>1, <1>2, Greatest
<1>4. \A d \in changes[r] : d \in Nat
  BY <1>1, <1>2
<1> QED
  BY <1>1, <1>3, <1>4 DEF Fact, HeldAt

(* Neither time nor a change takes away that something held.               *)
Onward ==
  /\ now \in Nat /\ now' \in Nat /\ now <= now'
  /\ \A r \in Reads : changes[r]' \subseteq changes[r] \cup {now}

LEMMA HeldStays ==
  ASSUME Onward, NEW r \in Reads, NEW fact, NEW t \in Nat, t <= now, HeldAt(r, fact, t)
  PROVE  HeldAt(r, fact, t)'
BY DEF Onward, HeldAt

LEMMA LastingStays ==
  ASSUME Onward
  PROVE  Lasting \subseteq Lasting'
<1> SUFFICES ASSUME NEW e \in Lasting
             PROVE  e \in Lasting'
  OBVIOUS
<1>1. /\ e \in Entry /\ e.read \in Reads /\ e.fetched \in Nat /\ e.fetched <= now
      /\ HeldAt(e.read, e.fact, Old(e.fetched))
  BY DEF Lasting, Entry, Times
<1>2. Old(e.fetched) \in Nat /\ Old(e.fetched) <= now
  <2>1. Old(e.fetched) \in Nat /\ Old(e.fetched) <= e.fetched
    BY <1>1, OldIs
  <2> QED
    BY <1>1, <2>1 DEF Onward
<1>3. HeldAt(e.read, e.fact, Old(e.fetched))'
  <2> DEFINE r == e.read
             fact == e.fact
             t == Old(e.fetched)
  <2>1. r \in Reads /\ t \in Nat /\ t <= now /\ HeldAt(r, fact, t)
    BY <1>1, <1>2
  <2> HIDE DEF r, fact, t
  <2>2. HeldAt(r, fact, t)'
    BY <2>1, HeldStays
  <2> QED
    BY <2>2 DEF r, fact, t
<1>4. e.fetched <= now'
  BY <1>1 DEF Onward
<1> QED
  BY <1>1, <1>3, <1>4 DEF Lasting, Old

LEMMA BooksKeep ==
  ASSUME NEW E, NEW F, E \subseteq F
  PROVE  Small(E) \subseteq Small(F)
<1> SUFFICES ASSUME NEW s \in Small(E)
             PROVE  s \in Small(F)
  OBVIOUS
<1>1. s.entries \in Seq(F)
  <2>1. s.entries \in Seq(E)
    BY DEF Small, Books
  <2> QED
    BY <2>1, AlsoIn
<1> QED
  BY <1>1 DEF Small, Books

LEMMA WorkingStays ==
  ASSUME Onward,
         NEW i \in Investigations, NEW c \in Collectors, NEW t \in Task,
         Working(i, c, t), t.at = "running" => now' <= t.since + t.limit
  PROVE  Working(i, c, t)'
<1>0. CASE t.at # "running"
  BY <1>0 DEF Working
<1> SUFFICES ASSUME t.at = "running" PROVE Working(i, c, t)'
  BY <1>0
<1>1. t.since \in Nat /\ t.window \in Nat /\ t.limit \in Nat
  <2>1. t.since \in Times /\ t.window \in 0..(MaxTime + 1) /\ t.limit \in Nat
    BY DEF Task
  <2> QED
    BY <2>1, Given DEF Times
<1>2. /\ t.since <= now /\ now <= t.since + t.limit /\ t.limit <= Timeout
      /\ t.at # "queued" /\ t.since <= t.window + Ttl
      /\ t.asked \subseteq t.missed /\ t.missed \subseteq Asks(c)
      /\ \A r \in Asks(c) \ t.asked : Live(r, t) \/ Reused(i, r, t)
  BY DEF Working
<1>3. t.since <= now' /\ now' <= t.since + t.limit
  BY <1>1, <1>2 DEF Onward
<1>4. ASSUME NEW r \in Asks(c) \ t.asked
      PROVE  Live(r, t)' \/ Reused(i, r, t)'
  <2>1. r \in Reads
    BY AsksIs
  <2> DEFINE fact == t.facts[r]
  <2>2. CASE Live(r, t)
    <3>1. HeldAt(r, fact, t.since)
      BY <2>2 DEF Live
    <3> DEFINE u == t.since
    <3>2. u \in Nat /\ u <= now /\ HeldAt(r, fact, u)
      BY <1>1, <1>2, <3>1
    <3> HIDE DEF fact, u
    <3>3. HeldAt(r, fact, u)'
      BY <2>1, <3>2, HeldStays
    <3> QED
      BY <3>3 DEF Live, fact, u
  <2>3. CASE Reused(i, r, t)
    <3> DEFINE u == Old(t.window)
    <3>1. t.window <= now /\ HeldAt(r, fact, u) /\ r \notin t.missed /\ i \notin Refreshing
      BY <2>3 DEF Reused
    <3>2. u \in Nat /\ u <= now /\ t.window <= now'
      <4>1. u \in Nat /\ u <= t.window
        BY <1>1, OldIs
      <4> HIDE DEF u
      <4> QED
        BY <1>1, <3>1, <4>1 DEF Onward
    <3> HIDE DEF fact, u
    <3>3. HeldAt(r, fact, u)'
      BY <2>1, <3>1, <3>2, HeldStays
    <3> QED
      BY <3>1, <3>2, <3>3 DEF Reused, fact, u, Old
  <2> QED
    BY <1>4, <1>2, <2>2, <2>3
<1> QED
  BY <1>2, <1>3, <1>4 DEF Working, Asks

LEMMA FoundedStays ==
  ASSUME Onward,
         NEW i \in Investigations, NEW c \in Collectors, NEW e \in Record,
         Founded(i, c, e)
  PROVE  Founded(i, c, e)'
<1> SUFFICES ASSUME e.status = "ok" PROVE Founded(i, c, e)'
  BY DEF Founded
<1>1. e.since \in Nat /\ e.stamp \in Nat
  BY DEF Record, Times
<1>2. /\ e.stamp <= now /\ e.since <= now /\ e.since <= e.stamp + Ttl
      /\ \A r \in Asks(c) :
         /\ HeldAt(r, e.facts[r], Old(e.stamp))
         /\ i \in Refreshing => HeldAt(r, e.facts[r], e.since)
  BY DEF Founded
<1>3. e.stamp <= now' /\ e.since <= now'
  BY <1>1, <1>2 DEF Onward
<1>4. ASSUME NEW r \in Asks(c)
      PROVE  /\ HeldAt(r, e.facts[r], Old(e.stamp))'
             /\ i \in Refreshing => HeldAt(r, e.facts[r], e.since)'
  <2> DEFINE fact == e.facts[r]
             u == Old(e.stamp)
             v == e.since
  <2>1. r \in Reads
    BY AsksIs
  <2>2. Old(e.stamp) \in Nat /\ Old(e.stamp) <= e.stamp
    BY <1>1, OldIs
  <2>3. u \in Nat /\ u <= now /\ v \in Nat /\ v <= now
    BY <1>1, <1>2, <2>2 DEF Onward
  <2>4. HeldAt(r, fact, u) /\ (i \in Refreshing => HeldAt(r, fact, v))
    BY <1>2
  <2> HIDE DEF fact, u, v
  <2>5. HeldAt(r, fact, u)'
    BY <2>1, <2>3, <2>4, HeldStays
  <2>6. i \in Refreshing => HeldAt(r, fact, v)'
    BY <2>1, <2>3, <2>4, HeldStays
  <2> QED
    BY <2>5, <2>6 DEF fact, u, v, Old
<1> QED
  BY <1>2, <1>3, <1>4 DEF Founded, Asks, Old

-----------------------------------------------------------------------------
(* What is so of the evidence, on its way and once it is there.            *)
Gathered ==
  /\ TypeOK /\ ChangesArePast
  /\ cache \in Small(Lasting)
  /\ \A i \in Investigations, c \in Collectors :
       Working(i, c, task[i][c]) /\ Founded(i, c, evidence[i][c])

LEMMA LeastIs ==
  ASSUME NEW S, S \subseteq Nat, S # {}
  PROVE  Min(S) \in S /\ \A y \in S : Min(S) <= y
<1>1. \E x \in S : \A y \in S : x <= y
  BY Least
<1> QED
  BY <1>1, Zenon DEF Min

LEMMA Blanks ==
  /\ 0 \in Times /\ [r \in Reads |-> 0] \in [Reads -> Times]
         /\ NoTask \in Task /\ NoTask.at = "none"
         /\ NoRecord \in Record /\ NoRecord.status = "missing"
<1>1. MaxTime \in Nat
  BY Given
<1>2. 0 \in Times /\ MaxTime + 1 \in 0..(MaxTime + 1)
  BY <1>1 DEF Times
<1> DEFINE nothing == [r \in Reads |-> 0]
<1>3. nothing \in [Reads -> Times]
  BY <1>2
<1> HIDE DEF nothing
<1>4. NoTask = [at |-> "none", limit |-> 0, since |-> 0, window |-> MaxTime + 1,
                       missed |-> {}, asked |-> {}, facts |-> nothing]
  BY Zenon DEF NoTask, nothing
<1>5. NoRecord = [status |-> "missing", stamp |-> 0, since |-> 0, facts |-> nothing]
  BY Zenon DEF NoRecord, nothing
<1>6. NoTask \in Task /\ NoTask.at = "none"
  BY <1>2, <1>3, <1>4 DEF Task
<1>7. NoRecord \in Record /\ NoRecord.status = "missing"
  BY <1>2, <1>3, <1>5 DEF Record
<1> QED
  BY <1>2, <1>3, <1>6, <1>7 DEF nothing

LEMMA DegradedIs ==
  ASSUME now \in Times, NEW status \in Status
  PROVE  Degraded(status) \in Record /\ Degraded(status).status = status
<1>1. NoRecord \in Record
  BY Blanks
<1> QED
  BY <1>1 DEF Degraded, Record

(* One place of a table of tables is set.                                  *)
LEMMA TableSet ==
  ASSUME NEW S, NEW T, NEW V, NEW f \in [S -> [T -> V]], NEW g, NEW i \in S, NEW c \in T,
         NEW x \in V, g = [f EXCEPT ![i][c] = x]
  PROVE  /\ g \in [S -> [T -> V]]
         /\ \A j \in S, d \in T : g[j][d] = IF j = i /\ d = c THEN x ELSE f[j][d]
OBVIOUS

LEMMA TableRow ==
  ASSUME NEW S, NEW T, NEW V, NEW f \in [S -> [T -> V]], NEW g, NEW i \in S,
         NEW x \in [T -> V], g = [f EXCEPT ![i] = x]
  PROVE  /\ g \in [S -> [T -> V]]
         /\ \A j \in S : g[j] = IF j = i THEN x ELSE f[j]
OBVIOUS

LEMMA WorkingNext ==
  ASSUME NEW i, NEW c, NEW t, t = task'[i][c], Working(i, c, t)'
  PROVE  Working(i, c, task[i][c])'
BY DEF Working, Live, Reused, HeldAt

LEMMA FoundedNext ==
  ASSUME NEW i, NEW c, NEW e, e = evidence'[i][c], Founded(i, c, e)'
  PROVE  Founded(i, c, evidence[i][c])'
BY DEF Founded, HeldAt

(* Kept, if what is new is right and what is not has its time.             *)
LEMMA GatheredKept ==
  ASSUME Gathered, Onward,
         TypeOK', ChangesArePast', cache' \in Small(Lasting'),
         \A i \in Investigations, c \in Collectors :
           \/ /\ task'[i][c] = task[i][c]
              /\ task[i][c].at = "running" => now' <= task[i][c].since + task[i][c].limit
           \/ \E t : t = task'[i][c] /\ Working(i, c, t)',
         \A i \in Investigations, c \in Collectors :
           \/ evidence'[i][c] = evidence[i][c]
           \/ \E e : e = evidence'[i][c] /\ Founded(i, c, e)'
  PROVE  Gathered'
<1>1. ASSUME NEW i \in Investigations, NEW c \in Collectors
      PROVE  Working(i, c, task[i][c])'
  <2>1. CASE /\ task'[i][c] = task[i][c]
             /\ task[i][c].at = "running" => now' <= task[i][c].since + task[i][c].limit
    <3>1. PICK t : t = task[i][c]
      OBVIOUS
    <3>2. t \in Task
      BY <3>1 DEF Gathered, TypeOK
    <3>3. Working(i, c, t)
      BY <3>1 DEF Gathered
    <3>4. t.at = "running" => now' <= t.since + t.limit
      BY <2>1, <3>1
    <3>5. Working(i, c, t)'
      BY <3>2, <3>3, <3>4, WorkingStays
    <3>6. t = task'[i][c]
      BY <2>1, <3>1
    <3> QED
      BY <3>5, <3>6, WorkingNext
  <2>2. CASE \E t : t = task'[i][c] /\ Working(i, c, t)'
    BY <2>2, WorkingNext
  <2> QED
    BY <2>1, <2>2
<1>2. ASSUME NEW i \in Investigations, NEW c \in Collectors
      PROVE  Founded(i, c, evidence[i][c])'
  <2>1. CASE evidence'[i][c] = evidence[i][c]
    <3>1. PICK e : e = evidence[i][c]
      OBVIOUS
    <3>2. e \in Record
      BY <3>1 DEF Gathered, TypeOK
    <3>3. Founded(i, c, e)
      BY <3>1 DEF Gathered
    <3>4. Founded(i, c, e)'
      BY <3>2, <3>3, FoundedStays
    <3>5. e = evidence'[i][c]
      BY <2>1, <3>1
    <3> QED
      BY <3>4, <3>5, FoundedNext
  <2>2. CASE \E e : e = evidence'[i][c] /\ Founded(i, c, e)'
    BY <2>2, FoundedNext
  <2> QED
    BY <2>1, <2>2
<1>3. (cache \in Small(Lasting))'
  BY DEF Small, Books, Once
<1> QED
  BY <1>1, <1>2, <1>3 DEF Gathered

(* In the same moment, nothing having changed.                             *)
LEMMA SameMoment ==
  ASSUME Gathered, UNCHANGED <<now, changes>>
  PROVE  Onward /\ ChangesArePast' /\ Lasting \subseteq Lasting'
<1>1. now \in Nat
  BY Given DEF Gathered, TypeOK, Times
<1>2. Onward /\ ChangesArePast'
  BY <1>1 DEF Onward, Gathered, ChangesArePast
<1> QED
  BY <1>2, LastingStays

LEMMA CacheStays ==
  ASSUME Gathered, Onward, NEW s \in Small(Lasting)
  PROVE  s \in Small(Lasting')
<1>1. Lasting \subseteq Lasting'
  BY LastingStays
<1> QED
  BY <1>1, BooksKeep

LEMMA GatheredSame ==
  ASSUME Gathered, UNCHANGED <<now, changes>>,
         TypeOK', cache' \in Small(Lasting),
         \A i \in Investigations, c \in Collectors :
           task'[i][c] = task[i][c] \/ Working(i, c, task'[i][c]),
         \A i \in Investigations, c \in Collectors :
           evidence'[i][c] = evidence[i][c] \/ Founded(i, c, evidence'[i][c])
  PROVE  Gathered'
<1>1. Onward /\ ChangesArePast'
  BY SameMoment
<1>2. cache' \in Small(Lasting')
  BY <1>1, CacheStays
<1>3. ASSUME NEW i \in Investigations, NEW c \in Collectors
      PROVE  \/ /\ task'[i][c] = task[i][c]
                /\ task[i][c].at = "running" => now' <= task[i][c].since + task[i][c].limit
             \/ \E t : t = task'[i][c] /\ Working(i, c, t)'
  <2>1. PICK t : t = task'[i][c]
    OBVIOUS
  <2>2. t \in Task
    BY <2>1 DEF TypeOK
  <2>3. CASE task'[i][c] = task[i][c]
    <3>1. Working(i, c, task[i][c])
      BY DEF Gathered
    <3> QED
      BY <2>3, <3>1 DEF Working
  <2>4. CASE Working(i, c, task'[i][c])
    <3>1. Working(i, c, t)
      BY <2>1, <2>4
    <3>2. t.at = "running" => now' <= t.since + t.limit
      BY <3>1 DEF Working
    <3>3. Working(i, c, t)'
      BY <1>1, <2>2, <3>1, <3>2, WorkingStays
    <3> QED
      BY <2>1, <3>3
  <2> QED
    BY <2>3, <2>4
<1>4. ASSUME NEW i \in Investigations, NEW c \in Collectors
      PROVE  \/ evidence'[i][c] = evidence[i][c]
             \/ \E e : e = evidence'[i][c] /\ Founded(i, c, e)'
  <2>1. PICK e : e = evidence'[i][c]
    OBVIOUS
  <2>2. e \in Record
    BY <2>1 DEF TypeOK
  <2>3. CASE evidence'[i][c] = evidence[i][c]
    BY <2>3
  <2>4. CASE Founded(i, c, evidence'[i][c])
    <3>1. Founded(i, c, e)
      BY <2>1, <2>4
    <3>2. Founded(i, c, e)'
      BY <1>1, <2>2, <3>1, FoundedStays
    <3> QED
      BY <2>1, <3>2
  <2> QED
    BY <2>3, <2>4
<1> QED
  BY <1>1, <1>2, <1>3, <1>4, GatheredKept

LEMMA GatheredStart ==
  ASSUME Init
  PROVE  Gathered
<1>1. /\ 0 \in Times /\ MaxFaults \in Nat /\ NoTask \in Task
      /\ NoTask.at = "none" /\ NoRecord \in Record
      /\ NoRecord.status = "missing" /\ MaxBytes \in Nat
  BY Blanks, Given
<1> DEFINE blank == NoTask
           none == NoRecord
<1>2. /\ task = [i \in Investigations |-> [c \in Collectors |-> blank]]
      /\ evidence = [i \in Investigations |-> [c \in Collectors |-> none]]
      /\ now = 0 /\ changes = [r \in Reads |-> {0}] /\ cache = [entries |-> <<>>, bytes |-> 0]
      /\ round = [i \in Investigations |-> "submitted"]
      /\ started = [i \in Investigations |-> 0] /\ pending = [i \in Investigations |-> {}]
      /\ faults = 0
  BY Zenon DEF Init
<1>3. blank \in Task /\ blank.at = "none" /\ none \in Record /\ none.status = "missing"
  BY <1>1
<1> HIDE DEF blank, none
<1>4. TypeOK
  BY <1>1, <1>2, <1>3 DEF TypeOK
<1>5. ChangesArePast
  BY <1>2 DEF ChangesArePast
<1>6. cache \in Small(Lasting)
  <2>1. Total(<<>>) = 0
    <3> DEFINE h == [n \in 0..0 |-> 0]
               q == <<>>
    <3>1. Len(q) = 0 /\ q \in Seq(Entry) /\ h[0] = 0 /\ h \in [0..0 -> Nat]
      OBVIOUS
    <3> HIDE DEF h, q
    <3>2. Sums(q, h)
      BY <3>1 DEF Sums
    <3> QED
      BY <3>1, <3>2, OneTotal DEF q
  <2>2. cache.entries = <<>> /\ cache.bytes = 0 /\ cache \in [entries : Seq(Lasting), bytes : Nat]
    BY <1>2
  <2> QED
    BY <1>1, <2>1, <2>2 DEF Small, Books, Once
<1>7. ASSUME NEW i \in Investigations, NEW c \in Collectors
      PROVE  Working(i, c, task[i][c]) /\ Founded(i, c, evidence[i][c])
  <2>1. task[i][c] = blank /\ evidence[i][c] = none
    BY <1>2
  <2> QED
    BY <1>3, <2>1 DEF Working, Founded
<1> QED
  BY <1>4, <1>5, <1>6, <1>7 DEF Gathered

LEMMA GatheredSubmit ==
  ASSUME Gathered, NEW i \in Investigations, Submit(i)
  PROVE  Gathered'
<1>1. TypeOK'
  BY DEF Gathered, TypeOK, Submit, Collectors
<1> QED
  BY <1>1, GatheredSame DEF Gathered, Submit

LEMMA GatheredPlan ==
  ASSUME Gathered, NEW i \in Investigations, Plan(i)
  PROVE  Gathered'
<1>1. PICK planned \in SUBSET Targeted :
        \/ round' = [round EXCEPT ![i] = "over"] /\ UNCHANGED pending
        \/ /\ round' = [round EXCEPT ![i] = "targeted"]
           /\ pending' = [pending EXCEPT ![i] = planned]
  BY Zenon DEF Plan
<1>2. UNCHANGED <<now, changes, cache, started, task, evidence, faults>>
  BY DEF Plan
<1>3. planned \in SUBSET Collectors
  BY DEF Collectors
<1>4. TypeOK'
  BY <1>1, <1>2, <1>3 DEF Gathered, TypeOK
<1> QED
  BY <1>2, <1>4, GatheredSame DEF Gathered

LEMMA GatheredFinish ==
  ASSUME Gathered, NEW i \in Investigations, Finish(i)
  PROVE  Gathered'
<1>1. TypeOK'
  BY DEF Gathered, TypeOK, Finish
<1> QED
  BY <1>1, GatheredSame DEF Gathered, Finish

(* What a collector is given at most: no more than its investigation has.  *)
LEMMA TimeoutIs ==
  ASSUME TypeOK, NEW i \in Investigations
  PROVE  /\ TimeoutForNext(i) \in Nat /\ TimeoutForNext(i) <= Timeout
         /\ TimeoutForNext(i) > 0 =>
              now + TimeoutForNext(i) <= started[i] + Deadline
<1>1. /\ now \in Nat /\ started[i] \in Nat /\ Deadline \in Nat /\ Timeout \in Nat
  BY Given DEF TypeOK, Times
<1> DEFINE left == Remaining(i)
<1>2. left = IF now - started[i] < Deadline THEN Deadline - (now - started[i]) ELSE 0
  BY DEF Remaining
<1> HIDE DEF left
<1>3. left \in Nat /\ (left > 0 => now + left <= started[i] + Deadline)
  BY <1>1, <1>2
<1>4. TimeoutForNext(i) = IF Timeout <= left THEN Timeout ELSE left
  <2>1. Min({Timeout, left}) = IF Timeout <= left THEN Timeout ELSE left
    BY <1>1, <1>3, LesserOfTwo
  <2> QED
    BY <2>1 DEF TimeoutForNext, left
<1> QED
  BY <1>1, <1>3, <1>4

(* What a wave makes of the tasks and the evidence of its investigation.   *)
Runs(i) == {c \in Wave(i) : ShouldRun(i, c)}
Queued(i) == [NoTask EXCEPT !.at = "queued", !.limit = TimeoutForNext(i)]

LEMMA WaveMakes ==
  ASSUME TypeOK, NEW i \in Investigations,
         StartWave(i)
  PROVE  /\ UNCHANGED <<now, changes, cache, round, started, faults>>
         /\ pending' = [pending EXCEPT ![i] = pending[i] \ Wave(i)]
         /\ task' \in [Investigations -> [Collectors -> Task]]
         /\ evidence' \in [Investigations -> [Collectors -> Record]]
         /\ \A j \in Investigations, c \in Collectors :
              /\ task'[j][c] = IF j = i /\ c \in Runs(i) /\ TimeoutForNext(i) > 0
                               THEN Queued(i) ELSE task[j][c]
              /\ evidence'[j][c] =
                   IF j = i /\ c \in Wave(i) \ Runs(i)
                   THEN Degraded("not_applicable")
                   ELSE IF j = i /\ c \in Runs(i) /\ TimeoutForNext(i) = 0
                   THEN Degraded("timeout") ELSE evidence[j][c]
<1> DEFINE runs == Runs(i)
           given == TimeoutForNext(i)
           queued == Queued(i)
           unfit == Degraded("not_applicable")
           late == Degraded("timeout")
           wave == Wave(i)
           tasks == [c \in Collectors |->
                       IF c \in runs /\ given > 0 THEN queued ELSE task[i][c]]
           records == [c \in Collectors |->
                       IF c \in wave \ runs THEN unfit
                       ELSE IF c \in runs /\ given = 0 THEN late ELSE evidence[i][c]]
<1>1. /\ task' = [task EXCEPT ![i] = tasks] /\ evidence' = [evidence EXCEPT ![i] = records]
      /\ pending' = [pending EXCEPT ![i] = pending[i] \ wave]
      /\ UNCHANGED <<now, changes, cache, round, started, faults>>
  BY DEF StartWave, Runs, Queued
<1>2. given \in Nat
  BY TimeoutIs
<1>3. NoTask \in Task
  BY Blanks
<1>4. queued \in Task
  BY <1>2, <1>3 DEF Queued, Task
<1>5. unfit \in Record /\ late \in Record
  <2>1. "not_applicable" \in Status /\ "timeout" \in Status
    BY DEF Status
  <2>2. now \in Times
    BY DEF TypeOK
  <2> QED
    BY <2>1, <2>2, DegradedIs
<1>6. /\ task \in [Investigations -> [Collectors -> Task]]
      /\ evidence \in [Investigations -> [Collectors -> Record]]
  BY DEF TypeOK
<1> HIDE DEF runs, given, queued, unfit, late, wave
<1>7. tasks \in [Collectors -> Task]
  BY <1>4, <1>6
<1>8. records \in [Collectors -> Record]
  BY <1>5, <1>6
<1>9. /\ task' \in [Investigations -> [Collectors -> Task]]
      /\ \A j \in Investigations : task'[j] = IF j = i THEN tasks ELSE task[j]
  <2> HIDE DEF tasks, records
  <2> QED
    BY <1>1, <1>6, <1>7, TableRow
<1>10. /\ evidence' \in [Investigations -> [Collectors -> Record]]
       /\ \A j \in Investigations : evidence'[j] = IF j = i THEN records ELSE evidence[j]
  <2> HIDE DEF tasks, records
  <2> QED
    BY <1>1, <1>6, <1>8, TableRow
<1>11. \A j \in Investigations, c \in Collectors :
         /\ task'[j][c] = IF j = i /\ c \in runs /\ given > 0 THEN queued ELSE task[j][c]
         /\ evidence'[j][c] = IF j = i /\ c \in wave \ runs THEN unfit
                              ELSE IF j = i /\ c \in runs /\ given = 0 THEN late
                              ELSE evidence[j][c]
  BY <1>9, <1>10
<1> QED
  BY <1>1, <1>9, <1>10, <1>11 DEF runs, given, queued, unfit, late, wave

LEMMA GatheredStartWave ==
  ASSUME Gathered, NEW i \in Investigations, StartWave(i)
  PROVE  Gathered'
<1>0. TypeOK
  BY DEF Gathered
<1>1. /\ UNCHANGED <<now, changes, cache, round, started, faults>>
      /\ pending' = [pending EXCEPT ![i] = pending[i] \ Wave(i)]
      /\ task' \in [Investigations -> [Collectors -> Task]]
      /\ evidence' \in [Investigations -> [Collectors -> Record]]
  BY <1>0, WaveMakes
<1>2. TypeOK'
  BY <1>0, <1>1 DEF TypeOK
<1>3. ASSUME NEW j \in Investigations, NEW c \in Collectors
      PROVE  /\ task'[j][c] = task[j][c] \/ Working(j, c, task'[j][c])
             /\ evidence'[j][c] = evidence[j][c] \/ Founded(j, c, evidence'[j][c])
  <2>1. task'[j][c] = task[j][c] \/ task'[j][c] = Queued(i)
    <3>1. task'[j][c] = IF j = i /\ c \in Runs(i) /\ TimeoutForNext(i) > 0
                        THEN Queued(i) ELSE task[j][c]
      BY <1>0, WaveMakes
    <3> QED
      BY <3>1, Zenon
  <2>2. Working(j, c, Queued(i))
    <3>1. TimeoutForNext(i) <= Timeout
      BY <1>0, TimeoutIs
    <3>2. /\ Queued(i).at = "queued" /\ Queued(i).limit = TimeoutForNext(i)
          /\ Queued(i).window = MaxTime + 1
      BY DEF Queued, NoTask
    <3> QED
      BY <3>1, <3>2 DEF Working
  <2>3. \/ evidence'[j][c] = evidence[j][c]
        \/ evidence'[j][c] = Degraded("not_applicable")
        \/ evidence'[j][c] = Degraded("timeout")
    BY <1>0, WaveMakes, Zenon
  <2>4. /\ Degraded("not_applicable").status = "not_applicable"
        /\ Degraded("timeout").status = "timeout"
    BY <1>0, DegradedIs DEF TypeOK, Status
  <2>5. /\ Founded(j, c, Degraded("not_applicable"))
        /\ Founded(j, c, Degraded("timeout"))
    BY <2>4 DEF Founded
  <2> QED
    BY <2>1, <2>2, <2>3, <2>5
<1> QED
  BY <1>1, <1>2, <1>3, GatheredSame DEF Gathered

(* An entry that hits is of the read, held, and is not too old.            *)
LEMMA HitIs ==
  ASSUME Gathered, NEW r, Hits(cache, r)
  PROVE  /\ EntryOf(cache, r) \in Lasting /\ EntryOf(cache, r).read = r
         /\ now - EntryOf(cache, r).fetched <= Ttl
<1>1. Holds(cache, r) /\ now - EntryOf(cache, r).fetched <= Ttl
  BY Zenon DEF Hits
<1> DEFINE p == PlaceOf(cache, r)
<1>2. /\ p \in 1..Len(cache.entries) /\ cache.entries[p].read = r
      /\ EntryOf(cache, r) = cache.entries[p]
  BY <1>1, PlaceIs, Zenon
<1> HIDE DEF p
<1>3. cache.entries \in Seq(Lasting)
  BY DEF Gathered, Small, Books
<1> QED
  BY <1>1, <1>2, <1>3

LEMMA GatheredBegin ==
  ASSUME Gathered, NEW i \in Investigations,
         NEW c \in Collectors, Begin(i, c)
  PROVE  Gathered'
<1> DEFINE t == task[i][c]
           reads == IF i \in Refreshing THEN {}
                    ELSE {r \in Asks(c) : Hits(cache, r)}
           win == Min({t.window} \cup {EntryOf(cache, r).fetched : r \in reads})
           facts == [r \in Reads |-> IF r \in reads THEN EntryOf(cache, r).fact ELSE 0]
           u == [t EXCEPT !.at = "running", !.since = now, !.window = win,
                          !.missed = Asks(c) \ reads, !.asked = Asks(c) \ reads,
                          !.facts = facts]
<1>1. /\ task' = [task EXCEPT ![i][c] = u]
      /\ cache' = IF i \in Refreshing THEN cache ELSE GetAll(cache, Requests[c])
      /\ UNCHANGED <<now, changes, round, started, pending, evidence, faults>>
      /\ t.at = "queued"
  BY DEF Begin, Lookup, Asks
<1>2. /\ task \in [Investigations -> [Collectors -> Task]]
      /\ t \in Task /\ now \in Times /\ TypeOK
  BY DEF Gathered, TypeOK
<1>3. /\ Times = 0..MaxTime /\ MaxTime \in Nat /\ Ttl \in Nat
      /\ now \in Nat /\ now <= MaxTime
  BY <1>2, Given DEF Times
<1>4. Asks(c) \subseteq Reads /\ Requests[c] \in Seq(Reads)
  BY AsksIs
<1>5. ASSUME NEW r \in reads
      PROVE  /\ r \in Asks(c) /\ r \in Reads /\ i \notin Refreshing
             /\ EntryOf(cache, r).fetched \in Nat
             /\ EntryOf(cache, r).fetched <= now
             /\ now <= EntryOf(cache, r).fetched + Ttl
             /\ EntryOf(cache, r).fact \in Times
             /\ HeldAt(r, EntryOf(cache, r).fact,
                              Old(EntryOf(cache, r).fetched))
  <2>1. r \in Asks(c) /\ i \notin Refreshing /\ Hits(cache, r)
    BY <1>5
  <2> DEFINE e == EntryOf(cache, r)
  <2>2. e \in Lasting /\ e.read = r /\ now - e.fetched <= Ttl
    BY <2>1, HitIs
  <2> HIDE DEF e
  <2>3. /\ e.fetched \in Nat /\ e.fetched <= now /\ e.fact \in Times
        /\ HeldAt(r, e.fact, Old(e.fetched))
    BY <1>3, <2>2 DEF Lasting, Entry
  <2> QED
    BY <1>3, <1>4, <2>1, <2>2, <2>3 DEF e
<1>6. /\ t.window = MaxTime + 1 /\ t.limit <= Timeout /\ t.limit \in Nat
      /\ t.at = "queued"
  BY <1>1, <1>2 DEF Gathered, Working, Task
<1> DEFINE dates == {EntryOf(cache, r).fetched : r \in reads}
<1>7. /\ win \in {t.window} \cup dates
      /\ \A r \in reads : win <= EntryOf(cache, r).fetched
  <2> DEFINE all == {t.window} \cup dates
  <2>1. all \subseteq Nat /\ all # {}
    <3> HIDE DEF reads
    <3> QED
      BY <1>3, <1>5, <1>6
  <2>2. \A r \in reads : EntryOf(cache, r).fetched \in all
    <3> HIDE DEF reads
    <3> QED
      OBVIOUS
  <2>3. win = Min(all)
    OBVIOUS
  <2> HIDE DEF all, win, reads
  <2>4. win \in all /\ \A y \in all : win <= y
    BY <2>1, <2>3, LeastIs
  <2> QED
    BY <2>2, <2>4 DEF all
<1> HIDE DEF reads, win
<1>8. win \in 0..(MaxTime + 1) /\ now <= win + Ttl
  <2>1. CASE win = t.window
    BY <1>3, <1>6, <2>1
  <2>2. CASE win \in dates
    <3>1. PICK r \in reads : win = EntryOf(cache, r).fetched
      BY <2>2
    <3> DEFINE f == EntryOf(cache, r).fetched
    <3>2. f \in Nat /\ f <= now /\ now <= f + Ttl /\ win = f
      BY <1>5, <3>1
    <3> HIDE DEF f
    <3> QED
      BY <1>3, <3>2
  <2> QED
    BY <1>7, <2>1, <2>2
<1>9. facts \in [Reads -> Times] /\ \A r \in reads : facts[r] = EntryOf(cache, r).fact
  <2>1. 0 \in Times
    BY <1>3
  <2> QED
    BY <1>5, <2>1
<1> HIDE DEF facts
<1>10. /\ u \in Task /\ u.at = "running" /\ u.since = now /\ u.window = win
       /\ u.missed = Asks(c) \ reads /\ u.asked = Asks(c) \ reads /\ u.facts = facts
       /\ u.limit = t.limit
  BY <1>2, <1>4, <1>8, <1>9 DEF Task
<1> HIDE DEF u
<1>11. ASSUME NEW r \in Asks(c) \ u.asked
       PROVE  Reused(i, r, u)
  <2>1. r \in reads /\ r \notin u.missed
    BY <1>10, <1>11
  <2> DEFINE f == EntryOf(cache, r).fetched
             fact == EntryOf(cache, r).fact
  <2>2. /\ r \in Reads /\ i \notin Refreshing /\ f \in Nat /\ f <= now
        /\ HeldAt(r, fact, Old(f)) /\ win <= f /\ u.facts[r] = fact
    BY <1>5, <1>7, <1>9, <1>10, <2>1
  <2> HIDE DEF f, fact
  <2>3. win \in Nat /\ win <= now
    BY <1>3, <1>8, <2>2
  <2>4. Old(win) <= Old(f) /\ Old(win) \in Nat /\ Old(f) \in Nat
    BY <2>2, <2>3, OldGrows, OldIs
  <2>5. HeldAt(r, fact, Old(win))
    BY <1>2, <2>2, <2>4, HeldBefore
  <2> QED
    BY <1>10, <2>1, <2>2, <2>3, <2>5 DEF Reused
<1>12. Working(i, c, u)
  <2>1. u.since <= now /\ now <= u.since + u.limit
    BY <1>3, <1>6, <1>10
  <2> QED
    BY <1>6, <1>8, <1>10, <1>11, <2>1 DEF Working
<1>13. /\ task' \in [Investigations -> [Collectors -> Task]]
       /\ \A j \in Investigations, d \in Collectors :
            task'[j][d] = IF j = i /\ d = c THEN u ELSE task[j][d]
  BY <1>1, <1>2, <1>10, TableSet
<1>14. cache' \in Small(Lasting)
  <2>1. cache \in Small(Lasting) /\ Lasting \subseteq Entry
    BY DEF Gathered, Lasting
  <2>2. GetAll(cache, Requests[c]) \in Small(Lasting)
    BY <1>4, <2>1, GetAllIs
  <2> QED
    BY <1>1, <2>1, <2>2
<1>15. TypeOK'
  <2>1. cache'.entries \in Seq(Entry) /\ cache'.bytes \in Nat
    <3>1. cache'.entries \in Seq(Lasting) /\ cache'.bytes \in Nat /\ Lasting \subseteq Entry
      BY <1>14 DEF Small, Books, Lasting
    <3> QED
      BY <3>1, AlsoIn
  <2> QED
    BY <1>1, <1>2, <1>13, <2>1 DEF TypeOK
<1>16. \A j \in Investigations, d \in Collectors :
         task'[j][d] = task[j][d] \/ Working(j, d, task'[j][d])
  BY <1>12, <1>13
<1>17. \A j \in Investigations, d \in Collectors : evidence'[j][d] = evidence[j][d]
  BY <1>1
<1> QED
  BY <1>1, <1>14, <1>15, <1>16, <1>17, GatheredSame DEF Gathered

LEMMA GatheredAnswers ==
  ASSUME Gathered, NEW i \in Investigations,
         NEW c \in Collectors, NEW r \in Reads, ClusterAnswers(i, c, r)
  PROVE  Gathered'
<1> DEFINE t == task[i][c]
           u == [t EXCEPT !.asked = @ \ {r}, !.facts[r] = Fact(r)]
<1>1. /\ task \in [Investigations -> [Collectors -> Task]]
      /\ t \in Task /\ TypeOK
  BY DEF Gathered, TypeOK
<1>2. /\ task' = [task EXCEPT ![i][c] = u]
      /\ UNCHANGED <<now, changes, cache, round, started, pending, evidence, faults>>
      /\ t.at = "running" /\ r \in t.asked
  BY <1>1 DEF ClusterAnswers
<1>3. Fact(r) \in Times /\ HeldAt(r, Fact(r), t.since)
  BY <1>1, FactHolds DEF Gathered
<1> DEFINE fact == Fact(r)
<1> HIDE DEF fact
<1>4. /\ u \in Task /\ u.at = "running" /\ u.since = t.since /\ u.window = t.window
      /\ u.missed = t.missed /\ u.asked = t.asked \ {r} /\ u.limit = t.limit
      /\ u.facts[r] = fact /\ \A x \in Reads : x # r => u.facts[x] = t.facts[x]
  BY <1>1, <1>2, <1>3 DEF Task, fact
<1>5. Working(i, c, t)
  BY DEF Gathered
<1>6. Asks(c) \subseteq Reads
  BY AsksIs
<1> HIDE DEF u, t
<1>7. ASSUME NEW x \in Asks(c) \ u.asked
      PROVE  Live(x, u) \/ Reused(i, x, u)
  <2>1. CASE x = r
    BY <1>3, <1>4, <2>1 DEF Live, fact
  <2>2. CASE x # r
    <3>1. x \in Asks(c) \ t.asked /\ u.facts[x] = t.facts[x]
      BY <1>4, <1>6, <2>2
    <3>2. Live(x, t) \/ Reused(i, x, t)
      BY <1>2, <1>5, <3>1 DEF Working
    <3> QED
      BY <1>4, <3>1, <3>2 DEF Live, Reused
  <2> QED
    BY <2>1, <2>2
<1>8. Working(i, c, u)
  BY <1>2, <1>4, <1>5, <1>7 DEF Working
<1>9. /\ task' \in [Investigations -> [Collectors -> Task]]
      /\ \A j \in Investigations, d \in Collectors :
           task'[j][d] = IF j = i /\ d = c THEN u ELSE task[j][d]
  BY <1>1, <1>2, <1>4, TableSet
<1>10. TypeOK'
  BY <1>1, <1>2, <1>9 DEF TypeOK
<1>11. \A j \in Investigations, d \in Collectors :
         task'[j][d] = task[j][d] \/ Working(j, d, task'[j][d])
  BY <1>8, <1>9
<1> QED
  BY <1>2, <1>10, <1>11, GatheredSame DEF Gathered

(* A task ends, leaving a record that is founded.                          *)
LEMMA GatheredEnds ==
  ASSUME Gathered, NEW i \in Investigations,
         NEW c \in Collectors, NEW e \in Record, Founded(i, c, e),
         Ends(i, c, e), UNCHANGED <<now, changes, round, started, pending>>,
         cache' \in Small(Lasting), faults' \in 0..MaxFaults
  PROVE  Gathered'
<1>1. /\ task \in [Investigations -> [Collectors -> Task]]
      /\ evidence \in [Investigations -> [Collectors -> Record]]
      /\ TypeOK
  BY DEF Gathered, TypeOK
<1>2. NoTask \in Task /\ NoTask.at = "none"
  BY Blanks
<1>3. /\ task' = [task EXCEPT ![i][c] = NoTask]
      /\ evidence' = [evidence EXCEPT ![i][c] = e]
  BY DEF Ends
<1>4. /\ task' \in [Investigations -> [Collectors -> Task]]
      /\ \A j \in Investigations, d \in Collectors :
           task'[j][d] = IF j = i /\ d = c THEN NoTask ELSE task[j][d]
  BY <1>1, <1>2, <1>3, TableSet
<1>5. /\ evidence' \in [Investigations -> [Collectors -> Record]]
      /\ \A j \in Investigations, d \in Collectors :
           evidence'[j][d] = IF j = i /\ d = c THEN e ELSE evidence[j][d]
  BY <1>1, <1>3, TableSet
<1>6. cache'.entries \in Seq(Entry) /\ cache'.bytes \in Nat
  <2>1. cache'.entries \in Seq(Lasting) /\ cache'.bytes \in Nat /\ Lasting \subseteq Entry
    BY DEF Small, Books, Lasting
  <2> QED
    BY <2>1, AlsoIn
<1>7. TypeOK'
  BY <1>1, <1>4, <1>5, <1>6 DEF TypeOK
<1>8. Working(i, c, NoTask)
  BY <1>2 DEF Working
<1>9. \A j \in Investigations, d \in Collectors :
         /\ task'[j][d] = task[j][d] \/ Working(j, d, task'[j][d])
         /\ evidence'[j][d] = evidence[j][d] \/ Founded(j, d, evidence'[j][d])
  BY <1>4, <1>5, <1>8
<1> QED
  BY <1>7, <1>9, GatheredSame

LEMMA DegradedFounded ==
  ASSUME Gathered, NEW i, NEW c,
         NEW status \in Status \ {"ok"}
  PROVE  /\ Degraded(status) \in Record
         /\ Founded(i, c, Degraded(status))
<1>1. now \in Times
  BY DEF Gathered, TypeOK
<1>2. Degraded(status) \in Record /\ Degraded(status).status = status
  BY <1>1, DegradedIs
<1> QED
  BY <1>2 DEF Founded

LEMMA GatheredTimesOut ==
  ASSUME Gathered, NEW i \in Investigations,
         NEW c \in Collectors, TimesOut(i, c) \/ Raises(i, c)
  PROVE  Gathered'
<1>1. PICK status \in {"timeout", "failed"} : Ends(i, c, Degraded(status))
  BY Zenon DEF TimesOut, Raises
<1>2. status \in Status \ {"ok"}
  BY DEF Status
<1> DEFINE e == Degraded(status)
<1>3. e \in Record /\ Founded(i, c, e) /\ Ends(i, c, e)
  BY <1>1, <1>2, DegradedFounded
<1>4. UNCHANGED <<now, changes, cache, round, started, pending>> /\ faults' \in 0..MaxFaults
  <2>1. faults \in 0..MaxFaults /\ MaxFaults \in Nat
    BY Given DEF Gathered, TypeOK
  <2> QED
    BY <2>1 DEF TimesOut, Raises
<1>5. cache' \in Small(Lasting)
  BY <1>4 DEF Gathered
<1> HIDE DEF e
<1> QED
  BY <1>3, <1>4, <1>5, GatheredEnds

LEMMA GatheredCollected ==
  ASSUME Gathered, NEW i \in Investigations,
         NEW c \in Collectors, Collected(i, c)
  PROVE  Gathered'
<1> DEFINE t == task[i][c]
           made == [status |-> "ok", stamp |-> Stamp(t), since |-> t.since,
                    facts |-> t.facts]
<1>1. t.at = "running" /\ t.asked = {} /\ UNCHANGED <<now, changes, round, started, pending>>
  BY DEF Collected
<1>2. PICK bad \in SUBSET t.missed :
        /\ faults + Cardinality(bad) <= MaxFaults
        /\ faults' = faults + Cardinality(bad)
        /\ cache' = PutAll(cache, Requests[c], t.facts, t.missed \ bad)
        /\ Ends(i, c, IF bad # {} THEN Degraded("failed") ELSE made)
  BY Zenon DEF Collected
<1>3. /\ t \in Task /\ TypeOK /\ Working(i, c, t)
  BY DEF Gathered, TypeOK
<1>4. /\ Times = 0..MaxTime /\ MaxTime \in Nat
      /\ now \in Nat /\ now \in Times /\ Timeout \in Nat /\ Ttl \in Nat /\ MaxFaults \in Nat
  BY <1>3, Given DEF TypeOK, Times
<1>5. /\ t.since \in Times /\ t.since \in Nat /\ t.window \in 0..(MaxTime + 1)
      /\ t.limit \in Nat /\ t.facts \in [Reads -> Times]
  BY <1>3, <1>4 DEF Task
<1>6. /\ Asks(c) \subseteq Reads /\ IsFiniteSet(Asks(c)) /\ Requests[c] \in Seq(Reads)
      /\ \A n \in 1..Len(Requests[c]) : Requests[c][n] \in Reads
  BY AsksIs
<1> HIDE DEF t
<1>7. /\ t.since <= now /\ now <= t.since + Timeout /\ t.since <= t.window + Ttl
      /\ t.missed \subseteq Asks(c)
      /\ \A r \in Asks(c) : Live(r, t) \/ Reused(i, r, t)
  <2>1. /\ t.limit <= Timeout /\ t.since <= now /\ now <= t.since + t.limit
        /\ t.since <= t.window + Ttl /\ t.missed \subseteq Asks(c)
        /\ \A r \in Asks(c) \ t.asked : Live(r, t) \/ Reused(i, r, t)
    BY <1>1, <1>3 DEF Working
  <2>2. \A r \in Asks(c) : Live(r, t) \/ Reused(i, r, t)
    BY <1>1, <2>1, Zenon
  <2>3. now <= t.since + Timeout
    BY <1>4, <1>5, <2>1
  <2> QED
    BY <2>1, <2>2, <2>3
<1>8. faults' \in 0..MaxFaults
  <2>1. IsFiniteSet(bad)
    BY <1>2, <1>6, <1>7, FS_Subset
  <2>2. Cardinality(bad) \in Nat
    BY <2>1, FS_CardinalityType
  <2>3. faults \in Nat
    BY <1>3 DEF TypeOK
  <2> QED
    BY <1>2, <1>4, <2>2, <2>3
<1>9. /\ Old(now) <= t.since /\ Old(now) \in Nat
  <2>1. Old(now) = IF now >= Timeout THEN now - Timeout ELSE 0
    BY <1>4, OldIs
  <2> QED
    BY <1>4, <1>5, <1>7, <2>1
<1>10. cache' \in Small(Lasting)
  <2> DEFINE good == t.missed \ bad
             reads == Requests[c]
             facts == t.facts
  <2>1. cache \in Small(Lasting) /\ Lasting \subseteq Entry
    BY DEF Gathered, Lasting
  <2>2. ASSUME NEW r \in Reads, r \in t.missed
        PROVE  [read |-> r, fact |-> facts[r], fetched |-> now] \in Lasting
    <3> DEFINE fact == facts[r]
    <3>1. Live(r, t)
      BY <1>7, <2>2 DEF Reused
    <3>2. HeldAt(r, fact, t.since) /\ fact \in Times
      BY <1>5, <3>1 DEF Live
    <3> HIDE DEF fact
    <3>3. HeldAt(r, fact, Old(now))
      BY <1>3, <1>5, <1>9, <3>2, HeldBefore
    <3>4. [read |-> r, fact |-> fact, fetched |-> now] \in Lasting
      BY <1>4, <3>2, <3>3 DEF Lasting, Entry
    <3> QED
      BY <3>4 DEF fact
  <2>3. \A n \in 1..Len(reads) : reads[n] \in good =>
          [read |-> reads[n], fact |-> facts[reads[n]], fetched |-> now] \in Lasting
    BY <1>6, <2>2
  <2>4. reads \in Seq(Reads)
    BY <1>6
  <2>5. cache' = PutAll(cache, reads, facts, good)
    BY <1>2
  <2> HIDE DEF good, reads, facts
  <2> QED
    BY <2>1, <2>3, <2>4, <2>5, PutAllIs
<1> DEFINE stamp == Stamp(t)
<1>11. stamp = IF t.window < now THEN t.window ELSE now
  BY DEF Stamp
<1>12. made \in Record /\ Founded(i, c, made)
  <2>1. stamp \in Times /\ stamp \in Nat /\ stamp <= now /\ t.since <= stamp + Ttl
    BY <1>4, <1>5, <1>7, <1>11
  <2> HIDE DEF stamp
  <2>2. /\ made \in Record /\ made.stamp = stamp /\ made.since = t.since
        /\ made.facts = t.facts
    BY <1>5, <2>1 DEF Record, Status, stamp
  <2> HIDE DEF made
  <2>3. ASSUME NEW r \in Asks(c)
        PROVE  /\ HeldAt(r, t.facts[r], Old(stamp))
               /\ i \in Refreshing => HeldAt(r, t.facts[r], t.since)
    <3> DEFINE fact == t.facts[r]
    <3>1. r \in Reads
      BY <1>6
    <3>2. Old(stamp) \in Nat /\ Old(stamp) <= Old(now)
      BY <1>4, <2>1, OldGrows, OldIs
    <3>3. CASE Live(r, t)
      <4>1. HeldAt(r, fact, t.since)
        BY <3>3 DEF Live
      <4>2. Old(stamp) <= t.since
        BY <1>5, <1>9, <3>2
      <4> HIDE DEF fact
      <4>3. HeldAt(r, fact, Old(stamp))
        BY <1>3, <1>5, <3>1, <3>2, <4>1, <4>2, HeldBefore
      <4> QED
        BY <4>1, <4>3 DEF fact
    <3>4. CASE Reused(i, r, t)
      <4>1. /\ HeldAt(r, fact, Old(t.window)) /\ i \notin Refreshing
            /\ t.window <= now /\ t.window \in Nat
        BY <1>5, <3>4 DEF Reused
      <4>2. stamp = t.window
        BY <1>4, <1>11, <4>1 DEF stamp
      <4> QED
        BY <4>1, <4>2 DEF fact
    <3> QED
      BY <1>7, <3>3, <3>4
  <2> QED
    BY <1>7, <2>1, <2>2, <2>3, <1>4, <1>5 DEF Founded
<1> HIDE DEF made, stamp
<1>13. CASE bad = {}
  BY <1>1, <1>2, <1>8, <1>10, <1>12, <1>13, GatheredEnds
<1>14. CASE bad # {}
  <2> DEFINE e == Degraded("failed")
  <2>1. e \in Record /\ Founded(i, c, e)
    BY DegradedFounded DEF Status
  <2>2. Ends(i, c, e)
    BY <1>2, <1>14
  <2> HIDE DEF e
  <2> QED
    BY <1>1, <1>8, <1>10, <2>1, <2>2, GatheredEnds
<1> QED
  BY <1>13, <1>14

LEMMA GatheredChanges ==
  ASSUME Gathered, NEW x \in Reads, ClusterChanges(x)
  PROVE  Gathered'
<1>1. /\ changes' = [changes EXCEPT ![x] = @ \cup {now}]
      /\ UNCHANGED <<now, cache, round, started, pending, task, evidence, faults>>
  BY DEF ClusterChanges
<1>2. now \in Times /\ now \in Nat /\ changes \in [Reads -> SUBSET Times]
  BY Given DEF Gathered, TypeOK, Times
<1>3. /\ changes' \in [Reads -> SUBSET Times]
      /\ \A r \in Reads : changes'[r] = IF r = x THEN changes[r] \cup {now} ELSE changes[r]
  BY <1>1, <1>2
<1>4. Onward
  BY <1>1, <1>2, <1>3 DEF Onward
<1>5. ChangesArePast'
  BY <1>1, <1>2, <1>3 DEF Gathered, ChangesArePast
<1>6. TypeOK'
  BY <1>1, <1>3 DEF Gathered, TypeOK
<1>7. cache' \in Small(Lasting')
  <2>1. cache \in Small(Lasting)
    BY DEF Gathered
  <2>2. cache \in Small(Lasting')
    BY <1>4, <2>1, CacheStays
  <2> QED
    BY <1>1, <2>2
<1>8. ASSUME NEW i \in Investigations, NEW c \in Collectors
      PROVE  /\ task'[i][c] = task[i][c]
             /\ task[i][c].at = "running" => now' <= task[i][c].since + task[i][c].limit
             /\ evidence'[i][c] = evidence[i][c]
  BY <1>1 DEF Gathered, Working
<1> QED
  BY <1>4, <1>5, <1>6, <1>7, <1>8, GatheredKept

LEMMA GatheredTick ==
  ASSUME Gathered, Tick
  PROVE  Gathered'
<1>1. /\ now < MaxTime /\ now' = now + 1
      /\ UNCHANGED <<changes, cache, round, started, pending, task, evidence, faults>>
      /\ \A i \in Investigations : ~Due(i)
  BY DEF Tick
<1>2. /\ now \in Nat /\ MaxTime \in Nat /\ now \in Times
      /\ Times = 0..MaxTime
  BY Given DEF Gathered, TypeOK, Times
<1>3. now' \in Times /\ now' \in Nat /\ now <= now'
  BY <1>1, <1>2
<1>4. Onward
  BY <1>1, <1>2, <1>3 DEF Onward
<1>5. ChangesArePast'
  <2>1. \A r \in Reads : \A d \in changes[r] : d \in Nat
    BY <1>2 DEF Gathered, TypeOK
  <2> QED
    BY <1>1, <1>2, <2>1 DEF Gathered, ChangesArePast
<1>6. TypeOK'
  BY <1>1, <1>3 DEF Gathered, TypeOK
<1>7. cache' \in Small(Lasting')
  <2>1. cache \in Small(Lasting)
    BY DEF Gathered
  <2>2. cache \in Small(Lasting')
    BY <1>4, <2>1, CacheStays
  <2> QED
    BY <1>1, <2>2
<1>8. ASSUME NEW i \in Investigations, NEW c \in Collectors
      PROVE  /\ task'[i][c] = task[i][c]
             /\ task[i][c].at = "running" => now' <= task[i][c].since + task[i][c].limit
             /\ evidence'[i][c] = evidence[i][c]
  <2>1. ASSUME task[i][c].at = "running"
        PROVE  now' <= task[i][c].since + task[i][c].limit
    <3> DEFINE since == task[i][c].since
               limit == task[i][c].limit
    <3>1. task[i][c] \in Task
      BY DEF Gathered, TypeOK
    <3>2. since \in Nat /\ limit \in Nat
      BY <1>2, <3>1 DEF Task
    <3>3. c \in Running(i)
      BY <2>1 DEF Running
    <3>4. ~(now - since >= limit)
      BY <1>1, <3>3 DEF Due
    <3> HIDE DEF since, limit
    <3>5. now' <= since + limit
      BY <1>1, <1>2, <3>2, <3>4
    <3> QED
      BY <3>5 DEF since, limit
  <2> QED
    BY <1>1, <2>1
<1> QED
  BY <1>4, <1>5, <1>6, <1>7, <1>8, GatheredKept

LEMMA GatheredNext ==
  ASSUME Gathered, [Next]_vars
  PROVE  Gathered'
<1>1. CASE Tick
  BY <1>1, GatheredTick
<1>2. CASE \E r \in Reads : ClusterChanges(r)
  BY <1>2, GatheredChanges
<1>3. CASE \E i \in Investigations :
             Submit(i) \/ StartWave(i) \/ Plan(i) \/ Finish(i)
  BY <1>3, GatheredSubmit, GatheredStartWave, GatheredPlan, GatheredFinish
<1>4. CASE \E i \in Investigations, c \in Collectors :
             \/ Begin(i, c) \/ Collected(i, c)
             \/ TimesOut(i, c) \/ Raises(i, c)
  BY <1>4, GatheredBegin, GatheredCollected, GatheredTimesOut
<1>5. CASE \E i \in Investigations, c \in Collectors, r \in Reads :
             ClusterAnswers(i, c, r)
  BY <1>5, GatheredAnswers
<1>6. CASE UNCHANGED vars
  <2>1. UNCHANGED <<now, changes, cache, round, started, pending, task, evidence, faults>>
    BY <1>6 DEF vars
  <2>2. TypeOK'
    BY <2>1 DEF Gathered, TypeOK
  <2> QED
    BY <2>1, <2>2, GatheredSame DEF Gathered
<1> QED
  BY <1>1, <1>2, <1>3, <1>4, <1>5, <1>6 DEF Next

LEMMA GatheredIsFresh ==
  ASSUME Gathered
  PROVE  /\ NeverOlderThanItsStamp /\ ReusesWhatIsFresh
         /\ RefreshReadsLive /\ CacheInBounds /\ TypeOK
<1>1. \A i \in Investigations, c \in Collectors : Founded(i, c, evidence[i][c])
  BY DEF Gathered
<1>2. NeverOlderThanItsStamp
  BY <1>1 DEF Founded, NeverOlderThanItsStamp, Asks, Old
<1>3. ReusesWhatIsFresh
  <2>1. \A i \in Investigations, c \in Collectors :
          evidence[i][c].stamp \in Nat /\ evidence[i][c].since \in Nat /\ Ttl \in Nat
    <3>1. \A i \in Investigations, c \in Collectors : evidence[i][c] \in Record
      BY DEF Gathered, TypeOK
    <3> QED
      BY <3>1, Given DEF Record, Times
  <2> QED
    BY <1>1, <2>1 DEF Founded, ReusesWhatIsFresh
<1>4. RefreshReadsLive
  <2>1. Refreshing \subseteq Investigations
    BY CollectionAssumption
  <2> QED
    BY <1>1, <2>1 DEF Founded, RefreshReadsLive, Asks
<1>5. CacheInBounds
  BY DEF Gathered, Small, Books, Once, CacheInBounds
<1> QED
  BY <1>2, <1>3, <1>4, <1>5 DEF Gathered

-----------------------------------------------------------------------------
(* The order of an investigation: nothing at work waits for anything that  *)
(* is at work or to come, and what was set out to be collected and is      *)
(* neither of both has left its record.                                    *)
InOrder(i) ==
  /\ pending[i] \cap Active(i) = {}
  /\ \A c \in Active(i) :
       /\ WaitsOn(c) \cap (pending[i] \cup Active(i)) = {}
       /\ \A d \in Requires[c] : Usable(i, d)
  /\ round[i] # "submitted" =>
       \A d \in Baseline : \/ d \in pending[i] \cup Active(i)
                             \/ evidence[i][d].status # "missing"
  /\ round[i] = "submitted" => pending[i] = {} /\ Active(i) = {}
  /\ round[i] = "over" => pending[i] = {} /\ Active(i) = {}
  /\ round[i] = "baseline" => pending[i] \cup Active(i) \subseteq Baseline
  /\ round[i] = "targeted" => pending[i] \cup Active(i) \subseteq Targeted

(* Those of a wave that are no longer in the way of one that waits: they   *)
(* ended, or were admitted by a time.                                      *)
Through(i, wave, by) ==
  {d \in wave : \/ task[i][d].at = "none"
                \/ task[i][d].at = "running" /\ task[i][d].since <= by}

(* Who was not admitted within m timeouts of the start of its wave sees    *)
(* m + 1 batches of it through.                                            *)
Advances(i, start, limit, wave) ==
  \A m \in Nat : \A c \in Active(i) :
    now > start + m * limit /\ c \notin Through(i, wave, start + m * limit)
      => (m + 1) * Concurrency <= Cardinality(Through(i, wave, start + m * limit))

InWave(i, start, limit, wave) ==
  /\ start <= now /\ limit > 0 /\ limit <= Timeout /\ start + limit <= started[i] + Deadline
  /\ Active(i) \subseteq wave /\ wave \subseteq Collectors
  /\ \A c \in Active(i) : wave \subseteq Rivals(c) /\ task[i][c].limit = limit
  /\ Advances(i, start, limit, wave)

Waved(i) ==
  Active(i) # {} =>
    \E start \in Nat, limit \in Nat, wave \in SUBSET Collectors :
      InWave(i, start, limit, wave)

Paced(i) == InOrder(i) /\ Waved(i)

(* Nothing that counts for the pace of an investigation changes.           *)
Unmoved(i) ==
  /\ now' = now /\ pending'[i] = pending[i] /\ round'[i] = round[i]
  /\ started'[i] = started[i]
  /\ \A d \in Collectors :
       /\ task'[i][d].at = task[i][d].at /\ task'[i][d].since = task[i][d].since
       /\ task'[i][d].limit = task[i][d].limit
       /\ evidence'[i][d].status = evidence[i][d].status

LEMMA DivUp ==
  ASSUME NEW n \in Nat, NEW k \in Nat, k > 0
  PROVE  /\ (n + k - 1) \div k \in Nat /\ n <= ((n + k - 1) \div k) * k
         /\ n > 0 => (n + k - 1) \div k > 0
<1> DEFINE q == (n + k - 1) \div k
<1>1. n + k - 1 \in Nat
  OBVIOUS
<1>2. q \in Int /\ n + k - 1 = q * k + ((n + k - 1) % k) /\ (n + k - 1) % k \in 0..(k - 1)
  BY <1>1, Z3
<1> QED
  BY <1>2

LEMMA Products ==
  ASSUME NEW m \in Nat, NEW k \in Nat
  PROVE  m * k \in Nat /\ (m + 1) * k = m * k + k /\ (m > 0 => (m - 1) * k = m * k - k)
OBVIOUS

LEMMA Unmoving ==
  ASSUME NEW i \in Investigations, Unmoved(i), Paced(i)
  PROVE  Paced(i)'
<1>1. Active(i)' = Active(i)
  BY DEF Unmoved, Active
<1>2. InOrder(i)'
  <2>1. \A c \in Collectors : Requires[c] \subseteq Collectors
    BY CollectionAssumption DEF Collectors
  <2>2. Baseline \subseteq Collectors
    BY DEF Collectors
  <2>3. Active(i) \subseteq Collectors
    BY DEF Active
  <2> QED
    BY <1>1, <2>1, <2>2, <2>3 DEF Paced, InOrder, Unmoved, Usable
<1>3. Waved(i)'
  <2>1. CASE Active(i) = {}
    BY <1>1, <2>1 DEF Waved
  <2>2. CASE Active(i) # {}
    <3>1. PICK start \in Nat, limit \in Nat, wave \in SUBSET Collectors :
            InWave(i, start, limit, wave)
      BY <2>2 DEF Paced, Waved
    <3>2. \A by : Through(i, wave, by)' = Through(i, wave, by)
      BY <3>1 DEF InWave, Through, Unmoved
    <3>3. Advances(i, start, limit, wave)'
      BY <1>1, <3>1, <3>2 DEF InWave, Advances, Unmoved
    <3>4. Active(i) \subseteq Collectors
      BY DEF Active
    <3>5. InWave(i, start, limit, wave)'
      BY <1>1, <3>1, <3>3, <3>4 DEF InWave, Unmoved
    <3> QED
      BY <3>5 DEF Waved
  <2> QED
    BY <2>1, <2>2
<1> QED
  BY <1>2, <1>3 DEF Paced

LEMMA ThroughIs ==
  ASSUME NEW i, NEW wave, wave \subseteq Collectors, NEW by
  PROVE  /\ IsFiniteSet(Through(i, wave, by))
         /\ Cardinality(Through(i, wave, by)) \in Nat
<1>1. IsFiniteSet(Collectors)
  BY Given
<1>2. Through(i, wave, by) \subseteq Collectors
  BY DEF Through
<1>3. IsFiniteSet(Through(i, wave, by))
  BY <1>1, <1>2, FS_Subset
<1> QED
  BY <1>3, FS_CardinalityType

(* A task of the wave ends, with a record.                                 *)
EndedOne(i, c) ==
  /\ task[i][c].at = "running" /\ UNCHANGED <<now, round, started, pending>>
  /\ \A j \in Investigations, d \in Collectors :
       /\ task'[j][d] = IF j = i /\ d = c THEN NoTask ELSE task[j][d]
       /\ j # i \/ d # c => evidence'[j][d] = evidence[j][d]
  /\ evidence'[i][c].status # "missing"

LEMMA PacedEnds ==
  ASSUME NEW i \in Investigations, NEW c \in Collectors,
         Paced(i), EndedOne(i, c)
  PROVE  Paced(i)'
<1>1. NoTask.at = "none"
  BY Blanks
<1>2. /\ c \in Active(i)
      /\ Active(i)' = Active(i) \ {c}
      /\ Active(i) \subseteq Collectors
  BY <1>1 DEF EndedOne, Active
<1>3. pending'[i] = pending[i] /\ round'[i] = round[i] /\ started'[i] = started[i] /\ now' = now
  BY DEF EndedOne
<1>4. InOrder(i)'
  <2>1. InOrder(i)
    BY DEF Paced
  <2>2. ASSUME NEW b \in Active(i)'
        PROVE  /\ WaitsOn(b) \cap (pending[i] \cup Active(i))' = {}
               /\ \A d \in Requires[b] : Usable(i, d)'
    <3>1. /\ b \in Active(i)
          /\ WaitsOn(b) \cap (pending[i] \cup Active(i)) = {}
      BY <1>2, <2>1 DEF InOrder
    <3>2. Requires[b] \subseteq WaitsOn(b) /\ Requires[b] \subseteq Collectors
      BY <1>2, <3>1, CollectionAssumption DEF WaitsOn, Collectors
    <3>3. ASSUME NEW d \in Requires[b]
          PROVE  Usable(i, d)'
      <4>1. d # c /\ d \in Collectors /\ Usable(i, d)
        BY <1>2, <2>1, <3>1, <3>2 DEF InOrder
      <4> QED
        BY <4>1 DEF EndedOne, Usable
    <3> QED
      BY <1>2, <1>3, <3>1, <3>3
  <2>3. ASSUME round[i] # "submitted", NEW d \in Baseline
        PROVE  \/ d \in (pending[i] \cup Active(i))'
               \/ evidence'[i][d].status # "missing"
    <3>1. d \in Collectors
      BY DEF Collectors
    <3>2. CASE d = c
      BY <3>2 DEF EndedOne
    <3>3. CASE d # c
      <4>1. evidence'[i][d] = evidence[i][d]
        BY <3>1, <3>3 DEF EndedOne
      <4> QED
        BY <1>2, <1>3, <2>1, <2>3, <3>3, <4>1 DEF InOrder
    <3> QED
      BY <3>2, <3>3
  <2> QED
    BY <1>2, <1>3, <2>1, <2>2, <2>3 DEF InOrder
<1>5. Waved(i)'
  <2>1. PICK start \in Nat, limit \in Nat, wave \in SUBSET Collectors :
            InWave(i, start, limit, wave)
    BY <1>2 DEF Paced, Waved
  <2>2. wave \subseteq Collectors
    BY <2>1 DEF InWave
  <2>3. ASSUME NEW by
        PROVE  Through(i, wave, by) \subseteq Through(i, wave, by)'
    BY <1>1, <2>2 DEF Through, EndedOne
  <2>4. ASSUME NEW m \in Nat, NEW b \in Active(i)', now > start + m * limit,
               b \notin Through(i, wave, start + m * limit)'
        PROVE  (m + 1) * Concurrency <= Cardinality(Through(i, wave, start + m * limit)')
    <3> DEFINE by == start + m * limit
               old == Through(i, wave, by)
               new == Through(i, wave, by)'
    <3>1. old \subseteq new
      BY <2>3
    <3>2. b \in Active(i) /\ b \notin old
      BY <1>2, <2>4, <3>1
    <3>3. (m + 1) * Concurrency <= Cardinality(old)
      BY <2>1, <2>4, <3>2 DEF InWave, Advances
    <3>4. IsFiniteSet(new) /\ Cardinality(old) \in Nat
      <4>1. IsFiniteSet(Collectors)
        BY Given
      <4>2. new \subseteq Collectors
        BY <2>2 DEF Through
      <4> HIDE DEF new
      <4>3. IsFiniteSet(new)
        BY <4>1, <4>2, FS_Subset
      <4> QED
        BY <2>2, <4>3, ThroughIs
    <3> HIDE DEF old, new
    <3>5. Cardinality(old) <= Cardinality(new) /\ Cardinality(new) \in Nat
      BY <3>1, <3>4, FS_Subset, FS_CardinalityType
    <3>6. (m + 1) * Concurrency \in Nat
      BY Given
    <3> HIDE DEF by
    <3>7. (m + 1) * Concurrency <= Cardinality(new)
      BY <3>3, <3>4, <3>5, <3>6
    <3> QED
      BY <3>7 DEF new, by
  <2>5. Advances(i, start, limit, wave)'
    BY <1>3, <2>4 DEF Advances
  <2>6. \A b \in Active(i)' : task'[i][b].limit = task[i][b].limit
    BY <1>2 DEF EndedOne
  <2>7. InWave(i, start, limit, wave)'
    BY <1>2, <1>3, <2>1, <2>5, <2>6 DEF InWave
  <2> QED
    BY <2>7 DEF Waved
<1> QED
  BY <1>4, <1>5 DEF Paced

(* A task of the wave gets its place.                                      *)
BegunOne(i, c) ==
  /\ task[i][c].at = "queued" /\ UNCHANGED <<now, round, started, pending, evidence>>
  /\ task'[i][c].at = "running" /\ task'[i][c].since = now
  /\ task'[i][c].limit = task[i][c].limit
  /\ \A j \in Investigations, d \in Collectors :
       j # i \/ d # c => task'[j][d] = task[j][d]

LEMMA PacedBegins ==
  ASSUME TypeOK,
         NEW i \in Investigations, NEW c \in Collectors,
         Paced(i), BegunOne(i, c)
  PROVE  Paced(i)'
<1>1. /\ Active(i)' = Active(i) /\ c \in Active(i)
      /\ Active(i) \subseteq Collectors
  BY DEF BegunOne, Active
<1>2. /\ pending'[i] = pending[i] /\ round'[i] = round[i] /\ started'[i] = started[i]
      /\ now' = now /\ evidence' = evidence
  BY DEF BegunOne
<1>3. InOrder(i)'
  BY <1>1, <1>2 DEF Paced, InOrder, Usable
<1>4. PICK start \in Nat, limit \in Nat, wave \in SUBSET Collectors :
        InWave(i, start, limit, wave)
  BY <1>1 DEF Paced, Waved
<1>5. now \in Nat
  BY Given DEF TypeOK, Times
<1>6. ASSUME NEW by \in Nat, now > by
      PROVE  Through(i, wave, by)' = Through(i, wave, by)
  <2>1. ~(task'[i][c].since <= by)
    BY <1>5, <1>6 DEF BegunOne
  <2> QED
    BY <2>1 DEF Through, BegunOne
<1>7. Advances(i, start, limit, wave)'
  <2>1. ASSUME NEW m \in Nat, NEW b \in Active(i)', now > start + m * limit,
               b \notin Through(i, wave, start + m * limit)'
        PROVE  (m + 1) * Concurrency <= Cardinality(Through(i, wave, start + m * limit)')
    <3>1. m * limit \in Nat
      BY <1>4, Products
    <3>2. \A x, y \in Nat : x + y \in Nat
      OBVIOUS
    <3>3. start + m * limit \in Nat
      BY <3>1, <3>2, Zenon
    <3>4. Through(i, wave, start + m * limit)' = Through(i, wave, start + m * limit)
      BY <1>6, <2>1, <3>3
    <3> QED
      BY <1>1, <1>4, <2>1, <3>4 DEF InWave, Advances
  <2> QED
    BY <1>2, <2>1 DEF Advances
<1>8. \A b \in Active(i) : task'[i][b].limit = task[i][b].limit
  BY <1>1 DEF BegunOne
<1>9. InWave(i, start, limit, wave)'
  BY <1>1, <1>2, <1>4, <1>7, <1>8 DEF InWave
<1> QED
  BY <1>3, <1>9 DEF Paced, Waved

LEMMA PacedStartsWave ==
  ASSUME TypeOK, NEW i \in Investigations,
         Paced(i), StartWave(i)
  PROVE  Paced(i)'
<1> DEFINE wave == Wave(i)
           runs == Runs(i)
           limit == TimeoutForNext(i)
<1>1. pending[i] # {} /\ Active(i) = {}
  BY DEF StartWave
<1>2. /\ UNCHANGED <<now, changes, cache, round, started, faults>>
      /\ pending' = [pending EXCEPT ![i] = pending[i] \ wave]
      /\ \A c \in Collectors :
           task'[i][c] = IF c \in runs /\ limit > 0 THEN Queued(i) ELSE task[i][c]
      /\ \A c \in Collectors :
           c \notin wave => evidence'[i][c] = evidence[i][c]
      /\ \A c \in wave : c \in Collectors =>
           \/ c \in runs /\ limit # 0
           \/ evidence'[i][c] = Degraded("not_applicable")
           \/ evidence'[i][c] = Degraded("timeout")
  <2>1. /\ UNCHANGED <<now, changes, cache, round, started, faults>>
        /\ pending' = [pending EXCEPT ![i] = pending[i] \ wave]
    BY WaveMakes
  <2>2. \A c \in Collectors :
          /\ task'[i][c] = IF c \in runs /\ limit > 0 THEN Queued(i) ELSE task[i][c]
          /\ evidence'[i][c] =
               IF c \in wave \ runs THEN Degraded("not_applicable")
               ELSE IF c \in runs /\ limit = 0 THEN Degraded("timeout")
               ELSE evidence[i][c]
    BY WaveMakes
  <2>3. runs \subseteq wave
    BY DEF Runs
  <2> HIDE DEF wave, runs, limit
  <2> QED
    BY <2>1, <2>2, <2>3
<1>3. /\ limit \in Nat /\ limit <= Timeout
      /\ limit > 0 => now + limit <= started[i] + Deadline
  BY TimeoutIs
<1>4. /\ wave \subseteq pending[i] /\ \A c \in wave : WaitsOn(c) \cap pending[i] = {}
  BY DEF Wave, WaitsOn
<1>5. runs \subseteq wave /\ \A c \in runs : \A d \in Requires[c] : Usable(i, d)
  BY DEF Runs, ShouldRun
<1>6. /\ Queued(i).at = "queued" /\ Queued(i).limit = limit
  BY DEF Queued, NoTask
<1>7. /\ pending[i] \subseteq Collectors /\ pending \in [Investigations -> SUBSET Collectors]
      /\ now \in Nat /\ round[i] \in {"submitted", "baseline", "targeted", "over"}
  BY Given DEF TypeOK, Times
<1>8. /\ Degraded("not_applicable").status # "missing"
      /\ Degraded("timeout").status # "missing"
  <2>1. now \in Times
    BY DEF TypeOK
  <2> QED
    BY <2>1, DegradedIs DEF Status
<1> HIDE DEF wave, runs, limit
<1>9. /\ pending'[i] = pending[i] \ wave /\ round'[i] = round[i] /\ started'[i] = started[i]
      /\ now' = now
  BY <1>2, <1>7
<1>10. Active(i)' = {c \in runs : limit > 0}
  <2>1. \A c \in Collectors : task[i][c].at = "none"
    BY <1>1 DEF Active
  <2>2. runs \subseteq Collectors
    BY <1>4, <1>5, <1>7
  <2>3. \A c \in Collectors : task'[i][c].at # "none" <=> c \in runs /\ limit > 0
    BY <1>2, <1>6, <2>1
  <2> QED
    BY <2>2, <2>3 DEF Active
<1>11. InOrder(i)
  BY DEF Paced
<1>12. /\ Baseline \subseteq Collectors /\ Baseline \cap Targeted = {}
       /\ \A c \in Collectors : Requires[c] \subseteq Baseline
  BY CollectionAssumption DEF Collectors
<1>13. /\ Active(i)' \subseteq runs /\ Active(i)' \subseteq wave
       /\ Active(i)' \subseteq pending[i] /\ wave \subseteq Collectors
       /\ (Active(i)' # {} => limit > 0)
  BY <1>4, <1>5, <1>7, <1>10
<1>14. \/ round[i] = "baseline" /\ pending[i] \subseteq Baseline
       \/ round[i] = "targeted" /\ pending[i] \subseteq Targeted
  BY <1>1, <1>7, <1>11 DEF InOrder
<1>15. InOrder(i)'
  <2>1. ASSUME NEW c \in Active(i)'
        PROVE  /\ WaitsOn(c) \cap (pending[i] \cup Active(i))' = {}
               /\ \A d \in Requires[c] : Usable(i, d)'
    <3>1. c \in wave /\ c \in runs /\ WaitsOn(c) \cap pending[i] = {}
      BY <1>4, <1>13
    <3>2. ASSUME NEW d \in Requires[c]
          PROVE  Usable(i, d)'
      <4>1. d \in WaitsOn(c) /\ d \in Collectors
        BY <1>12, <1>13, <3>1 DEF WaitsOn
      <4>2. d \notin wave /\ Usable(i, d)
        BY <1>4, <1>5, <3>1, <4>1
      <4> QED
        BY <1>2, <4>1, <4>2 DEF Usable
    <3> QED
      BY <1>9, <1>13, <3>1, <3>2
  <2>2. ASSUME NEW d \in Baseline
        PROVE  \/ d \in (pending[i] \cup Active(i))'
               \/ evidence'[i][d].status # "missing"
    <3>1. d \in Collectors
      BY <1>12
    <3>2. CASE d \in wave
      BY <1>2, <1>3, <1>8, <1>10, <3>1, <3>2
    <3>3. CASE d \notin wave
      <4>1. d \in pending[i] \/ evidence[i][d].status # "missing"
        BY <1>1, <1>11, <1>14 DEF InOrder
      <4> QED
        BY <1>2, <1>9, <3>1, <3>3, <4>1
    <3> QED
      BY <3>2, <3>3
  <2>3. (pending[i] \cap Active(i))' = {}
    BY <1>9, <1>13
  <2>4. (pending[i] \cup Active(i))' \subseteq pending[i]
    BY <1>9, <1>13
  <2> QED
    BY <1>9, <1>14, <2>1, <2>2, <2>3, <2>4 DEF InOrder
<1>16. PICK start \in Nat, span \in Nat, batch \in SUBSET Collectors :
         start = now /\ span = limit /\ batch = wave
  BY <1>3, <1>7, <1>13
<1>17. ASSUME Active(i)' # {}
       PROVE  InWave(i, start, span, batch)'
  <2>1. ASSUME NEW c \in Active(i)'
        PROVE  batch \subseteq Rivals(c) /\ task'[i][c].limit = span
    <3>1. c \in wave /\ c \in runs /\ limit > 0 /\ c \in Collectors
      BY <1>13, <2>1
    <3>2. task'[i][c].limit = limit
      BY <1>2, <1>6, <3>1
    <3>3. wave \subseteq IF c \in Baseline THEN Baseline ELSE Targeted
      BY <1>4, <1>12, <1>14, <3>1
    <3>4. \A d \in wave : d \notin WaitsOn(c) /\ c \notin WaitsOn(d)
      BY <1>4, <3>1
    <3> QED
      BY <1>16, <3>2, <3>3, <3>4 DEF Rivals
  <2>2. ASSUME NEW m \in Nat
        PROVE  ~(now' > start + m * span)
    <3>1. m * span \in Nat
      BY Products
    <3> QED
      BY <1>9, <1>16, <3>1
  <2>3. Advances(i, start, span, batch)'
    BY <2>2 DEF Advances
  <2>4. start <= now' /\ span > 0 /\ span <= Timeout /\ start + span <= started'[i] + Deadline
    BY <1>3, <1>9, <1>13, <1>16, <1>17
  <2>5. Active(i)' \subseteq batch /\ batch \subseteq Collectors
    BY <1>13, <1>16
  <2> QED
    BY <2>1, <2>3, <2>4, <2>5 DEF InWave
<1>18. Waved(i)'
  BY <1>17 DEF Waved
<1> QED
  BY <1>15, <1>18 DEF Paced

(* Time passes only when nobody could be admitted, and nobody is due.      *)
LEMMA PacedTicks ==
  ASSUME Gathered, NEW i \in Investigations,
         Paced(i), Tick
  PROVE  Paced(i)'
<1>1. /\ now' = now + 1 /\ ~Due(i) /\ now \in Nat
      /\ UNCHANGED <<changes, cache, round, started, pending, task, evidence, faults>>
  BY Given DEF Tick, Gathered, TypeOK, Times
<1>2. Active(i)' = Active(i) /\ Active(i) \subseteq Collectors
  BY <1>1 DEF Active
<1>3. InOrder(i)'
  BY <1>1, <1>2 DEF Paced, InOrder, Usable
<1>4. ASSUME Active(i) # {}
      PROVE  \E start \in Nat, limit \in Nat, wave \in SUBSET Collectors :
               InWave(i, start, limit, wave)'
  <2>1. PICK start \in Nat, limit \in Nat, wave \in SUBSET Collectors :
          InWave(i, start, limit, wave)
    BY <1>4 DEF Paced, Waved
  <2>2. limit > 0 /\ start <= now /\ Concurrency \in Nat
    BY <2>1, Given DEF InWave
  <2>3. \A by : Through(i, wave, by)' = Through(i, wave, by)
    BY <1>1 DEF Through
  <2>4. \A c \in Active(i) :
          /\ task[i][c].at = "running" => /\ task[i][c].since <= now
                                          /\ task[i][c].since > now - limit
          /\ task[i][c].since \in Nat
    <3> SUFFICES ASSUME NEW c \in Active(i)
                 PROVE  /\ task[i][c].at = "running" => /\ task[i][c].since <= now
                                                        /\ task[i][c].since > now - limit
                        /\ task[i][c].since \in Nat
      OBVIOUS
    <3>1. /\ c \in Collectors /\ Working(i, c, task[i][c]) /\ task[i][c].limit = limit
          /\ task[i][c] \in Task
      BY <1>2, <2>1 DEF Gathered, TypeOK, InWave
    <3>2. task[i][c].since \in Nat
      BY <3>1, Given DEF Task, Times
    <3>3. ASSUME task[i][c].at = "running"
          PROVE  task[i][c].since > now - limit
      <4>1. ~(now - task[i][c].since >= limit)
        BY <1>1, <3>1, <3>3 DEF Due, Running
      <4> QED
        BY <1>1, <3>2, <4>1
    <3> QED
      BY <3>1, <3>2, <3>3 DEF Working
  <2>5. ASSUME NEW m \in Nat, NEW c \in Active(i), now + 1 > start + m * limit,
               c \notin Through(i, wave, start + m * limit)
        PROVE  (m + 1) * Concurrency <= Cardinality(Through(i, wave, start + m * limit))
    <3> DEFINE span == m * limit
               by == start + span
               new == Through(i, wave, by)
    <3>1. /\ span \in Nat /\ m * Concurrency \in Nat
          /\ (m + 1) * Concurrency = m * Concurrency + Concurrency
          /\ m > 0 => (m - 1) * limit = span - limit
      BY <2>2, Products
    <3>2. (m > 0 => m - 1 \in Nat /\ (m - 1) + 1 = m)
      OBVIOUS
    <3>3. CASE now > by
      BY <2>1, <2>5, <3>3 DEF InWave, Advances
    <3>4. CASE ~(now > by)
      <4> HIDE DEF span
      <4>1. now = by
        BY <1>1, <2>5, <3>1, <3>4 DEF span
      <4>2. c \in wave /\ c \in Collectors
        BY <1>2, <2>1 DEF InWave
      <4>3. task[i][c].at = "queued"
        <5>1. task[i][c].at # "none" /\ task[i][c] \in Task
          BY <4>2 DEF Active, Gathered, TypeOK
        <5>2. task[i][c].at # "running"
          BY <2>4, <2>5, <4>1, <4>2 DEF Through, span
        <5> QED
          BY <5>1, <5>2 DEF Task
      <4> DEFINE at == Running(i)
      <4>4. /\ at \subseteq Active(i) /\ at \subseteq wave /\ c \notin at
            /\ \A d \in at : task[i][d].at = "running"
        <5>1. at \subseteq Active(i) /\ \A d \in at : task[i][d].at = "running"
          BY DEF Running, Active
        <5> QED
          BY <2>1, <4>3, <5>1 DEF InWave
      <4>5. IsFiniteSet(at) /\ Cardinality(at) \in Nat
        <5>1. IsFiniteSet(Collectors) /\ at \subseteq Collectors
          BY <1>2, <4>4, Given
        <5> HIDE DEF at
        <5> QED
          BY <5>1, FS_Subset, FS_CardinalityType
      <4>6. Cardinality(at) >= Concurrency
        <5>1. ~(Cardinality(at) < Concurrency)
          BY <1>1, <4>4 DEF Due
        <5>2. Cardinality(at) = Cardinality(at)
          OBVIOUS
        <5> HIDE DEF at
        <5> QED
          BY <2>2, <4>5, <5>1, <5>2
      <4>7. at \subseteq new
        BY <2>4, <4>1, <4>4 DEF Through
      <4>8. IsFiniteSet(new) /\ Cardinality(new) \in Nat
        BY ThroughIs
      <4> HIDE DEF at, new
      <4>9. CASE m = 0
        <5>1. Cardinality(at) <= Cardinality(new)
          BY <4>7, <4>8, FS_Subset
        <5>2. (m + 1) * Concurrency = Concurrency
          BY <2>2, <4>9
        <5>3. Concurrency <= Cardinality(new)
          BY <2>2, <4>5, <4>6, <4>8, <5>1
        <5> QED
          BY <5>2, <5>3 DEF new, by, span
      <4>10. CASE m > 0
        <5> DEFINE before == start + (m - 1) * limit
                   old == Through(i, wave, before)
        <5>1. before = now - limit /\ before < now /\ before <= by /\ before \in Int
          BY <1>1, <2>1, <2>2, <3>1, <4>1, <4>10
        <5> HIDE DEF before
        <5>2. c \notin old
          BY <4>2, <4>3 DEF Through
        <5>3. m * Concurrency <= Cardinality(old)
          <6>1. m - 1 \in Nat /\ now > start + (m - 1) * limit
            BY <3>2, <4>10, <5>1, <1>1 DEF before
          <6>2. c \notin Through(i, wave, start + (m - 1) * limit)
            BY <5>2 DEF before
          <6>3. ((m - 1) + 1) * Concurrency <= Cardinality(Through(i, wave, start + (m - 1) * limit))
            BY <2>1, <6>1, <6>2 DEF InWave, Advances
          <6>4. (m - 1) + 1 = m
            BY <3>2, <4>10
          <6> QED
            BY <6>3, <6>4 DEF before
        <5>4. IsFiniteSet(old) /\ Cardinality(old) \in Nat
          BY ThroughIs
        <5>5. old \cap at = {}
          BY <2>4, <4>4, <5>1, <1>1, <2>2 DEF Through
        <5>6. old \subseteq new
          <6>1. ASSUME NEW d \in old
                PROVE  d \in new
            <7>1. d \in wave /\ (task[i][d].at = "none" \/
                     (task[i][d].at = "running" /\ task[i][d].since <= before))
              BY <6>1 DEF Through
            <7>2. CASE task[i][d].at = "none"
              BY <7>1, <7>2 DEF Through, new
            <7>3. CASE task[i][d].at = "running"
              <8>1. d \in Active(i)
                BY <7>1, <7>3 DEF Active
              <8>2. task[i][d].since <= by
                BY <2>4, <4>1, <7>3, <8>1
              <8> QED
                BY <7>1, <7>3, <8>2 DEF Through, new
            <7> QED
              BY <7>1, <7>2, <7>3
          <6> QED
            BY <6>1
        <5> HIDE DEF old
        <5>7. /\ IsFiniteSet(old \cup at)
              /\ Cardinality(old \cup at) = Cardinality(old) + Cardinality(at)
          <6>1. Cardinality(old \cup at) = Cardinality(old) + Cardinality(at) - Cardinality(old \cap at)
            BY <4>5, <5>4, FS_Union
          <6>2. Cardinality(old \cap at) = 0
            BY <5>5, FS_EmptySet
          <6>3. IsFiniteSet(old \cup at)
            BY <4>5, <5>4, FS_Union
          <6> QED
            BY <4>5, <5>4, <6>1, <6>2, <6>3
        <5>8. Cardinality(old \cup at) <= Cardinality(new)
          BY <4>7, <4>8, <5>6, FS_Subset
        <5>9. m * Concurrency + Concurrency <= Cardinality(new)
          BY <2>2, <3>1, <4>5, <4>6, <4>8, <5>3, <5>4, <5>7, <5>8
        <5> QED
          BY <3>1, <5>9 DEF new, by, span
      <4> QED
        BY <4>9, <4>10
    <3> QED
      BY <3>3, <3>4
  <2>6. Advances(i, start, limit, wave)'
    BY <1>1, <1>2, <2>3, <2>5 DEF Advances
  <2>7. start <= now'
    BY <1>1, <2>2
  <2>8. InWave(i, start, limit, wave)'
    BY <1>1, <1>2, <2>1, <2>6, <2>7 DEF InWave
  <2> QED
    BY <2>1, <2>8
<1>5. Waved(i)'
  BY <1>2, <1>4 DEF Waved
<1> QED
  BY <1>3, <1>5 DEF Paced

LEMMA BeginsOne ==
  ASSUME Gathered, NEW i \in Investigations, NEW c \in Collectors, Begin(i, c)
  PROVE  BegunOne(i, c)
<1> DEFINE t == task[i][c]
<1>1. PICK win, missed, facts :
        task' = [task EXCEPT ![i][c] =
          [t EXCEPT !.at = "running", !.since = now, !.window = win, !.missed = missed,
                    !.asked = missed, !.facts = facts]]
  BY Zenon DEF Begin, Lookup
<1>2. t \in Task /\ task \in [Investigations -> [Collectors -> Task]]
  BY DEF Gathered, TypeOK
<1> DEFINE u == [t EXCEPT !.at = "running", !.since = now, !.window = win, !.missed = missed,
                          !.asked = missed, !.facts = facts]
<1>3. u.at = "running" /\ u.since = now /\ u.limit = t.limit
  BY <1>2 DEF Task
<1>4. task' = [task EXCEPT ![i][c] = u]
  BY <1>1
<1> HIDE DEF u
<1>5. \A j \in Investigations, d \in Collectors :
        task'[j][d] = IF j = i /\ d = c THEN u ELSE task[j][d]
  BY <1>2, <1>4
<1>6. t.at = "queued" /\ UNCHANGED <<now, round, started, pending, evidence>>
  BY DEF Begin
<1> QED
  BY <1>3, <1>5, <1>6 DEF BegunOne

LEMMA EndsOne ==
  ASSUME Gathered,
         NEW i \in Investigations, NEW c \in Collectors,
         Collected(i, c) \/ TimesOut(i, c) \/ Raises(i, c)
  PROVE  EndedOne(i, c)
<1>1. /\ Degraded("failed").status # "missing"
      /\ Degraded("timeout").status # "missing"
  <2>1. now \in Times
    BY DEF Gathered, TypeOK
  <2> QED
    BY <2>1, DegradedIs DEF Status
<1>2. \E e : e.status # "missing" /\ Ends(i, c, e)
  <2>1. CASE Collected(i, c)
    <3> DEFINE made == [status |-> "ok", stamp |-> Stamp(task[i][c]),
                        since |-> task[i][c].since, facts |-> task[i][c].facts]
    <3>1. PICK bad : Ends(i, c, IF bad # {} THEN Degraded("failed") ELSE made)
      BY <2>1, Zenon DEF Collected
    <3>2. made.status # "missing"
      OBVIOUS
    <3> HIDE DEF made
    <3> QED
      BY <1>1, <3>1, <3>2
  <2>2. CASE TimesOut(i, c) \/ Raises(i, c)
    BY <1>1, <2>2 DEF TimesOut, Raises
  <2> QED
    BY <2>1, <2>2
<1>3. PICK e : e.status # "missing" /\ Ends(i, c, e)
  BY <1>2
<1>4. /\ task' = [task EXCEPT ![i][c] = NoTask]
      /\ evidence' = [evidence EXCEPT ![i][c] = e]
  BY <1>3 DEF Ends
<1>5. /\ task \in [Investigations -> [Collectors -> Task]]
      /\ evidence \in [Investigations -> [Collectors -> Record]]
  BY DEF Gathered, TypeOK
<1>6. /\ \A j \in Investigations, d \in Collectors :
           task'[j][d] = IF j = i /\ d = c THEN NoTask ELSE task[j][d]
      /\ \A j \in Investigations, d \in Collectors :
           evidence'[j][d] = IF j = i /\ d = c THEN e ELSE evidence[j][d]
  BY <1>4, <1>5
<1>7. task[i][c].at = "running" /\ UNCHANGED <<now, round, started, pending>>
  BY DEF Collected, TimesOut, Raises
<1> QED
  BY <1>3, <1>6, <1>7 DEF EndedOne

LEMMA PacedRounds ==
  ASSUME TypeOK, NEW i \in Investigations, Paced(i),
         Submit(i) \/ Plan(i) \/ Finish(i)
  PROVE  Paced(i)'
<1>1. UNCHANGED <<now, task, evidence>>
  BY DEF Submit, Plan, Finish
<1>2. Active(i)' = Active(i)
  BY <1>1 DEF Active
<1>3. /\ round \in [Investigations -> {"submitted", "baseline", "targeted", "over"}]
      /\ pending \in [Investigations -> SUBSET Collectors]
  BY DEF TypeOK
<1>4. Active(i) = {} /\ pending[i] = {}
  BY DEF Paced, InOrder, Submit, Plan, Finish, WavesOver
<1>5. CASE Submit(i)
  BY <1>2, <1>3, <1>4, <1>5 DEF Paced, InOrder, Waved, Submit
<1>6. \A d \in Baseline : round[i] # "submitted" => evidence[i][d].status # "missing"
  BY <1>4 DEF Paced, InOrder
<1>7. CASE Plan(i)
  <2>1. PICK planned \in SUBSET Targeted :
          \/ round' = [round EXCEPT ![i] = "over"] /\ UNCHANGED pending
          \/ /\ round' = [round EXCEPT ![i] = "targeted"]
             /\ pending' = [pending EXCEPT ![i] = planned]
    BY <1>7, Zenon DEF Plan
  <2>2. round[i] # "submitted"
    BY <1>7 DEF Plan
  <2>3. \/ round'[i] = "over" /\ pending'[i] = {}
        \/ round'[i] = "targeted" /\ pending'[i] = planned
    BY <1>3, <1>4, <2>1
  <2> QED
    BY <1>1, <1>2, <1>4, <1>6, <2>2, <2>3 DEF Paced, InOrder, Waved
<1>8. CASE Finish(i)
  <2>1. round'[i] = "over" /\ pending'[i] = {} /\ round[i] # "submitted"
    BY <1>3, <1>4, <1>8 DEF Finish
  <2> QED
    BY <1>1, <1>2, <1>4, <1>6, <2>1 DEF Paced, InOrder, Waved
<1> QED
  BY <1>5, <1>7, <1>8

LEMMA PacedNext ==
  ASSUME Gathered, \A i \in Investigations : Paced(i),
         [Next]_vars
  PROVE  \A i \in Investigations : Paced(i)'
<1> SUFFICES ASSUME NEW j \in Investigations
             PROVE  Paced(j)'
  OBVIOUS
<1>1. TypeOK /\ Paced(j)
  BY DEF Gathered
<1>2. /\ task \in [Investigations -> [Collectors -> Task]]
      /\ round \in [Investigations -> {"submitted", "baseline", "targeted", "over"}]
      /\ pending \in [Investigations -> SUBSET Collectors]
      /\ started \in [Investigations -> Times]
  BY <1>1 DEF TypeOK
<1>3. CASE Tick
  BY <1>1, <1>3, PacedTicks
<1>4. CASE (\E r \in Reads : ClusterChanges(r)) \/ UNCHANGED vars
  <2>1. UNCHANGED <<now, round, started, pending, task, evidence>>
    BY <1>4 DEF ClusterChanges, vars
  <2> QED
    BY <1>1, <2>1, Unmoving DEF Unmoved
<1>5. ASSUME NEW i \in Investigations, Submit(i) \/ Plan(i) \/ Finish(i)
      PROVE  Paced(j)'
  <2>1. CASE i = j
    BY <1>1, <1>5, <2>1, PacedRounds
  <2>2. CASE i # j
    <3>1. UNCHANGED <<now, task, evidence>>
      BY <1>5 DEF Submit, Plan, Finish
    <3>2. round'[j] = round[j] /\ pending'[j] = pending[j] /\ started'[j] = started[j]
      BY <1>2, <1>5, <2>2 DEF Submit, Plan, Finish
    <3> QED
      BY <1>1, <3>1, <3>2, Unmoving DEF Unmoved
  <2> QED
    BY <2>1, <2>2
<1>6. ASSUME NEW i \in Investigations, StartWave(i)
      PROVE  Paced(j)'
  <2>1. CASE i = j
    BY <1>1, <1>6, <2>1, PacedStartsWave
  <2>2. CASE i # j
    <3>1. UNCHANGED <<now, round, started>> /\ pending' = [pending EXCEPT ![i] = pending[i] \ Wave(i)]
      BY <1>1, <1>6, WaveMakes
    <3>2. \A c \in Collectors : task'[j][c] = task[j][c] /\ evidence'[j][c] = evidence[j][c]
      <4>1. \A c \in Collectors :
              /\ task'[j][c] = IF j = i /\ c \in Runs(i) /\ TimeoutForNext(i) > 0
                               THEN Queued(i) ELSE task[j][c]
              /\ evidence'[j][c] =
                   IF j = i /\ c \in Wave(i) \ Runs(i)
                   THEN Degraded("not_applicable")
                   ELSE IF j = i /\ c \in Runs(i) /\ TimeoutForNext(i) = 0
                   THEN Degraded("timeout") ELSE evidence[j][c]
        BY <1>1, <1>6, WaveMakes
      <4> QED
        BY <2>2, <4>1
    <3>3. pending'[j] = pending[j]
      BY <1>2, <2>2, <3>1
    <3> QED
      BY <1>1, <3>1, <3>2, <3>3, Unmoving DEF Unmoved
  <2> QED
    BY <2>1, <2>2
<1>7. ASSUME NEW i \in Investigations, NEW c \in Collectors, Begin(i, c)
      PROVE  Paced(j)'
  <2>1. BegunOne(i, c)
    BY <1>7, BeginsOne
  <2>2. CASE i = j
    BY <1>1, <2>1, <2>2, PacedBegins
  <2>3. CASE i # j
    <3>1. Unmoved(j)
      BY <2>1, <2>3 DEF BegunOne, Unmoved
    <3> QED
      BY <1>1, <3>1, Unmoving
  <2> QED
    BY <2>2, <2>3
<1>8. ASSUME NEW i \in Investigations, NEW c \in Collectors,
             Collected(i, c) \/ TimesOut(i, c) \/ Raises(i, c)
      PROVE  Paced(j)'
  <2>1. EndedOne(i, c)
    BY <1>8, EndsOne
  <2>2. CASE i = j
    BY <1>1, <2>1, <2>2, PacedEnds
  <2>3. CASE i # j
    <3>1. Unmoved(j)
      BY <2>1, <2>3 DEF EndedOne, Unmoved
    <3> QED
      BY <1>1, <3>1, Unmoving
  <2> QED
    BY <2>2, <2>3
<1>9. ASSUME NEW i \in Investigations, NEW c \in Collectors, NEW r \in Reads,
             ClusterAnswers(i, c, r)
      PROVE  Paced(j)'
  <2> DEFINE t == task[i][c]
             u == [t EXCEPT !.asked = @ \ {r}, !.facts[r] = Fact(r)]
  <2>1. /\ task' = [task EXCEPT ![i][c] = u]
        /\ UNCHANGED <<now, round, started, pending, evidence>>
    BY <1>9 DEF ClusterAnswers
  <2>2. u.at = t.at /\ u.since = t.since /\ u.limit = t.limit
    BY <1>2 DEF Task
  <2> HIDE DEF u
  <2>3. \A d \in Collectors :
          task'[j][d] = IF j = i /\ d = c THEN u ELSE task[j][d]
    BY <1>2, <2>1
  <2>4. Unmoved(j)
    BY <2>1, <2>2, <2>3 DEF Unmoved
  <2> QED
    BY <1>1, <2>4, Unmoving
<1> QED
  BY <1>3, <1>4, <1>5, <1>6, <1>7, <1>8, <1>9 DEF Next

LEMMA PacedStart ==
  ASSUME Init, NEW i \in Investigations
  PROVE  Paced(i)
<1>1. NoTask.at = "none"
  BY Blanks
<1>2. Active(i) = {}
  BY <1>1 DEF Init, Active
<1>3. round[i] = "submitted" /\ pending[i] = {}
  BY DEF Init
<1> QED
  BY <1>2, <1>3 DEF Paced, InOrder, Waved

LEMMA PacedIsRight ==
  ASSUME Gathered, \A i \in Investigations : Paced(i)
  PROVE  RunsOnItsEvidence /\ OverrunIsBounded
<1>1. ASSUME NEW i \in Investigations, NEW c \in Collectors, task[i][c].at # "none"
      PROVE  /\ \A d \in Requires[c] : Usable(i, d)
             /\ \A d \in Optional[c] : evidence[i][d].status # "missing"
  <2>1. c \in Active(i) /\ InOrder(i)
    BY <1>1 DEF Active, Paced
  <2>2. Optional[c] \subseteq Baseline /\ Optional[c] \subseteq WaitsOn(c)
    BY CollectionAssumption DEF WaitsOn
  <2> QED
    BY <2>1, <2>2 DEF InOrder
<1>2. ASSUME NEW i \in Investigations, NEW c \in Collectors, task[i][c].at # "none"
      PROVE  now <= started[i] + Deadline + Timeout * (Batches(c) - 1)
  <2>1. c \in Active(i)
    BY <1>2 DEF Active
  <2>2. PICK start \in Nat, limit \in Nat, wave \in SUBSET Collectors :
          InWave(i, start, limit, wave)
    BY <2>1 DEF Paced, Waved
  <2>3. /\ Working(i, c, task[i][c]) /\ task[i][c] \in Task
        /\ started[i] \in Nat /\ now \in Nat /\ Deadline \in Nat /\ Timeout \in Nat
        /\ Concurrency \in Nat /\ Concurrency > 0
    BY Given DEF Gathered, TypeOK, Times
  <2> DEFINE rivals == Rivals(c)
             b == Batches(c) - 1
             by == start + b * limit
             through == Through(i, wave, by)
  <2>4. wave \subseteq rivals /\ c \in wave /\ c \in rivals
    BY <2>1, <2>2 DEF InWave
  <2>5. IsFiniteSet(rivals) /\ Cardinality(rivals) \in Nat /\ Cardinality(rivals) > 0
    <3>1. IsFiniteSet(Collectors) /\ rivals \subseteq Collectors
      BY Given DEF Rivals, Collectors
    <3> HIDE DEF rivals
    <3>2. IsFiniteSet(rivals) /\ Cardinality(rivals) \in Nat
      BY <3>1, FS_Subset, FS_CardinalityType
    <3>3. Cardinality(rivals) # 0
      BY <2>4, <3>2, FS_EmptySet
    <3> QED
      BY <3>2, <3>3
  <2>6. Batches(c) = (Cardinality(rivals) + Concurrency - 1) \div Concurrency
    <3>1. Cardinality(rivals) = Cardinality(rivals)
      OBVIOUS
    <3> QED
      BY <3>1 DEF Batches
  <2> HIDE DEF rivals
  <2>7. b \in Nat /\ Cardinality(rivals) <= (b + 1) * Concurrency
    <3> DEFINE n == Cardinality(rivals)
               q == (n + Concurrency - 1) \div Concurrency
    <3>1. n \in Nat /\ n > 0
      BY <2>5
    <3> HIDE DEF n
    <3>2. q \in Nat /\ n <= q * Concurrency /\ q > 0
      BY <2>3, <3>1, DivUp
    <3>3. b + 1 = q /\ b \in Nat
      BY <2>6, <3>2 DEF n
    <3> QED
      BY <3>2, <3>3 DEF n
  <2> HIDE DEF b
  <2>8. /\ b * limit \in Nat /\ b * limit <= Timeout * b /\ Timeout * b \in Nat
        /\ start + limit <= started[i] + Deadline /\ limit > 0
    <3>1. limit <= Timeout /\ start + limit <= started[i] + Deadline /\ limit > 0
      BY <2>2 DEF InWave
    <3>2. \A x, y, z \in Nat : y <= z => x * y \in Nat /\ x * y <= z * x /\ z * x \in Nat
      OBVIOUS
    <3> QED
      BY <2>2, <2>3, <2>7, <3>1, <3>2
  <2>9. now <= by + limit
    <3>1. CASE c \in through
      <4>1. task[i][c].at = "running" /\ task[i][c].since <= by
        BY <1>2, <3>1 DEF Through
      <4>2. task[i][c].since \in Nat /\ task[i][c].limit = limit /\ by \in Nat
        <5>1. task[i][c].since \in Nat
          BY <2>3, Given DEF Task, Times
        <5>2. task[i][c].limit = limit
          BY <2>1, <2>2 DEF InWave
        <5>3. start \in Nat /\ b * limit \in Nat
          BY <2>2, <2>8
        <5>4. start + b * limit \in Nat
          BY <5>3
        <5> QED
          BY <5>1, <5>2, <5>4
      <4>3. now <= task[i][c].since + limit
        BY <2>3, <4>1, <4>2 DEF Working
      <4> QED
        BY <2>2, <2>3, <4>1, <4>2, <4>3
    <3>2. CASE c \notin through
      <4>1. ASSUME now > by PROVE FALSE
        <5>1. (b + 1) * Concurrency <= Cardinality(through)
          BY <2>1, <2>2, <2>7, <3>2, <4>1 DEF InWave, Advances
        <5>2. through \subseteq rivals \ {c}
          BY <2>4, <3>2 DEF Through
        <5> HIDE DEF through
        <5>3. /\ Cardinality(through) <= Cardinality(rivals) /\ Cardinality(through) \in Nat
              /\ Cardinality(through) # Cardinality(rivals)
          BY <2>4, <2>5, <5>2, FS_Subset, FS_CardinalityType
        <5>4. (b + 1) * Concurrency \in Nat
          BY <2>3, <2>7
        <5> QED
          BY <2>5, <2>7, <5>1, <5>3, <5>4
      <4>2. by \in Nat
        BY <2>2, <2>8
      <4> QED
        BY <2>3, <2>8, <4>1, <4>2
    <3> QED
      BY <3>1, <3>2
  <2>10. now <= started[i] + Deadline + Timeout * b
    BY <2>2, <2>3, <2>8, <2>9
  <2> QED
    BY <2>10 DEF b
<1>3. RunsOnItsEvidence
  BY <1>1 DEF RunsOnItsEvidence
<1>4. OverrunIsBounded
  BY <1>2 DEF OverrunIsBounded
<1> QED
  BY <1>3, <1>4

(* The invariant of collecting: the cache, what is at work and what was    *)
(* made of it are right, and every investigation keeps its pace.           *)
Collecting == Gathered /\ \A i \in Investigations : Paced(i)

(* What evidence says of the cluster was so at the time of its stamp, give *)
(* or take the time of one read, whatever of it came from the cache; the   *)
(* cache keeps to its budget of bytes and to one entry of each read        *)
(* (providers/cache.py); a collector runs on the evidence it needs; and an *)
(* investigation is over its deadline by no more than its collectors take  *)
(* to time out, batch after batch (collectors/scheduler.py).               *)
THEOREM EvidenceIsFreshInBounds == Spec => []FreshInBounds
<1>1. Init => Collecting
  BY GatheredStart, PacedStart DEF Collecting
<1>2. Collecting /\ [Next]_vars => Collecting'
  BY GatheredNext, PacedNext DEF Collecting
<1>3. Collecting => FreshInBounds
  BY GatheredIsFresh, PacedIsRight
     DEF Collecting, FreshInBounds, Fresh, KeepsItsBounds
<1> QED
  BY <1>1, <1>2, <1>3, PTL DEF Spec
=============================================================================
