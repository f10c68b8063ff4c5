--------------------------- MODULE BullQueueProofs ---------------------------
(* What the operations on a queue do to the set of data it holds.  These      *)
(* lemmas let the invariants of the services speak of sets, not of positions. *)
(* Then what the recursive functions of the services rest on.                 *)
EXTENDS BullQueue, WellFoundedInduction, TLAPS

\* The data of the waiting jobs are data of jobs.
LEMMA WaitingType ==
    ASSUME NEW D, NEW q \in Seq(JobOf(D))
    PROVE  Waiting(q) \subseteq D
<1>1. \A i \in DOMAIN q : q[i] \in JobOf(D)
  OBVIOUS
<1> QED
  BY <1>1 DEF Waiting, JobOf

\* Creating a job adds its datum to the queue and nothing else.
LEMMA AddLemma ==
    ASSUME NEW D, NEW q \in Seq(JobOf(D)), NEW d \in D
    PROVE  /\ Add(q, d) \in Seq(JobOf(D))
           /\ Waiting(Add(q, d)) = Waiting(q) \union {d}
<1>1. NewJob(d) \in JobOf(D) /\ NewJob(d).data = d
  BY DEF NewJob, JobOf
<1>2. Append(q, NewJob(d)) \in Seq(JobOf(D))
  BY <1>1
<1>3. /\ DOMAIN Append(q, NewJob(d)) = 1 .. (Len(q) + 1)
      /\ \A i \in 1 .. Len(q) : Append(q, NewJob(d))[i] = q[i]
      /\ Append(q, NewJob(d))[Len(q) + 1] = NewJob(d)
      /\ DOMAIN q = 1 .. Len(q) /\ Len(q) \in Nat
  BY <1>1
<1>4. 1 .. (Len(q) + 1) = DOMAIN q \union {Len(q) + 1}
  BY <1>3
<1> QED
  BY <1>1, <1>2, <1>3, <1>4 DEF Add, Waiting

\* So does adding a job as it is.
LEMMA AppendLemma ==
    ASSUME NEW D, NEW q \in Seq(JobOf(D)), NEW job \in JobOf(D)
    PROVE  /\ Append(q, job) \in Seq(JobOf(D))
           /\ Waiting(Append(q, job)) = Waiting(q) \union {job.data}
<1>1. /\ Append(q, job) \in Seq(JobOf(D))
      /\ DOMAIN Append(q, job) = 1 .. (Len(q) + 1)
      /\ \A i \in 1 .. Len(q) : Append(q, job)[i] = q[i]
      /\ Append(q, job)[Len(q) + 1] = job
      /\ DOMAIN q = 1 .. Len(q) /\ Len(q) \in Nat
  OBVIOUS
<1>2. 1 .. (Len(q) + 1) = DOMAIN q \union {Len(q) + 1}
  BY <1>1
<1> QED
  BY <1>1, <1>2 DEF Waiting

\* Taking the oldest job leaves the data of the others.
LEMMA TakeLemma ==
    ASSUME NEW D, NEW q \in Seq(JobOf(D)), q # <<>>
    PROVE  /\ Head(q) \in JobOf(D)
           /\ Head(q).data \in D
           /\ Tail(q) \in Seq(JobOf(D))
           /\ Waiting(q) = {Head(q).data} \union Waiting(Tail(q))
<1>1. /\ Head(q) \in JobOf(D) /\ Tail(q) \in Seq(JobOf(D))
      /\ Head(q) = q[1] /\ Len(q) \in Nat /\ Len(q) >= 1
      /\ DOMAIN q = 1 .. Len(q)
      /\ DOMAIN Tail(q) = 1 .. (Len(q) - 1)
      /\ \A i \in 1 .. (Len(q) - 1) : Tail(q)[i] = q[i + 1]
  OBVIOUS
<1>2. Waiting(q) \subseteq {Head(q).data} \union Waiting(Tail(q))
  <2> SUFFICES ASSUME NEW i \in DOMAIN q, i # 1
               PROVE  q[i].data \in Waiting(Tail(q))
    BY <1>1 DEF Waiting
  <2>1. i - 1 \in DOMAIN Tail(q) /\ Tail(q)[i - 1] = q[i]
    BY <1>1
  <2> QED
    BY <2>1 DEF Waiting
<1>3. {Head(q).data} \union Waiting(Tail(q)) \subseteq Waiting(q)
  <2>1. Head(q).data \in Waiting(q)
    BY <1>1 DEF Waiting
  <2>2. ASSUME NEW i \in DOMAIN Tail(q)
        PROVE  Tail(q)[i].data \in Waiting(q)
    <3>1. i + 1 \in DOMAIN q /\ Tail(q)[i] = q[i + 1]
      BY <1>1
    <3> QED
      BY <3>1 DEF Waiting
  <2> QED
    BY <2>1, <2>2 DEF Waiting
<1>4. Head(q).data \in D
  BY <1>1 DEF JobOf
<1> QED
  BY <1>1, <1>2, <1>3, <1>4

\* A stalled job that is put back adds its datum.
LEMMA RequeueLemma ==
    ASSUME NEW D, NEW q \in Seq(JobOf(D)), NEW job \in JobOf(D)
    PROVE  /\ Requeue(q, job) \in Seq(JobOf(D))
           /\ Waiting(Requeue(q, job)) = Waiting(q) \union {job.data}
<1> DEFINE again == [job EXCEPT !.stalled = TRUE]
           r == <<again>> \o q
<1>1. again \in JobOf(D) /\ again.data = job.data
  BY DEF JobOf
<1> HIDE DEF again
<1>2. /\ r \in Seq(JobOf(D))
      /\ Len(r) = Len(q) + 1 /\ Len(q) \in Nat
      /\ DOMAIN r = 1 .. Len(r) /\ DOMAIN q = 1 .. Len(q)
      /\ r[1] = again
      /\ \A i \in 1 .. Len(q) : r[i + 1] = q[i]
  BY <1>1
<1> HIDE DEF r
<1>3. Waiting(r) \subseteq Waiting(q) \union {job.data}
  <2> SUFFICES ASSUME NEW i \in DOMAIN r, i # 1
               PROVE  r[i].data \in Waiting(q)
    BY <1>1, <1>2 DEF Waiting
  <2>1. i - 1 \in DOMAIN q /\ r[i] = q[i - 1]
    <3>1. i - 1 \in 1 .. Len(q) /\ (i - 1) + 1 = i
      BY <1>2
    <3> QED
      BY <3>1, <1>2
  <2> QED
    BY <2>1 DEF Waiting
<1>4. Waiting(q) \union {job.data} \subseteq Waiting(r)
  <2>1. job.data \in Waiting(r)
    <3>1. 1 \in DOMAIN r
      BY <1>2
    <3> QED
      BY <1>1, <1>2, <3>1 DEF Waiting
  <2>2. ASSUME NEW i \in DOMAIN q
        PROVE  q[i].data \in Waiting(r)
    <3>1. i + 1 \in DOMAIN r /\ r[i + 1] = q[i]
      BY <1>2
    <3> QED
      BY <3>1 DEF Waiting
  <2> QED
    BY <2>1, <2>2 DEF Waiting
<1>5. Requeue(q, job) = r
  BY DEF Requeue, r, again
<1> QED
  BY <1>2, <1>3, <1>4, <1>5

\* The call in flight that arrives first is gone from the list, no other is.
LEMMA ArriveLemma ==
    ASSUME NEW D, NEW s \in Seq(D), s # <<>>
    PROVE  /\ Head(s) \in D
           /\ Tail(s) \in Seq(D)
           /\ InFlight(s) = {Head(s)} \union InFlight(Tail(s))
<1>1. /\ Head(s) \in D /\ Tail(s) \in Seq(D)
      /\ Head(s) = s[1] /\ Len(s) \in Nat /\ Len(s) >= 1
      /\ DOMAIN s = 1 .. Len(s)
      /\ DOMAIN Tail(s) = 1 .. (Len(s) - 1)
      /\ \A i \in 1 .. (Len(s) - 1) : Tail(s)[i] = s[i + 1]
  OBVIOUS
<1>2. InFlight(s) \subseteq {Head(s)} \union InFlight(Tail(s))
  <2> SUFFICES ASSUME NEW i \in DOMAIN s, i # 1
               PROVE  s[i] \in InFlight(Tail(s))
    BY <1>1 DEF InFlight
  <2>1. i - 1 \in DOMAIN Tail(s) /\ Tail(s)[i - 1] = s[i]
    BY <1>1
  <2> QED
    BY <2>1 DEF InFlight
<1>3. {Head(s)} \union InFlight(Tail(s)) \subseteq InFlight(s)
  <2>1. Head(s) \in InFlight(s)
    BY <1>1 DEF InFlight
  <2>2. ASSUME NEW i \in DOMAIN Tail(s)
        PROVE  Tail(s)[i] \in InFlight(s)
    <3>1. i + 1 \in DOMAIN s /\ Tail(s)[i] = s[i + 1]
      BY <1>1
    <3> QED
      BY <3>1 DEF InFlight
  <2> QED
    BY <2>1, <2>2 DEF InFlight
<1> QED
  BY <1>1, <1>2, <1>3

\* Calls made after the ones in flight join them.
LEMMA SendLemma ==
    ASSUME NEW D, NEW s \in Seq(D), NEW t \in Seq(D)
    PROVE  /\ s \o t \in Seq(D)
           /\ InFlight(s \o t) = InFlight(s) \union InFlight(t)
<1>1. /\ s \o t \in Seq(D)
      /\ Len(s) \in Nat /\ Len(t) \in Nat
      /\ DOMAIN s = 1 .. Len(s) /\ DOMAIN t = 1 .. Len(t)
      /\ DOMAIN (s \o t) = 1 .. (Len(s) + Len(t))
      /\ \A i \in 1 .. Len(s) : (s \o t)[i] = s[i]
      /\ \A i \in 1 .. Len(t) : (s \o t)[Len(s) + i] = t[i]
  OBVIOUS
<1>2. ASSUME NEW i \in DOMAIN (s \o t)
      PROVE  (s \o t)[i] \in InFlight(s) \union InFlight(t)
  <2>1. CASE i <= Len(s)
    BY <1>1, <2>1 DEF InFlight
  <2>2. CASE i > Len(s)
    <3>1. i - Len(s) \in DOMAIN t /\ Len(s) + (i - Len(s)) = i
      BY <1>1, <2>2
    <3>2. (s \o t)[i] = t[i - Len(s)]
      BY <1>1, <3>1
    <3> QED
      BY <3>1, <3>2 DEF InFlight
  <2> QED
    BY <1>1, <2>1, <2>2
<1>3. ASSUME NEW i \in DOMAIN s
      PROVE  s[i] \in InFlight(s \o t)
  <2>1. i \in DOMAIN (s \o t) /\ (s \o t)[i] = s[i]
    BY <1>1
  <2> QED
    BY <2>1 DEF InFlight
<1>4. ASSUME NEW i \in DOMAIN t
      PROVE  t[i] \in InFlight(s \o t)
  <2>1. Len(s) + i \in DOMAIN (s \o t) /\ (s \o t)[Len(s) + i] = t[i]
    BY <1>1
  <2> QED
    BY <2>1 DEF InFlight
<1>5. InFlight(s \o t) \subseteq InFlight(s) \union InFlight(t)
  BY <1>2 DEF InFlight
<1>6. InFlight(s) \union InFlight(t) \subseteq InFlight(s \o t)
  BY <1>3, <1>4 DEF InFlight
<1> QED
  BY <1>1, <1>5, <1>6

\* One more call joins the ones in flight.
LEMMA SendOneLemma ==
    ASSUME NEW D, NEW s \in Seq(D), NEW d \in D
    PROVE  /\ Append(s, d) \in Seq(D)
           /\ InFlight(Append(s, d)) = InFlight(s) \union {d}
<1>1. /\ Append(s, d) \in Seq(D) /\ Len(s) \in Nat
      /\ DOMAIN Append(s, d) = 1 .. (Len(s) + 1)
      /\ \A i \in 1 .. Len(s) : Append(s, d)[i] = s[i]
      /\ Append(s, d)[Len(s) + 1] = d
      /\ DOMAIN s = 1 .. Len(s)
  OBVIOUS
<1>2. 1 .. (Len(s) + 1) = DOMAIN s \union {Len(s) + 1}
  BY <1>1
<1> QED
  BY <1>1, <1>2 DEF InFlight

\* A list given by its elements.
LEMMA ListLemma ==
    ASSUME NEW D, NEW n \in Nat, NEW f \in [1 .. n -> D]
    PROVE  /\ f \in Seq(D)
           /\ InFlight(f) = {f[i] : i \in 1 .. n}
<1>1. f \in Seq(D) /\ DOMAIN f = 1 .. n
  OBVIOUS
<1> QED
  BY <1>1 DEF InFlight

\* Nothing is waiting in an empty queue, and no call is in flight in no list.
LEMMA EmptyLemma ==
    /\ \A D : <<>> \in Seq(D)
    /\ Waiting(<<>>) = {}
    /\ InFlight(<<>>) = {}
BY DEF Waiting, InFlight

-----------------------------------------------------------------------------
(* Numbers, and recursive functions on them.                                  *)

\* A set of numbers has a least one.
LEMMA LeastLemma ==
    ASSUME NEW S, S \subseteq Nat, S # {}
    PROVE  \E x \in S : \A y \in S : x <= y
<1> DEFINE R == {ss \in Nat \X Nat : ss[1] < ss[2]}
<1>1. OpToRel(<, Nat) = R
  BY DEF OpToRel
<1>2. IsWellFoundedOn(R, Nat)
  BY <1>1, NatLessThanWellFounded, Zenon
<1>3. PICK x \in S : \A y \in S : <<y, x>> \notin R
  <2> HIDE DEF R
  <2> QED
    BY <1>2, WFMin
<1>4. ASSUME NEW y \in S PROVE x <= y
  <2>1. x \in Nat /\ y \in Nat /\ (y < x => <<y, x>> \in R)
    OBVIOUS
  <2> HIDE DEF R
  <2> QED
    BY <1>3, <2>1
<1> QED
  BY <1>4

\* What holds of 0 and passes on from each number to the next holds up to n.
LEMMA SweepLemma ==
    ASSUME NEW n \in Nat, NEW S, 0 \in S, \A i \in 1 .. n : i - 1 \in S => i \in S
    PROVE  0 .. n \subseteq S
<1> DEFINE Bad == (0 .. n) \ S
<1> SUFFICES ASSUME Bad # {} PROVE FALSE
  OBVIOUS
<1>1. Bad \subseteq Nat
  OBVIOUS
<1>2. PICK i \in Bad : \A k \in Bad : i <= k
  <2> HIDE DEF Bad
  <2> QED
    BY <1>1, LeastLemma
<1>3. i \in 1 .. n /\ i - 1 \in 0 .. n /\ ~(i <= i - 1)
  OBVIOUS
<1>4. i - 1 \in S
  BY <1>2, <1>3
<1> QED
  BY <1>3, <1>4

\* The functions that start at b and go on by G: what a recursive function on 0 .. n is.
StepsOf(V, n, b, G) == {f \in [0 .. n -> V] : f[0] = b /\ \A i \in 1 .. n : f[i] = G[<<i, f[i - 1]>>]}

\* There is one.
LEMMA StepsLemma ==
    ASSUME NEW V, NEW n \in Nat, NEW b \in V, NEW G, \A i \in 1 .. n, v \in V : G[<<i, v>>] \in V
    PROVE  StepsOf(V, n, b, G) # {}
<1> DEFINE Upto(m) == \E f \in [0 .. m -> V] : f[0] = b /\ \A i \in 1 .. m : f[i] = G[<<i, f[i - 1]>>]
           Bad == {m \in 0 .. n : ~Upto(m)}
<1>1. CASE Bad = {}
  <2>1. n \notin Bad
    BY <1>1
  <2> HIDE DEF Upto
  <2>2. Upto(n)
    BY <2>1
  <2> QED
    BY <2>2 DEF Upto, StepsOf
<1>2. CASE Bad # {}
  <2>1. PICK m \in Bad : \A k \in Bad : m <= k
    <3>1. Bad \subseteq Nat
      OBVIOUS
    <3> HIDE DEF Bad
    <3> QED
      BY <1>2, <3>1, LeastLemma
  <2>2. Upto(0)
    <3> DEFINE h == [i \in 0 .. 0 |-> b]
    <3>1. h \in [0 .. 0 -> V] /\ h[0] = b
      OBVIOUS
    <3>2. 1 .. 0 = {}
      OBVIOUS
    <3> HIDE DEF h
    <3> QED
      BY <3>1, <3>2
  <2>3. m \in 1 .. n /\ ~Upto(m) /\ Upto(m - 1)
    <3>1. m \in 0 .. n /\ ~Upto(m)
      OBVIOUS
    <3> HIDE DEF Upto
    <3>2. m # 0
      BY <2>2, <3>1
    <3>3. m - 1 \in 0 .. n /\ ~(m <= m - 1)
      BY <3>1, <3>2
    <3> QED
      BY <2>1, <3>1, <3>2, <3>3
  <2>4. PICK f \in [0 .. m - 1 -> V] : f[0] = b /\ \A i \in 1 .. m - 1 : f[i] = G[<<i, f[i - 1]>>]
    BY <2>3
  <2> DEFINE h == [i \in 0 .. m |-> IF i = m THEN G[<<m, f[m - 1]>>] ELSE f[i]]
  <2>5. f[m - 1] \in V /\ G[<<m, f[m - 1]>>] \in V
    BY <2>3, <2>4
  <2>6. h \in [0 .. m -> V]
    BY <2>3, <2>4, <2>5
  <2>7. h[0] = b /\ h[m] = G[<<m, f[m - 1]>>] /\ h[m - 1] = f[m - 1]
    BY <2>3, <2>4
  <2>8. \A i \in 1 .. m - 1 : h[i] = f[i] /\ h[i - 1] = f[i - 1]
    BY <2>3
  <2> HIDE DEF h
  <2>9. ASSUME NEW i \in 1 .. m PROVE h[i] = G[<<i, h[i - 1]>>]
    <3>1. CASE i = m
      BY <2>7, <3>1
    <3>2. CASE i # m
      <4>1. i \in 1 .. m - 1
        BY <2>3, <3>2
      <4> QED
        BY <2>4, <2>8, <4>1
    <3> QED
      BY <3>1, <3>2
  <2>10. Upto(m)
    BY <2>6, <2>7, <2>9
  <2> QED
    BY <2>3, <2>10
<1> QED
  BY <1>1, <1>2
=============================================================================
