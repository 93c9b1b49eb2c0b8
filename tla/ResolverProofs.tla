--------------------------- MODULE ResolverProofs ---------------------------
(***************************************************************************)
(* The safety of Resolver, for any number of requests, threads of the      *)
(* application, retries and cancellations.  IInv (see Resolver) is shown   *)
(* to hold at first and to be kept by every action; the invariants of the  *)
(* run follow from it.                                                     *)
(***************************************************************************)
EXTENDS Resolver, FiniteSetTheorems, SequenceTheorems, TLAPS

-----------------------------------------------------------------------------
\* A place that is chosen is one.
LEMMA Choosing ==
    ASSUME NEW row \in Seq(Requests), NEW r \in ToSet(row),
           NEW i, i = CHOOSE j \in DOMAIN row : row[j] = r
    PROVE  i \in 1..Len(row) /\ row[i] = r
<1>1. DOMAIN row = 1..Len(row)
  BY LenProperties
<1>2. \E j \in DOMAIN row : row[j] = r
  BY DEF ToSet
<1>. QED  BY <1>1, <1>2

\* What RemoveAt makes of a row without repetitions.
LEMMA Removing ==
    ASSUME NEW row \in Seq(Requests), IsInjective(row), NEW i \in 1..Len(row)
    PROVE  /\ RemoveAt(row, i) \in Seq(Requests) /\ IsInjective(RemoveAt(row, i))
           /\ ToSet(RemoveAt(row, i)) = ToSet(row) \ {row[i]}
<1>. DEFINE n == Len(row)
            front == SubSeq(row, 1, i - 1)
            back == SubSeq(row, i + 1, n)
            rest == RemoveAt(row, i)
<1>1. n \in Nat /\ DOMAIN row = 1..n /\ \A j \in 1..n : row[j] \in Requests
  BY LenProperties
<1>2. /\ front \in Seq(Requests) /\ Len(front) = i - 1
      /\ \A j \in 1..i - 1 : front[j] = row[j]
  <2>1. \A j \in 1..i - 1 : row[j] \in Requests
    BY <1>1
  <2>2. /\ front \in Seq(Requests)
        /\ Len(front) = IF 1 <= i - 1 THEN (i - 1) - 1 + 1 ELSE 0
        /\ \A j \in 1..(i - 1) - 1 + 1 : front[j] = row[1 + j - 1]
    BY <2>1, <1>1, SubSeqProperties
  <2>. HIDE DEF front
  <2>3. CASE 1 <= i - 1
    BY <2>2, <2>3, <1>1
  <2>4. CASE ~(1 <= i - 1)
    BY <2>2, <2>4, <1>1
  <2>. QED  BY <2>3, <2>4
<1>3. /\ back \in Seq(Requests) /\ Len(back) = n - i
      /\ \A j \in 1..n - i : back[j] = row[i + j]
  <2>1. \A j \in i + 1..n : row[j] \in Requests
    BY <1>1
  <2>2. /\ back \in Seq(Requests)
        /\ Len(back) = IF i + 1 <= n THEN n - (i + 1) + 1 ELSE 0
        /\ \A j \in 1..n - (i + 1) + 1 : back[j] = row[(i + 1) + j - 1]
    BY <2>1, <1>1, SubSeqProperties
  <2>. HIDE DEF back, n
  <2>3. CASE i + 1 <= n
    BY <2>2, <2>3, <1>1
  <2>4. CASE ~(i + 1 <= n)
    BY <2>2, <2>4, <1>1
  <2>. QED  BY <2>3, <2>4
<1>4. rest = front \o back
  BY DEF RemoveAt
<1>. HIDE DEF front, back, n, rest
<1>5. /\ rest \in Seq(Requests) /\ Len(rest) = n - 1
      /\ \A j \in 1..n - 1 : rest[j] = IF j < i THEN row[j] ELSE row[j + 1]
  <2>1. /\ rest \in Seq(Requests) /\ Len(rest) = Len(front) + Len(back)
        /\ \A j \in 1..Len(front) + Len(back) :
             rest[j] = IF j <= Len(front) THEN front[j] ELSE back[j - Len(front)]
    BY <1>2, <1>3, <1>4, ConcatProperties
  <2>2. i \in Nat /\ 1 <= i /\ i <= n
    BY <1>1 DEF n
  <2>3. Len(rest) = n - 1
    BY <1>1, <1>2, <1>3, <2>1, <2>2
  <2>4. ASSUME NEW j \in 1..n - 1 PROVE rest[j] = IF j < i THEN row[j] ELSE row[j + 1]
    <3>1. rest[j] = IF j <= i - 1 THEN front[j] ELSE back[j - (i - 1)]
      BY <1>1, <1>2, <1>3, <2>1, <2>2
    <3>2. CASE j < i
      BY <1>1, <1>2, <2>2, <3>1, <3>2
    <3>3. CASE ~(j < i)
      <4>1. j - (i - 1) \in 1..n - i /\ i + (j - (i - 1)) = j + 1
        BY <1>1, <2>2, <3>3
      <4>. QED  BY <1>1, <1>3, <2>2, <3>1, <3>3, <4>1
    <3>. QED  BY <3>2, <3>3
  <2>. QED  BY <2>1, <2>3, <2>4
<1>6. DOMAIN rest = 1..n - 1 /\ i \in 1..n
  BY <1>5, LenProperties DEF n
<1>7. \A j, k \in 1..n : row[j] = row[k] => j = k
  BY <1>1 DEF IsInjective
<1>8. IsInjective(rest)
  <2>. SUFFICES ASSUME NEW j \in 1..n - 1, NEW k \in 1..n - 1, rest[j] = rest[k] PROVE j = k
    BY <1>6 DEF IsInjective
  <2>1. {j, j + 1, k, k + 1} \subseteq 1..n
    BY <1>1
  <2>. QED  BY <1>1, <1>5, <1>6, <1>7, <2>1
<1>9. ToSet(rest) = ToSet(row) \ {row[i]}
  <2>1. ASSUME NEW x \in ToSet(rest) PROVE x \in ToSet(row) \ {row[i]}
    <3>1. PICK j \in 1..n - 1 : x = rest[j]
      BY <1>6 DEF ToSet
    <3>2. CASE j < i
      BY <1>1, <1>5, <1>6, <1>7, <3>1, <3>2 DEF ToSet
    <3>3. CASE ~(j < i)
      <4>1. j + 1 \in 1..n /\ j + 1 # i
        BY <1>1, <1>6, <3>3
      <4>. QED  BY <1>1, <1>5, <1>6, <1>7, <3>1, <3>3, <4>1 DEF ToSet
    <3>. QED  BY <3>2, <3>3
  <2>2. ASSUME NEW x \in ToSet(row) \ {row[i]} PROVE x \in ToSet(rest)
    <3>1. PICK j \in 1..n : x = row[j] /\ j # i
      BY <1>1 DEF ToSet
    <3>2. CASE j < i
      <4>1. j \in 1..n - 1 /\ rest[j] = x
        BY <1>1, <1>5, <1>6, <3>1, <3>2
      <4>. QED  BY <1>6, <4>1 DEF ToSet
    <3>3. CASE ~(j < i)
      <4>1. j - 1 \in 1..n - 1 /\ ~(j - 1 < i) /\ (j - 1) + 1 = j
        BY <1>1, <1>6, <3>1, <3>3
      <4>2. rest[j - 1] = x
        BY <1>5, <3>1, <4>1
      <4>. QED  BY <1>6, <4>1, <4>2 DEF ToSet
    <3>. QED  BY <3>2, <3>3
  <2>. QED  BY <2>1, <2>2
<1>. QED  BY <1>5, <1>8, <1>9 DEF rest

\* What Append makes of it.
LEMMA Appending ==
    ASSUME NEW row \in Seq(Requests), IsInjective(row),
           NEW r \in Requests, r \notin ToSet(row)
    PROVE  /\ Append(row, r) \in Seq(Requests) /\ IsInjective(Append(row, r))
           /\ ToSet(Append(row, r)) = ToSet(row) \cup {r}
<1>. DEFINE n == Len(row)
            more == Append(row, r)
<1>1. n \in Nat /\ DOMAIN row = 1..n
  BY LenProperties
<1>2. /\ more \in Seq(Requests) /\ Len(more) = n + 1
      /\ \A j \in 1..n : more[j] = row[j]
      /\ more[n + 1] = r
  BY AppendProperties
<1>. HIDE DEF n, more
<1>3. DOMAIN more = 1..n + 1
  BY <1>2, LenProperties
<1>4. \A j \in 1..n : row[j] # r
  BY <1>1 DEF ToSet
<1>5. \A j, k \in 1..n : row[j] = row[k] => j = k
  BY <1>1 DEF IsInjective
<1>6. \A j \in 1..n + 1 : j \in 1..n \/ j = n + 1
  BY <1>1
<1>7. IsInjective(more)
  BY <1>2, <1>3, <1>4, <1>5, <1>6 DEF IsInjective
<1>8. ToSet(more) = ToSet(row) \cup {r}
  <2>1. \A j \in 1..n : j \in 1..n + 1
    BY <1>1
  <2>2. n + 1 \in 1..n + 1
    BY <1>1
  <2>. QED  BY <1>1, <1>2, <1>3, <1>6, <2>1, <2>2 DEF ToSet
<1>. QED  BY <1>2, <1>7, <1>8 DEF more

-----------------------------------------------------------------------------
\* The request after one in the queue is in the queue, and the request after
\* one that is not was one.
LEMMA NextIsListed ==
    ASSUME TypeOK
    PROVE  \A r \in Requests :
             /\ NextOf(r) \in Requests \cup {None}
             /\ Listed(r) => NextOf(r) = None \/ Listed(NextOf(r))
<1>. SUFFICES ASSUME NEW r \in Requests, Listed(r)
              PROVE  NextOf(r) = None \/ (NextOf(r) \in Requests /\ Listed(NextOf(r)))
  BY DEF TypeOK, NextOf
<1>1. Place(r) \in 1..Len(queue) /\ queue[Place(r)] = r
  BY Choosing DEF TypeOK, Listed, Place
<1>2. DOMAIN queue = 1..Len(queue) /\ Len(queue) \in Nat
  BY LenProperties DEF TypeOK
<1>3. CASE Place(r) # Len(queue)
  <2>1. Place(r) + 1 \in 1..Len(queue)
    BY <1>1, <1>2, <1>3
  <2>2. NextOf(r) = queue[Place(r) + 1]
    BY <1>3 DEF NextOf
  <2>3. queue[Place(r) + 1] \in Requests
    BY <2>1 DEF TypeOK
  <2>. QED  BY <1>2, <2>1, <2>2, <2>3 DEF Listed, ToSet
<1>. QED  BY <1>3 DEF NextOf

LEMMA NextIsListedNext ==
    ASSUME TypeOK'
    PROVE  \A r \in Requests :
             /\ NextOf(r)' \in Requests \cup {None}
             /\ Listed(r)' => NextOf(r)' = None \/ NextOf(r)' \in ToSet(queue')
<1>. SUFFICES ASSUME NEW r \in Requests, Listed(r)'
              PROVE  NextOf(r)' = None \/ (NextOf(r)' \in Requests /\ NextOf(r)' \in ToSet(queue'))
  BY DEF TypeOK, NextOf
<1>1. Place(r)' \in 1..Len(queue') /\ queue'[Place(r)'] = r
  BY Choosing DEF TypeOK, Listed, Place
<1>2. DOMAIN queue' = 1..Len(queue') /\ Len(queue') \in Nat
  BY LenProperties DEF TypeOK
<1>3. CASE Place(r)' # Len(queue')
  <2>1. Place(r)' + 1 \in 1..Len(queue')
    BY <1>1, <1>2, <1>3
  <2>2. NextOf(r)' = queue'[Place(r)' + 1]
    BY <1>3 DEF NextOf
  <2>3. queue'[Place(r)' + 1] \in Requests
    BY <2>1 DEF TypeOK
  <2>. QED  BY <1>2, <2>1, <2>2, <2>3 DEF ToSet
<1>. QED  BY <1>3 DEF NextOf

\* A queue without one of its requests.
LEMMA Leaving ==
    ASSUME TypeOK, IsInjective(queue), NEW r \in Requests
    PROVE  /\ Unlisted(r) \in Seq(Requests) /\ IsInjective(Unlisted(r))
           /\ ToSet(Unlisted(r)) = ToSet(queue) \ {r}
<1>1. CASE Listed(r)
  <2>1. Place(r) \in 1..Len(queue) /\ queue[Place(r)] = r
    BY <1>1, Choosing DEF TypeOK, Listed, Place
  <2>2. Unlisted(r) = RemoveAt(queue, Place(r))
    BY <1>1 DEF Unlisted
  <2>. QED  BY <2>1, <2>2, Removing DEF TypeOK
<1>2. CASE ~Listed(r)
  BY <1>2 DEF Unlisted, Listed, TypeOK
<1>. QED  BY <1>1, <1>2

\* What is ahead of the monitor is closed under `next', and the least such set.
LEMMA AheadCloses ==
    ASSUME TypeOK
    PROVE  /\ HasNext(Ahead)
           /\ on[Monitor] # None \/ pc[Monitor] = "walk" => Start \in Ahead \cup {None}
<1>1. ASSUME NEW r \in Ahead PROVE NextOf(r) \in Ahead \cup {None}
  <2>1. r \in Requests /\ NextOf(r) \in Requests \cup {None}
    BY NextIsListed DEF Ahead
  <2>2. ASSUME NEW S \in SUBSET Requests, Start \in S \cup {None}, HasNext(S), NextOf(r) # None
        PROVE  NextOf(r) \in S
    <3>1. r \in S
      BY <2>2 DEF Ahead
    <3>. QED  BY <2>2, <3>1 DEF HasNext
  <2>. QED  BY <2>1, <2>2 DEF Ahead
<1>2. ASSUME on[Monitor] # None \/ pc[Monitor] = "walk" PROVE Start \in Ahead \cup {None}
  <2>1. Start \in Requests \cup {None}
    BY <1>2, NextIsListed DEF Start, TypeOK, Threads
  <2>. QED  BY <2>1 DEF Ahead
<1>. QED  BY <1>1, <1>2 DEF HasNext

LEMMA AheadWithin ==
    ASSUME NEW S \in SUBSET Requests, Start \in S \cup {None}, HasNext(S)
    PROVE  Ahead \subseteq S
  BY DEF Ahead

LEMMA AheadWithinNext ==
    ASSUME NEW S \in SUBSET Requests, Start' \in S \cup {None},
           \A r \in S : NextOf(r)' \in S \cup {None}
    PROVE  Ahead' \subseteq S
  BY DEF Ahead, HasNext

\* A request that is ahead has been created.
LEMMA AheadCreated ==
    ASSUME IInv, Walks
    PROVE  \A r \in Ahead : r \in Requests /\ life[r] # "none"
<1>. DEFINE S == {r \in Requests : life[r] # "none"}
<1>1. \A r \in Requests : NextOf(r) \in S \cup {None}
  <2>. SUFFICES ASSUME NEW r \in Requests PROVE NextOf(r) \in S \cup {None}
    OBVIOUS
  <2>1. CASE Listed(r)
    BY <2>1, NextIsListed DEF IInv, Queued
  <2>2. CASE ~Listed(r)
    BY <2>2 DEF IInv, TypeOK, Placed, NextOf
  <2>. QED  BY <2>1, <2>2
<1>2. Start \in S \cup {None}
  <2>1. CASE pc[Monitor] = "walk"
    BY <2>1 DEF Start, IInv, TypeOK, Placed, Threads
  <2>2. CASE pc[Monitor] # "walk"
    <3>1. on[Monitor] \in Requests
      BY <2>2 DEF Walks, IInv, TypeOK, Placed, Threads
    <3>. QED  BY <2>2, <3>1, <1>1 DEF Start
  <2>. QED  BY <2>1, <2>2
<1>3. HasNext(S)
  BY <1>1 DEF HasNext
<1>. QED  BY <1>2, <1>3, AheadWithin

\* Only requests of the queue can come before the monitor.
LEMMA AheadGrows ==
    ASSUME TypeOK, TypeOK', Start' \in Ahead \cup ToSet(queue') \cup {None},
           \A r \in Ahead : NextOf(r)' \in {NextOf(r), None} \cup ToSet(queue')
    PROVE  Ahead' \subseteq Ahead \cup ToSet(queue')
<1>. DEFINE S == Ahead \cup ToSet(queue')
<1>1. ToSet(queue') \subseteq Requests
  <2>1. \A i \in DOMAIN queue' : queue'[i] \in Requests
    BY LenProperties DEF TypeOK
  <2>. QED  BY <2>1 DEF ToSet
<1>2. S \in SUBSET Requests
  BY <1>1 DEF Ahead
<1>3. ASSUME NEW r \in S PROVE NextOf(r)' \in S \cup {None}
  <2>1. CASE r \in Ahead
    BY <2>1, AheadCloses DEF HasNext
  <2>2. CASE r \in ToSet(queue')
    BY <2>2, <1>1, NextIsListedNext DEF Listed
  <2>. QED  BY <2>1, <2>2
<1>. QED  BY <1>2, <1>3, AheadWithinNext

-----------------------------------------------------------------------------
\* A thread that has to do with a request, alone, finds it as it should be.
LEMMA FindsIt ==
    ASSUME IInv, ~raced, NEW t \in Threads, NEW r \in Requests, Busy(t, r)
    PROVE  /\ \A u \in Threads \ {t} : ~Busy(u, r)
           /\ life[r] = "live" => Fits(t, r)
           /\ life[r] = "gone" => told[r] <= 1 /\ t = Monitor /\ pc[t] = "back"
           /\ life[r] \in {"live", "gone"}
<1>1. \A u \in Threads \ {t} : ~Busy(u, r)
  BY DEF IInv, Alone
<1>2. HeldAt(r)
  BY DEF IInv, Held
<1>3. life[r] \in {"live", "gone"}
  BY ResolverAssumption DEF IInv, TypeOK, Placed, Busy
<1>. QED  BY <1>1, <1>2, <1>3 DEF HeldAt

\* One that nobody has to do with waits in the queue.
LEMMA WaitsAlone ==
    ASSUME IInv, ~raced, NEW r \in Requests, life[r] = "live",
           \A t \in Threads : ~Busy(t, r)
    PROVE  Found(r, 1, FALSE, 0)
  BY DEF IInv, Held, HeldAt

\* A step of one thread concerns the request it has to do with, and nobody else.
LEMMA Acting ==
    ASSUME IInv, NEW t \in Threads, NEW r \in Requests, raced => raced', inner' = inner,
           ~raced' => \A u \in Threads \ {t} : ~Busy(u, r),
           \A u \in Threads \ {t} :
             /\ on'[u] = on[u]
             /\ pc'[u] = pc[u] \/ (u = Monitor /\ pc[u] = "asleep" /\ pc'[u] = "cycle"),
           on'[t] \in {r, None},
           on[t] \in {r, None} \/ pc[t] \in {"walk", "back"},
           \A q \in Requests \ {r} : /\ life'[q] = life[q] /\ refc'[q] = refc[q]
                                     /\ cancelled'[q] = cancelled[q] /\ told'[q] = told[q],
           ~raced' => /\ life'[r] = "live" => IF Busy(t, r)' THEN Fits(t, r)'
                                              ELSE Found(r, 1, FALSE, 0)'
                      /\ life'[r] = "gone" =>
                           told'[r] <= 1 /\ (Busy(t, r)' => t = Monitor /\ pc'[t] = "back")
    PROVE  Alone' /\ Held'
<1>1. ASSUME NEW u \in Threads \ {t}, NEW q \in Requests
      PROVE  (Busy(u, q)' <=> Busy(u, q)) /\ (Busy(u, q) => pc'[u] = pc[u])
  <2>1. pc[u] \in {"asleep", "cycle"} /\ u = Monitor => on[u] = None
    BY DEF IInv, Placed
  <2>2. q # None
    BY ResolverAssumption
  <2>3. CASE pc'[u] = pc[u]
    BY <2>3 DEF Busy
  <2>4. CASE u = Monitor /\ pc[u] = "asleep"
    BY <2>1, <2>2, <2>4 DEF Busy
  <2>. QED  BY <2>3, <2>4
<1>2. \A q \in Requests \ {r} : ~(Busy(t, q)') /\ (Busy(t, q) => pc[t] \in {"walk", "back"})
  BY ResolverAssumption DEF Busy
<1>3. ~raced' => ~raced
  OBVIOUS
<1>4. ASSUME ~raced', NEW q \in Requests, NEW u \in Threads, NEW v \in Threads,
             Busy(u, q)', Busy(v, q)'
      PROVE  u = v
  <2>1. CASE u # t /\ v # t
    BY <2>1, <1>1, <1>3, <1>4 DEF IInv, Alone
  <2>2. CASE u = t \/ v = t
    <3>1. q = r
      BY <2>2, <1>2, <1>4
    <3>. QED  BY <3>1, <1>1, <1>4
  <2>. QED  BY <2>1, <2>2
<1>5. ASSUME ~raced' PROVE HeldAt(r)'
  <2>1. \A u \in Threads : Busy(u, r)' => u = t
    BY <1>1, <1>5
  <2>. QED  BY <2>1, <1>5 DEF HeldAt
<1>6. ASSUME ~raced', NEW q \in Requests \ {r} PROVE HeldAt(q)'
  <2>1. HeldAt(q)
    BY <1>3, <1>6 DEF IInv, Held
  <2>2. ASSUME life[q] = "live" PROVE \A u \in Threads : Busy(u, q)' => Fits(u, q)'
    <3>. SUFFICES ASSUME NEW u \in Threads, Busy(u, q)' PROVE Fits(u, q)'
      OBVIOUS
    <3>1. u # t /\ Busy(u, q) /\ pc'[u] = pc[u]
      BY <1>1, <1>2
    <3>2. Fits(u, q)
      BY <2>1, <2>2, <3>1 DEF HeldAt
    <3>. QED  BY <3>1, <3>2 DEF Fits, Found
  <2>3. ASSUME life[q] = "live", \A u \in Threads : ~(Busy(u, q)')
        PROVE  Found(q, 1, FALSE, 0)'
    <3>1. \A u \in Threads \ {t} : ~Busy(u, q)
      BY <1>1, <2>3
    <3>2. CASE Busy(t, q)
      <4>1. Fits(t, q) /\ pc[t] \in {"walk", "back"}
        BY <2>1, <2>3, <3>2, <1>2 DEF HeldAt
      <4>. QED  BY <4>1 DEF Fits, Found
    <3>3. CASE ~Busy(t, q)
      BY <2>1, <2>3, <3>1, <3>3 DEF HeldAt, Found
    <3>. QED  BY <3>2, <3>3
  <2>4. ASSUME life[q] = "gone"
        PROVE  told'[q] <= 1 /\ \A u \in Threads : Busy(u, q)' => u = Monitor /\ pc'[u] = "back"
    <3>1. told[q] <= 1 /\ \A u \in Threads : Busy(u, q) => u = Monitor /\ pc[u] = "back"
      BY <2>1, <2>4 DEF HeldAt
    <3>2. \A u \in Threads : Busy(u, q)' => u # t /\ Busy(u, q) /\ pc'[u] = pc[u]
      BY <1>1, <1>2
    <3>. QED  BY <3>1, <3>2
  <2>. QED  BY <2>2, <2>3, <2>4 DEF HeldAt
<1>7. Alone'
  BY <1>3, <1>4 DEF Alone, IInv
<1>8. Held'
  BY <1>5, <1>6 DEF Held
<1>. QED  BY <1>7, <1>8

\* Some steps concern no request.
LEMMA Idling ==
    ASSUME IInv, raced => raced', UNCHANGED <<life, refc, cancelled, told, inner>>,
           \A u \in Threads, q \in Requests :
             (Busy(u, q)' <=> Busy(u, q)) /\ (Busy(u, q) => pc'[u] = pc[u])
    PROVE  Alone' /\ Held'
<1>1. Alone'
  BY DEF IInv, Alone
<1>2. ASSUME ~raced', NEW q \in Requests PROVE HeldAt(q)'
  <2>1. HeldAt(q)
    BY <1>2 DEF IInv, Held
  <2>2. \A u \in Threads : Busy(u, q)' => (Fits(u, q)' <=> Fits(u, q))
    BY DEF Fits, Found
  <2>. QED  BY <2>1, <2>2 DEF HeldAt, Found
<1>. QED  BY <1>1, <1>2 DEF Held

\* What is ahead of the monitor stays as it was.
LEMMA SameAhead ==
    ASSUME IInv, UNCHANGED <<queue, behind>>, raced => raced',
           \/ pc'[Monitor] \in {"asleep", "cycle"}
           \/ pc[Monitor] \notin {"asleep", "cycle"} /\ Start' = Start,
           \A r \in Requests : life'[r] = "gone" /\ ~cancelled'[r]
                               => life[r] = "gone" /\ ~cancelled[r]
    PROVE  Onward'
<1>1. \A r \in Requests : NextOf(r)' = NextOf(r)
  BY DEF NextOf, Listed, Place
<1>2. CASE pc[Monitor] \notin {"asleep", "cycle"} /\ Start' = Start
  <2>1. \A S \in SUBSET Requests : HasNext(S)' <=> HasNext(S)
    BY <1>1 DEF HasNext
  <2>2. Ahead' = Ahead
    BY <1>2, <2>1 DEF Ahead
  <2>3. \A r \in Ahead : r \in Requests
    BY DEF Ahead
  <2>. QED  BY <1>2, <2>2, <2>3 DEF IInv, Onward
<1>. QED  BY <1>2 DEF Onward

\* Nor does a change of the queue bring a request before it that is not there.
LEMMA StaysOnward ==
    ASSUME IInv, TypeOK', Queued', raced => raced', on'[Monitor] = on[Monitor],
           pc'[Monitor] \notin {"asleep", "cycle"} => pc[Monitor] \notin {"asleep", "cycle"},
           pc'[Monitor] = "walk" <=> pc[Monitor] = "walk",
           \A r \in Requests : NextOf(r)' \in {NextOf(r), None} \cup ToSet(queue'),
           \A r \in Requests : life'[r] = "gone" /\ ~cancelled'[r]
                               => life[r] = "gone" /\ ~cancelled[r]
    PROVE  Onward'
<1>. SUFFICES ASSUME ~raced', pc'[Monitor] \notin {"asleep", "cycle"}
              PROVE  \A r \in Ahead' : life'[r] = "gone" => cancelled'[r]
  BY DEF Onward
<1>1. on[Monitor] # None \/ pc[Monitor] = "walk"
  BY DEF IInv, Placed
<1>2. Start \in Ahead \cup {None}
  BY <1>1, AheadCloses DEF IInv
<1>3. Start' \in Ahead \cup ToSet(queue') \cup {None}
  <2>1. CASE pc[Monitor] = "walk"
    BY <2>1, <1>2 DEF Start
  <2>2. CASE pc[Monitor] # "walk"
    <3>1. on[Monitor] \in Requests
      BY <1>1, <2>2 DEF IInv, TypeOK, Threads
    <3>. QED  BY <2>2, <3>1, <1>2 DEF Start
  <2>. QED  BY <2>1, <2>2
<1>4. \A r \in Ahead : r \in Requests
  BY DEF Ahead
<1>5. Ahead' \subseteq Ahead \cup ToSet(queue')
  BY <1>3, <1>4, AheadGrows DEF IInv
<1>6. \A r \in ToSet(queue') : r \in Requests => life'[r] # "gone"
  BY DEF Queued, Listed
<1>7. \A r \in Ahead' : r \in Requests
  BY DEF Ahead
<1>. QED  BY <1>4, <1>5, <1>6, <1>7 DEF IInv, Onward

\* The request after one has been created.
LEMMA LinkIsCreated ==
    ASSUME IInv
    PROVE  \A r \in Requests : /\ NextOf(r) \in Requests \cup {None}
                               /\ NextOf(r) # None => life[NextOf(r)] # "none"
<1>. SUFFICES ASSUME NEW r \in Requests
              PROVE  /\ NextOf(r) \in Requests \cup {None}
                     /\ NextOf(r) # None => life[NextOf(r)] # "none"
  OBVIOUS
<1>1. CASE Listed(r)
  BY <1>1, NextIsListed DEF IInv, Queued
<1>2. CASE ~Listed(r)
  BY <1>2, NextIsListed DEF IInv, Placed, NextOf
<1>. QED  BY <1>1, <1>2

\* What the monitor reads as the head of the queue is in it, or none.
LEMMA HeadIsListed ==
    ASSUME IInv PROVE \A r \in Heads : r = None \/ (r \in Requests /\ Listed(r))
<1>1. CASE queue = <<>>
  BY <1>1 DEF Heads
<1>2. CASE queue # <<>>
  <2>1. Len(queue) \in Nat /\ Len(queue) # 0 /\ DOMAIN queue = 1..Len(queue)
    BY <1>2, LenProperties, EmptySeq DEF IInv, TypeOK
  <2>2. 1 \in DOMAIN queue
    BY <2>1
  <2>3. queue[1] \in Requests
    BY <2>2, LenProperties DEF IInv, TypeOK
  <2>4. Listed(queue[1])
    BY <2>2 DEF Listed, ToSet
  <2>. QED  BY <2>3, <2>4 DEF Heads
<1>. QED  BY <1>1, <1>2

-----------------------------------------------------------------------------

\* The invariant is kept when a request is made.
LEMMA KeepsMade ==
    ASSUME IInv, NEW t \in Callers, Made(t)
    PROVE  IInv'
<1>0. PICK r \in Requests : r = on[t]
  BY ResolverAssumption DEF Made, IInv, TypeOK, Placed, Threads
<1>1. /\ t \in Threads \ {Monitor, Worker}
      /\ r = on[t] /\ r \in Requests /\ pc[t] = "sent"
      /\ pc' = [pc EXCEPT ![t] = "idle"]
      /\ on' = [on EXCEPT ![t] = None]
      /\ made' = [made EXCEPT ![r] = "yes"]
      /\ UNCHANGED <<life, refc, cancelled, queue, behind, rcount, seen,
         missed, up, told, inner, cancels, raced>>
  BY <1>0, ResolverAssumption DEF Made, Leave, IInv, TypeOK, Placed,
       Threads, object, list, walk, app, ends
<1>2. TypeOK'
  <2>1. pc' \in [Threads -> {"idle", "built", "sent", "undo", "picked", "report", "unlist", "drop",
                             "release", "asleep", "cycle", "walk", "resend", "back"}]
    BY <1>1 DEF IInv, TypeOK
  <2>2. on' \in [Threads -> Requests \cup {None}]
    BY <1>1 DEF IInv, TypeOK
  <2>. QED  BY <1>1, <2>1, <2>2 DEF IInv, TypeOK
<1>3. Placed'
  BY <1>1, ResolverAssumption DEF IInv, Placed, TypeOK, Making, Ending,
       Threads
<1>4. Queued'
  BY <1>1, ResolverAssumption DEF IInv, Queued, Listed, Placed, TypeOK,
       Making, Ending, Threads
<1>5. Bounded'
  BY <1>1, ResolverAssumption DEF IInv, Bounded, Making, Placed, TypeOK,
       Threads
<1>6. Spoken'
  <2>1. /\ \A u \in Threads \ {t} : pc'[u] = pc[u] /\ on'[u] = on[u]
        /\ pc'[t] = "idle" /\ made'[r] = "yes" /\ life[r] # "none"
        /\ \A q \in Requests \ {r} : made'[q] = made[q]
    BY <1>1 DEF IInv, TypeOK, Placed
  <2>2. \A u \in Threads : pc'[u] \in Making => u # t /\ u \in Callers
    BY <1>1, <2>1, ResolverAssumption DEF IInv, Placed, Making, Ending, Threads
  <2>3. \A u \in Threads : pc'[u] \in Making => on[u] # r /\ made'[on'[u]] = "no"
    BY <1>1, <2>1, <2>2 DEF IInv, Bounded, Spoken, Making, Placed, TypeOK
  <2>4. \A u \in Threads : pc'[u] \in Ending => told'[on'[u]] > 0
    BY <1>1, <2>1 DEF IInv, Spoken, Ending
  <2>5. made[r] = "no"
    BY <1>1 DEF IInv, Spoken, Making
  <2>. QED  BY <1>1, <2>1, <2>3, <2>4, <2>5 DEF IInv, Spoken
<1>7. Alone' /\ Held'
  <2>1. Busy(t, r)
    BY <1>1 DEF Busy
  <2>2. ASSUME ~raced'
        PROVE  /\ \A u \in Threads \ {t} : ~Busy(u, r)
               /\ life'[r] = "live" => IF Busy(t, r)' THEN Fits(t, r)'
                                       ELSE Found(r, 1, FALSE, 0)'
               /\ life'[r] = "gone" =>
                    told'[r] <= 1 /\ (Busy(t, r)' => t = Monitor /\ pc'[t] = "back")
    <3>1. ~raced
      BY <1>1, <2>2
    <3>2. /\ \A u \in Threads \ {t} : ~Busy(u, r)
          /\ life[r] = "live" => Fits(t, r)
          /\ life[r] = "gone" => told[r] <= 1 /\ t = Monitor /\ pc[t] = "back"
          /\ life[r] \in {"live", "gone"}
      BY <1>1, <2>1, <3>1, FindsIt
    <3>. QED  BY <1>1, <3>2, ResolverAssumption DEF Busy, Fits, Found, Making, IInv, TypeOK, Threads
  <2>3. r \in Requests /\ t \in Threads
    BY <1>1
  <2>4. \A u \in Threads \ {t} :
          /\ on'[u] = on[u]
          /\ pc'[u] = pc[u] \/ (u = Monitor /\ pc[u] = "asleep" /\ pc'[u] = "cycle")
    BY <1>1, ResolverAssumption DEF IInv, TypeOK
  <2>5. on'[t] \in {r, None} /\ on[t] = r
    BY <1>1, ResolverAssumption DEF IInv, TypeOK
  <2>6. \A q \in Requests \ {r} : /\ life'[q] = life[q] /\ refc'[q] = refc[q]
                                  /\ cancelled'[q] = cancelled[q] /\ told'[q] = told[q]
    BY <1>1 DEF IInv, TypeOK
  <2>. QED  BY <1>1, <2>2, <2>3, <2>4, <2>5, <2>6, Acting
<1>8. Onward'
  <2>1. \A q \in Requests : life'[q] = "gone" /\ ~cancelled'[q]
                            => life[q] = "gone" /\ ~cancelled[q]
    BY <1>1 DEF IInv, TypeOK
  <2>2. \/ pc'[Monitor] \in {"asleep", "cycle"}
        \/ pc[Monitor] \notin {"asleep", "cycle"} /\ Start' = Start
    <3>1. \A q \in Requests : NextOf(q)' = NextOf(q)
      BY <1>1 DEF NextOf, Listed, Place
    <3>. QED  BY <1>1, <3>1, ResolverAssumption DEF IInv, TypeOK, Placed, Threads, Start
  <2>3. raced => raced'
    BY <1>1 DEF Meets
  <2>. QED  BY <1>1, <2>1, <2>2, <2>3, SameAhead
<1>. QED  BY <1>2, <1>3, <1>4, <1>5, <1>6, <1>7, <1>8 DEF IInv

\* The invariant is kept when a handler is called.
LEMMA KeepsReport ==
    ASSUME IInv, NEW t \in Threads, Report(t)
    PROVE  IInv'
<1>0. PICK r \in Requests : r = on[t]
  BY ResolverAssumption DEF Report, IInv, TypeOK, Placed, Threads
<1>1. /\ t \in Threads
      /\ r = on[t] /\ r \in Requests /\ pc[t] = "report"
      /\ pc' = [pc EXCEPT ![t] = "unlist"]
      /\ told' = [told EXCEPT ![r] = @ + 1]
      /\ UNCHANGED <<life, refc, cancelled, queue, behind, rcount, on,
         seen, missed, up, made, inner, cancels, raced>>
  BY <1>0, ResolverAssumption DEF Report, Goto, IInv, TypeOK, Placed,
       Threads, object, list, walk, app, ends
<1>2. TypeOK'
  BY <1>1, ResolverAssumption DEF IInv, TypeOK, Threads
<1>3. Placed'
  BY <1>1, ResolverAssumption DEF IInv, Placed, TypeOK, Making, Ending,
       Threads
<1>4. Queued'
  BY <1>1, ResolverAssumption DEF IInv, Queued, Listed, Placed, TypeOK,
       Making, Ending, Threads
<1>5. Bounded'
  BY <1>1, ResolverAssumption DEF IInv, Bounded, Making, Placed, TypeOK,
       Threads
<1>6. Spoken'
  <2>1. told[r] \in Nat
    BY <1>1 DEF IInv, TypeOK
  <2>2. told[r] + 1 > 0
    BY <2>1
  <2>3. told'[r] > 0 /\ \A q \in Requests \ {r} : told'[q] = told[q]
    BY <1>1, <2>2 DEF IInv, TypeOK
  <2>4. life[r] # "none"
    BY <1>1 DEF IInv, Placed
  <2>. QED  BY SMTT(30), <1>1, <2>3, <2>4, ResolverAssumption
            DEF IInv, Spoken, Making, Ending, Placed, TypeOK, Threads
<1>7. Alone' /\ Held'
  <2>1. Busy(t, r)
    BY <1>1 DEF Busy
  <2>2. ASSUME ~raced'
        PROVE  /\ \A u \in Threads \ {t} : ~Busy(u, r)
               /\ life'[r] = "live" => IF Busy(t, r)' THEN Fits(t, r)'
                                       ELSE Found(r, 1, FALSE, 0)'
               /\ life'[r] = "gone" =>
                    told'[r] <= 1 /\ (Busy(t, r)' => t = Monitor /\ pc'[t] = "back")
    <3>1. ~raced
      BY <1>1, <2>2
    <3>2. /\ \A u \in Threads \ {t} : ~Busy(u, r)
          /\ life[r] = "live" => Fits(t, r)
          /\ life[r] = "gone" => told[r] <= 1 /\ t = Monitor /\ pc[t] = "back"
          /\ life[r] \in {"live", "gone"}
      BY <1>1, <2>1, <3>1, FindsIt
    <3>. QED  BY <1>1, <3>2, ResolverAssumption DEF Busy, Fits, Found, Making, IInv, TypeOK, Threads
  <2>3. r \in Requests /\ t \in Threads
    BY <1>1
  <2>4. \A u \in Threads \ {t} :
          /\ on'[u] = on[u]
          /\ pc'[u] = pc[u] \/ (u = Monitor /\ pc[u] = "asleep" /\ pc'[u] = "cycle")
    BY <1>1, ResolverAssumption DEF IInv, TypeOK
  <2>5. on'[t] \in {r, None} /\ on[t] = r
    BY <1>1, ResolverAssumption DEF IInv, TypeOK
  <2>6. \A q \in Requests \ {r} : /\ life'[q] = life[q] /\ refc'[q] = refc[q]
                                  /\ cancelled'[q] = cancelled[q] /\ told'[q] = told[q]
    BY <1>1 DEF IInv, TypeOK
  <2>. QED  BY <1>1, <2>2, <2>3, <2>4, <2>5, <2>6, Acting
<1>8. Onward'
  <2>1. \A q \in Requests : life'[q] = "gone" /\ ~cancelled'[q]
                            => life[q] = "gone" /\ ~cancelled[q]
    BY <1>1 DEF IInv, TypeOK
  <2>2. \/ pc'[Monitor] \in {"asleep", "cycle"}
        \/ pc[Monitor] \notin {"asleep", "cycle"} /\ Start' = Start
    <3>1. \A q \in Requests : NextOf(q)' = NextOf(q)
      BY <1>1 DEF NextOf, Listed, Place
    <3>. QED  BY <1>1, <3>1, ResolverAssumption DEF IInv, TypeOK, Placed, Threads, Start
  <2>3. raced => raced'
    BY <1>1 DEF Meets
  <2>. QED  BY <1>1, <2>1, <2>2, <2>3, SameAhead
<1>. QED  BY <1>2, <1>3, <1>4, <1>5, <1>6, <1>7, <1>8 DEF IInv

\* The invariant is kept when a handler cancels its own request.
LEMMA KeepsReportCancels ==
    ASSUME IInv, NEW t \in Threads, ReportCancels(t)
    PROVE  IInv'
<1>0. PICK r \in Requests : r = on[t]
  BY ResolverAssumption DEF ReportCancels, IInv, TypeOK, Placed, Threads
<1>1. /\ t \in Threads
      /\ r = on[t] /\ r \in Requests /\ pc[t] = "report"
      /\ told' = [told EXCEPT ![r] = @ + 1]
      /\ refc' = [refc EXCEPT ![r] = @ + 1]
      /\ inner' = inner \cup {t}
      /\ cancels' \in 0..Cancels
      /\ raced' = TRUE
      /\ UNCHANGED <<life, cancelled, queue, behind, rcount, pc, on, seen,
         missed, up, made>>
  BY <1>0, ResolverAssumption DEF ReportCancels, IInv, TypeOK, Placed,
       Threads, object, list, walk, app, ends
<1>2. TypeOK'
  <2>1. {seen', up', missed', raced'} \subseteq BOOLEAN
    BY <1>1 DEF IInv, TypeOK
  <2>2. told' \in [Requests -> Nat] /\ refc' \in [Requests -> Int] /\ inner' \subseteq Threads
    BY <1>1 DEF IInv, TypeOK
  <2>. QED  BY <1>1, <2>1, <2>2 DEF IInv, TypeOK
<1>3. Placed'
  BY <1>1, ResolverAssumption DEF IInv, Placed, TypeOK, Making, Ending,
       Threads
<1>4. Queued'
  BY SMTT(30), <1>1, ResolverAssumption DEF IInv, Queued, Listed, Placed, TypeOK,
       Making, Ending, Threads
<1>5. Bounded'
  BY <1>1, ResolverAssumption DEF IInv, Bounded, Making, Placed, TypeOK,
       Threads
<1>6. Spoken'
  <2>1. told[r] \in Nat
    BY <1>1 DEF IInv, TypeOK
  <2>2. told[r] + 1 > 0
    BY <2>1
  <2>3. told'[r] > 0 /\ \A q \in Requests \ {r} : told'[q] = told[q]
    BY <1>1, <2>2 DEF IInv, TypeOK
  <2>4. life[r] # "none"
    BY <1>1 DEF IInv, Placed
  <2>5. \A u \in Threads : pc[u] \in Ending \cup Making => on[u] \in Requests
    BY ResolverAssumption DEF IInv, TypeOK, Placed, Making, Ending, Threads
  <2>6. \A u \in Threads : pc'[u] \in Ending => told'[on'[u]] > 0
    BY <1>1, <2>3, <2>5 DEF IInv, Spoken
  <2>7. \A u \in Threads : pc'[u] \in Making => made'[on'[u]] = "no"
    BY <1>1 DEF IInv, Spoken
  <2>. QED  BY <1>1, <2>3, <2>4, <2>6, <2>7 DEF IInv, Spoken
<1>7. Alone' /\ Held'
  BY <1>1 DEF Alone, Held, IInv
<1>8. Onward'
  BY <1>1 DEF Onward
<1>. QED  BY <1>2, <1>3, <1>4, <1>5, <1>6, <1>7, <1>8 DEF IInv

\* The invariant is kept when a request is created.
LEMMA KeepsNew ==
    ASSUME IInv, NEW t \in Callers, New(t)
    PROVE  IInv'
<1>0. PICK r \in Requests :
        /\ r = CHOOSE q \in {p \in Requests : life[p] = "none"} : TRUE
        /\ life[r] = "none" /\ r \notin ToSet(queue)
  <2>1. {p \in Requests : life[p] = "none"} # {}
    BY DEF New
  <2>. QED  BY <2>1 DEF IInv, Queued, Listed
<1>a. /\ Append(queue, r) \in Seq(Requests) /\ IsInjective(Append(queue, r))
      /\ ToSet(Append(queue, r)) = ToSet(queue) \cup {r}
  <2>1. queue \in Seq(Requests) /\ IsInjective(queue)
    BY DEF IInv, TypeOK, Queued
  <2>. QED  BY <1>0, <2>1, Appending
<1>1. /\ t \in Threads \ {Monitor, Worker}
      /\ pc[t] = "idle"
      /\ r \in Requests /\ life[r] = "none"
      /\ life' = [life EXCEPT ![r] = "live"]
      /\ refc' = [refc EXCEPT ![r] = 1]
      /\ queue' \in Seq(Requests) /\ IsInjective(queue') /\ ToSet(queue') =
         ToSet(queue) \cup {r}
      /\ pc' = [pc EXCEPT ![t] = "built"]
      /\ on' = [on EXCEPT ![t] = r]
      /\ raced' = Meets(t, r)
      /\ UNCHANGED <<cancelled, behind, rcount, seen, missed, up, made,
         told, inner, cancels>>
  BY ResolverAssumption, <1>0, <1>a DEF New, Take, Goto, Queued, IInv,
       TypeOK, Placed, Threads, object, list, walk, app, ends
<1>2. TypeOK'
  BY <1>1, ResolverAssumption DEF IInv, TypeOK, Threads, Meets
<1>3. Placed'
  BY <1>1, ResolverAssumption DEF IInv, Placed, TypeOK, Making, Ending,
       Threads
<1>4. Queued'
  BY <1>1, ResolverAssumption DEF IInv, Queued, Listed, Placed, TypeOK,
       Making, Ending, Threads
<1>5. Bounded'
  BY <1>1, ResolverAssumption DEF IInv, Bounded, Making, Placed, TypeOK,
       Threads
<1>6. Spoken'
  BY <1>1, ResolverAssumption DEF IInv, Spoken, Making, Ending, Placed,
       TypeOK, Threads
<1>7. Alone' /\ Held'
  <2>1. ASSUME ~raced'
        PROVE  /\ \A u \in Threads \ {t} : ~Busy(u, r)
               /\ life'[r] = "live" /\ Busy(t, r)' /\ Fits(t, r)'
    <3>1. ~raced /\ \A u \in Threads \ {t} : ~Busy(u, r)
      BY <1>1, <2>1 DEF Meets
    <3>2. refc'[r] = 1 /\ ~cancelled[r] /\ told[r] = 0 /\ life'[r] = "live"
      BY <1>1 DEF IInv, TypeOK, Queued, Spoken
    <3>. QED  BY <1>1, <3>1, <3>2, ResolverAssumption
              DEF Busy, Fits, Found, Making, IInv, TypeOK, Threads
  <2>2. t \in Threads /\ r \in Requests
    BY <1>1
  <2>3. \A u \in Threads \ {t} : on'[u] = on[u] /\ pc'[u] = pc[u]
    BY <1>1 DEF IInv, TypeOK
  <2>4. on'[t] = r /\ (on[t] \in {r, None} \/ pc[t] \in {"walk", "back"})
    BY <1>1, ResolverAssumption DEF IInv, TypeOK, Placed, Threads
  <2>5. \A q \in Requests \ {r} : /\ life'[q] = life[q] /\ refc'[q] = refc[q]
                                  /\ cancelled'[q] = cancelled[q] /\ told'[q] = told[q]
    BY <1>1 DEF IInv, TypeOK
  <2>6. raced => raced'
    BY <1>1 DEF Meets
  <2>. QED  BY <1>1, <2>1, <2>2, <2>3, <2>4, <2>5, <2>6, Acting
<1>8. Onward'
  <2>1. ASSUME NEW q \in Requests
        PROVE  NextOf(q)' \in {NextOf(q), None} \cup ToSet(queue')
    <3>1. CASE Listed(q)'
      BY <3>1, <1>2, NextIsListedNext
    <3>2. CASE ~Listed(q)' /\ q = r
      BY <1>1, <3>2 DEF Listed
    <3>3. CASE ~Listed(q)' /\ q # r
      <4>1. ~Listed(q)
        BY <1>1, <3>3 DEF Listed
      <4>. QED  BY <1>1, <3>3, <4>1 DEF NextOf, IInv, TypeOK
    <3>. QED  BY <3>1, <3>2, <3>3
  <2>2. on'[Monitor] = on[Monitor] /\ (pc'[Monitor] = pc[Monitor])
    BY <1>1, ResolverAssumption DEF IInv, TypeOK, Threads
  <2>3. \A q \in Requests : life'[q] = "gone" /\ ~cancelled'[q]
                            => life[q] = "gone" /\ ~cancelled[q]
    BY <1>1 DEF IInv, TypeOK
  <2>4. raced => raced'
    BY <1>1 DEF Meets
  <2>. QED  BY <1>1, <1>2, <1>4, <2>1, <2>2, <2>3, <2>4, StaysOnward
<1>. QED  BY <1>2, <1>3, <1>4, <1>5, <1>6, <1>7, <1>8 DEF IInv

\* The invariant is kept when a request is sent.
LEMMA KeepsFlush ==
    ASSUME IInv, NEW t \in Callers, Flush(t)
    PROVE  IInv'
<1>0. PICK r \in Requests : r = on[t]
  BY ResolverAssumption DEF Flush, IInv, TypeOK, Placed, Threads
<1>1. /\ t \in Threads \ {Monitor, Worker}
      /\ r = on[t] /\ r \in Requests /\ pc[t] = "built"
      /\ rcount' = [rcount EXCEPT ![r] = @ + 1]
      /\ pc' = [pc EXCEPT ![t] = "sent"] \/ (pc[Monitor] = "asleep" /\ pc'
         = [pc EXCEPT ![t] = "sent", ![Monitor] = "cycle"])
      /\ missed' \in BOOLEAN
      /\ UNCHANGED <<life, refc, cancelled, queue, behind, on, seen, up,
         made, told, inner, cancels, raced>>
  BY <1>0, ResolverAssumption DEF Flush, Sending, Wakes, IInv, TypeOK,
       Placed, Threads, object, list, walk, app, ends
<1>2. TypeOK'
  <2>1. rcount[r] \in 0..Retry
    BY <1>1, ResolverAssumption DEF IInv, TypeOK, Bounded
  <2>2. rcount[r] + 1 \in 0..Retry + 1
    BY <2>1, ResolverAssumption
  <2>3. rcount' \in [Requests -> 0..Retry + 1]
    BY <1>1, <2>2 DEF IInv, TypeOK
  <2>4. pc' \in [Threads -> {"idle", "built", "sent", "undo", "picked", "report", "unlist", "drop",
                             "release", "asleep", "cycle", "walk", "resend", "back"}]
    BY ZenonT(30), <1>1 DEF IInv, TypeOK
  <2>. QED  BY <1>1, <2>3, <2>4 DEF IInv, TypeOK
<1>3. Placed'
  <2>1. /\ pc'[Monitor] = "release" => Monitor \in inner'
        /\ \A u \in inner' : pc'[u] \in {"report"} \cup Ending
    BY <1>1, ResolverAssumption DEF IInv, Placed, TypeOK, Threads, Ending
  <2>2. \A u \in Threads : on'[u] # None => life'[on'[u]] # "none"
    BY <1>1, ResolverAssumption DEF IInv, Placed, TypeOK
  <2>3. /\ pc'[Worker] \in {"idle", "picked", "report"} \cup Ending
        /\ pc'[Monitor] \in {"asleep", "cycle", "walk", "resend", "back", "report"} \cup Ending
        /\ \A u \in Callers : pc'[u] \in {"idle", "report"} \cup Making \cup Ending
    BY ZenonT(30), <1>1, ResolverAssumption DEF IInv, Placed, TypeOK, Making, Ending, Threads
  <2>4. /\ \A u \in Threads \ {Monitor} : pc'[u] = "idle" <=> on'[u] = None
        /\ pc'[Monitor] \in {"asleep", "cycle"} => on'[Monitor] = None
        /\ on'[Monitor] = None => pc'[Monitor] \in {"asleep", "cycle", "walk"}
    BY <1>1, ResolverAssumption DEF IInv, Placed, TypeOK, Threads
  <2>5. \A q \in Requests : behind'[q] # None => life'[behind'[q]] # "none"
    BY <1>1 DEF IInv, Placed, TypeOK
  <2>. QED  BY <2>1, <2>2, <2>3, <2>4, <2>5 DEF Placed
<1>4. Queued'
  <2>1. \A u \in Threads : pc[u] = "drop" <=> pc'[u] = "drop"
    BY <1>1 DEF IInv, TypeOK
  <2>2. \A u \in Threads : pc'[u] \in {"drop", "release"} => pc'[u] = pc[u]
    BY <1>1 DEF IInv, TypeOK
  <2>. QED  BY <1>1, <2>1, <2>2 DEF IInv, Queued, Listed
<1>5. Bounded'
  <2>1. rcount'[r] = rcount[r] + 1 /\ \A q \in Requests \ {r} : rcount'[q] = rcount[q]
    BY <1>1 DEF IInv, TypeOK
  <2>2. /\ pc'[t] = "sent" /\ \A u \in Callers \ {t} : pc'[u] = pc[u]
        /\ pc'[Monitor] = "resend" => pc[Monitor] = "resend"
    BY <1>1, ResolverAssumption DEF IInv, TypeOK, Threads
  <2>3. ASSUME NEW u \in Callers, pc'[u] \in Making PROVE u = t \/ on[u] # r
    BY <1>1, <2>2, <2>3 DEF IInv, Bounded, Making
  <2>4. rcount[r] \in 0..Retry + 1 /\ life[r] # "none"
    BY <1>1 DEF IInv, TypeOK, Placed, Threads
  <2>5. ASSUME NEW u \in Callers, pc'[u] = "built"
        PROVE  u # t /\ pc[u] = "built" /\ on[u] # r /\ rcount'[on[u]] = rcount[on[u]]
    BY <2>1, <2>2, <2>3, <2>5, <1>1, ResolverAssumption
       DEF Making, IInv, TypeOK, Placed, Threads
  <2>6. ASSUME pc'[Monitor] = "resend"
        PROVE  /\ rcount'[on[Monitor]] <= Retry
               /\ \A u \in Callers : pc'[u] = "built" /\ on[u] = on[Monitor] => rcount'[on[u]] < Retry
    <3>1. pc[Monitor] = "resend" /\ on[Monitor] \in Requests
      BY <2>2, <2>6, <1>1 DEF IInv, TypeOK, Placed, Threads
    <3>2. CASE on[Monitor] = r
      BY <3>1, <3>2, <1>1, <2>1, <2>4, <2>5, ResolverAssumption DEF IInv, Bounded
    <3>3. CASE on[Monitor] # r
      BY <3>1, <3>3, <2>1, <2>5 DEF IInv, Bounded
    <3>. QED  BY <3>2, <3>3
  <2>7. \A u, v \in Callers : {pc'[u], pc'[v]} \subseteq Making /\ on[u] = on[v] => u = v
    <3>1. \A u \in Callers : pc'[u] \in Making => pc[u] \in Making
      BY <1>1, <2>2 DEF Making
    <3>. QED  BY <3>1 DEF IInv, Bounded
  <2>8. \A q \in Requests : life[q] = "none" => rcount'[q] = 0
    BY <2>1, <2>4 DEF IInv, Bounded
  <2>9. \A u \in Callers : pc'[u] = "built" => rcount'[on[u]] <= Retry
    BY <2>5 DEF IInv, Bounded
  <2>. QED  BY <1>1, <2>6, <2>7, <2>8, <2>9 DEF Bounded
<1>6. Spoken'
  BY SMTT(30), <1>1, ResolverAssumption DEF IInv, Spoken, Making, Ending, Placed,
       TypeOK, Threads
<1>7. Alone' /\ Held'
  <2>1. Busy(t, r)
    BY <1>1 DEF Busy
  <2>2. ASSUME ~raced'
        PROVE  /\ \A u \in Threads \ {t} : ~Busy(u, r)
               /\ life'[r] = "live" => IF Busy(t, r)' THEN Fits(t, r)'
                                       ELSE Found(r, 1, FALSE, 0)'
               /\ life'[r] = "gone" =>
                    told'[r] <= 1 /\ (Busy(t, r)' => t = Monitor /\ pc'[t] = "back")
    <3>1. ~raced
      BY <1>1, <2>2
    <3>2. /\ \A u \in Threads \ {t} : ~Busy(u, r)
          /\ life[r] = "live" => Fits(t, r)
          /\ life[r] = "gone" => told[r] <= 1 /\ t = Monitor /\ pc[t] = "back"
          /\ life[r] \in {"live", "gone"}
      BY <1>1, <2>1, <3>1, FindsIt
    <3>. QED  BY <1>1, <3>2, ResolverAssumption DEF Busy, Fits, Found, Making, IInv, TypeOK, Threads
  <2>3. r \in Requests /\ t \in Threads
    BY <1>1
  <2>4. \A u \in Threads \ {t} :
          /\ on'[u] = on[u]
          /\ pc'[u] = pc[u] \/ (u = Monitor /\ pc[u] = "asleep" /\ pc'[u] = "cycle")
    BY <1>1, ResolverAssumption DEF IInv, TypeOK
  <2>5. on'[t] \in {r, None} /\ on[t] = r
    BY <1>1, ResolverAssumption DEF IInv, TypeOK
  <2>6. \A q \in Requests \ {r} : /\ life'[q] = life[q] /\ refc'[q] = refc[q]
                                  /\ cancelled'[q] = cancelled[q] /\ told'[q] = told[q]
    BY <1>1 DEF IInv, TypeOK
  <2>. QED  BY <1>1, <2>2, <2>3, <2>4, <2>5, <2>6, Acting
<1>8. Onward'
  <2>1. \A q \in Requests : life'[q] = "gone" /\ ~cancelled'[q]
                            => life[q] = "gone" /\ ~cancelled[q]
    BY <1>1 DEF IInv, TypeOK
  <2>2. \/ pc'[Monitor] \in {"asleep", "cycle"}
        \/ pc[Monitor] \notin {"asleep", "cycle"} /\ Start' = Start
    <3>1. \A q \in Requests : NextOf(q)' = NextOf(q)
      BY <1>1 DEF NextOf, Listed, Place
    <3>. QED  BY <1>1, <3>1, ResolverAssumption DEF IInv, TypeOK, Placed, Threads, Start
  <2>3. raced => raced'
    BY <1>1 DEF Meets
  <2>. QED  BY <1>1, <2>1, <2>2, <2>3, SameAhead
<1>. QED  BY <1>2, <1>3, <1>4, <1>5, <1>6, <1>7, <1>8 DEF IInv

\* The invariant is kept when there is no name server.
LEMMA KeepsFlushFails ==
    ASSUME IInv, NEW t \in Callers, FlushFails(t)
    PROVE  IInv'
<1>0. PICK r \in Requests : r = on[t]
  BY ResolverAssumption DEF FlushFails, IInv, TypeOK, Placed, Threads
<1>1. /\ t \in Threads \ {Monitor, Worker}
      /\ r = on[t] /\ r \in Requests /\ pc[t] = "built"
      /\ pc' = [pc EXCEPT ![t] = "undo"]
      /\ UNCHANGED <<life, refc, cancelled, queue, behind, rcount, on,
         seen, missed, up, made, told, inner, cancels, raced>>
  BY <1>0, ResolverAssumption DEF FlushFails, Goto, IInv, TypeOK, Placed,
       Threads, object, list, walk, app, ends
<1>2. TypeOK'
  BY <1>1, ResolverAssumption DEF IInv, TypeOK, Threads
<1>3. Placed'
  BY <1>1, ResolverAssumption DEF IInv, Placed, TypeOK, Making, Ending,
       Threads
<1>4. Queued'
  BY <1>1, ResolverAssumption DEF IInv, Queued, Listed, Placed, TypeOK,
       Making, Ending, Threads
<1>5. Bounded'
  BY <1>1, ResolverAssumption DEF IInv, Bounded, Making, Placed, TypeOK,
       Threads
<1>6. Spoken'
  BY <1>1, ResolverAssumption DEF IInv, Spoken, Making, Ending, Placed,
       TypeOK, Threads
<1>7. Alone' /\ Held'
  <2>1. Busy(t, r)
    BY <1>1 DEF Busy
  <2>2. ASSUME ~raced'
        PROVE  /\ \A u \in Threads \ {t} : ~Busy(u, r)
               /\ life'[r] = "live" => IF Busy(t, r)' THEN Fits(t, r)'
                                       ELSE Found(r, 1, FALSE, 0)'
               /\ life'[r] = "gone" =>
                    told'[r] <= 1 /\ (Busy(t, r)' => t = Monitor /\ pc'[t] = "back")
    <3>1. ~raced
      BY <1>1, <2>2
    <3>2. /\ \A u \in Threads \ {t} : ~Busy(u, r)
          /\ life[r] = "live" => Fits(t, r)
          /\ life[r] = "gone" => told[r] <= 1 /\ t = Monitor /\ pc[t] = "back"
          /\ life[r] \in {"live", "gone"}
      BY <1>1, <2>1, <3>1, FindsIt
    <3>. QED  BY <1>1, <3>2, ResolverAssumption DEF Busy, Fits, Found, Making, IInv, TypeOK, Threads
  <2>3. r \in Requests /\ t \in Threads
    BY <1>1
  <2>4. \A u \in Threads \ {t} :
          /\ on'[u] = on[u]
          /\ pc'[u] = pc[u] \/ (u = Monitor /\ pc[u] = "asleep" /\ pc'[u] = "cycle")
    BY <1>1, ResolverAssumption DEF IInv, TypeOK
  <2>5. on'[t] \in {r, None} /\ on[t] = r
    BY <1>1, ResolverAssumption DEF IInv, TypeOK
  <2>6. \A q \in Requests \ {r} : /\ life'[q] = life[q] /\ refc'[q] = refc[q]
                                  /\ cancelled'[q] = cancelled[q] /\ told'[q] = told[q]
    BY <1>1 DEF IInv, TypeOK
  <2>. QED  BY <1>1, <2>2, <2>3, <2>4, <2>5, <2>6, Acting
<1>8. Onward'
  <2>1. \A q \in Requests : life'[q] = "gone" /\ ~cancelled'[q]
                            => life[q] = "gone" /\ ~cancelled[q]
    BY <1>1 DEF IInv, TypeOK
  <2>2. \/ pc'[Monitor] \in {"asleep", "cycle"}
        \/ pc[Monitor] \notin {"asleep", "cycle"} /\ Start' = Start
    <3>1. \A q \in Requests : NextOf(q)' = NextOf(q)
      BY <1>1 DEF NextOf, Listed, Place
    <3>. QED  BY <1>1, <3>1, ResolverAssumption DEF IInv, TypeOK, Placed, Threads, Start
  <2>3. raced => raced'
    BY <1>1 DEF Meets
  <2>. QED  BY <1>1, <2>1, <2>2, <2>3, SameAhead
<1>. QED  BY <1>2, <1>3, <1>4, <1>5, <1>6, <1>7, <1>8 DEF IInv

\* The invariant is kept when a request is undone.
LEMMA KeepsUndo ==
    ASSUME IInv, NEW t \in Callers, Undo(t)
    PROVE  IInv'
<1>0. PICK r \in Requests : r = on[t]
  BY ResolverAssumption DEF Undo, IInv, TypeOK, Placed, Threads
<1>1. /\ t \in Threads \ {Monitor, Worker}
      /\ r = on[t] /\ r \in Requests /\ pc[t] = "undo"
      /\ life' = [life EXCEPT ![r] = "gone"]
      /\ behind' = [behind EXCEPT ![r] = NextOf(r)]
      /\ NextOf(r) \in Requests \cup {None} /\ (NextOf(r) # None =>
         life[NextOf(r)] # "none")
      /\ queue' \in Seq(Requests) /\ IsInjective(queue') /\ ToSet(queue') =
         ToSet(queue) \ {r}
      /\ made' = [made EXCEPT ![r] = "error"]
      /\ raced' = (raced \/ pc[Monitor] \notin {"asleep", "cycle"})
      /\ pc' = [pc EXCEPT ![t] = "idle"]
      /\ on' = [on EXCEPT ![t] = None]
      /\ UNCHANGED <<refc, cancelled, rcount, seen, missed, up, told,
         inner, cancels>>
  BY <1>0, ResolverAssumption, Leaving, LinkIsCreated DEF Undo, Leave,
       Queued, IInv, TypeOK, Placed, Threads, object, list, walk, app,
       ends
<1>2. TypeOK'
  <2>1. pc' \in [Threads -> {"idle", "built", "sent", "undo", "picked", "report", "unlist", "drop",
                             "release", "asleep", "cycle", "walk", "resend", "back"}]
    BY <1>1 DEF IInv, TypeOK
  <2>2. on' \in [Threads -> Requests \cup {None}]
    BY <1>1 DEF IInv, TypeOK
  <2>. QED  BY <1>1, <2>1, <2>2 DEF IInv, TypeOK
<1>3. Placed'
  BY <1>1, ResolverAssumption DEF IInv, Placed, TypeOK, Making, Ending,
       Threads
<1>4. Queued'
  BY <1>1, ResolverAssumption DEF IInv, Queued, Listed, Placed, TypeOK,
       Making, Ending, Threads
<1>5. Bounded'
  BY <1>1, ResolverAssumption DEF IInv, Bounded, Making, Placed, TypeOK,
       Threads
<1>6. Spoken'
  <2>1. /\ \A u \in Threads \ {t} : pc'[u] = pc[u] /\ on'[u] = on[u]
        /\ pc'[t] = "idle" /\ made'[r] = "error" /\ life'[r] = "gone"
        /\ \A q \in Requests \ {r} : made'[q] = made[q] /\ life'[q] = life[q]
    BY <1>1 DEF IInv, TypeOK, Placed
  <2>2. \A u \in Threads : pc'[u] \in Making => u # t /\ u \in Callers
    BY <1>1, <2>1, ResolverAssumption DEF IInv, Placed, Making, Ending, Threads
  <2>3. \A u \in Threads : pc'[u] \in Making => on[u] # r /\ made'[on'[u]] = "no"
    BY <1>1, <2>1, <2>2 DEF IInv, Bounded, Spoken, Making, Placed, TypeOK
  <2>4. \A u \in Threads : pc'[u] \in Ending => told'[on'[u]] > 0
    BY <1>1, <2>1 DEF IInv, Spoken, Ending
  <2>5. made[r] = "no"
    BY <1>1 DEF IInv, Spoken, Making
  <2>. QED  BY <1>1, <2>1, <2>3, <2>4, <2>5 DEF IInv, Spoken
<1>7. Alone' /\ Held'
  <2>1. Busy(t, r)
    BY <1>1 DEF Busy
  <2>2. ASSUME ~raced'
        PROVE  /\ \A u \in Threads \ {t} : ~Busy(u, r)
               /\ life'[r] = "live" => IF Busy(t, r)' THEN Fits(t, r)'
                                       ELSE Found(r, 1, FALSE, 0)'
               /\ life'[r] = "gone" =>
                    told'[r] <= 1 /\ (Busy(t, r)' => t = Monitor /\ pc'[t] = "back")
    <3>1. ~raced
      BY <1>1, <2>2
    <3>2. /\ \A u \in Threads \ {t} : ~Busy(u, r)
          /\ life[r] = "live" => Fits(t, r)
          /\ life[r] = "gone" => told[r] <= 1 /\ t = Monitor /\ pc[t] = "back"
          /\ life[r] \in {"live", "gone"}
      BY <1>1, <2>1, <3>1, FindsIt
    <3>. QED  BY <1>1, <3>2, ResolverAssumption DEF Busy, Fits, Found, Making, IInv, TypeOK, Threads
  <2>3. r \in Requests /\ t \in Threads
    BY <1>1
  <2>4. \A u \in Threads \ {t} :
          /\ on'[u] = on[u]
          /\ pc'[u] = pc[u] \/ (u = Monitor /\ pc[u] = "asleep" /\ pc'[u] = "cycle")
    BY <1>1, ResolverAssumption DEF IInv, TypeOK
  <2>5. on'[t] \in {r, None} /\ on[t] = r
    BY <1>1, ResolverAssumption DEF IInv, TypeOK
  <2>6. \A q \in Requests \ {r} : /\ life'[q] = life[q] /\ refc'[q] = refc[q]
                                  /\ cancelled'[q] = cancelled[q] /\ told'[q] = told[q]
    BY <1>1 DEF IInv, TypeOK
  <2>. QED  BY <1>1, <2>2, <2>3, <2>4, <2>5, <2>6, Acting
<1>8. Onward'
  BY <1>1, ResolverAssumption DEF Onward, IInv, TypeOK, Threads
<1>. QED  BY <1>2, <1>3, <1>4, <1>5, <1>6, <1>7, <1>8 DEF IInv

\* The invariant is kept when rascal_cancel is called.
LEMMA KeepsCancel ==
    ASSUME IInv, NEW t \in Callers, NEW r \in Requests, Cancel(t, r)
    PROVE  IInv'
<1>1. /\ t \in Threads \ {Monitor, Worker}
      /\ pc[t] = "idle"
      /\ r \in Requests /\ life[r] = "live"
      /\ cancels' \in 0..Cancels
      /\ refc' = [refc EXCEPT ![r] = @ + 1]
      /\ pc' = [pc EXCEPT ![t] = "report"]
      /\ on' = [on EXCEPT ![t] = r]
      /\ raced' = Meets(t, r)
      /\ UNCHANGED <<life, cancelled, queue, behind, rcount, seen, missed,
         up, made, told, inner>>
  BY ResolverAssumption DEF Cancel, Take, Goto, IInv, TypeOK, Placed,
       Threads, object, list, walk, app, ends
<1>2. TypeOK'
  BY <1>1, ResolverAssumption DEF IInv, TypeOK, Threads, Meets
<1>3. Placed'
  BY <1>1, ResolverAssumption DEF IInv, Placed, TypeOK, Making, Ending,
       Threads
<1>4. Queued'
  BY <1>1, ResolverAssumption DEF IInv, Queued, Listed, Placed, TypeOK,
       Making, Ending, Threads
<1>5. Bounded'
  BY <1>1, ResolverAssumption DEF IInv, Bounded, Making, Placed, TypeOK,
       Threads
<1>6. Spoken'
  BY <1>1, ResolverAssumption DEF IInv, Spoken, Making, Ending, Placed,
       TypeOK, Threads
<1>7. Alone' /\ Held'
  <2>1. ASSUME ~raced'
        PROVE  /\ \A u \in Threads \ {t} : ~Busy(u, r)
               /\ life'[r] = "live" /\ Busy(t, r)' /\ Fits(t, r)'
    <3>1. ~raced /\ \A u \in Threads \ {t} : ~Busy(u, r)
      BY <1>1, <2>1 DEF Meets
    <3>2. life[r] = "live"
      BY <1>1
    <3>3. Found(r, 1, FALSE, 0)
      BY <1>1, <3>1, <3>2, WaitsAlone DEF Busy
    <3>. QED  BY <1>1, <3>1, <3>2, <3>3, ResolverAssumption
              DEF Busy, Fits, Found, Making, IInv, TypeOK, Threads
  <2>2. t \in Threads /\ r \in Requests
    BY <1>1
  <2>3. \A u \in Threads \ {t} : on'[u] = on[u] /\ pc'[u] = pc[u]
    BY <1>1 DEF IInv, TypeOK
  <2>4. on'[t] = r /\ (on[t] \in {r, None} \/ pc[t] \in {"walk", "back"})
    BY <1>1, ResolverAssumption DEF IInv, TypeOK, Placed, Threads
  <2>5. \A q \in Requests \ {r} : /\ life'[q] = life[q] /\ refc'[q] = refc[q]
                                  /\ cancelled'[q] = cancelled[q] /\ told'[q] = told[q]
    BY <1>1 DEF IInv, TypeOK
  <2>6. raced => raced'
    BY <1>1 DEF Meets
  <2>. QED  BY <1>1, <2>1, <2>2, <2>3, <2>4, <2>5, <2>6, Acting
<1>8. Onward'
  <2>1. \A q \in Requests : life'[q] = "gone" /\ ~cancelled'[q]
                            => life[q] = "gone" /\ ~cancelled[q]
    BY <1>1 DEF IInv, TypeOK
  <2>2. \/ pc'[Monitor] \in {"asleep", "cycle"}
        \/ pc[Monitor] \notin {"asleep", "cycle"} /\ Start' = Start
    <3>1. \A q \in Requests : NextOf(q)' = NextOf(q)
      BY <1>1 DEF NextOf, Listed, Place
    <3>. QED  BY <1>1, <3>1, ResolverAssumption DEF IInv, TypeOK, Placed, Threads, Start
  <2>3. raced => raced'
    BY <1>1 DEF Meets
  <2>. QED  BY <1>1, <2>1, <2>2, <2>3, SameAhead
<1>. QED  BY <1>2, <1>3, <1>4, <1>5, <1>6, <1>7, <1>8 DEF IInv

\* The invariant is kept when an answer is read.
LEMMA KeepsAnswer ==
    ASSUME IInv, NEW r \in Requests, Answer(r)
    PROVE  IInv'
<1>1. /\ Worker \in Threads \ {Monitor}
      /\ pc[Worker] = "idle"
      /\ r \in Requests /\ Listed(r) /\ life[r] = "live"
      /\ pc' = [pc EXCEPT ![Worker] = "picked"]
      /\ on' = [on EXCEPT ![Worker] = r]
      /\ raced' = Meets(Worker, r)
      /\ UNCHANGED <<life, refc, cancelled, queue, behind, rcount, seen,
         missed, up, made, told, inner, cancels>>
  BY ResolverAssumption DEF Answer, Take, Goto, Queued, IInv, TypeOK,
       Placed, Threads, object, list, walk, app, ends
<1>2. TypeOK'
  BY <1>1, ResolverAssumption DEF IInv, TypeOK, Threads, Meets
<1>3. Placed'
  BY <1>1, ResolverAssumption DEF IInv, Placed, TypeOK, Making, Ending,
       Threads
<1>4. Queued'
  BY <1>1, ResolverAssumption DEF IInv, Queued, Listed, Placed, TypeOK,
       Making, Ending, Threads
<1>5. Bounded'
  BY <1>1, ResolverAssumption DEF IInv, Bounded, Making, Placed, TypeOK,
       Threads
<1>6. Spoken'
  BY <1>1, ResolverAssumption DEF IInv, Spoken, Making, Ending, Placed,
       TypeOK, Threads
<1>7. Alone' /\ Held'
  <2>1. ASSUME ~raced'
        PROVE  /\ \A u \in Threads \ {Worker} : ~Busy(u, r)
               /\ life'[r] = "live" /\ Busy(Worker, r)' /\ Fits(Worker, r)'
    <3>1. ~raced /\ \A u \in Threads \ {Worker} : ~Busy(u, r)
      BY <1>1, <2>1 DEF Meets
    <3>2. life[r] = "live"
      BY <1>1
    <3>3. Found(r, 1, FALSE, 0)
      BY <1>1, <3>1, <3>2, WaitsAlone DEF Busy
    <3>. QED  BY <1>1, <3>1, <3>2, <3>3, ResolverAssumption
              DEF Busy, Fits, Found, Making, IInv, TypeOK, Threads
  <2>2. Worker \in Threads /\ r \in Requests
    BY <1>1
  <2>3. \A u \in Threads \ {Worker} : on'[u] = on[u] /\ pc'[u] = pc[u]
    BY <1>1 DEF IInv, TypeOK
  <2>4. on'[Worker] = r /\ (on[Worker] \in {r, None} \/ pc[Worker] \in {"walk", "back"})
    BY <1>1, ResolverAssumption DEF IInv, TypeOK, Placed, Threads
  <2>5. \A q \in Requests \ {r} : /\ life'[q] = life[q] /\ refc'[q] = refc[q]
                                  /\ cancelled'[q] = cancelled[q] /\ told'[q] = told[q]
    BY <1>1 DEF IInv, TypeOK
  <2>6. raced => raced'
    BY <1>1 DEF Meets
  <2>. QED  BY <1>1, <2>1, <2>2, <2>3, <2>4, <2>5, <2>6, Acting
<1>8. Onward'
  <2>1. \A q \in Requests : life'[q] = "gone" /\ ~cancelled'[q]
                            => life[q] = "gone" /\ ~cancelled[q]
    BY <1>1 DEF IInv, TypeOK
  <2>2. \/ pc'[Monitor] \in {"asleep", "cycle"}
        \/ pc[Monitor] \notin {"asleep", "cycle"} /\ Start' = Start
    <3>1. \A q \in Requests : NextOf(q)' = NextOf(q)
      BY <1>1 DEF NextOf, Listed, Place
    <3>. QED  BY <1>1, <3>1, ResolverAssumption DEF IInv, TypeOK, Placed, Threads, Start
  <2>3. raced => raced'
    BY <1>1 DEF Meets
  <2>. QED  BY <1>1, <2>1, <2>2, <2>3, SameAhead
<1>. QED  BY <1>2, <1>3, <1>4, <1>5, <1>6, <1>7, <1>8 DEF IInv

\* The invariant is kept when the worker counts its use.
LEMMA KeepsPicked ==
    ASSUME IInv, Picked
    PROVE  IInv'
<1>0. PICK r \in Requests : r = on[Worker]
  BY ResolverAssumption DEF Picked, IInv, TypeOK, Placed, Threads
<1>1. /\ Worker \in Threads \ {Monitor}
      /\ r = on[Worker] /\ r \in Requests /\ pc[Worker] = "picked"
      /\ refc' = [refc EXCEPT ![r] = @ + 1]
      /\ pc' = [pc EXCEPT ![Worker] = "report"]
      /\ UNCHANGED <<life, cancelled, queue, behind, rcount, on, seen,
         missed, up, made, told, inner, cancels, raced>>
  BY <1>0, ResolverAssumption DEF Picked, Goto, IInv, TypeOK, Placed,
       Threads, object, list, walk, app, ends
<1>2. TypeOK'
  BY <1>1, ResolverAssumption DEF IInv, TypeOK, Threads
<1>3. Placed'
  BY <1>1, ResolverAssumption DEF IInv, Placed, TypeOK, Making, Ending,
       Threads
<1>4. Queued'
  BY <1>1, ResolverAssumption DEF IInv, Queued, Listed, Placed, TypeOK,
       Making, Ending, Threads
<1>5. Bounded'
  BY <1>1, ResolverAssumption DEF IInv, Bounded, Making, Placed, TypeOK,
       Threads
<1>6. Spoken'
  BY <1>1, ResolverAssumption DEF IInv, Spoken, Making, Ending, Placed,
       TypeOK, Threads
<1>7. Alone' /\ Held'
  <2>1. Busy(Worker, r)
    BY <1>1 DEF Busy
  <2>2. ASSUME ~raced'
        PROVE  /\ \A u \in Threads \ {Worker} : ~Busy(u, r)
               /\ life'[r] = "live" => IF Busy(Worker, r)' THEN Fits(Worker, r)'
                                       ELSE Found(r, 1, FALSE, 0)'
               /\ life'[r] = "gone" =>
                    told'[r] <= 1 /\ (Busy(Worker, r)' => Worker = Monitor /\ pc'[Worker] = "back")
    <3>1. ~raced
      BY <1>1, <2>2
    <3>2. /\ \A u \in Threads \ {Worker} : ~Busy(u, r)
          /\ life[r] = "live" => Fits(Worker, r)
          /\ life[r] = "gone" => told[r] <= 1 /\ Worker = Monitor /\ pc[Worker] = "back"
          /\ life[r] \in {"live", "gone"}
      BY <1>1, <2>1, <3>1, FindsIt
    <3>. QED  BY <1>1, <3>2, ResolverAssumption DEF Busy, Fits, Found, Making, IInv, TypeOK, Threads
  <2>3. r \in Requests /\ Worker \in Threads
    BY <1>1
  <2>4. \A u \in Threads \ {Worker} :
          /\ on'[u] = on[u]
          /\ pc'[u] = pc[u] \/ (u = Monitor /\ pc[u] = "asleep" /\ pc'[u] = "cycle")
    BY <1>1, ResolverAssumption DEF IInv, TypeOK
  <2>5. on'[Worker] \in {r, None} /\ on[Worker] = r
    BY <1>1, ResolverAssumption DEF IInv, TypeOK
  <2>6. \A q \in Requests \ {r} : /\ life'[q] = life[q] /\ refc'[q] = refc[q]
                                  /\ cancelled'[q] = cancelled[q] /\ told'[q] = told[q]
    BY <1>1 DEF IInv, TypeOK
  <2>. QED  BY <1>1, <2>2, <2>3, <2>4, <2>5, <2>6, Acting
<1>8. Onward'
  <2>1. \A q \in Requests : life'[q] = "gone" /\ ~cancelled'[q]
                            => life[q] = "gone" /\ ~cancelled[q]
    BY <1>1 DEF IInv, TypeOK
  <2>2. \/ pc'[Monitor] \in {"asleep", "cycle"}
        \/ pc[Monitor] \notin {"asleep", "cycle"} /\ Start' = Start
    <3>1. \A q \in Requests : NextOf(q)' = NextOf(q)
      BY <1>1 DEF NextOf, Listed, Place
    <3>. QED  BY <1>1, <3>1, ResolverAssumption DEF IInv, TypeOK, Placed, Threads, Start
  <2>3. raced => raced'
    BY <1>1 DEF Meets
  <2>. QED  BY <1>1, <2>1, <2>2, <2>3, SameAhead
<1>. QED  BY <1>2, <1>3, <1>4, <1>5, <1>6, <1>7, <1>8 DEF IInv

\* The invariant is kept when a request leaves the queue.
LEMMA KeepsUnlist ==
    ASSUME IInv, NEW t \in Threads, Unlist(t)
    PROVE  IInv'
<1>0. PICK r \in Requests : r = on[t]
  BY ResolverAssumption DEF Unlist, IInv, TypeOK, Placed, Threads
<1>1. /\ t \in Threads
      /\ r = on[t] /\ r \in Requests /\ pc[t] = "unlist"
      /\ behind' = [behind EXCEPT ![r] = NextOf(r)]
      /\ NextOf(r) \in Requests \cup {None} /\ (NextOf(r) # None =>
         life[NextOf(r)] # "none")
      /\ queue' \in Seq(Requests) /\ IsInjective(queue') /\ ToSet(queue') =
         ToSet(queue) \ {r}
      /\ pc' = [pc EXCEPT ![t] = "drop"]
      /\ UNCHANGED <<life, refc, cancelled, rcount, on, seen, missed, up,
         made, told, inner, cancels, raced>>
  BY <1>0, ResolverAssumption, Leaving, LinkIsCreated DEF Unlist, Goto,
       Queued, IInv, TypeOK, Placed, Threads, object, list, walk, app,
       ends
<1>2. TypeOK'
  BY <1>1, ResolverAssumption DEF IInv, TypeOK, Threads
<1>3. Placed'
  BY <1>1, ResolverAssumption DEF IInv, Placed, TypeOK, Making, Ending,
       Threads
<1>4. Queued'
  BY <1>1, ResolverAssumption DEF IInv, Queued, Listed, Placed, TypeOK,
       Making, Ending, Threads
<1>5. Bounded'
  BY <1>1, ResolverAssumption DEF IInv, Bounded, Making, Placed, TypeOK,
       Threads
<1>6. Spoken'
  BY <1>1, ResolverAssumption DEF IInv, Spoken, Making, Ending, Placed,
       TypeOK, Threads
<1>7. Alone' /\ Held'
  <2>1. Busy(t, r)
    BY <1>1 DEF Busy
  <2>2. ASSUME ~raced'
        PROVE  /\ \A u \in Threads \ {t} : ~Busy(u, r)
               /\ life'[r] = "live" => IF Busy(t, r)' THEN Fits(t, r)'
                                       ELSE Found(r, 1, FALSE, 0)'
               /\ life'[r] = "gone" =>
                    told'[r] <= 1 /\ (Busy(t, r)' => t = Monitor /\ pc'[t] = "back")
    <3>1. ~raced
      BY <1>1, <2>2
    <3>2. /\ \A u \in Threads \ {t} : ~Busy(u, r)
          /\ life[r] = "live" => Fits(t, r)
          /\ life[r] = "gone" => told[r] <= 1 /\ t = Monitor /\ pc[t] = "back"
          /\ life[r] \in {"live", "gone"}
      BY <1>1, <2>1, <3>1, FindsIt
    <3>. QED  BY <1>1, <3>2, ResolverAssumption DEF Busy, Fits, Found, Making, IInv, TypeOK, Threads
  <2>3. r \in Requests /\ t \in Threads
    BY <1>1
  <2>4. \A u \in Threads \ {t} :
          /\ on'[u] = on[u]
          /\ pc'[u] = pc[u] \/ (u = Monitor /\ pc[u] = "asleep" /\ pc'[u] = "cycle")
    BY <1>1, ResolverAssumption DEF IInv, TypeOK
  <2>5. on'[t] \in {r, None} /\ on[t] = r
    BY <1>1, ResolverAssumption DEF IInv, TypeOK
  <2>6. \A q \in Requests \ {r} : /\ life'[q] = life[q] /\ refc'[q] = refc[q]
                                  /\ cancelled'[q] = cancelled[q] /\ told'[q] = told[q]
    BY <1>1 DEF IInv, TypeOK
  <2>. QED  BY <1>1, <2>2, <2>3, <2>4, <2>5, <2>6, Acting
<1>8. Onward'
  <2>1. ASSUME NEW q \in Requests
        PROVE  NextOf(q)' \in {NextOf(q), None} \cup ToSet(queue')
    <3>1. CASE Listed(q)'
      BY <3>1, <1>2, NextIsListedNext
    <3>2. CASE ~Listed(q)' /\ q = r
      BY <1>1, <3>2 DEF NextOf, IInv, TypeOK
    <3>3. CASE ~Listed(q)' /\ q # r
      <4>1. ~Listed(q)
        BY <1>1, <3>3 DEF Listed
      <4>. QED  BY <1>1, <3>3, <4>1 DEF NextOf, IInv, TypeOK
    <3>. QED  BY <3>1, <3>2, <3>3
  <2>2. on'[Monitor] = on[Monitor] /\ (pc'[Monitor] = pc[Monitor]
             \/ (pc[Monitor] = "unlist" /\ pc'[Monitor] = "drop"))
    BY <1>1, ResolverAssumption DEF IInv, TypeOK, Threads
  <2>3. \A q \in Requests : life'[q] = "gone" /\ ~cancelled'[q]
                            => life[q] = "gone" /\ ~cancelled[q]
    BY <1>1 DEF IInv, TypeOK
  <2>4. raced => raced'
    BY <1>1 DEF Meets
  <2>. QED  BY <1>1, <1>2, <1>4, <2>1, <2>2, <2>3, <2>4, StaysOnward
<1>. QED  BY <1>2, <1>3, <1>4, <1>5, <1>6, <1>7, <1>8 DEF IInv

\* The invariant is kept when a request's own reference is dropped.
LEMMA KeepsDrop ==
    ASSUME IInv, NEW t \in Threads, Drop(t)
    PROVE  IInv'
<1>0. PICK r \in Requests : r = on[t]
  BY ResolverAssumption DEF Drop, IInv, TypeOK, Placed, Threads
<1>1. /\ t \in Threads
      /\ r = on[t] /\ r \in Requests /\ pc[t] = "drop"
      /\ cancelled' = [cancelled EXCEPT ![r] = TRUE]
      /\ refc' = [refc EXCEPT ![r] = @ - 1]
      /\ life' = [life EXCEPT ![r] = IF refc[r] = 1 THEN "gone" ELSE @]
      /\ pc' = [pc EXCEPT ![t] = IF t = Monitor /\ t \notin inner THEN
         "back" ELSE "release"]
      /\ UNCHANGED <<queue, behind, rcount, on, seen, missed, up, made,
         told, inner, cancels, raced>>
  BY <1>0, ResolverAssumption DEF Drop, Decref, Goto, Leave, IInv, TypeOK,
       Placed, Threads, object, list, walk, app, ends
<1>2. TypeOK'
  BY <1>1, ResolverAssumption DEF IInv, TypeOK, Threads
<1>3. Placed'
  BY <1>1, ResolverAssumption DEF IInv, Placed, TypeOK, Making, Ending,
       Threads
<1>4. Queued'
  BY <1>1, ResolverAssumption DEF IInv, Queued, Listed, Placed, TypeOK,
       Making, Ending, Threads
<1>5. Bounded'
  BY <1>1, ResolverAssumption DEF IInv, Bounded, Making, Placed, TypeOK,
       Threads
<1>6. Spoken'
  BY <1>1, ResolverAssumption DEF IInv, Spoken, Making, Ending, Placed,
       TypeOK, Threads
<1>7. Alone' /\ Held'
  <2>1. Busy(t, r)
    BY <1>1 DEF Busy
  <2>2. ASSUME ~raced'
        PROVE  /\ \A u \in Threads \ {t} : ~Busy(u, r)
               /\ life'[r] = "live" => IF Busy(t, r)' THEN Fits(t, r)'
                                       ELSE Found(r, 1, FALSE, 0)'
               /\ life'[r] = "gone" =>
                    told'[r] <= 1 /\ (Busy(t, r)' => t = Monitor /\ pc'[t] = "back")
    <3>1. ~raced
      BY <1>1, <2>2
    <3>2. /\ \A u \in Threads \ {t} : ~Busy(u, r)
          /\ life[r] = "live" => Fits(t, r)
          /\ life[r] = "gone" => told[r] <= 1 /\ t = Monitor /\ pc[t] = "back"
          /\ life[r] \in {"live", "gone"}
      BY <1>1, <2>1, <3>1, FindsIt
    <3>3. inner = {}
      BY <3>1 DEF IInv, Alone
    <3>. QED  BY <1>1, <3>2, <3>3, ResolverAssumption DEF Busy, Fits, Found, Making, IInv, TypeOK, Threads
  <2>3. r \in Requests /\ t \in Threads
    BY <1>1
  <2>4. \A u \in Threads \ {t} :
          /\ on'[u] = on[u]
          /\ pc'[u] = pc[u] \/ (u = Monitor /\ pc[u] = "asleep" /\ pc'[u] = "cycle")
    BY <1>1, ResolverAssumption DEF IInv, TypeOK
  <2>5. on'[t] \in {r, None} /\ on[t] = r
    BY <1>1, ResolverAssumption DEF IInv, TypeOK
  <2>6. \A q \in Requests \ {r} : /\ life'[q] = life[q] /\ refc'[q] = refc[q]
                                  /\ cancelled'[q] = cancelled[q] /\ told'[q] = told[q]
    BY <1>1 DEF IInv, TypeOK
  <2>. QED  BY <1>1, <2>2, <2>3, <2>4, <2>5, <2>6, Acting
<1>8. Onward'
  <2>1. \A q \in Requests : life'[q] = "gone" /\ ~cancelled'[q]
                            => life[q] = "gone" /\ ~cancelled[q]
    BY <1>1 DEF IInv, TypeOK
  <2>2. \/ pc'[Monitor] \in {"asleep", "cycle"}
        \/ pc[Monitor] \notin {"asleep", "cycle"} /\ Start' = Start
    <3>1. \A q \in Requests : NextOf(q)' = NextOf(q)
      BY <1>1 DEF NextOf, Listed, Place
    <3>. QED  BY <1>1, <3>1, ResolverAssumption DEF IInv, TypeOK, Placed, Threads, Start
  <2>3. raced => raced'
    BY <1>1 DEF Meets
  <2>. QED  BY <1>1, <2>1, <2>2, <2>3, SameAhead
<1>. QED  BY <1>2, <1>3, <1>4, <1>5, <1>6, <1>7, <1>8 DEF IInv

\* The invariant is kept when a thread's reference is dropped.
LEMMA KeepsRelease ==
    ASSUME IInv, NEW t \in Threads, t \notin inner, Release(t)
    PROVE  IInv'
<1>0. PICK r \in Requests : r = on[t]
  BY ResolverAssumption DEF Release, IInv, TypeOK, Placed, Threads
<1>a. t # Monitor /\ t \notin inner
  BY DEF Release, IInv, Placed
<1>1. /\ t \in Threads \ {Monitor}
      /\ r = on[t] /\ r \in Requests /\ pc[t] = "release"
      /\ refc' = [refc EXCEPT ![r] = @ - 1]
      /\ life' = [life EXCEPT ![r] = IF refc[r] = 1 /\ cancelled[r] THEN
         "gone" ELSE @]
      /\ pc' = [pc EXCEPT ![t] = "idle"]
      /\ on' = [on EXCEPT ![t] = None]
      /\ UNCHANGED <<cancelled, queue, behind, rcount, seen, missed, up,
         made, told, inner, cancels, raced>>
  BY <1>0, ResolverAssumption, <1>a DEF Release, Decref, Goto, Leave,
       IInv, TypeOK, Placed, Threads, object, list, walk, app, ends
<1>2. TypeOK'
  BY <1>1, ResolverAssumption DEF IInv, TypeOK, Threads
<1>3. Placed'
  <2>1. /\ pc'[Monitor] = "release" => Monitor \in inner'
        /\ \A u \in inner' : pc'[u] \in {"report"} \cup Ending
    BY <1>1, ResolverAssumption DEF IInv, Placed, TypeOK, Threads, Ending
  <2>2. \A u \in Threads : on'[u] # None => life'[on'[u]] # "none"
    BY <1>1, ResolverAssumption DEF IInv, Placed, TypeOK
  <2>3. /\ pc'[Worker] \in {"idle", "picked", "report"} \cup Ending
        /\ pc'[Monitor] \in {"asleep", "cycle", "walk", "resend", "back", "report"} \cup Ending
        /\ \A u \in Callers : pc'[u] \in {"idle", "report"} \cup Making \cup Ending
    BY <1>1, ResolverAssumption DEF IInv, Placed, TypeOK, Making, Ending, Threads
  <2>4. /\ \A u \in Threads \ {Monitor} : pc'[u] = "idle" <=> on'[u] = None
        /\ pc'[Monitor] \in {"asleep", "cycle"} => on'[Monitor] = None
        /\ on'[Monitor] = None => pc'[Monitor] \in {"asleep", "cycle", "walk"}
    BY <1>1, ResolverAssumption DEF IInv, Placed, TypeOK, Threads
  <2>5. \A q \in Requests : behind'[q] # None => life'[behind'[q]] # "none"
    BY <1>1 DEF IInv, Placed, TypeOK
  <2>. QED  BY <2>1, <2>2, <2>3, <2>4, <2>5 DEF Placed
<1>4. Queued'
  BY SMTT(30), <1>1, ResolverAssumption DEF IInv, Queued, Listed, Placed, TypeOK,
       Making, Ending, Threads
<1>5. Bounded'
  BY <1>1, ResolverAssumption DEF IInv, Bounded, Making, Placed, TypeOK,
       Threads
<1>6. Spoken'
  BY SMTT(30), <1>1, ResolverAssumption DEF IInv, Spoken, Making, Ending, Placed,
       TypeOK, Threads
<1>7. Alone' /\ Held'
  <2>1. Busy(t, r)
    BY <1>1 DEF Busy
  <2>2. ASSUME ~raced'
        PROVE  /\ \A u \in Threads \ {t} : ~Busy(u, r)
               /\ life'[r] = "live" => IF Busy(t, r)' THEN Fits(t, r)'
                                       ELSE Found(r, 1, FALSE, 0)'
               /\ life'[r] = "gone" =>
                    told'[r] <= 1 /\ (Busy(t, r)' => t = Monitor /\ pc'[t] = "back")
    <3>1. ~raced
      BY <1>1, <2>2
    <3>2. /\ \A u \in Threads \ {t} : ~Busy(u, r)
          /\ life[r] = "live" => Fits(t, r)
          /\ life[r] = "gone" => told[r] <= 1 /\ t = Monitor /\ pc[t] = "back"
          /\ life[r] \in {"live", "gone"}
      BY <1>1, <2>1, <3>1, FindsIt
    <3>. QED  BY <1>1, <3>2, ResolverAssumption DEF Busy, Fits, Found, Making, IInv, TypeOK, Threads
  <2>3. r \in Requests /\ t \in Threads
    BY <1>1
  <2>4. \A u \in Threads \ {t} :
          /\ on'[u] = on[u]
          /\ pc'[u] = pc[u] \/ (u = Monitor /\ pc[u] = "asleep" /\ pc'[u] = "cycle")
    BY <1>1, ResolverAssumption DEF IInv, TypeOK
  <2>5. on'[t] \in {r, None} /\ on[t] = r
    BY <1>1, ResolverAssumption DEF IInv, TypeOK
  <2>6. \A q \in Requests \ {r} : /\ life'[q] = life[q] /\ refc'[q] = refc[q]
                                  /\ cancelled'[q] = cancelled[q] /\ told'[q] = told[q]
    BY <1>1 DEF IInv, TypeOK
  <2>. QED  BY <1>1, <2>2, <2>3, <2>4, <2>5, <2>6, Acting
<1>8. Onward'
  <2>1. \A q \in Requests : life'[q] = "gone" /\ ~cancelled'[q]
                            => life[q] = "gone" /\ ~cancelled[q]
    BY <1>1 DEF IInv, TypeOK
  <2>2. \/ pc'[Monitor] \in {"asleep", "cycle"}
        \/ pc[Monitor] \notin {"asleep", "cycle"} /\ Start' = Start
    <3>1. \A q \in Requests : NextOf(q)' = NextOf(q)
      BY <1>1 DEF NextOf, Listed, Place
    <3>. QED  BY <1>1, <3>1, ResolverAssumption DEF IInv, TypeOK, Placed, Threads, Start
  <2>3. raced => raced'
    BY <1>1 DEF Meets
  <2>. QED  BY <1>1, <2>1, <2>2, <2>3, SameAhead
<1>. QED  BY <1>2, <1>3, <1>4, <1>5, <1>6, <1>7, <1>8 DEF IInv

\* The invariant is kept when a handler's call of rascal_cancel returns.
LEMMA KeepsReturn ==
    ASSUME IInv, NEW t \in Threads, t \in inner, Release(t)
    PROVE  IInv'
<1>0. PICK r \in Requests : r = on[t]
  BY ResolverAssumption DEF Release, IInv, TypeOK, Placed, Threads
<1>a. raced
  BY DEF IInv, Alone
<1>1. /\ t \in Threads /\ t \in inner
      /\ r = on[t] /\ r \in Requests /\ pc[t] = "release" /\ raced
      /\ refc' = [refc EXCEPT ![r] = @ - 1]
      /\ life' = [life EXCEPT ![r] = IF refc[r] = 1 /\ cancelled[r] THEN
         "gone" ELSE @]
      /\ pc' = [pc EXCEPT ![t] = "unlist"]
      /\ inner' = inner \ {t}
      /\ UNCHANGED <<cancelled, queue, behind, rcount, on, seen, missed,
         up, made, told, cancels, raced>>
  BY <1>0, ResolverAssumption, <1>a DEF Release, Decref, Goto, Alone,
       IInv, TypeOK, Placed, Threads, object, list, walk, app, ends
<1>2. TypeOK'
  BY <1>1, ResolverAssumption DEF IInv, TypeOK, Threads
<1>3. Placed'
  <2>1. /\ pc'[Monitor] = "release" => Monitor \in inner'
        /\ \A u \in inner' : pc'[u] \in {"report"} \cup Ending
    BY <1>1, ResolverAssumption DEF IInv, Placed, TypeOK, Threads, Ending
  <2>2. \A u \in Threads : on'[u] # None => life'[on'[u]] # "none"
    BY <1>1, ResolverAssumption DEF IInv, Placed, TypeOK
  <2>3. /\ pc'[Worker] \in {"idle", "picked", "report"} \cup Ending
        /\ pc'[Monitor] \in {"asleep", "cycle", "walk", "resend", "back", "report"} \cup Ending
        /\ \A u \in Callers : pc'[u] \in {"idle", "report"} \cup Making \cup Ending
    BY <1>1, ResolverAssumption DEF IInv, Placed, TypeOK, Making, Ending, Threads
  <2>4. /\ \A u \in Threads \ {Monitor} : pc'[u] = "idle" <=> on'[u] = None
        /\ pc'[Monitor] \in {"asleep", "cycle"} => on'[Monitor] = None
        /\ on'[Monitor] = None => pc'[Monitor] \in {"asleep", "cycle", "walk"}
    BY <1>1, ResolverAssumption DEF IInv, Placed, TypeOK, Threads
  <2>5. \A q \in Requests : behind'[q] # None => life'[behind'[q]] # "none"
    BY <1>1 DEF IInv, Placed, TypeOK
  <2>. QED  BY <2>1, <2>2, <2>3, <2>4, <2>5 DEF Placed
<1>4. Queued'
  BY <1>1, ResolverAssumption DEF IInv, Queued, Listed, Placed, TypeOK,
       Making, Ending, Threads
<1>5. Bounded'
  BY <1>1, ResolverAssumption DEF IInv, Bounded, Making, Placed, TypeOK,
       Threads
<1>6. Spoken'
  BY SMTT(30), <1>1, ResolverAssumption DEF IInv, Spoken, Making, Ending, Placed,
       TypeOK, Threads
<1>7. Alone' /\ Held'
  BY <1>1 DEF Alone, Held, IInv
<1>8. Onward'
  BY <1>1 DEF Onward
<1>. QED  BY <1>2, <1>3, <1>4, <1>5, <1>6, <1>7, <1>8 DEF IInv

\* The invariant is kept when the monitor wakes up.
LEMMA KeepsRouse ==
    ASSUME IInv, Rouse
    PROVE  IInv'
<1>1. /\ Monitor \in Threads /\ Monitor # Worker /\ Monitor \notin Callers
      /\ pc[Monitor] = "asleep"
      /\ pc' = [pc EXCEPT ![Monitor] = "cycle"]
      /\ missed' \in BOOLEAN
      /\ UNCHANGED <<life, refc, cancelled, queue, behind, rcount, on,
         seen, up, made, told, inner, cancels, raced>>
  BY ResolverAssumption DEF Rouse, Goto, IInv, TypeOK, Placed, Threads,
       object, list, walk, app, ends
<1>2. TypeOK'
  BY <1>1, ResolverAssumption DEF IInv, TypeOK, Threads
<1>3. Placed'
  BY <1>1, ResolverAssumption DEF IInv, Placed, TypeOK, Making, Ending,
       Threads
<1>4. Queued'
  BY <1>1, ResolverAssumption DEF IInv, Queued, Listed, Placed, TypeOK,
       Making, Ending, Threads
<1>5. Bounded'
  BY <1>1, ResolverAssumption DEF IInv, Bounded, Making, Placed, TypeOK,
       Threads
<1>6. Spoken'
  BY <1>1, ResolverAssumption DEF IInv, Spoken, Making, Ending, Placed,
       TypeOK, Threads
<1>7. Alone' /\ Held'
  <2>1. \A u \in Threads, q \in Requests :
          (Busy(u, q)' <=> Busy(u, q)) /\ (Busy(u, q) => pc'[u] = pc[u])
    BY <1>1, ResolverAssumption DEF Busy, IInv, TypeOK, Placed, Threads
  <2>. QED  BY <1>1, <2>1, Idling
<1>8. Onward'
  <2>1. \A q \in Requests : life'[q] = "gone" /\ ~cancelled'[q]
                            => life[q] = "gone" /\ ~cancelled[q]
    BY <1>1 DEF IInv, TypeOK
  <2>2. \/ pc'[Monitor] \in {"asleep", "cycle"}
        \/ pc[Monitor] \notin {"asleep", "cycle"} /\ Start' = Start
    <3>1. \A q \in Requests : NextOf(q)' = NextOf(q)
      BY <1>1 DEF NextOf, Listed, Place
    <3>. QED  BY <1>1, <3>1, ResolverAssumption DEF IInv, TypeOK, Placed, Threads, Start
  <2>3. raced => raced'
    BY <1>1 DEF Meets
  <2>. QED  BY <1>1, <2>1, <2>2, <2>3, SameAhead
<1>. QED  BY <1>2, <1>3, <1>4, <1>5, <1>6, <1>7, <1>8 DEF IInv

\* The invariant is kept when the monitor reads the head.
LEMMA KeepsCycle ==
    ASSUME IInv, Cycle
    PROVE  IInv'
<1>0. PICK r \in Heads : Take(Monitor, r, "walk") /\ missed' = (r = None /\ Len(queue) > 1)
  BY DEF Cycle
<1>h. r = None \/ (r \in Requests /\ Listed(r))
  BY <1>0, HeadIsListed
<1>1. /\ Monitor \in Threads /\ Monitor # Worker /\ Monitor \notin Callers
      /\ pc[Monitor] = "cycle" /\ on[Monitor] = None
      /\ r = None \/ (r \in Requests /\ Listed(r) /\ life[r] = "live")
      /\ pc' = [pc EXCEPT ![Monitor] = "walk"]
      /\ on' = [on EXCEPT ![Monitor] = r]
      /\ raced' = Meets(Monitor, r)
      /\ missed' \in BOOLEAN
      /\ UNCHANGED <<life, refc, cancelled, queue, behind, rcount, seen,
         up, made, told, inner, cancels>>
  BY ResolverAssumption, <1>0, <1>h DEF Cycle, Take, Goto, Queued, IInv,
       TypeOK, Placed, Threads, object, list, walk, app, ends
<1>2. TypeOK'
  BY <1>1, ResolverAssumption DEF IInv, TypeOK, Threads, Meets
<1>3. Placed'
  BY <1>1, ResolverAssumption DEF IInv, Placed, TypeOK, Making, Ending,
       Threads
<1>4. Queued'
  BY <1>1, ResolverAssumption DEF IInv, Queued, Listed, Placed, TypeOK,
       Making, Ending, Threads
<1>5. Bounded'
  BY <1>1, ResolverAssumption DEF IInv, Bounded, Making, Placed, TypeOK,
       Threads
<1>6. Spoken'
  BY <1>1, ResolverAssumption DEF IInv, Spoken, Making, Ending, Placed,
       TypeOK, Threads
<1>7. Alone' /\ Held'
  <2>1. CASE r \in Requests
    <3>1. ASSUME ~raced'
          PROVE  /\ \A u \in Threads \ {Monitor} : ~Busy(u, r)
                 /\ life'[r] = "live" /\ Busy(Monitor, r)' /\ Fits(Monitor, r)'
      <4>1. ~raced /\ \A u \in Threads \ {Monitor} : ~Busy(u, r)
        BY <1>1, <2>1, <3>1 DEF Meets
      <4>2. life[r] = "live"
        BY <1>1, <2>1, ResolverAssumption
      <4>3. Found(r, 1, FALSE, 0)
        BY <1>1, <2>1, <4>1, <4>2, WaitsAlone, ResolverAssumption DEF Busy
      <4>. QED  BY <1>1, <2>1, <4>1, <4>2, <4>3, ResolverAssumption
                DEF Busy, Fits, Found, Making, IInv, TypeOK, Threads
    <3>2. Monitor \in Threads /\ r \in Requests
      BY <1>1, <2>1
    <3>3. \A u \in Threads \ {Monitor} : on'[u] = on[u] /\ pc'[u] = pc[u]
      BY <1>1, <2>1 DEF IInv, TypeOK
    <3>4. on'[Monitor] = r /\ (on[Monitor] \in {r, None} \/ pc[Monitor] \in {"walk", "back"})
      BY <1>1, <2>1, ResolverAssumption DEF IInv, TypeOK, Placed, Threads
    <3>5. \A q \in Requests \ {r} : /\ life'[q] = life[q] /\ refc'[q] = refc[q]
                                    /\ cancelled'[q] = cancelled[q] /\ told'[q] = told[q]
      BY <1>1, <2>1 DEF IInv, TypeOK
    <3>6. raced => raced'
      BY <1>1, <2>1 DEF Meets
    <3>. QED  BY <1>1, <2>1, <3>1, <3>2, <3>3, <3>4, <3>5, <3>6, Acting
  <2>2. CASE r = None
    <3>1. \A u \in Threads, q \in Requests :
            (Busy(u, q)' <=> Busy(u, q)) /\ (Busy(u, q) => pc'[u] = pc[u])
      BY <1>1, <2>2, ResolverAssumption DEF Busy, IInv, TypeOK
    <3>2. raced => raced'
      BY <1>1 DEF Meets
    <3>. QED  BY <1>1, <3>1, <3>2, Idling
  <2>. QED  BY <1>1, <2>1, <2>2
<1>8. Onward'
  <2>. DEFINE S == ToSet(queue)
  <2>1. \A q \in Requests : NextOf(q)' = NextOf(q)
    BY <1>1 DEF NextOf, Listed, Place
  <2>2. S \in SUBSET Requests
    BY <1>1 DEF ToSet, IInv, TypeOK
  <2>3. Start' \in S \cup {None}
    BY <1>1 DEF Start, Listed, IInv, TypeOK
  <2>4. \A q \in S : NextOf(q)' \in S \cup {None}
    BY <2>1, <2>2, NextIsListed DEF Listed, IInv
  <2>5. Ahead' \subseteq S
    BY <2>2, <2>3, <2>4, AheadWithinNext
  <2>6. \A q \in S : life'[q] = "live"
    BY <1>1, <2>2 DEF IInv, Queued, Listed
  <2>. QED  BY <2>5, <2>6 DEF Onward
<1>. QED  BY <1>2, <1>3, <1>4, <1>5, <1>6, <1>7, <1>8 DEF IInv

\* The invariant is kept when the monitor gives a request up.
LEMMA KeepsExpire ==
    ASSUME IInv, NEW r \in Requests, Expire(r)
    PROVE  IInv'
<1>1. /\ Monitor \in Threads /\ Monitor # Worker /\ Monitor \notin Callers
      /\ pc[Monitor] \in {"walk", "back"}
      /\ r \in Requests /\ r \in Ahead /\ ~cancelled[r] /\ life[r] # "none"
      /\ \A t \in Callers : ~(on[t] = r /\ pc[t] \in {"built", "undo"})
      /\ pc' = [pc EXCEPT ![Monitor] = "report"]
      /\ on' = [on EXCEPT ![Monitor] = r]
      /\ raced' = Meets(Monitor, r)
      /\ seen' = TRUE
      /\ UNCHANGED <<life, refc, cancelled, queue, behind, rcount, missed,
         up, made, told, inner, cancels>>
  BY ResolverAssumption, AheadCreated DEF Expire, Take, Goto, Walks, IInv,
       TypeOK, Placed, Threads, object, list, walk, app, ends
<1>2. TypeOK'
  BY <1>1, ResolverAssumption DEF IInv, TypeOK, Threads, Meets
<1>3. Placed'
  BY <1>1, ResolverAssumption DEF IInv, Placed, TypeOK, Making, Ending,
       Threads
<1>4. Queued'
  BY <1>1, ResolverAssumption DEF IInv, Queued, Listed, Placed, TypeOK,
       Making, Ending, Threads
<1>5. Bounded'
  BY <1>1, ResolverAssumption DEF IInv, Bounded, Making, Placed, TypeOK,
       Threads
<1>6. Spoken'
  BY <1>1, ResolverAssumption DEF IInv, Spoken, Making, Ending, Placed,
       TypeOK, Threads
<1>7. Alone' /\ Held'
  <2>1. ASSUME ~raced'
        PROVE  /\ \A u \in Threads \ {Monitor} : ~Busy(u, r)
               /\ life'[r] = "live" /\ Busy(Monitor, r)' /\ Fits(Monitor, r)'
    <3>1. ~raced /\ \A u \in Threads \ {Monitor} : ~Busy(u, r)
      BY <1>1, <2>1 DEF Meets
    <3>2. life[r] = "live"
      BY <1>1, <3>1, ResolverAssumption DEF IInv, TypeOK, Onward
    <3>3. Found(r, 1, FALSE, 0)
      <4>1. CASE Busy(Monitor, r)
        BY <1>1, <3>1, <3>2, <4>1, FindsIt DEF Fits, Threads
      <4>2. CASE ~Busy(Monitor, r)
        BY <1>1, <3>1, <3>2, <4>2, WaitsAlone
      <4>. QED  BY <4>1, <4>2
    <3>. QED  BY <1>1, <3>1, <3>2, <3>3, ResolverAssumption
              DEF Busy, Fits, Found, Making, IInv, TypeOK, Threads
  <2>2. Monitor \in Threads /\ r \in Requests
    BY <1>1
  <2>3. \A u \in Threads \ {Monitor} : on'[u] = on[u] /\ pc'[u] = pc[u]
    BY <1>1 DEF IInv, TypeOK
  <2>4. on'[Monitor] = r /\ (on[Monitor] \in {r, None} \/ pc[Monitor] \in {"walk", "back"})
    BY <1>1, ResolverAssumption DEF IInv, TypeOK, Placed, Threads
  <2>5. \A q \in Requests \ {r} : /\ life'[q] = life[q] /\ refc'[q] = refc[q]
                                  /\ cancelled'[q] = cancelled[q] /\ told'[q] = told[q]
    BY <1>1 DEF IInv, TypeOK
  <2>6. raced => raced'
    BY <1>1 DEF Meets
  <2>. QED  BY <1>1, <2>1, <2>2, <2>3, <2>4, <2>5, <2>6, Acting
<1>8. Onward'
  <2>1. NextOf(r)' = NextOf(r) /\ \A q \in Requests : NextOf(q)' = NextOf(q)
    BY <1>1 DEF NextOf, Listed, Place
  <2>2. Start' \in Ahead \cup {None}
    BY <1>1, <2>1, AheadCloses DEF Start, HasNext, IInv, TypeOK
  <2>3. \A q \in Ahead : q \in Requests
    BY DEF Ahead
  <2>4. \A q \in Ahead : NextOf(q)' \in Ahead \cup {None}
    BY <2>1, <2>3, AheadCloses DEF HasNext, IInv
  <2>5. Ahead' \subseteq Ahead
    BY <2>2, <2>3, <2>4, AheadWithinNext
  <2>6. raced => raced'
    BY <1>1 DEF Meets
  <2>7. pc[Monitor] \notin {"asleep", "cycle"}
    BY <1>1
  <2>. QED  BY <1>1, <2>3, <2>5, <2>6, <2>7 DEF Onward, IInv
<1>. QED  BY <1>2, <1>3, <1>4, <1>5, <1>6, <1>7, <1>8 DEF IInv

\* The invariant is kept when the monitor chooses to send a request again.
LEMMA KeepsRetries ==
    ASSUME IInv, NEW r \in Requests, Retries(r)
    PROVE  IInv'
<1>1. /\ Monitor \in Threads /\ Monitor # Worker /\ Monitor \notin Callers
      /\ pc[Monitor] \in {"walk", "back"}
      /\ r \in Requests /\ r \in Ahead /\ ~cancelled[r] /\ life[r] # "none"
      /\ rcount[r] < Retry
      /\ pc' = [pc EXCEPT ![Monitor] = "resend"]
      /\ on' = [on EXCEPT ![Monitor] = r]
      /\ raced' = Meets(Monitor, r)
      /\ seen' = TRUE
      /\ UNCHANGED <<life, refc, cancelled, queue, behind, rcount, missed,
         up, made, told, inner, cancels>>
  BY ResolverAssumption, AheadCreated DEF Retries, Take, Goto, Walks,
       IInv, TypeOK, Placed, Threads, object, list, walk, app, ends
<1>2. TypeOK'
  BY <1>1, ResolverAssumption DEF IInv, TypeOK, Threads, Meets
<1>3. Placed'
  BY <1>1, ResolverAssumption DEF IInv, Placed, TypeOK, Making, Ending,
       Threads
<1>4. Queued'
  BY <1>1, ResolverAssumption DEF IInv, Queued, Listed, Placed, TypeOK,
       Making, Ending, Threads
<1>5. Bounded'
  BY <1>1, ResolverAssumption DEF IInv, Bounded, Making, Placed, TypeOK,
       Threads
<1>6. Spoken'
  BY <1>1, ResolverAssumption DEF IInv, Spoken, Making, Ending, Placed,
       TypeOK, Threads
<1>7. Alone' /\ Held'
  <2>1. ASSUME ~raced'
        PROVE  /\ \A u \in Threads \ {Monitor} : ~Busy(u, r)
               /\ life'[r] = "live" /\ Busy(Monitor, r)' /\ Fits(Monitor, r)'
    <3>1. ~raced /\ \A u \in Threads \ {Monitor} : ~Busy(u, r)
      BY <1>1, <2>1 DEF Meets
    <3>2. life[r] = "live"
      BY <1>1, <3>1, ResolverAssumption DEF IInv, TypeOK, Onward
    <3>3. Found(r, 1, FALSE, 0)
      <4>1. CASE Busy(Monitor, r)
        BY <1>1, <3>1, <3>2, <4>1, FindsIt DEF Fits, Threads
      <4>2. CASE ~Busy(Monitor, r)
        BY <1>1, <3>1, <3>2, <4>2, WaitsAlone
      <4>. QED  BY <4>1, <4>2
    <3>. QED  BY <1>1, <3>1, <3>2, <3>3, ResolverAssumption
              DEF Busy, Fits, Found, Making, IInv, TypeOK, Threads
  <2>2. Monitor \in Threads /\ r \in Requests
    BY <1>1
  <2>3. \A u \in Threads \ {Monitor} : on'[u] = on[u] /\ pc'[u] = pc[u]
    BY <1>1 DEF IInv, TypeOK
  <2>4. on'[Monitor] = r /\ (on[Monitor] \in {r, None} \/ pc[Monitor] \in {"walk", "back"})
    BY <1>1, ResolverAssumption DEF IInv, TypeOK, Placed, Threads
  <2>5. \A q \in Requests \ {r} : /\ life'[q] = life[q] /\ refc'[q] = refc[q]
                                  /\ cancelled'[q] = cancelled[q] /\ told'[q] = told[q]
    BY <1>1 DEF IInv, TypeOK
  <2>6. raced => raced'
    BY <1>1 DEF Meets
  <2>. QED  BY <1>1, <2>1, <2>2, <2>3, <2>4, <2>5, <2>6, Acting
<1>8. Onward'
  <2>1. NextOf(r)' = NextOf(r) /\ \A q \in Requests : NextOf(q)' = NextOf(q)
    BY <1>1 DEF NextOf, Listed, Place
  <2>2. Start' \in Ahead \cup {None}
    BY <1>1, <2>1, AheadCloses DEF Start, HasNext, IInv, TypeOK
  <2>3. \A q \in Ahead : q \in Requests
    BY DEF Ahead
  <2>4. \A q \in Ahead : NextOf(q)' \in Ahead \cup {None}
    BY <2>1, <2>3, AheadCloses DEF HasNext, IInv
  <2>5. Ahead' \subseteq Ahead
    BY <2>2, <2>3, <2>4, AheadWithinNext
  <2>6. raced => raced'
    BY <1>1 DEF Meets
  <2>7. pc[Monitor] \notin {"asleep", "cycle"}
    BY <1>1
  <2>. QED  BY <1>1, <2>3, <2>5, <2>6, <2>7 DEF Onward, IInv
<1>. QED  BY <1>2, <1>3, <1>4, <1>5, <1>6, <1>7, <1>8 DEF IInv

\* The invariant is kept when the monitor sends a request again.
LEMMA KeepsResend ==
    ASSUME IInv, Resend
    PROVE  IInv'
<1>0. PICK r \in Requests : r = on[Monitor]
  BY ResolverAssumption DEF Resend, IInv, TypeOK, Placed, Threads
<1>1. /\ Monitor \in Threads /\ Monitor # Worker /\ Monitor \notin Callers
      /\ r = on[Monitor] /\ r \in Requests /\ pc[Monitor] = "resend"
      /\ pc' = [pc EXCEPT ![Monitor] = "back"]
      /\ rcount' = [rcount EXCEPT ![r] = @ + 1] \/ rcount' = rcount
      /\ missed' \in BOOLEAN
      /\ UNCHANGED <<life, refc, cancelled, queue, behind, on, seen, up,
         made, told, inner, cancels, raced>>
  BY <1>0, ResolverAssumption DEF Resend, Sending, Wakes, Goto, IInv,
       TypeOK, Placed, Threads, object, list, walk, app, ends
<1>2. TypeOK'
  <2>1. rcount[r] \in 0..Retry
    BY <1>1, ResolverAssumption DEF IInv, TypeOK, Bounded
  <2>2. rcount[r] + 1 \in 0..Retry + 1
    BY <2>1, ResolverAssumption
  <2>3. rcount' \in [Requests -> 0..Retry + 1]
    BY <1>1, <2>2 DEF IInv, TypeOK
  <2>4. pc' \in [Threads -> {"idle", "built", "sent", "undo", "picked", "report", "unlist", "drop",
                             "release", "asleep", "cycle", "walk", "resend", "back"}]
    BY <1>1 DEF IInv, TypeOK
  <2>. QED  BY <1>1, <2>3, <2>4 DEF IInv, TypeOK
<1>3. Placed'
  BY <1>1, ResolverAssumption DEF IInv, Placed, TypeOK, Making, Ending,
       Threads
<1>4. Queued'
  BY <1>1, ResolverAssumption DEF IInv, Queued, Listed, Placed, TypeOK,
       Making, Ending, Threads
<1>5. Bounded'
  BY <1>1, ResolverAssumption DEF IInv, Bounded, Making, Placed, TypeOK,
       Threads
<1>6. Spoken'
  BY <1>1, ResolverAssumption DEF IInv, Spoken, Making, Ending, Placed,
       TypeOK, Threads
<1>7. Alone' /\ Held'
  <2>1. Busy(Monitor, r)
    BY <1>1 DEF Busy
  <2>2. ASSUME ~raced'
        PROVE  /\ \A u \in Threads \ {Monitor} : ~Busy(u, r)
               /\ life'[r] = "live" => IF Busy(Monitor, r)' THEN Fits(Monitor, r)'
                                       ELSE Found(r, 1, FALSE, 0)'
               /\ life'[r] = "gone" =>
                    told'[r] <= 1 /\ (Busy(Monitor, r)' => Monitor = Monitor /\ pc'[Monitor] = "back")
    <3>1. ~raced
      BY <1>1, <2>2
    <3>2. /\ \A u \in Threads \ {Monitor} : ~Busy(u, r)
          /\ life[r] = "live" => Fits(Monitor, r)
          /\ life[r] = "gone" => told[r] <= 1 /\ Monitor = Monitor /\ pc[Monitor] = "back"
          /\ life[r] \in {"live", "gone"}
      BY <1>1, <2>1, <3>1, FindsIt
    <3>. QED  BY <1>1, <3>2, ResolverAssumption DEF Busy, Fits, Found, Making, IInv, TypeOK, Threads
  <2>3. r \in Requests /\ Monitor \in Threads
    BY <1>1
  <2>4. \A u \in Threads \ {Monitor} :
          /\ on'[u] = on[u]
          /\ pc'[u] = pc[u] \/ (u = Monitor /\ pc[u] = "asleep" /\ pc'[u] = "cycle")
    BY <1>1, ResolverAssumption DEF IInv, TypeOK
  <2>5. on'[Monitor] \in {r, None} /\ on[Monitor] = r
    BY <1>1, ResolverAssumption DEF IInv, TypeOK
  <2>6. \A q \in Requests \ {r} : /\ life'[q] = life[q] /\ refc'[q] = refc[q]
                                  /\ cancelled'[q] = cancelled[q] /\ told'[q] = told[q]
    BY <1>1 DEF IInv, TypeOK
  <2>. QED  BY <1>1, <2>2, <2>3, <2>4, <2>5, <2>6, Acting
<1>8. Onward'
  <2>1. \A q \in Requests : life'[q] = "gone" /\ ~cancelled'[q]
                            => life[q] = "gone" /\ ~cancelled[q]
    BY <1>1 DEF IInv, TypeOK
  <2>2. \/ pc'[Monitor] \in {"asleep", "cycle"}
        \/ pc[Monitor] \notin {"asleep", "cycle"} /\ Start' = Start
    <3>1. \A q \in Requests : NextOf(q)' = NextOf(q)
      BY <1>1 DEF NextOf, Listed, Place
    <3>. QED  BY <1>1, <3>1, ResolverAssumption DEF IInv, TypeOK, Placed, Threads, Start
  <2>3. raced => raced'
    BY <1>1 DEF Meets
  <2>. QED  BY <1>1, <2>1, <2>2, <2>3, SameAhead
<1>. QED  BY <1>2, <1>3, <1>4, <1>5, <1>6, <1>7, <1>8 DEF IInv

\* The invariant is kept when the monitor ends its cycle.
LEMMA KeepsEndCycle ==
    ASSUME IInv, EndCycle
    PROVE  IInv'
<1>1. /\ Monitor \in Threads /\ Monitor # Worker /\ Monitor \notin Callers
      /\ pc[Monitor] \in {"walk", "back"}
      /\ pc' = [pc EXCEPT ![Monitor] = "cycle"] \/ pc' = [pc EXCEPT
         ![Monitor] = "asleep"]
      /\ on' = [on EXCEPT ![Monitor] = None]
      /\ seen' = FALSE
      /\ missed' \in BOOLEAN
      /\ UNCHANGED <<life, refc, cancelled, queue, behind, rcount, up,
         made, told, inner, cancels, raced>>
  BY ResolverAssumption DEF EndCycle, Goto, Walks, IInv, TypeOK, Placed,
       Threads, object, list, walk, app, ends
<1>2. TypeOK'
  BY <1>1, ResolverAssumption DEF IInv, TypeOK, Threads
<1>3. Placed'
  BY <1>1, ResolverAssumption DEF IInv, Placed, TypeOK, Making, Ending,
       Threads
<1>4. Queued'
  <2>1. \A u \in Threads \ {Monitor} : pc'[u] = pc[u] /\ on'[u] = on[u]
    BY <1>1 DEF IInv, TypeOK
  <2>2. pc'[Monitor] \in {"cycle", "asleep"} /\ pc[Monitor] # "drop"
    BY <1>1 DEF IInv, TypeOK
  <2>. QED  BY <1>1, <2>1, <2>2 DEF IInv, Queued, Listed
<1>5. Bounded'
  BY <1>1, ResolverAssumption DEF IInv, Bounded, Making, Placed, TypeOK,
       Threads
<1>6. Spoken'
  BY <1>1, ResolverAssumption DEF IInv, Spoken, Making, Ending, Placed,
       TypeOK, Threads
<1>7. Alone' /\ Held'
  <2>1. CASE on[Monitor] \in Requests
    <3>0. PICK r \in Requests : r = on[Monitor]
      BY <2>1
    <3>1. Busy(Monitor, r)
      BY <1>1, <3>0 DEF Busy
    <3>2. ASSUME ~raced'
          PROVE  /\ \A u \in Threads \ {Monitor} : ~Busy(u, r)
                 /\ life'[r] = "live" => IF Busy(Monitor, r)' THEN Fits(Monitor, r)'
                                         ELSE Found(r, 1, FALSE, 0)'
                 /\ life'[r] = "gone" =>
                      told'[r] <= 1 /\ (Busy(Monitor, r)' => Monitor = Monitor /\ pc'[Monitor] = "back")
      <4>1. ~raced
        BY <1>1, <3>0, <3>2
      <4>2. /\ \A u \in Threads \ {Monitor} : ~Busy(u, r)
            /\ life[r] = "live" => Fits(Monitor, r)
            /\ life[r] = "gone" => told[r] <= 1 /\ Monitor = Monitor /\ pc[Monitor] = "back"
            /\ life[r] \in {"live", "gone"}
        BY <1>1, <3>0, <3>1, <4>1, FindsIt
      <4>. QED  BY <1>1, <3>0, <4>2, ResolverAssumption DEF Busy, Fits, Found, Making, IInv, TypeOK, Threads
    <3>3. r \in Requests /\ Monitor \in Threads
      BY <1>1, <3>0
    <3>4. \A u \in Threads \ {Monitor} :
            /\ on'[u] = on[u]
            /\ pc'[u] = pc[u] \/ (u = Monitor /\ pc[u] = "asleep" /\ pc'[u] = "cycle")
      BY <1>1, <3>0, ResolverAssumption DEF IInv, TypeOK
    <3>5. on'[Monitor] \in {r, None} /\ on[Monitor] = r
      BY <1>1, <3>0, ResolverAssumption DEF IInv, TypeOK
    <3>6. \A q \in Requests \ {r} : /\ life'[q] = life[q] /\ refc'[q] = refc[q]
                                    /\ cancelled'[q] = cancelled[q] /\ told'[q] = told[q]
      BY <1>1, <3>0 DEF IInv, TypeOK
    <3>. QED  BY <1>1, <3>0, <3>2, <3>3, <3>4, <3>5, <3>6, Acting
  <2>2. CASE on[Monitor] = None
    <3>1. \A u \in Threads, q \in Requests :
            (Busy(u, q)' <=> Busy(u, q)) /\ (Busy(u, q) => pc'[u] = pc[u])
      BY <1>1, <2>2, ResolverAssumption DEF Busy, IInv, TypeOK
    <3>. QED  BY <1>1, <3>1, Idling
  <2>. QED  BY <1>1, <2>1, <2>2 DEF IInv, TypeOK
<1>8. Onward'
  BY <1>1 DEF Onward, IInv, TypeOK
<1>. QED  BY <1>2, <1>3, <1>4, <1>5, <1>6, <1>7, <1>8 DEF IInv

\* The invariant is kept when a name server comes.
LEMMA KeepsNsConnect ==
    ASSUME IInv, NsConnect
    PROVE  IInv'
<1>1. /\ Monitor \in Threads /\ Monitor # Worker /\ Monitor \notin Callers
      /\ up' = TRUE
      /\ UNCHANGED <<life, refc, cancelled, queue, behind, rcount, pc, on,
         seen, missed, made, told, inner, cancels, raced>>
  BY ResolverAssumption DEF NsConnect, IInv, TypeOK, Placed, Threads,
       object, list, walk, app, ends
<1>2. TypeOK'
  BY <1>1, ResolverAssumption DEF IInv, TypeOK, Threads
<1>3. Placed'
  BY <1>1, ResolverAssumption DEF IInv, Placed, TypeOK, Making, Ending,
       Threads
<1>4. Queued'
  BY <1>1, ResolverAssumption DEF IInv, Queued, Listed, Placed, TypeOK,
       Making, Ending, Threads
<1>5. Bounded'
  BY <1>1, ResolverAssumption DEF IInv, Bounded, Making, Placed, TypeOK,
       Threads
<1>6. Spoken'
  BY <1>1, ResolverAssumption DEF IInv, Spoken, Making, Ending, Placed,
       TypeOK, Threads
<1>7. Alone' /\ Held'
  <2>1. \A u \in Threads, q \in Requests :
          (Busy(u, q)' <=> Busy(u, q)) /\ (Busy(u, q) => pc'[u] = pc[u])
    BY <1>1, ResolverAssumption DEF Busy, IInv, TypeOK, Placed, Threads
  <2>. QED  BY <1>1, <2>1, Idling
<1>8. Onward'
  <2>1. \A q \in Requests : life'[q] = "gone" /\ ~cancelled'[q]
                            => life[q] = "gone" /\ ~cancelled[q]
    BY <1>1 DEF IInv, TypeOK
  <2>2. \/ pc'[Monitor] \in {"asleep", "cycle"}
        \/ pc[Monitor] \notin {"asleep", "cycle"} /\ Start' = Start
    <3>1. \A q \in Requests : NextOf(q)' = NextOf(q)
      BY <1>1 DEF NextOf, Listed, Place
    <3>. QED  BY <1>1, <3>1, ResolverAssumption DEF IInv, TypeOK, Placed, Threads, Start
  <2>3. raced => raced'
    BY <1>1 DEF Meets
  <2>. QED  BY <1>1, <2>1, <2>2, <2>3, SameAhead
<1>. QED  BY <1>2, <1>3, <1>4, <1>5, <1>6, <1>7, <1>8 DEF IInv

\* The invariant is kept when a name server goes.
LEMMA KeepsNsClose ==
    ASSUME IInv, NsClose
    PROVE  IInv'
<1>1. /\ Monitor \in Threads /\ Monitor # Worker /\ Monitor \notin Callers
      /\ up' = FALSE
      /\ UNCHANGED <<life, refc, cancelled, queue, behind, rcount, pc, on,
         seen, missed, made, told, inner, cancels, raced>>
  BY ResolverAssumption DEF NsClose, IInv, TypeOK, Placed, Threads,
       object, list, walk, app, ends
<1>2. TypeOK'
  BY <1>1, ResolverAssumption DEF IInv, TypeOK, Threads
<1>3. Placed'
  BY <1>1, ResolverAssumption DEF IInv, Placed, TypeOK, Making, Ending,
       Threads
<1>4. Queued'
  BY <1>1, ResolverAssumption DEF IInv, Queued, Listed, Placed, TypeOK,
       Making, Ending, Threads
<1>5. Bounded'
  BY <1>1, ResolverAssumption DEF IInv, Bounded, Making, Placed, TypeOK,
       Threads
<1>6. Spoken'
  BY <1>1, ResolverAssumption DEF IInv, Spoken, Making, Ending, Placed,
       TypeOK, Threads
<1>7. Alone' /\ Held'
  <2>1. \A u \in Threads, q \in Requests :
          (Busy(u, q)' <=> Busy(u, q)) /\ (Busy(u, q) => pc'[u] = pc[u])
    BY <1>1, ResolverAssumption DEF Busy, IInv, TypeOK, Placed, Threads
  <2>. QED  BY <1>1, <2>1, Idling
<1>8. Onward'
  <2>1. \A q \in Requests : life'[q] = "gone" /\ ~cancelled'[q]
                            => life[q] = "gone" /\ ~cancelled[q]
    BY <1>1 DEF IInv, TypeOK
  <2>2. \/ pc'[Monitor] \in {"asleep", "cycle"}
        \/ pc[Monitor] \notin {"asleep", "cycle"} /\ Start' = Start
    <3>1. \A q \in Requests : NextOf(q)' = NextOf(q)
      BY <1>1 DEF NextOf, Listed, Place
    <3>. QED  BY <1>1, <3>1, ResolverAssumption DEF IInv, TypeOK, Placed, Threads, Start
  <2>3. raced => raced'
    BY <1>1 DEF Meets
  <2>. QED  BY <1>1, <2>1, <2>2, <2>3, SameAhead
<1>. QED  BY <1>2, <1>3, <1>4, <1>5, <1>6, <1>7, <1>8 DEF IInv

-----------------------------------------------------------------------------
\* The invariant holds at first.
LEMMA Starts == ASSUME Init PROVE IInv
<1>. USE ResolverAssumption DEF Init
<1>1. queue = <<>> /\ \A r \in Requests : ~Listed(r)
  <2>1. DOMAIN queue = {}
    OBVIOUS
  <2>. QED  BY <2>1 DEF Listed, ToSet
<1>2. TypeOK
  <2>1. queue \in Seq(Requests) /\ 0 \in 0..Retry + 1 /\ 0 \in 0..Cancels
    BY <1>1, EmptySeq
  <2>2. {seen, up, missed, raced} \subseteq BOOLEAN
    OBVIOUS
  <2>3. pc \in [Threads -> {"idle", "asleep"}]
    OBVIOUS
  <2>. QED  BY <2>1, <2>2, <2>3 DEF TypeOK
<1>3. Placed /\ Bounded /\ Spoken
  BY <1>1 DEF Placed, Bounded, Spoken, Making, Ending, Threads
<1>4. Queued
  BY <1>1 DEF Queued, IsInjective, Threads
<1>5. Alone /\ Held /\ Onward
  BY DEF Alone, Held, HeldAt, Busy, Onward, Threads
<1>. QED  BY <1>2, <1>3, <1>4, <1>5 DEF IInv

\* Every step keeps it.
LEMMA Steps == ASSUME IInv, [Next]_vars PROVE IInv'
<1>1. CASE UNCHANGED vars
  <2>1. /\ UNCHANGED <<life, refc, cancelled, queue, behind, rcount, pc, on>>
        /\ UNCHANGED <<seen, missed, up, made, told, inner, cancels, raced>>
    BY <1>1 DEF vars, object, list, walk, app, ends
  <2>2. TypeOK' /\ Placed' /\ Queued' /\ Bounded' /\ Spoken'
    BY <2>1 DEF IInv, TypeOK, Placed, Queued, Listed, Bounded, Spoken, Making, Ending
  <2>3. Alone' /\ Held'
    BY <2>1 DEF IInv, Alone, Held, HeldAt, Fits, Found, Busy, Making
  <2>4. \A r \in Requests : NextOf(r)' = NextOf(r)
    BY <2>1 DEF NextOf, Listed, Place
  <2>5. on[Monitor] \in Requests \cup {None} /\ (on[Monitor] = None => pc[Monitor] \in {"asleep", "cycle", "walk"})
    BY DEF IInv, TypeOK, Placed, Threads
  <2>6. pc[Monitor] \in {"asleep", "cycle"} \/ Start' = Start
    BY <2>1, <2>4, <2>5 DEF Start
  <2>7. Onward'
    BY <2>1, <2>6, SameAhead
  <2>. QED  BY <2>2, <2>3, <2>7 DEF IInv
<1>2. CASE Next
  <2>1. CASE \E t \in Callers : New(t) \/ Create(t)
    BY <2>1, KeepsNew, KeepsFlush, KeepsFlushFails, KeepsUndo, KeepsMade DEF Create
  <2>2. CASE \E t \in Callers, r \in Requests : Cancel(t, r)
    BY <2>2, KeepsCancel
  <2>3. CASE \E t \in Threads : End(t)
    BY <2>3, KeepsReport, KeepsUnlist, KeepsReportCancels, KeepsDrop, KeepsRelease, KeepsReturn DEF End
  <2>4. CASE (\E r \in Requests : Answer(r)) \/ Picked
    BY <2>4, KeepsAnswer, KeepsPicked
  <2>5. CASE Watch
    BY <2>5, KeepsCycle, KeepsResend, KeepsEndCycle, KeepsExpire, KeepsRetries DEF Watch
  <2>6. CASE Rouse \/ NsConnect \/ NsClose
    BY <2>6, KeepsRouse, KeepsNsConnect, KeepsNsClose
  <2>. QED  BY <1>2, <2>1, <2>2, <2>3, <2>4, <2>5, <2>6 DEF Next
<1>. QED  BY <1>1, <1>2

\* The inductive invariant holds in every state.
THEOREM Invariance == Spec => []IInv
<1>. QED  BY Starts, Steps, PTL DEF Spec

\* QueueExact: the queue holds every request that lives and is not being
\* ended, once, and no other (request.cc:41-46, 67-80).
THEOREM QueueStaysExact == Spec => []QueueExact
<1>1. IInv => QueueExact
  BY DEF IInv, Queued, QueueExact
<1>. QED  BY <1>1, Invariance, PTL

\* ReportedOnce: a handler is called once, unless two threads had to do with a
\* request at a time, and no request ends without a word (resolver.h:109-113,
\* rascal_getaddr.cc:17-25, 51-60).
THEOREM HandlersAreCalledOnce == Spec => []ReportedOnce
<1>1. ASSUME IInv PROVE ReportedOnce
  <2>1. ASSUME NEW r \in Requests, ~raced PROVE told[r] <= 1
    <3>1. CASE life[r] = "none"
      BY <1>1, <3>1 DEF IInv, Spoken
    <3>2. CASE life[r] = "gone"
      BY <1>1, <2>1, <3>2 DEF IInv, Held, HeldAt
    <3>3. CASE life[r] = "live" /\ \A t \in Threads : ~Busy(t, r)
      <4>1. Found(r, 1, FALSE, 0)
        BY <1>1, <2>1, <3>3, WaitsAlone
      <4>. QED  BY <4>1 DEF Found
    <3>4. CASE life[r] = "live" /\ \E t \in Threads : Busy(t, r)
      <4>1. PICK t \in Threads : Busy(t, r)
        BY <3>4
      <4>2. Fits(t, r)
        BY <1>1, <2>1, <3>4, <4>1, FindsIt
      <4>3. pc[t] \in {"picked", "walk", "resend", "back", "report"} \cup Making \cup Ending
        <5>1. on[t] # None /\ pc[t] \notin {"idle", "asleep"}
          BY <4>1, ResolverAssumption DEF Busy
        <5>2. t = Monitor => pc[t] # "cycle"
          BY <1>1, <5>1 DEF IInv, Placed
        <5>3. CASE t \in Callers
          BY <1>1, <5>1, <5>3 DEF IInv, Placed
        <5>4. CASE t = Worker
          BY <1>1, <5>1, <5>4 DEF IInv, Placed
        <5>5. CASE t = Monitor
          BY <1>1, <5>1, <5>2, <5>5 DEF IInv, Placed, Ending
        <5>. QED  BY <5>3, <5>4, <5>5 DEF Threads
      <4>. QED  BY <4>2, <4>3 DEF Fits, Found, Making, Ending
    <3>5. life[r] \in {"none", "live", "gone"}
      BY <1>1 DEF IInv, TypeOK
    <3>. QED  BY <3>1, <3>2, <3>3, <3>4, <3>5
  <2>. QED  BY <1>1, <2>1 DEF IInv, Spoken, ReportedOnce
<1>. QED  BY <1>1, Invariance, PTL

-----------------------------------------------------------------------------
(***************************************************************************)
(* References and ends: what is still to be taken from the count of a      *)
(* request never exceeds what there is, and one more for each end but the  *)
(* first.                                                                  *)
(***************************************************************************)
LEMMA ThreadsAreFinite == IsFiniteSet(Threads)
<1>1. IsFiniteSet(Callers \cup {Worker})
  BY ResolverAssumption, FS_AddElement
<1>2. IsFiniteSet((Callers \cup {Worker}) \cup {Monitor})
  BY <1>1, FS_AddElement
<1>3. Threads = (Callers \cup {Worker}) \cup {Monitor}
  BY DEF Threads
<1>. QED  BY <1>2, <1>3

LEMMA DebtsAreFinite == IsFiniteSet(Threads \X Debts)
<1>2. IsFiniteSet(Debts)
  <2>1. IsFiniteSet({"held"})
    BY FS_Singleton
  <2>2. IsFiniteSet({"held"} \cup {"inner"})
    BY <2>1, FS_AddElement
  <2>3. IsFiniteSet(({"held"} \cup {"inner"}) \cup {"end"})
    BY <2>2, FS_AddElement
  <2>4. IsFiniteSet((({"held"} \cup {"inner"}) \cup {"end"}) \cup {"innerend"})
    BY <2>3, FS_AddElement
  <2>5. Debts = (({"held"} \cup {"inner"}) \cup {"end"}) \cup {"innerend"}
    BY DEF Debts
  <2>. QED  BY <2>4, <2>5
<1>. QED  BY <1>2, ThreadsAreFinite, FS_Product

LEMMA OwedIsFinite == \A r \in Requests : IsFiniteSet(Owed(r)) /\ Cardinality(Owed(r)) \in Nat
<1>1. ASSUME NEW r \in Requests PROVE IsFiniteSet(Owed(r))
  BY DebtsAreFinite, FS_Subset DEF Owed
<1>. QED  BY <1>1, FS_CardinalityType

LEMMA OwedNextIsFinite == \A r \in Requests : IsFiniteSet(Owed(r)') /\ Cardinality(Owed(r)') \in Nat
<1>1. ASSUME NEW r \in Requests PROVE IsFiniteSet(Owed(r)')
  <2>1. Owed(r)' \subseteq Threads \X Debts
    BY DEF Owed
  <2>. QED  BY DebtsAreFinite, <2>1, FS_Subset
<1>. QED  BY <1>1, FS_CardinalityType

\* A step that changes what one thread owes to one request, by one debt.
LEMMA OneMore ==
    ASSUME NEW t \in Threads, NEW r \in Requests, NEW d \in Debts,
           ~Owes(t, d, r), Owes(t, d, r)',
           \A u \in Threads, e \in Debts, q \in Requests :
             <<u, e, q>> # <<t, d, r>> => (Owes(u, e, q)' <=> Owes(u, e, q))
    PROVE  /\ Cardinality(Owed(r)') = Cardinality(Owed(r)) + 1
           /\ \A q \in Requests \ {r} : Owed(q)' = Owed(q)
<1>1. Owed(r)' = Owed(r) \cup {<<t, d>>} /\ <<t, d>> \notin Owed(r)
  BY DEF Owed
<1>2. \A q \in Requests \ {r} : Owed(q)' = Owed(q)
  BY DEF Owed
<1>. QED  BY <1>1, <1>2, OwedIsFinite, FS_AddElement

LEMMA OneLess ==
    ASSUME NEW t \in Threads, NEW r \in Requests, NEW d \in Debts,
           Owes(t, d, r), ~(Owes(t, d, r)'),
           \A u \in Threads, e \in Debts, q \in Requests :
             <<u, e, q>> # <<t, d, r>> => (Owes(u, e, q)' <=> Owes(u, e, q))
    PROVE  /\ Cardinality(Owed(r)') = Cardinality(Owed(r)) - 1
           /\ \A q \in Requests \ {r} : Owed(q)' = Owed(q)
<1>1. Owed(r)' = Owed(r) \ {<<t, d>>} /\ <<t, d>> \in Owed(r)
  BY DEF Owed
<1>2. \A q \in Requests \ {r} : Owed(q)' = Owed(q)
  BY DEF Owed
<1>. QED  BY ZenonT(30), <1>1, <1>2, OwedIsFinite, FS_RemoveElement

LEMMA TwoMore ==
    ASSUME NEW t \in Threads, NEW r \in Requests, NEW c \in Debts, NEW d \in Debts, c # d,
           ~Owes(t, c, r), Owes(t, c, r)', ~Owes(t, d, r), Owes(t, d, r)',
           \A u \in Threads, e \in Debts, q \in Requests :
             <<u, e, q>> \notin {<<t, c, r>>, <<t, d, r>>} => (Owes(u, e, q)' <=> Owes(u, e, q))
    PROVE  /\ Cardinality(Owed(r)') = Cardinality(Owed(r)) + 2
           /\ \A q \in Requests \ {r} : Owed(q)' = Owed(q)
<1>1. /\ Owed(r)' = (Owed(r) \cup {<<t, c>>}) \cup {<<t, d>>}
      /\ <<t, c>> \notin Owed(r) /\ <<t, d>> \notin Owed(r) \cup {<<t, c>>}
  BY DEF Owed
<1>2. \A q \in Requests \ {r} : Owed(q)' = Owed(q)
  BY DEF Owed
<1>3. /\ IsFiniteSet(Owed(r) \cup {<<t, c>>})
      /\ Cardinality(Owed(r) \cup {<<t, c>>}) = Cardinality(Owed(r)) + 1
  BY <1>1, OwedIsFinite, FS_AddElement
<1>4. Cardinality(Owed(r)') = Cardinality(Owed(r) \cup {<<t, c>>}) + 1
  BY ZenonT(30), <1>1, <1>3, FS_AddElement
<1>. QED  BY <1>2, <1>3, <1>4, OwedIsFinite

\* A request that has been created is kept count of when what it has and what
\* is owed change alike.
LEMMA Balance ==
    ASSUME IInv, Counted, NEW r \in Requests, life[r] # "none", NEW n \in Int,
           refc'[r] + told'[r] = refc[r] + told[r] + n,
           Cardinality(Owed(r)') = Cardinality(Owed(r)) + n
    PROVE  refc'[r] + told'[r] >= 1 + Cardinality(Owed(r)')
<1>1. refc[r] \in Int /\ told[r] \in Nat /\ Cardinality(Owed(r)) \in Nat
  BY OwedIsFinite DEF IInv, TypeOK
<1>2. refc[r] + told[r] >= 1 + Cardinality(Owed(r))
  BY DEF Counted
<1>. QED  BY <1>1, <1>2

LEMMA StaysCounted ==
    ASSUME IInv, Counted, UNCHANGED <<refc, told>>,
           \A u \in Threads, e \in Debts, q \in Requests : Owes(u, e, q)' <=> Owes(u, e, q),
           \A q \in Requests : /\ life'[q] # "none" => life[q] # "none"
                               /\ life'[q] = "gone" => cancelled'[q] \/ made'[q] = "error"
    PROVE  Counted'
<1>1. \A q \in Requests : Owed(q)' = Owed(q)
  BY DEF Owed
<1>. QED  BY <1>1 DEF Counted

\* A request is counted when one thread owes it a reference or an end more or
\* less, and its count and its ends changed by as much.
LEMMA StillCounted ==
    ASSUME IInv, Counted, NEW t \in Threads, NEW r \in Requests, NEW n \in Int, life[r] # "none",
           refc'[r] + told'[r] = refc[r] + told[r] + n,
           Cardinality(Owed(r)') = Cardinality(Owed(r)) + n,
           \A q \in Requests \ {r} : /\ Owed(q)' = Owed(q) /\ refc'[q] = refc[q] /\ told'[q] = told[q]
                                     /\ life'[q] = life[q] /\ cancelled'[q] = cancelled[q],
           made' = made, life'[r] = "gone" => cancelled'[r] \/ life[r] = "gone",
           cancelled[r] => cancelled'[r]
    PROVE  Counted'
<1>1. refc'[r] + told'[r] >= 1 + Cardinality(Owed(r)')
  BY Balance
<1>2. \A q \in Requests \ {r} : life'[q] # "none" => refc'[q] + told'[q] >= 1 + Cardinality(Owed(q)')
  BY DEF Counted
<1>3. \A q \in Requests : life'[q] = "gone" => cancelled'[q] \/ made'[q] = "error"
  BY DEF Counted
<1>. QED  BY <1>1, <1>2, <1>3 DEF Counted

\* A thread that owes nothing before its step and nothing after it.
LEMMA OwesNothing ==
    ASSUME IInv, NEW t \in Threads, inner' = inner,
           \A u \in Threads \ {t} :
             /\ on'[u] = on[u]
             /\ pc'[u] = pc[u] \/ (u = Monitor /\ pc[u] = "asleep" /\ pc'[u] = "cycle"),
           pc[t] \notin {"report"} \cup Ending,
           pc'[t] \notin Ending /\ (t # Monitor => pc'[t] # "report")
    PROVE  \A u \in Threads, e \in Debts, q \in Requests : Owes(u, e, q)' <=> Owes(u, e, q)
<1>. SUFFICES ASSUME NEW u \in Threads, NEW e \in Debts, NEW q \in Requests
              PROVE  Owes(u, e, q)' <=> Owes(u, e, q)
  OBVIOUS
<1>1. t \notin inner
  BY DEF IInv, Placed
<1>2. CASE u = t
  BY <1>1, <1>2 DEF Owes, Ending
<1>3. CASE u # t /\ pc'[u] = pc[u]
  BY <1>3 DEF Owes
<1>4. CASE u # t /\ u = Monitor /\ pc[u] = "asleep" /\ pc'[u] = "cycle"
  <2>1. u \notin inner
    BY <1>4 DEF IInv, Placed, Ending
  <2>. QED  BY <1>4, <2>1 DEF Owes, Ending
<1>. QED  BY <1>2, <1>3, <1>4

\* Before a request is ended, and while packets go out, nothing is owed more.
LEMMA CountedWhileSent ==
    ASSUME IInv, Counted, NEW t \in Callers, Create(t)
    PROVE  Counted'
<1>0. PICK r \in Requests : r = on[t] /\ pc[t] \in Making
  BY ResolverAssumption DEF Create, Flush, FlushFails, Undo, Made, IInv, TypeOK, Placed, Threads, Making
<1>1. /\ t \in Threads \ {Monitor} /\ inner' = inner
      /\ UNCHANGED <<refc, told, cancelled>>
  BY ResolverAssumption DEF Create, Flush, FlushFails, Undo, Made, Leave, Threads, object, app, ends
<1>2. /\ \A u \in Threads \ {t} :
           /\ on'[u] = on[u]
           /\ pc'[u] = pc[u] \/ (u = Monitor /\ pc[u] = "asleep" /\ pc'[u] = "cycle")
      /\ pc'[t] \in {"sent", "undo", "idle"}
  <2>1. CASE Flush(t)
    BY <2>1, <1>1, ResolverAssumption DEF Flush, Wakes, ends, IInv, TypeOK, Threads
  <2>2. CASE FlushFails(t)
    BY <2>2, <1>1 DEF FlushFails, Goto, ends, IInv, TypeOK
  <2>3. CASE Undo(t) \/ Made(t)
    BY <2>3, <1>1 DEF Undo, Made, Leave, IInv, TypeOK
  <2>. QED  BY <2>1, <2>2, <2>3 DEF Create
<1>3. \A u \in Threads, e \in Debts, q \in Requests : Owes(u, e, q)' <=> Owes(u, e, q)
  BY <1>0, <1>1, <1>2, OwesNothing DEF Making, Ending
<1>4. life[r] # "none" /\ made[r] = "no"
  BY <1>0, <1>1, ResolverAssumption DEF IInv, Placed, Spoken, Threads
<1>5. \/ life' = life /\ made' = made
      \/ life' = [life EXCEPT ![r] = "gone"] /\ made' = [made EXCEPT ![r] = "error"]
      \/ life' = life /\ made' = [made EXCEPT ![r] = "yes"]
  BY <1>0 DEF Create, Flush, FlushFails, Undo, Made, object, app
<1>6. \A q \in Requests : /\ life'[q] # "none" => life[q] # "none"
                          /\ life'[q] = "gone" => cancelled'[q] \/ made'[q] = "error"
  BY <1>1, <1>4, <1>5 DEF Counted, IInv, TypeOK
<1>. QED  BY <1>1, <1>3, <1>6, StaysCounted

LEMMA CountedAtNew ==
    ASSUME IInv, Counted, NEW t \in Callers, New(t)
    PROVE  Counted'
<1>1. PICK r \in Requests :
         /\ life[r] = "none" /\ pc[t] = "idle" /\ t \in Threads \ {Monitor}
         /\ life' = [life EXCEPT ![r] = "live"] /\ refc' = [refc EXCEPT ![r] = 1]
         /\ pc' = [pc EXCEPT ![t] = "built"] /\ on' = [on EXCEPT ![t] = r]
         /\ UNCHANGED <<inner, told, cancelled, made>>
  <2>1. {p \in Requests : life[p] = "none"} # {}
    BY DEF New
  <2>2. PICK r \in Requests : r = CHOOSE q \in {p \in Requests : life[p] = "none"} : TRUE
    BY <2>1
  <2>3. life[r] = "none"
    BY <2>1, <2>2
  <2>. QED  BY <2>2, <2>3, ResolverAssumption DEF New, Take, Goto, app, Threads
<1>2. \A u \in Threads \ {t} : pc'[u] = pc[u] /\ on'[u] = on[u]
  BY <1>1 DEF IInv, TypeOK
<1>3. \A u \in Threads, e \in Debts, q \in Requests : Owes(u, e, q)' <=> Owes(u, e, q)
  BY <1>1, <1>2, OwesNothing DEF IInv, TypeOK, Ending
<1>4. \A q \in Requests : Owed(q)' = Owed(q)
  BY <1>3 DEF Owed
<1>5. Owed(r) = {}
  <2>1. \A u \in Threads : on[u] # r
    BY <1>1, ResolverAssumption DEF IInv, Placed
  <2>. QED  BY <2>1 DEF Owed, Owes
<1>6. refc'[r] + told'[r] = 1 /\ Cardinality(Owed(r)') = 0 /\ life'[r] = "live"
  <2>1. told[r] = 0
    BY <1>1 DEF IInv, Spoken
  <2>2. refc'[r] = 1 /\ told'[r] = 0 /\ life'[r] = "live"
    BY <1>1, <2>1 DEF IInv, TypeOK
  <2>3. Cardinality(Owed(r)') = 0
    BY <1>4, <1>5, FS_EmptySet
  <2>. QED  BY <2>2, <2>3
<1>7. \A q \in Requests \ {r} : life'[q] = life[q] /\ refc'[q] = refc[q]
  BY <1>1 DEF IInv, TypeOK
<1>. QED  BY <1>1, <1>4, <1>6, <1>7 DEF Counted

\* The monitor walks, the worker picks: nothing is counted yet.
LEMMA CountedAtWalk ==
    ASSUME IInv, Counted,
           Watch \/ Rouse \/ NsConnect \/ NsClose \/ (\E r \in Requests : Answer(r)) \/ UNCHANGED vars
    PROVE  Counted'
<1>1. UNCHANGED <<life, refc, cancelled, told, made, inner>>
  BY DEF Watch, Cycle, Resend, EndCycle, Expire, Retries, Rouse, NsConnect, NsClose, Answer, vars, object,
         app, ends, Take
<1>2. CASE UNCHANGED <<pc, on>>
  <2>1. \A u \in Threads, e \in Debts, q \in Requests : Owes(u, e, q)' <=> Owes(u, e, q)
    BY <1>1, <1>2 DEF Owes
  <2>. QED  BY <1>1, <2>1, StaysCounted DEF Counted
<1>3. ASSUME NEW t \in Threads,
             \A u \in Threads \ {t} : on'[u] = on[u] /\ pc'[u] = pc[u],
             pc[t] \notin {"report"} \cup Ending, pc'[t] \notin Ending /\ (t # Monitor => pc'[t] # "report")
      PROVE  Counted'
  <2>1. \A u \in Threads, e \in Debts, q \in Requests : Owes(u, e, q)' <=> Owes(u, e, q)
    BY <1>1, <1>3, OwesNothing
  <2>. QED  BY <1>1, <2>1, StaysCounted DEF Counted
<1>4. Monitor \in Threads /\ Worker \in Threads /\ Worker # Monitor
  BY ResolverAssumption DEF Threads
<1>5. CASE Cycle \/ Rouse \/ EndCycle
  <2>1. /\ \A u \in Threads \ {Monitor} : on'[u] = on[u] /\ pc'[u] = pc[u]
        /\ pc[Monitor] \in {"asleep", "cycle", "walk", "back"} /\ pc'[Monitor] \in {"walk", "cycle", "asleep"}
    BY <1>4, <1>5 DEF Cycle, Rouse, EndCycle, Take, Goto, Walks, ends, IInv, TypeOK
  <2>. QED  BY <1>3, <1>4, <2>1 DEF Ending
<1>6. CASE \E r \in Requests : Expire(r) \/ Retries(r)
  <2>1. /\ \A u \in Threads \ {Monitor} : on'[u] = on[u] /\ pc'[u] = pc[u]
        /\ pc[Monitor] \in {"walk", "back"} /\ pc'[Monitor] \in {"report", "resend"}
    BY <1>4, <1>6 DEF Expire, Retries, Take, Goto, Walks, IInv, TypeOK
  <2>. QED  BY <1>3, <1>4, <2>1 DEF Ending
<1>7. CASE Resend
  <2>1. /\ \A u \in Threads \ {Monitor} : on'[u] = on[u] /\ pc'[u] = pc[u]
        /\ pc[Monitor] = "resend" /\ pc'[Monitor] = "back"
    BY <1>4, <1>7 DEF Resend, Wakes, Goto, ends, IInv, TypeOK
  <2>. QED  BY <1>3, <1>4, <2>1 DEF Ending
<1>8. CASE \E r \in Requests : Answer(r)
  <2>1. /\ \A u \in Threads \ {Worker} : on'[u] = on[u] /\ pc'[u] = pc[u]
        /\ pc[Worker] = "idle" /\ pc'[Worker] = "picked"
    BY <1>4, <1>8 DEF Answer, Take, Goto, IInv, TypeOK
  <2>. QED  BY <1>3, <1>4, <2>1 DEF Ending
<1>9. CASE NsConnect \/ NsClose \/ UNCHANGED vars
  <2>1. UNCHANGED <<pc, on>>
    BY <1>9 DEF NsConnect, NsClose, vars, ends
  <2>. QED  BY <1>2, <2>1
<1>. QED  BY <1>5, <1>6, <1>7, <1>8, <1>9 DEF Watch

\* The worker and the application's threads take a reference.
LEMMA CountedWhenHeld ==
    ASSUME IInv, Counted, Picked \/ \E t \in Callers, r \in Requests : Cancel(t, r)
    PROVE  Counted'
<1>1. PICK t \in Threads \ {Monitor}, r \in Requests :
         /\ pc[t] \in {"idle", "picked"} /\ on[t] \in {r, None} /\ life[r] # "none"
         /\ pc' = [pc EXCEPT ![t] = "report"] /\ on' = [on EXCEPT ![t] = r]
         /\ refc' = [refc EXCEPT ![r] = @ + 1]
         /\ UNCHANGED <<life, cancelled, told, made, inner>>
  <2>1. CASE Picked
    <3>1. PICK r \in Requests : r = on[Worker]
      BY <2>1, ResolverAssumption DEF Picked, IInv, TypeOK, Placed, Threads
    <3>2. on' = [on EXCEPT ![Worker] = r]
      BY <2>1, <3>1 DEF Picked, ends, IInv, TypeOK
    <3>3. Worker \in Threads \ {Monitor} /\ life[r] # "none"
      BY <3>1, ResolverAssumption DEF IInv, Placed, Threads
    <3>. QED  BY <2>1, <3>1, <3>2, <3>3 DEF Picked, Goto, ends, app
  <2>2. ASSUME NEW t \in Callers, NEW r \in Requests, Cancel(t, r)
        PROVE  /\ t \in Threads \ {Monitor}
               /\ pc[t] = "idle" /\ on[t] = None /\ life[r] # "none"
               /\ pc' = [pc EXCEPT ![t] = "report"] /\ on' = [on EXCEPT ![t] = r]
               /\ refc' = [refc EXCEPT ![r] = @ + 1]
               /\ UNCHANGED <<life, cancelled, told, made, inner>>
    BY <2>2, ResolverAssumption DEF Cancel, Take, Goto, IInv, Placed, Threads
  <2>. QED  BY <2>1, <2>2
<1>2. t \notin inner /\ r # None
  BY <1>1, ResolverAssumption DEF IInv, Placed, Ending
<1>3. /\ \A u \in Threads \ {t} : pc'[u] = pc[u] /\ on'[u] = on[u]
      /\ pc'[t] = "report" /\ on'[t] = r /\ inner' = inner
  BY <1>1 DEF IInv, TypeOK
<1>4. /\ ~Owes(t, "held", r) /\ Owes(t, "held", r)'
      /\ \A u \in Threads, e \in Debts, q \in Requests :
           <<u, e, q>> # <<t, "held", r>> => (Owes(u, e, q)' <=> Owes(u, e, q))
  <2>1. ~Owes(t, "held", r) /\ Owes(t, "held", r)'
    BY <1>1, <1>2, <1>3 DEF Owes, Ending
  <2>2. ASSUME NEW u \in Threads \ {t}, NEW e \in Debts, NEW q \in Requests
        PROVE  Owes(u, e, q)' <=> Owes(u, e, q)
    BY <1>3 DEF Owes
  <2>3. ASSUME NEW e \in Debts, NEW q \in Requests, <<t, e, q>> # <<t, "held", r>>
        PROVE  Owes(t, e, q)' <=> Owes(t, e, q)
    BY <1>1, <1>2, <1>3, <2>3 DEF Owes, Ending
  <2>. QED  BY <2>1, <2>2, <2>3
<1>5. "held" \in Debts
  BY DEF Debts
<1>6. /\ Cardinality(Owed(r)') = Cardinality(Owed(r)) + 1
      /\ \A q \in Requests \ {r} : Owed(q)' = Owed(q)
  BY <1>1, <1>4, <1>5, OneMore
<1>7. /\ refc'[r] + told'[r] = refc[r] + told[r] + 1
      /\ \A q \in Requests \ {r} : refc'[q] = refc[q]
  BY <1>1 DEF IInv, TypeOK
<1>. QED  BY <1>1, <1>6, <1>7, StillCounted

\* A handler is called: an end that drops a reference has begun.
LEMMA CountedAtReport ==
    ASSUME IInv, Counted, NEW t \in Threads, Report(t)
    PROVE  Counted'
<1>0. PICK r \in Requests : r = on[t]
  BY ResolverAssumption DEF Report, IInv, TypeOK, Placed, Threads
<1>a. life[r] # "none"
  BY <1>0, ResolverAssumption DEF IInv, Placed
<1>1. /\ r = on[t] /\ life[r] # "none" /\ pc[t] = "report"
      /\ pc' = [pc EXCEPT ![t] = "unlist"] /\ told' = [told EXCEPT ![r] = @ + 1]
      /\ UNCHANGED <<life, refc, cancelled, made, inner, on>>
  BY <1>0, <1>a DEF Report, Goto, object, ends
<1>c. PICK d \in Debts : d = IF t \in inner THEN "innerend" ELSE "end"
  BY DEF Debts
<1>2. /\ \A u \in Threads \ {t} : pc'[u] = pc[u]
      /\ pc'[t] = "unlist"
  BY <1>1 DEF IInv, TypeOK
<1>3. ~Owes(t, d, r) /\ Owes(t, d, r)'
  BY <1>1, <1>2, <1>c DEF Owes
<1>4. ASSUME NEW u \in Threads \ {t}, NEW e \in Debts, NEW q \in Requests
      PROVE  Owes(u, e, q)' <=> Owes(u, e, q)
  BY <1>1, <1>2 DEF Owes
<1>5. ASSUME NEW e \in Debts, NEW q \in Requests, <<t, e, q>> # <<t, d, r>>
      PROVE  Owes(t, e, q)' <=> Owes(t, e, q)
  BY <1>1, <1>2, <1>5, <1>c DEF Owes, Ending, Debts
<1>b. \A u \in Threads, e \in Debts, q \in Requests :
        <<u, e, q>> # <<t, d, r>> => (Owes(u, e, q)' <=> Owes(u, e, q))
  BY <1>4, <1>5
<1>6. /\ Cardinality(Owed(r)') = Cardinality(Owed(r)) + 1
      /\ \A q \in Requests \ {r} : Owed(q)' = Owed(q)
  BY <1>3, <1>b, OneMore
<1>7. /\ refc'[r] + told'[r] = refc[r] + told[r] + 1
      /\ \A q \in Requests \ {r} : told'[q] = told[q]
  BY <1>1 DEF IInv, TypeOK
<1>. QED  BY <1>1, <1>6, <1>7, StillCounted

LEMMA CountedAtReportCancels ==
    ASSUME IInv, Counted, NEW t \in Threads, ReportCancels(t)
    PROVE  Counted'
<1>0. PICK r \in Requests : r = on[t]
  BY ResolverAssumption DEF ReportCancels, IInv, TypeOK, Placed, Threads
<1>a. life[r] # "none"
  BY <1>0, ResolverAssumption DEF IInv, Placed
<1>1. /\ r = on[t] /\ life[r] # "none" /\ pc[t] = "report" /\ t \notin inner
      /\ told' = [told EXCEPT ![r] = @ + 1] /\ refc' = [refc EXCEPT ![r] = @ + 1]
      /\ inner' = inner \cup {t}
      /\ UNCHANGED <<life, cancelled, made, pc, on>>
  BY <1>0, <1>a DEF ReportCancels
<1>2. /\ ~Owes(t, "inner", r) /\ Owes(t, "inner", r)' /\ ~Owes(t, "end", r) /\ Owes(t, "end", r)'
      /\ {"inner", "end"} \subseteq Debts
  BY <1>1 DEF Owes, Debts
<1>3. ASSUME NEW u \in Threads \ {t}, NEW e \in Debts, NEW q \in Requests
      PROVE  Owes(u, e, q)' <=> Owes(u, e, q)
  BY <1>1 DEF Owes
<1>4. ASSUME NEW e \in Debts, NEW q \in Requests, <<t, e, q>> \notin {<<t, "inner", r>>, <<t, "end", r>>}
      PROVE  Owes(t, e, q)' <=> Owes(t, e, q)
  BY <1>1, <1>4 DEF Owes, Debts
<1>5. /\ Cardinality(Owed(r)') = Cardinality(Owed(r)) + 2
      /\ \A q \in Requests \ {r} : Owed(q)' = Owed(q)
  BY <1>2, <1>3, <1>4, TwoMore
<1>6. /\ refc'[r] + told'[r] = refc[r] + told[r] + 2
      /\ \A q \in Requests \ {r} : told'[q] = told[q] /\ refc'[q] = refc[q]
  BY <1>1 DEF IInv, TypeOK
<1>. QED  BY <1>1, <1>5, <1>6, StillCounted

LEMMA CountedAtUnlist ==
    ASSUME IInv, Counted, NEW t \in Threads, Unlist(t)
    PROVE  Counted'
<1>1. /\ pc[t] = "unlist" /\ pc' = [pc EXCEPT ![t] = "drop"]
      /\ UNCHANGED <<life, refc, cancelled, told, made, inner, on>>
  BY DEF Unlist, Goto, object, ends, app
<1>2. \A u \in Threads : pc'[u] = pc[u] \/ (pc[u] = "unlist" /\ pc'[u] = "drop")
  BY <1>1 DEF IInv, TypeOK
<1>3. \A u \in Threads, e \in Debts, q \in Requests : Owes(u, e, q)' <=> Owes(u, e, q)
  BY <1>1, <1>2 DEF Owes, Ending
<1>. QED  BY <1>1, <1>3, StaysCounted DEF Counted

\* A reference is dropped: what was owed is paid.
LEMMA CountedWhenDropped ==
    ASSUME IInv, Counted, NEW t \in Threads, Drop(t) \/ Release(t)
    PROVE  Counted'
<1>1. PICK r \in Requests :
         /\ r = on[t] /\ life[r] # "none"
         /\ refc' = [refc EXCEPT ![r] = @ - 1] /\ UNCHANGED <<told, made>>
         /\ \A q \in Requests \ {r} : life'[q] = life[q] /\ cancelled'[q] = cancelled[q]
         /\ life'[r] = "gone" => cancelled'[r] \/ life[r] = "gone"
         /\ cancelled[r] => cancelled'[r]
  <2>1. PICK r \in Requests : r = on[t]
    BY ZenonT(30), ResolverAssumption DEF Drop, Release, IInv, TypeOK, Placed, Threads
  <2>2. life[r] # "none"
    BY <2>1, ResolverAssumption DEF IInv, Placed
  <2>3. CASE Drop(t)
    BY <2>1, <2>2, <2>3 DEF Drop, Decref, app, IInv, TypeOK
  <2>4. CASE Release(t)
    BY <2>1, <2>2, <2>4 DEF Release, Decref, app, IInv, TypeOK
  <2>. QED  BY <2>3, <2>4
<1>c. PICK d \in Debts : d = IF pc[t] = "drop" THEN IF t \in inner THEN "innerend" ELSE "end"
                             ELSE IF t \in inner THEN "inner" ELSE "held"
  BY DEF Debts
<1>2. /\ \A u \in Threads \ {t} : pc'[u] = pc[u] /\ on'[u] = on[u] /\ (u \in inner' <=> u \in inner)
      /\ \/ /\ pc[t] = "drop" /\ on'[t] = on[t] /\ (t \in inner' <=> t \in inner)
            /\ pc'[t] = IF t = Monitor /\ t \notin inner THEN "back" ELSE "release"
         \/ pc[t] = "release" /\ t \in inner /\ t \notin inner' /\ pc'[t] = "unlist" /\ on'[t] = on[t]
         \/ pc[t] = "release" /\ t \notin inner /\ t \notin inner' /\ t # Monitor /\ pc'[t] = "idle" /\ on'[t] = None
  <2>1. pc[Monitor] = "release" => Monitor \in inner
    BY DEF IInv, Placed
  <2>2. CASE Drop(t)
    BY <2>2 DEF Drop, Leave, Goto, ends, IInv, TypeOK
  <2>3. CASE Release(t)
    BY <2>1, <2>3 DEF Release, Leave, Goto, IInv, TypeOK
  <2>. QED  BY <2>2, <2>3
<1>3. Owes(t, d, r) /\ ~(Owes(t, d, r)')
  <2>1. None # r
    BY <1>1, ResolverAssumption
  <2>2. CASE pc[t] = "drop" /\ t \in inner
    BY <1>1, <1>2, <1>c, <2>2 DEF Owes, Ending
  <2>3. CASE pc[t] = "drop" /\ t \notin inner
    BY <1>1, <1>2, <1>c, <2>3 DEF Owes, Ending
  <2>4. CASE pc[t] = "release" /\ t \in inner
    BY <1>1, <1>2, <1>c, <2>4 DEF Owes, Ending
  <2>5. CASE pc[t] = "release" /\ t \notin inner
    BY <1>1, <1>2, <1>c, <2>1, <2>5 DEF Owes, Ending
  <2>. QED  BY <1>2, <2>2, <2>3, <2>4, <2>5
<1>4. ASSUME NEW u \in Threads \ {t}, NEW e \in Debts, NEW q \in Requests
      PROVE  Owes(u, e, q)' <=> Owes(u, e, q)
  BY <1>2 DEF Owes
<1>5. ASSUME NEW e \in Debts, NEW q \in Requests, <<t, e, q>> # <<t, d, r>>
      PROVE  Owes(t, e, q)' <=> Owes(t, e, q)
  <2>1. None # q
    BY ResolverAssumption
  <2>. QED  BY <1>1, <1>2, <1>5, <1>c, <2>1 DEF Owes, Ending, Debts
<1>b. \A u \in Threads, e \in Debts, q \in Requests :
        <<u, e, q>> # <<t, d, r>> => (Owes(u, e, q)' <=> Owes(u, e, q))
  BY <1>4, <1>5
<1>6. /\ Cardinality(Owed(r)') = Cardinality(Owed(r)) - 1
      /\ \A q \in Requests \ {r} : Owed(q)' = Owed(q)
  BY <1>3, <1>b, OneLess
<1>7. /\ refc'[r] + told'[r] = refc[r] + told[r] + (-1)
      /\ Cardinality(Owed(r)') = Cardinality(Owed(r)) + (-1)
      /\ \A q \in Requests \ {r} : refc'[q] = refc[q]
  <2>1. /\ refc'[r] = refc[r] - 1 /\ refc[r] \in Int /\ told'[r] = told[r] /\ told[r] \in Nat
        /\ \A q \in Requests \ {r} : refc'[q] = refc[q]
    BY <1>1 DEF IInv, TypeOK
  <2>. QED  BY <2>1, <1>6, OwedIsFinite
<1>. QED  BY <1>1, <1>6, <1>7, StillCounted

LEMMA CountsStep == ASSUME IInv, Counted, [Next]_vars PROVE Counted'
  BY CountedAtNew, CountedWhileSent, CountedWhenHeld, CountedAtReport, CountedAtReportCancels,
     CountedAtUnlist, CountedWhenDropped, CountedAtWalk DEF Next, End

\* A request is deleted by a step that takes the last of its count, or by the
\* thread that was creating it.
LEMMA DeletedAtZero ==
    ASSUME IInv, [Next]_vars, NEW r \in Requests, life[r] = "live", life'[r] = "gone", made'[r] # "error"
    PROVE  refc'[r] = 0
<1>1. CASE \E t \in Threads : Drop(t) \/ Release(t)
  <2>1. PICK t \in Threads : Drop(t) \/ Release(t)
    BY <1>1
  <2>2. PICK q \in Requests : q = on[t]
    BY <2>1, ResolverAssumption DEF Drop, Release, IInv, TypeOK, Placed, Threads
  <2>3. refc' = [refc EXCEPT ![q] = @ - 1]
    BY <2>1, <2>2 DEF Drop, Release, Decref
  <2>4. life' = [life EXCEPT ![q] = IF refc[q] = 1 THEN "gone" ELSE @] \/ life' = life
    BY <2>1, <2>2 DEF Drop, Release, Decref, IInv, TypeOK
  <2>5. q = r /\ refc[q] = 1
    BY <2>4 DEF IInv, TypeOK
  <2>. QED  BY <2>3, <2>5 DEF IInv, TypeOK
<1>2. CASE \E t \in Callers : Undo(t)
  BY <1>2 DEF Undo, IInv, TypeOK
<1>3. CASE \E t \in Callers : New(t)
  <2>1. PICK t \in Callers : New(t)
    BY <1>3
  <2>2. \E q \in Requests : life' = [life EXCEPT ![q] = "live"]
    BY <2>1 DEF New
  <2>. QED  BY <2>2 DEF IInv, TypeOK
<1>4. CASE life' = life
  BY <1>4
<1>. QED  BY <1>1, <1>2, <1>3, <1>4
          DEF Next, Create, Flush, FlushFails, Made, Cancel, End, Report, ReportCancels, Unlist, Answer, Picked,
              Watch, Cycle, Resend, EndCycle, Expire, Retries, Rouse, NsConnect, NsClose, vars, object

LEMMA TaggedSize ==
    ASSUME NEW S, IsFiniteSet(S), NEW d
    PROVE  IsFiniteSet(S \X {d}) /\ Cardinality(S \X {d}) = Cardinality(S)
<1>1. IsFiniteSet({d}) /\ Cardinality({d}) = 1
  BY FS_Singleton
<1>2. Cardinality(S) \in Nat
  BY FS_CardinalityType
<1>3. IsFiniteSet(S \X {d}) /\ Cardinality(S \X {d}) = Cardinality(S) * Cardinality({d})
  BY <1>1, FS_Product
<1>4. Cardinality(S) * 1 = Cardinality(S)
  BY <1>2
<1>. QED  BY <1>1, <1>3, <1>4

\* Those who hold a request after a step owe it something each.
LEMMA HoldersOwe ==
    ASSUME IInv', NEW r \in Requests
    PROVE  /\ Cardinality(Holders(r)') + Cardinality(Inner(r)') <= Cardinality(Owed(r)')
           /\ {Cardinality(Holders(r)'), Cardinality(Inner(r)')} \subseteq Nat
<1> DEFINE H == Holders(r)'
           I == Inner(r)'
           HT == H \X {"held"}
           IT == I \X {"inner"}
<1>0. I \subseteq Threads
  BY DEF Inner, IInv, TypeOK
<1>1. H \subseteq Threads
  BY DEF Holders
<1>2. IsFiniteSet(H) /\ IsFiniteSet(I)
  BY <1>0, <1>1, ThreadsAreFinite, FS_Subset
<1>3. HT \subseteq Owed(r)' /\ IT \subseteq Owed(r)' /\ HT \cap IT = {}
  <2>1. HT \subseteq Owed(r)'
    BY DEF Owed, Owes, Holders, Debts, Ending
  <2>2. IT \subseteq Owed(r)'
    BY <1>0 DEF Owed, Owes, Inner, Debts
  <2>. QED  BY <2>1, <2>2
<1>4. /\ IsFiniteSet(HT) /\ Cardinality(HT) = Cardinality(H)
      /\ IsFiniteSet(IT) /\ Cardinality(IT) = Cardinality(I)
  BY <1>2, TaggedSize
<1>5. Cardinality(H) \in Nat /\ Cardinality(I) \in Nat
  BY <1>2, FS_CardinalityType
<1> HIDE DEF H, I, HT, IT
<1>6. Cardinality(HT \cup IT) = Cardinality(HT) + Cardinality(IT) - Cardinality(HT \cap IT)
  BY <1>4, FS_Union
<1>7. Cardinality(HT \cap IT) = 0
  BY <1>3, FS_EmptySet
<1>8. Cardinality(HT \cup IT) <= Cardinality(Owed(r)')
  <2>1. HT \cup IT \subseteq Owed(r)'
    BY <1>3
  <2>. QED  BY <2>1, OwedNextIsFinite, FS_Subset
<1>9. Cardinality(H) + Cardinality(I) <= Cardinality(Owed(r)')
  BY <1>4, <1>5, <1>6, <1>7, <1>8
<1>. QED  BY <1>5, <1>9 DEF H, I

\* Where the monitor stops, it read that the request is not cancelled.
LEMMA MonitorStops ==
    ASSUME IInv, [Next]_vars, NEW r \in Requests,
           Walks, pc'[Monitor] \in {"report", "resend"}, on'[Monitor] = r
    PROVE  ~cancelled[r] /\ r \in Ahead
<1>1. Monitor \in Threads /\ Monitor # Worker /\ Monitor \notin Callers /\ pc[Monitor] \in {"walk", "back"}
  BY ResolverAssumption DEF Threads, Walks
<1>2. pc'[Monitor] # pc[Monitor] /\ pc[Monitor] # "asleep"
  BY <1>1
<1>3. ASSUME NEW q \in Requests, Expire(q) \/ Retries(q) PROVE ~cancelled[r] /\ r \in Ahead
  <2>1. on'[Monitor] = q
    BY <1>1, <1>3 DEF Expire, Retries, Take, IInv, TypeOK
  <2>. QED  BY <1>3, <2>1 DEF Expire, Retries
<1>4. ~UNCHANGED vars
  BY <1>2 DEF vars
<1>5. ~Cycle /\ ~Resend /\ ~EndCycle /\ ~Rouse /\ ~NsConnect /\ ~NsClose /\ ~Picked
      /\ \A q \in Requests : ~Answer(q)
  BY <1>1, <1>2 DEF Cycle, Resend, EndCycle, Rouse, NsConnect, NsClose, Picked, Answer, Take, Goto, IInv, TypeOK
<1>6. \A t \in Threads : ~End(t)
  BY <1>1, <1>2 DEF End, Report, ReportCancels, Unlist, Drop, Release, Leave, Goto, IInv, TypeOK
<1>7. \A t \in Callers : ~New(t) /\ ~Create(t) /\ \A q \in Requests : ~Cancel(t, q)
  BY <1>1, <1>2 DEF New, Create, Flush, FlushFails, Undo, Made, Cancel, Wakes, Take, Goto, Leave, IInv, TypeOK
<1>. QED  BY <1>3, <1>4, <1>5, <1>6, <1>7 DEF Next, Watch

\* UsedAlive: a request that is ended once is deleted under nobody, each
\* further end takes it from one holder at most, and the monitor stops at no
\* request that is deleted, but by its creator (object.h:14-15,
\* request.cc:172-178, monitor.cc:47, 69-71).
THEOREM RequestsAreUsedAlive == Spec => UsedAlive
<1>1. Init => Counted
  BY DEF Init, Counted
<1>2. IInv /\ Counted /\ [Next]_vars => Counted'
  BY CountsStep
<1>3. ASSUME IInv, Counted, IInv', Counted', [Next]_vars, NEW r \in Requests
      PROVE  /\ life[r] = "live" /\ life'[r] = "gone" /\ made'[r] # "error" =>
                   Cardinality(Holders(r)') + Cardinality(Inner(r)') < told'[r]
             /\ Walks /\ pc'[Monitor] \in {"report", "resend"} /\ on'[Monitor] = r =>
                   life[r] = "live" \/ made[r] = "error"
  <2>1. ASSUME life[r] = "live", life'[r] = "gone", made'[r] # "error"
        PROVE  Cardinality(Holders(r)') + Cardinality(Inner(r)') < told'[r]
    <3>1. refc'[r] = 0
      BY <1>3, <2>1, DeletedAtZero
    <3>2. refc'[r] + told'[r] >= 1 + Cardinality(Owed(r)')
      BY <1>3, <2>1 DEF Counted
    <3>3. told'[r] \in Nat /\ Cardinality(Owed(r)') \in Nat
      BY <1>3, OwedNextIsFinite DEF IInv, TypeOK
    <3>4. /\ Cardinality(Holders(r)') + Cardinality(Inner(r)') <= Cardinality(Owed(r)')
          /\ Cardinality(Holders(r)') \in Nat /\ Cardinality(Inner(r)') \in Nat
      BY <1>3, HoldersOwe
    <3>. QED  BY <3>1, <3>2, <3>3, <3>4
  <2>2. ASSUME Walks, pc'[Monitor] \in {"report", "resend"}, on'[Monitor] = r
        PROVE  life[r] = "live" \/ made[r] = "error"
    <3>1. ~cancelled[r] /\ r \in Ahead
      BY <1>3, <2>2, MonitorStops
    <3>2. life[r] # "none"
      BY <1>3, <2>2, <3>1, AheadCreated
    <3>3. life[r] = "gone" => made[r] = "error"
      BY <1>3, <3>1 DEF Counted
    <3>. QED  BY <1>3, <3>2, <3>3 DEF IInv, TypeOK
  <2>. QED  BY <2>1, <2>2
<1>4. IInv /\ Counted /\ IInv' /\ Counted' /\ [Next]_vars
      => [\A r \in Requests :
            /\ life[r] = "live" /\ life'[r] = "gone" /\ made'[r] # "error" =>
                  Cardinality(Holders(r)') + Cardinality(Inner(r)') < told'[r]
            /\ Walks /\ pc'[Monitor] \in {"report", "resend"} /\ on'[Monitor] = r =>
                  life[r] = "live" \/ made[r] = "error"]_vars
  BY <1>3
<1>. QED  BY <1>1, <1>2, <1>4, Invariance, PTL DEF Spec, UsedAlive
=============================================================================
