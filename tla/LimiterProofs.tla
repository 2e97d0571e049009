------------------------------ MODULE LimiterProofs ------------------------------
(* What Limiter's buckets promise for every value of the constants. *)
EXTENDS Limiter, TLAPS

\* A row r of key k, what was granted (g) under its parameters, and when the last
\* refused request may come again (d).  What was granted has raised the level.
BucketOK(k, r, g, d) ==
  /\ g \in [Stamp -> Nat] /\ d \in Nat
  /\ r = NoRow => (k \in Addresses => g = Never /\ d = 0)
  /\ r # NoRow =>
       /\ r \in Bucket /\ r.capacity >= One
       /\ \A a \in Stamp : g[a] > 0 => Height(r) >= One * g[a] + r.flow * a
       /\ \A a, b \in Stamp :
            a < b /\ g[a] > g[b] => One * (g[a] - g[b]) <= r.capacity + r.flow * (b - 1 - a)
       /\ d > 0 => Excess(r, d) <= 0 /\ Excess(r, d - 2) > 0

Buckets ==
  /\ rows \in [Keys -> Bucket \cup {NoRow}]
  /\ granted \in [Keys -> [Stamp -> Nat]]
  /\ due \in [Keys -> Nat]
  /\ \A k \in Keys : BucketOK(k, rows[k], granted[k], due[k])

\* Only addresses' rows are created or lowered, and there is one to lower.
Threads ==
  /\ pc \in [Workers -> PC]
  /\ job \in [Workers -> Job]
  /\ \A w \in Workers : job[w].headless => job[w].key \in Headless
  /\ \A w \in Workers :
       pc[w] = "params" => job[w].headless /\ rows[job[w].key] # NoRow
  /\ \A w \in Workers : pc[w] = "create" => job[w].key \in Addresses

Counts ==
  /\ clock \in Clock
  /\ asked \in 0 .. MaxRequests
  /\ passed \in [Keys -> [Stamp -> Nat]]

LInv == Buckets /\ Threads /\ Counts
-----------------------------------------------------------------------------
(* Arithmetic. *)

\* Products that SMT has to be told of.
LEMMA Times ==
  ASSUME NEW f \in Nat, NEW x \in Int, NEW y \in Int
  PROVE  /\ f * x \in Int
         /\ f * (x + y) = f * x + f * y /\ f * (x - y) = f * x - f * y
         /\ x * f = f * x
         /\ x <= y => f * x <= f * y
OBVIOUS

LEMMA Division ==
  ASSUME NEW x \in Nat, NEW f \in Nat \ {0}
  PROVE  x \div f \in Nat /\ (x \div f + 1) * f > x /\ (x \div f) * f <= x
OBVIOUS

\* What fill_limiter computes is sound, and it never leaks faster than the flow.
LEMMA Drains ==
  ASSUME NEW r \in Bucket, NEW now \in Clock
  PROVE  /\ Drained(r, now) \in Nat
         /\ Drained(r, now) + r.flow * now >= Height(r)
         /\ Charged(r, now) \in Bucket
         /\ Charged(r, now).capacity = r.capacity
         /\ Charged(r, now).flow = r.flow
         /\ Height(Charged(r, now)) = One + Drained(r, now) + r.flow * now
<1>1. /\ r.flow \in Nat /\ r.value \in Nat /\ r.last \in Int /\ now \in Int
  BY LimiterAssumption DEF Bucket, Clock
<1>2. /\ r.flow * (now - r.last) = r.flow * now - r.flow * r.last
      /\ (now - r.last) * r.flow = r.flow * (now - r.last)
      /\ r.flow * now \in Int /\ r.flow * r.last \in Int
  BY <1>1, Times
<1>3. Drained(r, now) \in Nat /\ Drained(r, now) + r.flow * now >= Height(r)
  BY <1>1, <1>2 DEF Drained, Height
<1>4. One + Drained(r, now) \in Nat
  BY <1>3, LimiterAssumption
<1>5. /\ Charged(r, now).capacity = r.capacity /\ Charged(r, now).flow = r.flow
      /\ Charged(r, now).value = One + Drained(r, now) /\ Charged(r, now).last = now
  BY DEF Charged, Bucket
<1>6. Charged(r, now) \in Bucket
  BY <1>4 DEF Charged, Bucket
<1> QED
  BY <1>3, <1>5, <1>6 DEF Height

-----------------------------------------------------------------------------
(* What each statement does to a bucket. *)

LEMMA NewBucket ==
  ASSUME NEW k \in Keys, NEW p \in {Default, Lowered, Shared, Agreed}, NEW now \in Clock
  PROVE  Row(p, now) \in Bucket /\ BucketOK(k, Row(p, now), Never, 0)
<1>1. p \in Parameters /\ p.capacity >= One
  BY LimiterAssumption
<1>2. Row(p, now) \in Bucket /\ Row(p, now).capacity = p.capacity
  BY <1>1 DEF Row, Bucket, Parameters
<1>3. Never \in [Stamp -> Nat] /\ \A a \in Stamp : Never[a] = 0
  BY DEF Never
<1> QED
  BY <1>1, <1>2, <1>3 DEF BucketOK

LEMMA CountedType ==
  ASSUME NEW g \in [Stamp -> Nat], NEW t \in Clock
  PROVE  /\ Counted(g, t) \in [Stamp -> Nat]
         /\ \A s \in Stamp : s <= t => Counted(g, t)[s] = g[s] + 1
         /\ \A s \in Stamp : s > t => Counted(g, t)[s] = g[s]
<1>1. Stamp \subseteq Int /\ t \in Int
  BY LimiterAssumption DEF Stamp, Clock
<1> QED
  BY <1>1 DEF Counted

LEMMA RowIsThere == \A r \in Bucket : r # NoRow
BY LimiterAssumption DEF Bucket, Clock

\* A granted charge fits, and raises the bucket by itself.
LEMMA GrantBucket ==
  ASSUME NEW k \in Keys, NEW r, NEW g, NEW d, BucketOK(k, r, g, d), r # NoRow,
         NEW now \in Clock, Excess(r, now) <= 0
  PROVE  BucketOK(k, Charged(r, now), Counted(g, now), 0)
<1> DEFINE q == Charged(r, now)
           c == Counted(g, now)
           f == r.flow
<1>1. /\ r \in Bucket /\ g \in [Stamp -> Nat] /\ r.capacity >= One
      /\ f \in Nat /\ f \in Nat \ {0} /\ r.capacity \in Nat /\ r.value \in Nat /\ r.last \in Nat
  BY LimiterAssumption DEF BucketOK, Bucket, Clock
<1>2. One \in Nat /\ now \in Int /\ Stamp \subseteq Int /\ now \in Nat
  BY LimiterAssumption DEF Stamp, Clock
<1>3. /\ Drained(r, now) \in Nat /\ Drained(r, now) + f * now >= Height(r)
      /\ q \in Bucket /\ q.capacity = r.capacity /\ q.flow = f
      /\ Height(q) = One + Drained(r, now) + f * now
  BY <1>1, Drains
<1>4. /\ c \in [Stamp -> Nat]
      /\ \A a \in Stamp : a <= now => c[a] = g[a] + 1
      /\ \A a \in Stamp : a > now => c[a] = g[a]
  BY <1>1, CountedType
<1>5. One + Drained(r, now) <= r.capacity
  BY <1>1, <1>2, <1>3 DEF Excess
<1>6. Height(r) \in Int /\ f * now \in Int
  BY <1>1, <1>2, Times DEF Height
<1> HIDE DEF q, c, f
<1>7. ASSUME NEW a \in Stamp, c[a] > 0 PROVE Height(q) >= One * c[a] + f * a
  <2>1. a \in Int /\ f * a \in Int /\ g[a] \in Nat
    BY <1>1, <1>2, Times
  <2>2. CASE a > now
    <3>1. Height(r) >= One * g[a] + f * a /\ c[a] = g[a]
      BY <1>4, <1>7, <2>2 DEF BucketOK, f
    <3>2. One * g[a] \in Int
      BY <1>2, <2>1, Times
    <3> QED
      BY <1>2, <1>3, <1>6, <2>1, <3>1, <3>2
  <2>3. CASE a <= now
    <3>1. c[a] = g[a] + 1 /\ f * a <= f * now
      BY <1>1, <1>2, <1>4, <2>1, <2>3, Times
    <3>2. One * c[a] = One * g[a] + One /\ One * g[a] \in Int
      <4>1. One * (g[a] + 1) = One * g[a] + One * 1 /\ One * g[a] \in Int
        BY <1>2, <2>1, Times
      <4>2. One * 1 = One
        BY <1>2
      <4> QED
        BY <3>1, <4>1, <4>2
    <3>3. CASE g[a] > 0
      <4>1. Height(r) >= One * g[a] + f * a
        BY <3>3 DEF BucketOK, f
      <4> QED
        BY <1>2, <1>3, <1>6, <2>1, <3>2, <4>1
    <3>4. CASE g[a] = 0
      <4>1. One * g[a] = 0
        BY <1>2, <3>4
      <4> QED
        BY <1>2, <1>3, <1>6, <2>1, <3>1, <3>2, <4>1
    <3> QED
      BY <2>1, <3>3, <3>4
  <2> QED
    BY <1>2, <2>1, <2>2, <2>3
<1>8. ASSUME NEW a \in Stamp, NEW b \in Stamp, a < b, c[a] > c[b]
      PROVE  One * (c[a] - c[b]) <= r.capacity + f * (b - 1 - a)
  <2>1. /\ a \in Int /\ b \in Int /\ g[a] \in Nat /\ g[b] \in Nat
        /\ c[a] \in Nat /\ c[b] \in Nat
    BY <1>1, <1>2, <1>4
  <2>2. CASE (a <= now /\ b <= now) \/ (a > now /\ b > now)
    <3>1. c[a] - c[b] = g[a] - g[b] /\ g[a] > g[b]
      BY <1>2, <1>4, <1>8, <2>1, <2>2
    <3> QED
      BY <1>8, <3>1 DEF BucketOK, f
  <2>3. CASE a <= now /\ b > now
    <3>1. Height(q) >= One * c[a] + f * a
      BY <1>7, <1>8, <2>1
    <3>2. Height(q) <= r.capacity + f * now
      BY <1>1, <1>2, <1>3, <1>5, <1>6
    <3>3. /\ One * (c[a] - c[b]) <= One * c[a]
          /\ One * (c[a] - c[b]) \in Int /\ One * c[a] \in Int
      BY <1>2, <2>1, Times
    <3>4. /\ f * now - f * a = f * (now - a) /\ f * (now - a) <= f * (b - 1 - a)
          /\ f * a \in Int /\ f * (b - 1 - a) \in Int
      <4>1. now - a \in Int /\ b - 1 - a \in Int /\ now - a <= b - 1 - a
        BY <1>2, <2>1, <2>3
      <4> QED
        BY <1>1, <1>2, <2>1, <4>1, Times
    <3> QED
      BY <1>1, <1>2, <1>3, <1>6, <3>1, <3>2, <3>3, <3>4
  <2> QED
    BY <1>2, <1>8, <2>1, <2>2, <2>3
<1>9. q # NoRow
  BY <1>3, RowIsThere
<1>10. BucketOK(k, q, c, 0)
  BY <1>1, <1>3, <1>4, <1>7, <1>8, <1>9 DEF BucketOK
<1> QED
  BY <1>10 DEF q, c

\* After the wait a refused request fits, and two seconds earlier it does not.
LEMMA RefuseBucket ==
  ASSUME NEW k \in Keys, NEW r, NEW g, NEW d, BucketOK(k, r, g, d), r # NoRow,
         NEW now \in Clock, Excess(r, now) > 0
  PROVE  BucketOK(k, r, g, now + Wait(r, now))
<1> DEFINE f == r.flow
           e == Excess(r, now)
           n == Wait(r, now)
<1>1. /\ r \in Bucket /\ r.capacity >= One
      /\ f \in Nat /\ f \in Nat \ {0} /\ r.capacity \in Nat /\ r.value \in Nat /\ r.last \in Nat
  BY LimiterAssumption DEF BucketOK, Bucket, Clock
<1>2. One \in Nat /\ now \in Nat
  BY LimiterAssumption DEF Clock
<1>3. Drained(r, now) \in Nat
  BY <1>1, Drains
<1>4. e \in Nat /\ e > 0
  BY <1>1, <1>2, <1>3 DEF Excess
<1>5. n \in Nat /\ n - 2 \in Int /\ n * f > e /\ (n - 2) * f < e
  <2> DEFINE x == e + f - 1
             m == x \div f
  <2>1. x \in Nat /\ n = m + 1
    BY <1>1, <1>4 DEF Wait
  <2> HIDE DEF x, n
  <2>2. m \in Nat /\ (m + 1) * f > x /\ m * f <= x
    BY <1>1, <2>1, Division
  <2> HIDE DEF m
  <2>3. n \in Nat /\ n - 2 \in Int /\ n * f > x
    BY <2>1, <2>2
  <2>4. n * f \in Int
    BY <1>1, <2>3, Times
  <2>5. m - 1 = n - 2 /\ (m - 1) * f = m * f - f /\ m * f \in Int
    <3>1. f * (m - 1) = f * m - f * 1 /\ f * m \in Int
      BY <1>1, <2>2, Times
    <3>2. (m - 1) * f = f * (m - 1) /\ m * f = f * m
      BY <1>1, <2>2, Times
    <3> QED
      BY <1>1, <2>1, <2>2, <3>1, <3>2
  <2> QED
    BY <1>1, <1>4, <2>2, <2>3, <2>4, <2>5 DEF x
<1> HIDE DEF n
<1> DEFINE y == r.value - (now - r.last) * f
           z(i) == r.value - (now + i - r.last) * f
<1>6. ASSUME NEW i \in Int
      PROVE  /\ y \in Int /\ i * f \in Int /\ z(i) \in Int /\ z(i) = y - i * f
             /\ Drained(r, now + i) = IF z(i) > 0 THEN z(i) ELSE 0
             /\ Excess(r, now + i) = One + Drained(r, now + i) - r.capacity
  <2>1. (now + i - r.last) * f = (now - r.last) * f + i * f
    <3>1. now + i - r.last = (now - r.last) + i /\ now - r.last \in Int /\ now + i - r.last \in Int
      BY <1>1, <1>2
    <3> QED
      BY <1>1, <3>1, Times
  <2>2. (now - r.last) * f \in Int /\ i * f \in Int
    BY <1>1, <1>2, Times
  <2>3. y \in Int /\ z(i) \in Int /\ z(i) = y - i * f
    BY <1>1, <2>1, <2>2
  <2>4. Drained(r, now + i) = IF z(i) > 0 THEN z(i) ELSE 0
    BY <1>1, <1>2, <2>2, <2>3 DEF Drained
  <2> QED
    BY <2>2, <2>3, <2>4 DEF Excess
<1>7. /\ y \in Int /\ Drained(r, now) = IF y > 0 THEN y ELSE 0
      /\ e = One + Drained(r, now) - r.capacity
  <2>1. y \in Int
    BY <1>6
  <2> QED
    BY <1>1, <1>2, <2>1 DEF Drained, Excess
<1> HIDE DEF y, z, e, f
<1>8. Excess(r, now + n) <= 0
  <2>1. n * f \in Int /\ z(n) = y - n * f
    BY <1>5, <1>6
  <2>2. Excess(r, now + n) = One + (IF z(n) > 0 THEN z(n) ELSE 0) - r.capacity
    BY <1>5, <1>6
  <2> HIDE DEF z
  <2> QED
    BY <1>1, <1>2, <1>4, <1>5, <1>7, <2>1, <2>2
<1>9. Excess(r, now + (n - 2)) > 0
  <2> DEFINE m == n - 2
  <2>1. m \in Int /\ m * f < e
    BY <1>5
  <2> HIDE DEF m
  <2>2. m * f \in Int /\ z(m) = y - m * f
    BY <1>6, <2>1
  <2>3. Excess(r, now + m) = One + (IF z(m) > 0 THEN z(m) ELSE 0) - r.capacity
    BY <1>6, <2>1
  <2>4. Excess(r, now + m) > 0
    BY <1>1, <1>2, <1>4, <1>7, <2>1, <2>2, <2>3
  <2> QED
    BY <2>4 DEF m
<1> DEFINE s == now + n
<1>10. s \in Nat /\ s - 2 = now + (n - 2)
  BY <1>2, <1>5
<1>11. Excess(r, s) <= 0
  BY <1>8
<1> HIDE DEF s
<1>12. Excess(r, s - 2) > 0
  BY <1>9, <1>10
<1>13. BucketOK(k, r, g, s)
  BY <1>1, <1>10, <1>11, <1>12 DEF BucketOK
<1> QED
  BY <1>13 DEF n, s

\* tick raises the level, whatever was granted.
LEMMA TickBucket ==
  ASSUME NEW k \in Keys, NEW r, NEW g, NEW d, BucketOK(k, r, g, d), r # NoRow,
         NEW v \in Nat
  PROVE  /\ [r EXCEPT !.value = @ + v] \in Bucket
         /\ Height([r EXCEPT !.value = @ + v]) = Height(r) + v
         /\ BucketOK(k, [r EXCEPT !.value = @ + v], g, 0)
<1> DEFINE q == [r EXCEPT !.value = @ + v]
<1>1. r \in Bucket /\ r.value \in Nat /\ r.last \in Int /\ r.flow \in Nat
  BY LimiterAssumption DEF BucketOK, Bucket, Clock
<1>2. q \in Bucket
  BY <1>1 DEF Bucket
<1>3. q.capacity = r.capacity /\ q.flow = r.flow /\ q.value = r.value + v /\ q.last = r.last
  BY <1>1 DEF Bucket
<1>4. r.flow * r.last \in Int
  BY <1>1, Times
<1> HIDE DEF q
<1>5. Height(q) = Height(r) + v /\ Height(r) \in Int
  BY <1>1, <1>3, <1>4 DEF Height
<1>6. ASSUME NEW a \in Stamp, g[a] > 0 PROVE Height(q) >= One * g[a] + r.flow * a
  <2>1. g[a] \in Nat /\ a \in Int /\ One \in Nat
    BY LimiterAssumption DEF BucketOK, Stamp
  <2>2. One * g[a] \in Int /\ r.flow * a \in Int
    BY <1>1, <2>1, Times
  <2>3. Height(r) >= One * g[a] + r.flow * a
    BY <1>6 DEF BucketOK
  <2> QED
    BY <1>5, <2>2, <2>3
<1>7. q # NoRow
  BY <1>2, RowIsThere
<1>8. BucketOK(k, q, g, 0)
  BY <1>2, <1>3, <1>6, <1>7 DEF BucketOK
<1> QED
  BY <1>2, <1>5, <1>8 DEF q

\* Lowered parameters start a new count.
LEMMA LowerBucket ==
  ASSUME NEW k \in Keys, NEW r, NEW g, NEW d, BucketOK(k, r, g, d), r # NoRow
  PROVE  LET q == [r EXCEPT !.capacity = Lowered.capacity, !.flow = Lowered.flow] IN
         /\ q \in Bucket
         /\ q.flow = r.flow => Height(q) = Height(r)
         /\ BucketOK(k, q, IF q = r THEN g ELSE Never, IF q = r THEN d ELSE 0)
<1> DEFINE q == [r EXCEPT !.capacity = Lowered.capacity, !.flow = Lowered.flow]
<1>1. r \in Bucket /\ Lowered \in Parameters /\ Lowered.capacity >= One
  BY LimiterAssumption DEF BucketOK
<1>2. q \in Bucket
  BY <1>1 DEF Bucket, Parameters
<1>3. /\ q.capacity = Lowered.capacity /\ q.value = r.value /\ q.last = r.last
  BY <1>1 DEF Bucket
<1>4. q # NoRow
  BY <1>2, RowIsThere
<1> HIDE DEF q
<1>5. BucketOK(k, q, Never, 0)
  <2>1. Never \in [Stamp -> Nat] /\ \A a \in Stamp : Never[a] = 0
    BY DEF Never
  <2> QED
    BY <1>1, <1>2, <1>3, <1>4, <2>1 DEF BucketOK
<1>6. BucketOK(k, q, IF q = r THEN g ELSE Never, IF q = r THEN d ELSE 0)
  BY <1>5
<1>7. q.flow = r.flow => Height(q) = Height(r)
  BY <1>3 DEF Height
<1> QED
  BY <1>2, <1>6, <1>7 DEF q

-----------------------------------------------------------------------------
(* What each action does to all of them. *)

\* One bucket changes; the rows of addresses and of Global stay.
LEMMA OneBucket ==
  ASSUME Buckets, NEW k \in Keys, NEW r, NEW g, NEW d, BucketOK(k, r, g, d),
         rows' = [rows EXCEPT ![k] = r], granted' = [granted EXCEPT ![k] = g],
         due' = [due EXCEPT ![k] = d]
  PROVE  Buckets'
<1>1. r \in Bucket \cup {NoRow} /\ g \in [Stamp -> Nat] /\ d \in Nat
  BY DEF BucketOK
<1>2. /\ rows' \in [Keys -> Bucket \cup {NoRow}]
      /\ granted' \in [Keys -> [Stamp -> Nat]]
      /\ due' \in [Keys -> Nat]
  BY <1>1 DEF Buckets
<1>3. ASSUME NEW i \in Keys PROVE BucketOK(i, rows'[i], granted'[i], due'[i])
  <2>1. CASE i = k
    <3>1. rows'[i] = r /\ granted'[i] = g /\ due'[i] = d
      BY <2>1 DEF Buckets
    <3> QED
      BY <2>1, <3>1
  <2>2. CASE i # k
    <3>1. rows'[i] = rows[i] /\ granted'[i] = granted[i] /\ due'[i] = due[i]
      BY <2>2 DEF Buckets
    <3> QED
      BY <3>1 DEF Buckets
  <2> QED
    BY <2>1, <2>2
<1> QED
  BY <1>2, <1>3 DEF Buckets

LEMMA SameBuckets == Buckets /\ UNCHANGED <<rows, granted, due>> => Buckets'
BY DEF Buckets

\* The keys a worker uses.
LEMMA UsedKeys ==
  ASSUME LInv, NEW w \in Workers
  PROVE  /\ job[w] \in Job /\ job[w].key \in Sources /\ job[w].key \in Keys
         /\ Asked(w) \in Keys
         /\ job[w].came \in Clock /\ job[w].now \in Clock
BY DEF LInv, Threads, Job, Keys, Asked

\* A worker goes on while no row but a token's goes away.
LEMMA GotoThreads ==
  ASSUME LInv, NEW w \in Workers, NEW s \in PC, NEW j \in Job, Goto(w, s, j),
         j.headless => j.key \in Headless,
         s = "params" => j.headless /\ rows'[j.key] # NoRow,
         s = "create" => j.key \in Addresses,
         \A k \in Keys : rows[k] # NoRow => rows'[k] # NoRow
  PROVE  Threads'
<1>1. \A v \in Workers : job[v].key \in Keys
  BY UsedKeys
<1>2. /\ pc' = [pc EXCEPT ![w] = s] /\ job' = [job EXCEPT ![w] = j]
      /\ pc \in [Workers -> PC] /\ job \in [Workers -> Job]
  BY DEF Goto, LInv, Threads
<1> QED
  BY <1>1, <1>2 DEF LInv, Threads

LEMMA NoJobType == NoJob \in Job /\ ~NoJob.headless
<1>1. (CHOOSE k \in Sources : TRUE) \in Sources
  BY LimiterAssumption
<1>2. 0 \in Clock
  BY LimiterAssumption DEF Clock
<1> QED
  BY <1>1, <1>2 DEF NoJob, Job

LEMMA LeaveThreads ==
  ASSUME LInv, NEW w \in Workers, Leave(w),
         \A k \in Keys : rows[k] # NoRow => rows'[k] # NoRow
  PROVE  Threads'
BY NoJobType, GotoThreads DEF Leave, PC

\* Going on within a request.
LEMMA OnThreads ==
  ASSUME LInv, NEW w \in Workers, NEW s \in PC \ {"params", "create"}, NEW j \in Job,
         j.key = job[w].key, j.headless = job[w].headless, Goto(w, s, j),
         \A k \in Keys : rows[k] # NoRow => rows'[k] # NoRow
  PROVE  Threads'
BY GotoThreads DEF LInv, Threads

LEMMA ZeroClock == 0 \in Clock
BY LimiterAssumption DEF Clock

\* retry_after's two answers.
LEMMA GrantedOK ==
  ASSUME LInv, NEW w \in Workers, Granted(w),
         \A k \in Keys : rows[k] # NoRow => rows'[k] # NoRow
  PROVE  Threads' /\ passed' \in [Keys -> [Stamp -> Nat]]
<1>1. job[w] \in Job /\ job[w].came \in Clock
  BY UsedKeys
<1>2. CASE Goto(w, "test", [job[w] EXCEPT !.global = TRUE, !.now = 0]) /\ UNCHANGED passed
  <2>1. [job[w] EXCEPT !.global = TRUE, !.now = 0] \in Job
    BY <1>1, ZeroClock DEF Job
  <2>2. Threads'
    BY <1>1, <1>2, <2>1, OnThreads DEF PC, Job
  <2> QED
    BY <1>2, <2>2 DEF LInv, Counts
<1>3. CASE /\ Goto(w, "work", [job[w] EXCEPT !.now = 0])
           /\ passed' = [k \in Keys |-> IF k \in {job[w].key, Global}
                                  THEN Counted(passed[k], job[w].came)
                                  ELSE passed[k]]
  <2>1. [job[w] EXCEPT !.now = 0] \in Job
    BY <1>1, ZeroClock DEF Job
  <2>2. Threads'
    BY <1>1, <1>3, <2>1, OnThreads DEF PC, Job
  <2>3. \A k \in Keys : Counted(passed[k], job[w].came) \in [Stamp -> Nat]
    BY <1>1, CountedType DEF LInv, Counts
  <2> QED
    BY <1>3, <2>2, <2>3 DEF LInv, Counts
<1> QED
  BY <1>2, <1>3 DEF Granted

LEMMA RefusedOK ==
  ASSUME LInv, NEW w \in Workers, Refused(w),
         \A k \in Keys : rows[k] # NoRow => rows'[k] # NoRow
  PROVE  Threads' /\ passed' \in [Keys -> [Stamp -> Nat]]
<1>1. job[w] \in Job
  BY UsedKeys
<1>2. passed' \in [Keys -> [Stamp -> Nat]]
  BY DEF Refused, LInv, Counts
<1>3. CASE Goto(w, "tick", [job[w] EXCEPT !.now = 0])
  <2>1. [job[w] EXCEPT !.now = 0] \in Job
    BY <1>1, ZeroClock DEF Job
  <2> QED
    BY <1>1, <1>2, <1>3, <2>1, OnThreads DEF PC, Job
<1>4. CASE Leave(w)
  BY <1>2, <1>4, LeaveThreads
<1> QED
  BY <1>3, <1>4 DEF Refused

LEMMA HeightType ==
  ASSUME LInv, NEW k \in Keys, rows[k] # NoRow
  PROVE  Height(rows[k]) \in Int
<1>1. rows[k].flow \in Nat /\ rows[k].last \in Int /\ rows[k].value \in Nat
  BY LimiterAssumption DEF LInv, Buckets, BucketOK, Bucket, Clock
<1> QED
  BY <1>1, Times DEF Height

\* tick, which finds the row it raises or changes nothing.
LEMMA TickOK ==
  ASSUME LInv, NEW k \in Keys, NEW v \in Nat, Tick(k, v), UNCHANGED granted
  PROVE  /\ Buckets'
         /\ \A i \in Keys : rows[i] # NoRow => rows'[i] # NoRow
         /\ \A i \in Keys : rows[i] # NoRow => Height(rows'[i]) >= Height(rows[i])
<1>0. \A i \in Keys : rows[i] # NoRow => Height(rows[i]) \in Int
  BY HeightType
<1>1. CASE /\ rows[k] # NoRow
           /\ rows' = [rows EXCEPT ![k].value = @ + v]
           /\ due' = [due EXCEPT ![k] = 0]
  <2> DEFINE q == [rows[k] EXCEPT !.value = @ + v]
  <2>1. BucketOK(k, rows[k], granted[k], due[k])
    BY DEF LInv, Buckets
  <2>2. q \in Bucket /\ Height(q) = Height(rows[k]) + v /\ BucketOK(k, q, granted[k], 0)
    BY <1>1, <2>1, TickBucket
  <2>3. rows' = [rows EXCEPT ![k] = q]
    BY <1>1
  <2>4. granted' = [granted EXCEPT ![k] = granted[k]]
    BY DEF LInv, Buckets
  <2> HIDE DEF q
  <2>5. Buckets'
    BY <1>1, <2>2, <2>3, <2>4, OneBucket DEF LInv
  <2>6. q # NoRow
    BY <2>2, RowIsThere
  <2>7. \A i \in Keys : rows'[i] = IF i = k THEN q ELSE rows[i]
    BY <2>3 DEF LInv, Buckets
  <2> QED
    BY <1>0, <1>1, <2>2, <2>5, <2>6, <2>7
<1>2. CASE rows[k] = NoRow /\ UNCHANGED <<rows, due>>
  BY <1>0, <1>2, SameBuckets DEF LInv
<1> QED
  BY <1>1, <1>2 DEF Tick

\* The first steps of a request.
LEMMA RequestStep ==
  ASSUME LInv, NEW w \in Workers, Request(w) \/ Create(w) \/ BeginFill(w) \/ Serve(w)
  PROVE  LInv'
<1>1. job[w] \in Job /\ job[w].key \in Keys /\ clock \in Clock /\ Asked(w) \in Keys
      /\ asked \in Nat
  BY UsedKeys, LimiterAssumption DEF LInv, Counts
<1>2. CASE Request(w)
  <2>1. PICK k \in Sources, headless \in BOOLEAN :
          /\ headless => k \in Headless
          /\ LET j == [NoJob EXCEPT !.key = k, !.headless = headless,
                                    !.came = clock] IN
             \/ rows[k] # NoRow /\ Limit(w, j)
             \/ rows[k] = NoRow /\ k \in Addresses /\ Goto(w, "create", j)
    BY <1>2 DEF Request
  <2> DEFINE j == [NoJob EXCEPT !.key = k, !.headless = headless,
                                !.came = clock]
  <2>2. j \in Job /\ j.key = k /\ j.headless = headless
    BY <1>1, NoJobType DEF Job
  <2>3. \/ rows[k] # NoRow /\ Goto(w, IF headless THEN "params" ELSE "test", j)
        \/ rows[k] = NoRow /\ Goto(w, "create", j)
    BY <2>1, <2>2 DEF Limit
  <2> HIDE DEF j
  <2>4. Threads'
    BY <1>2, <2>1, <2>2, <2>3, GotoThreads DEF Request, PC
  <2>5. asked' \in 0 .. MaxRequests
    <3>1. asked < MaxRequests /\ asked' = asked + 1
      BY <1>2 DEF Request
    <3> QED
      BY <1>1, <3>1, LimiterAssumption
  <2> QED
    BY <1>2, <2>4, <2>5, SameBuckets DEF Request, LInv, Counts
<1>3. CASE Create(w)
  <2>1. CASE /\ rows[job[w].key] = NoRow
             /\ rows' = [rows EXCEPT ![job[w].key] = Row(Default, clock)]
             /\ Limit(w, job[w])
    <3> DEFINE k == job[w].key
    <3>1. Row(Default, clock) \in Bucket /\ BucketOK(k, Row(Default, clock), Never, 0)
      BY <1>1, NewBucket
    <3>2. granted[k] = Never /\ due[k] = 0
      BY <1>1, <1>3, <2>1 DEF Create, LInv, Buckets, BucketOK, Threads
    <3>3. Buckets'
      BY <1>1, <1>3, <2>1, <3>1, <3>2, OneBucket DEF Create, LInv, Buckets
    <3>4. Row(Default, clock) # NoRow
      BY <3>1, RowIsThere
    <3>5. \A i \in Keys : rows[i] # NoRow => rows'[i] # NoRow
      BY <2>1, <3>4 DEF LInv, Buckets
    <3>6. rows'[k] # NoRow
      BY <1>1, <2>1, <3>4 DEF LInv, Buckets
    <3>7. Threads'
      BY <1>1, <2>1, <3>5, <3>6, GotoThreads DEF Limit, PC, LInv, Threads
    <3> QED
      BY <1>3, <3>3, <3>7 DEF Create, LInv, Counts
  <2>2. CASE rows[job[w].key] # NoRow /\ Leave(w) /\ UNCHANGED rows
    BY <1>3, <2>2, LeaveThreads, SameBuckets DEF Create, LInv, Counts
  <2> QED
    BY <1>3, <2>1, <2>2 DEF Create
<1>4. CASE BeginFill(w)
  <2>1. CASE Goto(w, "fill", [job[w] EXCEPT !.now = clock]) /\ UNCHANGED passed
    <3>1. [job[w] EXCEPT !.now = clock] \in Job
      BY <1>1 DEF Job
    <3>2. Threads'
      BY <1>1, <1>4, <2>1, <3>1, OnThreads DEF BeginFill, PC, Job
    <3> QED
      BY <1>4, <2>1, <3>2, SameBuckets DEF BeginFill, LInv, Counts
  <2>2. CASE Refused(w)
    BY <1>4, <2>2, RefusedOK, SameBuckets DEF BeginFill, LInv, Counts
  <2> QED
    BY <1>4, <2>1, <2>2 DEF BeginFill
<1>5. CASE Serve(w)
  BY <1>5, LeaveThreads, SameBuckets DEF Serve, LInv, Counts
<1> QED
  BY <1>2, <1>3, <1>4, <1>5

\* Lowering the parameters of a row.
LEMMA LowerStep ==
  ASSUME LInv, NEW w \in Workers, SetParameters(w)
  PROVE  /\ LInv'
         /\ \A k \in Keys : rows[k] # NoRow /\ rows'[k].flow = rows[k].flow
              => Height(rows'[k]) = Height(rows[k])
<1> DEFINE k == job[w].key
           r == [rows[k] EXCEPT !.capacity = Lowered.capacity, !.flow = Lowered.flow]
           g == IF r = rows[k] THEN granted[k] ELSE Never
           d == IF r = rows[k] THEN due[k] ELSE 0
<1>1. /\ job[w] \in Job /\ k \in Keys /\ rows[k] # NoRow
      /\ BucketOK(k, rows[k], granted[k], due[k])
  BY UsedKeys DEF SetParameters, LInv, Threads, Buckets
<1>2. /\ r \in Bucket /\ (r.flow = rows[k].flow => Height(r) = Height(rows[k]))
      /\ BucketOK(k, r, g, d)
  BY <1>1, LowerBucket
<1>3. /\ rows' = [rows EXCEPT ![k] = r] /\ granted' = [granted EXCEPT ![k] = g]
      /\ due' = [due EXCEPT ![k] = d]
      /\ Goto(w, "test", job[w]) /\ UNCHANGED <<clock, asked, passed>>
  BY DEF SetParameters
<1> HIDE DEF r, g, d
<1>4. Buckets'
  BY <1>1, <1>2, <1>3, OneBucket DEF LInv
<1>5. \A i \in Keys : rows'[i] = IF i = k THEN r ELSE rows[i]
  BY <1>3 DEF LInv, Buckets
<1>6. r # NoRow
  BY <1>2, RowIsThere
<1>7. Threads'
  BY <1>1, <1>3, <1>5, <1>6, OnThreads DEF PC
<1> QED
  BY <1>2, <1>3, <1>4, <1>5, <1>7 DEF LInv, Counts

\* fill_limiter with the table locked.
LEMMA FillStep ==
  ASSUME LInv, NEW w \in Workers, Fill(w)
  PROVE  /\ LInv'
         /\ \A k \in Keys : rows[k] # NoRow => Height(rows'[k]) >= Height(rows[k])
<1> DEFINE k == Asked(w)
           r == rows[k]
           now == job[w].now
<1>1. /\ job[w] \in Job /\ k \in Keys /\ now \in Clock
      /\ BucketOK(k, r, granted[k], due[k])
  BY UsedKeys DEF LInv, Buckets
<1>2. \A i \in Keys : rows[i] # NoRow => Height(rows[i]) \in Int
  BY HeightType
<1>3. r # NoRow => Excess(r, now) \in Int
  <2> SUFFICES ASSUME r # NoRow PROVE Excess(r, now) \in Int
    OBVIOUS
  <2>1. r \in Bucket /\ One \in Nat
    BY <1>1, LimiterAssumption DEF BucketOK
  <2>2. Drained(r, now) \in Nat /\ r.capacity \in Nat
    BY <1>1, <2>1, Drains DEF Bucket
  <2> QED
    BY <2>1, <2>2 DEF Excess
<1>4. CASE r # NoRow /\ Excess(r, now) <= 0
  <2> DEFINE q == Charged(r, now)
             g == Counted(granted[k], now)
  <2>1. BucketOK(k, q, g, 0)
    BY <1>1, <1>4, GrantBucket
  <2>2. q \in Bucket /\ Height(q) >= Height(r)
    <3>1. r \in Bucket /\ One \in Nat
      BY <1>1, <1>4, LimiterAssumption DEF BucketOK
    <3>2. r.flow \in Nat /\ now \in Int
      BY <1>1, <3>1, LimiterAssumption DEF Bucket, Clock
    <3>3. r.flow * now \in Int
      BY <3>2, Times
    <3>4. /\ Drained(r, now) \in Nat /\ Drained(r, now) + r.flow * now >= Height(r)
          /\ q \in Bucket /\ Height(q) = One + Drained(r, now) + r.flow * now
      BY <1>1, <3>1, Drains
    <3> HIDE DEF q, r, now
    <3> QED
      BY <1>2, <1>4, <1>1, <3>1, <3>3, <3>4 DEF r
  <2>3. /\ rows' = [rows EXCEPT ![k] = q] /\ granted' = [granted EXCEPT ![k] = g]
        /\ due' = [due EXCEPT ![k] = 0]
        /\ Granted(w) /\ UNCHANGED <<clock, asked>>
    BY <1>1, <1>4, <1>3 DEF Fill
  <2> HIDE DEF q, g
  <2>4. Buckets'
    BY <1>1, <2>1, <2>3, OneBucket DEF LInv
  <2>5. q # NoRow
    BY <2>2, RowIsThere
  <2>6. \A i \in Keys : rows'[i] = IF i = k THEN q ELSE rows[i]
    BY <2>3 DEF LInv, Buckets
  <2>7. Threads' /\ passed' \in [Keys -> [Stamp -> Nat]]
    BY <2>3, <2>5, <2>6, GrantedOK
  <2> QED
    BY <1>2, <2>2, <2>3, <2>4, <2>6, <2>7 DEF LInv, Counts
<1>5. CASE r # NoRow /\ Excess(r, now) > 0 /\ ~(Excess(r, now) <= 0)
  <2> DEFINE d == now + Wait(r, now)
  <2>1. BucketOK(k, r, granted[k], d)
    BY <1>1, <1>5, RefuseBucket
  <2>2. /\ due' = [due EXCEPT ![k] = d]
        /\ Refused(w) /\ UNCHANGED <<clock, asked, rows, granted>>
    BY <1>5 DEF Fill
  <2>3. /\ rows' = [rows EXCEPT ![k] = r]
        /\ granted' = [granted EXCEPT ![k] = granted[k]]
    BY <2>2 DEF LInv, Buckets
  <2> HIDE DEF d
  <2>4. Buckets'
    BY <1>1, <2>1, <2>2, <2>3, OneBucket DEF LInv
  <2>5. Threads' /\ passed' \in [Keys -> [Stamp -> Nat]]
    BY <2>2, RefusedOK
  <2> QED
    BY <1>2, <2>2, <2>4, <2>5 DEF LInv, Counts
<1>6. CASE r = NoRow
  <2>1. Granted(w) /\ UNCHANGED <<clock, asked, rows, granted, due>>
    BY <1>6 DEF Fill
  <2> QED
    BY <1>2, <2>1, GrantedOK, SameBuckets DEF LInv, Counts
<1> QED
  BY <1>4, <1>5, <1>6, <1>3

LEMMA ChargeStep ==
  ASSUME LInv, NEW w \in Workers, TickRefused(w) \/ ServeFails(w)
  PROVE  /\ LInv'
         /\ \A k \in Keys : rows[k] # NoRow => Height(rows'[k]) >= Height(rows[k])
<1>1. job[w] \in Job /\ job[w].key \in Keys /\ Late \in Nat /\ Bad \in Nat
  BY UsedKeys, LimiterAssumption
<1>2. CASE TickRefused(w)
  <2>1. Tick(job[w].key, Late) /\ UNCHANGED <<clock, asked, granted, passed>>
    BY <1>2 DEF TickRefused
  <2>2. /\ Buckets' /\ \A i \in Keys : rows[i] # NoRow => rows'[i] # NoRow
        /\ \A k \in Keys : rows[k] # NoRow => Height(rows'[k]) >= Height(rows[k])
    BY <1>1, <2>1, TickOK
  <2>3. CASE Goto(w, "test", [job[w] EXCEPT !.again = TRUE])
    <3>1. [job[w] EXCEPT !.again = TRUE] \in Job
      BY <1>1 DEF Job
    <3>2. Threads'
      BY <1>1, <2>2, <2>3, <3>1, OnThreads DEF PC, Job
    <3> QED
      BY <2>1, <2>2, <3>2 DEF LInv, Counts
  <2>4. CASE Leave(w)
    <3>1. Threads'
      BY <2>2, <2>4, LeaveThreads
    <3> QED
      BY <2>1, <2>2, <3>1 DEF LInv, Counts
  <2> QED
    BY <1>2, <2>3, <2>4 DEF TickRefused
<1>3. CASE ServeFails(w)
  <2>1. Tick(job[w].key, Bad) /\ Leave(w) /\ UNCHANGED <<clock, asked, granted, passed>>
    BY <1>3 DEF ServeFails
  <2>2. /\ Buckets' /\ \A i \in Keys : rows[i] # NoRow => rows'[i] # NoRow
        /\ \A k \in Keys : rows[k] # NoRow => Height(rows'[k]) >= Height(rows[k])
    BY <1>1, <2>1, TickOK
  <2>3. Threads'
    BY <2>1, <2>2, LeaveThreads
  <2> QED
    BY <2>1, <2>2, <2>3 DEF LInv, Counts
<1> QED
  BY <1>2, <1>3

LEMMA EnvironmentStep == LInv /\ (Pass \/ Revoke) => LInv'
<1> SUFFICES ASSUME LInv, Pass \/ Revoke PROVE LInv'
  OBVIOUS
<1>1. CASE Pass
  <2>1. clock' \in Clock
    BY <1>1, LimiterAssumption DEF Pass, LInv, Counts, Clock
  <2> QED
    BY <1>1, <2>1, SameBuckets DEF Pass, LInv, Threads, Counts
<1>2. CASE Revoke
  <2>1. PICK k \in Tokens : rows' = [rows EXCEPT ![k] = NoRow]
    BY <1>2 DEF Revoke
  <2>2. k \in Keys /\ k \notin Addresses
    BY LimiterAssumption DEF Keys, Sources
  <2>3. BucketOK(k, NoRow, granted[k], due[k])
    BY <2>2 DEF LInv, Buckets, BucketOK
  <2>4. /\ granted' = [granted EXCEPT ![k] = granted[k]] /\ due' = [due EXCEPT ![k] = due[k]]
    BY <1>2 DEF Revoke, LInv, Buckets
  <2>5. Buckets'
    BY <2>1, <2>2, <2>3, <2>4, OneBucket DEF LInv
  <2>6. \A w \in Workers : job[w].headless => job[w].key # k
    BY <2>2, LimiterAssumption DEF LInv, Threads
  <2>7. Threads'
    BY <1>2, <2>1, <2>6 DEF Revoke, LInv, Threads, Buckets
  <2> QED
    BY <1>2, <2>5, <2>7 DEF Revoke, LInv, Counts
<1> QED
  BY <1>1, <1>2

LEMMA NextLInv == LInv /\ [Next]_vars => LInv'
<1> SUFFICES ASSUME LInv, [Next]_vars PROVE LInv'
  OBVIOUS
<1>1. ASSUME NEW w \in Workers, Step(w) PROVE LInv'
  BY <1>1, RequestStep, LowerStep, FillStep, ChargeStep DEF Step
<1>2. CASE UNCHANGED vars
  BY <1>2, SameBuckets DEF vars, LInv, Threads, Counts
<1> QED
  BY <1>1, <1>2, EnvironmentStep DEF Next

LEMMA InitLInv == Init => LInv
<1> SUFFICES ASSUME Init PROVE LInv
  OBVIOUS
<1>1. 0 \in Clock /\ Never \in [Stamp -> Nat]
  BY ZeroClock DEF Never
<1>2. \A k \in Keys : /\ rows[k] \in Bucket \cup {NoRow}
                      /\ BucketOK(k, rows[k], granted[k], due[k])
  <2> SUFFICES ASSUME NEW k \in Keys
               PROVE  rows[k] \in Bucket \cup {NoRow} /\ BucketOK(k, rows[k], granted[k], due[k])
    OBVIOUS
  <2>1. granted[k] = Never /\ due[k] = 0
    BY DEF Init
  <2>2. rows[k] \in {Row(Shared, 0), Row(Agreed, 0), NoRow}
    BY DEF Init
  <2>3. BucketOK(k, NoRow, Never, 0)
    BY <1>1 DEF BucketOK
  <2> QED
    BY <1>1, <2>1, <2>2, <2>3, NewBucket
<1>3. Buckets
  BY <1>1, <1>2 DEF Init, Buckets
<1>4. Threads
  BY NoJobType DEF Init, Threads, PC
<1>5. Counts
  BY <1>1, LimiterAssumption DEF Init, Counts
<1> QED
  BY <1>3, <1>4, <1>5 DEF LInv

THEOREM LimiterInvariance == Spec => []LInv
BY InitLInv, NextLInv, PTL DEF Spec
-----------------------------------------------------------------------------
\* Every variable keeps its type.
THEOREM LimiterTyped == Spec => []TypeOK
<1>1. LInv => TypeOK
  BY DEF LInv, Buckets, Threads, Counts, TypeOK
<1> QED
  BY <1>1, LimiterInvariance, PTL

\* In every interval a bucket grants no more than its capacity and what it leaks.
THEOREM Windows == Spec => []WindowBound
<1>1. LInv => WindowBound
  BY DEF LInv, Buckets, BucketOK, WindowBound
<1> QED
  BY <1>1, LimiterInvariance, PTL

\* Who waits as long as told, alone, is not refused.
THEOREM Honesty == Spec => []HonestWait
<1>1. LInv => HonestWait
  BY DEF LInv, Buckets, BucketOK, HonestWait
<1> QED
  BY <1>1, LimiterInvariance, PTL

\* No step takes a charge away faster than the flow.
THEOREM Charges == Spec => ChargeKept
<1> DEFINE Kept(k) == /\ rows[k] # NoRow /\ rows'[k] # NoRow
                      /\ rows'[k].flow = rows[k].flow
                      => Height(rows'[k]) >= Height(rows[k])
<1>1. LInv /\ [Next]_vars => [\A k \in Keys : Kept(k)]_vars
  <2> SUFFICES ASSUME LInv, [Next]_vars, NEW k \in Keys PROVE Kept(k)
    OBVIOUS
  <2>1. rows[k] # NoRow => Height(rows[k]) \in Int
    BY HeightType
  <2>2. rows'[k] = rows[k] => Kept(k)
    BY <2>1
  <2>3. ASSUME NEW w \in Workers, Step(w) PROVE Kept(k)
    <3>1. CASE Create(w)
      BY <2>2, <3>1 DEF Create, LInv, Buckets
    <3>2. CASE SetParameters(w)
      BY <2>1, <3>2, LowerStep
    <3>3. CASE Fill(w) \/ TickRefused(w) \/ ServeFails(w)
      BY <3>3, FillStep, ChargeStep
    <3>4. CASE Request(w) \/ BeginFill(w) \/ Serve(w)
      BY <2>2, <3>4 DEF Request, BeginFill, Serve
    <3> QED
      BY <2>3, <3>1, <3>2, <3>3, <3>4 DEF Step
  <2>4. CASE Pass \/ Revoke \/ UNCHANGED vars
    BY <2>2, <2>4 DEF Pass, Revoke, vars, LInv, Buckets
  <2> QED
    BY <2>3, <2>4 DEF Next
<1> QED
  BY <1>1, LimiterInvariance, PTL DEF Spec, ChargeKept
=============================================================================
