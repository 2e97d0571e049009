---------------------------- MODULE LimiterPassProofs ----------------------------
(* How many requests Limiter lets through, for every value of the constants: each *)
(* was granted by the bucket of its source, and by the global one.                *)
EXTENDS LimiterProofs, FiniteSetTheorems

\* Requests of source k that its bucket has let through and the global one not yet.
Pending(k, a) ==
  {w \in Workers : /\ job[w].key = k /\ job[w].global
                   /\ pc[w] \in {"test", "fill"} /\ job[w].came >= a}

\* Nothing is dated in the future, and a transaction begins after its request came.
Dated ==
  /\ \A w \in Workers : job[w].came <= clock
  /\ \A w \in Workers : pc[w] = "fill" => job[w].came <= job[w].now /\ job[w].now <= clock
  /\ \A k \in Keys : \A s \in Stamp : s > clock => granted[k][s] = 0

\* Who asks a bucket has found or made its row; only a token's goes away.
Sited ==
  /\ rows[Global] # NoRow
  /\ \A w \in Workers : pc[w] \in {"create", "params", "tick"} => ~job[w].global
  /\ \A w \in Workers :
       pc[w] \in {"test", "fill"} /\ job[w].key \in Addresses => rows[job[w].key] # NoRow
  /\ \A k \in Addresses : rows[k] = NoRow => \A a \in Stamp : passed[k][a] = 0

\* Whoever passed, or is about to, was granted.
Covered ==
  \A k \in Keys \ Headless : rows[k] # NoRow =>
    \A a \in Stamp : passed[k][a] + Cardinality(Pending(k, a)) <= granted[k][a]

PassInv == LInv /\ Dated /\ Sited /\ Covered
-----------------------------------------------------------------------------
(* Counting those that are pending. *)

LEMMA PendingFinite ==
  ASSUME NEW k, NEW a
  PROVE  IsFiniteSet(Pending(k, a)) /\ Cardinality(Pending(k, a)) \in Nat
<1>1. Pending(k, a) \in SUBSET Workers /\ IsFiniteSet(Workers)
  BY LimiterAssumption DEF Pending
<1>2. IsFiniteSet(Pending(k, a))
  BY <1>1, FS_Subset
<1> QED
  BY <1>2, FS_CardinalityType

\* A step of one thread by which nobody else passes or becomes pending.
LEMMA StaysCovered ==
  ASSUME PassInv, LInv', NEW w \in Workers,
         \A v \in Workers \ {w} : pc'[v] = pc[v] /\ job'[v] = job[v],
         NEW k \in Keys \ Headless, rows[k] # NoRow, NEW a \in Stamp,
         passed'[k][a] = passed[k][a], granted'[k][a] >= granted[k][a],
         w \in Pending(k, a)' => w \in Pending(k, a)
  PROVE  (passed[k][a] + Cardinality(Pending(k, a)) <= granted[k][a])'
<1>1. Pending(k, a)' \subseteq Pending(k, a)
  BY DEF Pending
<1>2. /\ Cardinality(Pending(k, a)) \in Nat
      /\ Cardinality(Pending(k, a)') \in Nat
      /\ Cardinality(Pending(k, a)') <= Cardinality(Pending(k, a))
  <2>1. IsFiniteSet(Pending(k, a)) /\ Cardinality(Pending(k, a)) \in Nat
    BY PendingFinite
  <2>2. Pending(k, a)' \in SUBSET Pending(k, a)
    BY <1>1
  <2>3. IsFiniteSet(Pending(k, a)') /\ Cardinality(Pending(k, a)') <= Cardinality(Pending(k, a))
    BY <2>1, <2>2, FS_Subset
  <2>4. Cardinality(Pending(k, a)') \in Nat
    BY <2>3, FS_CardinalityType
  <2> QED
    BY <2>1, <2>3, <2>4
<1>3. /\ passed[k][a] \in Nat /\ granted[k][a] \in Nat
      /\ granted'[k][a] \in Nat
  BY DEF PassInv, LInv, Counts, Buckets
<1>4. passed[k][a] + Cardinality(Pending(k, a)) <= granted[k][a]
  BY DEF PassInv, Covered
<1> QED
  BY <1>2, <1>3, <1>4
-----------------------------------------------------------------------------
(* Steps. *)

LEMMA Here ==
  ASSUME PassInv, NEW w \in Workers
  PROVE  /\ job[w] \in Job /\ job[w].key \in Sources /\ job[w].key \in Keys
         /\ job[w].key # Global /\ Asked(w) \in Keys
         /\ job[w].came \in Clock /\ job[w].now \in Clock /\ clock \in Clock
         /\ job[w].came <= clock
         /\ Clock \subseteq Stamp /\ Stamp \subseteq Int
<1>1. Clock \subseteq Stamp /\ Stamp \subseteq Int
  BY LimiterAssumption DEF Clock, Stamp
<1> QED
  BY <1>1, UsedKeys, LimiterAssumption DEF PassInv, LInv, Counts, Dated

\* Where a thread goes, and what it takes along.
LEMMA Went ==
  ASSUME LInv, NEW w \in Workers, NEW s, NEW j, Goto(w, s, j)
  PROVE  /\ pc'[w] = s /\ job'[w] = j
         /\ \A v \in Workers \ {w} : pc'[v] = pc[v] /\ job'[v] = job[v]
BY DEF Goto, LInv, Threads

\* A step within a request, or its end, that leaves the tables and the counts alone but
\* for a tick: nobody passes, nobody new is pending.
LEMMA QuietStep ==
  ASSUME PassInv, LInv', NEW w \in Workers, NEW s, NEW j, Goto(w, s, j),
         UNCHANGED <<clock, granted, passed>>,
         \A k \in Keys : rows'[k] = NoRow <=> rows[k] = NoRow,
         j.came <= clock,
         s = "fill" => j.came <= j.now /\ j.now <= clock,
         s \in {"create", "params", "tick"} => ~j.global,
         s \in {"test", "fill"} => /\ j.key \in Addresses => rows[j.key] # NoRow
                                   /\ j.global => /\ job[w].global /\ j.key = job[w].key
                                                  /\ j.came = job[w].came
                                                  /\ pc[w] \in {"test", "fill"}
  PROVE  PassInv'
<1>1. /\ pc'[w] = s /\ job'[w] = j
      /\ \A v \in Workers \ {w} : pc'[v] = pc[v] /\ job'[v] = job[v]
  BY Went DEF PassInv
<1>2. Dated'
  BY <1>1 DEF PassInv, Dated
<1>3. Sited'
  <2>1. Global \in Keys /\ Addresses \subseteq Keys
    BY DEF Keys, Sources
  <2> QED
    BY <1>1, <2>1 DEF PassInv, Sited
<1>4. Covered'
  <2>1. SUFFICES ASSUME NEW k \in Keys \ Headless, rows'[k] # NoRow, NEW a \in Stamp
                 PROVE  (passed[k][a] + Cardinality(Pending(k, a)) <= granted[k][a])'
    BY DEF Covered
  <2>2. w \in Pending(k, a)' => w \in Pending(k, a)
    BY <1>1 DEF Pending
  <2>3. granted'[k][a] >= granted[k][a]
    BY DEF PassInv, LInv, Buckets
  <2> QED
    BY <1>1, <2>1, <2>2, <2>3, StaysCovered
<1> QED
  BY <1>2, <1>3, <1>4 DEF PassInv

\* A request that ends.
LEMMA LeaveStep ==
  ASSUME PassInv, LInv', NEW w \in Workers, Leave(w),
         UNCHANGED <<clock, granted, passed>>,
         \A k \in Keys : rows'[k] = NoRow <=> rows[k] = NoRow
  PROVE  PassInv'
<1>1. NoJob.came = 0 /\ clock \in Nat
  BY LimiterAssumption DEF NoJob, PassInv, LInv, Counts, Clock
<1> QED
  BY <1>1, QuietStep DEF Leave

LEMMA RefusedStep ==
  ASSUME PassInv, LInv', NEW w \in Workers, Refused(w),
         UNCHANGED <<clock, granted, rows>>
  PROVE  PassInv'
<1>1. CASE ~job[w].global /\ Goto(w, "tick", [job[w] EXCEPT !.now = 0])
  <2> DEFINE j == [job[w] EXCEPT !.now = 0]
  <2>1. j.came = job[w].came /\ j.global = job[w].global
    BY Here DEF Job
  <2> HIDE DEF j
  <2> QED
    BY <1>1, <2>1, Here, QuietStep DEF Refused, j
<1>2. CASE Leave(w)
  BY <1>2, LeaveStep DEF Refused
<1> QED
  BY <1>1, <1>2 DEF Refused

LEMMA Asks ==
  ASSUME PassInv, LInv', NEW w \in Workers, Request(w) \/ BeginFill(w) \/ Serve(w)
  PROVE  PassInv'
<1>1. CASE Request(w)
  <2>1. PICK k \in Sources, headless \in BOOLEAN :
          LET j == [NoJob EXCEPT !.key = k, !.headless = headless,
                                 !.came = clock] IN
          \/ rows[k] # NoRow /\ Limit(w, j)
          \/ rows[k] = NoRow /\ k \in Addresses /\ Goto(w, "create", j)
    BY <1>1 DEF Request
  <2> DEFINE j == [NoJob EXCEPT !.key = k, !.headless = headless,
                                !.came = clock]
  <2>2. j.key = k /\ j.came = clock /\ ~j.global /\ clock \in Int
    BY Here DEF NoJob
  <2>3. PICK s \in {"params", "test", "create"} :
          Goto(w, s, j) /\ (s = "test" => rows[k] # NoRow)
    BY <2>1 DEF Limit
  <2>4. UNCHANGED <<clock, rows, granted, passed>>
    BY <1>1 DEF Request
  <2> HIDE DEF j
  <2> QED
    BY <2>2, <2>3, <2>4, QuietStep
<1>2. CASE BeginFill(w)
  <2>1. CASE rows[Asked(w)] # NoRow /\ Goto(w, "fill", [job[w] EXCEPT !.now = clock])
             /\ UNCHANGED passed
    <3> DEFINE j == [job[w] EXCEPT !.now = clock]
    <3>1. /\ j.came = job[w].came /\ j.now = clock /\ j.global = job[w].global
          /\ j.key = job[w].key
      BY Here DEF Job
    <3>2. pc[w] = "test" /\ UNCHANGED <<clock, rows, granted, passed>>
      BY <1>2, <2>1 DEF BeginFill
    <3>3. j.key \in Addresses => rows[j.key] # NoRow
      BY <3>1, <3>2 DEF PassInv, Sited
    <3>4. Goto(w, "fill", j)
      BY <2>1
    <3>5. job[w].came <= clock /\ clock <= clock
      BY Here DEF Clock
    <3> HIDE DEF j
    <3> QED
      BY <3>1, <3>2, <3>3, <3>4, <3>5, QuietStep
  <2>2. CASE Refused(w)
    BY <1>2, <2>2, RefusedStep DEF BeginFill
  <2> QED
    BY <1>2, <2>1, <2>2 DEF BeginFill
<1>3. CASE Serve(w)
  BY <1>3, LeaveStep DEF Serve
<1> QED
  BY <1>1, <1>2, <1>3

\* A new row has let nobody through, and nobody is pending on it.
LEMMA Creates ==
  ASSUME PassInv, LInv', NEW w \in Workers, Create(w)
  PROVE  PassInv'
<1>1. pc[w] = "create" /\ ~job[w].global /\ UNCHANGED <<clock, granted, passed>>
  BY DEF Create, PassInv, Sited
<1> DEFINE i == job[w].key
<1>2. CASE /\ rows[i] = NoRow
           /\ rows' = [rows EXCEPT ![i] = Row(Default, clock)]
           /\ Limit(w, job[w])
  <2>1. Row(Default, clock) # NoRow
    BY Here, NewBucket, RowIsThere
  <2>2. /\ rows'[i] # NoRow
        /\ \A k \in Keys : k # i => rows'[k] = rows[k]
    BY <1>2, <2>1, Here DEF PassInv, LInv, Buckets
  <2>3. /\ pc'[w] \in {"params", "test"} /\ job'[w] = job[w]
        /\ \A v \in Workers \ {w} : pc'[v] = pc[v] /\ job'[v] = job[v]
    BY <1>2, Went DEF Limit, PassInv
  <2>4. Dated'
    BY <1>1, <2>3 DEF PassInv, Dated
  <2>5. Sited'
    <3>1. Global \in Keys /\ Addresses \subseteq Keys
      BY DEF Keys, Sources
    <3> QED
      BY <1>1, <2>2, <2>3, <3>1 DEF PassInv, Sited
  <2>6. ASSUME NEW k \in Keys \ Headless, rows'[k] # NoRow, NEW a \in Stamp
        PROVE  (passed[k][a] + Cardinality(Pending(k, a)) <= granted[k][a])'
    <3>1. CASE k = i
      <4>1. k \in Addresses /\ rows[k] = NoRow
        BY <1>1, <1>2, <3>1 DEF PassInv, LInv, Threads
      <4>2. passed[k][a] = 0 /\ granted[k][a] \in Nat
        BY <4>1 DEF PassInv, Sited, LInv, Buckets
      <4>3. Pending(k, a) = {}
        BY <4>1 DEF PassInv, Sited, Pending
      <4>4. Pending(k, a)' = {}
        BY <1>1, <2>3, <4>3 DEF Pending
      <4>5. Cardinality(Pending(k, a)') = 0
        BY <4>4, FS_EmptySet
      <4>6. granted'[k][a] = granted[k][a] /\ passed'[k][a] = 0
        BY <1>1, <4>2
      <4> HIDE DEF i
      <4> QED
        BY <4>2, <4>5, <4>6
    <3>2. CASE k # i
      <4>1. rows[k] # NoRow /\ (w \in Pending(k, a)' => w \in Pending(k, a))
        BY <1>1, <2>2, <2>3, <2>6, <3>2 DEF Pending
      <4>2. granted'[k][a] >= granted[k][a]
        BY <1>1 DEF PassInv, LInv, Buckets
      <4> QED
        BY <1>1, <2>3, <4>1, <4>2, StaysCovered
    <3> QED
      BY <3>1, <3>2
  <2> QED
    BY <2>4, <2>5, <2>6 DEF PassInv, Covered
<1>3. CASE Leave(w) /\ UNCHANGED rows
  BY <1>1, <1>3, LeaveStep
<1> QED
  BY <1>2, <1>3 DEF Create

\* Only a HeadlessChrome's bucket starts a new count.
LEMMA Lowers ==
  ASSUME PassInv, LInv', NEW w \in Workers, SetParameters(w)
  PROVE  PassInv'
<1> DEFINE i == job[w].key
           r == [rows[i] EXCEPT !.capacity = Lowered.capacity, !.flow = Lowered.flow]
<1>1. i \in Headless /\ i \in Keys /\ rows[i] # NoRow /\ i # Global
  BY Here DEF SetParameters, PassInv, LInv, Threads
<1>2. /\ rows' = [rows EXCEPT ![i] = r]
      /\ granted' = [granted EXCEPT ![i] = IF r = rows[i] THEN granted[i] ELSE Never]
      /\ UNCHANGED <<clock, passed>>
  BY DEF SetParameters
<1>3. r \in Bucket
  BY <1>1, LimiterAssumption DEF PassInv, LInv, Buckets, Bucket, Parameters
<1>4. \A k \in Keys : /\ k # i => rows'[k] = rows[k] /\ granted'[k] = granted[k]
                      /\ rows'[k] = NoRow <=> rows[k] = NoRow
                      /\ granted'[k] \in {granted[k], Never}
  <2>1. r # NoRow
    BY <1>3, RowIsThere
  <2> HIDE DEF r
  <2> QED
    BY <1>1, <1>2, <2>1 DEF PassInv, LInv, Buckets
<1>5. /\ pc[w] = "params" /\ pc'[w] = "test" /\ job'[w] = job[w] /\ ~job[w].global
      /\ \A v \in Workers \ {w} : pc'[v] = pc[v] /\ job'[v] = job[v]
  BY Went DEF SetParameters, PassInv, Sited
<1>6. Dated'
  BY <1>2, <1>4, <1>5 DEF PassInv, Dated, Never
<1>7. Sited'
  <2>1. Global \in Keys /\ Addresses \subseteq Keys
    BY DEF Keys, Sources
  <2> QED
    BY <1>1, <1>2, <1>4, <1>5, <2>1 DEF PassInv, Sited
<1>8. ASSUME NEW k \in Keys \ Headless, rows'[k] # NoRow, NEW a \in Stamp
      PROVE  (passed[k][a] + Cardinality(Pending(k, a)) <= granted[k][a])'
  <2>1. rows[k] # NoRow /\ granted'[k][a] >= granted[k][a] /\ passed'[k][a] = passed[k][a]
    <3>1. granted'[k] = granted[k] /\ rows'[k] = rows[k]
      BY <1>1, <1>4
    <3>2. granted[k][a] \in Nat
      BY DEF PassInv, LInv, Buckets
    <3> QED
      BY <1>2, <1>8, <3>1, <3>2
  <2>2. w \in Pending(k, a)' => w \in Pending(k, a)
    BY <1>5 DEF Pending
  <2> QED
    BY <1>5, <2>1, <2>2, StaysCovered
<1> QED
  BY <1>6, <1>7, <1>8 DEF PassInv, Covered

\* A source's bucket that lets its request through, or that is gone.
LEMMA SourceGrants ==
  ASSUME PassInv, LInv', NEW w \in Workers, pc[w] = "fill", ~job[w].global,
         Goto(w, "test", [job[w] EXCEPT !.global = TRUE, !.now = 0]),
         UNCHANGED <<clock, passed>>,
         \A k \in Keys : rows'[k] = NoRow <=> rows[k] = NoRow,
         \/ granted' = [granted EXCEPT ![job[w].key]
                          = Counted(granted[job[w].key], job[w].now)]
         \/ rows[job[w].key] = NoRow /\ UNCHANGED granted
  PROVE  PassInv'
<1> DEFINE j == [job[w] EXCEPT !.global = TRUE, !.now = 0]
<1>1. /\ j.key = job[w].key /\ j.came = job[w].came /\ j.global
      /\ job[w].came <= job[w].now /\ job[w].now <= clock
  BY Here DEF Job, PassInv, Dated
<1>2. /\ pc'[w] = "test" /\ job'[w] = j
      /\ \A v \in Workers \ {w} : pc'[v] = pc[v] /\ job'[v] = job[v]
  BY Went DEF PassInv
<1> HIDE DEF j
<1>3. /\ job[w].came \in Int /\ job[w].now \in Clock /\ clock \in Int /\ job[w].now \in Int
      /\ \A a \in Stamp : a \in Int
  BY Here DEF Clock
<1>4. \A k \in Keys : \A a \in Stamp :
        /\ granted[k][a] \in Nat
        /\ granted'[k][a] >= granted[k][a]
        /\ k # job[w].key \/ a > clock => granted'[k][a] = granted[k][a]
        /\ k = job[w].key /\ rows[k] # NoRow /\ a <= job[w].now
             => granted'[k][a] = granted[k][a] + 1
  <2>1. granted \in [Keys -> [Stamp -> Nat]] /\ job[w].key \in Keys
    BY Here DEF PassInv, LInv, Buckets
  <2>2. SUFFICES ASSUME NEW k \in Keys, NEW a \in Stamp
        PROVE  /\ granted[k][a] \in Nat
               /\ granted'[k][a] >= granted[k][a]
               /\ k # job[w].key \/ a > clock => granted'[k][a] = granted[k][a]
               /\ k = job[w].key /\ rows[k] # NoRow /\ a <= job[w].now
                    => granted'[k][a] = granted[k][a] + 1
    OBVIOUS
  <2>3. granted[k] \in [Stamp -> Nat] /\ granted[k][a] \in Nat
    BY <2>1
  <2>4. \/ granted'[k] = granted[k] /\ (k # job[w].key \/ rows[k] = NoRow)
        \/ k = job[w].key /\ granted'[k] = Counted(granted[k], job[w].now)
    BY <2>1
  <2> QED
    BY <1>1, <1>3, <2>3, <2>4, CountedType
<1>5. Dated'
  BY <1>1, <1>2, <1>4 DEF PassInv, Dated
<1>6. Sited'
  <2>1. Global \in Keys /\ Addresses \subseteq Keys
    BY DEF Keys, Sources
  <2> QED
    BY <1>1, <1>2, <2>1 DEF PassInv, Sited
<1>7. ASSUME NEW k \in Keys \ Headless, rows'[k] # NoRow, NEW a \in Stamp
      PROVE  (passed[k][a] + Cardinality(Pending(k, a)) <= granted[k][a])'
  <2>1. rows[k] # NoRow /\ w \notin Pending(k, a) /\ a \in Int
    BY <1>3, <1>7 DEF Pending
  <2>2. CASE k = job[w].key /\ a <= job[w].came
    <3>1. Pending(k, a)' = Pending(k, a) \cup {w}
      BY <1>1, <1>2, <1>3, <2>1, <2>2 DEF Pending
    <3>2. IsFiniteSet(Pending(k, a)) /\ Cardinality(Pending(k, a)) \in Nat
      BY PendingFinite
    <3>3. Cardinality(Pending(k, a)') = Cardinality(Pending(k, a)) + 1
      BY <2>1, <3>1, <3>2, FS_AddElement
    <3>4. granted'[k][a] = granted[k][a] + 1 /\ granted[k][a] \in Nat
      BY <1>1, <1>3, <1>4, <2>1, <2>2
    <3>5. passed'[k][a] = passed[k][a] /\ passed[k][a] \in Nat
      BY DEF PassInv, LInv, Counts
    <3>6. passed[k][a] + Cardinality(Pending(k, a)) <= granted[k][a]
      BY <2>1 DEF PassInv, Covered
    <3> QED
      BY <3>2, <3>3, <3>4, <3>5, <3>6
  <2>3. CASE k # job[w].key \/ ~(a <= job[w].came)
    <3>1. w \notin Pending(k, a)'
      BY <1>1, <1>2, <1>3, <2>1, <2>3 DEF Pending
    <3> QED
      BY <1>2, <1>4, <2>1, <3>1, StaysCovered
  <2> QED
    BY <2>2, <2>3
<1> QED
  BY <1>5, <1>6, <1>7 DEF PassInv, Covered

\* The global bucket lets a request through.
LEMMA GlobalGrants ==
  ASSUME PassInv, LInv', NEW w \in Workers, pc[w] = "fill", job[w].global,
         Goto(w, "work", [job[w] EXCEPT !.now = 0]), UNCHANGED clock,
         passed' = [k \in Keys |-> IF k \in {job[w].key, Global}
                                   THEN Counted(passed[k], job[w].came) ELSE passed[k]],
         \A k \in Keys : rows'[k] = NoRow <=> rows[k] = NoRow,
         granted' = [granted EXCEPT ![Global] = Counted(granted[Global], job[w].now)]
  PROVE  PassInv'
<1> DEFINE j == [job[w] EXCEPT !.now = 0]
<1>1. /\ j.key = job[w].key /\ j.came = job[w].came /\ j.global
      /\ job[w].came <= job[w].now /\ job[w].now <= clock
  BY Here DEF Job, PassInv, Dated
<1>2. /\ pc'[w] = "work" /\ job'[w] = j
      /\ \A v \in Workers \ {w} : pc'[v] = pc[v] /\ job'[v] = job[v]
  BY Went DEF PassInv
<1> HIDE DEF j
<1>3. /\ job[w].came \in Int /\ job[w].now \in Clock /\ clock \in Int /\ job[w].now \in Int
      /\ job[w].came \in Clock /\ job[w].key \in Keys /\ job[w].key # Global
      /\ Global \in Keys /\ \A a \in Stamp : a \in Int
  BY Here DEF Clock, Keys
<1>4. \A k \in Keys : \A a \in Stamp :
        /\ granted[k][a] \in Nat
        /\ granted'[k][a] >= granted[k][a]
        /\ k # Global \/ a > clock => granted'[k][a] = granted[k][a]
        /\ k = Global /\ a <= job[w].now => granted'[k][a] = granted[k][a] + 1
  <2>1. granted \in [Keys -> [Stamp -> Nat]]
    BY DEF PassInv, LInv, Buckets
  <2>2. SUFFICES ASSUME NEW k \in Keys, NEW a \in Stamp
        PROVE  /\ granted[k][a] \in Nat
               /\ granted'[k][a] >= granted[k][a]
               /\ k # Global \/ a > clock => granted'[k][a] = granted[k][a]
               /\ k = Global /\ a <= job[w].now => granted'[k][a] = granted[k][a] + 1
    OBVIOUS
  <2>3. granted[k] \in [Stamp -> Nat] /\ granted[k][a] \in Nat
    BY <2>1
  <2>4. \/ granted'[k] = granted[k] /\ k # Global
        \/ k = Global /\ granted'[k] = Counted(granted[k], job[w].now)
    BY <2>1
  <2> QED
    BY <1>1, <1>3, <2>3, <2>4, CountedType
<1>5. \A k \in Keys : \A a \in Stamp :
        /\ passed[k][a] \in Nat
        /\ k \notin {job[w].key, Global} \/ a > job[w].came => passed'[k][a] = passed[k][a]
        /\ k \in {job[w].key, Global} /\ a <= job[w].came => passed'[k][a] = passed[k][a] + 1
  <2>1. passed \in [Keys -> [Stamp -> Nat]]
    BY DEF PassInv, LInv, Counts
  <2>2. SUFFICES ASSUME NEW k \in Keys, NEW a \in Stamp
        PROVE  /\ passed[k][a] \in Nat
               /\ k \notin {job[w].key, Global} \/ a > job[w].came
                    => passed'[k][a] = passed[k][a]
               /\ k \in {job[w].key, Global} /\ a <= job[w].came
                    => passed'[k][a] = passed[k][a] + 1
    OBVIOUS
  <2>3. passed[k] \in [Stamp -> Nat]
    BY <2>1
  <2>4. passed'[k] = IF k \in {job[w].key, Global}
                     THEN Counted(passed[k], job[w].came) ELSE passed[k]
    OBVIOUS
  <2> QED
    BY <1>3, <2>3, <2>4, CountedType
<1>6. Dated'
  BY <1>1, <1>2, <1>4 DEF PassInv, Dated
<1>7. Sited'
  <2>1. Global \in Keys /\ Addresses \subseteq Keys
    BY DEF Keys, Sources
  <2>2. \A k \in Addresses : rows[k] = NoRow => k \notin {job[w].key, Global}
    BY <2>1 DEF PassInv, Sited
  <2> QED
    BY <1>2, <1>5, <2>1, <2>2 DEF PassInv, Sited
<1>8. ASSUME NEW k \in Keys \ Headless, rows'[k] # NoRow, NEW a \in Stamp
      PROVE  (passed[k][a] + Cardinality(Pending(k, a)) <= granted[k][a])'
  <2>1. rows[k] # NoRow /\ w \notin Pending(k, a)' /\ a \in Int
    BY <1>2, <1>3, <1>8 DEF Pending
  <2>2. passed[k][a] + Cardinality(Pending(k, a)) <= granted[k][a]
    BY <2>1 DEF PassInv, Covered
  <2>3. IsFiniteSet(Pending(k, a)) /\ Cardinality(Pending(k, a)) \in Nat
    BY PendingFinite
  <2>4. CASE k = job[w].key /\ a <= job[w].came
    <3>1. w \in Pending(k, a) /\ Pending(k, a)' = Pending(k, a) \ {w}
      BY <1>2, <1>3, <2>1, <2>4 DEF Pending
    <3>2. Cardinality(Pending(k, a)') = Cardinality(Pending(k, a)) - 1
      BY <2>3, <3>1, FS_RemoveElement
    <3>3. /\ passed'[k][a] = passed[k][a] + 1 /\ passed[k][a] \in Nat
          /\ granted'[k][a] = granted[k][a] /\ granted[k][a] \in Nat
      BY <1>3, <1>4, <1>5, <2>4
    <3> QED
      BY <2>2, <2>3, <3>2, <3>3
  <2>5. CASE k = Global /\ a <= job[w].came
    <3>1. Pending(k, a) = {} /\ Pending(k, a)' = {}
      BY <1>1, <1>2, <1>3, <2>5, Here DEF Pending
    <3>2. Cardinality(Pending(k, a)) = 0 /\ Cardinality(Pending(k, a)') = 0
      BY <3>1, FS_EmptySet
    <3>3. /\ passed'[k][a] = passed[k][a] + 1 /\ passed[k][a] \in Nat
          /\ granted'[k][a] = granted[k][a] + 1 /\ granted[k][a] \in Nat
      BY <1>1, <1>3, <1>4, <1>5, <2>1, <2>5
    <3> QED
      BY <2>2, <3>2, <3>3
  <2>6. CASE k \notin {job[w].key, Global} \/ ~(a <= job[w].came)
    <3>1. passed'[k][a] = passed[k][a]
      BY <1>3, <1>5, <2>1, <2>6
    <3> QED
      BY <1>2, <1>4, <2>1, <3>1, StaysCovered
  <2> QED
    BY <2>4, <2>5, <2>6
<1> QED
  BY <1>6, <1>7, <1>8 DEF PassInv, Covered

LEMMA Fills ==
  ASSUME PassInv, LInv', NEW w \in Workers, Fill(w)
  PROVE  PassInv'
<1> DEFINE k == Asked(w)
           q == Charged(rows[k], job[w].now)
<1>1. pc[w] = "fill" /\ UNCHANGED clock /\ k \in Keys /\ rows[Global] # NoRow
  BY Here DEF Fill, PassInv, Sited
<1>2. CASE /\ rows[k] # NoRow
           /\ rows' = [rows EXCEPT ![k] = q]
           /\ granted' = [granted EXCEPT ![k] = Counted(granted[k], job[w].now)]
           /\ Granted(w)
  <2>1. q # NoRow
    <3>1. rows[k] \in Bucket
      BY <1>1, <1>2 DEF PassInv, LInv, Buckets
    <3> QED
      BY <3>1, Here, Drains, RowIsThere
  <2>2. \A i \in Keys : rows'[i] = NoRow <=> rows[i] = NoRow
    <3> HIDE DEF q, k
    <3> QED
      BY <1>1, <1>2, <2>1 DEF PassInv, LInv, Buckets
  <2>3. CASE ~job[w].global
    BY <1>1, <1>2, <2>2, <2>3, SourceGrants DEF Granted, Asked
  <2>4. CASE job[w].global
    BY <1>1, <1>2, <2>2, <2>4, GlobalGrants DEF Granted, Asked
  <2> QED
    BY <2>3, <2>4
<1>3. CASE Refused(w) /\ UNCHANGED <<rows, granted>>
  BY <1>1, <1>3, RefusedStep
<1>4. CASE rows[k] = NoRow /\ Granted(w) /\ UNCHANGED <<rows, granted>>
  <2>1. ~job[w].global
    BY <1>1, <1>4 DEF Asked
  <2> QED
    BY <1>1, <1>4, <2>1, SourceGrants DEF Granted, Asked
<1> QED
  BY <1>2, <1>3, <1>4 DEF Fill

\* tick keeps every row.
LEMMA Ticks ==
  ASSUME PassInv, NEW k \in Keys, NEW v \in Nat, Tick(k, v), UNCHANGED granted
  PROVE  \A i \in Keys : rows'[i] = NoRow <=> rows[i] = NoRow
<1>1. \A i \in Keys : rows[i] # NoRow => rows'[i] # NoRow
  BY TickOK DEF PassInv
<1> QED
  BY <1>1 DEF Tick, PassInv, LInv, Buckets

LEMMA Charging ==
  ASSUME PassInv, LInv', NEW w \in Workers, TickRefused(w) \/ ServeFails(w)
  PROVE  PassInv'
<1>1. job[w].key \in Keys /\ Late \in Nat /\ Bad \in Nat
      /\ UNCHANGED <<clock, granted, passed>>
  BY Here, LimiterAssumption DEF TickRefused, ServeFails
<1>2. \A i \in Keys : rows'[i] = NoRow <=> rows[i] = NoRow
  BY <1>1, Ticks DEF TickRefused, ServeFails
<1>3. CASE /\ pc[w] = "tick" /\ rows[job[w].key] # NoRow
           /\ Goto(w, "test", [job[w] EXCEPT !.again = TRUE])
  <2> DEFINE j == [job[w] EXCEPT !.again = TRUE]
  <2>1. j.key = job[w].key /\ j.came = job[w].came /\ j.global = job[w].global
    BY Here DEF Job
  <2>2. ~job[w].global /\ Goto(w, "test", j) /\ job[w].came <= clock
    BY <1>3, Here DEF PassInv, Sited
  <2> HIDE DEF j
  <2> QED
    BY <1>1, <1>2, <1>3, <2>1, <2>2, QuietStep
<1>4. CASE Leave(w)
  BY <1>1, <1>2, <1>4, LeaveStep
<1> QED
  BY <1>3, <1>4 DEF TickRefused, ServeFails

LEMMA Around == PassInv /\ LInv' /\ (Pass \/ Revoke \/ UNCHANGED vars) => PassInv'
<1> SUFFICES ASSUME PassInv, LInv', Pass \/ Revoke \/ UNCHANGED vars PROVE PassInv'
  OBVIOUS
<1>1. UNCHANGED <<pc, job, granted, passed>> /\ clock' \in {clock, clock + 1}
  BY DEF Pass, Revoke, vars
<1>2. \A k \in Keys : \/ rows'[k] = rows[k]
                      \/ k \in Tokens /\ rows'[k] = NoRow
  BY DEF Pass, Revoke, vars, PassInv, LInv, Buckets
<1>3. clock \in Int /\ Stamp \subseteq Int
  BY LimiterAssumption DEF PassInv, LInv, Counts, Clock, Stamp
<1>4. /\ \A w \in Workers : job[w].came \in Int /\ job[w].now \in Int
      /\ \A s \in Stamp : s \in Int
  BY <1>3, Here DEF Clock
<1>5. Dated'
  BY <1>1, <1>3, <1>4 DEF PassInv, Dated
<1>6. Sited'
  <2>1. Global \in Keys /\ Addresses \subseteq Keys /\ Tokens \cap Addresses = {}
        /\ Global \notin Tokens
    BY LimiterAssumption DEF Keys, Sources
  <2> QED
    BY <1>1, <1>2, <2>1 DEF PassInv, Sited
<1>7. ASSUME NEW k \in Keys \ Headless, rows'[k] # NoRow, NEW a \in Stamp
      PROVE  (passed[k][a] + Cardinality(Pending(k, a)) <= granted[k][a])'
  <2>1. rows[k] # NoRow /\ Pending(k, a)' = Pending(k, a)
    BY <1>1, <1>2, <1>7 DEF Pending
  <2> QED
    BY <1>1, <2>1 DEF PassInv, Covered
<1> QED
  BY <1>5, <1>6, <1>7 DEF PassInv, Covered
-----------------------------------------------------------------------------
LEMMA NextPassInv == PassInv /\ [Next]_vars => PassInv'
<1> SUFFICES ASSUME PassInv, [Next]_vars PROVE PassInv'
  OBVIOUS
<1>1. LInv'
  BY NextLInv DEF PassInv
<1>2. ASSUME NEW w \in Workers, Step(w) PROVE PassInv'
  BY <1>1, <1>2, Asks, Creates, Lowers, Fills, Charging DEF Step
<1> QED
  BY <1>1, <1>2, Around DEF Next

LEMMA InitPassInv == Init => PassInv
<1> SUFFICES ASSUME Init PROVE PassInv
  OBVIOUS
<1>1. LInv
  BY InitLInv
<1>2. \A w \in Workers : pc[w] = "idle" /\ job[w].came = 0 /\ ~job[w].global
  BY DEF Init, NoJob
<1>3. \A k \in Keys : \A a \in Stamp : granted[k][a] = 0 /\ passed[k][a] = 0
  BY DEF Init, Never
<1>4. clock = 0
  BY DEF Init
<1>5. Dated
  BY <1>2, <1>3, <1>4 DEF Dated
<1>6. rows[Global] # NoRow
  <2>1. rows[Global] = Row(Shared, 0) /\ Global \in Keys
    BY DEF Init, Keys
  <2> QED
    BY <2>1, ZeroClock, NewBucket, RowIsThere
<1>7. Sited
  <2>1. Addresses \subseteq Keys
    BY DEF Keys, Sources
  <2> QED
    BY <1>2, <1>3, <1>6, <2>1 DEF Sited
<1>8. Covered
  <2>1. ASSUME NEW k \in Keys, NEW a \in Stamp PROVE Cardinality(Pending(k, a)) = 0
    <3>1. Pending(k, a) = {}
      BY <1>2 DEF Pending
    <3> QED
      BY <3>1, FS_EmptySet
  <2> QED
    BY <1>3, <2>1 DEF Covered
<1> QED
  BY <1>1, <1>5, <1>7, <1>8 DEF PassInv

\* Of the requests of one source, and of all, that have come in since some time, no
\* more get through than the bucket holds and leaks from then on.
THEOREM Passing == Spec => []PassBound
<1>1. PassInv => PassBound
  <2> SUFFICES ASSUME PassInv, NEW k \in Keys \ Headless, rows[k] # NoRow,
                      NEW a \in Stamp, passed[k][a] > 0
               PROVE  One * passed[k][a] <= rows[k].capacity + rows[k].flow * (clock - a)
    BY DEF PassBound
  <2>1. /\ clock \in Int /\ a \in Int /\ One \in Nat /\ clock + 1 \in Stamp
        /\ clock + 1 > clock
    BY LimiterAssumption DEF PassInv, LInv, Counts, Clock, Stamp
  <2>2. /\ passed[k][a] \in Nat /\ granted[k][a] \in Nat
        /\ Cardinality(Pending(k, a)) \in Nat
        /\ passed[k][a] + Cardinality(Pending(k, a)) <= granted[k][a]
    BY PendingFinite DEF PassInv, LInv, Counts, Buckets, Covered
  <2>3. granted[k][clock + 1] = 0
    BY <2>1 DEF PassInv, Dated
  <2>4. granted[k][a] > 0 /\ passed[k][a] <= granted[k][a]
    BY <2>2
  <2>5. a < clock + 1
    BY <2>1, <2>4 DEF PassInv, Dated
  <2>6. One * (granted[k][a] - granted[k][clock + 1])
          <= rows[k].capacity + rows[k].flow * (clock + 1 - 1 - a)
    BY <2>1, <2>3, <2>4, <2>5 DEF PassInv, LInv, Buckets, BucketOK
  <2>7. granted[k][a] - granted[k][clock + 1] = granted[k][a] /\ clock + 1 - 1 - a = clock - a
    BY <2>1, <2>2, <2>3
  <2>8. /\ One * passed[k][a] <= One * granted[k][a]
        /\ One * passed[k][a] \in Int /\ One * granted[k][a] \in Int
    BY <2>1, <2>2, <2>4, Times
  <2>9. rows[k].capacity \in Int /\ rows[k].flow * (clock - a) \in Int
    <3>1. rows[k].capacity \in Nat /\ rows[k].flow \in Nat /\ clock - a \in Int
      BY <2>1 DEF PassInv, LInv, Buckets, Bucket
    <3> QED
      BY <3>1, Times
  <2> QED
    BY <2>6, <2>7, <2>8, <2>9
<1> QED
  BY <1>1, InitPassInv, NextPassInv, PTL DEF Spec
=============================================================================
