--------------------------- MODULE AvailabilityProofs ---------------------------
(* What Availability keeps back, for any threads, queries and reasons. *)
EXTENDS Availability, TLAPS

\* What a request remembers still holds: the tables only grow.
Remembers(j) ==
  /\ j.due => Check
  /\ j.wanted => Wanted /\ (j.due \/ royal \/ banned # {})
  /\ j.looked => row = "full" /\ ~j.due /\ (j.wanted => royal)

\* What its place in the code says of it.
Placed(at, j) ==
  /\ at = "checkAuthor" => ~j.due
  /\ at \in {"save", "index"} => ~j.due /\ (j.wanted => royal)
  /\ at = "index" => row = "full"
  /\ at = "served" /\ j.own => ~j.due /\ ~(j.wanted /\ j.looked)

Requests == \A w \in Workers : Remembers(job[w]) /\ Placed(pc[w], job[w])

\* A reason that was there at the start is still to be asked about.
BulkOK ==
  /\ bulk.at = "check" /\ bulk.due => \E r \in bulk.todo : CheckFor({r})
  /\ bulk.at = "index" => ~bulk.due

AInv == TypeOK /\ Requests /\ BulkOK

\* What every step does to the tables.
Grow ==
  /\ royal' = royal
  /\ listed \subseteq listed' /\ banned \subseteq banned'
  /\ row = "full" => row' = "full"
  /\ row # "none" => row' # "none"
-----------------------------------------------------------------------------
(* Growing tables take nothing back. *)

LEMMA StaysListed ==
  ASSUME Grow, NEW rs, CheckFor(rs)
  PROVE  CheckFor(rs)'
BY DEF Grow, CheckFor

LEMMA StillRemembers ==
  ASSUME Grow, NEW w \in Workers, job'[w] = job[w], Remembers(job[w])
  PROVE  Remembers(job[w])'
<1>1. Check => Check'
  BY StaysListed DEF Check
<1>2. Wanted => Wanted'
  BY DEF Grow, Wanted
<1> QED
  BY <1>1, <1>2 DEF Grow, Remembers

\* Of a listed fic's reasons one is found by a check of its own.
LEMMA OneReason ==
  ASSUME TypeOK, NEW rs, rs \subseteq Reasons, CheckFor(rs)
  PROVE  (\E r \in rs : CheckFor({r})) \/ (row = "full" /\ royal)
BY DEF CheckFor

\* A step of one thread: the others, and the bulk indexer, are where they were.
LEMMA ThreadKeeps ==
  ASSUME AInv, NEW w \in Workers, Grow, TypeOK', bulk' = bulk,
         \A v \in Workers \ {w} : pc'[v] = pc[v] /\ job'[v] = job[v],
         Remembers(job[w])', Placed(pc[w], job[w])'
  PROVE  AInv'
<1>1. Requests'
  <2>1. ASSUME NEW v \in Workers, v # w
        PROVE  (Remembers(job[v]) /\ Placed(pc[v], job[v]))'
    <3>1. pc'[v] = pc[v] /\ job'[v] = job[v]
      BY <2>1
    <3>2. Remembers(job[v]) /\ Placed(pc[v], job[v])
      BY DEF AInv, Requests
    <3>3. Remembers(job[v])'
      BY <3>1, <3>2, StillRemembers
    <3> QED
      BY <3>1, <3>2, <3>3 DEF Placed, Grow
  <2> QED
    BY <2>1 DEF Requests
<1>2. BulkOK'
  BY StaysListed DEF AInv, BulkOK
<1> QED
  BY <1>1, <1>2 DEF AInv
-----------------------------------------------------------------------------
(* Steps. *)

\* A step that moves a thread and changes nothing else.
LEMMA Moves ==
  ASSUME AInv, NEW w \in Workers, NEW from, NEW to \in PC, Goto(w, from, to),
         UNCHANGED <<tables, indexed, unavailable, job, bulk, requests, marks>>,
         Placed(to, job[w])
  PROVE  AInv'
<1> USE DEF tables
<1>1. pc'[w] = to /\ \A v \in Workers \ {w} : pc'[v] = pc[v]
  BY DEF Goto, AInv, TypeOK
<1>2. TypeOK'
  BY DEF Goto, AInv, TypeOK
<1>3. Grow
  BY DEF Grow
<1>4. Remembers(job[w])'
  BY <1>3, StillRemembers DEF AInv, Requests
<1>5. Placed(pc[w], job[w])'
  BY <1>1 DEF Placed
<1> QED
  BY <1>1, <1>2, <1>3, <1>4, <1>5, ThreadKeeps

\* A request remembers what holds when it comes in.  A fic is only listed once it has a
\* row, so what is wanted of it and not due is its site's or its author's.
LEMMA Asks ==
  ASSUME AInv, NEW w \in Workers, Ask(w)
  PROVE  AInv'
<1>1. PICK kind \in {"api", "link"}, own \in BOOLEAN, q \in Queries : Request(w, kind, own, q)
  BY DEF Ask
<1> DEFINE j == [kind |-> kind, own |-> own, q |-> q, said |-> "nothing",
                 due |-> Check, wanted |-> Wanted, looked |-> FALSE]
<1> USE <1>1 DEF Request, tables, AInv
<1>2. Check \in BOOLEAN /\ Wanted \in BOOLEAN
  BY DEF Check, CheckFor, Wanted, TypeOK
<1>3. j \in Job
  BY <1>2 DEF Job
<1>4. /\ job'[w] = j /\ pc'[w] \in {"alive", "link"}
      /\ \A v \in Workers \ {w} : pc'[v] = pc[v] /\ job'[v] = job[v]
  BY DEF TypeOK, Goto
<1>5. TypeOK'
  <2>1. pc' \in [Workers -> PC]
    BY DEF TypeOK, Goto, PC
  <2>2. job' \in [Workers -> Job]
    BY <1>3 DEF TypeOK
  <2>3. requests' \in 0 .. MaxRequests
    BY AvailabilityAssumption DEF TypeOK
  <2> QED
    BY <2>1, <2>2, <2>3 DEF TypeOK
<1>6. Grow
  BY DEF Grow
<1>7. Remembers(job[w])'
  <2>1. Wanted => Check \/ royal \/ banned # {}
    BY DEF Wanted, Check, CheckFor, TypeOK
  <2>2. job'[w].due = Check /\ job'[w].wanted = Wanted /\ job'[w].looked = FALSE
    BY <1>4
  <2>3. (Check' <=> Check) /\ (Wanted' <=> Wanted)
    BY DEF Check, CheckFor, Wanted
  <2> QED
    BY <2>1, <2>2, <2>3 DEF Remembers
<1>8. Placed(pc[w], job[w])'
  BY <1>4 DEF Placed
<1> QED
  BY <1>4, <1>5, <1>6, <1>7, <1>8, ThreadKeeps

LEMMA Alives ==
  ASSUME AInv, NEW w \in Workers, Alive(w)
  PROVE  AInv'
BY Moves DEF Alive, Placed, PC

LEMMA Saves ==
  ASSUME AInv, NEW w \in Workers, LookupSave(w)
  PROVE  AInv'
<1> USE DEF LookupSave, AInv
<1>1. /\ pc[w] = "save" /\ pc'[w] = "index" /\ job' = job
      /\ \A v \in Workers \ {w} : pc'[v] = pc[v]
  BY DEF Goto, TypeOK
<1>2. TypeOK'
  BY DEF TypeOK, Goto, PC
<1>3. Grow
  BY DEF Grow, TypeOK
<1>4. Remembers(job[w])'
  BY <1>3, StillRemembers DEF Requests
<1>5. Placed(pc[w], job[w])'
  BY <1>1 DEF Requests, Placed
<1> QED
  BY <1>1, <1>2, <1>3, <1>4, <1>5, ThreadKeeps

LEMMA Indexes ==
  ASSUME AInv, NEW w \in Workers, LookupIndex(w)
  PROVE  AInv'
<1> USE DEF LookupIndex, AInv, tables
<1>1. /\ pc[w] = "index" /\ pc'[w] = "export"
      /\ job'[w] = [job[w] EXCEPT !.looked = TRUE]
      /\ \A v \in Workers \ {w} : pc'[v] = pc[v] /\ job'[v] = job[v]
  BY DEF Goto, TypeOK
<1>2. job[w] \in Job /\ job'[w] \in Job
  BY <1>1 DEF TypeOK, Job
<1>3. TypeOK'
  BY <1>2 DEF TypeOK, Goto, PC
<1>4. Grow
  BY DEF Grow
<1>5. Remembers(job[w])'
  <2>1. Remembers(job[w]) /\ row = "full" /\ ~job[w].due /\ (job[w].wanted => royal)
    BY <1>1 DEF Requests, Placed
  <2>2. job'[w].due = job[w].due /\ job'[w].wanted = job[w].wanted
    BY <1>1, <1>2 DEF Job
  <2>3. (Check' <=> Check) /\ (Wanted' <=> Wanted)
    BY DEF Check, CheckFor, Wanted
  <2> QED
    BY <2>1, <2>2, <2>3 DEF Remembers
<1>6. Placed(pc[w], job[w])'
  BY <1>1 DEF Placed
<1> QED
  BY <1>1, <1>3, <1>4, <1>5, <1>6, ThreadKeeps

\* What lookup's checks let through was not due, nor its author banned.
LEMMA LooksUp ==
  ASSUME AInv, NEW w \in Workers, LookUp(w)
  PROVE  AInv'
<1>1. Remembers(job[w]) /\ Placed(pc[w], job[w])
  BY DEF AInv, Requests
<1>2. CASE Lookup(w)
  BY <1>2, Moves DEF Lookup, Placed, PC
<1>3. CASE LookupCheckFic(w)
  BY <1>1, <1>3, Moves DEF LookupCheckFic, Placed, PC, Remembers
<1>4. CASE LookupCheckAuthor(w)
  <2>1. pc[w] = "checkAuthor" /\ ~job[w].due
    BY <1>1, <1>4 DEF LookupCheckAuthor, Goto, Placed
  <2>2. banned = {} => (job[w].wanted => royal)
    BY <1>1, <2>1 DEF Remembers
  <2> QED
    BY <1>4, <2>1, <2>2, Moves DEF LookupCheckAuthor, Placed, PC
<1> QED
  BY <1>2, <1>3, <1>4, Saves, Indexes DEF LookUp

LEMMA Exports ==
  ASSUME AInv, NEW w \in Workers, Export(w)
  PROVE  AInv'
BY Moves DEF Export, Placed, PC

\* Where a file or an answer is given, the check sees what the request remembers.
LEMMA Serves ==
  ASSUME AInv, NEW w \in Workers, ~(job[w].own /\ Check)
  PROVE  Placed("served", job[w])
<1>1. Remembers(job[w])
  BY DEF AInv, Requests
<1>2. ~Check => ~(Wanted /\ row = "full")
  BY DEF AInv, TypeOK, Check, CheckFor, Wanted
<1>3. ASSUME ~Check PROVE ~job[w].due /\ ~(job[w].wanted /\ job[w].looked)
  BY <1>1, <1>2, <1>3 DEF Remembers
<1> QED
  BY <1>3 DEF Placed

LEMMA FinallyChecks ==
  ASSUME AInv, NEW w \in Workers, FinalCheck(w)
  PROVE  AInv'
<1>1. CASE Check
  BY <1>1, Moves DEF FinalCheck, Placed, PC
<1>2. CASE ~Check
  BY <1>2, Serves, Moves DEF FinalCheck, PC
<1> QED
  BY <1>1, <1>2

LEMMA FollowsLink ==
  ASSUME AInv, NEW w \in Workers, FollowLink(w)
  PROVE  AInv'
<1>1. CASE Goto(w, "link", "refused")
  BY <1>1, Moves DEF FollowLink, Placed, PC
<1>2. CASE ~(job[w].own /\ Check) /\ Goto(w, "link", "served")
  BY <1>2, Serves, Moves DEF FollowLink, PC
<1>3. CASE Goto(w, "link", "alive")
  BY <1>3, Moves DEF FollowLink, Placed, PC
<1> QED
  BY <1>1, <1>2, <1>3 DEF FollowLink

LEMMA IsSorry ==
  ASSUME AInv, NEW w \in Workers, Sorry(w)
  PROVE  AInv'
<1>1. CASE Goto(w, "error", "refused") /\ UNCHANGED <<unavailable, job>>
  BY <1>1, Moves DEF Sorry, Placed, PC
<1>2. CASE /\ Goto(w, "error", "sorry")
           /\ unavailable' = IF unavailable = "nothing" THEN job[w].q ELSE unavailable
           /\ job' = [job EXCEPT ![w].said = unavailable']
  <2> USE <1>2 DEF Sorry, AInv, tables
  <2>1. /\ pc'[w] = "sorry" /\ job'[w] = [job[w] EXCEPT !.said = unavailable']
        /\ \A v \in Workers \ {w} : pc'[v] = pc[v] /\ job'[v] = job[v]
    BY DEF Goto, TypeOK
  <2>2. job[w] \in Job /\ unavailable' \in Queries \cup {"nothing"}
    BY DEF TypeOK, Job
  <2>3. job'[w] \in Job
    BY <2>1, <2>2 DEF Job
  <2>4. TypeOK'
    BY <2>2, <2>3 DEF TypeOK, Goto, PC
  <2>5. Grow
    BY DEF Grow
  <2>6. Remembers(job[w])'
    <3>1. /\ job'[w].due = job[w].due /\ job'[w].wanted = job[w].wanted
          /\ job'[w].looked = job[w].looked
      BY <2>1, <2>2 DEF Job
    <3>2. (Check' <=> Check) /\ (Wanted' <=> Wanted)
      BY DEF Check, CheckFor, Wanted
    <3> QED
      BY <3>1, <3>2 DEF Requests, Remembers
  <2>7. Placed(pc[w], job[w])'
    BY <2>1 DEF Placed
  <2> QED
    BY <2>1, <2>4, <2>5, <2>6, <2>7, ThreadKeeps
<1> QED
  BY <1>1, <1>2 DEF Sorry

LEMMA Blank ==
  ASSUME NEW q \in Queries
  PROVE  /\ NoRequest(q) \in Job
         /\ ~NoRequest(q).due /\ ~NoRequest(q).wanted /\ ~NoRequest(q).looked
BY DEF Job, NoRequest

LEMMA Returns ==
  ASSUME AInv, NEW w \in Workers, Return(w)
  PROVE  AInv'
<1> USE DEF Return, AInv, tables
<1>1. /\ pc'[w] = "idle"
      /\ job'[w] = NoRequest(job[w].q)
      /\ \A v \in Workers \ {w} : pc'[v] = pc[v] /\ job'[v] = job[v]
  BY DEF Goto, TypeOK
<1>2. job[w].q \in Queries
  BY DEF TypeOK, Job
<1>3. job'[w] \in Job /\ ~job'[w].due /\ ~job'[w].wanted /\ ~job'[w].looked
  BY <1>1, <1>2, Blank
<1>4. TypeOK'
  <2>1. pc' \in [Workers -> PC]
    BY DEF TypeOK, Goto, PC
  <2>2. job' \in [Workers -> Job]
    BY <1>3 DEF TypeOK
  <2> QED
    BY <2>1, <2>2 DEF TypeOK
<1>5. Grow
  BY DEF Grow
<1>6. (Remembers(job[w]) /\ Placed(pc[w], job[w]))'
  BY <1>1, <1>3 DEF Remembers, Placed
<1> QED
  BY <1>1, <1>4, <1>5, <1>6, ThreadKeeps

LEMMA Operates ==
  ASSUME AInv, Operate
  PROVE  AInv'
<1> USE DEF AInv, tables
<1>1. TypeOK' /\ Grow /\ UNCHANGED <<pc, job, bulk>>
  <2>1. CASE Unindex
    BY <2>1 DEF Unindex, TypeOK, Grow
  <2>2. ASSUME NEW r \in Reasons, List(r) PROVE TypeOK' /\ Grow /\ UNCHANGED <<pc, job, bulk>>
    BY <2>2, AvailabilityAssumption DEF List, TypeOK, Grow
  <2>3. ASSUME NEW r \in Reasons, Ban(r) PROVE TypeOK' /\ Grow /\ UNCHANGED <<pc, job, bulk>>
    BY <2>3, AvailabilityAssumption DEF Ban, TypeOK, Grow
  <2> QED
    BY <2>1, <2>2, <2>3 DEF Operate
<1>2. Requests'
  <2>1. SUFFICES ASSUME NEW w \in Workers
                 PROVE  (Remembers(job[w]) /\ Placed(pc[w], job[w]))'
    BY DEF Requests
  <2>2. Remembers(job[w])'
    BY <1>1, StillRemembers DEF Requests
  <2>3. Placed(pc[w], job[w])'
    BY <1>1 DEF Requests, Placed, Grow
  <2> QED
    BY <2>2, <2>3
<1>3. BulkOK'
  BY <1>1, StaysListed DEF BulkOK
<1> QED
  BY <1>1, <1>2, <1>3

LEMMA Bulks ==
  ASSUME AInv, BulkStep
  PROVE  AInv'
<1> USE DEF AInv, tables
<1>1. UNCHANGED <<royal, row, listed, banned, unavailable, pc, job, requests, marks>>
      /\ indexed' \in BOOLEAN
  BY DEF BulkStep, BulkSelect, BulkCheck, BulkYield, BulkIndex, TypeOK
<1>2. Requests'
  BY <1>1 DEF Requests, Remembers, Placed, Check, CheckFor, Wanted
<1>3. \A rs : CheckFor(rs)' <=> CheckFor(rs)
  BY <1>1 DEF CheckFor
<1>4. bulk' \in Bulk /\ BulkOK'
  <2>1. CASE BulkSelect
    <3>1. CheckFor(Known) \in BOOLEAN
      BY DEF CheckFor
    <3>2. bulk' = [at |-> "check", todo |-> Known, due |-> CheckFor(Known)]
      BY <2>1 DEF BulkSelect
    <3>3. bulk' \in Bulk
      BY <3>1, <3>2 DEF Bulk
    <3>4. CheckFor(Known) => \E r \in Known : CheckFor({r})
      BY <2>1, OneReason, AvailabilityAssumption DEF BulkSelect
    <3> QED
      BY <1>3, <3>2, <3>3, <3>4 DEF BulkOK
  <2>2. ASSUME NEW r \in Known, BulkCheck(r) PROVE bulk' \in Bulk /\ BulkOK'
    <3>1. CASE CheckFor({r})
      BY <2>2, <3>1 DEF BulkCheck, Bulk, BulkOK
    <3>2. CASE ~CheckFor({r})
      <4>1. bulk \in Bulk /\ bulk' = [bulk EXCEPT !.todo = @ \ {r}]
        BY <2>2, <3>2 DEF BulkCheck, TypeOK
      <4>2. /\ bulk'.at = bulk.at /\ bulk'.due = bulk.due
            /\ bulk'.todo = bulk.todo \ {r} /\ bulk' \in Bulk
        BY <4>1 DEF Bulk
      <4> QED
        BY <1>3, <3>2, <4>2 DEF BulkOK
    <3> QED
      BY <3>1, <3>2
  <2>3. CASE BulkYield
    <3>1. bulk \in Bulk /\ bulk' = [bulk EXCEPT !.at = "index"]
      BY <2>3 DEF BulkYield, TypeOK
    <3>2. bulk' \in Bulk /\ bulk'.at = "index" /\ bulk'.due = bulk.due
      BY <3>1 DEF Bulk
    <3>3. ~bulk.due
      BY <2>3 DEF BulkYield, BulkOK
    <3> QED
      BY <3>2, <3>3 DEF BulkOK
  <2>4. CASE BulkIndex
    BY <2>4 DEF BulkIndex, Bulk, BulkOK
  <2> QED
    BY <2>1, <2>2, <2>3, <2>4 DEF BulkStep
<1>5. TypeOK'
  BY <1>1, <1>4 DEF TypeOK
<1> QED
  BY <1>2, <1>4, <1>5
-----------------------------------------------------------------------------
(* The theorems. *)

LEMMA Starts == Init => AInv
<1> SUFFICES ASSUME Init PROVE AInv
  OBVIOUS
<1> USE DEF Init
<1>1. \A w \in Workers : \E q \in Queries : job[w] = NoRequest(q)
  OBVIOUS
<1>2. \A w \in Workers : /\ job[w] \in Job
                         /\ ~job[w].due /\ ~job[w].wanted /\ ~job[w].looked
  BY <1>1, Blank
<1>3. job \in [Workers -> Job]
  BY <1>2
<1>4. TypeOK
  <2>1. pc \in [Workers -> PC] /\ bulk \in Bulk /\ unavailable \in Queries \cup {"nothing"}
    BY DEF PC, Bulk
  <2>2. requests \in 0 .. MaxRequests /\ marks \in 0 .. MaxMarks
    BY AvailabilityAssumption
  <2>3. /\ royal \in BOOLEAN /\ row \in {"none", "old", "full"} /\ indexed \in BOOLEAN
        /\ listed = {} /\ banned = {}
    OBVIOUS
  <2> HIDE DEF Init
  <2> QED
    BY <1>3, <2>1, <2>2, <2>3 DEF TypeOK
<1>5. Requests
  BY <1>2 DEF Requests, Remembers, Placed
<1>6. BulkOK
  BY DEF BulkOK
<1> QED
  BY <1>4, <1>5, <1>6 DEF AInv

LEMMA Keeps == AInv /\ [Next]_vars => AInv'
<1> SUFFICES ASSUME AInv, [Next]_vars PROVE AInv'
  OBVIOUS
<1>1. ASSUME NEW w \in Workers, Step(w) PROVE AInv'
  BY <1>1, Asks, Alives, LooksUp, Exports, FinallyChecks, FollowsLink, IsSorry, Returns DEF Step
<1>2. CASE UNCHANGED vars
  <2>1. TypeOK' /\ Requests' /\ BulkOK'
    BY <1>2 DEF vars, AInv, TypeOK, Requests, Remembers, Placed, BulkOK, Check, CheckFor, Wanted
  <2> QED
    BY <2>1 DEF AInv
<1> QED
  BY <1>1, <1>2, Operates, Bulks DEF Next

\* The invariant: what a request remembers still holds, and its place tells what it met.
THEOREM AvailabilityInvariant == Spec => []AInv
  BY Starts, Keeps, PTL DEF Spec

\* Every variable stays in its set, and only a known fic is listed.
THEOREM AvailabilityTyped == Spec => []TypeOK
<1>1. AInv => TypeOK
  BY DEF AInv
<1> QED
  BY <1>1, AvailabilityInvariant, PTL

\* Under its own id nothing is served that was unavailable when the request came in,
\* nor, to a request that looked it up, against anybody's will.  Under another id a
\* request that looked it up is held back by lookup's checks.
THEOREM AvailabilityServes == Spec => []ListedNotServed
<1>1. AInv => ListedNotServed
  BY DEF AInv, Requests, Remembers, Placed, ListedNotServed
<1> QED
  BY <1>1, AvailabilityInvariant, PTL

\* No lookup indexes what was unavailable when it began, nor a banned author's fic.
THEOREM AvailabilityIndexes == Spec => []NotIndexedAnew
<1>1. AInv => NotIndexedAnew
  BY DEF AInv, Requests, Placed, NotIndexedAnew
<1> QED
  BY <1>1, AvailabilityInvariant, PTL

\* The bulk indexer leaves out what was listed when it began.
THEOREM AvailabilityBulk == Spec => []BulkLeavesOut
<1>1. AInv => BulkLeavesOut
  BY DEF AInv, BulkOK, BulkLeavesOut
<1> QED
  BY <1>1, AvailabilityInvariant, PTL
=============================================================================
