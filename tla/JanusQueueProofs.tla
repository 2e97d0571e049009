---------------------------- MODULE JanusQueueProofs ----------------------------
(* What JanusQueue's processes promise each other, whatever their number. *)
EXTENDS JanusQueue, FiniteSetTheorems, WellFoundedInduction, TLAPS

\* A process has its key from its start; nobody is from the future.
Started ==
  /\ \A p \in Procs : pc[p] = "none" <=> key[p] = "null"
  /\ \A p \in Procs : pc[p] = "none" => polls[p] = 0
  /\ \A p \in Procs : created[p] <= clock

\* A command line is what a process has from exec to its end.
Named == \A p \in Procs : cmdline[p] # "none" <=> pc[p] \in {"poll", "scan", "convert"}

\* A scan misses no older process of its key that lives, unless that was started in
\* another way: it is still to come, or has been seen.
ScanSees ==
  \A p, q \in Procs :
    pc[p] = "scan" /\ pc[q] \in Living /\ Older(q, p) /\ cmdline[q] # "other"
      => q \in todo[p] \cup found[p] \cup unseen[p]

\* What a scan has found was started.
FoundStarted == \A p \in Procs : \A q \in found[p] : key[q] # "null"

\* A conversion has met every older process of its key that lives and was started as
\* the scans expect, before that was janus.  OneConversion is about those that convert,
\* this about all that might.
ConvertSees ==
  \A p, q \in Procs :
    /\ pc[p] = "convert" /\ pc[q] \in Living
    /\ Older(q, p) /\ cmdline[q] # "other"
    => q \in unseen[p]

\* Who waits, or gave up, does so for an older process of its key.
Behind(p) == \E q \in Procs : Older(q, p)

WaitsBehind == \A p \in Procs : polls[p] > 0 \/ pc[p] \in GaveUp => Behind(p)

\* Who scans has a poll left.
InTime == \A p \in Procs : pc[p] = "scan" => polls[p] < MaxPolls

JInv ==
  /\ TypeOK /\ Started /\ Named /\ InTime
  /\ ScanSees /\ FoundStarted /\ ConvertSees /\ WaitsBehind
-----------------------------------------------------------------------------
(* The oldest of a set of processes. *)

LEMMA Least ==
  ASSUME NEW S, S \subseteq Nat, S # {}
  PROVE  \E m \in S : \A n \in S : m <= n
<1> DEFINE R == OpToRel(<, Nat)
<1>1. PICK m \in S : \A n \in S : ~ (<<n, m>> \in R)
  <2>1. IsWellFoundedOn(R, Nat)
    BY NatLessThanWellFounded
  <2> HIDE DEF R
  <2> QED BY <2>1, WFMin
<1>2. ASSUME NEW n \in S, n < m PROVE FALSE
  <2>1. <<n, m>> \in R
    BY <1>2 DEF OpToRel
  <2> QED BY <1>1, <2>1
<1>3. \A n \in S : n \in Nat
  OBVIOUS
<1> QED
  BY <1>2, <1>3

LEMMA Oldest ==
  ASSUME TypeOK, NEW S, S \subseteq Procs, NEW s \in S
  PROVE  \E m \in S : /\ created[m] <= created[s]
                      /\ \A r \in S : created[m] < created[r] \/ (created[m] = created[r] /\ m <= r)
<1> DEFINE Ages == {created[r] : r \in S}
<1>1. \A r \in S : created[r] \in Nat /\ r \in Nat
  BY JanusAssumption DEF TypeOK
<1>2. Ages \in SUBSET Nat /\ created[s] \in Ages
  BY <1>1
<1>3. PICK a \in Ages : \A b \in Ages : a <= b
  BY <1>2, Least
<1> DEFINE First_ == {r \in S : created[r] = a}
<1>4. PICK t \in S : created[t] = a
  BY <1>3
<1>5. First_ \in SUBSET Nat /\ t \in First_
  BY <1>1, <1>4
<1>6. PICK m \in First_ : \A r \in First_ : m <= r
  BY <1>5, Least
<1>7. m \in S /\ created[m] = a
  BY <1>6
<1>8. \A r \in S : a <= created[r]
  BY <1>3
<1>9. ASSUME NEW r \in S
      PROVE  created[m] < created[r] \/ (created[m] = created[r] /\ m <= r)
  <2>1. CASE created[r] = a
    BY <1>6, <1>7, <2>1
  <2>2. CASE created[r] # a
    BY <1>1, <1>7, <1>8, <2>2
  <2> QED
    BY <2>1, <2>2
<1>10. created[m] <= created[s]
  BY <1>7, <1>8
<1> QED
  BY <1>7, <1>9, <1>10

\* Its turn has come: nobody found of its key is older.
LEMMA Turn ==
  ASSUME TypeOK, NEW p \in Procs, OurTurn(p), NEW q \in found[p], key[q] = key[p]
  PROVE  created[p] <= created[q]
<1> DEFINE S == {r \in found[p] : key[r] = key[p]}
<1>1. S \subseteq Procs /\ q \in S
  BY DEF TypeOK
<1>2. PICK m \in S : /\ created[m] <= created[q]
                     /\ \A r \in S : created[m] < created[r] \/ (created[m] = created[r] /\ m <= r)
  <2> HIDE DEF S
  <2> QED BY <1>1, Oldest
<1>3. m \in Procs /\ First(p, m)
  BY <1>1, <1>2 DEF First
<1>4. m = p \/ created[m] >= created[p]
  BY <1>3 DEF OurTurn
<1>5. created[m] \in Nat /\ created[p] \in Nat /\ created[q] \in Nat
  BY <1>1, <1>3, JanusAssumption DEF TypeOK
<1> QED
  BY <1>2, <1>4, <1>5

\* It has not: it stands behind somebody.
LEMMA NoTurn ==
  ASSUME TypeOK, NEW p \in Procs, ~OurTurn(p)
  PROVE  Behind(p)
<1>1. PICK q \in Procs : First(p, q) /\ ~(created[q] >= created[p])
  BY DEF OurTurn
<1>2. created[q] \in Nat /\ created[p] \in Nat
  BY JanusAssumption DEF TypeOK
<1> QED
  BY <1>1, <1>2 DEF First, Behind, Older
-----------------------------------------------------------------------------
(* Steps. *)

\* Keys and ages do not change once a process has started, so nobody who stood
\* behind another stops doing so.
LEMMA BehindStays ==
  ASSUME JInv, NEW p \in Procs, Behind(p), pc[p] # "none",
         \A q \in Procs : pc[q] # "none" => key'[q] = key[q] /\ created'[q] = created[q]
  PROVE  Behind(p)'
<1>1. PICK q \in Procs : Older(q, p)
  BY DEF Behind
<1>2. pc[q] # "none"
  BY <1>1 DEF JInv, Started, Older
<1> QED
  BY <1>1, <1>2 DEF Behind, Older

LEMMA Forks ==
  ASSUME JInv, NEW p \in Procs, NEW k \in Keys, Fork(p, k)
  PROVE  JInv'
<1> USE DEF JInv, Fork
<1>1. TypeOK'
  BY JanusAssumption DEF TypeOK, PC, Living
<1>2. \A q \in Procs : q # p => pc'[q] = pc[q] /\ key'[q] = key[q] /\ created'[q] = created[q]
  BY DEF TypeOK
<1>3. pc'[p] = "forked" /\ key'[p] = k /\ created'[p] = clock
  BY DEF TypeOK
<1>4. Started' /\ Named' /\ InTime'
  BY <1>2, <1>3, JanusAssumption DEF Started, Named, InTime, TypeOK
<1>5. ScanSees'
  BY <1>2, <1>3, JanusAssumption DEF ScanSees, Older, Started, TypeOK
<1>6. FoundStarted'
  <2>1. p \in Procs /\ k # "null"
    BY JanusAssumption
  <2>2. found' = found /\ \A q \in Procs : found[q] \subseteq Procs
    BY DEF TypeOK
  <2> QED
    BY <1>2, <1>3, <2>1, <2>2 DEF FoundStarted
<1>7. ConvertSees'
  BY <1>2, <1>3, JanusAssumption DEF ConvertSees, Older, Started, TypeOK
<1>8. WaitsBehind'
  <2>1. SUFFICES ASSUME NEW q \in Procs, polls'[q] > 0 \/ pc'[q] \in GaveUp
                 PROVE  Behind(q)'
    BY DEF WaitsBehind
  <2>2. polls[q] > 0 \/ pc[q] \in GaveUp
    BY <1>2, <1>3, <2>1 DEF GaveUp
  <2>3. pc[q] # "none"
    BY <2>2 DEF Started, GaveUp
  <2> QED
    BY <1>2, <2>2, <2>3, BehindStays DEF WaitsBehind
<1> QED
  BY <1>1, <1>4, <1>5, <1>6, <1>7, <1>8

LEMMA Execs ==
  ASSUME JInv, NEW p \in Procs, Exec(p)
  PROVE  JInv'
<1> USE DEF JInv, Exec
<1>1. TypeOK'
  BY DEF TypeOK, PC, Living
<1>2. /\ pc[p] = "forked" /\ pc'[p] = "poll"
      /\ cmdline[p] = "none" /\ cmdline'[p] # "none"
      /\ \A q \in Procs : q # p => pc'[q] = pc[q] /\ cmdline'[q] = cmdline[q]
  BY JanusAssumption DEF Named, TypeOK
<1>3. Started' /\ Named' /\ InTime'
  BY <1>2 DEF Started, Named, InTime
<1>4. ScanSees' /\ FoundStarted' /\ ConvertSees'
  BY <1>2 DEF ScanSees, FoundStarted, ConvertSees, Older, Living
<1>5. WaitsBehind'
  BY <1>2 DEF WaitsBehind, Behind, Older, GaveUp
<1> QED
  BY <1>1, <1>3, <1>4, <1>5

LEMMA BeginsScan ==
  ASSUME JInv, NEW p \in Procs, BeginScan(p)
  PROVE  JInv'
<1> USE DEF JInv, BeginScan
<1>1. TypeOK'
  BY DEF TypeOK, PC, Living
<1>2. /\ pc[p] = "poll" /\ pc'[p] = "scan"
      /\ todo'[p] = {q \in Procs : pc[q] \in Living}
      /\ \A q \in Procs : q # p => pc'[q] = pc[q] /\ todo'[q] = todo[q]
  BY DEF TypeOK
<1>3. Started' /\ Named' /\ InTime' /\ FoundStarted'
  BY <1>2 DEF Started, Named, InTime, FoundStarted
<1>4. ScanSees' /\ ConvertSees'
  BY <1>2 DEF ScanSees, ConvertSees, Older, Living
<1>5. WaitsBehind'
  BY <1>2 DEF WaitsBehind, Behind, Older, GaveUp
<1> QED
  BY <1>1, <1>3, <1>4, <1>5

LEMMA Looks ==
  ASSUME JInv, NEW p \in Procs, Look(p)
  PROVE  JInv'
<1> USE DEF JInv, Look
<1>1. TypeOK'
  BY DEF TypeOK, Living
<1>2. PICK q \in todo[p] :
        /\ todo' = [todo EXCEPT ![p] = @ \ {q}]
        /\ found' = [found EXCEPT ![p] = IF Recognised(q) THEN @ \cup {q} ELSE @]
        /\ unseen' = [unseen EXCEPT ![p] = IF pc[q] = "forked" /\ Older(q, p)
                                            THEN @ \cup {q} ELSE @]
  OBVIOUS
<1>3. /\ todo'[p] = todo[p] \ {q}
      /\ found'[p] = IF Recognised(q) THEN found[p] \cup {q} ELSE found[p]
      /\ unseen'[p] = IF pc[q] = "forked" /\ Older(q, p) THEN unseen[p] \cup {q} ELSE unseen[p]
      /\ \A r \in Procs : r # p => todo'[r] = todo[r] /\ found'[r] = found[r] /\ unseen'[r] = unseen[r]
  BY <1>2 DEF TypeOK
<1>4. q \in Procs
  BY DEF TypeOK
<1>5. Started' /\ Named' /\ InTime' /\ WaitsBehind'
  BY DEF Started, Named, InTime, WaitsBehind, Behind, Older
<1>6. FoundStarted'
  BY <1>3, <1>4 DEF FoundStarted, Started, Recognised, Living
<1>7. ScanSees'
  <2>1. pc[q] \in Living /\ cmdline[q] # "other" => pc[q] = "forked" \/ Recognised(q)
    BY <1>4, JanusAssumption DEF Named, Recognised, Living, TypeOK
  <2> QED
    BY <1>3, <1>4, <2>1 DEF ScanSees, Older, Living
<1>8. ConvertSees'
  BY <1>3 DEF ConvertSees, Older
<1> QED
  BY <1>1, <1>5, <1>6, <1>7, <1>8

\* Giving up, failing, finishing and being killed.
LEMMA Leaves ==
  ASSUME JInv, NEW p \in Procs, NEW w \in {"over"} \cup GaveUp, pc[p] \in Living,
         w \in GaveUp => Behind(p), Leave(p, w)
  PROVE  JInv'
<1> USE DEF JInv, Leave
<1>1. w \in PC /\ w \notin Living /\ w # "none" /\ w # "convert"
  BY DEF PC, GaveUp, Living
<1>2. TypeOK'
  BY <1>1, JanusAssumption DEF TypeOK
<1>3. /\ pc'[p] = w /\ polls'[p] = 0 /\ found'[p] = {} /\ cmdline'[p] = "none"
      /\ \A q \in Procs : q # p => /\ pc'[q] = pc[q] /\ polls'[q] = polls[q]
                                   /\ cmdline'[q] = cmdline[q]
                                   /\ todo'[q] = todo[q] /\ found'[q] = found[q]
                                   /\ unseen'[q] = unseen[q]
  BY <1>1 DEF TypeOK
<1>4. Started' /\ InTime' /\ FoundStarted'
  <2>1. pc'[p] # "none" /\ pc'[p] # "scan" /\ pc[p] # "none"
    BY <1>1, <1>3 DEF Living
  <2>2. Started' /\ InTime'
    BY <1>3, <2>1 DEF Started, InTime
  <2>3. FoundStarted'
    BY <1>3 DEF FoundStarted
  <2> QED
    BY <2>2, <2>3
<1>7. Named'
  <2>1. \A q \in Procs \ {p} : cmdline'[q] # "none" <=> pc'[q] \in {"poll", "scan", "convert"}
    BY <1>3 DEF Named
  <2>2. pc'[p] \notin {"poll", "scan", "convert"}
    BY <1>1, <1>3 DEF Living
  <2> QED
    BY <1>3, <2>1, <2>2, Zenon DEF Named
<1>5. ScanSees' /\ ConvertSees'
  BY <1>1, <1>3 DEF ScanSees, ConvertSees, Older, Living
<1>6. WaitsBehind'
  BY <1>1, <1>3 DEF WaitsBehind, Behind, Older
<1> QED
  BY <1>2, <1>4, <1>5, <1>6, <1>7

\* The scan is over: an older process of the key that lives would stand in its way,
\* had it been found.
LEMMA GoesAhead ==
  ASSUME JInv, NEW p \in Procs, pc[p] = "scan", todo[p] = {}, GoAhead(p)
  PROVE  JInv'
<1> USE DEF JInv, GoAhead, Leave
<1>1. TypeOK'
  BY JanusAssumption DEF TypeOK, PC, Living
<1>2. /\ pc'[p] = "convert" /\ polls'[p] = 0 /\ found'[p] = {} /\ unseen'[p] = unseen[p]
      /\ cmdline' = cmdline
      /\ \A q \in Procs : q # p => /\ pc'[q] = pc[q] /\ polls'[q] = polls[q]
                                   /\ todo'[q] = todo[q] /\ found'[q] = found[q]
                                   /\ unseen'[q] = unseen[q]
  BY DEF TypeOK
<1>3. Started' /\ Named' /\ InTime' /\ FoundStarted'
  BY <1>2 DEF Started, Named, InTime, FoundStarted
<1>4. ScanSees'
  BY <1>2 DEF ScanSees, Older, Living
<1>5. ConvertSees'
  <2>1. SUFFICES ASSUME NEW q \in Procs, pc[q] \in Living,
                        Older(q, p), cmdline[q] # "other"
                 PROVE  q \in unseen[p]
    BY <1>2 DEF ConvertSees, Older, Living
  <2>2. q \in found[p] \cup unseen[p]
    BY <2>1 DEF ScanSees, Older
  <2>3. q \notin found[p]
    BY <2>1, Turn, JanusAssumption DEF Older, TypeOK
  <2> QED
    BY <2>2, <2>3
<1>6. WaitsBehind'
  BY <1>2 DEF WaitsBehind, Behind, Older, GaveUp
<1> QED
  BY <1>1, <1>3, <1>4, <1>5, <1>6

LEMMA Stays ==
  ASSUME JInv, NEW p \in Procs, pc[p] = "scan", Stay(p)
  PROVE  JInv'
<1> USE DEF JInv, Stay
<1>1. TypeOK'
  BY JanusAssumption DEF TypeOK, InTime, PC, Living
<1>2. /\ pc'[p] = "poll" /\ found'[p] = {}
      /\ \A q \in Procs : q # p => /\ pc'[q] = pc[q] /\ polls'[q] = polls[q]
                                   /\ found'[q] = found[q] /\ unseen'[q] = unseen[q]
  BY DEF TypeOK
<1>3. Started' /\ Named' /\ InTime' /\ FoundStarted'
  BY <1>2 DEF Started, Named, InTime, FoundStarted
<1>4. ScanSees' /\ ConvertSees'
  BY <1>2 DEF ScanSees, ConvertSees, Older, Living
<1>5. WaitsBehind'
  BY <1>2, NoTurn DEF WaitsBehind, Behind, Older
<1> QED
  BY <1>1, <1>3, <1>4, <1>5
-----------------------------------------------------------------------------
(* The theorems. *)

LEMMA Starts == Init => JInv
<1> SUFFICES ASSUME Init PROVE JInv
  OBVIOUS
<1> USE DEF Init
<1>1. TypeOK
  BY JanusAssumption DEF TypeOK, PC
<1>2. Started /\ Named /\ InTime /\ FoundStarted
  BY DEF Started, Named, InTime, FoundStarted
<1>3. ScanSees /\ ConvertSees /\ WaitsBehind
  BY DEF ScanSees, ConvertSees, Older, WaitsBehind, GaveUp
<1> QED
  BY <1>1, <1>2, <1>3 DEF JInv

LEMMA WaitKeeps ==
  ASSUME JInv, NEW p \in Procs, Wait(p)
  PROVE  JInv'
<1>1. CASE BeginScan(p)
  BY <1>1, BeginsScan
<1>2. CASE NeverOurTurn(p)
  <2>1. polls[p] > 0
    BY <1>2, JanusAssumption DEF NeverOurTurn
  <2>2. Behind(p)
    BY <2>1 DEF JInv, WaitsBehind
  <2> QED
    BY <1>2, <2>2, Leaves DEF NeverOurTurn, Living, GaveUp
<1>3. CASE Look(p)
  BY <1>3, Looks
<1>4. CASE LookFails(p)
  BY <1>4, Leaves DEF LookFails, Living, GaveUp
<1>5. CASE EndScan(p)
  <2>1. pc[p] = "scan" /\ todo[p] = {}
    BY <1>5 DEF EndScan
  <2>2. CASE GoAhead(p)
    BY <2>1, <2>2, GoesAhead
  <2>3. CASE Abort(p)
    <3>1. Behind(p)
      BY <2>3, NoTurn DEF Abort, JInv
    <3> QED
      BY <2>1, <2>3, <3>1, Leaves DEF Abort, Living, GaveUp
  <2>4. CASE Stay(p)
    BY <2>1, <2>4, Stays
  <2> QED
    BY <1>5, <2>2, <2>3, <2>4 DEF EndScan, Decide
<1> QED
  BY <1>1, <1>2, <1>3, <1>4, <1>5 DEF Wait

LEMMA Keeps == JInv /\ [Next]_vars => JInv'
<1> SUFFICES ASSUME JInv, [Next]_vars PROVE JInv'
  OBVIOUS
<1>1. CASE Pass
  <2> USE <1>1 DEF JInv, Pass
  <2>1. TypeOK' /\ Started' /\ Named'
    BY JanusAssumption DEF TypeOK, Started, Named
  <2>2. InTime' /\ FoundStarted' /\ ScanSees' /\ ConvertSees' /\ WaitsBehind'
    BY DEF InTime, FoundStarted, ScanSees, ConvertSees, Older, WaitsBehind, Behind, Older
  <2> QED
    BY <2>1, <2>2
<1>2. ASSUME NEW p \in Procs, Step(p) PROVE JInv'
  <2>1. CASE \E k \in Keys : Fork(p, k)
    BY <2>1, Forks
  <2>2. CASE Exec(p)
    BY <2>2, Execs
  <2>3. CASE Wait(p)
    BY <2>3, WaitKeeps
  <2>4. CASE Finish(p)
    BY <2>4, Leaves DEF Finish, Living, GaveUp
  <2>5. CASE Kill(p)
    BY <2>5, Leaves DEF Kill, GaveUp
  <2> QED
    BY <1>2, <2>1, <2>2, <2>3, <2>4, <2>5 DEF Step
<1>3. CASE UNCHANGED vars
  <2> USE <1>3 DEF vars, JInv
  <2>1. TypeOK' /\ Started' /\ Named' /\ InTime' /\ FoundStarted'
    BY DEF TypeOK, Started, Named, InTime, FoundStarted
  <2>2. ScanSees' /\ ConvertSees' /\ WaitsBehind'
    BY DEF ScanSees, ConvertSees, Older, WaitsBehind, Behind, Older
  <2> QED
    BY <2>1, <2>2
<1> QED
  BY <1>1, <1>2, <1>3 DEF Next

\* The invariant of the queue: scans miss nobody, and who waits waits for an older one.
THEOREM JanusInvariant == Spec => []JInv
  BY Starts, Keeps, PTL DEF Spec

\* Every variable stays in its set: processes poll no more often than they may.
THEOREM JanusTyped == Spec => []TypeOK
<1>1. JInv => TypeOK
  BY DEF JInv
<1> QED
  BY <1>1, JanusInvariant, PTL

\* Of two processes of one key that convert at once, the younger met the older before
\* that was janus, or the older was started in a way the scans do not know.
THEOREM JanusOneConversion == Spec => []OneConversion
<1>1. JInv => OneConversion
  BY DEF JInv, ConvertSees, Older, OneConversion, Living
<1> QED
  BY <1>1, JanusInvariant, PTL

\* The oldest process of a key never gives up: it has nobody to wait for.
THEOREM JanusNotAllGiveUp == Spec => []NotAllGiveUp
<1>1. JInv => NotAllGiveUp
  <2> SUFFICES ASSUME JInv, NEW k \in Keys, NEW s \in {p \in Procs : key[p] = k}
               PROVE  \E p \in Procs : key[p] = k /\ pc[p] \notin GaveUp
    BY DEF NotAllGiveUp
  <2> DEFINE S == {p \in Procs : key[p] = k}
  <2>1. TypeOK /\ WaitsBehind
    BY DEF JInv
  <2>2. PICK m \in S : \A r \in S : created[m] < created[r] \/ (created[m] = created[r] /\ m <= r)
    <3>1. S \subseteq Procs /\ s \in S
      OBVIOUS
    <3> HIDE DEF S
    <3> QED BY <2>1, <3>1, Oldest
  <2>3. ~Behind(m)
    <3>1. SUFFICES ASSUME NEW q \in Procs, key[q] = key[m], created[q] < created[m]
                   PROVE  FALSE
      BY DEF Behind, Older
    <3>2. created[q] \in Nat /\ created[m] \in Nat
      BY <2>1, JanusAssumption DEF TypeOK
    <3> QED
      BY <2>2, <3>1, <3>2
  <2> QED
    BY <2>1, <2>3 DEF WaitsBehind
<1> QED
  BY <1>1, JanusInvariant, PTL
-----------------------------------------------------------------------------
(* The refinement. *)

Place == [p \in Procs |-> PlaceOf(pc[p])]

Strangers == {p \in Procs : cmdline[p] = "other"}

LEMMA Places ==
  /\ PlaceOf("none") = "none" /\ PlaceOf("over") = "over" /\ PlaceOf("convert") = "convert"
  /\ PlaceOf("forked") = "coming"
  /\ \A s \in {"poll", "scan"} : PlaceOf(s) = "line"
  /\ \A s \in GaveUp : PlaceOf(s) = "left"
BY DEF PlaceOf, GaveUp

\* A move in the code is a move in the line.
LEMMA Moves ==
  ASSUME NEW p \in Procs, \A q \in Procs : q # p => pc'[q] = pc[q]
  PROVE  Place' = [Place EXCEPT ![p] = PlaceOf(pc'[p])]
BY DEF Place

\* Who lives is present in the line.
LEMMA Presence ==
  ASSUME TypeOK, NEW p \in Procs
  PROVE  /\ Place[p] = PlaceOf(pc[p])
         /\ pc[p] \in Living <=> Place[p] \in {"coming", "line", "convert"}
         /\ PlaceOf(pc[p]) = "coming" <=> pc[p] = "forked"
BY DEF Place, PlaceOf, TypeOK, PC, Living, GaveUp

\* Coming, and standing in line.
LEMMA ArriveRefines ==
  ASSUME JInv, NEW p \in Procs
  PROVE  /\ \A k \in Keys : Fork(p, k) => Line!Come(p, k)
         /\ Exec(p) => Line!StandInLine(p)
<1>1. TypeOK /\ Place[p] = PlaceOf(pc[p])
  BY Presence DEF JInv
<1>2. ASSUME NEW k \in Keys, Fork(p, k) PROVE Line!Come(p, k)
  <2>1. Place' = [Place EXCEPT ![p] = "coming"] /\ Place[p] = "none"
    <3>1. pc'[p] = "forked" /\ \A q \in Procs : q # p => pc'[q] = pc[q]
      BY <1>1, <1>2 DEF Fork, TypeOK
    <3>2. Place' = [Place EXCEPT ![p] = PlaceOf(pc'[p])]
      BY <3>1, Moves
    <3> QED
      BY <1>1, <1>2, <3>1, <3>2, Places DEF Fork
  <2> QED
    BY <1>2, <2>1 DEF Fork, Place, Strangers, Line!Come, Line!To
<1>3. ASSUME Exec(p) PROVE Line!StandInLine(p)
  <2>1. Place' = [Place EXCEPT ![p] = "line"] /\ Place[p] = "coming"
    <3>1. pc'[p] = "poll" /\ \A q \in Procs : q # p => pc'[q] = pc[q]
      BY <1>1, <1>3 DEF Exec, TypeOK
    <3>2. Place' = [Place EXCEPT ![p] = PlaceOf(pc'[p])]
      BY <3>1, Moves
    <3> QED
      BY <1>1, <1>3, <3>1, <3>2, Places DEF Exec
  <2>2. Strangers' \in {Strangers, Strangers \cup {p}}
    <3>1. p \notin Strangers
      BY <1>3 DEF Exec, Strangers, JInv, Named
    <3>2. \A q \in Procs : q # p => cmdline'[q] = cmdline[q]
      BY <1>1, <1>3 DEF Exec, TypeOK
    <3> QED
      BY <3>1, <3>2 DEF Strangers
  <2> QED
    BY <1>3, <2>1, <2>2 DEF Exec, Place, Strangers, Line!StandInLine, Line!To
<1> QED
  BY <1>2, <1>3

\* Leaving without having converted, or after it.
LEMMA LeaveRefines ==
  ASSUME JInv, NEW p \in Procs
  PROVE  /\ pc[p] \in Living /\ Leave(p, "over") => Line!End(p)
         /\ \A w \in GaveUp :
              pc[p] \in {"poll", "scan"} /\ Behind(p) /\ Leave(p, w) => Line!GiveUp(p)
<1>1. TypeOK /\ Place[p] = PlaceOf(pc[p])
  BY Presence DEF JInv
<1>2. ASSUME pc[p] \in Living, Leave(p, "over") PROVE Line!End(p)
  <2>1. Place' = [Place EXCEPT ![p] = "over"] /\ Place[p] \in {"coming", "line", "convert"}
    <3>1. pc'[p] = "over" /\ \A q \in Procs : q # p => pc'[q] = pc[q]
      BY <1>1, <1>2 DEF Leave, TypeOK
    <3>2. Place' = [Place EXCEPT ![p] = PlaceOf(pc'[p])]
      BY <3>1, Moves
    <3> QED
      BY <1>1, <1>2, <3>1, <3>2, Places, Presence DEF Leave
  <2>2. Strangers' = Strangers \ {p}
    BY <1>1, <1>2 DEF Leave, Strangers, TypeOK
  <2> QED
    BY <1>2, <2>1, <2>2 DEF Leave, Place, Strangers, Line!End, Line!To, Line!Present
<1>3. ASSUME NEW w \in GaveUp, pc[p] \in {"poll", "scan"}, Behind(p), Leave(p, w)
      PROVE  Line!GiveUp(p)
  <2>1. Place' = [Place EXCEPT ![p] = "left"] /\ Place[p] = "line"
    <3>1. pc'[p] = w /\ \A q \in Procs : q # p => pc'[q] = pc[q]
      BY <1>1, <1>3 DEF Leave, TypeOK
    <3>2. Place' = [Place EXCEPT ![p] = PlaceOf(pc'[p])]
      BY <3>1, Moves
    <3> QED
      BY <1>1, <1>3, <3>1, <3>2, Places DEF Leave
  <2>2. Strangers' = Strangers \ {p}
    BY <1>1, <1>3 DEF Leave, GaveUp, Strangers, TypeOK
  <2> QED
    BY <1>3, <2>1, <2>2 DEF Leave, GaveUp, Behind, Older, Place, Strangers, Line!GiveUp,
       Line!To, Line!Older
<1> QED
  BY <1>2, <1>3

\* Looking around: only an older one that is forked counts as passed over.
LEMMA LookRefines ==
  ASSUME JInv, NEW p \in Procs, BeginScan(p) \/ Look(p) \/ (pc[p] = "scan" /\ Stay(p))
  PROVE  (\E q \in Procs : Line!PassOver(p, q)) \/ Line!LookAgain(p) \/ UNCHANGED Line!vars
<1>1. TypeOK /\ Place[p] = PlaceOf(pc[p])
  BY Presence DEF JInv
<1>2. pc[p] \in {"poll", "scan"} /\ Place[p] = "line"
  BY <1>1, Places DEF BeginScan, Look
<1>3. Place' = Place
  <2>1. ASSUME NEW s \in {"poll", "scan"}, pc' = [pc EXCEPT ![p] = s] PROVE Place' = Place
    <3>1. Place' = [Place EXCEPT ![p] = "line"]
      <4>1. pc'[p] = s /\ \A q \in Procs : q # p => pc'[q] = pc[q]
        BY <1>1, <2>1 DEF TypeOK
      <4>2. Place' = [Place EXCEPT ![p] = PlaceOf(pc'[p])]
        BY <4>1, Moves
      <4> QED
        BY <1>1, <2>1, <4>1, <4>2, Places
    <3> QED
      BY <1>2, <3>1 DEF Place
  <2> QED
    BY <2>1 DEF BeginScan, Look, Stay, Place
<1>4. CASE BeginScan(p)
  BY <1>3, <1>4 DEF BeginScan, Line!vars, Place
<1>5. CASE Look(p)
  <2>1. PICK q \in todo[p] :
          unseen' = [unseen EXCEPT ![p] = IF pc[q] = "forked" /\ Older(q, p)
                                              THEN @ \cup {q} ELSE @]
    BY <1>5 DEF Look
  <2>2. q \in Procs
    BY <1>1 DEF TypeOK
  <2>3. CASE pc[q] = "forked" /\ Older(q, p)
    <3>1. Place[q] = "coming"
      BY <1>1, <2>2, <2>3, Presence, Places
    <3> QED
      BY <1>2, <1>3, <1>5, <2>1, <2>2, <2>3, <3>1 DEF Look, Place, Line!PassOver
  <2>4. CASE ~(pc[q] = "forked" /\ Older(q, p))
    <3>1. unseen' = unseen
      BY <1>1, <2>1, <2>4 DEF TypeOK
    <3> QED
      BY <1>3, <1>5, <3>1 DEF Look, Place, Line!vars
  <2> QED
    BY <2>3, <2>4
<1>6. CASE pc[p] = "scan" /\ Stay(p)
  BY <1>2, <1>3, <1>6 DEF Stay, Place, Line!LookAgain
<1> QED
  BY <1>4, <1>5, <1>6

\* Going ahead: whoever is older, present and of its key would have been found.
LEMMA GoRefines ==
  ASSUME JInv, NEW p \in Procs, pc[p] = "scan", todo[p] = {}, GoAhead(p)
  PROVE  Line!GoAhead(p)
<1>1. TypeOK /\ Place[p] = PlaceOf(pc[p])
  BY Presence DEF JInv
<1>2. Place' = [Place EXCEPT ![p] = "convert"] /\ Place[p] = "line"
  <2>1. pc'[p] = "convert" /\ \A q \in Procs : q # p => pc'[q] = pc[q]
    BY <1>1 DEF GoAhead, Leave, TypeOK
  <2>2. Place' = [Place EXCEPT ![p] = PlaceOf(pc'[p])]
    BY <2>1, Moves
  <2> QED
    BY <1>1, <2>1, <2>2, Places DEF GoAhead, Leave
<1>3. unseen' = unseen
  BY <1>1 DEF GoAhead, Leave, TypeOK
<1>4. ASSUME NEW q \in Procs, pc[q] \in Living, Older(q, p)
      PROVE  q \in unseen[p] \/ cmdline[q] = "other"
  <2> SUFFICES ASSUME cmdline[q] # "other" PROVE q \in unseen[p]
    OBVIOUS
  <2>1. q \in found[p] \cup unseen[p]
    BY <1>4 DEF JInv, ScanSees, Older
  <2>2. q \notin found[p]
    BY <1>1, <1>4, Turn, JanusAssumption DEF GoAhead, Older, TypeOK
  <2> QED
    BY <2>1, <2>2
<1>5. ASSUME NEW q \in Procs, Line!Present(q), Line!Older(q, p)
      PROVE  q \in unseen[p] \cup Strangers
  <2>1. pc[q] \in Living
    BY <1>1, <1>5, Presence DEF Line!Present, Place
  <2> QED
    BY <1>4, <1>5, <2>1 DEF Line!Older, Older, Strangers
<1>6. Strangers' = Strangers
  BY <1>1 DEF GoAhead, Leave, Strangers, TypeOK
<1> QED
  BY <1>2, <1>3, <1>5, <1>6 DEF GoAhead, Leave, Place, Strangers, Line!GoAhead, Line!To

LEMMA StepRefines ==
  ASSUME JInv, NEW p \in Procs, Step(p)
  PROVE  Line!Act(p) \/ UNCHANGED Line!vars
<1>1. CASE (\E k \in Keys : Fork(p, k)) \/ Exec(p)
  BY <1>1, ArriveRefines DEF Line!Act
<1>2. CASE LookFails(p) \/ Finish(p) \/ Kill(p)
  BY <1>2, LeaveRefines DEF LookFails, Finish, Kill, Living, Line!Act
<1>3. CASE NeverOurTurn(p)
  <2>1. Behind(p)
    BY <1>3, JanusAssumption DEF NeverOurTurn, JInv, WaitsBehind
  <2> QED
    BY <1>3, <2>1, LeaveRefines DEF NeverOurTurn, GaveUp, Line!Act
<1>4. CASE BeginScan(p) \/ Look(p) \/ (pc[p] = "scan" /\ Stay(p))
  BY <1>4, LookRefines DEF Line!Act
<1>5. CASE pc[p] = "scan" /\ todo[p] = {} /\ GoAhead(p)
  BY <1>5, GoRefines DEF Line!Act
<1>6. CASE pc[p] = "scan" /\ Abort(p)
  <2>1. Behind(p)
    BY <1>6, NoTurn DEF Abort, JInv
  <2> QED
    BY <1>6, <2>1, LeaveRefines DEF Abort, GaveUp, Line!Act
<1> QED
  BY <1>1, <1>2, <1>3, <1>4, <1>5, <1>6 DEF Step, Wait, EndScan, Decide

\* The processes' scans amount to a line served by age, however many there are and
\* whatever starts, ends and is killed while they look.
THEOREM JanusImplementsLine == Spec => ImplementsLine
<1>1. Init => Line!Init
  BY Places DEF Init, Line!Init
<1>2. JInv /\ [Next]_vars => [Line!Next]_(Line!vars)
  <2> SUFFICES ASSUME JInv, [Next]_vars PROVE [Line!Next]_(Line!vars)
    OBVIOUS
  <2>1. CASE Pass
    BY <2>1 DEF Pass, Line!Pass, Line!Next
  <2>2. ASSUME NEW p \in Procs, Step(p) PROVE [Line!Next]_(Line!vars)
    BY <2>2, StepRefines DEF Line!Next
  <2>3. CASE UNCHANGED vars
    BY <2>3 DEF vars, Line!vars
  <2> QED
    BY <2>1, <2>2, <2>3 DEF Next
<1> QED
  BY <1>1, <1>2, JanusInvariant, PTL DEF Spec, ImplementsLine, Line!Spec
-----------------------------------------------------------------------------
(* How long a process waits. *)

\* A set of processes has a size, at most that of all.
LEMMA Sizes ==
  ASSUME NEW S \in SUBSET Procs
  PROVE  /\ Cardinality(Procs) \in Nat
         /\ Cardinality(S) \in 0 .. Cardinality(Procs)
         /\ \A q \in S : Cardinality(S \ {q}) = Cardinality(S) - 1
<1>1. IsFiniteSet(Procs)
  BY JanusAssumption
<1>2. IsFiniteSet(S) /\ Cardinality(S) <= Cardinality(Procs)
  BY <1>1, FS_Subset
<1>3. Cardinality(Procs) \in Nat /\ Cardinality(S) \in Nat
  BY <1>1, <1>2, FS_CardinalityType
<1>4. \A q \in S : Cardinality(S \ {q}) = Cardinality(S) - 1
  BY <1>2, FS_RemoveElement
<1> QED
  BY <1>2, <1>3, <1>4

\* One poll fewer is one whole scan fewer.
LEMMA OnePollLess ==
  ASSUME NEW m \in Nat \ {0}, NEW n \in Nat
  PROVE  /\ (m - 1) * (n + 2) = m * (n + 2) - (n + 2)
         /\ (m - 1) * (n + 2) \in Nat /\ m * (n + 2) \in Int
<1>1. m - 1 \in Nat /\ n + 2 \in Nat /\ m = (m - 1) + 1
  OBVIOUS
<1>2. \A i, j \in Nat : i * j \in Nat /\ (i + 1) * j = i * j + j
  OBVIOUS
<1> QED
  BY <1>1, <1>2

\* Beginning a scan, going on with it, and being told to poll again.
LEMMA WaiterShrinks ==
  ASSUME JInv, NEW p \in Procs, BeginScan(p) \/ Look(p) \/ (pc[p] = "scan" /\ todo[p] = {} /\ Stay(p))
  PROVE  StepsLeft(p)' \in 0 .. StepsLeft(p) - 1
<1> DEFINE N == Cardinality(Procs)
           m == MaxPolls - polls[p]
           a == m * (N + 2)
<1>1. /\ N \in Nat
      /\ Cardinality(todo[p]) \in 0 .. N /\ Cardinality(todo'[p]) \in 0 .. N
  <2>1. TypeOK /\ TypeOK'
    BY WaitKeeps DEF JInv, Wait, EndScan, Decide
  <2> QED
    BY <2>1, Sizes DEF TypeOK
<1>2. m \in Nat \ {0}
  BY JanusAssumption DEF JInv, TypeOK, InTime, BeginScan, Look
<1>3. a \in Int /\ (m - 1) * (N + 2) = a - (N + 2) /\ a - (N + 2) \in Nat
  <2> HIDE DEF m, N
  <2> QED
    BY <1>1, <1>2, OnePollLess
<1>4. StepsLeft(p) = a - IF pc[p] = "scan" THEN N + 1 - Cardinality(todo[p]) ELSE 0
  BY DEF StepsLeft
<1>5. ASSUME polls'[p] = polls[p], pc'[p] = "scan"
      PROVE  StepsLeft(p)' = a - (N + 1 - Cardinality(todo'[p]))
  BY <1>5 DEF StepsLeft
<1> HIDE DEF a, N
<1>6. CASE BeginScan(p)
  <2>1. pc[p] = "poll" /\ pc'[p] = "scan" /\ polls'[p] = polls[p]
    BY <1>6 DEF BeginScan, JInv, TypeOK
  <2> QED
    BY <1>1, <1>3, <1>4, <1>5, <2>1
<1>7. CASE Look(p)
  <2>1. pc[p] = "scan" /\ pc'[p] = "scan" /\ polls'[p] = polls[p]
    BY <1>7 DEF Look
  <2>2. PICK q \in todo[p] : todo'[p] = todo[p] \ {q}
    BY <1>7 DEF Look, JInv, TypeOK
  <2>3. Cardinality(todo'[p]) = Cardinality(todo[p]) - 1
    BY <2>2, Sizes DEF JInv, TypeOK
  <2> QED
    BY <1>1, <1>3, <1>4, <1>5, <2>1, <2>3
<1>8. CASE pc[p] = "scan" /\ todo[p] = {} /\ Stay(p)
  <2>1. pc'[p] = "poll" /\ polls'[p] = polls[p] + 1
    BY <1>8 DEF Stay, JInv, TypeOK
  <2>2. StepsLeft(p)' = (MaxPolls - (polls[p] + 1)) * (N + 2)
    <3>1. (MaxPolls - (polls[p] + 1)) * (N + 2) \in Int
      BY <1>1, <1>2, JanusAssumption DEF JInv, TypeOK
    <3> QED
      BY <2>1, <3>1 DEF StepsLeft, N
  <2>3. MaxPolls - (polls[p] + 1) = m - 1
    BY JanusAssumption DEF JInv, TypeOK
  <2>4. StepsLeft(p)' = a - (N + 2)
    BY <1>3, <2>2, <2>3
  <2>5. Cardinality(todo[p]) = 0
    BY <1>8, FS_EmptySet
  <2> QED
    BY <1>1, <1>3, <1>4, <1>8, <2>4, <2>5
<1> QED
  BY <1>6, <1>7, <1>8

\* A process waits for a number of its own steps that is known when it starts, whoever
\* comes, goes or stays in the meantime.
THEOREM JanusWaitShrinks == Spec => WaitShrinks
<1> DEFINE Shrinks(p) ==
      /\ {pc[p], pc'[p]} \subseteq {"poll", "scan"}
      /\ <<pc[p], polls[p], todo[p]>>' # <<pc[p], polls[p], todo[p]>>
      => StepsLeft(p)' \in 0 .. StepsLeft(p) - 1
<1>1. JInv /\ [Next]_vars => [\A p \in Procs : Shrinks(p)]_vars
  <2> SUFFICES ASSUME JInv, Next, NEW p \in Procs, {pc[p], pc'[p]} \subseteq {"poll", "scan"},
                      <<pc[p], polls[p], todo[p]>>' # <<pc[p], polls[p], todo[p]>>
               PROVE  StepsLeft(p)' \in 0 .. StepsLeft(p) - 1
    OBVIOUS
  <2>1. Step(p)
    <3>1. ASSUME NEW q \in Procs \ {p}, Step(q) PROVE FALSE
      BY <3>1 DEF JInv, TypeOK, Step, Fork, Exec, Wait, BeginScan, NeverOurTurn, Look, LookFails,
         EndScan, Decide, GoAhead, Abort, Stay, Finish, Kill, Leave
    <3> QED
      BY <3>1 DEF Next, Pass
  <2>2. ASSUME NEW where \in {"over", "late", "crowded", "convert"}, Leave(p, where) PROVE FALSE
    BY <2>2 DEF Leave, JInv, TypeOK
  <2>3. BeginScan(p) \/ Look(p) \/ (pc[p] = "scan" /\ todo[p] = {} /\ Stay(p))
    BY <2>1, <2>2 DEF Step, Fork, Exec, Wait, NeverOurTurn, LookFails, EndScan, Decide,
       GoAhead, Abort, Finish, Kill
  <2> QED
    BY <2>3, WaiterShrinks
<1> QED
  BY <1>1, JanusInvariant, PTL DEF Spec, WaitShrinks
=============================================================================
