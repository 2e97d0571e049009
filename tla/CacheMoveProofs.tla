---------------------------- MODULE CacheMoveProofs ----------------------------
(* What move_cache.sh keeps, whatever the number of requests, and of copies that are killed or fail. *)
EXTENDS CacheMove, TLAPS

ScriptPC == {"idle", "test", "nhash", "ohash", "rmold", "rmnew", "cp", "opened", "fill"}

\* What the script has looked at is there, for nobody else removes it; and it is not a
\* file that the script itself left unfilled, once the hashes are found to be alike.
Compared ==
  /\ pc[Script] \in {"nhash", "ohash", "rmold", "rmnew"} => there
  /\ pc[Script] = "rmold" \/ (pc[Script] = "ohash" /\ alike) => torn # Script

\* When the script has removed the archive's file there is nothing left for it to do.
Taken == mover = Script => ~archived /\ pc[Script] = "idle" /\ there /\ torn # Script

CInv == TypeOK /\ pc[Script] \in ScriptPC /\ UnwrittenIsWhole /\ Compared /\ Taken
-----------------------------------------------------------------------------
\* It holds at first.
LEMMA InitCInv == Init => CInv
<1> SUFFICES ASSUME Init PROVE CInv
  OBVIOUS
<1>1. pc \in [Procs -> PC] /\ pc[Script] = "idle"
  BY DEF Init, Procs, PC
<1>2. 0 \in 0 .. MaxRequests /\ 0 \in 0 .. MaxFaults
  BY CacheMoveAssumption
<1>3. TypeOK
  BY <1>1, <1>2 DEF Init, TypeOK
<1>4. mover # Script
  BY CacheMoveAssumption DEF Init
<1> QED
  BY <1>1, <1>3, <1>4 DEF Init, CInv, ScriptPC, UnwrittenIsWhole, Compared, Taken

\* The places in the code.
LEMMA GotoType ==
  ASSUME TypeOK, NEW p \in Procs, NEW from, NEW to \in PC, Goto(p, from, to)
  PROVE  /\ pc' \in [Procs -> PC]
         /\ pc[p] = from /\ pc'[p] = to
         /\ \A q \in Procs \ {p} : pc'[q] = pc[q]
BY DEF TypeOK, Goto

\* A request opens the file, fills it, or empties the archive, but removes nothing else.
LEMMA RequestCInv ==
  ASSUME CInv, NEW r \in Requests, RequestStep(r)
  PROVE  CInv'
<1>1. r \in Procs /\ Script \in Procs /\ r # Script /\ r # Nobody /\ Script # Nobody
  BY CacheMoveAssumption DEF Procs
<1>2. \A s \in {"idle", "archive", "move", "built", "opened", "fill", "store", "unlink"} : s \in PC
  BY DEF PC
<1>3. ASSUME NEW from, NEW to \in PC, Goto(r, from, to)
      PROVE  pc' \in [Procs -> PC] /\ pc'[Script] = pc[Script]
  BY <1>1, <1>3, GotoType DEF CInv
<1>4. CASE Begin(r)
  <2>1. pc' \in [Procs -> PC] /\ pc'[Script] = pc[Script]
    BY <1>2, <1>3, <1>4 DEF Begin
  <2> QED
    BY <1>4, <2>1, CacheMoveAssumption
       DEF Begin, CInv, TypeOK, UnwrittenIsWhole, Compared, Taken, primary
<1>5. CASE LookInArchive(r) \/ OpenSource(r)
  <2>1. pc' \in [Procs -> PC] /\ pc'[Script] = pc[Script]
    BY <1>2, <1>3, <1>5 DEF LookInArchive, OpenSource
  <2> QED
    BY <1>5, <2>1
       DEF LookInArchive, OpenSource, CInv, TypeOK, UnwrittenIsWhole, Compared, Taken, primary, counts
<1>6. CASE OpenTarget(r)
  <2>1. pc' \in [Procs -> PC] /\ pc'[Script] = pc[Script]
    BY <1>1, <1>2, <1>3, <1>6 DEF OpenTarget
  <2>2. there' /\ writers' = writers \cup {r} /\ torn' = r /\ left' = FALSE
        /\ UNCHANGED <<archived, alike, mover, counts>>
    BY <1>1, <1>6 DEF OpenTarget
  <2> QED
    BY <1>1, <2>1, <2>2 DEF CInv, TypeOK, UnwrittenIsWhole, Compared, Taken, counts
<1>7. CASE Fill(r)
  <2>1. pc' \in [Procs -> PC] /\ pc'[Script] = pc[Script]
    BY <1>1, <1>2, <1>3, <1>7 DEF Fill
  <2> QED
    BY <1>1, <1>7, <2>1 DEF Fill, CInv, TypeOK, UnwrittenIsWhole, Compared, Taken, counts
<1>8. CASE Unlink(r)
  <2>1. pc' \in [Procs -> PC] /\ pc'[Script] = pc[Script]
    BY <1>2, <1>3, <1>8 DEF Unlink
  <2> QED
    BY <1>1, <1>8, <2>1 DEF Unlink, CInv, TypeOK, UnwrittenIsWhole, Compared, Taken, primary, counts
<1> QED
  BY <1>4, <1>5, <1>6, <1>7, <1>8 DEF RequestStep, Copy

\* The script removes the primary file only while the archive has another, or after
\* somebody else took it from there.
LEMMA ScriptCInv ==
  ASSUME CInv, ScriptStep
  PROVE  CInv'
<1>1. Script \in Procs /\ Script # Nobody
  BY CacheMoveAssumption DEF Procs
<1>2. \A s \in ScriptPC : s \in PC
  BY DEF PC, ScriptPC
<1>3. ASSUME NEW from, NEW to \in ScriptPC, Goto(Script, from, to)
      PROVE  pc' \in [Procs -> PC] /\ pc[Script] = from /\ pc'[Script] = to
  BY <1>1, <1>2, <1>3, GotoType DEF CInv
<1>4. CASE List
  <2>1. pc' \in [Procs -> PC] /\ pc'[Script] = "test"
    BY <1>3, <1>4 DEF List, ScriptPC
  <2> QED
    BY <1>4, <2>1 DEF List, CInv, TypeOK, UnwrittenIsWhole, Compared, Taken, primary, counts, ScriptPC
<1>5. CASE Test
  <2>1. /\ pc' \in [Procs -> PC] /\ pc[Script] = "test"
        /\ (pc'[Script] = "nhash" /\ there) \/ pc'[Script] = "cp"
    BY <1>3, <1>5 DEF Test, ScriptPC
  <2> QED
    BY <1>5, <2>1 DEF Test, CInv, TypeOK, UnwrittenIsWhole, Compared, Taken, primary, counts, ScriptPC
<1>6. CASE NewHash
  <2>1. pc' \in [Procs -> PC] /\ pc[Script] = "nhash" /\ pc'[Script] = "ohash"
    BY <1>3, <1>6 DEF NewHash, ScriptPC
  <2> QED
    BY <1>1, <1>6, <2>1
       DEF NewHash, CInv, TypeOK, UnwrittenIsWhole, Compared, Taken, primary, counts, ScriptPC
<1>7. CASE OldHash
  <2>1. /\ pc' \in [Procs -> PC] /\ pc[Script] = "ohash"
        /\ (pc'[Script] = "rmold" /\ alike) \/ pc'[Script] = "rmnew"
    BY <1>3, <1>7 DEF OldHash, ScriptPC
  <2> QED
    BY <1>7, <2>1 DEF OldHash, CInv, TypeOK, UnwrittenIsWhole, Compared, Taken, primary, counts, ScriptPC
<1>8. CASE RemoveOld
  <2>1. pc' \in [Procs -> PC] /\ pc[Script] = "rmold" /\ pc'[Script] = "idle"
    BY <1>3, <1>8 DEF RemoveOld, ScriptPC
  <2> QED
    BY <1>1, <1>8, <2>1
       DEF RemoveOld, CInv, TypeOK, UnwrittenIsWhole, Compared, Taken, primary, counts, ScriptPC
<1>9. CASE RemoveNew
  <2>1. pc' \in [Procs -> PC] /\ pc[Script] = "rmnew" /\ pc'[Script] = "idle"
    BY <1>3, <1>9 DEF RemoveNew, ScriptPC
  <2> QED
    BY <1>1, <1>9, <2>1 DEF RemoveNew, CInv, TypeOK, UnwrittenIsWhole, Compared, Taken, counts, ScriptPC
<1>10. CASE OpenSource(Script)
  <2>1. pc' \in [Procs -> PC] /\ pc[Script] # "idle" /\ pc'[Script] \in {"opened", "idle"}
    BY <1>3, <1>10 DEF OpenSource, ScriptPC
  <2> QED
    BY <1>10, <2>1
       DEF OpenSource, CInv, TypeOK, UnwrittenIsWhole, Compared, Taken, primary, counts, ScriptPC
<1>11. CASE OpenTarget(Script)
  <2>1. /\ pc' \in [Procs -> PC] /\ pc[Script] = "opened"
        /\ pc'[Script] \in {"fill", "idle"}
    <3>1. ~Goto(Script, "built", "store")
      BY DEF Goto, CInv, ScriptPC
    <3> QED
      BY <1>3, <1>11, <3>1 DEF OpenTarget, ScriptPC
  <2> QED
    BY <1>1, <1>11, <2>1
       DEF OpenTarget, CInv, TypeOK, UnwrittenIsWhole, Compared, Taken, primary, counts, ScriptPC
<1>12. CASE Fill(Script)
  <2>1. pc' \in [Procs -> PC] /\ pc[Script] = "fill" /\ pc'[Script] = "idle"
    <3>1. ~Goto(Script, "store", "idle")
      BY DEF Goto, CInv, ScriptPC
    <3> QED
      BY <1>3, <1>12, <3>1 DEF Fill, ScriptPC
  <2> QED
    BY <1>1, <1>12, <2>1 DEF Fill, CInv, TypeOK, UnwrittenIsWhole, Compared, Taken, counts, ScriptPC
<1> QED
  BY <1>4, <1>5, <1>6, <1>7, <1>8, <1>9, <1>10, <1>11, <1>12 DEF ScriptStep, Copy

\* A copy that fails, or is killed, leaves the file as it is, and that is recorded.
LEMMA FaultCInv ==
  ASSUME CInv, NEW p \in Procs, CopyFails(p) \/ Kill(p)
  PROVE  CInv'
<1>1. Script \in Procs
  BY DEF Procs
<1>2. /\ pc' \in [Procs -> PC]
      /\ pc'[Script] = pc[Script] \/ (pc'[Script] = "idle" /\ pc[Script] # "idle")
  BY <1>1 DEF CopyFails, Kill, Goto, CInv, TypeOK, PC
<1>3. Leave(p) /\ faults' \in 0 .. MaxFaults
  BY CacheMoveAssumption DEF CopyFails, Kill, Leave, CInv, TypeOK
<1>4. alike' \in BOOLEAN /\ (pc'[Script] = pc[Script] /\ alike' => alike)
  <2>1. alike \in BOOLEAN
    BY DEF CInv, TypeOK
  <2>2. CASE CopyFails(p)
    BY <2>1, <2>2 DEF CopyFails
  <2>3. CASE Kill(p)
    BY <2>1, <2>3 DEF Kill
  <2> QED
    BY <2>2, <2>3
<1>5. TypeOK'
  BY <1>2, <1>3, <1>4 DEF Leave, CInv, TypeOK
<1>6. UnwrittenIsWhole'
  BY <1>3 DEF Leave, CInv, UnwrittenIsWhole
<1>7. pc'[Script] \in ScriptPC /\ Compared' /\ Taken'
  BY <1>2, <1>3, <1>4 DEF Leave, CInv, Compared, Taken, ScriptPC
<1> QED
  BY <1>5, <1>6, <1>7 DEF CInv

\* Together with what the script knows at each of its places this is inductive.
THEOREM CacheMoveInvariant == Spec => []CInv
<1>1. CInv /\ [Next]_vars => CInv'
  <2> SUFFICES ASSUME CInv, [Next]_vars PROVE CInv'
    OBVIOUS
  <2>1. CASE UNCHANGED vars
    BY <2>1 DEF vars, CInv, TypeOK, UnwrittenIsWhole, Compared, Taken
  <2> QED
    BY <2>1, RequestCInv, ScriptCInv, FaultCInv DEF Next
<1> QED
  BY <1>1, InitCInv, PTL DEF Spec

\* Every variable stays in its set.
THEOREM CacheMoveTyped == Spec => []TypeOK
BY CacheMoveInvariant, PTL DEF CInv

\* What move_cache.sh takes out of the archive is in the primary cache, and is no half
\* file of its own.
THEOREM CacheMoveKeeps == Spec => []ScriptKeeps
<1>1. CInv => ScriptKeeps
  BY DEF CInv, Taken, ScriptKeeps
<1> QED
  BY <1>1, CacheMoveInvariant, PTL

\* A half file that nobody writes was left by the copy that was the last to truncate it.
THEOREM CacheMoveWhole == Spec => []UnwrittenIsWhole
BY CacheMoveInvariant, PTL DEF CInv
-----------------------------------------------------------------------------
(* How far the script is. *)

\* A file that the script fills is there, and open.
Filling == pc[Script] = "fill" => there /\ Script \in writers

\* Nobody but the script closes or removes what it fills, unless its cp is killed or fails.
LEMMA NextFilling == CInv /\ Filling /\ [Next]_vars => Filling'
<1> SUFFICES ASSUME CInv, Filling, [Next]_vars PROVE Filling'
  OBVIOUS
<1>1. Script \in Procs /\ \A r \in Requests : r \in Procs /\ r # Script
  BY CacheMoveAssumption DEF Procs
<1>2. ASSUME NEW r \in Requests, RequestStep(r) PROVE Filling'
  <2>1. pc'[Script] = pc[Script]
    BY <1>1, <1>2 DEF RequestStep, Begin, LookInArchive, Copy, OpenSource, OpenTarget, Fill,
       Unlink, Goto, CInv, TypeOK
  <2>2. (there => there') /\ (Script \in writers => Script \in writers')
    BY <1>1, <1>2 DEF RequestStep, Begin, LookInArchive, Copy, OpenSource, OpenTarget, Fill,
       Unlink, primary
  <2> QED
    BY <2>1, <2>2 DEF Filling
<1>3. CASE ScriptStep
  <2>1. CASE OpenTarget(Script)
    BY <1>1, <2>1 DEF OpenTarget, Goto, CInv, TypeOK, ScriptPC, Filling
  <2>2. CASE ~OpenTarget(Script)
    <3>1. pc'[Script] # "fill"
      BY <1>1, <1>3, <2>2 DEF ScriptStep, List, Test, NewHash, OldHash, RemoveOld, RemoveNew,
         Copy, OpenSource, Fill, Goto, CInv, TypeOK
    <3> QED
      BY <3>1 DEF Filling
  <2> QED
    BY <2>1, <2>2
<1>4. ASSUME NEW p \in Procs, CopyFails(p) \/ Kill(p) PROVE Filling'
  BY <1>1, <1>4 DEF CopyFails, Kill, Leave, Goto, CInv, TypeOK, Filling
<1>5. CASE UNCHANGED vars
  BY <1>5 DEF vars, Filling
<1> QED
  BY <1>2, <1>3, <1>4, <1>5 DEF Next

\* Each step of the script, from what it knows of the file at its place.
LEMMA StepAdvances ==
  ASSUME CInv, Filling, ScriptStep, archived
  PROVE  ToGo' < ToGo
<1>1. Script \in Procs /\ Script # Nobody
  BY CacheMoveAssumption DEF Procs
<1>2. ASSUME NEW from, NEW to, Goto(Script, from, to)
      PROVE  pc[Script] = from /\ pc'[Script] = to
  BY <1>1, <1>2 DEF Goto, CInv, TypeOK
<1>3. CASE List
  <2>1. pc[Script] = "idle" /\ pc'[Script] = "test"
    BY <1>2, <1>3 DEF List
  <2> QED
    BY <1>3, <2>1 DEF List, ToGo, primary
<1>4. CASE Test
  <2>1. pc[Script] = "test" /\ IF there THEN pc'[Script] = "nhash" ELSE pc'[Script] = "cp"
    BY <1>2, <1>4 DEF Test
  <2> QED
    BY <1>4, <2>1 DEF Test, ToGo, primary
<1>5. CASE NewHash
  <2>1. pc[Script] = "nhash" /\ pc'[Script] = "ohash" /\ there
    BY <1>2, <1>5 DEF NewHash, CInv, Compared
  <2>2. archived' = archived /\ (torn = Nobody => alike')
    BY <1>5 DEF NewHash
  <2>3. ToGo = (IF torn # Nobody THEN 15 ELSE 5) - 2
    BY <2>1 DEF ToGo
  <2>4. ToGo' = IF alike' THEN 2 ELSE 12
    BY <2>1, <2>2 DEF ToGo
  <2> QED
    BY <2>2, <2>3, <2>4
<1>6. CASE OldHash
  <2>1. pc[Script] = "ohash" /\ IF alike THEN pc'[Script] = "rmold" ELSE pc'[Script] = "rmnew"
    BY <1>2, <1>6 DEF OldHash
  <2> QED
    BY <1>6, <2>1 DEF OldHash, ToGo
<1>7. CASE RemoveOld
  <2>1. pc[Script] = "rmold"
    BY <1>2, <1>7 DEF RemoveOld
  <2> QED
    BY <1>7, <2>1 DEF RemoveOld, ToGo
<1>8. CASE RemoveNew
  <2>1. pc[Script] = "rmnew" /\ pc'[Script] = "idle"
    BY <1>2, <1>8 DEF RemoveNew
  <2> QED
    BY <1>8, <2>1 DEF RemoveNew, ToGo
<1>9. CASE OpenSource(Script)
  <2>1. pc[Script] = "cp" /\ pc'[Script] = "opened"
    BY <1>2, <1>9 DEF OpenSource, CInv, ScriptPC
  <2> QED
    BY <1>9, <2>1 DEF OpenSource, ToGo, primary
<1>10. CASE OpenTarget(Script)
  <2>1. CASE /\ Goto(Script, "opened", "fill") \/ Goto(Script, "built", "store")
             /\ there' = TRUE /\ torn' = Script
    <3>1. pc[Script] = "opened" /\ pc'[Script] = "fill"
      BY <1>2, <1>10, <2>1 DEF OpenTarget, CInv, ScriptPC, TypeOK
    <3> QED
      BY <1>10, <2>1, <3>1 DEF OpenTarget, ToGo
  <2>2. CASE there /\ Goto(Script, "opened", "idle") /\ UNCHANGED primary
    <3>1. pc[Script] = "opened" /\ pc'[Script] = "idle"
      BY <1>2, <2>2
    <3> QED
      BY <1>10, <2>2, <3>1 DEF OpenTarget, ToGo, primary
  <2> QED
    BY <1>10, <2>1, <2>2 DEF OpenTarget
<1>11. CASE Fill(Script)
  <2>1. pc[Script] = "fill" /\ pc'[Script] = "idle"
    BY <1>2, <1>11 DEF Fill, CInv, ScriptPC
  <2>2. there /\ Script \in writers
    BY <2>1 DEF Filling
  <2> QED
    BY <1>1, <1>11, <2>1, <2>2 DEF Fill, ToGo
<1> QED
  BY <1>3, <1>4, <1>5, <1>6, <1>7, <1>8, <1>9, <1>10, <1>11 DEF ScriptStep, Copy

\* move_cache.sh comes nearer to an empty archive with each of its steps, whatever
\* files it meets.
THEOREM CacheMoveAdvances == Spec => ScriptAdvances
<1>1. Init => Filling
  BY CacheMoveAssumption DEF Init, Filling, Procs
<1>2. CInv /\ Filling => [ScriptStep /\ archived => ToGo' < ToGo]_vars
  BY StepAdvances
<1> QED
  BY <1>1, <1>2, CacheMoveInvariant, NextFilling, PTL DEF Spec, ScriptAdvances
=============================================================================
