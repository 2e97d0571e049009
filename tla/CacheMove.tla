------------------------------- MODULE CacheMove -------------------------------
(***************************************************************************)
(* One archived export, move_cache.sh, which moves the archive to the      *)
(* primary cache, and the requests that do the same to what they need      *)
(* (find_existing_export) or make it anew (finalize_export).               *)
(*                                                                         *)
(* The caches are on two file systems: cp and shutil.move open the target, *)
(* which truncates it, and fill it.  The script also removes from the      *)
(* primary cache; who has such a file open goes on writing, to a file      *)
(* without a name.                                                         *)
(***************************************************************************)
EXTENDS Integers

CONSTANTS
  Requests,     \* threads of the service
  Script,       \* the process that runs move_cache.sh
  Nobody,
  MaxRequests,  \* bound: moves and builds
  MaxFaults     \* bound: processes killed, and copies that fail

ASSUME CacheMoveAssumption ==
  /\ Script \notin Requests /\ Nobody \notin Requests \cup {Script}
  /\ MaxRequests \in Nat /\ MaxFaults \in Nat

Procs == Requests \cup {Script}

VARIABLES
  archived,   \* the archive has the file
  there,      \* the primary cache has its name
  writers,    \* who has the file of this name open
  torn,       \* who truncated that file last and has not filled it, or Nobody
  left,       \* history: that one was killed, or its copy failed
  pc,
  alike,      \* the script: what nhash tells, that the primary file is whole
  mover,      \* history: who removed the archive's file
  requests, faults

vars == <<archived, there, writers, torn, left, pc, alike, mover, requests, faults>>

primary == <<there, writers, torn, left>>
counts == <<requests, faults>>

PC == {"idle", "archive", "move", "built", "opened", "fill", "store", "unlink",
       "test", "nhash", "ohash", "cp", "rmold", "rmnew"}

Init ==
  /\ archived = TRUE
  /\ there = FALSE /\ writers = {} /\ torn = Nobody /\ left = FALSE
  /\ pc = [p \in Procs |-> "idle"]
  /\ alike = FALSE
  /\ mover = Nobody
  /\ requests = 0 /\ faults = 0

Goto(p, from, to) == pc[p] = from /\ pc' = [pc EXCEPT ![p] = to]
-----------------------------------------------------------------------------
(* A request. *)

\* find_existing_export: not fname.is_file(); or a build whose result is in tmp.
Begin(r) ==
  /\ requests < MaxRequests
  /\ requests' = requests + 1
  /\ \/ ~there /\ Goto(r, "idle", "archive")
     \/ Goto(r, "idle", "built")
  /\ UNCHANGED <<archived, primary, alike, mover, faults>>

\* sfname.is_file()
LookInArchive(r) ==
  /\ \/ archived /\ Goto(r, "archive", "move")
     \/ ~archived /\ Goto(r, "archive", "idle")
  /\ UNCHANGED <<archived, primary, alike, mover, counts>>

\* os.unlink after the copy, which raises if the file is gone by now.
Unlink(r) ==
  /\ Goto(r, "unlink", "idle")
  /\ archived' = FALSE
  /\ mover' = IF archived THEN r ELSE mover
  /\ UNCHANGED <<primary, alike, counts>>
-----------------------------------------------------------------------------
(* Copies, of requests and of cp. *)

\* Mutant: cat old > new, of which the shell opens the target first.
OpenSourceLast(p) ==
  /\ \E from \in {"move", "cp"} :
       \/ archived /\ Goto(p, from, "opened") /\ UNCHANGED primary
       \/ /\ ~archived /\ Goto(p, from, "idle")
          /\ there' = TRUE /\ torn' = p /\ left' = FALSE /\ UNCHANGED writers
  /\ UNCHANGED <<archived, alike, mover, counts>>

\* Without a source both raise, and leave the target alone.
OpenSource(p) ==
  /\ \E from \in {"move", "cp"} :
       \/ archived /\ Goto(p, from, "opened")
       \/ ~archived /\ Goto(p, from, "idle")
  /\ UNCHANGED <<archived, primary, alike, mover, counts>>

\* A file that appears behind cp's back may make it fail.
OpenTarget(p) ==
  /\ \/ /\ Goto(p, "opened", "fill") \/ Goto(p, "built", "store")
        /\ there' = TRUE
        /\ writers' = writers \cup {p}
        /\ torn' = p /\ left' = FALSE
     \/ /\ p = Script /\ there /\ Goto(p, "opened", "idle")
        /\ UNCHANGED primary
  /\ UNCHANGED <<archived, alike, mover, counts>>

Fill(p) ==
  /\ \/ Goto(p, "fill", IF p = Script THEN "idle" ELSE "unlink")
     \/ Goto(p, "store", "idle")
  /\ writers' = writers \ {p}
  /\ torn' = IF torn = p /\ p \in writers THEN Nobody ELSE torn
  /\ UNCHANGED <<archived, there, left, alike, mover, counts>>
-----------------------------------------------------------------------------
(* move_cache.sh, from file to file and run again until the archive is empty. *)

\* find lists the file; its turn comes later.
List ==
  /\ archived
  /\ Goto(Script, "idle", "test")
  /\ UNCHANGED <<archived, primary, alike, mover, counts>>

\* [[ -f new ]]
Test ==
  /\ \/ there /\ Goto(Script, "test", "nhash")
     \/ ~there /\ Goto(Script, "test", "cp")
  /\ UNCHANGED <<archived, primary, alike, mover, counts>>

NewHash ==
  /\ Goto(Script, "nhash", "ohash")
  /\ alike' = (torn = Nobody)
  /\ UNCHANGED <<archived, primary, mover, counts>>

\* Mutant: names are compared.
OldHashNot ==
  /\ Goto(Script, "ohash", "rmold")
  /\ alike' = FALSE
  /\ UNCHANGED <<archived, primary, mover, counts>>

\* Of a file that is gone md5sum | cut gives "", and succeeds: a mismatch.
OldHash ==
  /\ \/ archived /\ alike /\ Goto(Script, "ohash", "rmold")
     \/ ~(archived /\ alike) /\ Goto(Script, "ohash", "rmnew")
  /\ alike' = FALSE
  /\ UNCHANGED <<archived, primary, mover, counts>>

\* rm fails if the file is gone by now.
RemoveOld ==
  /\ Goto(Script, "rmold", "idle")
  /\ archived' = FALSE
  /\ mover' = IF archived THEN Script ELSE mover
  /\ UNCHANGED <<primary, alike, counts>>

\* Mutant: a mismatch is only reported.
RemoveNewNot ==
  /\ Goto(Script, "rmnew", "idle")
  /\ UNCHANGED <<archived, primary, alike, mover, counts>>

\* Mutant: who writes goes on under the old name.
RemoveNewOpen ==
  /\ Goto(Script, "rmnew", "idle")
  /\ there' = FALSE
  /\ UNCHANGED <<archived, writers, torn, left, alike, mover, counts>>

RemoveNew ==
  /\ Goto(Script, "rmnew", "idle")
  /\ there' = FALSE /\ writers' = {} /\ torn' = Nobody /\ left' = FALSE
  /\ UNCHANGED <<archived, alike, mover, counts>>
-----------------------------------------------------------------------------
(* What ends a copy half way. *)

\* p closes the file, filled or not.
Leave(p) ==
  /\ faults < MaxFaults
  /\ faults' = faults + 1
  /\ writers' = writers \ {p}
  /\ left' = (left \/ (torn = p /\ p \in writers))
  /\ UNCHANGED <<archived, there, torn, mover, requests>>

\* A full disk.  cp ends the run of the script (set -e), finalize_export the request;
\* find_existing_export goes on, with the half file, and leaves the archived one.
CopyFails(p) ==
  /\ Goto(p, "fill", "idle") \/ Goto(p, "store", "idle")
  /\ Leave(p)
  /\ UNCHANGED alike

Kill(p) ==
  /\ pc[p] # "idle" /\ pc' = [pc EXCEPT ![p] = "idle"]
  /\ Leave(p)
  /\ alike' = (alike /\ p # Script)

Copy(p) == OpenSource(p) \/ OpenTarget(p) \/ Fill(p)

RequestStep(r) == Begin(r) \/ LookInArchive(r) \/ Copy(r) \/ Unlink(r)

ScriptStep == List \/ Test \/ NewHash \/ OldHash \/ RemoveOld \/ RemoveNew \/ Copy(Script)

Next ==
  \/ ScriptStep
  \/ \E r \in Requests : RequestStep(r)
  \/ \E p \in Procs : CopyFails(p) \/ Kill(p)

Spec == Init /\ [][Next]_vars
-----------------------------------------------------------------------------
(* Properties *)

\* Every variable stays in its set; no file is open that is not there.
TypeOK ==
  /\ archived \in BOOLEAN /\ there \in BOOLEAN /\ alike \in BOOLEAN
  /\ writers \subseteq Procs /\ (~there => writers = {} /\ torn = Nobody)
  /\ torn \in Procs \cup {Nobody} /\ left \in BOOLEAN /\ mover \in Procs \cup {Nobody}
  /\ pc \in [Procs -> PC]
  /\ requests \in 0 .. MaxRequests /\ faults \in 0 .. MaxFaults

\* What the script takes out of the archive stays in the primary cache, and is not the
\* half file of a run of its own that was interrupted, or is at work.  (The same cannot
\* be said of a file that a request moves: see RemoveNew after Unlink, with nothing left
\* in the archive.  And requests may have begun to overwrite it since it was compared.)
ScriptKeeps == mover = Script => there /\ torn # Script

\* A half file of the primary cache that nobody is writing was left so by a copy that
\* failed or was killed, after it was the last to truncate the file: what such a copy
\* leaves is made whole by the next to write it, and those that overtake each other, or
\* whose file the script removes and others make anew, leave a whole one.
UnwrittenIsWhole == torn # Nobody => torn \in writers \/ left

\* The steps that move_cache.sh, left alone, still needs: five to compare with a whole
\* file and remove the archived one, five before to copy it, five before these to find
\* and remove a half one.
ToGo ==
  LET half == there /\ torn # Nobody
      passes == IF half THEN 15 ELSE IF there THEN 5 ELSE 10
      s == pc[Script]
  IN  IF ~archived THEN 0 ELSE
      CASE s = "idle" -> passes
        [] s = "test" -> passes - 1
        [] s = "nhash" -> passes - 2
        [] s = "ohash" -> IF alike THEN 2 ELSE 12
        [] s = "rmold" -> 1
        [] s = "rmnew" -> 11
        [] s = "cp" -> IF half THEN 17 ELSE 8
        [] s = "opened" -> IF half THEN 16 ELSE 7
        [] s = "fill" -> IF torn = Script THEN 6 ELSE 16

\* Each step of the script, run after run, brings the archive nearer to being empty,
\* whatever file interrupted copies, its own or of requests, and those at work have left
\* or put in its way since it last looked; a cp of its own that fails is no such step.
ScriptAdvances == [][ScriptStep /\ archived => ToGo' < ToGo]_vars
=============================================================================
