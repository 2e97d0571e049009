---------------------------- MODULE ExportFileProofs ----------------------------
(* What ExportCache's tables, files and links owe each other, and who writes them. *)
EXTENDS ExportCacheProofs
-----------------------------------------------------------------------------
(* On disk. *)

OnDisk == primary \cup secondary

\* What the files p in the primary, the files d in both caches and the links i
\* given out mean for a worker's local state.
ThreadOK(s, j, r, p, d, i) ==
  /\ s \in {"stamp", "insert"} => j.name \in d
  /\ s = "copy" => j.name \in p
  /\ s = "send" => j.h \in p
  /\ j.h \in i \cup {None}
  /\ j.h # None => Serving(s, j) \/ s = "done"
  /\ s = "done" /\ j.h # None => r.kind \in {"file", "error"}

Named ==
  /\ \A r \in exportLog : r.hash \in OnDisk
  /\ \A t \in ETypes : latest[t] \in OnDisk \cup {None, Failed}
  /\ Archived \subseteq issued /\ issued \subseteq OnDisk

Shelf ==
  /\ Named
  /\ \A w \in Workers : ThreadOK(pc[w], job[w], reply[w], primary, OnDisk, issued)

\* No file leaves the primary cache, or both.
Grows == primary \subseteq primary' /\ OnDisk \subseteq OnDisk'

\* More files and links are never wrong.
LEMMA ThreadGrows ==
  ASSUME NEW s, NEW j, NEW r, NEW p, NEW d, NEW i, NEW p2, NEW d2, NEW i2,
         p \subseteq p2, d \subseteq d2, i \subseteq i2,
         ThreadOK(s, j, r, p, d, i)
  PROVE  ThreadOK(s, j, r, p2, d2, i2)
BY DEF ThreadOK

\* A worker's step keeps Shelf if its new local state is sound.
LEMMA ShelfStep ==
  ASSUME IInv, Shelf, Grows, NEW w \in Workers, NEW s, NEW j, NEW r,
         pc' = [pc EXCEPT ![w] = s], job' = [job EXCEPT ![w] = j],
         reply' = [reply EXCEPT ![w] = r],
         issued \subseteq issued', Named',
         ThreadOK(s, j, r, primary', OnDisk', issued')
  PROVE  Shelf'
<1>1. /\ pc \in [Workers -> PC] /\ job \in [Workers -> Job]
      /\ reply \in [Workers -> Reply]
  BY DEF IInv, Control
<1>2. \A v \in Workers :
        ThreadOK(pc[v], job[v], reply[v], primary', OnDisk', issued')
  BY ThreadGrows DEF Shelf, Grows
<1>3. \A v \in Workers :
        ThreadOK(pc'[v], job'[v], reply'[v], primary', OnDisk', issued')
  BY <1>1, <1>2
<1> QED
  BY <1>3 DEF Shelf

\* What is named stays on disk when no table changes.
LEMMA NamedStays ==
  ASSUME Shelf, Grows, UNCHANGED <<exportLog, latest, issued>>
  PROVE  Named'
BY DEF Shelf, Named, Grows, OnDisk

\* Going on to s with locals j.
LEMMA ShelfGoto ==
  ASSUME IInv, Shelf, Grows, exportLog' = exportLog, NEW w \in Workers,
         NEW s, NEW j, Goto(w, s, j),
         s # "done", ThreadOK(s, j, NoReply, primary', OnDisk', issued)
  PROVE  Shelf'
<1>1. pc' = [pc EXCEPT ![w] = s] /\ job' = [job EXCEPT ![w] = j]
      /\ latest' = latest /\ issued' = issued /\ reply' = reply
  BY DEF Goto
<1>2. reply' = [reply EXCEPT ![w] = reply[w]]
  BY <1>1 DEF IInv, Control
<1>3. ThreadOK(s, j, reply[w], primary', OnDisk', issued')
  BY <1>1 DEF ThreadOK
<1>4. Named'
  BY <1>1, NamedStays
<1> QED
  BY <1>1, <1>2, <1>3, <1>4, ShelfStep

\* Ending with r, which a link with a hash allows.
LEMMA ShelfFinish ==
  ASSUME IInv, Shelf, Grows, NEW w \in Workers, NEW r, Finish(w, r),
         issued \subseteq issued', Named',
         job[w].h = None \/ r.kind \in {"file", "error"}
  PROVE  Shelf'
<1>1. /\ pc' = [pc EXCEPT ![w] = "done"] /\ job' = [job EXCEPT ![w] = Ended(job[w])]
      /\ reply' = [reply EXCEPT ![w] = r]
  BY DEF Finish
<1>2. Ended(job[w]).h = job[w].h
  BY EndedIs DEF IInv, Control
<1>3. ThreadOK("done", Ended(job[w]), r, primary', OnDisk', issued')
  BY <1>2 DEF Shelf, ThreadOK
<1> QED
  BY <1>1, <1>3, ShelfStep

\* An error, logged or not.
LEMMA ShelfError ==
  ASSUME IInv, Shelf, Grows, exportLog' = exportLog, NEW w \in Workers,
         Abort(w) \/ ExportFailed(w)
  PROVE  Shelf'
<1>1. Says("error", None, FALSE, TRUE).kind = "error"
  BY DEF Says
<1>2. issued' = issued /\ Finish(w, Says("error", None, FALSE, TRUE))
  BY DEF Abort, ExportFailed
<1>3. \A t \in ETypes : latest'[t] \in {latest[t], Failed}
  BY DEF Abort, ExportFailed, LogExport, IInv, Control
<1>4. Named'
  BY <1>2, <1>3 DEF Shelf, Named, Grows, OnDisk
<1> QED
  BY <1>1, <1>2, <1>4, ShelfFinish

\* Answering with a file that is there.
LEMMA ShelfAnswer ==
  ASSUME IInv, Shelf, Grows, NEW w \in Workers, NEW n, NEW noted, Answer(w, n, noted),
         n \in OnDisk', job[w].h = None, \A r \in exportLog' : r.hash \in OnDisk'
  PROVE  Shelf'
<1>1. latest' = [latest EXCEPT ![job[w].etype] = n] /\ issued' = issued \cup {n}
  BY DEF Answer, LogExport
<1>2. \A t \in ETypes : latest'[t] \in {latest[t], n}
  BY <1>1 DEF IInv, Control
<1>3. Named'
  BY <1>1, <1>2 DEF Shelf, Named, Grows, OnDisk
<1>4. CASE Finish(w, Says("export", n, noted, TRUE))
  BY <1>1, <1>3, <1>4, ShelfFinish
<1>5. CASE /\ pc' = [pc EXCEPT ![w] = ToServe(job[w].h)]
           /\ job' = [job EXCEPT ![w] = Link(job[w].etype, job[w].h)]
           /\ UNCHANGED reply
  <2>1. ToServe(job[w].h) = "latest" /\ job[w] \in Job
    BY DEF ToServe, IInv, Control
  <2>2. Link(job[w].etype, job[w].h).h = None
    BY DEF Link, NoJob
  <2>3. ThreadOK("latest", Link(job[w].etype, job[w].h), reply[w],
                 primary', OnDisk', issued')
    BY <2>2 DEF ThreadOK
  <2>4. reply' = [reply EXCEPT ![w] = reply[w]]
    BY <1>5 DEF IInv, Control
  <2> QED
    BY <1>1, <1>3, <1>5, <2>1, <2>3, <2>4, ShelfStep
<1> QED
  BY <1>4, <1>5 DEF Answer

\* Inside ensure_export there is no hash to serve.
LEMMA NoHash ==
  ASSUME Shelf, NEW w \in Workers, pc[w] # "done", ~Serving(pc[w], job[w])
  PROVE  job[w].h = None
BY DEF Shelf, ThreadOK

\* Going on to s with locals that have no hash and, unless s stores, anything else.
LEMMA ShelfEnsure ==
  ASSUME IInv, Shelf, Grows, exportLog' = exportLog, NEW w \in Workers,
         NEW s \in PC \ {"done", "send", "copy", "stamp", "insert"}, NEW j,
         j.h = None, Goto(w, s, j)
  PROVE  Shelf'
<1>1. ThreadOK(s, j, NoReply, primary', OnDisk', issued)
  BY DEF ThreadOK
<1> QED
  BY <1>1, ShelfGoto

\* No existing export.
LEMMA ShelfMissed ==
  ASSUME IInv, Shelf, Grows, exportLog' = exportLog, NEW w \in Workers,
         job[w].h = None, Missed(w)
  PROVE  Shelf'
<1>1. ASSUME NEW s \in {"make", "fetch"}, NEW j, j.h = None, Goto(w, s, j)
      PROVE  Shelf'
  BY <1>1, ShelfEnsure DEF PC
<1>2. job[w] \in Job
  BY DEF IInv, Control
<1>3. /\ [job[w] EXCEPT !.name = None, !.ver = 0].h = None
      /\ [job[w] EXCEPT !.name = None, !.ver = 0, !.note = FALSE,
                        !.seek = "epub", !.epub = None].h = None
  BY <1>2 DEF Job
<1> QED
  BY <1>1, <1>3 DEF Missed

\* The export version is read, and a row looked for.
LEMMA ShelfSeek ==
  ASSUME IInv, Shelf, Grows, exportLog' = exportLog, NEW w \in Workers,
         NEW s, NEW j \in Job, j.h = None, Seek(w, s, j)
  PROVE  Shelf'
<1>1. Sought(s, j).h = None
  BY DEF Sought, Job
<1> QED
  BY <1>1, ShelfEnsure DEF Seek, PC

\* A file is on its way into the primary cache.
LEMMA ShelfStore ==
  ASSUME IInv, Shelf, Grows, exportLog' = exportLog, NEW w \in Workers,
         NEW via, NEW n, NEW j \in Job, j.h = None, Store(w, via, n, j)
  PROVE  Shelf'
<1> DEFINE k == [j EXCEPT !.name = n, !.via = via]
           s == IF n.etype \in dirs THEN "move" ELSE "mkdir"
<1>1. k.h = None
  BY DEF Job
<1>2. Goto(w, s, k) /\ s \in PC \ {"done", "send", "copy", "stamp", "insert"}
  BY DEF Store, PC
<1> HIDE DEF s, k
<1> QED
  BY <1>1, <1>2, ShelfEnsure

\* The file found is there.
LEMMA ShelfFound ==
  ASSUME IInv, Shelf, Grows, exportLog' = exportLog, NEW w \in Workers,
         Finding(pc[w], job[w]), job[w].name \in primary', Found(w)
  PROVE  Shelf'
<1>1. job[w].h = None
  BY NoHash DEF Finding, Serving, Moving
<1>2. job[w].name \in OnDisk' /\ \A r \in exportLog' : r.hash \in OnDisk'
  BY DEF Shelf, Named, Grows, OnDisk
<1>3. job[w] \in Job /\ job[w].name \in Name
  BY DEF IInv, Control, LocalOK
<1>4. CASE Seek(w, "derived", [job[w] EXCEPT !.epub = job[w].name])
  <2>1. /\ [job[w] EXCEPT !.epub = job[w].name] \in Job
        /\ [job[w] EXCEPT !.epub = job[w].name].h = None
    BY <1>1, <1>3 DEF Job
  <2> QED
    BY <1>4, <2>1, ShelfSeek
<1>5. CASE \E noted \in BOOLEAN : Answer(w, job[w].name, noted)
  BY <1>1, <1>2, <1>5, ShelfAnswer
<1>6. job[w].note \in BOOLEAN
  BY <1>3 DEF Job
<1> QED
  BY <1>4, <1>5, <1>6 DEF Found

\* What follows a directory or a move that fails ...
LEMMA ShelfGiveUp ==
  ASSUME IInv, Shelf, Grows, exportLog' = exportLog, NEW w \in Workers,
         pc[w] \in Moving, GiveUp(w)
  PROVE  Shelf'
<1>1. CASE job[w].via = "find" /\ Missed(w)
  <2>1. job[w].h = None
    BY <1>1, NoHash DEF Serving, Moving
  <2> QED
    BY <1>1, <2>1, ShelfMissed
<1> QED
  BY <1>1, ShelfError DEF GiveUp

\* ... or fails with the file there ...
LEMMA ShelfMoveFailed ==
  ASSUME IInv, Shelf, Grows, exportLog' = exportLog, NEW w \in Workers,
         pc[w] \in Moving, MoveFailed(w)
  PROVE  Shelf'
<1>1. CASE job[w].via = "find" /\ job[w].name \in primary /\ Found(w)
  BY <1>1, ShelfFound DEF Finding, Grows
<1> QED
  BY <1>1, ShelfGiveUp DEF MoveFailed

\* ... or succeeds.
LEMMA ShelfMoveDone ==
  ASSUME IInv, Shelf, Grows, exportLog' = exportLog, NEW w \in Workers,
         pc[w] \in Moving, job[w].name \in primary', MoveDone(w)
  PROVE  Shelf'
<1>1. CASE job[w].via = "find" /\ Found(w)
  BY <1>1, ShelfFound DEF Finding
<1>2. job[w].h \in issued \cup {None}
  BY DEF Shelf, ThreadOK
<1>3. CASE job[w].via = "publish" /\ Goto(w, "stamp", job[w])
  <2>1. job[w].h = None
    BY <1>3, NoHash DEF Serving, Moving
  <2>2. ThreadOK("stamp", job[w], NoReply, primary', OnDisk', issued)
    BY <2>1 DEF ThreadOK, OnDisk
  <2> QED
    BY <1>3, <2>2, ShelfGoto
<1>4. CASE job[w].via = "serve" /\ Goto(w, "send", job[w])
  <2>1. job[w].name = job[w].h
    BY <1>4 DEF IInv, Control, LocalOK
  <2>2. ThreadOK("send", job[w], NoReply, primary', OnDisk', issued)
    BY <1>2, <2>1 DEF ThreadOK, Serving
  <2> QED
    BY <1>4, <2>2, ShelfGoto
<1> QED
  BY <1>1, <1>3, <1>4 DEF MoveDone
-----------------------------------------------------------------------------
(* The steps. *)

\* The invariant holds of an archive and idle workers.
LEMMA InitShelf == Init => Shelf
<1> SUFFICES ASSUME Init PROVE Shelf
  OBVIOUS
<1>1. secondary = Archived /\ issued = Archived /\ OnDisk = Archived
  BY DEF Init, OnDisk
<1>2. \A r \in exportLog : r.hash \in Archived
  BY DEF Init, ArchivedRow
<1>3. \A t \in ETypes : latest[t] \in Archived \cup {None, Failed}
  <2>1. SUFFICES ASSUME NEW t \in ETypes PROVE latest[t] \in Archived \cup {None}
    OBVIOUS
  <2>2. latest[t] = IF \E n \in Archived : n.etype = t
                    THEN CHOOSE n \in Archived : n.etype = t ELSE None
    BY DEF Init
  <2> QED
    BY <2>2
<1>4. Named
  BY <1>1, <1>2, <1>3 DEF Named
<1>5. \A w \in Workers : pc[w] = "idle" /\ job[w].h = None
  BY DEF Init, NoJob
<1> QED
  BY <1>4, <1>5 DEF Shelf, ThreadOK

\* A step that leaves disk and tables alone.
LEMMA Unmoved ==
  ASSUME Shelf, UNCHANGED <<exports, disk>>
  PROVE  Grows /\ exportLog' = exportLog
BY DEF Grows, OnDisk, exports, disk

\* A link is given a hash that was issued.
LEMMA ShelfBegin ==
  ASSUME IInv, Shelf, NEW w \in Workers, NEW s \in {"lookup", "serve", "latest"}, NEW j,
         j.h \in issued \cup {None}, j.h # None => s = "serve",
         Begin(w, s, j)
  PROVE  Shelf'
<1>1. Grows /\ exportLog' = exportLog
  BY Unmoved DEF Begin
<1>2. pc' = [pc EXCEPT ![w] = s] /\ job' = [job EXCEPT ![w] = j]
      /\ latest' = latest /\ issued' = issued /\ reply' = reply
  BY DEF Begin
<1>3. reply' = [reply EXCEPT ![w] = reply[w]]
  BY <1>2 DEF IInv, Control
<1>4. ThreadOK(s, j, reply[w], primary', OnDisk', issued')
  BY <1>2 DEF ThreadOK, Serving
<1>5. Named'
  BY <1>1, <1>2, NamedStays
<1> QED
  BY <1>1, <1>2, <1>3, <1>4, <1>5, ShelfStep

\* The requests.
LEMMA ShelfRequest ==
  ASSUME IInv, Shelf, NEW w \in Workers, Request(w)
  PROVE  Shelf'
<1>1. NoJob.h = None /\ \A t, h : Link(t, h).h = h
  BY DEF NoJob, Link
<1>2. CASE RequestEpub(w)
  BY <1>1, <1>2, ShelfBegin DEF RequestEpub
<1>3. CASE RequestPartial(w)
  <2>1. PICK t \in ETypes : Begin(w, "lookup", Link(t, None))
    BY <1>3 DEF RequestPartial
  <2> QED
    BY <1>1, <2>1, ShelfBegin
<1>4. CASE RequestFile(w)
  <2>1. PICK t \in ETypes, h \in issued \cup {None} : Begin(w, ToServe(h), Link(t, h))
    BY <1>4 DEF RequestFile
  <2>2. ToServe(h) \in {"serve", "latest"} /\ (h # None => ToServe(h) = "serve")
    BY DEF ToServe
  <2> QED
    BY <1>1, <2>1, <2>2, ShelfBegin
<1> QED
  BY <1>2, <1>3, <1>4 DEF Request

\* The metadata and the search.
LEMMA ShelfSearch ==
  ASSUME IInv, Shelf, NEW w \in Workers,
         \/ LookUp(w) \/ LookUpDead(w) \/ LookUpFails(w) \/ SaveInfo(w)
         \/ FindRow(w) \/ FindFile(w) \/ FindFails(w)
  PROVE  Shelf'
<1>1. Grows /\ exportLog' = exportLog
  BY Unmoved DEF LookUp, LookUpDead, LookUpFails, SaveInfo, FindRow, FindFile, FindFails
<1>2. pc[w] \in {"lookup", "save", "row", "check"}
  BY DEF LookUp, LookUpDead, LookUpFails, SaveInfo, FindRow, FindFile, FindFails
<1>3. job[w].h = None
  BY <1>2, NoHash DEF Serving, Moving
<1>4. job[w] \in Job /\ LocalOK(pc[w], job[w], since[w].content)
  BY DEF IInv, Control
<1>5. ASSUME NEW m \in Content, NEW noted \in BOOLEAN, Reuse(w, m, noted)
      PROVE  Shelf'
  <2> DEFINE j == [job[w] EXCEPT !.meta = m, !.note = noted]
             k == [j EXCEPT !.note = FALSE]
  <2>1. j \in Job /\ j.h = None /\ k.h = None
    BY <1>3, <1>4 DEF Job
  <2>2. Seek(w, "epub", j) \/ Goto(w, "fetch", k)
    BY <1>5 DEF Reuse
  <2> HIDE DEF j, k
  <2> QED
    BY <1>1, <2>1, <2>2, ShelfSeek, ShelfEnsure DEF PC
<1>6. CASE LookUp(w)
  <2>1. [job[w] EXCEPT !.meta = content, !.note = FALSE].h = None
    BY <1>3, <1>4 DEF Job
  <2> QED
    BY <1>1, <1>6, <2>1, ShelfEnsure DEF LookUp, PC
<1>7. CASE LookUpDead(w)
  <2>1. ficInfo \in Content /\ Reuse(w, ficInfo, TRUE)
    BY <1>7 DEF LookUpDead, IInv, World
  <2> QED
    BY <1>5, <2>1
<1>8. CASE LookUpFails(w)
  BY <1>1, <1>8, ShelfError DEF LookUpFails
<1>9. CASE SaveInfo(w)
  <2>1. job[w].meta \in Content /\ Reuse(w, job[w].meta, FALSE)
    BY <1>4, <1>9 DEF SaveInfo, LocalOK, Ensuring
  <2> QED
    BY <1>5, <2>1
<1>10. CASE Missed(w)
  BY <1>1, <1>3, <1>10, ShelfMissed
<1>11. CASE FindRow(w) /\ ~Missed(w)
  <2>1. PICK r \in RowsAt(job[w].ver, SoughtType(job[w]), SoughtHash(job[w])) :
          Goto(w, "check", [job[w] EXCEPT !.name = r.hash, !.ver = 0])
    BY <1>11 DEF FindRow
  <2>2. [job[w] EXCEPT !.name = r.hash, !.ver = 0].h = None
    BY <1>3, <1>4 DEF Job
  <2> QED
    BY <1>1, <2>1, <2>2, ShelfEnsure DEF PC
<1>12. CASE FindFile(w) /\ ~Missed(w)
  <2>1. CASE job[w].name \in primary /\ Found(w)
    BY <1>1, <1>12, <2>1, ShelfFound DEF FindFile, Finding, Grows
  <2>2. CASE Store(w, "find", job[w].name, job[w])
    BY <1>1, <1>3, <1>4, <2>2, ShelfStore
  <2> QED
    BY <1>12, <2>1, <2>2 DEF FindFile
<1> QED
  BY <1>6, <1>7, <1>8, <1>9, <1>10, <1>11, <1>12 DEF FindFails

\* The moves: the name is in the primary before it leaves the secondary.
LEMMA ShelfMove ==
  ASSUME IInv, Shelf, NEW w \in Workers,
         \/ MakeDir(w) \/ MakeDirFails(w)
         \/ Rename(w) \/ OpenCopy(w) \/ CloseCopy(w) \/ CopyFails(w) \/ SourceGone(w)
  PROVE  Shelf'
<1>1. pc[w] \in Moving
  BY DEF Moving, MakeDir, MakeDirFails, Rename, OpenCopy, CloseCopy, CopyFails, SourceGone
<1>2. job[w].h \in issued \cup {None} /\ (job[w].h # None => job[w].via = "serve")
  BY <1>1 DEF Shelf, ThreadOK, Serving, Moving
<1>3. exportLog' = exportLog
  BY DEF MakeDir, MakeDirFails, Rename, OpenCopy, CloseCopy, CopyFails, SourceGone,
     exports, disk
<1>4. CASE MakeDir(w)
  <2>1. Grows
    BY <1>4 DEF MakeDir, Grows, OnDisk
  <2>2. ThreadOK("move", job[w], NoReply, primary', OnDisk', issued)
    BY <1>2 DEF ThreadOK, Serving, Moving
  <2> QED
    BY <1>3, <1>4, <2>1, <2>2, ShelfGoto DEF MakeDir
<1>5. CASE MakeDirFails(w)
  BY <1>1, <1>5, Unmoved, ShelfGiveUp DEF MakeDirFails
<1>6. CASE SourceGone(w)
  BY <1>1, <1>6, Unmoved, ShelfMoveFailed DEF SourceGone
<1>7. CASE Rename(w)
  <2>1. Grows /\ job[w].name \in primary'
    BY <1>7 DEF Rename, Grows, OnDisk, WithoutSource
  <2> QED
    BY <1>1, <1>3, <1>7, <2>1, ShelfMoveDone DEF Rename
<1>8. CASE OpenCopy(w)
  <2>1. Grows /\ job[w].name \in primary'
    BY <1>8 DEF OpenCopy, Grows, OnDisk
  <2>2. ThreadOK("copy", job[w], NoReply, primary', OnDisk', issued)
    BY <1>2, <2>1 DEF ThreadOK, Serving, Moving
  <2> QED
    BY <1>3, <1>8, <2>1, <2>2, ShelfGoto DEF OpenCopy
<1>9. CASE CloseCopy(w)
  <2>1. Grows
    BY <1>9 DEF CloseCopy, Grows, OnDisk, WithoutSource
  <2>2. CASE job[w].name \in primary /\ MoveDone(w)
    BY <1>1, <1>3, <1>9, <2>1, <2>2, ShelfMoveDone DEF Grows
  <2>3. CASE MoveFailed(w)
    BY <1>1, <1>3, <2>1, <2>3, ShelfMoveFailed
  <2> QED
    BY <1>9, <2>2, <2>3 DEF CloseCopy
<1>10. CASE CopyFails(w)
  <2>1. Grows
    BY <1>10 DEF CopyFails, Grows, OnDisk
  <2> QED
    BY <1>1, <1>3, <1>10, <2>1, ShelfMoveFailed DEF CopyFails
<1> QED
  BY <1>4, <1>5, <1>6, <1>7, <1>8, <1>9, <1>10

\* The builds.
LEMMA ShelfBuild ==
  ASSUME IInv, Shelf, NEW w \in Workers,
         FetchChapters(w) \/ RenderHtml(w) \/ ConvertEpub(w) \/ BuildFails(w)
  PROVE  Shelf'
<1>1. Grows /\ exportLog' = exportLog
  BY Unmoved DEF FetchChapters, RenderHtml, ConvertEpub, BuildFails
<1>2. pc[w] \in {"fetch", "make"}
  BY DEF FetchChapters, RenderHtml, ConvertEpub, BuildFails
<1>3. job[w].h = None /\ job[w] \in Job /\ LocalOK(pc[w], job[w], since[w].content)
  BY <1>2, NoHash DEF Serving, Moving, IInv, Control
<1>4. CASE FetchChapters(w)
  <2> DEFINE e == Epub(job[w].meta, content)
             j == [job[w] EXCEPT !.epub = e]
  <2>1. Store(w, "publish", e, j)
    BY <1>4 DEF FetchChapters
  <2>2. e \in Name
    BY <1>3, <1>4, EpubType DEF FetchChapters, LocalOK, Ensuring, IsEpub, IInv, World
  <2> HIDE DEF e
  <2>3. j \in Job /\ j.h = None
    BY <1>3, <2>2 DEF Job
  <2> QED
    BY <1>1, <2>1, <2>3, ShelfStore
<1>5. CASE \E n : Store(w, "publish", n, job[w])
  BY <1>1, <1>3, <1>5, ShelfStore
<1>6. CASE BuildFails(w)
  BY <1>1, <1>6, ShelfError DEF BuildFails
<1> QED
  BY <1>4, <1>5, <1>6 DEF RenderHtml, ConvertEpub

\* The row names the file that was moved.
LEMMA ShelfUpsert ==
  ASSUME IInv, Shelf, NEW w \in Workers, BeginUpsert(w) \/ Upsert(w) \/ UpsertFails(w)
  PROVE  Shelf'
<1>1. pc[w] \in {"stamp", "insert"}
  BY DEF BeginUpsert, Upsert, UpsertFails
<1>2. job[w].h = None /\ job[w] \in Job /\ job[w].name \in OnDisk
  BY <1>1, NoHash DEF Serving, Moving, IInv, Control, Shelf, ThreadOK
<1>3. Grows
  BY DEF BeginUpsert, Upsert, UpsertFails, Grows, OnDisk, disk
<1>4. ASSUME Stored(w), \A r \in exportLog' : r.hash \in OnDisk'
      PROVE  Shelf'
  <2>1. CASE Answer(w, job[w].name, FALSE)
    BY <1>2, <1>3, <1>4, <2>1, ShelfAnswer DEF Grows
  <2>2. CASE Seek(w, "again", job[w])
    <3> DEFINE k == Sought("again", job[w])
    <3>1. k.h = None
      BY <1>2 DEF Sought, Job
    <3>2. pc' = [pc EXCEPT ![w] = "row"] /\ job' = [job EXCEPT ![w] = k]
          /\ reply' = reply /\ issued' = issued /\ latest' = latest
      BY <2>2 DEF Seek, Goto
    <3>3. ThreadOK("row", k, reply[w], primary', OnDisk', issued')
      BY <3>1 DEF ThreadOK
    <3>4. Named'
      BY <1>3, <1>4, <3>2 DEF Shelf, Named, Grows, OnDisk
    <3>5. reply' = [reply EXCEPT ![w] = reply[w]]
      BY <3>2 DEF IInv, Control
    <3> QED
      BY <1>3, <3>2, <3>3, <3>4, <3>5, ShelfStep
  <2> QED
    BY <1>4, <2>1, <2>2 DEF Stored
<1>5. CASE BeginUpsert(w)
  <2> DEFINE saw == RowsAt(version, job[w].name.etype, StoredKey(job[w])) # {}
             j == [job[w] EXCEPT !.ver = version, !.saw = saw]
  <2>1. Goto(w, "insert", j) /\ exportLog' = exportLog
    BY <1>5 DEF BeginUpsert, exports
  <2> HIDE DEF saw
  <2>2. j.h = None /\ j.name = job[w].name
    BY <1>2 DEF Job
  <2> HIDE DEF j
  <2>3. ThreadOK("insert", j, NoReply, primary', OnDisk', issued)
    BY <1>2, <1>3, <2>2 DEF ThreadOK, Grows
  <2> QED
    BY <1>3, <2>1, <2>3, ShelfGoto
<1>6. CASE Upsert(w)
  <2> DEFINE row == [version |-> job[w].ver, etype |-> job[w].name.etype,
                     ihash |-> StoredKey(job[w]), hash |-> job[w].name]
  <2>1. \A r \in exportLog' : r \in exportLog \/ r = row
    BY <1>6 DEF Upsert
  <2>2. row.hash = job[w].name
    OBVIOUS
  <2> HIDE DEF row
  <2>3. \A r \in exportLog' : r.hash \in OnDisk'
    BY <1>2, <1>3, <2>1, <2>2 DEF Grows, Shelf, Named
  <2> QED
    BY <1>4, <1>6, <2>3 DEF Upsert
<1>7. CASE UpsertFails(w)
  <2>1. \A r \in exportLog' : r.hash \in OnDisk'
    BY <1>3, <1>7 DEF UpsertFails, exports, Grows, Shelf, Named
  <2> QED
    BY <1>4, <1>7, <2>1 DEF UpsertFails
<1> QED
  BY <1>5, <1>6, <1>7

\* A link with a hash finds its file in the primary cache by the time it is sent.
LEMMA ShelfServe ==
  ASSUME IInv, Shelf, NEW w \in Workers, ServeHash(w) \/ SendFile(w) \/ ServeLatest(w)
  PROVE  Shelf'
<1>1. Grows /\ exportLog' = exportLog
  BY Unmoved DEF ServeHash, SendFile, ServeLatest
<1>2. /\ job[w] \in Job /\ LocalOK(pc[w], job[w], since[w].content)
      /\ ThreadOK(pc[w], job[w], reply[w], primary, OnDisk, issued)
      /\ issued \subseteq OnDisk
  BY DEF IInv, Control, Shelf, Named
<1>3. ASSUME NEW r, Finish(w, r), UNCHANGED <<latest, issued>>,
             job[w].h = None \/ r.kind \in {"file", "error"}
      PROVE  Shelf'
  BY <1>1, <1>3, NamedStays, ShelfFinish
<1>4. CASE ServeHash(w)
  <2>1. pc[w] = "serve" /\ job[w].h \in Name
    BY <1>2, <1>4 DEF ServeHash, LocalOK, Serving
  <2>2. job[w].h \in issued
    BY <1>2, <2>1, ExportAssumption DEF ThreadOK
  <2>3. CASE Goto(w, "mkdir", [job[w] EXCEPT !.name = job[w].h, !.via = "serve"])
    <3> DEFINE j == [job[w] EXCEPT !.name = job[w].h, !.via = "serve"]
    <3>1. j.h = job[w].h /\ j.via = "serve"
      BY <1>2 DEF Job
    <3>2. Goto(w, "mkdir", j)
      BY <2>3
    <3> HIDE DEF j
    <3>3. ThreadOK("mkdir", j, NoReply, primary', OnDisk', issued)
      BY <2>2, <3>1 DEF ThreadOK, Serving, Moving
    <3> QED
      BY <1>1, <3>2, <3>3, ShelfGoto
  <2>4. CASE job[w].h \notin secondary \ primary /\ Goto(w, "send", job[w])
    <3>1. job[w].h \in primary
      BY <1>2, <2>2, <2>4 DEF OnDisk
    <3>2. ThreadOK("send", job[w], NoReply, primary', OnDisk', issued)
      BY <1>1, <2>2, <3>1 DEF ThreadOK, Serving, Grows
    <3> QED
      BY <1>1, <2>4, <3>2, ShelfGoto
  <2> QED
    BY <1>4, <2>3, <2>4 DEF ServeHash
<1>5. CASE SendFile(w)
  <2>1. job[w].h \in primary
    BY <1>2, <1>5 DEF SendFile, ThreadOK
  <2> DEFINE r == Says("file", job[w].h, FALSE, ~\E p \in torn : p[1] = job[w].h)
  <2>2. Finish(w, r) /\ UNCHANGED <<latest, issued>>
    BY <1>5, <2>1 DEF SendFile
  <2>3. r.kind = "file"
    BY DEF Says
  <2> HIDE DEF r
  <2> QED
    BY <1>3, <2>2, <2>3
<1>6. CASE ServeLatest(w)
  <2>1. job[w].h = None
    BY <1>6, NoHash DEF ServeLatest, Serving, Moving
  <2>2. CASE Goto(w, "lookup", Link(job[w].etype, job[w].h))
    <3>1. Link(job[w].etype, job[w].h).h = None
      BY <2>1 DEF Link, NoJob
    <3> QED
      BY <1>1, <2>2, <3>1, ShelfEnsure DEF PC
  <2>3. CASE \E r : Finish(w, r) /\ UNCHANGED <<latest, issued>>
    BY <1>3, <2>1, <2>3
  <2> QED
    BY <1>6, <2>2, <2>3 DEF ServeLatest
<1> QED
  BY <1>4, <1>5, <1>6

\* The answer is sent, or the process is killed: what it moved stays where it is.
LEMMA ShelfLeave ==
  ASSUME IInv, Shelf, NEW w \in Workers, Return(w) \/ Crash(w)
  PROVE  Shelf'
<1>1. Grows /\ exportLog' = exportLog
  BY DEF Return, Crash, Grows, OnDisk, exports, disk
<1>2. pc' = [pc EXCEPT ![w] = "idle"] /\ job' = [job EXCEPT ![w] = NoJob]
      /\ reply' = [reply EXCEPT ![w] = NoReply]
      /\ latest' = latest /\ issued' = issued
  BY DEF Return, Crash
<1>3. ThreadOK("idle", NoJob, NoReply, primary', OnDisk', issued')
  BY DEF ThreadOK, NoJob
<1>4. Named'
  BY <1>1, <1>2, NamedStays
<1> QED
  BY <1>1, <1>2, <1>3, <1>4, ShelfStep

\* Without deletions the invariant is inductive, next to IInv.
LEMMA NextShelf == ~Evicting /\ IInv /\ Shelf /\ [Next]_vars => Shelf'
<1> SUFFICES ASSUME ~Evicting, IInv, Shelf, [Next]_vars PROVE Shelf'
  OBVIOUS
<1>1. CASE Environment
  BY <1>1 DEF Environment, UpstreamUpdate, BumpVersion, Evict, Shelf, Named, OnDisk,
     exports, disk
<1>2. ASSUME NEW w \in Workers, Request(w) PROVE Shelf'
  BY <1>2, ShelfRequest
<1>3. ASSUME NEW w \in Workers, Step(w) PROVE Shelf'
  BY <1>3, ShelfSearch, ShelfMove, ShelfBuild, ShelfUpsert, ShelfServe, ShelfLeave
     DEF Step
<1>4. ASSUME NEW w \in Workers, Crash(w) PROVE Shelf'
  BY <1>4, ShelfLeave
<1>5. CASE UNCHANGED vars
  BY <1>5 DEF vars, Shelf, Named, OnDisk
<1> QED
  BY <1>1, <1>2, <1>3, <1>4, <1>5 DEF Next

\* Shelf holds always, as long as nothing is deleted.
THEOREM ShelfInvariance == Spec => [](~Evicting => Shelf)
<1>1. Init => (~Evicting => Shelf)
  BY InitShelf
<1>2. IInv /\ (~Evicting => Shelf) /\ [Next]_vars => (~Evicting => Shelf)'
  BY NextShelf
<1> QED
  BY <1>1, <1>2, Invariance, PTL DEF Spec

\* Every export a table names is in one of the caches, as long as nothing is deleted.
THEOREM Kept == Spec => []LoggedOnDisk
<1>1. (~Evicting => Shelf) => LoggedOnDisk
  BY DEF Shelf, Named, LoggedOnDisk, OnDisk
<1> QED
  BY <1>1, ShelfInvariance, PTL

\* A link that was given out leads to its file, as long as nothing is deleted.
THEOREM LinksKept == Spec => []LinkHonoured
<1>1. (~Evicting => Shelf) => LinkHonoured
  BY DEF Shelf, ThreadOK, LinkHonoured
<1> QED
  BY <1>1, ShelfInvariance, PTL
-----------------------------------------------------------------------------
(* Steps within a request. *)

SameRequest(j, k) == j.kind = k.kind /\ j.etype = k.etype /\ j.h = k.h

\* A step of w inside its request: nobody else moves, and what was asked stays.
Continues(w) ==
  /\ \A v \in Workers \ {w} : pc'[v] = pc[v] /\ job'[v] = job[v] /\ reply'[v] = reply[v]
  /\ pc'[w] # "idle"
  /\ SameRequest(job'[w], job[w])
  /\ pc'[w] # "done" => reply'[w] = reply[w]

\* Going on with the same request.
LEMMA GotoContinues ==
  ASSUME IInv, NEW w \in Workers, NEW s, NEW j, Goto(w, s, j),
         s # "idle", SameRequest(j, job[w])
  PROVE  Continues(w)
BY DEF Goto, Continues, IInv, Control

\* Ending it.
LEMMA FinishContinues ==
  ASSUME IInv, NEW w \in Workers, NEW r, Finish(w, r)
  PROVE  Continues(w)
<1>1. SameRequest(Ended(job[w]), job[w])
  BY EndedIs DEF SameRequest, IInv, Control
<1> QED
  BY <1>1 DEF Finish, Continues, IInv, Control

\* Answering it, or calling get_cached_export with what it asked.
LEMMA AnswerContinues ==
  ASSUME IInv, NEW w \in Workers, NEW n, NEW noted, Answer(w, n, noted)
  PROVE  Continues(w)
<1>1. CASE Finish(w, Says("export", n, noted, TRUE))
  BY <1>1, FinishContinues
<1>2. CASE /\ job[w].kind = "link"
           /\ pc' = [pc EXCEPT ![w] = ToServe(job[w].h)]
           /\ job' = [job EXCEPT ![w] = Link(job[w].etype, job[w].h)]
           /\ UNCHANGED reply
  <2>1. SameRequest(Link(job[w].etype, job[w].h), job[w])
    BY <1>2 DEF SameRequest, Link, NoJob
  <2>2. ToServe(job[w].h) # "idle"
    BY DEF ToServe
  <2> QED
    BY <1>2, <2>1, <2>2 DEF Continues, IInv, Control
<1> QED
  BY <1>1, <1>2 DEF Answer

\* Updates of the other locals leave the request alone.
LEMMA SameUpdates ==
  ASSUME NEW j \in Job
  PROVE  /\ \A s : SameRequest(Sought(s, j), j)
         /\ \A s, e : SameRequest(Sought(s, [j EXCEPT !.epub = e]), j)
         /\ \A s, m, b : SameRequest(Sought(s, [j EXCEPT !.meta = m, !.note = b]), j)
         /\ \A m, b : SameRequest([j EXCEPT !.meta = m, !.note = b], j)
         /\ \A m, b : SameRequest([[j EXCEPT !.meta = m, !.note = b] EXCEPT !.note = FALSE], j)
         /\ \A n, v : SameRequest([j EXCEPT !.name = n, !.via = v], j)
         /\ \A n, v : SameRequest([j EXCEPT !.name = n, !.ver = v], j)
         /\ \A n, v, b, s, e : SameRequest([j EXCEPT !.name = n, !.ver = v, !.note = b,
                                                    !.seek = s, !.epub = e], j)
         /\ \A v, b : SameRequest([j EXCEPT !.ver = v, !.saw = b], j)
         /\ \A e, n, v : SameRequest([[j EXCEPT !.epub = e] EXCEPT !.name = n, !.via = v], j)
BY DEF SameRequest, Sought, Job

\* The continuations of find_existing_export, of the moves and of the upsert.
LEMMA FoundContinues ==
  ASSUME IInv, NEW w \in Workers
  PROVE  /\ Missed(w) => Continues(w)
         /\ Found(w) => Continues(w)
         /\ Abort(w) \/ ExportFailed(w) => Continues(w)
         /\ Stored(w) => Continues(w)
<1>1. job[w] \in Job
  BY DEF IInv, Control
<1>2. ASSUME Missed(w) PROVE Continues(w)
  <2> DEFINE j == [job[w] EXCEPT !.name = None, !.ver = 0]
             k == [job[w] EXCEPT !.name = None, !.ver = 0, !.note = FALSE,
                                 !.seek = "epub", !.epub = None]
  <2>1. SameRequest(j, job[w]) /\ SameRequest(k, job[w])
    BY <1>1 DEF SameRequest, Job
  <2>2. Goto(w, "make", j) \/ Goto(w, "fetch", k)
    BY <1>2 DEF Missed
  <2> HIDE DEF j, k
  <2> QED
    BY <2>1, <2>2, GotoContinues
<1>3. ASSUME NEW s, Seek(w, s, job[w]) PROVE Continues(w)
  BY <1>1, <1>3, SameUpdates, GotoContinues DEF Seek
<1>4. ASSUME NEW s, NEW e, Seek(w, s, [job[w] EXCEPT !.epub = e]) PROVE Continues(w)
  BY <1>1, <1>4, SameUpdates, GotoContinues DEF Seek
<1>5. ASSUME Abort(w) \/ ExportFailed(w) PROVE Continues(w)
  BY <1>5, FinishContinues DEF Abort, ExportFailed
<1>6. ASSUME Found(w) PROVE Continues(w)
  BY <1>4, <1>6, AnswerContinues DEF Found
<1>7. ASSUME Stored(w) PROVE Continues(w)
  BY <1>3, <1>7, AnswerContinues DEF Stored
<1> QED
  BY <1>2, <1>5, <1>6, <1>7

\* The continuations of a move.
LEMMA MoveContinues ==
  ASSUME IInv, NEW w \in Workers,
         \/ GiveUp(w) \/ MoveFailed(w) \/ MoveDone(w)
         \/ \E via, n : Store(w, via, n, job[w])
         \/ \E via, n, e : Store(w, via, n, [job[w] EXCEPT !.epub = e])
  PROVE  Continues(w)
<1>1. job[w] \in Job
  BY DEF IInv, Control
<1>2. SameRequest(job[w], job[w])
  BY DEF SameRequest
<1>3. CASE GiveUp(w) \/ MoveFailed(w)
  BY <1>3, FoundContinues DEF GiveUp, MoveFailed
<1>4. CASE MoveDone(w)
  BY <1>2, <1>4, FoundContinues, GotoContinues DEF MoveDone
<1>5. CASE \E via, n : Store(w, via, n, job[w])
  BY <1>1, <1>5, SameUpdates, GotoContinues DEF Store
<1>6. CASE \E via, n, e : Store(w, via, n, [job[w] EXCEPT !.epub = e])
  BY <1>1, <1>6, SameUpdates, GotoContinues DEF Store
<1> QED
  BY <1>3, <1>4, <1>5, <1>6

\* Every step of a worker but the last one continues its request.
LEMMA StepContinues ==
  ASSUME IInv, NEW w \in Workers, Step(w), ~Return(w)
  PROVE  Continues(w)
<1>1. job[w] \in Job /\ SameRequest(job[w], job[w])
  BY DEF IInv, Control, SameRequest
<1>2. ASSUME NEW m, NEW noted, Reuse(w, m, noted) PROVE Continues(w)
  <2> DEFINE j == [[job[w] EXCEPT !.meta = m, !.note = noted] EXCEPT !.note = FALSE]
             k == Sought("epub", [job[w] EXCEPT !.meta = m, !.note = noted])
  <2>1. SameRequest(j, job[w]) /\ SameRequest(k, job[w])
    BY <1>1, SameUpdates
  <2>2. Goto(w, "row", k) \/ Goto(w, "fetch", j)
    BY <1>2 DEF Reuse, Seek
  <2> HIDE DEF j, k
  <2> QED
    BY <2>1, <2>2, GotoContinues
<1>3. CASE LookUp(w) \/ LookUpDead(w) \/ LookUpFails(w) \/ SaveInfo(w)
  <2>1. CASE LookUp(w)
    BY <1>1, <2>1, SameUpdates, GotoContinues DEF LookUp
  <2> QED
    BY <1>2, <1>3, <2>1, FoundContinues DEF LookUpDead, LookUpFails, SaveInfo
<1>4. CASE FindRow(w) \/ FindFile(w) \/ FindFails(w)
  <2>1. CASE FindRow(w)
    BY <1>1, <2>1, SameUpdates, GotoContinues, FoundContinues DEF FindRow
  <2> QED
    BY <1>4, <2>1, FoundContinues, MoveContinues DEF FindFile, FindFails
<1>5. CASE MakeDir(w) \/ OpenCopy(w)
  BY <1>1, <1>5, GotoContinues DEF MakeDir, OpenCopy
<1>6. CASE MakeDirFails(w) \/ Rename(w) \/ CloseCopy(w) \/ CopyFails(w) \/ SourceGone(w)
  BY <1>6, MoveContinues DEF MakeDirFails, Rename, CloseCopy, CopyFails, SourceGone
<1>7. CASE FetchChapters(w) \/ RenderHtml(w) \/ ConvertEpub(w) \/ BuildFails(w)
  BY <1>7, FoundContinues, MoveContinues
     DEF FetchChapters, RenderHtml, ConvertEpub, BuildFails
<1>8. CASE BeginUpsert(w) \/ Upsert(w) \/ UpsertFails(w)
  <2>1. CASE BeginUpsert(w)
    BY <1>1, <2>1, SameUpdates, GotoContinues DEF BeginUpsert
  <2> QED
    BY <1>8, <2>1, FoundContinues DEF Upsert, UpsertFails
<1>9. CASE ServeHash(w) \/ SendFile(w)
  BY <1>1, <1>9, SameUpdates, GotoContinues, FinishContinues DEF ServeHash, SendFile
<1>10. CASE ServeLatest(w)
  <2>1. CASE Goto(w, "lookup", Link(job[w].etype, job[w].h))
    <3>1. job[w].kind = "link"
      BY <1>10 DEF ServeLatest, IInv, Control, LocalOK
    <3>2. SameRequest(Link(job[w].etype, job[w].h), job[w])
      BY <3>1 DEF SameRequest, Link, NoJob
    <3> QED
      BY <2>1, <3>2, GotoContinues
  <2> QED
    BY <1>10, <2>1, FinishContinues DEF ServeLatest
<1> QED
  BY <1>3, <1>4, <1>5, <1>6, <1>7, <1>8, <1>9, <1>10 DEF Step

-----------------------------------------------------------------------------
(* Versions. *)

\* n was logged at version v or later.
HasRow(log, n, v) == \E r \in log : r.hash = n /\ r.version >= v

\* What the rows there ever were mean for a worker whose request came in at version v:
\* who looks for a row has read a version since, who found one was looking, who
\* publishes was not.
VersionOK(s, j, r, v, log) ==
  /\ s = "row" => j.via = "find" /\ j.ver >= v
  /\ Finding(s, j) => j.via = "find" /\ HasRow(log, j.name, v)
  /\ s \in {"stamp", "insert"} => j.via = "publish"
  /\ s = "done" /\ r.kind = "export" /\ j.via = "find" => HasRow(log, r.name, v)

VersionAt(w) == VersionOK(pc[w], job[w], reply[w], since[w].version, logged)

Versioned == \A w \in Workers : since[w].version <= version /\ VersionAt(w)

\* What was logged is not forgotten.
RowsStay == logged \subseteq logged'

LEMMA RowStays ==
  ASSUME RowsStay, NEW n, NEW v, HasRow(logged, n, v)
  PROVE  HasRow(logged', n, v)
BY DEF RowsStay, HasRow

\* A worker that does not move keeps what it has.
LEMMA VersionKept ==
  ASSUME RowsStay, NEW w, VersionAt(w),
         pc'[w] = pc[w], job'[w] = job[w], reply'[w] = reply[w], since'[w] = since[w]
  PROVE  VersionAt(w)'
BY RowStays DEF VersionAt, VersionOK

\* Going on.
LEMMA VersionGoto ==
  ASSUME IInv, NEW w \in Workers, NEW s, NEW j, Goto(w, s, j), s # "done",
         VersionOK(s, j, NoReply, since'[w].version, logged')
  PROVE  VersionAt(w)'
<1>1. pc'[w] = s /\ job'[w] = j
  BY DEF Goto, IInv, Control
<1> QED
  BY <1>1 DEF VersionAt, VersionOK

\* Ending.
LEMMA VersionFinish ==
  ASSUME IInv, NEW w \in Workers, NEW r, Finish(w, r),
         r.kind = "export" /\ job[w].via = "find"
           => HasRow(logged', r.name, since'[w].version)
  PROVE  VersionAt(w)'
<1>1. pc'[w] = "done" /\ job'[w] = Ended(job[w]) /\ reply'[w] = r
  BY DEF Finish, IInv, Control
<1>2. job'[w].via = job[w].via
  BY <1>1, EndedIs DEF IInv, Control
<1> QED
  BY <1>1, <1>2 DEF VersionAt, VersionOK, Finding, Moving

\* Ending with an answer, or going on to get_cached_export.
LEMMA VersionAnswer ==
  ASSUME IInv, NEW w \in Workers, NEW n, NEW noted, Answer(w, n, noted),
         job[w].via = "find" => HasRow(logged', n, since'[w].version)
  PROVE  VersionAt(w)'
<1>1. CASE Finish(w, Says("export", n, noted, TRUE))
  <2>1. Says("export", n, noted, TRUE).name = n
    BY DEF Says
  <2> QED
    BY <1>1, <2>1, VersionFinish
<1>2. CASE pc' = [pc EXCEPT ![w] = ToServe(job[w].h)]
  <2>1. pc'[w] \in {"latest", "serve"}
    BY <1>2 DEF ToServe, IInv, Control
  <2> QED
    BY <2>1 DEF VersionAt, VersionOK, Finding, Moving
<1> QED
  BY <1>1, <1>2 DEF Answer

\* An error, or nothing found.
LEMMA VersionEnds ==
  ASSUME IInv, NEW w \in Workers, Abort(w) \/ ExportFailed(w) \/ Missed(w)
  PROVE  VersionAt(w)'
<1>1. Says("error", None, FALSE, TRUE).kind # "export"
  BY DEF Says
<1>2. CASE Abort(w) \/ ExportFailed(w)
  BY <1>1, <1>2, VersionFinish DEF Abort, ExportFailed
<1>3. CASE Missed(w)
  <2>1. pc'[w] \in {"make", "fetch"}
    BY <1>3 DEF Missed, Goto, IInv, Control
  <2> QED
    BY <2>1 DEF VersionAt, VersionOK, Finding, Moving
<1> QED
  BY <1>2, <1>3

\* Looking for a row starts with a look at the version.
LEMMA VersionSeek ==
  ASSUME IInv, NEW w \in Workers, NEW s, NEW j \in Job, Seek(w, s, j),
         since' = since, Versioned
  PROVE  VersionAt(w)'
<1>1. Sought(s, j).ver = version /\ Sought(s, j).via = "find"
  BY DEF Sought, Job
<1>2. VersionOK("row", Sought(s, j), NoReply, since'[w].version, logged')
  <2>1. version >= since'[w].version
    BY ExportAssumption DEF Versioned, IInv, World, Version
  <2> QED
    BY <1>1, <2>1 DEF VersionOK, Finding, Moving
<1> QED
  BY <1>2, VersionGoto DEF Seek

\* find_existing_export's file was found.
LEMMA VersionFound ==
  ASSUME IInv, NEW w \in Workers, Found(w), since' = since, Versioned,
         HasRow(logged', job[w].name, since'[w].version)
  PROVE  VersionAt(w)'
<1>1. job[w] \in Job
  BY DEF IInv, Control
<1>2. CASE Seek(w, "derived", [job[w] EXCEPT !.epub = job[w].name])
  <2>1. [job[w] EXCEPT !.epub = job[w].name] \in Job
    BY <1>1 DEF Job
  <2> QED
    BY <1>2, <2>1, VersionSeek
<1>3. CASE \E noted : Answer(w, job[w].name, noted)
  BY <1>3, VersionAnswer
<1> QED
  BY <1>2, <1>3 DEF Found

\* A file that is published, or found, is on its way.
LEMMA VersionStore ==
  ASSUME IInv, NEW w \in Workers, NEW via, NEW n, NEW j \in Job, Store(w, via, n, j),
         via = "find" => HasRow(logged', n, since'[w].version)
  PROVE  VersionAt(w)'
<1> DEFINE k == [j EXCEPT !.name = n, !.via = via]
<1>1. k.name = n /\ k.via = via
  BY DEF Job
<1>2. \A s \in {"move", "mkdir"} : VersionOK(s, k, NoReply, since'[w].version, logged')
  BY <1>1 DEF VersionOK, Finding, Moving
<1>3. Goto(w, "move", k) \/ Goto(w, "mkdir", k)
  BY DEF Store
<1> HIDE DEF k
<1> QED
  BY <1>2, <1>3, VersionGoto

\* The ends of a move.
LEMMA VersionMove ==
  ASSUME IInv, NEW w \in Workers, pc[w] \in Moving, since' = since, Versioned,
         job[w].via = "find" => HasRow(logged', job[w].name, since'[w].version),
         GiveUp(w) \/ MoveFailed(w) \/ MoveDone(w)
  PROVE  VersionAt(w)'
<1>1. CASE GiveUp(w)
  BY <1>1, VersionEnds DEF GiveUp
<1>2. CASE MoveFailed(w)
  BY <1>1, <1>2, VersionFound DEF MoveFailed
<1>3. CASE MoveDone(w)
  <2>1. CASE job[w].via = "find" /\ Found(w)
    BY <2>1, VersionFound
  <2>2. CASE job[w].via = "publish" /\ Goto(w, "stamp", job[w])
    <3>1. VersionOK("stamp", job[w], NoReply, since'[w].version, logged')
      BY <2>2 DEF VersionOK, Finding, Moving
    <3> QED
      BY <2>2, <3>1, VersionGoto
  <2>3. CASE job[w].via = "serve" /\ Goto(w, "send", job[w])
    <3>1. VersionOK("send", job[w], NoReply, since'[w].version, logged')
      BY DEF VersionOK, Finding, Moving
    <3> QED
      BY <2>3, <3>1, VersionGoto
  <2> QED
    BY <1>3, <2>1, <2>2, <2>3 DEF MoveDone
<1> QED
  BY <1>1, <1>2, <1>3

\* Only the upsert changes what is logged, and it adds.
LEMMA RowsAlwaysStay == ASSUME [Next]_vars PROVE RowsStay
<1>1. ASSUME NEW w \in Workers, Step(w) PROVE RowsStay
  BY <1>1 DEF RowsStay, Step, LookUp, LookUpDead, LookUpFails, SaveInfo, FindRow, FindFile,
     FindFails, MakeDir, MakeDirFails, Rename, OpenCopy, CloseCopy, CopyFails, SourceGone,
     FetchChapters, RenderHtml, ConvertEpub, BuildFails, BeginUpsert, Upsert, UpsertFails,
     ServeHash, SendFile, ServeLatest, Return, exports
<1>2. ASSUME NEW w \in Workers, Request(w) \/ Crash(w) PROVE RowsStay
  BY <1>2 DEF RowsStay, Request, RequestEpub, RequestPartial, RequestFile, Begin, Crash,
     exports
<1>3. Environment \/ UNCHANGED vars => RowsStay
  BY DEF RowsStay, Environment, UpstreamUpdate, BumpVersion, Evict, vars, exports
<1> QED
  BY <1>1, <1>2, <1>3 DEF Next

\* The search.
LEMMA VersionSearch ==
  ASSUME IInv, Versioned, RowsStay, NEW w \in Workers, since' = since,
         FindRow(w) \/ FindFile(w) \/ FindFails(w)
  PROVE  VersionAt(w)'
<1>1. job[w] \in Job /\ VersionAt(w) /\ logged' = logged
  BY DEF IInv, Control, Versioned, FindRow, FindFile, FindFails, exports
<1>2. ASSUME FindRow(w), NEW r \in RowsAt(job[w].ver, SoughtType(job[w]), SoughtHash(job[w])),
             Goto(w, "check", [job[w] EXCEPT !.name = r.hash, !.ver = 0])
      PROVE  VersionAt(w)'
  <2> DEFINE k == [job[w] EXCEPT !.name = r.hash, !.ver = 0]
  <2>1. k.name = r.hash /\ k.via = job[w].via
    BY <1>1 DEF Job
  <2>2. r \in logged /\ r.version = job[w].ver
    BY <1>2 DEF RowsAt, IInv, World
  <2>3. job[w].via = "find" /\ job[w].ver >= since[w].version
    BY <1>1, <1>2 DEF FindRow, VersionAt, VersionOK
  <2>4. VersionOK("check", k, NoReply, since'[w].version, logged')
    BY <1>1, <2>1, <2>2, <2>3 DEF VersionOK, HasRow
  <2> HIDE DEF k
  <2> QED
    BY <1>2, <2>4, VersionGoto DEF k
<1>3. ASSUME FindFile(w) PROVE VersionAt(w)'
  <2>1. HasRow(logged', job[w].name, since'[w].version)
    BY <1>1, <1>3 DEF FindFile, VersionAt, VersionOK, Finding
  <2> QED
    BY <1>1, <1>3, <2>1, VersionFound, VersionStore, VersionEnds DEF FindFile
<1> QED
  BY <1>2, <1>3, VersionEnds DEF FindRow, FindFails

\* The moves.
LEMMA VersionMoves ==
  ASSUME IInv, Versioned, RowsStay, NEW w \in Workers, since' = since,
         \/ MakeDir(w) \/ MakeDirFails(w)
         \/ Rename(w) \/ OpenCopy(w) \/ CloseCopy(w) \/ CopyFails(w) \/ SourceGone(w)
  PROVE  VersionAt(w)'
<1>1. VersionAt(w) /\ logged' = logged /\ pc[w] \in Moving
  BY DEF Versioned, MakeDir, MakeDirFails, Rename, OpenCopy, CloseCopy, CopyFails, SourceGone,
     Moving, exports
<1>2. job[w].via = "find" => HasRow(logged', job[w].name, since'[w].version)
  BY <1>1 DEF VersionAt, VersionOK, Finding
<1>3. CASE \E s \in {"move", "copy"} : Goto(w, s, job[w])
  <2>1. \A s \in {"move", "copy"} : VersionOK(s, job[w], NoReply, since'[w].version, logged')
    BY <1>2 DEF VersionOK, Finding
  <2> QED
    BY <1>3, <2>1, VersionGoto
<1> QED
  BY <1>1, <1>2, <1>3, VersionMove
     DEF MakeDir, MakeDirFails, Rename, OpenCopy, CloseCopy, CopyFails, SourceGone

\* The builds, and the upsert of what they published.
LEMMA VersionBuild ==
  ASSUME IInv, Versioned, RowsStay, NEW w \in Workers, since' = since,
         \/ FetchChapters(w) \/ RenderHtml(w) \/ ConvertEpub(w) \/ BuildFails(w)
         \/ BeginUpsert(w) \/ Upsert(w) \/ UpsertFails(w)
  PROVE  VersionAt(w)'
<1>1. job[w] \in Job /\ VersionAt(w)
  BY DEF IInv, Control, Versioned
<1>2. CASE FetchChapters(w)
  <2> DEFINE e == Epub(job[w].meta, content)
  <2>1. job[w].meta \in Content /\ content \in Content
    BY <1>2 DEF FetchChapters, IInv, World, Control, LocalOK, Ensuring
  <2>2. e \in Name
    BY <2>1, EpubType DEF IsEpub
  <2>3. [job[w] EXCEPT !.epub = e] \in Job
    BY <1>1, <2>2 DEF Job
  <2> HIDE DEF e
  <2> QED
    BY <1>2, <2>3, VersionStore DEF FetchChapters, e
<1>3. CASE RenderHtml(w) \/ ConvertEpub(w)
  BY <1>1, <1>3, VersionStore DEF RenderHtml, ConvertEpub
<1>4. CASE BuildFails(w)
  BY <1>4, VersionEnds DEF BuildFails
<1>5. CASE BeginUpsert(w)
  <2> DEFINE b == RowsAt(version, job[w].name.etype, StoredKey(job[w])) # {}
             k == [job[w] EXCEPT !.ver = version, !.saw = b]
  <2>1. k.via = job[w].via
    BY <1>1 DEF Job
  <2>2. VersionOK("insert", k, NoReply, since'[w].version, logged')
    BY <1>1, <1>5, <2>1 DEF BeginUpsert, VersionAt, VersionOK, Finding, Moving
  <2> HIDE DEF k
  <2> QED
    BY <1>5, <2>2, VersionGoto DEF BeginUpsert, k
<1>6. CASE Upsert(w) \/ UpsertFails(w)
  <2>1. job[w].via = "publish"
    BY <1>1, <1>6 DEF Upsert, UpsertFails, VersionAt, VersionOK
  <2>2. CASE Answer(w, job[w].name, FALSE)
    BY <2>1, <2>2, VersionAnswer
  <2>3. CASE Seek(w, "again", job[w])
    BY <1>1, <2>3, VersionSeek
  <2> QED
    BY <1>6, <2>2, <2>3 DEF Upsert, UpsertFails, Stored
<1> QED
  BY <1>2, <1>3, <1>4, <1>5, <1>6

\* The lookups, and the links.
LEMMA VersionRest ==
  ASSUME IInv, Versioned, RowsStay, NEW w \in Workers, since' = since,
         \/ LookUp(w) \/ LookUpDead(w) \/ LookUpFails(w) \/ SaveInfo(w)
         \/ ServeHash(w) \/ SendFile(w) \/ ServeLatest(w)
  PROVE  VersionAt(w)'
<1>1. job[w] \in Job /\ content \in Content /\ ficInfo \in Content \cup {0}
  BY DEF IInv, Control, World
<1>2. \A s \in {"save", "fetch", "send", "latest", "lookup"} : \A j :
        VersionOK(s, j, NoReply, since'[w].version, logged')
  BY DEF VersionOK, Finding, Moving
<1>3. ASSUME NEW m \in Content \cup {0}, NEW noted \in BOOLEAN, Reuse(w, m, noted)
      PROVE  VersionAt(w)'
  <2> DEFINE j == [job[w] EXCEPT !.meta = m, !.note = noted]
             k == [j EXCEPT !.note = FALSE]
  <2>1. j \in Job
    BY <1>1 DEF Job
  <2>2. Seek(w, "epub", j) \/ Goto(w, "fetch", k)
    BY <1>3 DEF Reuse
  <2> HIDE DEF j, k
  <2> QED
    BY <1>2, <2>1, <2>2, VersionSeek, VersionGoto
<1>4. CASE LookUp(w)
  BY <1>2, <1>4, VersionGoto DEF LookUp
<1>5. CASE LookUpDead(w) \/ LookUpFails(w) \/ SaveInfo(w)
  BY <1>1, <1>3, <1>5, VersionEnds DEF LookUpDead, LookUpFails, SaveInfo, Job
<1>6. CASE ServeHash(w)
  <2> DEFINE k == [job[w] EXCEPT !.name = job[w].h, !.via = "serve"]
  <2>1. k.via = "serve"
    BY <1>1 DEF Job
  <2>2. VersionOK("mkdir", k, NoReply, since'[w].version, logged')
    BY <2>1 DEF VersionOK, Finding, Moving
  <2> HIDE DEF k
  <2> QED
    BY <1>2, <1>6, <2>2, VersionGoto DEF ServeHash, k
<1>7. ASSUME NEW kind \in {"file", "missing", "redirect"}, NEW n, NEW whole,
             Finish(w, Says(kind, n, FALSE, whole))
      PROVE  VersionAt(w)'
  <2>1. Says(kind, n, FALSE, whole).kind # "export"
    BY DEF Says
  <2> QED
    BY <1>7, <2>1, VersionFinish
<1>8. CASE SendFile(w) \/ ServeLatest(w)
  BY <1>2, <1>7, <1>8, VersionGoto DEF SendFile, ServeLatest
<1> QED
  BY <1>4, <1>5, <1>6, <1>8

\* With IInv the versions are inductive.
LEMMA NextVersioned == IInv /\ Versioned /\ [Next]_vars => Versioned'
<1> SUFFICES ASSUME IInv, Versioned, [Next]_vars PROVE Versioned'
  OBVIOUS
<1>1. RowsStay
  BY RowsAlwaysStay
<1>2. /\ version \in Int /\ version >= 0
      /\ \A w \in Workers : since[w].version \in Int /\ since[w].version <= version
  BY ExportAssumption DEF IInv, World, Version, Versioned
<1>3. ASSUME NEW w \in Workers, Step(w), ~Return(w) PROVE Versioned'
  <2>1. since' = since /\ version' = version
    BY <1>3 DEF Step, LookUp, LookUpDead, LookUpFails, SaveInfo, FindRow,
       FindFile, FindFails, MakeDir, MakeDirFails, Rename, OpenCopy, CloseCopy, CopyFails, SourceGone,
       FetchChapters, RenderHtml, ConvertEpub, BuildFails, BeginUpsert, Upsert,
       UpsertFails, ServeHash, SendFile, ServeLatest, upstream
  <2>2. VersionAt(w)'
    BY <1>1, <1>3, <2>1, VersionSearch, VersionMoves, VersionBuild, VersionRest DEF Step
  <2>3. \A v \in Workers \ {w} : VersionAt(v)'
    BY <1>1, <1>3, <2>1, StepContinues, VersionKept DEF Continues, Versioned
  <2> QED
    BY <2>1, <2>2, <2>3 DEF Versioned
<1>4. ASSUME NEW w \in Workers, Request(w) \/ Return(w) \/ Crash(w) PROVE Versioned'
  <2>1. /\ pc'[w] \in {"lookup", "serve", "latest", "idle"}
        /\ \A v \in Workers \ {w} : pc'[v] = pc[v] /\ job'[v] = job[v]
                                    /\ reply'[v] = reply[v] /\ since'[v] = since[v]
        /\ since'[w].version \in {version, 0} /\ version' = version
    <3>1. ASSUME NEW s \in {"lookup", "serve", "latest"}, NEW j, Begin(w, s, j)
          PROVE  /\ pc'[w] \in {"lookup", "serve", "latest", "idle"}
                 /\ \A v \in Workers \ {w} : pc'[v] = pc[v] /\ job'[v] = job[v]
                                    /\ reply'[v] = reply[v] /\ since'[v] = since[v]
                 /\ since'[w].version \in {version, 0} /\ version' = version
      BY <3>1 DEF Begin, upstream, IInv, World, Control
    <3>2. \A h : ToServe(h) \in {"lookup", "serve", "latest"}
      BY DEF ToServe
    <3>3. CASE Request(w)
      BY <3>1, <3>2, <3>3 DEF Request, RequestEpub, RequestPartial, RequestFile
    <3>4. CASE Return(w) \/ Crash(w)
      BY <3>4 DEF Return, Crash, upstream, IInv, World, Control
    <3> QED
      BY <1>4, <3>3, <3>4
  <2>2. VersionAt(w)'
    BY <2>1 DEF VersionAt, VersionOK, Finding, Moving
  <2>3. \A v \in Workers \ {w} : VersionAt(v)'
    BY <1>1, <2>1, VersionKept DEF Versioned
  <2> QED
    BY <1>2, <2>1, <2>2, <2>3 DEF Versioned
<1>5. CASE Environment \/ UNCHANGED vars
  <2>1. /\ pc' = pc /\ job' = job /\ reply' = reply /\ since' = since
        /\ version' = version \/ version' = version + 1
    BY <1>5 DEF Environment, UpstreamUpdate, BumpVersion, Evict, vars, upstream
  <2>2. \A v \in Workers : VersionAt(v)'
    BY <1>1, <2>1, VersionKept DEF Versioned
  <2> QED
    BY <1>2, <2>1, <2>2 DEF Versioned
<1>6. ASSUME NEW w \in Workers, Request(w) \/ Step(w) \/ Crash(w) PROVE Versioned'
  BY <1>3, <1>4, <1>6
<1> QED
  BY <1>5, <1>6 DEF Next

\* An answer from the cache was logged, under its own hash, at an export version no
\* older than the one in force when its request came in.
THEOREM VersionsBind == Spec => []FreshVersion
<1>1. Init => Versioned
  BY DEF Init, Versioned, VersionAt, VersionOK, NoReply, Says, Finding, Moving
<1>2. IInv /\ Versioned => FreshVersion
  <2> SUFFICES ASSUME IInv, Versioned, NEW w \in Workers,
                      reply[w].kind = "export", job[w].via = "find"
               PROVE  HasRow(logged, reply[w].name, since[w].version)
    BY DEF FreshVersion, HasRow
  <2>1. pc[w] = "done"
    BY DEF IInv, Control, NoReply, Says
  <2> QED
    BY <2>1 DEF Versioned, VersionAt, VersionOK
<1> QED
  BY <1>1, <1>2, NextVersioned, Invariance, PTL DEF Spec
-----------------------------------------------------------------------------
(* Torn files. *)

Writing ==
  \A p \in torn :
    /\ p[1] \in primary
    /\ Filling(p) \/ \E alone \in BOOLEAN : <<p[1], p[2], alone>> \in broken

\* The archive still has what a lone copy of it left half filled, and nobody copies it.
Solitary ==
  \A b \in broken :
    b[3] => /\ b[1] \in secondary
            /\ \A v \in Workers : ~(pc[v] = "copy" /\ job[v].name = b[1])

Half == Writing /\ Solitary

\* The steps that open no file, fill none and remove none but to put another one in its
\* place or to forget it.
LEMMA HalfStays ==
  ASSUME IInv, Half, torn' \subseteq torn, broken' \subseteq broken,
         \A p \in torn' : p[1] \in primary',
         \A b \in broken : (\E p \in torn' : p[1] = b[1]) => b \in broken',
         \A b \in broken' : b[1] \in secondary => b[1] \in secondary',
         \A v \in Workers : pc[v] = "copy" => pc'[v] = pc[v] /\ job'[v] = job[v],
         \A v \in Workers : pc'[v] = "copy" => pc[v] = "copy"
  PROVE  Half'
<1>1. \A p \in torn : p[2] \in Workers
  BY DEF IInv, World
<1>2. Writing'
  BY <1>1 DEF Half, Writing, Filling
<1>3. Solitary'
  BY DEF Half, Solitary
<1> QED
  BY <1>2, <1>3 DEF Half

\* Only OpenCopy starts to copy.
LEMMA OnlyOpenCopies ==
  ASSUME IInv, NEW w \in Workers, Step(w), ~OpenCopy(w)
  PROVE  pc'[w] # "copy"
<1>1. ASSUME NEW s, s # "copy", NEW j, Goto(w, s, j) PROVE pc'[w] # "copy"
  BY <1>1 DEF Goto, IInv, Control
<1>2. ASSUME NEW r, Finish(w, r) PROVE pc'[w] # "copy"
  BY <1>2 DEF Finish, IInv, Control
<1>3. ASSUME NEW n, NEW noted, Answer(w, n, noted) PROVE pc'[w] # "copy"
  BY <1>2, <1>3 DEF Answer, ToServe, IInv, Control
<1>4. Found(w) \/ Missed(w) \/ Stored(w) \/ Abort(w) \/ ExportFailed(w) => pc'[w] # "copy"
  BY <1>1, <1>2, <1>3 DEF Found, Missed, Stored, Abort, ExportFailed, Seek
<1>5. GiveUp(w) \/ MoveFailed(w) \/ MoveDone(w) => pc'[w] # "copy"
  BY <1>1, <1>4 DEF GiveUp, MoveFailed, MoveDone
<1>6. (\E via, n, j : Store(w, via, n, j)) \/ (\E m, noted : Reuse(w, m, noted))
        => pc'[w] # "copy"
  BY <1>1 DEF Store, Reuse, Seek
<1>7. CASE LookUp(w) \/ LookUpDead(w) \/ LookUpFails(w) \/ SaveInfo(w)
  BY <1>1, <1>4, <1>6, <1>7 DEF LookUp, LookUpDead, LookUpFails, SaveInfo
<1>8. CASE FindRow(w) \/ FindFile(w) \/ FindFails(w)
  BY <1>1, <1>4, <1>6, <1>8 DEF FindRow, FindFile, FindFails
<1>9. CASE MakeDir(w) \/ MakeDirFails(w) \/ Rename(w) \/ CloseCopy(w) \/ CopyFails(w)
           \/ SourceGone(w)
  BY <1>1, <1>5, <1>9 DEF MakeDir, MakeDirFails, Rename, CloseCopy, CopyFails, SourceGone
<1>10. CASE FetchChapters(w) \/ RenderHtml(w) \/ ConvertEpub(w) \/ BuildFails(w)
  BY <1>4, <1>6, <1>10 DEF FetchChapters, RenderHtml, ConvertEpub, BuildFails
<1>11. CASE BeginUpsert(w) \/ Upsert(w) \/ UpsertFails(w)
  BY <1>1, <1>4, <1>11 DEF BeginUpsert, Upsert, UpsertFails
<1>12. CASE ServeHash(w) \/ SendFile(w) \/ ServeLatest(w)
  BY <1>1, <1>2, <1>12 DEF ServeHash, SendFile, ServeLatest
<1>13. CASE Return(w)
  BY <1>13 DEF Return, IInv, Control
<1> QED
  BY <1>7, <1>8, <1>9, <1>10, <1>11, <1>12, <1>13 DEF Step

\* The other workers do not move when w takes a step.
LEMMA OthersStay ==
  ASSUME IInv, NEW w \in Workers, Step(w) \/ Crash(w)
  PROVE  \A v \in Workers \ {w} : pc'[v] = pc[v] /\ job'[v] = job[v]
<1>1. CASE Return(w) \/ Crash(w)
  BY <1>1 DEF Return, Crash, IInv, Control
<1>2. CASE Step(w) /\ ~Return(w)
  BY <1>2, StepContinues DEF Continues
<1> QED
  BY <1>1, <1>2

\* A copy of w that is interrupted leaves its half file to the history.
LEMMA BreakHalf ==
  ASSUME IInv, Half, NEW w \in Workers, pc'[w] # "copy", Break(w),
         UNCHANGED <<primary, secondary, torn>>,
         \A v \in Workers \ {w} : pc'[v] = pc[v] /\ job'[v] = job[v]
  PROVE  Half'
<1>1. \A p \in torn : p[2] \in Workers /\ p = <<p[1], p[2]>>
  BY DEF IInv, World
<1>2. /\ broken \subseteq broken'
      /\ \A b \in broken' : b \in broken \/ (/\ b = <<job[w].name, w, Alone(w)>>
                                            /\ pc[w] = "copy")
      /\ pc[w] = "copy" /\ <<job[w].name, w>> \in torn
           => <<job[w].name, w, Alone(w)>> \in broken'
  BY DEF Break
<1>3. Alone(w) \in BOOLEAN
  BY DEF Alone
<1>4. Writing'
  <2> SUFFICES ASSUME NEW p \in torn
               PROVE  /\ p[1] \in primary
                      /\ Filling(p)' \/ \E alone \in BOOLEAN : <<p[1], p[2], alone>> \in broken'
    BY DEF Writing
  <2>1. CASE p[2] = w /\ Filling(p)
    BY <1>1, <1>2, <1>3, <2>1 DEF Half, Writing, Filling
  <2>2. CASE p[2] # w /\ Filling(p)
    BY <1>1, <2>2 DEF Half, Writing, Filling
  <2>3. CASE ~Filling(p)
    BY <1>2, <2>3 DEF Half, Writing
  <2> QED
    BY <2>1, <2>2, <2>3
<1>5. Solitary'
  <2> SUFFICES ASSUME NEW b \in broken', b[3]
               PROVE  /\ b[1] \in secondary
                      /\ \A v \in Workers : ~(pc'[v] = "copy" /\ job'[v].name = b[1])
    BY DEF Solitary
  <2>1. CASE b \in broken
    BY <2>1 DEF Half, Solitary
  <2>2. CASE b = <<job[w].name, w, Alone(w)>>
    BY <2>2 DEF Alone
  <2> QED
    BY <1>2, <2>1, <2>2
<1> QED
  BY <1>4, <1>5 DEF Half

\* Whoever truncates a file is its writer until it has filled it, or is interrupted.
LEMMA NextHalf == IInv /\ Half /\ [Next]_vars => Half'
<1> SUFFICES ASSUME IInv, Half, [Next]_vars PROVE Half'
  OBVIOUS
<1>1. /\ \A p \in torn : p[1] \in primary
      /\ \A n : Untorn(n) \subseteq torn /\ \A p \in Untorn(n) : p[1] # n
      /\ \A n : Unbroken(n) \subseteq broken /\ \A b \in Unbroken(n) : b[1] # n
      /\ \A n : \A b \in broken : b[1] # n => b \in Unbroken(n)
      /\ \A p \in torn : p \in Name \X Workers
  BY DEF Half, Writing, Untorn, Unbroken, IInv, World
<1>2. ASSUME NEW w \in Workers, Step(w), ~OpenCopy(w), ~CloseCopy(w), ~CopyFails(w)
      PROVE  Half'
  <2>1. pc[w] # "copy"
    BY <1>2 DEF Step, LookUp, LookUpDead, LookUpFails, SaveInfo, FindRow, FindFile,
       FindFails, MakeDir, MakeDirFails, Rename, SourceGone, FetchChapters,
       RenderHtml, ConvertEpub, BuildFails, BeginUpsert, Upsert, UpsertFails,
       ServeHash, SendFile, ServeLatest, Return
  <2>2. /\ \A v \in Workers : pc[v] = "copy" => pc'[v] = pc[v] /\ job'[v] = job[v]
        /\ \A v \in Workers : pc'[v] = "copy" => pc[v] = "copy"
    BY <1>2, <2>1, OthersStay, OnlyOpenCopies
  <2>3. CASE Rename(w)
    <3>1. /\ torn' = Untorn(job[w].name) /\ broken' = Unbroken(job[w].name)
          /\ primary \subseteq primary' /\ secondary \ {job[w].name} \subseteq secondary'
      BY <2>3 DEF Rename, WithoutSource
    <3> QED
      BY <1>1, <2>2, <3>1, HalfStays
  <2>4. CASE ~Rename(w)
    <3>1. UNCHANGED <<torn, broken, primary, secondary>>
      BY <1>2, <2>4 DEF Step, LookUp, LookUpDead, LookUpFails, SaveInfo, FindRow,
         FindFile, FindFails, MakeDir, MakeDirFails, SourceGone,
         FetchChapters, RenderHtml, ConvertEpub, BuildFails, BeginUpsert, Upsert,
         UpsertFails, ServeHash, SendFile, ServeLatest, Return, disk
    <3> QED
      BY <1>1, <2>2, <3>1, HalfStays
  <2> QED
    BY <2>3, <2>4
<1>3. ASSUME NEW w \in Workers, OpenCopy(w) PROVE Half'
  <2>1. /\ pc' = [pc EXCEPT ![w] = "copy"] /\ job' = [job EXCEPT ![w] = job[w]]
        /\ primary' = primary \cup {job[w].name} /\ secondary' = secondary
        /\ torn' = Untorn(job[w].name) \cup {<<job[w].name, w>>}
        /\ broken' = Unbroken(job[w].name) /\ pc[w] = "move"
    BY <1>3 DEF OpenCopy, Goto
  <2>2. pc'[w] = "copy" /\ job' = job /\ \A v \in Workers \ {w} : pc'[v] = pc[v]
    BY <2>1 DEF IInv, Control
  <2>3. Writing'
    <3> SUFFICES ASSUME NEW p \in torn'
                 PROVE  /\ p[1] \in primary'
                        /\ Filling(p)' \/ \E alone \in BOOLEAN :
                                            <<p[1], p[2], alone>> \in broken'
      BY DEF Writing
    <3>1. CASE p = <<job[w].name, w>>
      BY <2>1, <2>2, <3>1 DEF Filling
    <3>2. CASE p \in Untorn(job[w].name)
      <4>1. p \in torn /\ p[1] # job[w].name /\ p[2] \in Workers
        BY <1>1, <3>2
      <4>2. Filling(p) => Filling(p)'
        BY <2>1, <2>2, <4>1 DEF Filling
      <4>3. \A alone : <<p[1], p[2], alone>> \in broken => <<p[1], p[2], alone>> \in broken'
        BY <1>1, <2>1, <4>1
      <4> QED
        BY <2>1, <4>1, <4>2, <4>3 DEF Half, Writing
    <3> QED
      BY <2>1, <3>1, <3>2
  <2>4. Solitary'
    BY <1>1, <2>1, <2>2 DEF Half, Solitary
  <2> QED
    BY <2>3, <2>4 DEF Half
<1>4. ASSUME NEW w \in Workers, CloseCopy(w) PROVE Half'
  <2>1. /\ torn' = torn \ {<<job[w].name, w>>} /\ primary' = primary /\ broken' = broken
        /\ secondary \ {job[w].name} \subseteq secondary' /\ pc[w] = "copy"
    BY <1>4 DEF CloseCopy, WithoutSource
  <2>2. /\ \A v \in Workers \ {w} : pc'[v] = pc[v] /\ job'[v] = job[v]
        /\ pc'[w] # "copy"
    BY <1>4, OthersStay, OnlyOpenCopies DEF Step, OpenCopy, CloseCopy
  <2>3. \A p \in torn' : Filling(p) => p[2] \in Workers \ {w}
    BY <1>1, <2>1 DEF Filling
  <2>4. Writing'
    BY <2>1, <2>2, <2>3 DEF Half, Writing, Filling
  <2>5. Solitary'
    BY <2>1, <2>2 DEF Half, Solitary
  <2> QED
    BY <2>4, <2>5 DEF Half
<1>5. ASSUME NEW w \in Workers, CopyFails(w) \/ Crash(w) PROVE Half'
  <2>1. Break(w) /\ UNCHANGED <<primary, secondary, torn>>
    BY <1>5 DEF CopyFails, Crash
  <2>2. \A v \in Workers \ {w} : pc'[v] = pc[v] /\ job'[v] = job[v]
    BY <1>5, OthersStay DEF Step
  <2>3. pc'[w] # "copy"
    <3>1. CASE CopyFails(w)
      BY <3>1, OnlyOpenCopies DEF Step, OpenCopy, CopyFails
    <3>2. CASE Crash(w)
      BY <3>2 DEF Crash, IInv, Control
    <3> QED
      BY <1>5, <3>1, <3>2
  <2> QED
    BY <2>1, <2>2, <2>3, BreakHalf
<1>6. ASSUME NEW w \in Workers, Request(w) PROVE Half'
  <2>1. UNCHANGED <<torn, broken, primary, secondary>>
    BY <1>6 DEF Request, RequestEpub, RequestPartial, RequestFile, Begin, disk
  <2>2. /\ \A v \in Workers : pc[v] = "copy" => pc'[v] = pc[v] /\ job'[v] = job[v]
        /\ \A v \in Workers : pc'[v] = "copy" => pc[v] = "copy"
    BY <1>6 DEF Request, RequestEpub, RequestPartial, RequestFile, Begin, ToServe,
       IInv, Control
  <2> QED
    BY <1>1, <2>1, <2>2, HalfStays
<1>7. CASE Environment \/ UNCHANGED vars
  <2>1. /\ secondary' = secondary /\ pc' = pc /\ job' = job
        /\ \/ UNCHANGED <<torn, broken, primary>>
           \/ \E n : /\ primary' = primary \ {n}
                     /\ torn' = Untorn(n) /\ broken' = Unbroken(n)
    BY <1>7 DEF Environment, UpstreamUpdate, BumpVersion, Evict, disk, vars
  <2> QED
    BY <1>1, <2>1, HalfStays
<1> QED
  BY <1>2, <1>3, <1>4, <1>5, <1>6, <1>7 DEF Next

\* Half holds always, with any kills and any copies that raise.
THEOREM HalfInvariance == Spec => []Half
<1>1. Init => Half
  BY DEF Init, Half, Writing, Solitary
<1>2. IInv /\ Half /\ [Next]_vars => Half'
  BY NextHalf
<1> QED
  BY <1>1, <1>2, Invariance, PTL DEF Spec

\* A half written file has its writer, or was left by a copy that was killed or raised.
THEOREM TornHasWriter == Spec => []TornIsTransient
<1>1. Half => TornIsTransient
  BY DEF Half, Writing, TornIsTransient
<1> QED
  BY <1>1, HalfInvariance, PTL

\* What the archive had stays in one of the caches, and whole unless a copy of it was
\* interrupted that another one overlapped or came after: a copy that ran alone has not
\* removed its source, and nobody else has.
THEOREM ArchiveKept == Spec => []ArchiveSafe
<1>1. (~Evicting => Shelf) /\ Half => ArchiveSafe
  <2> SUFFICES ASSUME ~Evicting, Shelf, Half, NEW n \in Archived, n \notin secondary
               PROVE  /\ n \in primary
                      /\ \A p \in torn :
                           p[1] = n => Filling(p) \/ <<n, p[2], FALSE>> \in broken
    BY DEF ArchiveSafe
  <2>1. n \in primary
    BY DEF Shelf, Named, OnDisk
  <2>2. \A w : <<n, w, TRUE>> \notin broken
    BY DEF Half, Solitary
  <2>3. ASSUME NEW p \in torn, p[1] = n, ~Filling(p) PROVE <<n, p[2], FALSE>> \in broken
    <3>1. PICK alone \in BOOLEAN : <<n, p[2], alone>> \in broken
      BY <2>3 DEF Half, Writing
    <3> QED
      BY <2>2, <3>1
  <2> QED
    BY <2>1, <2>3
<1> QED
  BY <1>1, ShelfInvariance, HalfInvariance, PTL

-----------------------------------------------------------------------------
(* The length of a request. *)

\* What is left at each place, in numbers.
LEMMA LeftAt ==
  ASSUME NEW j
  PROVE  /\ Left("lookup", j) = 55 /\ Left("save", j) = 54
         /\ Left("fetch", j) = 30 /\ Left("make", j) = 14
         /\ Left("serve", j) = 6 /\ Left("send", j) = 2 /\ Left("latest", j) = 1
         /\ Left("done", j) = 0
BY DEF Left, Phase, StepsOf, Storing, Moving

LEMMA LeftFinding ==
  ASSUME NEW j, NEW s, s \in {"row", "check"} \/ (s \in Moving /\ j.via = "find")
  PROVE  /\ Left(s, j) = StepsOf(s) + IF j.seek = "again" THEN 16
                                      ELSE IF j.seek = "derived" THEN 32 ELSE 40
         /\ StepsOf(s) \in 3 .. 7
BY DEF Left, Phase, StepsOf, Storing, Moving

LEMMA LeftStoring ==
  ASSUME NEW j, NEW s, Storing(s, j)
  PROVE  /\ Left(s, j) = StepsOf(s) + IF j.name.etype = "epub" THEN 24 ELSE 8
         /\ StepsOf(s) \in 1 .. 5
BY DEF Left, Phase, StepsOf, Storing, Moving

LEMMA LeftServing ==
  ASSUME NEW j, NEW s, s \in Moving, j.via = "serve"
  PROVE  Left(s, j) = StepsOf(s) /\ StepsOf(s) \in 3 .. 5
BY DEF Left, Phase, StepsOf, Storing, Moving

\* What w's own step does to what is left of its request.
Nearer(w) == Left(pc'[w], job'[w]) < Left(pc[w], job[w])

\* Nothing but the answer is nearer than the steps of get_cached_export.
LEMMA LeftUnfinished ==
  ASSUME IInv, NEW w \in Workers, pc[w] \notin {"idle", "done"}
  PROVE  Left(pc[w], job[w]) \in Nat \ {0}
<1>1. pc[w] \in PC /\ job[w].via \in {"find", "publish", "serve"}
  BY DEF IInv, Control, Job
<1> QED
  BY <1>1, LeftAt, LeftFinding, LeftStoring, LeftServing DEF PC, Storing, Moving

LEMMA GotoNearer ==
  ASSUME IInv, NEW w \in Workers, NEW s, NEW j, Goto(w, s, j),
         Left(s, j) < Left(pc[w], job[w])
  PROVE  Nearer(w)
<1>1. pc'[w] = s /\ job'[w] = j
  BY DEF Goto, IInv, Control
<1> QED
  BY <1>1 DEF Nearer

LEMMA FinishNearer ==
  ASSUME IInv, NEW w \in Workers, pc[w] \notin {"idle", "done"}, NEW r, Finish(w, r)
  PROVE  Nearer(w)
<1>1. pc'[w] = "done"
  BY DEF Finish, IInv, Control
<1> QED
  BY <1>1, LeftAt, LeftUnfinished DEF Nearer

LEMMA ErrorNearer ==
  ASSUME IInv, NEW w \in Workers, pc[w] \notin {"idle", "done"},
         Abort(w) \/ ExportFailed(w)
  PROVE  Nearer(w)
BY FinishNearer DEF Abort, ExportFailed

\* An answer ends an API request, and leaves a link get_cached_export.
LEMMA AnswerNearer ==
  ASSUME IInv, NEW w \in Workers, Left(pc[w], job[w]) \in 7 .. 60, NEW n, NEW noted,
         Answer(w, n, noted)
  PROVE  Nearer(w)
<1>1. CASE Finish(w, Says("export", n, noted, TRUE))
  <2>1. pc'[w] = "done"
    BY <1>1 DEF Finish, IInv, Control
  <2> QED
    BY <2>1, LeftAt DEF Nearer
<1>2. CASE /\ pc' = [pc EXCEPT ![w] = ToServe(job[w].h)]
           /\ job' = [job EXCEPT ![w] = Link(job[w].etype, job[w].h)]
  <2>1. pc'[w] \in {"latest", "serve"}
    BY <1>2 DEF ToServe, IInv, Control
  <2>2. Left(pc'[w], job'[w]) \in {1, 6}
    BY <2>1, LeftAt
  <2> QED
    BY <2>2 DEF Nearer
<1> QED
  BY <1>1, <1>2 DEF Answer

\* find_existing_export ends: the epub leads to the derived export, a miss to the
\* builders, and the builder's own look, if it fails too, to a conversion.
LEMMA FindNearer ==
  ASSUME IInv, NEW w \in Workers
  PROVE  /\ pc[w] = "row" \/ Finding(pc[w], job[w]) => (Missed(w) => Nearer(w))
         /\ Finding(pc[w], job[w]) => (Found(w) => Nearer(w))
<1> USE DEF Finding
<1>1. job[w] \in Job
  BY DEF IInv, Control
<1>2. ASSUME pc[w] = "row" \/ Finding(pc[w], job[w]), Missed(w) PROVE Nearer(w)
  <2>1. \E j : /\ job[w].seek = "again" => Goto(w, "make", j)
               /\ job[w].seek # "again" => Goto(w, "fetch", j)
    BY <1>2 DEF Missed
  <2>2. \A j : Left("make", j) = 14 /\ Left("fetch", j) = 30
    BY LeftAt
  <2>3. /\ job[w].seek = "again" => 14 < Left(pc[w], job[w])
        /\ job[w].seek # "again" => 30 < Left(pc[w], job[w])
    BY <1>2, LeftFinding
  <2> QED
    BY <2>1, <2>2, <2>3, GotoNearer
<1>3. ASSUME Finding(pc[w], job[w]), Found(w) PROVE Nearer(w)
  <2>1. Left(pc[w], job[w]) \in 7 .. 60
    BY <1>3, LeftFinding
  <2>2. CASE job[w].seek = "epub" /\ Seek(w, "derived", [job[w] EXCEPT !.epub = job[w].name])
    <3> DEFINE j == Sought("derived", [job[w] EXCEPT !.epub = job[w].name])
    <3>1. Goto(w, "row", j)
      BY <2>2 DEF Seek
    <3>2. Left("row", j) = 39
      <4>1. j.seek = "derived"
        BY <1>1 DEF Sought, Job
      <4> HIDE DEF j
      <4> QED
        BY <4>1, LeftFinding DEF StepsOf
    <3>3. 39 < Left(pc[w], job[w])
      BY <1>3, <2>2, LeftFinding
    <3> HIDE DEF j
    <3> QED
      BY <3>1, <3>2, <3>3, GotoNearer
  <2>3. CASE \E noted : Answer(w, job[w].name, noted)
    BY <2>1, <2>3, AnswerNearer
  <2> QED
    BY <1>3, <2>2, <2>3 DEF Found
<1> QED
  BY <1>2, <1>3

\* An upsert ends: the export asked for is answered, its epub leads to the next look.
LEMMA StoredNearer ==
  ASSUME IInv, NEW w \in Workers, pc[w] \in {"stamp", "insert"}, Stored(w)
  PROVE  Nearer(w)
<1>1. job[w] \in Job /\ Storing(pc[w], job[w]) /\ LocalOK(pc[w], job[w], since[w].content)
  BY DEF IInv, Control, Storing
<1>2. Left(pc[w], job[w]) \in 7 .. 60
  BY <1>1, LeftStoring
<1>3. CASE Answer(w, job[w].name, FALSE)
  BY <1>2, <1>3, AnswerNearer
<1>4. CASE job[w].name.etype # job[w].etype /\ Seek(w, "again", job[w])
  <2> DEFINE j == Sought("again", job[w])
  <2>1. Goto(w, "row", j)
    BY <1>4 DEF Seek
  <2>2. Left("row", j) = 23
    <3>1. j.seek = "again"
      BY <1>1 DEF Sought, Job
    <3> HIDE DEF j
    <3> QED
      BY <3>1, LeftFinding DEF StepsOf
  <2>3. job[w].name.etype = "epub"
    BY <1>1, <1>4 DEF LocalOK
  <2>4. 23 < Left(pc[w], job[w])
    BY <1>1, <2>3, LeftStoring
  <2> HIDE DEF j
  <2> QED
    BY <2>1, <2>2, <2>4, GotoNearer
<1> QED
  BY <1>3, <1>4 DEF Stored

\* A file that is to be moved or stored is moved with fewer steps than it was found,
\* fetched or made.
LEMMA StoreNearer ==
  ASSUME IInv, NEW w \in Workers, NEW n, NEW j \in Job
  PROVE  /\ pc[w] = "check" /\ Store(w, "find", n, job[w]) => Nearer(w)
         /\ pc[w] = "fetch" /\ n.etype = "epub" /\ Store(w, "publish", n, j) => Nearer(w)
         /\ pc[w] = "make" /\ n.etype # "epub" /\ Store(w, "publish", n, j) => Nearer(w)
<1>1. job[w] \in Job
  BY DEF IInv, Control
<1>2. ASSUME pc[w] = "check", Store(w, "find", n, job[w]) PROVE Nearer(w)
  <2> DEFINE k == [job[w] EXCEPT !.name = n, !.via = "find"]
  <2>1. PICK s \in {"mkdir", "move"} : Goto(w, s, k)
    BY <1>2 DEF Store
  <2>2. k.via = "find" /\ k.seek = job[w].seek
    BY <1>1 DEF Job
  <2> HIDE DEF k
  <2>3. Left(s, k) < Left(pc[w], job[w])
    BY <1>2, <2>2, LeftFinding DEF StepsOf, Moving
  <2> QED
    BY <2>1, <2>3, GotoNearer
<1>3. ASSUME Store(w, "publish", n, j),
             \/ pc[w] = "fetch" /\ n.etype = "epub"
             \/ pc[w] = "make" /\ n.etype # "epub"
      PROVE  Nearer(w)
  <2> DEFINE k == [j EXCEPT !.name = n, !.via = "publish"]
  <2>1. PICK s \in {"mkdir", "move"} : Goto(w, s, k)
    BY <1>3 DEF Store
  <2>2. k.via = "publish" /\ k.name = n
    BY DEF Job
  <2> HIDE DEF k
  <2>3. Left(s, k) < Left(pc[w], job[w])
    BY <1>3, <2>2, LeftAt, LeftStoring DEF StepsOf, Moving, Storing
  <2> QED
    BY <2>1, <2>3, GotoNearer
<1> QED
  BY <1>2, <1>3

\* A move ends, well or not.
LEMMA MoveNearer ==
  ASSUME IInv, NEW w \in Workers, pc[w] \in Moving,
         MoveDone(w) \/ GiveUp(w) \/ MoveFailed(w)
  PROVE  Nearer(w)
<1>1. Finding(pc[w], job[w]) <=> job[w].via = "find"
  BY DEF Finding, Moving
<1>2. pc[w] \notin {"idle", "done"}
  BY DEF Moving
<1>3. CASE job[w].via = "find" /\ (Found(w) \/ Missed(w))
  BY <1>1, <1>3, FindNearer
<1>4. CASE Abort(w) \/ ExportFailed(w)
  BY <1>2, <1>4, ErrorNearer
<1>5. CASE job[w].via = "publish" /\ Goto(w, "stamp", job[w])
  <2>1. Left("stamp", job[w]) < Left(pc[w], job[w])
    BY <1>5, LeftStoring DEF StepsOf, Moving, Storing
  <2> QED
    BY <1>5, <2>1, GotoNearer
<1>6. CASE job[w].via = "serve" /\ Goto(w, "send", job[w])
  <2>1. Left("send", job[w]) < Left(pc[w], job[w])
    BY <1>6, LeftAt, LeftServing
  <2> QED
    BY <1>6, <2>1, GotoNearer
<1> QED
  BY <1>3, <1>4, <1>5, <1>6 DEF MoveDone, GiveUp, MoveFailed

\* Within a move each step is nearer to its end.
LEMMA OnwardNearer ==
  ASSUME IInv, NEW w \in Workers,
         \/ pc[w] = "mkdir" /\ Goto(w, "move", job[w])
         \/ pc[w] = "move" /\ Goto(w, "copy", job[w])
  PROVE  Nearer(w)
<1>1. PICK s \in {"move", "copy"} : Goto(w, s, job[w]) /\ pc[w] \in Moving \ {s, "copy"}
  BY DEF Moving
<1>2. s \in Moving /\ StepsOf(s) < StepsOf(pc[w])
  BY <1>1 DEF StepsOf, Moving
<1>3. Phase(s, job[w]) = Phase(pc[w], job[w]) /\ Phase(s, job[w]) \in Nat
  BY <1>1, <1>2 DEF Phase, Storing, Moving
<1>4. StepsOf(s) \in Nat /\ StepsOf(pc[w]) \in Nat
  BY <1>1, <1>2 DEF StepsOf, Moving
<1>5. Left(s, job[w]) < Left(pc[w], job[w])
  BY <1>2, <1>3, <1>4 DEF Left
<1> QED
  BY <1>1, <1>5, GotoNearer

\* Looking up the fic, with the backend or without.
LEMMA LookUpNearer ==
  ASSUME IInv, NEW w \in Workers,
         LookUp(w) \/ LookUpDead(w) \/ LookUpFails(w) \/ SaveInfo(w)
  PROVE  Nearer(w)
<1>1. job[w] \in Job
  BY DEF IInv, Control
<1>2. ASSUME NEW m, NEW noted, Reuse(w, m, noted), pc[w] \in {"lookup", "save"}
      PROVE  Nearer(w)
  <2> DEFINE j == [[job[w] EXCEPT !.meta = m, !.note = noted] EXCEPT !.note = FALSE]
             k == Sought("epub", [job[w] EXCEPT !.meta = m, !.note = noted])
  <2>1. Goto(w, "row", k) \/ Goto(w, "fetch", j)
    BY <1>2 DEF Reuse, Seek
  <2>2. k.seek = "epub"
    BY <1>1 DEF Sought, Job
  <2> HIDE DEF j, k
  <2>3. Left("row", k) = 47 /\ Left("fetch", j) = 30
    BY <2>2, LeftAt, LeftFinding DEF StepsOf
  <2>4. Left(pc[w], job[w]) \in {54, 55}
    BY <1>2, LeftAt
  <2> QED
    BY <2>1, <2>3, <2>4, GotoNearer
<1>3. CASE LookUp(w)
  <2> DEFINE j == [job[w] EXCEPT !.meta = content, !.note = FALSE]
  <2>1. Goto(w, "save", j) /\ pc[w] = "lookup"
    BY <1>3 DEF LookUp
  <2> HIDE DEF j
  <2> QED
    BY <2>1, LeftAt, GotoNearer
<1>4. CASE LookUpDead(w) \/ SaveInfo(w)
  BY <1>2, <1>4 DEF LookUpDead, SaveInfo
<1>5. CASE LookUpFails(w)
  BY <1>5, ErrorNearer DEF LookUpFails
<1> QED
  BY <1>3, <1>4, <1>5

\* Looking for an export.
LEMMA SearchNearer ==
  ASSUME IInv, NEW w \in Workers, FindRow(w) \/ FindFile(w) \/ FindFails(w)
  PROVE  Nearer(w)
<1>1. job[w] \in Job
  BY DEF IInv, Control
<1>2. ASSUME NEW n, pc[w] = "row", Goto(w, "check", [job[w] EXCEPT !.name = n, !.ver = 0])
      PROVE  Nearer(w)
  <2> DEFINE j == [job[w] EXCEPT !.name = n, !.ver = 0]
  <2>1. j.seek = job[w].seek
    BY <1>1 DEF Job
  <2> HIDE DEF j
  <2>2. Left("check", j) < Left(pc[w], job[w])
    BY <1>2, <2>1, LeftFinding DEF StepsOf
  <2> QED
    BY <1>2, <2>2, GotoNearer DEF j
<1>3. CASE FindRow(w)
  BY <1>2, <1>3, FindNearer DEF FindRow
<1>4. CASE FindFile(w)
  BY <1>1, <1>4, FindNearer, StoreNearer DEF FindFile, Finding
<1>5. CASE FindFails(w)
  BY <1>5, FindNearer DEF FindFails, Finding
<1> QED
  BY <1>3, <1>4, <1>5

\* Building an export, and storing it.
LEMMA BuildNearer ==
  ASSUME IInv, NEW w \in Workers,
         \/ FetchChapters(w) \/ RenderHtml(w) \/ ConvertEpub(w) \/ BuildFails(w)
         \/ BeginUpsert(w) \/ Upsert(w) \/ UpsertFails(w)
  PROVE  Nearer(w)
<1>1. job[w] \in Job /\ LocalOK(pc[w], job[w], since[w].content) /\ content \in Content
  BY DEF IInv, Control, World
<1>2. CASE FetchChapters(w)
  <2> DEFINE e == Epub(job[w].meta, content)
  <2>1. job[w].meta \in Content
    BY <1>1, <1>2 DEF FetchChapters, LocalOK, Ensuring
  <2>2. e \in Name /\ e.etype = "epub"
    BY <1>1, <2>1, EpubType DEF IsEpub
  <2>3. [job[w] EXCEPT !.epub = e] \in Job
    BY <1>1, <2>2 DEF Job
  <2>4. pc[w] = "fetch" /\ Store(w, "publish", e, [job[w] EXCEPT !.epub = e])
    BY <1>2 DEF FetchChapters
  <2> HIDE DEF e
  <2> QED
    BY <2>2, <2>3, <2>4, StoreNearer
<1>3. CASE RenderHtml(w) \/ ConvertEpub(w)
  <2>1. job[w].epub \in Name /\ job[w].etype # "epub" /\ pc[w] = "make"
    BY <1>1, <1>3 DEF RenderHtml, ConvertEpub, LocalOK, IsEpub
  <2>2. \E n : n.etype # "epub" /\ Store(w, "publish", n, job[w])
    <3>1. CASE RenderHtml(w)
      <4>1. [job[w].epub EXCEPT !.etype = "html"].etype = "html"
        BY <2>1 DEF Name
      <4> QED
        BY <3>1, <4>1 DEF RenderHtml
    <3>2. CASE ConvertEpub(w)
      <4> DEFINE Made(r, b) == [job[w].epub EXCEPT !.etype = job[w].etype, !.run = r,
                                                   !.torn = b]
      <4>1. PICK r \in Runs :
              Store(w, "publish", Made(r, \E p \in torn : p[1] = job[w].epub), job[w])
        BY <3>2 DEF ConvertEpub
      <4>2. \A b : Made(r, b).etype = job[w].etype
        BY <2>1 DEF Name
      <4> HIDE DEF Made
      <4> QED
        BY <2>1, <4>1, <4>2
    <3> QED
      BY <1>3, <3>1, <3>2
  <2> QED
    BY <1>1, <2>1, <2>2, StoreNearer
<1>4. CASE BuildFails(w)
  BY <1>4, ErrorNearer DEF BuildFails
<1>5. CASE BeginUpsert(w)
  <2> DEFINE b == RowsAt(version, job[w].name.etype, StoredKey(job[w])) # {}
             j == [job[w] EXCEPT !.ver = version, !.saw = b]
  <2>1. pc[w] = "stamp" /\ Goto(w, "insert", j)
    BY <1>5 DEF BeginUpsert
  <2> HIDE DEF b
  <2>2. j.name = job[w].name
    BY <1>1 DEF Job
  <2> HIDE DEF j
  <2>3. Left("insert", j) < Left(pc[w], job[w])
    BY <2>1, <2>2, LeftStoring DEF StepsOf, Storing
  <2> QED
    BY <2>1, <2>3, GotoNearer
<1>6. CASE Upsert(w) \/ UpsertFails(w)
  BY <1>6, StoredNearer DEF Upsert, UpsertFails
<1> QED
  BY <1>2, <1>3, <1>4, <1>5, <1>6

\* get_cached_export, which may start over.
StartsOver(w) ==
  /\ pc[w] = "latest" /\ pc'[w] = "lookup"
  /\ Evicting \/ latest[job[w].etype] \in {Failed} \cup secondary

LEMMA ServeNearer ==
  ASSUME IInv, LoggedOnDisk, NEW w \in Workers,
         ServeHash(w) \/ SendFile(w) \/ ServeLatest(w)
  PROVE  Nearer(w) \/ StartsOver(w)
<1>1. job[w] \in Job
  BY DEF IInv, Control
<1>2. CASE ServeHash(w)
  <2> DEFINE j == [job[w] EXCEPT !.name = job[w].h, !.via = "serve"]
  <2>1. pc[w] = "serve" /\ (Goto(w, "mkdir", j) \/ Goto(w, "send", job[w]))
    BY <1>2 DEF ServeHash
  <2>2. j.via = "serve"
    BY <1>1 DEF Job
  <2> HIDE DEF j
  <2>3. Left("mkdir", j) = 5
    BY <2>2, LeftServing DEF StepsOf, Moving
  <2> QED
    BY <2>1, <2>3, LeftAt, GotoNearer
<1>3. CASE SendFile(w)
  <2>1. pc[w] = "send" /\ (Goto(w, "latest", job[w]) \/ \E r : Finish(w, r))
    BY <1>3 DEF SendFile
  <2> QED
    BY <2>1, LeftAt, GotoNearer, FinishNearer
<1>4. CASE ServeLatest(w)
  <2>1. CASE /\ latest[job[w].etype] # None /\ latest[job[w].etype] \notin primary
             /\ Goto(w, "lookup", Link(job[w].etype, job[w].h))
    <3>1. pc[w] = "latest" /\ pc'[w] = "lookup"
      BY <1>4, <2>1 DEF ServeLatest, Goto, IInv, Control
    <3>2. job[w].etype \in ETypes
      BY <1>1 DEF Job
    <3>3. Evicting \/ latest[job[w].etype] \in {Failed} \cup secondary
      BY <2>1, <3>2 DEF LoggedOnDisk
    <3> QED
      BY <3>1, <3>3 DEF StartsOver
  <2> QED
    BY <1>4, <2>1, FinishNearer DEF ServeLatest
<1> QED
  BY <1>2, <1>3, <1>4

\* Every request comes to an end within a number of its own steps that is known before,
\* unless get_cached_export has to start over: no step of another request, of upstream
\* or of the operators, and no failure, adds to what is left of it.
THEOREM NoStepLost == Spec => EachStepCounts
<1> DEFINE Counts(w) ==
      /\ <<pc[w], job[w]>>' # <<pc[w], job[w]>>
      /\ pc[w] # "idle" /\ pc'[w] # "idle"
      => \/ Nearer(w)
         \/ StartsOver(w)
<1>1. ASSUME IInv, LoggedOnDisk, Next PROVE \A w \in Workers : Counts(w)
  <2>1. CASE Environment
    BY <2>1 DEF Environment, UpstreamUpdate, BumpVersion, Evict
  <2>2. ASSUME NEW v \in Workers, Request(v) \/ Crash(v) \/ Return(v)
        PROVE  \A w \in Workers : Counts(w)
    <3>1. pc[v] = "idle" \/ pc'[v] = "idle"
      BY <1>1, <2>2 DEF Request, RequestEpub, RequestPartial, RequestFile, Begin, Crash, Return,
         IInv, Control
    <3>2. \A w \in Workers \ {v} : pc'[w] = pc[w] /\ job'[w] = job[w]
      BY <1>1, <2>2 DEF Request, RequestEpub, RequestPartial, RequestFile, Begin, Crash, Return,
         IInv, Control
    <3> QED
      BY <3>1, <3>2
  <2>3. ASSUME NEW v \in Workers, Step(v), ~Return(v)
        PROVE  \A w \in Workers : Counts(w)
    <3>1. \A w \in Workers \ {v} : pc'[w] = pc[w] /\ job'[w] = job[w]
      BY <1>1, <2>3, StepContinues DEF Continues
    <3>2. Nearer(v) \/ StartsOver(v)
      <4>1. CASE MakeDir(v) \/ OpenCopy(v)
        BY <1>1, <4>1, OnwardNearer DEF MakeDir, OpenCopy
      <4>2. CASE MakeDirFails(v) \/ Rename(v) \/ CloseCopy(v) \/ CopyFails(v) \/ SourceGone(v)
        BY <1>1, <4>2, MoveNearer DEF MakeDirFails, Rename, CloseCopy, CopyFails, SourceGone, Moving
      <4> QED
        BY <1>1, <2>3, <4>1, <4>2, LookUpNearer, SearchNearer, BuildNearer, ServeNearer DEF Step
    <3> QED
      BY <3>1, <3>2
  <2> QED
    BY <1>1, <2>1, <2>2, <2>3 DEF Next
<1>2. IInv /\ LoggedOnDisk /\ [Next]_vars => [\A w \in Workers : Counts(w)]_vars
  BY <1>1
<1> QED
  BY <1>2, Invariance, Kept, PTL DEF Spec, EachStepCounts, Nearer, StartsOver
=============================================================================
