--------------------------- MODULE ExportCacheProofs ---------------------------
(* What holds of ExportCache for every value of its constants. *)
EXTENDS ExportCache, TLAPS

\* Worker states by what ensure_export is doing there.
Finding(s, j) == s = "check" \/ (s \in Moving /\ j.via = "find")
Serving(s, j) == s \in {"serve", "send"} \/ (s \in Moving /\ j.via = "serve")
Ensuring(s, j) == s \in {"save", "row", "fetch", "make"} \/ Finding(s, j) \/ Storing(s, j)

IsEpub(n) == n \in Name /\ n = EpubOf(n)

\* The local state of a worker whose request came in at content c.
LocalOK(s, j, c) ==
  /\ j.kind = "api" => j.etype = "epub" /\ j.h = None
  /\ Ensuring(s, j) => j.meta \in Content
  /\ s = "save" => ~j.note /\ j.meta >= c
  /\ (s = "row" \/ Finding(s, j)) /\ j.seek = "epub" => j.note \/ j.meta >= c
  /\ s = "latest" => j.kind = "link"
  /\ s = "row" \/ Finding(s, j) =>
       /\ j.seek = "epub" => j.meta \notin Hashless
       /\ j.seek # "epub" => j.etype # "epub" /\ IsEpub(j.epub)
  /\ Finding(s, j) =>
       /\ j.name \in Name
       /\ j.seek = "epub" => /\ IsEpub(j.name)
                             /\ j.name.meta = j.meta /\ j.name.chap >= j.meta
       /\ j.seek # "epub" => j.name.etype = j.etype /\ EpubOf(j.name) = j.epub
  /\ Storing(s, j) =>
       /\ j.name \in Name /\ IsEpub(j.epub)
       /\ j.name.etype = "epub" => /\ j.name = j.epub /\ j.name.meta = j.meta
                                   /\ j.name.chap >= j.meta /\ j.name.chap >= c
       /\ j.name.etype # "epub" => j.name.etype = j.etype /\ EpubOf(j.name) = j.epub
  /\ s = "make" => j.etype # "epub" /\ IsEpub(j.epub)
  /\ Serving(s, j) => j.h \in Name
  /\ s \in Moving /\ j.via = "serve" => j.name = j.h

Control ==
  /\ latest \in [ETypes -> Name \cup {None, Failed}]
  /\ issued \subseteq Name
  /\ pc \in [Workers -> PC]
  /\ job \in [Workers -> Job]
  /\ reply \in [Workers -> Reply]
  /\ \A t \in ETypes : latest[t] \in Name => latest[t].etype = t
  /\ \A w \in Workers : job[w].meta <= content
  /\ \A w \in Workers : LocalOK(pc[w], job[w], since[w].content)
  /\ \A w \in Workers : pc[w] # "done" => reply[w] = NoReply
  /\ FreshAnswer

World ==
  /\ content \in Content /\ version \in Version
  /\ ficInfo \in Content \cup {0} /\ ficInfo <= content
  /\ exportLog \subseteq logged /\ logged \subseteq Row
  /\ primary \subseteq Name /\ secondary \subseteq Name
  /\ torn \subseteq Name \X Workers
  /\ broken \subseteq Name \X Workers \X BOOLEAN
  /\ dirs \subseteq ETypes
  /\ since \in [Workers -> [content : Content, version : Version]]
  /\ \A w \in Workers : since[w].content <= content
  /\ LogProvenance
  /\ \A r \in exportLog : r.etype = "epub" => IsEpub(r.hash)

IInv == World /\ Control
-----------------------------------------------------------------------------
(* How a step goes on: each continuation re-establishes Control. *)

Frame == UNCHANGED <<content, since>>

\* Going on to s with locals j, when j is sound at s.
LEMMA GotoOK ==
  ASSUME IInv, Frame, NEW w \in Workers, pc[w] # "done",
         NEW s \in PC \ {"done"}, NEW j \in Job,
         LocalOK(s, j, since[w].content), j.meta <= content,
         Goto(w, s, j)
  PROVE  Control'
<1>1. pc' = [pc EXCEPT ![w] = s] /\ job' = [job EXCEPT ![w] = j]
      /\ latest' = latest /\ issued' = issued /\ reply' = reply
      /\ content' = content /\ since' = since
  BY DEF Goto, Frame
<1>2. pc' \in [Workers -> PC] /\ job' \in [Workers -> Job]
  BY <1>1 DEF IInv, Control
<1>3. \A v \in Workers : LocalOK(pc'[v], job'[v], since'[v].content)
  BY <1>1 DEF IInv, Control
<1>4. \A v \in Workers : pc'[v] # "done" => reply'[v] = NoReply
  BY <1>1 DEF IInv, Control
<1>5. \A v \in Workers : job'[v].meta <= content'
  BY <1>1 DEF IInv, Control
<1>6. FreshAnswer'
  BY <1>1 DEF IInv, Control, FreshAnswer
<1> QED
  BY <1>1, <1>2, <1>3, <1>4, <1>5, <1>6 DEF IInv, Control

\* A fic without bumps has an export version.
LEMMA ZeroVersion == 0 \in Version
BY ExportAssumption DEF Version

\* What is left of a finished request's locals, and that it is sound.
LEMMA EndedIs ==
  ASSUME NEW j \in Job
  PROVE  /\ Ended(j) \in Job /\ Ended(j).meta = 0
         /\ Ended(j).kind = j.kind /\ Ended(j).etype = j.etype /\ Ended(j).h = j.h
         /\ Ended(j).via = j.via /\ Ended(j).name = None
BY ZeroVersion DEF Ended, NoJob, Job, ETypes

LEMMA DoneOK ==
  ASSUME NEW s, NEW j \in Job, NEW c, LocalOK(s, j, c)
  PROVE  LocalOK("done", Ended(j), c)
<1>1. Ended(j).kind = j.kind /\ Ended(j).etype = j.etype /\ Ended(j).h = j.h
  BY EndedIs
<1> QED
  BY <1>1 DEF LocalOK, Ensuring, Finding, Storing, Serving, Moving

\* Ending with a reply that keeps the promise of freshness.
LEMMA FinishOK ==
  ASSUME IInv, Frame, NEW w \in Workers, NEW r \in Reply,
         r.kind = "export" /\ ~r.noted => r.name.chap >= since[w].content,
         latest' \in [ETypes -> Name \cup {None, Failed}],
         \A t \in ETypes : latest'[t] \in Name => latest'[t].etype = t,
         issued' \subseteq Name,
         Finish(w, r)
  PROVE  Control'
<1>1. pc' = [pc EXCEPT ![w] = "done"] /\ job' = [job EXCEPT ![w] = Ended(job[w])]
      /\ reply' = [reply EXCEPT ![w] = r]
      /\ content' = content /\ since' = since
  BY DEF Finish, Frame
<1>2. pc' \in [Workers -> PC] /\ reply' \in [Workers -> Reply]
  BY <1>1 DEF IInv, Control, PC
<1>3. \A v \in Workers : LocalOK(pc'[v], job'[v], since'[v].content)
  BY <1>1, DoneOK DEF IInv, Control
<1>6. Ended(job[w]) \in Job /\ Ended(job[w]).meta = 0 /\ 0 <= content
  BY EndedIs DEF IInv, World, Control, Content
<1>7. job' \in [Workers -> Job] /\ \A v \in Workers : job'[v].meta <= content'
  BY <1>1, <1>6 DEF IInv, Control
<1>4. \A v \in Workers : pc'[v] # "done" => reply'[v] = NoReply
  BY <1>1 DEF IInv, Control
<1>5. FreshAnswer'
  BY <1>1 DEF IInv, Control, FreshAnswer
<1> QED
  BY <1>1, <1>2, <1>3, <1>4, <1>5, <1>7 DEF IInv, Control

\* Says makes a reply.
LEMMA SaysType ==
  ASSUME NEW kind \in {"none", "export", "file", "redirect", "error", "missing"},
         NEW n \in Name \cup {None}, NEW noted \in BOOLEAN, NEW whole \in BOOLEAN
  PROVE  Says(kind, n, noted, whole) \in Reply
BY DEF Says, Reply

\* A request that ends in an error keeps Control.
LEMMA AbortOK ==
  ASSUME IInv, Frame, NEW w \in Workers, Abort(w)
  PROVE  Control'
<1>1. Says("error", None, FALSE, TRUE) \in Reply
  BY SaysType
<1>2. Says("error", None, FALSE, TRUE).kind = "error"
  BY DEF Says
<1> QED
  BY <1>1, <1>2, FinishOK DEF Abort, IInv, Control

\* So does an export that fails, and its requestLog row.
LEMMA ExportFailedOK ==
  ASSUME IInv, Frame, NEW w \in Workers, ExportFailed(w)
  PROVE  Control'
<1>1. Says("error", None, FALSE, TRUE) \in Reply
  BY SaysType
<1>2. Says("error", None, FALSE, TRUE).kind = "error"
  BY DEF Says
<1>3. job[w].etype \in ETypes
  BY DEF IInv, Control, Job
<1>4. latest' = [latest EXCEPT ![job[w].etype] = Failed]
      /\ issued' = issued /\ Finish(w, Says("error", None, FALSE, TRUE))
  BY DEF ExportFailed, LogExport
<1>5. /\ latest' \in [ETypes -> Name \cup {None, Failed}]
      /\ \A t \in ETypes : latest'[t] \in Name => latest'[t].etype = t
  BY <1>3, <1>4, ExportAssumption DEF IInv, Control
<1> QED
  BY <1>1, <1>2, <1>4, <1>5, FinishOK DEF IInv, Control

\* A link's locals when a function is called anew.
LEMMA LinkOK ==
  ASSUME NEW t \in ETypes, NEW h \in Name \cup {None}
  PROVE  Link(t, h) \in Job /\ Link(t, h).meta = 0
BY ZeroVersion DEF Link, NoJob, Job

\* Answering with n, when n is of the type asked for and new enough or noted.
LEMMA AnswerOK ==
  ASSUME IInv, Frame, NEW w \in Workers, pc[w] # "done",
         NEW n \in Name, NEW noted \in BOOLEAN,
         n.etype = job[w].etype,
         job[w].kind = "api" /\ ~noted => n.chap >= since[w].content,
         Answer(w, n, noted)
  PROVE  Control'
<1>1. job[w] \in Job /\ job[w].etype \in ETypes
  BY DEF IInv, Control, Job
<1>2. latest' = [latest EXCEPT ![job[w].etype] = n] /\ issued' = issued \cup {n}
  BY DEF Answer, LogExport
<1>3. /\ latest' \in [ETypes -> Name \cup {None, Failed}]
      /\ \A t \in ETypes : latest'[t] \in Name => latest'[t].etype = t
      /\ issued' \subseteq Name
  BY <1>1, <1>2 DEF IInv, Control
<1>4. CASE job[w].kind = "api"
  <2>1. Says("export", n, noted, TRUE) \in Reply
    BY SaysType
  <2>2. /\ Says("export", n, noted, TRUE).noted = noted
        /\ Says("export", n, noted, TRUE).name = n
    BY DEF Says
  <2>3. Finish(w, Says("export", n, noted, TRUE))
    BY <1>4 DEF Answer
  <2> QED
    BY <1>3, <1>4, <2>1, <2>2, <2>3, FinishOK
<1>5. CASE job[w].kind = "link"
  <2> DEFINE j == Link(job[w].etype, job[w].h)
             s == ToServe(job[w].h)
  <2>1. pc' = [pc EXCEPT ![w] = s] /\ job' = [job EXCEPT ![w] = j]
        /\ reply' = reply /\ content' = content /\ since' = since
    BY <1>5 DEF Answer, Frame
  <2>2. j \in Job /\ j.meta = 0 /\ s \in PC \ {"done"} /\ 0 <= content
    <3>1. job[w].h \in Name \cup {None}
      BY <1>1 DEF Job
    <3>2. 0 <= content
      BY DEF IInv, World, Content
    <3> QED
      BY <1>1, <3>1, <3>2, LinkOK DEF ToServe, PC
  <2>3. LocalOK(s, j, since[w].content)
    BY <1>1 DEF LocalOK, Link, NoJob, ToServe, Ensuring, Finding, Storing, Serving,
                Moving, Job
  <2> HIDE DEF j, s
  <2>4. \A v \in Workers : LocalOK(pc'[v], job'[v], since'[v].content)
    BY <2>1, <2>3 DEF IInv, Control
  <2>5. FreshAnswer'
    BY <2>1 DEF IInv, Control, FreshAnswer
  <2> QED
    BY <1>3, <2>1, <2>2, <2>4, <2>5 DEF IInv, Control
<1> QED
  BY <1>4, <1>5 DEF Answer

\* Looking for an export of the key SoughtHash gives.
LEMMA SeekOK ==
  ASSUME IInv, Frame, NEW w \in Workers, pc[w] # "done",
         NEW s \in {"epub", "derived", "again"}, NEW j \in Job,
         LocalOK("row", Sought(s, j), since[w].content),
         j.meta <= content,
         Seek(w, s, j)
  PROVE  Control'
<1> DEFINE k == Sought(s, j)
<1>1. k \in Job /\ k.meta = j.meta
  BY DEF Sought, Job, IInv, World
<1>2. Goto(w, "row", k) /\ LocalOK("row", k, since[w].content)
  BY DEF Seek
<1> HIDE DEF k
<1> QED
  BY <1>1, <1>2, GotoOK DEF PC

\* Going on without an existing export.
LEMMA MissedOK ==
  ASSUME IInv, Frame, NEW w \in Workers,
         pc[w] = "row" \/ Finding(pc[w], job[w]),
         Missed(w)
  PROVE  Control'
<1>1. job[w] \in Job /\ job[w].meta <= content /\ pc[w] # "done"
      /\ LocalOK(pc[w], job[w], since[w].content)
  BY DEF IInv, Control, Finding, Moving
<1>2. CASE job[w].seek = "again"
  <2> DEFINE k == [job[w] EXCEPT !.name = None, !.ver = 0]
  <2>1. k \in Job /\ k.meta = job[w].meta
    BY <1>1, ZeroVersion DEF Job
  <2>2. LocalOK("make", k, since[w].content)
    BY <1>1, <1>2 DEF LocalOK, Ensuring, Finding, Storing, Serving, Moving, Job
  <2>3. Goto(w, "make", k)
    BY <1>2 DEF Missed
  <2> QED
    BY <1>1, <2>1, <2>2, <2>3, GotoOK DEF PC
<1>3. CASE job[w].seek # "again"
  <2> DEFINE k == [job[w] EXCEPT !.name = None, !.ver = 0, !.note = FALSE,
                                 !.seek = "epub", !.epub = None]
  <2>1. k \in Job /\ k.meta = job[w].meta
    BY <1>1, ZeroVersion DEF Job
  <2>2. LocalOK("fetch", k, since[w].content)
    BY <1>1 DEF LocalOK, Ensuring, Finding, Storing, Serving, Moving, Job
  <2>3. Goto(w, "fetch", k)
    BY <1>3 DEF Missed
  <2> QED
    BY <1>1, <2>1, <2>2, <2>3, GotoOK DEF PC
<1> QED
  BY <1>2, <1>3

\* Going on with the export find_existing_export found.
LEMMA FoundOK ==
  ASSUME IInv, Frame, NEW w \in Workers, Finding(pc[w], job[w]), Found(w)
  PROVE  Control'
<1>1. /\ job[w] \in Job /\ job[w].meta <= content /\ pc[w] # "done"
      /\ LocalOK(pc[w], job[w], since[w].content)
      /\ content \in Nat /\ since[w].content \in Nat
  BY DEF IInv, Control, World, Finding, Moving, Content
<1>2. /\ job[w].name \in Name
      /\ job[w].meta \in Content
      /\ job[w].seek = "epub" => /\ job[w].note \/ job[w].meta >= since[w].content
                                 /\ IsEpub(job[w].name)
                                 /\ job[w].name.meta = job[w].meta
                                 /\ job[w].name.chap >= job[w].meta
      /\ job[w].seek # "epub" => /\ job[w].name.etype = job[w].etype
                                 /\ job[w].etype # "epub"
  BY <1>1 DEF LocalOK, Ensuring
<1>3. job[w].name.chap \in Nat /\ job[w].name.meta \in Nat /\ job[w].meta \in Nat
  BY <1>2 DEF Name, Content
<1>4. job[w].seek = "epub" => job[w].name.etype = "epub"
  BY <1>2 DEF IsEpub, EpubOf, Epub
<1>5. CASE /\ job[w].seek = "epub" /\ job[w].etype # "epub"
           /\ Seek(w, "derived", [job[w] EXCEPT !.epub = job[w].name])
  <2> DEFINE j == [job[w] EXCEPT !.epub = job[w].name]
  <2>1. j \in Job /\ j.meta = job[w].meta
    BY <1>1, <1>2 DEF Job
  <2>2. LocalOK("row", Sought("derived", j), since[w].content)
    BY <1>1, <1>2, <1>5 DEF Sought, LocalOK, Ensuring, Finding, Storing, Serving, Moving, Job
  <2> QED
    BY <1>1, <1>5, <2>1, <2>2, SeekOK
<1>6. CASE /\ job[w].seek = "derived" \/ job[w].etype = "epub"
           /\ Answer(w, job[w].name, job[w].note)
  <2>1. job[w].note \in BOOLEAN
    BY <1>1 DEF Job
  <2>2. job[w].name.etype = job[w].etype
    BY <1>2, <1>4, <1>6
  <2>3. CASE job[w].etype = "epub"
    <3>1. ~job[w].note => job[w].name.chap >= since[w].content
      BY <1>1, <1>2, <1>3, <2>3
    <3> QED
      BY <1>1, <1>2, <1>6, <2>1, <2>2, <3>1, AnswerOK
  <2>4. CASE job[w].etype # "epub"
    BY <1>1, <1>2, <1>6, <2>1, <2>2, <2>4, AnswerOK DEF LocalOK
  <2> QED
    BY <2>3, <2>4
<1>7. CASE job[w].seek = "again" /\ Answer(w, job[w].name, FALSE)
  BY <1>1, <1>2, <1>7, AnswerOK DEF LocalOK
<1> QED
  BY <1>5, <1>6, <1>7 DEF Found

\* Going on to the move of n into the primary cache.
LEMMA StoreOK ==
  ASSUME IInv, Frame, NEW w \in Workers, pc[w] # "done",
         NEW via \in {"find", "publish"}, NEW n \in Name,
         NEW j \in Job, j.meta <= content,
         LocalOK("move", [j EXCEPT !.name = n, !.via = via], since[w].content),
         Store(w, via, n, j)
  PROVE  Control'
<1> DEFINE k == [j EXCEPT !.name = n, !.via = via]
           s == IF n.etype \in dirs THEN "move" ELSE "mkdir"
<1>1. k \in Job /\ k.meta = j.meta
  BY DEF Job
<1>2. LocalOK(s, k, since[w].content)
  BY DEF LocalOK, Ensuring, Finding, Storing, Serving, Moving
<1>3. Goto(w, s, k) /\ s \in PC \ {"done"}
  BY DEF Store, PC
<1> QED
  BY <1>1, <1>2, <1>3, GotoOK

\* What follows when a directory or a move fails ...
LEMMA GiveUpOK ==
  ASSUME IInv, Frame, NEW w \in Workers, pc[w] \in Moving, GiveUp(w)
  PROVE  Control'
BY MissedOK, ExportFailedOK, AbortOK DEF GiveUp, Finding

\* ... or fails and the file is there all the same ...
LEMMA MoveFailedOK ==
  ASSUME IInv, Frame, NEW w \in Workers, pc[w] \in Moving, MoveFailed(w)
  PROVE  Control'
BY GiveUpOK, FoundOK DEF MoveFailed, Finding

\* ... or succeeds.
LEMMA MoveDoneOK ==
  ASSUME IInv, Frame, NEW w \in Workers, pc[w] \in Moving, MoveDone(w)
  PROVE  Control'
<1>1. job[w] \in Job /\ job[w].meta <= content /\ pc[w] # "done"
      /\ LocalOK(pc[w], job[w], since[w].content)
  BY DEF IInv, Control, Moving
<1>2. CASE job[w].via = "find" /\ Found(w)
  BY <1>2, FoundOK DEF Finding
<1>3. CASE job[w].via = "publish" /\ Goto(w, "stamp", job[w])
  <2>1. LocalOK("stamp", job[w], since[w].content)
    BY <1>1, <1>3 DEF LocalOK, Ensuring, Finding, Storing, Serving, Moving
  <2> QED
    BY <1>1, <1>3, <2>1, GotoOK DEF PC
<1>4. CASE job[w].via = "serve" /\ Goto(w, "send", job[w])
  <2>1. LocalOK("send", job[w], since[w].content)
    BY <1>1, <1>4 DEF LocalOK, Ensuring, Finding, Storing, Serving, Moving
  <2> QED
    BY <1>1, <1>4, <2>1, GotoOK DEF PC
<1> QED
  BY <1>2, <1>3, <1>4 DEF MoveDone

\* What follows finalize_export.
LEMMA StoredOK ==
  ASSUME IInv, Frame, NEW w \in Workers, pc[w] \in {"stamp", "insert"}, Stored(w)
  PROVE  Control'
<1>1. job[w] \in Job /\ job[w].meta <= content /\ pc[w] # "done"
      /\ LocalOK(pc[w], job[w], since[w].content)
  BY DEF IInv, Control
<1>2. CASE job[w].name.etype = job[w].etype /\ Answer(w, job[w].name, FALSE)
  <2>1. job[w].name \in Name
        /\ (job[w].name.etype = "epub" => job[w].name.chap >= since[w].content)
        /\ (job[w].kind = "api" => job[w].etype = "epub")
    BY <1>1 DEF LocalOK, Storing
  <2> QED
    BY <1>1, <1>2, <2>1, AnswerOK
<1>3. CASE job[w].name.etype # job[w].etype /\ Seek(w, "again", job[w])
  <2>1. LocalOK("row", Sought("again", job[w]), since[w].content)
    BY <1>1, <1>3 DEF Sought, LocalOK, Ensuring, Finding, Storing, Serving, Moving, Job
  <2> QED
    BY <1>1, <1>3, <2>1, SeekOK
<1> QED
  BY <1>2, <1>3 DEF Stored

\* What follows the lookup of the metadata.
LEMMA ReuseOK ==
  ASSUME IInv, Frame, NEW w \in Workers, pc[w] \in {"lookup", "save"},
         NEW m \in Content, m <= content, NEW noted \in BOOLEAN,
         noted \/ m >= since[w].content,
         Reuse(w, m, noted)
  PROVE  Control'
<1> DEFINE j == [job[w] EXCEPT !.meta = m, !.note = noted]
<1>1. job[w] \in Job /\ pc[w] # "done" /\ LocalOK(pc[w], job[w], since[w].content)
  BY DEF IInv, Control
<1>2. j \in Job /\ j.meta <= content
  BY <1>1 DEF Job
<1>3. CASE m \notin Hashless /\ Seek(w, "epub", j)
  <2>1. LocalOK("row", Sought("epub", j), since[w].content)
    BY <1>1, <1>3 DEF Sought, LocalOK, Ensuring, Finding, Storing, Serving, Moving, Job
  <2> QED
    BY <1>1, <1>2, <1>3, <2>1, SeekOK
<1>4. CASE Goto(w, "fetch", [j EXCEPT !.note = FALSE])
  <2>1. LocalOK("fetch", [j EXCEPT !.note = FALSE], since[w].content)
    BY <1>1 DEF LocalOK, Ensuring, Finding, Storing, Serving, Moving, Job
  <2>2. [j EXCEPT !.note = FALSE] \in Job /\ [j EXCEPT !.note = FALSE].meta <= content
    BY <1>1 DEF Job
  <2> QED
    BY <1>1, <1>4, <2>1, <2>2, GotoOK DEF PC
<1> QED
  BY <1>3, <1>4 DEF Reuse

-----------------------------------------------------------------------------
(* The initial states, and the steps one by one. *)

\* The inputHash of an epub is one.
LEMMA ContentHashType ==
  ASSUME NEW m \in Content
  PROVE  ContentHash(m) \in IHash
BY DEF ContentHash, IHash

\* The invariant holds of an archive and idle workers.
LEMMA InitIInv == Init => IInv
<1> SUFFICES ASSUME Init PROVE IInv
  OBVIOUS
<1>1. /\ 1 \in Content /\ 0 \in Version /\ "epub" \in ETypes
      /\ content = 1 /\ version = 0
  BY ZeroVersion, ExportAssumption DEF Init, Content, ETypes
<1>2. NoJob \in Job /\ NoReply \in Reply
  BY <1>1 DEF NoJob, Job, NoReply, Says, Reply
<1>3. \A n \in Archived : /\ n \in Name /\ n.meta = 1 /\ n.chap = 1
                          /\ EpubOf(n) \in Name /\ (n.etype = "epub" => n = EpubOf(n))
  <2>1. \A n \in Archived : n \in Name /\ n.meta = 1 /\ n.chap = 1
    BY ArchiveAssumption
  <2>2. \A n \in Archived : EpubOf(n) \in Archived /\ (n.etype = "epub" => n = EpubOf(n))
    BY ArchiveAssumption
  <2> QED
    BY <2>1, <2>2
<1>4. \A n \in Archived : ArchivedRow(n) \in Row
  <2> TAKE n \in Archived
  <2>1. n.etype \in ETypes
    BY <1>3 DEF Name
  <2>2. ContentHash(1) \in IHash /\ EpubOf(n) \in IHash
    BY <1>1, <1>3, ContentHashType DEF IHash
  <2> QED
    BY <1>1, <1>3, <2>1, <2>2 DEF ArchivedRow, Row
<1>5. \A n \in Archived :
        /\ ArchivedRow(n).hash = n /\ ArchivedRow(n).etype = n.etype
        /\ n.etype = "epub" => ArchivedRow(n).ihash = ContentHash(n.meta)
        /\ n.etype # "epub" => ArchivedRow(n).ihash = EpubOf(n)
  BY <1>3 DEF ArchivedRow
<1>6. LogProvenance /\ \A r \in exportLog : r.etype = "epub" => IsEpub(r.hash)
  BY <1>3, <1>5 DEF Init, LogProvenance, IsEpub
<1>7. World
  BY <1>1, <1>3, <1>4, <1>6 DEF Init, World
<1>8. \A t \in ETypes : /\ latest[t] \in Name \cup {None}
                        /\ latest[t] \in Name => latest[t].etype = t
  <2> TAKE t \in ETypes
  <2>1. latest[t] = IF \E n \in Archived : n.etype = t
                    THEN CHOOSE n \in Archived : n.etype = t ELSE None
    BY DEF Init
  <2>2. CASE \E n \in Archived : n.etype = t
    <3>1. latest[t] \in Archived /\ latest[t].etype = t
      BY <2>1, <2>2
    <3> QED
      BY <1>3, <3>1
  <2>3. CASE ~\E n \in Archived : n.etype = t
    BY <2>1, <2>3, ExportAssumption
  <2> QED
    BY <2>2, <2>3
<1>9. latest \in [ETypes -> Name \cup {None, Failed}]
  BY <1>8 DEF Init
<1>10. LocalOK("idle", NoJob, 1)
  BY DEF LocalOK, NoJob, Ensuring, Finding, Storing, Serving, Moving
<1>11. FreshAnswer
  BY DEF Init, FreshAnswer, NoReply, Says
<1>12. Control
  <2>1. /\ issued \subseteq Name
        /\ pc = [w \in Workers |-> "idle"] /\ pc \in [Workers -> PC]
        /\ job = [w \in Workers |-> NoJob] /\ job \in [Workers -> Job]
        /\ reply = [w \in Workers |-> NoReply] /\ reply \in [Workers -> Reply]
    BY <1>2, <1>3 DEF Init, PC
  <2>2. \A w \in Workers : job[w].meta <= content
    BY <1>1, <2>1 DEF NoJob
  <2>3. \A w \in Workers : LocalOK(pc[w], job[w], since[w].content)
    BY <1>10, <2>1 DEF Init
  <2> QED
    BY <1>8, <1>9, <1>11, <2>1, <2>2, <2>3 DEF Control
<1> QED
  BY <1>7, <1>12 DEF IInv

\* A step that changes none of World's variables.
LEMMA SameWorld ==
  ASSUME IInv, UNCHANGED <<upstream, ficInfo, exports, disk, since>>
  PROVE  World' /\ Frame
BY DEF IInv, World, Frame, upstream, exports, disk, LogProvenance

\* A request that comes in with locals j at s.
LEMMA BeginStep ==
  ASSUME IInv, NEW w \in Workers, NEW s \in PC \ {"done"}, NEW j \in Job,
         LocalOK(s, j, content), j.meta <= content,
         Begin(w, s, j)
  PROVE  IInv'
<1>1. /\ pc' = [pc EXCEPT ![w] = s] /\ job' = [job EXCEPT ![w] = j]
      /\ since' = [since EXCEPT ![w] = [content |-> content, version |-> version]]
      /\ pc[w] = "idle"
      /\ content' = content /\ version' = version /\ ficInfo' = ficInfo
      /\ UNCHANGED exports /\ latest' = latest /\ issued' = issued
      /\ UNCHANGED disk /\ reply' = reply
  BY DEF Begin, upstream
<1>2. World'
  <2>1. since' \in [Workers -> [content : Content, version : Version]]
        /\ \A v \in Workers : since'[v].content <= content
    BY <1>1 DEF IInv, World, Content
  <2> QED
    BY <1>1, <2>1 DEF IInv, World, LogProvenance, exports, disk
<1>3. reply[w] = NoReply
  BY <1>1 DEF IInv, Control
<1>4. FreshAnswer'
  BY <1>1, <1>3 DEF IInv, Control, World, FreshAnswer, NoReply, Says
<1>5. \A v \in Workers : LocalOK(pc'[v], job'[v], since'[v].content)
  BY <1>1 DEF IInv, Control, World
<1>6. Control'
  BY <1>1, <1>4, <1>5 DEF IInv, Control
<1> QED
  BY <1>2, <1>6 DEF IInv

\* Each of the three requests keeps the invariant.
LEMMA RequestStep ==
  ASSUME IInv, NEW w \in Workers, Request(w)
  PROVE  IInv'
<1>1. 0 <= content /\ "epub" \in ETypes
  BY DEF IInv, World, Content, ETypes
<1>2. CASE RequestEpub(w)
  <2>1. NoJob \in Job /\ NoJob.meta = 0
    BY <1>1, ZeroVersion DEF NoJob, Job
  <2>2. LocalOK("lookup", NoJob, content)
    BY DEF LocalOK, NoJob, Ensuring, Finding, Storing, Serving, Moving
  <2> QED
    BY <1>1, <1>2, <2>1, <2>2, BeginStep DEF RequestEpub, PC
<1>3. CASE RequestPartial(w)
  <2>1. PICK t \in ETypes : Begin(w, "lookup", Link(t, None))
    BY <1>3 DEF RequestPartial
  <2>2. LocalOK("lookup", Link(t, None), content)
    BY DEF LocalOK, Link, NoJob, Ensuring, Finding, Storing, Serving, Moving
  <2> QED
    BY <1>1, <2>1, <2>2, LinkOK, BeginStep DEF PC
<1>4. CASE RequestFile(w)
  <2>1. PICK t \in ETypes, h \in issued \cup {None} : Begin(w, ToServe(h), Link(t, h))
    BY <1>4 DEF RequestFile
  <2>2. h \in Name \cup {None}
    BY DEF IInv, Control
  <2>3. LocalOK(ToServe(h), Link(t, h), content)
    BY <2>2 DEF LocalOK, ToServe, Link, NoJob, Ensuring, Finding, Storing, Serving, Moving
  <2>4. ToServe(h) \in PC \ {"done"}
    BY DEF ToServe, PC
  <2> QED
    BY <1>1, <2>1, <2>2, <2>3, <2>4, LinkOK, BeginStep
<1> QED
  BY <1>2, <1>3, <1>4 DEF Request

\* So does the lookup of the metadata, live, dead or failing.
LEMMA LookUpStep ==
  ASSUME IInv, NEW w \in Workers,
         LookUp(w) \/ LookUpDead(w) \/ LookUpFails(w) \/ SaveInfo(w)
  PROVE  IInv'
<1>1. /\ job[w] \in Job /\ LocalOK(pc[w], job[w], since[w].content)
      /\ job[w].meta <= content
      /\ content \in Content /\ since[w].content <= content
      /\ ficInfo \in Content \cup {0} /\ ficInfo <= content
  BY DEF IInv, World, Control
<1>2. CASE LookUp(w)
  <2> DEFINE j == [job[w] EXCEPT !.meta = content, !.note = FALSE]
  <2>1. World' /\ Frame
    BY <1>2, SameWorld DEF LookUp
  <2>2. j \in Job /\ j.meta <= content
    <3>1. j \in Job
      BY <1>1 DEF Job
    <3>2. j.meta = content
      BY <1>1 DEF Job
    <3> QED
      BY <1>1, <3>1, <3>2 DEF Content
  <2>3. LocalOK("save", j, since[w].content)
    BY <1>1 DEF LocalOK, Ensuring, Finding, Storing, Serving, Moving, Job, Content
  <2>4. pc[w] = "lookup" /\ Goto(w, "save", j)
    BY <1>2 DEF LookUp
  <2>5. Control'
    BY <2>1, <2>2, <2>3, <2>4, GotoOK DEF PC
  <2> QED
    BY <2>1, <2>5 DEF IInv
<1>3. CASE LookUpDead(w)
  <2>1. World' /\ Frame
    BY <1>3, SameWorld DEF LookUpDead
  <2>2. Control'
    <3>1. pc[w] = "lookup" /\ ficInfo \in Content /\ Reuse(w, ficInfo, TRUE)
      BY <1>1, <1>3 DEF LookUpDead
    <3> QED
      BY <1>1, <2>1, <3>1, ReuseOK
  <2> QED
    BY <2>1, <2>2 DEF IInv
<1>4. CASE LookUpFails(w)
  <2>1. World' /\ Frame
    BY <1>4, SameWorld DEF LookUpFails
  <2> QED
    BY <1>4, <2>1, AbortOK DEF LookUpFails, IInv
<1>5. CASE SaveInfo(w)
  <2>1. pc[w] = "save" /\ ficInfo' = job[w].meta /\ Reuse(w, job[w].meta, FALSE)
        /\ UNCHANGED <<upstream, exports, disk, since>>
    BY <1>5 DEF SaveInfo
  <2>2. job[w].meta \in Content /\ job[w].meta >= since[w].content
    BY <1>1, <2>1 DEF LocalOK, Ensuring
  <2>3. World' /\ Frame
    BY <1>1, <2>1, <2>2 DEF IInv, World, Frame, upstream, exports, disk, LogProvenance
  <2>4. Control'
    BY <1>1, <2>1, <2>2, <2>3, ReuseOK
  <2> QED
    BY <2>3, <2>4 DEF IInv
<1> QED
  BY <1>2, <1>3, <1>4, <1>5

\* The row found has the type and the input sought, so its export is the one
\* LogProvenance ties to that input.
LEMMA FindStep ==
  ASSUME IInv, NEW w \in Workers, FindRow(w) \/ FindFile(w) \/ FindFails(w)
  PROVE  IInv'
<1>1. /\ job[w] \in Job /\ LocalOK(pc[w], job[w], since[w].content)
      /\ job[w].meta <= content
  BY DEF IInv, Control
<1>2. World' /\ Frame
  BY SameWorld DEF FindRow, FindFile, FindFails
<1>3. CASE pc[w] \in {"row", "check"} /\ Missed(w)
  BY <1>2, <1>3, MissedOK DEF Finding, IInv
<1>4. CASE FindRow(w) /\ ~Missed(w)
  <2>1. PICK r \in RowsAt(job[w].ver, SoughtType(job[w]), SoughtHash(job[w])) :
          Goto(w, "check", [job[w] EXCEPT !.name = r.hash, !.ver = 0])
    BY <1>4 DEF FindRow
  <2> DEFINE j == [job[w] EXCEPT !.name = r.hash, !.ver = 0]
  <2>2. /\ r \in exportLog /\ r \in Row
        /\ r.etype = SoughtType(job[w]) /\ r.ihash = SoughtHash(job[w])
    BY DEF RowsAt, IInv, World
  <2>3. /\ r.hash \in Name /\ r.hash.etype = r.etype
        /\ r.etype = "epub" => /\ r.ihash = ContentHash(r.hash.meta)
                               /\ r.hash.chap >= r.hash.meta
                               /\ IsEpub(r.hash)
        /\ r.etype # "epub" => r.ihash = EpubOf(r.hash)
    BY <2>2 DEF IInv, World, LogProvenance, Row
  <2>4. j \in Job /\ j.meta = job[w].meta /\ pc[w] = "row"
    BY <1>1, <1>4, <2>3, ZeroVersion DEF Job, FindRow
  <2>5. job[w].seek = "epub" => r.hash.meta = job[w].meta
    <3>1. SUFFICES ASSUME job[w].seek = "epub" PROVE r.hash.meta = job[w].meta
      OBVIOUS
    <3>2. job[w].meta \in Content /\ job[w].meta \notin Hashless
      BY <1>1, <2>4, <3>1 DEF LocalOK, Ensuring
    <3>3. ContentHash(r.hash.meta) = ContentHash(job[w].meta)
      BY <2>2, <2>3, <3>1 DEF SoughtType, SoughtHash
    <3>4. ContentHash(r.hash.meta).meta = ContentHash(job[w].meta).meta
      BY <3>3
    <3> QED
      BY <3>2, <3>4, ExportAssumption DEF ContentHash, Content
  <2>6. LocalOK("check", j, since[w].content)
    <3>1. /\ j.kind = job[w].kind /\ j.etype = job[w].etype /\ j.h = job[w].h
          /\ j.meta = job[w].meta /\ j.note = job[w].note /\ j.epub = job[w].epub
          /\ j.name = r.hash /\ j.seek = job[w].seek
      BY <1>1 DEF Job
    <3> HIDE DEF j
    <3>2. CASE job[w].seek = "epub"
      BY <1>1, <2>2, <2>3, <2>4, <2>5, <3>1, <3>2
         DEF LocalOK, Ensuring, Finding, Storing, Serving, Moving, SoughtType, SoughtHash
    <3>3. CASE job[w].seek # "epub"
      BY <1>1, <2>2, <2>3, <2>4, <3>1, <3>3
         DEF LocalOK, Ensuring, Finding, Storing, Serving, Moving, SoughtType, SoughtHash
    <3> QED
      BY <3>2, <3>3
  <2>7. Control'
    BY <1>1, <1>2, <2>1, <2>4, <2>6, GotoOK DEF PC
  <2> QED
    BY <1>2, <2>7 DEF IInv
<1>5. CASE FindFile(w) /\ ~Missed(w)
  <2>1. pc[w] = "check" /\ job[w].name \in Name /\ Finding(pc[w], job[w])
    BY <1>1, <1>5 DEF FindFile, LocalOK, Finding
  <2>2. CASE Found(w)
    BY <1>2, <2>1, <2>2, FoundOK DEF IInv
  <2>3. CASE Store(w, "find", job[w].name, job[w])
    <3>1. LocalOK("move", [job[w] EXCEPT !.name = job[w].name, !.via = "find"],
                  since[w].content)
      BY <1>1, <2>1 DEF LocalOK, Ensuring, Finding, Storing, Serving, Moving, Job
    <3> QED
      BY <1>1, <1>2, <2>1, <2>3, <3>1, StoreOK DEF IInv
  <2> QED
    BY <1>5, <2>2, <2>3 DEF FindFile
<1> QED
  BY <1>3, <1>4, <1>5 DEF FindRow, FindFile, FindFails

\* A copy that is interrupted is of a name, by a worker.
LEMMA BreakType ==
  ASSUME IInv, NEW w \in Workers, Break(w)
  PROVE  broken' \subseteq Name \X Workers \X BOOLEAN
<1>1. Alone(w) \in BOOLEAN
  BY DEF Alone
<1>2. <<job[w].name, w>> \in torn => job[w].name \in Name
  BY DEF IInv, World
<1> QED
  BY <1>1, <1>2 DEF Break, IInv, World

\* A move touches the disk, and World asks only for its type.
LEMMA MoveStep ==
  ASSUME IInv, NEW w \in Workers,
         \/ MakeDir(w) \/ MakeDirFails(w)
         \/ Rename(w) \/ OpenCopy(w) \/ CloseCopy(w) \/ CopyFails(w) \/ SourceGone(w)
  PROVE  IInv'
<1>1. /\ pc[w] \in Moving /\ pc[w] # "done"
      /\ job[w] \in Job /\ LocalOK(pc[w], job[w], since[w].content)
      /\ job[w].meta <= content
  BY DEF IInv, Control, Moving, MakeDir, MakeDirFails, Rename, OpenCopy, CloseCopy,
         CopyFails, SourceGone
<1>2. job[w].name \in Name /\ job[w].name.etype \in ETypes
  BY <1>1 DEF LocalOK, Finding, Storing, Serving, Job, Name
<1>3. \A s \in {"move", "copy"} : LocalOK(s, job[w], since[w].content)
  BY <1>1 DEF LocalOK, Ensuring, Finding, Storing, Serving, Moving
<1>4. CASE MakeDir(w)
  <2>1. World' /\ Frame
    BY <1>2, <1>4 DEF MakeDir, IInv, World, Frame, upstream, exports, LogProvenance
  <2>2. Control'
    BY <1>1, <1>3, <1>4, <2>1, GotoOK DEF MakeDir, PC
  <2> QED
    BY <2>1, <2>2 DEF IInv
<1>5. CASE MakeDirFails(w)
  BY <1>1, <1>5, SameWorld, GiveUpOK DEF MakeDirFails, IInv
<1>6. CASE SourceGone(w)
  BY <1>1, <1>6, SameWorld, MoveFailedOK DEF SourceGone, IInv
<1>7. /\ Untorn(job[w].name) \subseteq Name \X Workers
      /\ Unbroken(job[w].name) \subseteq Name \X Workers \X BOOLEAN
  BY DEF IInv, World, Untorn, Unbroken
<1>8. CASE Rename(w)
  <2>1. World' /\ Frame
    BY <1>2, <1>7, <1>8
       DEF Rename, IInv, World, Frame, upstream, exports, LogProvenance, WithoutSource
  <2>2. Control'
    BY <1>1, <1>8, <2>1, MoveDoneOK DEF Rename
  <2> QED
    BY <2>1, <2>2 DEF IInv
<1>9. CASE OpenCopy(w)
  <2>1. World' /\ Frame
    BY <1>2, <1>7, <1>9 DEF OpenCopy, IInv, World, Frame, upstream, exports, LogProvenance
  <2>2. Control'
    BY <1>1, <1>3, <1>9, <2>1, GotoOK DEF OpenCopy, PC
  <2> QED
    BY <2>1, <2>2 DEF IInv
<1>10. CASE CloseCopy(w)
  <2>1. secondary' \subseteq Name
    BY <1>10 DEF CloseCopy, IInv, World, WithoutSource
  <2>2. World' /\ Frame
    BY <1>10, <2>1 DEF CloseCopy, IInv, World, Frame, upstream, exports, LogProvenance
  <2>3. Control'
    BY <1>1, <1>10, <2>2, MoveDoneOK, MoveFailedOK DEF CloseCopy
  <2> QED
    BY <2>2, <2>3 DEF IInv
<1>11. CASE CopyFails(w)
  <2>1. broken' \subseteq Name \X Workers \X BOOLEAN
    BY <1>11, BreakType DEF CopyFails
  <2>2. World' /\ Frame
    BY <1>11, <2>1 DEF CopyFails, IInv, World, Frame, upstream, exports, LogProvenance
  <2>3. Control'
    BY <1>1, <1>11, <2>2, MoveFailedOK DEF CopyFails
  <2> QED
    BY <2>2, <2>3 DEF IInv
<1> QED
  BY <1>4, <1>5, <1>6, <1>8, <1>9, <1>10, <1>11

\* The epub of two contents is a name, and its own epub.
LEMMA EpubType ==
  ASSUME NEW m \in Content, NEW c \in Content
  PROVE  /\ IsEpub(Epub(m, c)) /\ Epub(m, c).etype = "epub"
         /\ Epub(m, c).meta = m /\ Epub(m, c).chap = c
BY DEF IsEpub, Epub, EpubOf, Name, ETypes

\* A build: the epub is named by the current content, a derived export by its epub.
LEMMA BuildStep ==
  ASSUME IInv, NEW w \in Workers,
         FetchChapters(w) \/ RenderHtml(w) \/ ConvertEpub(w) \/ BuildFails(w)
  PROVE  IInv'
<1>1. /\ job[w] \in Job /\ LocalOK(pc[w], job[w], since[w].content)
      /\ job[w].meta <= content /\ content \in Content
      /\ since[w].content \in Content /\ since[w].content <= content
  BY DEF IInv, World, Control
<1>2. World' /\ Frame
  BY SameWorld DEF FetchChapters, RenderHtml, ConvertEpub, BuildFails
<1>3. CASE FetchChapters(w)
  <2> DEFINE e == Epub(job[w].meta, content)
             j == [job[w] EXCEPT !.epub = e]
  <2>1. pc[w] = "fetch" /\ job[w].meta \in Content /\ Store(w, "publish", e, j)
    BY <1>1, <1>3 DEF FetchChapters, LocalOK, Ensuring
  <2>2. /\ IsEpub(e) /\ e \in Name /\ e.etype = "epub"
        /\ e.meta = job[w].meta /\ e.chap = content
    BY <1>1, <2>1, EpubType DEF IsEpub
  <2> HIDE DEF e
  <2>3. j \in Job /\ j.meta = job[w].meta
    BY <1>1, <2>2 DEF Job
  <2>4. LocalOK("move", [j EXCEPT !.name = e, !.via = "publish"], since[w].content)
    BY <1>1, <2>1, <2>2 DEF LocalOK, Ensuring, Finding, Storing, Serving, Moving, Job, Content
  <2>5. Control'
    BY <1>1, <1>2, <2>1, <2>2, <2>3, <2>4, StoreOK
  <2> QED
    BY <1>2, <2>5 DEF IInv
<1>4. ASSUME pc[w] = "make", NEW n \in Name, n.etype = job[w].etype,
             EpubOf(n) = job[w].epub, Store(w, "publish", n, job[w])
      PROVE  IInv'
  <2>1. LocalOK("move", [job[w] EXCEPT !.name = n, !.via = "publish"], since[w].content)
    BY <1>1, <1>4 DEF LocalOK, Ensuring, Finding, Storing, Serving, Moving, Job
  <2>2. Control'
    BY <1>1, <1>2, <1>4, <2>1, StoreOK
  <2> QED
    BY <1>2, <2>2 DEF IInv
<1>5. CASE RenderHtml(w)
  <2> DEFINE n == [job[w].epub EXCEPT !.etype = "html"]
  <2>1. /\ pc[w] = "make" /\ job[w].etype = "html" /\ job[w].etype \in ETypes
        /\ Store(w, "publish", n, job[w]) /\ IsEpub(job[w].epub)
    BY <1>1, <1>5 DEF RenderHtml, LocalOK, Job
  <2>2. n \in Name /\ n.etype = job[w].etype
    BY <2>1 DEF IsEpub, Name
  <2>3. EpubOf(n) = job[w].epub
    BY <2>1 DEF IsEpub, EpubOf, Epub, Name
  <2> QED
    BY <1>4, <2>1, <2>2, <2>3
<1>6. CASE ConvertEpub(w)
  <2>1. PICK r \in Runs : Store(w, "publish",
             [job[w].epub EXCEPT !.etype = job[w].etype, !.run = r,
                                 !.torn = \E p \in torn : p[1] = job[w].epub],
             job[w])
    BY <1>6 DEF ConvertEpub
  <2> DEFINE n == [job[w].epub EXCEPT !.etype = job[w].etype, !.run = r,
                                      !.torn = \E p \in torn : p[1] = job[w].epub]
  <2>2. pc[w] = "make" /\ job[w].etype \in ETypes /\ IsEpub(job[w].epub)
    BY <1>1, <1>6 DEF ConvertEpub, LocalOK, Job
  <2>3. n \in Name /\ n.etype = job[w].etype
    BY <2>2 DEF IsEpub, Name
  <2>4. EpubOf(n) = job[w].epub
    BY <2>2 DEF IsEpub, EpubOf, Epub, Name
  <2> QED
    BY <1>4, <2>1, <2>2, <2>3, <2>4
<1>7. CASE BuildFails(w)
  BY <1>2, <1>7, ExportFailedOK DEF BuildFails, IInv
<1> QED
  BY <1>3, <1>5, <1>6, <1>7

\* The row written is the one LogProvenance describes.
LEMMA UpsertStep ==
  ASSUME IInv, NEW w \in Workers, BeginUpsert(w) \/ Upsert(w) \/ UpsertFails(w)
  PROVE  IInv'
<1>1. /\ pc[w] \in {"stamp", "insert"}
      /\ job[w] \in Job /\ LocalOK(pc[w], job[w], since[w].content)
      /\ job[w].meta <= content
  BY DEF IInv, Control, BeginUpsert, Upsert, UpsertFails
<1>2. /\ job[w].name \in Name /\ IsEpub(job[w].epub)
      /\ job[w].meta \in Content /\ job[w].ver \in Version
      /\ job[w].name.etype = "epub" => /\ job[w].name = job[w].epub
                                       /\ job[w].name.meta = job[w].meta
                                       /\ job[w].name.chap >= job[w].meta
      /\ job[w].name.etype # "epub" => EpubOf(job[w].name) = job[w].epub
  BY <1>1 DEF LocalOK, Ensuring, Storing, Job
<1>3. CASE BeginUpsert(w)
  <2> DEFINE saw == RowsAt(version, job[w].name.etype, StoredKey(job[w])) # {}
             j == [job[w] EXCEPT !.ver = version, !.saw = saw]
  <2>1. World' /\ Frame
    BY <1>3, SameWorld DEF BeginUpsert
  <2>2. Goto(w, "insert", j)
    BY <1>3 DEF BeginUpsert
  <2>3. saw \in BOOLEAN
    OBVIOUS
  <2> HIDE DEF saw
  <2>4. j \in Job /\ j.meta = job[w].meta
    BY <1>1, <2>3 DEF Job, IInv, World
  <2>5. LocalOK("insert", j, since[w].content)
    BY <1>1 DEF LocalOK, Ensuring, Finding, Storing, Serving, Moving, Job
  <2>6. Control'
    BY <1>1, <2>1, <2>2, <2>4, <2>5, GotoOK DEF PC
  <2> QED
    BY <2>1, <2>6 DEF IInv
<1>4. CASE Upsert(w)
  <2> DEFINE row == [version |-> job[w].ver, etype |-> job[w].name.etype,
                     ihash |-> StoredKey(job[w]), hash |-> job[w].name]
  <2>1. StoredKey(job[w]) \in IHash /\ job[w].name.etype \in ETypes
    BY <1>2, ContentHashType DEF StoredKey, IHash, IsEpub, Name
  <2>2. row \in Row
    BY <1>2, <2>1 DEF Row
  <2>3. /\ row.hash.etype = row.etype
        /\ row.etype = "epub" => /\ row.ihash = ContentHash(row.hash.meta)
                                 /\ row.hash.chap >= row.hash.meta
                                 /\ IsEpub(row.hash)
        /\ row.etype # "epub" => row.ihash = EpubOf(row.hash)
    BY <1>2 DEF StoredKey
  <2>4. exportLog' \subseteq exportLog \cup {row}
    BY <1>4 DEF Upsert
  <2> HIDE DEF row
  <2>5. exportLog' \subseteq logged' /\ logged' \subseteq Row
    BY <1>4, <2>2, <2>4 DEF Upsert, IInv, World
  <2>6. \A r \in exportLog' : r \in exportLog \/ r = row
    BY <2>4
  <2>7. LogProvenance' /\ \A r \in exportLog' : r.etype = "epub" => IsEpub(r.hash)
    BY <2>3, <2>6 DEF IInv, World, LogProvenance
  <2>8. World' /\ Frame
    BY <1>4, <2>5, <2>7 DEF Upsert, IInv, World, Frame, upstream, disk
  <2>9. Control'
    BY <1>1, <1>4, <2>8, StoredOK DEF Upsert
  <2> QED
    BY <2>8, <2>9 DEF IInv
<1>5. CASE UpsertFails(w)
  BY <1>1, <1>5, SameWorld, StoredOK DEF UpsertFails, IInv
<1> QED
  BY <1>3, <1>4, <1>5

\* Serving a link changes no table.
LEMMA ServeStep ==
  ASSUME IInv, NEW w \in Workers, ServeHash(w) \/ SendFile(w) \/ ServeLatest(w)
  PROVE  IInv'
<1>1. /\ pc[w] # "done" /\ job[w] \in Job /\ LocalOK(pc[w], job[w], since[w].content)
      /\ job[w].meta <= content /\ 0 <= content
  <2>1. pc[w] # "done"
    BY DEF ServeHash, SendFile, ServeLatest
  <2>2. 0 <= content
    BY DEF IInv, World, Content
  <2> QED
    BY <2>1, <2>2 DEF IInv, Control
<1>2. World' /\ Frame
  BY SameWorld DEF ServeHash, SendFile, ServeLatest
<1>3. SUFFICES Control'
  BY <1>2 DEF IInv
<1>4. ASSUME NEW r \in Reply, r.kind # "export", Finish(w, r),
             UNCHANGED <<latest, issued>>
      PROVE  Control'
  BY <1>2, <1>4, FinishOK DEF IInv, Control
<1>5. CASE ServeHash(w)
  <2>1. job[w].h \in Name /\ pc[w] = "serve"
    BY <1>1, <1>5 DEF ServeHash, LocalOK, Serving
  <2>2. CASE Goto(w, "mkdir", [job[w] EXCEPT !.name = job[w].h, !.via = "serve"])
    <3> DEFINE j == [job[w] EXCEPT !.name = job[w].h, !.via = "serve"]
    <3>1. j \in Job /\ j.meta = job[w].meta
      BY <1>1, <2>1 DEF Job
    <3>2. LocalOK("mkdir", j, since[w].content)
      BY <1>1, <2>1 DEF LocalOK, Ensuring, Finding, Storing, Serving, Moving, Job
    <3> QED
      BY <1>1, <1>2, <2>2, <3>1, <3>2, GotoOK DEF PC
  <2>3. CASE Goto(w, "send", job[w])
    <3>1. LocalOK("send", job[w], since[w].content)
      BY <1>1, <2>1 DEF LocalOK, Ensuring, Finding, Storing, Serving, Moving
    <3> QED
      BY <1>1, <1>2, <2>3, <3>1, GotoOK DEF PC
  <2> QED
    BY <1>5, <2>2, <2>3 DEF ServeHash
<1>6. CASE SendFile(w)
  <2>1. job[w].h \in Name /\ pc[w] = "send"
    BY <1>1, <1>6 DEF SendFile, LocalOK, Serving
  <2> DEFINE whole == ~\E p \in torn : p[1] = job[w].h
  <2>2. CASE /\ Finish(w, Says("file", job[w].h, FALSE, whole))
             /\ UNCHANGED <<latest, issued>>
    <3>1. whole \in BOOLEAN
      OBVIOUS
    <3> HIDE DEF whole
    <3>2. Says("file", job[w].h, FALSE, whole) \in Reply
      BY <2>1, <3>1, SaysType
    <3>3. Says("file", job[w].h, FALSE, whole).kind = "file"
      BY DEF Says
    <3> QED
      BY <1>4, <2>2, <3>2, <3>3
  <2>3. CASE Goto(w, "latest", job[w])
    <3>1. LocalOK("latest", job[w], since[w].content)
      BY <1>1, <2>1, ExportAssumption DEF LocalOK, Ensuring, Finding, Storing, Serving, Moving, Job
    <3> QED
      BY <1>1, <1>2, <2>3, <3>1, GotoOK DEF PC
  <2> QED
    BY <1>6, <2>2, <2>3 DEF SendFile
<1>7. CASE ServeLatest(w)
  <2> DEFINE n == latest[job[w].etype]
  <2>1. CASE Finish(w, Says("missing", None, FALSE, TRUE)) /\ UNCHANGED <<latest, issued>>
    <3>1. /\ Says("missing", None, FALSE, TRUE) \in Reply
          /\ Says("missing", None, FALSE, TRUE).kind = "missing"
      BY SaysType DEF Says
    <3> QED
      BY <1>4, <2>1, <3>1
  <2>2. CASE n \in primary /\ Finish(w, Says("redirect", n, FALSE, TRUE))
             /\ UNCHANGED <<latest, issued>>
    <3>1. n \in Name
      BY <2>2 DEF IInv, World
    <3>2. /\ Says("redirect", n, FALSE, TRUE) \in Reply
          /\ Says("redirect", n, FALSE, TRUE).kind = "redirect"
      BY <3>1, SaysType DEF Says
    <3> QED
      BY <1>4, <2>2, <3>2
  <2>3. CASE Goto(w, "lookup", Link(job[w].etype, job[w].h))
    <3> DEFINE j == Link(job[w].etype, job[w].h)
    <3>1. job[w].etype \in ETypes /\ job[w].h \in Name \cup {None}
      BY <1>1 DEF Job
    <3>2. j \in Job /\ j.meta = 0
      BY <3>1, LinkOK
    <3>3. LocalOK("lookup", j, since[w].content)
      BY DEF LocalOK, Link, NoJob, Ensuring, Finding, Storing, Serving, Moving
    <3> QED
      BY <1>1, <1>2, <2>3, <3>2, <3>3, GotoOK DEF PC
  <2> QED
    BY <1>7, <2>1, <2>2, <2>3 DEF ServeLatest
<1> QED
  BY <1>5, <1>6, <1>7

\* The answer is sent, or the process is killed: the worker is as at the start.
LEMMA LeaveStep ==
  ASSUME IInv, NEW w \in Workers, Return(w) \/ Crash(w)
  PROVE  IInv'
<1>1. /\ pc' = [pc EXCEPT ![w] = "idle"] /\ job' = [job EXCEPT ![w] = NoJob]
      /\ since' = [since EXCEPT ![w] = [content |-> 1, version |-> 0]]
      /\ reply' = [reply EXCEPT ![w] = NoReply]
      /\ content' = content /\ version' = version /\ ficInfo' = ficInfo
      /\ UNCHANGED exports /\ latest' = latest /\ issued' = issued
      /\ primary' = primary /\ secondary' = secondary /\ torn' = torn /\ dirs' = dirs
  BY DEF Return, Crash, upstream, disk
<1>0. broken' \subseteq Name \X Workers \X BOOLEAN
  BY BreakType DEF Return, Crash, disk, IInv, World
<1>2. /\ 1 \in Content /\ 0 \in Version /\ 1 <= content /\ "epub" \in ETypes
  BY ZeroVersion, ExportAssumption DEF IInv, World, Content, ETypes
<1>3. NoJob \in Job /\ NoJob.meta = 0 /\ NoReply \in Reply
  BY <1>2 DEF NoJob, Job, NoReply, Says, Reply
<1>4. LocalOK("idle", NoJob, 1)
  BY DEF LocalOK, NoJob, Ensuring, Finding, Storing, Serving, Moving
<1>5. /\ since' \in [Workers -> [content : Content, version : Version]]
      /\ \A v \in Workers : since'[v].content <= content
  BY <1>1, <1>2 DEF IInv, World
<1>6. World'
  BY <1>0, <1>1, <1>5 DEF IInv, World, LogProvenance, exports
<1>7. pc' \in [Workers -> PC] /\ job' \in [Workers -> Job] /\ reply' \in [Workers -> Reply]
  BY <1>1, <1>3 DEF IInv, Control, PC
<1>8. \A v \in Workers : LocalOK(pc'[v], job'[v], since'[v].content)
  BY <1>1, <1>4 DEF IInv, Control, World
<1>9. \A v \in Workers : job'[v].meta <= content
  BY <1>1, <1>2, <1>3 DEF IInv, Control, World, Content
<1>10. \A v \in Workers : pc'[v] # "done" => reply'[v] = NoReply
  BY <1>1 DEF IInv, Control
<1>11. FreshAnswer'
  BY <1>1 DEF IInv, Control, World, FreshAnswer, NoReply, Says
<1>12. Control'
  BY <1>1, <1>7, <1>8, <1>9, <1>10, <1>11 DEF IInv, Control
<1> QED
  BY <1>6, <1>12 DEF IInv

\* Upstream, bumps and deletions: content only grows.
LEMMA EnvironmentStep ==
  ASSUME IInv, Environment
  PROVE  IInv'
<1>1. CASE UpstreamUpdate
  <2>1. content' = content + 1 /\ content' \in Content /\ content \in Nat
    BY <1>1, ExportAssumption DEF UpstreamUpdate, IInv, World, Content
  <2>2. /\ \A w \in Workers : job[w].meta <= content'
        /\ \A w \in Workers : since[w].content <= content'
        /\ ficInfo <= content'
    <3>1. \A w \in Workers : job[w].meta \in Nat /\ since[w].content \in Nat
      BY DEF IInv, Control, World, Job, Content
    <3>2. ficInfo \in Nat
      BY DEF IInv, World, Content
    <3> QED
      BY <2>1, <3>1, <3>2 DEF IInv, Control, World
  <2>3. World'
    BY <1>1, <2>1, <2>2 DEF UpstreamUpdate, IInv, World, disk, exports, LogProvenance
  <2>4. Control'
    BY <1>1, <2>2 DEF UpstreamUpdate, IInv, Control, FreshAnswer
  <2> QED
    BY <2>3, <2>4 DEF IInv
<1>2. CASE BumpVersion
  <2>1. version' \in Version
    BY <1>2, ExportAssumption DEF BumpVersion, IInv, World, Version
  <2>2. World'
    BY <1>2, <2>1 DEF BumpVersion, IInv, World, disk, exports, LogProvenance
  <2>3. Control'
    BY <1>2 DEF BumpVersion, IInv, Control, FreshAnswer
  <2> QED
    BY <2>2, <2>3 DEF IInv
<1>3. CASE Evict
  <2>1. /\ primary' \subseteq Name /\ torn' \subseteq Name \X Workers
        /\ broken' \subseteq Name \X Workers \X BOOLEAN
    BY <1>3 DEF Evict, Untorn, Unbroken, IInv, World
  <2>2. World'
    BY <1>3, <2>1 DEF Evict, IInv, World, upstream, exports, LogProvenance
  <2>3. Control'
    BY <1>3 DEF Evict, IInv, Control, FreshAnswer, upstream
  <2> QED
    BY <2>2, <2>3 DEF IInv
<1> QED
  BY <1>1, <1>2, <1>3 DEF Environment

\* The invariant is inductive.
LEMMA NextIInv == IInv /\ [Next]_vars => IInv'
<1> SUFFICES ASSUME IInv, [Next]_vars PROVE IInv'
  OBVIOUS
<1>1. CASE Environment
  BY <1>1, EnvironmentStep
<1>2. ASSUME NEW w \in Workers, Request(w) PROVE IInv'
  BY <1>2, RequestStep
<1>3. ASSUME NEW w \in Workers, Step(w) PROVE IInv'
  BY <1>3, LookUpStep, FindStep, MoveStep, BuildStep, UpsertStep, ServeStep, LeaveStep
     DEF Step
<1>4. ASSUME NEW w \in Workers, Crash(w) PROVE IInv'
  BY <1>4, LeaveStep
<1>5. CASE UNCHANGED vars
  BY <1>5 DEF vars, IInv, World, Control, LogProvenance, FreshAnswer
<1> QED
  BY <1>1, <1>2, <1>3, <1>4, <1>5 DEF Next

\* IInv holds always: every theorem below is one of its conjuncts.
THEOREM Invariance == Spec => []IInv
<1> QED
  BY InitIInv, NextIInv, PTL DEF Spec

\* Every variable keeps its type, for any workers, contents, versions and types.
THEOREM TypeCorrect == Spec => []TypeOK
<1>1. IInv => TypeOK
  BY DEF IInv, World, Control, TypeOK
<1> QED
  BY <1>1, Invariance, PTL

\* exportLog ties every export to the input it was made from.
THEOREM Provenance == Spec => []LogProvenance
<1>1. IInv => LogProvenance
  BY DEF IInv, World
<1> QED
  BY <1>1, Invariance, PTL

\* No API answer is older than its request unless it says so.
THEOREM Freshness == Spec => []FreshAnswer
<1>1. IInv => FreshAnswer
  BY DEF IInv, Control
<1> QED
  BY <1>1, Invariance, PTL
=============================================================================
