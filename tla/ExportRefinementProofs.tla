-------------------------- MODULE ExportRefinementProofs --------------------------
(* ExportCache implements ExportService for every value of the constants. *)
EXTENDS ExportRefinement, ExportFileProofs

\* What may be in a worker's answer, from what it was asked and no more.
AnswerTo(j, r) ==
  \/ r.kind = "error"
  \/ /\ r.kind = "missing"
     /\ j.kind = "link"
  \/ /\ r.kind = "export"
     /\ j.kind = "api" /\ r.name \in Name /\ r.name.etype = "epub"
  \/ /\ r.kind = "file"
     /\ j.kind = "link" /\ r.name \in Name /\ r.name = j.h
  \/ /\ r.kind = "redirect"
     /\ j.kind = "link" /\ r.name \in Name /\ r.name.etype = j.etype

Answers(w) == pc[w] = "done" => AnswerTo(job[w], reply[w])

\* Going on is no answer.
LEMMA GotoAnswers ==
  ASSUME IInv, NEW w \in Workers, NEW s, s # "done", NEW j, Goto(w, s, j)
  PROVE  Answers(w)'
BY DEF Goto, Answers, IInv, Control

LEMMA FinishAnswers ==
  ASSUME IInv, NEW w \in Workers, NEW r, Finish(w, r), AnswerTo(job[w], r)
  PROVE  Answers(w)'
<1>1. Ended(job[w]).kind = job[w].kind /\ Ended(job[w]).etype = job[w].etype
      /\ Ended(job[w]).h = job[w].h
  BY EndedIs DEF IInv, Control
<1>2. job'[w] = Ended(job[w]) /\ reply'[w] = r
  BY DEF Finish, IInv, Control
<1>3. AnswerTo(Ended(job[w]), r)
  BY <1>1 DEF AnswerTo
<1> QED
  BY <1>2, <1>3 DEF Answers

\* An error answers anything.
LEMMA ErrorAnswers ==
  ASSUME IInv, NEW w \in Workers, Abort(w) \/ ExportFailed(w)
  PROVE  Answers(w)'
<1>1. AnswerTo(job[w], Says("error", None, FALSE, TRUE))
  BY DEF AnswerTo, Says
<1> QED
  BY <1>1, FinishAnswers DEF Abort, ExportFailed

\* An API request was for the epub, and that is what is answered.
LEMMA AnswerAnswers ==
  ASSUME IInv, NEW w \in Workers, NEW n, NEW noted, Answer(w, n, noted),
         job[w].kind = "api" => n \in Name /\ n.etype = "epub"
  PROVE  Answers(w)'
<1>1. CASE job[w].kind = "api" /\ Finish(w, Says("export", n, noted, TRUE))
  <2>1. AnswerTo(job[w], Says("export", n, noted, TRUE))
    BY <1>1 DEF AnswerTo, Says
  <2> QED
    BY <1>1, <2>1, FinishAnswers
<1>2. CASE pc' = [pc EXCEPT ![w] = ToServe(job[w].h)]
  BY <1>2 DEF Answers, ToServe, IInv, Control
<1> QED
  BY <1>1, <1>2 DEF Answer

\* The continuations of find_existing_export.
LEMMA FindAnswers ==
  ASSUME IInv, NEW w \in Workers, Finding(pc[w], job[w]), Missed(w) \/ Found(w)
  PROVE  Answers(w)'
<1>1. ASSUME Missed(w) PROVE Answers(w)'
  BY <1>1, GotoAnswers DEF Missed
<1>2. ASSUME NEW s, NEW e, Seek(w, s, [job[w] EXCEPT !.epub = e]) PROVE Answers(w)'
  BY <1>2, GotoAnswers DEF Seek
<1>3. job[w].kind = "api" => job[w].name \in Name /\ job[w].name.etype = "epub"
  <2> SUFFICES ASSUME job[w].kind = "api"
               PROVE  job[w].name \in Name /\ job[w].name.etype = "epub"
    OBVIOUS
  <2>1. job[w].etype = "epub" /\ job[w].name \in Name
    BY DEF IInv, Control, LocalOK
  <2>2. job[w].seek = "epub" /\ IsEpub(job[w].name)
    BY <2>1 DEF IInv, Control, LocalOK
  <2> QED
    BY <2>1, <2>2 DEF IsEpub, EpubOf, Epub
<1>4. ASSUME Found(w) PROVE Answers(w)'
  BY <1>2, <1>3, <1>4, AnswerAnswers DEF Found
<1> QED
  BY <1>1, <1>4

\* The continuation of create_export.
LEMMA StoredAnswers ==
  ASSUME IInv, NEW w \in Workers, Storing(pc[w], job[w]), Stored(w)
  PROVE  Answers(w)'
<1>1. ASSUME NEW s, Seek(w, s, job[w]) PROVE Answers(w)'
  BY <1>1, GotoAnswers DEF Seek
<1>2. job[w].kind = "api" => job[w].etype = "epub"
  BY DEF IInv, Control, LocalOK
<1>3. job[w].name \in Name
  BY DEF IInv, Control, LocalOK
<1> QED
  BY <1>1, <1>2, <1>3, AnswerAnswers DEF Stored

\* The continuations of a move.
LEMMA MoveAnswers ==
  ASSUME IInv, NEW w \in Workers, pc[w] \in Moving,
         GiveUp(w) \/ MoveFailed(w) \/ MoveDone(w)
  PROVE  Answers(w)'
<1>1. CASE job[w].via = "find"
  BY <1>1, FindAnswers DEF GiveUp, MoveFailed, MoveDone, Finding
<1>2. CASE job[w].via # "find"
  BY <1>2, ErrorAnswers, GotoAnswers DEF GiveUp, MoveFailed, MoveDone
<1> QED
  BY <1>1, <1>2

\* Whatever step a worker takes, what it answers is an answer to its request.
LEMMA StepAnswers ==
  ASSUME IInv, NEW w \in Workers, Step(w), ~Return(w)
  PROVE  Answers(w)'
<1>1. CASE LookUp(w) \/ LookUpDead(w) \/ LookUpFails(w) \/ SaveInfo(w)
  BY <1>1, GotoAnswers, ErrorAnswers
     DEF LookUp, LookUpDead, LookUpFails, SaveInfo, Reuse, Seek
<1>2. CASE FindRow(w) \/ FindFails(w)
  <2>1. ASSUME Missed(w) PROVE Answers(w)'
    BY <2>1, GotoAnswers DEF Missed
  <2> QED
    BY <1>2, <2>1, GotoAnswers DEF FindRow, FindFails
<1>3. CASE FindFile(w)
  <2>1. Finding(pc[w], job[w])
    BY <1>3 DEF FindFile, Finding
  <2> QED
    BY <1>3, <2>1, FindAnswers, GotoAnswers DEF FindFile, Store
<1>4. CASE MakeDir(w) \/ OpenCopy(w)
  BY <1>4, GotoAnswers DEF MakeDir, OpenCopy
<1>5. CASE MakeDirFails(w) \/ Rename(w) \/ CloseCopy(w) \/ CopyFails(w) \/ SourceGone(w)
  <2>1. pc[w] \in Moving
    BY <1>5 DEF MakeDirFails, Rename, CloseCopy, CopyFails, SourceGone, Moving
  <2> QED
    BY <1>5, <2>1, MoveAnswers DEF MakeDirFails, Rename, CloseCopy, CopyFails, SourceGone
<1>6. CASE FetchChapters(w) \/ RenderHtml(w) \/ ConvertEpub(w) \/ BuildFails(w)
  BY <1>6, GotoAnswers, ErrorAnswers
     DEF FetchChapters, RenderHtml, ConvertEpub, BuildFails, Store
<1>7. CASE BeginUpsert(w)
  BY <1>7, GotoAnswers DEF BeginUpsert
<1>8. CASE Upsert(w) \/ UpsertFails(w)
  <2>1. Storing(pc[w], job[w])
    BY <1>8 DEF Upsert, UpsertFails, Storing
  <2> QED
    BY <1>8, <2>1, StoredAnswers DEF Upsert, UpsertFails
<1>9. CASE ServeHash(w)
  BY <1>9, GotoAnswers DEF ServeHash
<1>10. CASE SendFile(w)
  <2>1. job[w].h \in Name /\ job[w].kind = "link"
    BY <1>10, ExportAssumption DEF SendFile, IInv, Control, LocalOK, Serving, Job
  <2>2. \A b : AnswerTo(job[w], Says("file", job[w].h, FALSE, b))
    BY <2>1 DEF AnswerTo, Says
  <2> QED
    BY <1>10, <2>2, FinishAnswers, GotoAnswers DEF SendFile
<1>11. CASE ServeLatest(w)
  <2> DEFINE n == latest[job[w].etype]
  <2>1. job[w].kind = "link" /\ job[w].etype \in ETypes
    BY <1>11 DEF ServeLatest, IInv, Control, LocalOK, Job
  <2>2. AnswerTo(job[w], Says("missing", None, FALSE, TRUE))
    BY <2>1 DEF AnswerTo, Says
  <2>3. n \in primary => AnswerTo(job[w], Says("redirect", n, FALSE, TRUE))
    BY <2>1 DEF AnswerTo, Says, IInv, Control, World
  <2> QED
    BY <1>11, <2>2, <2>3, FinishAnswers, GotoAnswers DEF ServeLatest
<1> QED
  BY <1>1, <1>2, <1>3, <1>4, <1>5, <1>6, <1>7, <1>8, <1>9, <1>10, <1>11 DEF Step

-----------------------------------------------------------------------------
(* Each step is one of the service's, or changes nothing the service sees. *)

\* Steps that neither the request nor the answer shows.
LEMMA SameAsked ==
  ASSUME \A w \in Workers : pc[w] = "idle" <=> pc'[w] = "idle",
         \A w \in Workers : SameRequest(job'[w], job[w])
  PROVE  Asked' = Asked
BY DEF Asked, SameRequest

\* A step of a request that is not over stutters or delivers the answer.
LEMMA StepRefines ==
  ASSUME IInv, IInv', NEW w \in Workers, Step(w), ~Return(w)
  PROVE  Service!Deliver(w) \/ UNCHANGED Service!vars
<1>1. Continues(w) /\ Answers(w)'
  BY StepContinues, StepAnswers
<1>2. pc[w] # "idle" /\ pc[w] # "done"
  BY DEF Step, LookUp, LookUpDead, LookUpFails, SaveInfo, FindRow, FindFile,
     FindFails, MakeDir, MakeDirFails, Rename, OpenCopy, CloseCopy, CopyFails, SourceGone,
     FetchChapters, RenderHtml, ConvertEpub, BuildFails, BeginUpsert, Upsert,
     UpsertFails, ServeHash, SendFile, ServeLatest
<1>3. content' = content /\ since' = since
  BY DEF Step, LookUp, LookUpDead, LookUpFails, SaveInfo, FindRow, FindFile,
     FindFails, MakeDir, MakeDirFails, Rename, OpenCopy, CloseCopy, CopyFails, SourceGone,
     FetchChapters, RenderHtml, ConvertEpub, BuildFails, BeginUpsert, Upsert,
     UpsertFails, ServeHash, SendFile, ServeLatest, upstream
<1>4. Asked' = Asked
  <2>1. \A v \in Workers : pc[v] = "idle" <=> pc'[v] = "idle"
    BY <1>1, <1>2 DEF Continues
  <2>2. \A v \in Workers : SameRequest(job'[v], job[v])
    BY <1>1 DEF Continues, SameRequest
  <2> QED
    BY <2>1, <2>2, SameAsked
<1>5. reply \in [Workers -> Reply] /\ reply' \in [Workers -> Reply]
  BY DEF IInv, Control
<1>6. CASE pc'[w] # "done"
  <2>1. reply' = reply
    BY <1>1, <1>5, <1>6 DEF Continues
  <2> QED
    BY <1>3, <1>4, <2>1 DEF Service!vars
<1>7. CASE pc'[w] = "done"
  <2>1. reply[w] = NoReply
    BY <1>2 DEF IInv, Control
  <2>2. reply' = [reply EXCEPT ![w] = reply'[w]]
    BY <1>1, <1>5 DEF Continues
  <2>3. Asked[w] = [kind |-> job[w].kind, etype |-> job[w].etype, h |-> job[w].h]
    BY <1>2 DEF Asked
  <2>4. Asked[w] # NotAsked
    BY <2>3 DEF NotAsked, IInv, Control, Job
  <2>5. AnswerTo(Asked[w], reply'[w])
    BY <1>1, <1>7, <2>3 DEF Answers, AnswerTo, Continues, SameRequest
  <2>6. reply'[w].kind = "export" /\ ~reply'[w].noted => reply'[w].name.chap >= since[w].content
    BY <1>3 DEF IInv, Control, FreshAnswer
  <2>7. Service!Acceptable(w, reply'[w])
    BY <2>5, <2>6 DEF Service!Acceptable, AnswerTo
  <2> QED
    BY <1>3, <1>4, <1>5, <2>1, <2>2, <2>4, <2>7 DEF Service!Deliver
<1> QED
  BY <1>6, <1>7

\* A request that comes in asks the service.
LEMMA RequestRefines ==
  ASSUME IInv, IInv', NEW w \in Workers, Request(w)
  PROVE  Service!Ask(w)
<1> DEFINE Req(j) == [kind |-> j.kind, etype |-> j.etype, h |-> j.h]
<1>1. PICK s, j : Begin(w, s, j) /\ s # "idle" /\ Req(j) \in Requests
  <2>1. /\ Req(NoJob) \in Requests
        /\ \A t \in ETypes, h \in Name \cup {None} :
             Req(Link(t, h)) \in Requests /\ ToServe(h) # "idle"
    BY DEF NoJob, Link, Requests, ToServe
  <2>2. issued \subseteq Name
    BY DEF IInv, Control
  <2> HIDE DEF Req
  <2> QED
    BY <2>1, <2>2 DEF Request, RequestEpub, RequestPartial, RequestFile
<1>2. /\ pc[w] = "idle"
      /\ pc' = [pc EXCEPT ![w] = s] /\ job' = [job EXCEPT ![w] = j]
      /\ since' = [since EXCEPT ![w] = [content |-> content, version |-> version]]
      /\ content' = content /\ reply' = reply
  BY <1>1 DEF Begin, upstream
<1>3. Asked[w] = NotAsked
  BY <1>2 DEF Asked
<1>4. Asked' = [Asked EXCEPT ![w] = Req(j)]
  BY <1>1, <1>2 DEF Asked, IInv, Control
<1>5. Asked'[w] = Req(j)
  BY <1>4 DEF Asked
<1>6. [v \in Workers |-> since[v].content]'
        = [[v \in Workers |-> since[v].content] EXCEPT ![w] = content]
  BY <1>2 DEF IInv, World
<1> QED
  BY <1>1, <1>2, <1>3, <1>4, <1>5, <1>6 DEF Service!Ask

\* An answer that is sent, or a worker that dies, leaves.
LEMMA LeaveRefines ==
  ASSUME IInv, NEW w \in Workers, Return(w) \/ Crash(w)
  PROVE  Service!Leave(w)
<1>1. /\ pc[w] # "idle"
      /\ pc' = [pc EXCEPT ![w] = "idle"] /\ job' = [job EXCEPT ![w] = NoJob]
      /\ since' = [since EXCEPT ![w] = [content |-> 1, version |-> 0]]
      /\ reply' = [reply EXCEPT ![w] = NoReply]
      /\ content' = content
  BY DEF Return, Crash, upstream
<1>2. Asked[w] # NotAsked
  BY <1>1 DEF Asked, NotAsked, IInv, Control, Job
<1>3. Asked' = [Asked EXCEPT ![w] = NotAsked]
  BY <1>1 DEF Asked, IInv, Control
<1>4. [v \in Workers |-> since[v].content]'
        = [[v \in Workers |-> since[v].content] EXCEPT ![w] = 1]
  BY <1>1 DEF IInv, World
<1> QED
  BY <1>1, <1>2, <1>3, <1>4 DEF Service!Leave

LEMMA NextRefines == IInv /\ IInv' /\ [Next]_vars => [Service!Next]_(Service!vars)
<1> SUFFICES ASSUME IInv, IInv', [Next]_vars PROVE [Service!Next]_(Service!vars)
  OBVIOUS
<1>1. ASSUME NEW w \in Workers, Step(w) PROVE [Service!Next]_(Service!vars)
  BY <1>1, StepRefines, LeaveRefines DEF Service!Next
<1>2. ASSUME NEW w \in Workers, Request(w) PROVE [Service!Next]_(Service!vars)
  BY <1>2, RequestRefines DEF Service!Next
<1>3. ASSUME NEW w \in Workers, Crash(w) PROVE [Service!Next]_(Service!vars)
  BY <1>3, LeaveRefines DEF Service!Next
<1>4. CASE UpstreamUpdate
  <2>1. Asked' = Asked /\ [w \in Workers |-> since[w].content]'
                          = [w \in Workers |-> since[w].content]
    BY <1>4 DEF UpstreamUpdate, Asked
  <2> QED
    BY <1>4, <2>1 DEF UpstreamUpdate, Service!Update, Service!Next
<1>5. CASE BumpVersion \/ Evict \/ UNCHANGED vars
  <2>1. UNCHANGED <<content, pc, job, since, reply>>
    BY <1>5 DEF BumpVersion, Evict, vars, upstream
  <2> QED
    BY <2>1 DEF Service!vars, Asked
<1> QED
  BY <1>1, <1>2, <1>3, <1>4, <1>5 DEF Next, Environment

\* What is answered is what the service allows, for every set of workers and
\* whatever happens around them.
THEOREM Implementation == Spec => ImplementsService
<1>1. Init => Service!Init
  BY DEF Init, Service!Init, Asked, NoReply
<1>2. IInv /\ IInv' /\ [Next]_vars => [Service!Next]_(Service!vars)
  BY NextRefines
<1> QED
  BY <1>1, <1>2, Invariance, PTL DEF Spec, ImplementsService, Service!Spec
=============================================================================
