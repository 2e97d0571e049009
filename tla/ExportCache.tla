------------------------------ MODULE ExportCache ------------------------------
(***************************************************************************)
(* The export pipeline of one fic: ensure_export and get_cached_export     *)
(* (main.py), the export builders and the two cache directories            *)
(* (ebook.py), and the three tables they share, exportLog, requestLog and  *)
(* ficInfo (db.py).  Exports of two fics share neither row nor file, and a *)
(* directory only if the ids differ in case alone; so one fic is enough.   *)
(*                                                                         *)
(* A worker is a uwsgi thread serving one request at a time.  An action is *)
(* the code between two accesses to shared state.                          *)
(*                                                                         *)
(* A file is named by the hash of its bytes.  The hash is modelled as the  *)
(* record of everything the bytes are a function of (no collisions):       *)
(*   etype  the export type;                                               *)
(*   meta   the upstream content the metadata was looked up from;          *)
(*   chap   the upstream content the chapters were fetched from;           *)
(*   run    which conversion made it: calibre stamps mobi and pdf files    *)
(*          with the time, epub and html are functions of their input (0); *)
(*   torn   whether the conversion read a half written epub.               *)
(***************************************************************************)
EXTENDS Integers, FiniteSets

CONSTANTS
  Workers,      \* the threads of all processes
  Asks,         \* what clients send: <<"epub", "partial" or "file", the export type>>
  Derived,      \* the export types in use besides epub
  MaxContent,   \* bound: upstream changes the fic at most MaxContent - 1 times
  Hashless,     \* the upstream contents that come without a contentHash
  MaxVersion,   \* bound: the fic's export version is bumped at most that often
  Runs,         \* bound: the outcomes of a conversion told apart
  Archived,     \* exports made before the cache moved: logged, in the secondary
  Renames,      \* the sources shutil.move can rename from ("tmp", "secondary")
  Evicting,     \* whether files are deleted from the primary cache
  Crashing,     \* whether processes are killed
  None,         \* no hash, no row
  Failed        \* a requestLog row whose exportFileHash is null

Content == 1 .. MaxContent
Version == 0 .. MaxVersion
ETypes == {"epub"} \cup Derived

Name == [etype : ETypes, meta : Content, chap : Content,
         run : Runs \cup {0}, torn : BOOLEAN]

Epub(m, c) == [etype |-> "epub", meta |-> m, chap |-> c, run |-> 0, torn |-> FALSE]

\* The epub an export was made from.
EpubOf(n) == Epub(n.meta, n.chap)

\* Mutant: every epub is filed under "upstream".
ContentHashUpstream(m) == [etype |-> "upstream", meta |-> 0]

\* The inputHash of an epub: the contentHash, or the literal "upstream".
ContentHash(m) == [etype |-> "upstream", meta |-> IF m \in Hashless THEN 0 ELSE m]

IHash == [etype : {"upstream"}, meta : Content \cup {0}] \cup Name

Row == [version : Version, etype : ETypes, ihash : IHash, hash : Name]

ASSUME ExportAssumption ==
  /\ Asks \subseteq {"epub", "partial", "file"} \X ETypes
  /\ Derived \subseteq {"html", "mobi", "pdf"}
  /\ MaxContent \in Nat \ {0}
  /\ MaxVersion \in Nat
  /\ Hashless \subseteq Content
  /\ Runs \subseteq Nat \ {0}
  /\ Evicting \in BOOLEAN
  /\ Crashing \in BOOLEAN
  /\ None \notin Name /\ Failed \notin Name /\ None # Failed

\* What was archived is whole, of the first content, at most one export a type,
\* and what was converted was converted from the archived epub.
ASSUME ArchiveAssumption ==
  /\ Archived \subseteq {n \in Name : n.meta = 1 /\ n.chap = 1 /\ ~n.torn}
  /\ \A m, n \in Archived : m.etype = n.etype => m = n
  /\ \A n \in Archived : n.etype = "epub" => n = EpubOf(n)
  /\ \A n \in Archived : EpubOf(n) \in Archived

VARIABLES
  content,    \* upstream: the fic's current content
  version,    \* ficVersionBump: what the fic adds to the export version
  ficInfo,    \* ficInfo: the content its row was saved from, 0 without a row
  exportLog,  \* exportLog: a set of rows
  logged,     \* history: every row that exportLog ever had
  latest,     \* requestLog: the hash in the most recent row of each etype
  issued,     \* history: the hashes that answers have given out
  primary,    \* names of the files in the primary cache
  secondary,  \* names of the files in the secondary cache
  torn,       \* <<n, w>>: w was the last to truncate primary file n, and has not filled it
  broken,     \* history: <<n, w, alone>>: that copy was killed or raised, see Break
  dirs,       \* the etypes whose directory for this fic exists in the primary
  pc, job,    \* each worker's program counter and local variables
  since,      \* history: what was current when the worker's request came in
  reply       \* what the worker answers

upstream == <<content, version>>
exports == <<exportLog, logged>>
disk == <<primary, secondary, torn, broken, dirs>>
vars == <<content, version, ficInfo, exportLog, logged, latest, issued,
          primary, secondary, torn, broken, dirs, pc, job, since, reply>>

Job == [kind : {"api", "link"},     \* api_v0_epub, or a /cache/ link
        etype : ETypes,
        h : Name \cup {None},       \* the link's h argument
        meta : Content \cup {0},    \* the meta looked up
        note : BOOLEAN,             \* "backend api is down; results may be stale"
        epub : Name \cup {None},    \* the epub found or created
        name : Name \cup {None},    \* the file being looked for, moved or stored
        seek : {"epub", "derived", "again"},   \* which find_existing_export
        via : {"find", "publish", "serve"},    \* who moves the file
        ver : Version,              \* the export version it read
        saw : BOOLEAN]              \* whether the row was there at the upsert's start

NoJob == [kind |-> "api", etype |-> "epub", h |-> None, meta |-> 0, note |-> FALSE,
          epub |-> None, name |-> None, seek |-> "epub", via |-> "find",
          ver |-> 0, saw |-> FALSE]

Reply == [kind : {"none", "export", "file", "redirect", "error", "missing"},
          name : Name \cup {None}, noted : BOOLEAN, whole : BOOLEAN]

Says(kind, n, noted, whole) ==
  [kind |-> kind, name |-> n, noted |-> noted, whole |-> whole]

NoReply == Says("none", None, FALSE, TRUE)

PC == {"idle", "lookup", "save", "row", "check", "mkdir", "move", "copy", "fetch",
       "stamp", "insert", "make", "serve", "send", "latest", "done"}

ArchivedRow(n) ==
  [version |-> 0, etype |-> n.etype, hash |-> n,
   ihash |-> IF n.etype = "epub" THEN ContentHash(1) ELSE EpubOf(n)]

Init ==
  /\ content = 1 /\ version = 0
  /\ ficInfo = IF Archived = {} THEN 0 ELSE 1
  /\ exportLog = {ArchivedRow(n) : n \in Archived} /\ logged = exportLog
  /\ latest = [t \in ETypes |-> IF \E n \in Archived : n.etype = t
                                THEN CHOOSE n \in Archived : n.etype = t
                                ELSE None]
  /\ issued = Archived
  /\ primary = {} /\ secondary = Archived /\ torn = {} /\ broken = {} /\ dirs = {}
  /\ pc = [w \in Workers |-> "idle"] /\ job = [w \in Workers |-> NoJob]
  /\ since = [w \in Workers |-> [content |-> 1, version |-> 0]]
  /\ reply = [w \in Workers |-> NoReply]
Moving == {"mkdir", "move", "copy"}

Storing(s, j) == s \in {"stamp", "insert"} \/ (s \in Moving /\ j.via = "publish")
-----------------------------------------------------------------------------
(* How a step of worker w goes on.  Each of these says what happens to     *)
(* latest, issued, pc, job and reply; j is the worker's updated local      *)
(* state, in which a variable that goes out of scope has no value.         *)

Goto(w, s, j) ==
  /\ pc' = [pc EXCEPT ![w] = s]
  /\ job' = [job EXCEPT ![w] = j]
  /\ UNCHANGED <<latest, issued, reply>>

\* find_existing_export reads the export version first.
Sought(s, j) == [j EXCEPT !.seek = s, !.ver = version,
                          !.name = None, !.via = "find", !.saw = FALSE]

\* Mutant: the export version is not read again.
SeekUnversioned(w, s, j) == Goto(w, "row", [Sought(s, j) EXCEPT !.ver = j.ver])

Seek(w, s, j) == Goto(w, "row", Sought(s, j))

\* build_export_path(create=True): directories are never removed, so one that
\* exists now needs no mkdir.
Store(w, via, n, j) ==
  Goto(w, IF n.etype \in dirs THEN "move" ELSE "mkdir",
       [j EXCEPT !.name = n, !.via = via])

\* The locals of a request that has ended: what it asked, and which function had
\* moved or looked for a file last.
Ended(j) == [NoJob EXCEPT !.kind = j.kind, !.etype = j.etype, !.h = j.h, !.via = j.via]

Finish(w, r) ==
  /\ pc' = [pc EXCEPT ![w] = "done"]
  /\ job' = [job EXCEPT ![w] = Ended(job[w])]
  /\ reply' = [reply EXCEPT ![w] = r]

\* What a link's request itself says: its locals when a function is called anew.
Link(t, h) == [NoJob EXCEPT !.kind = "link", !.etype = t, !.h = h]

\* get_cached_export looks for the link's hash first, if it has one.
ToServe(h) == IF h = None THEN "latest" ELSE "serve"

\* Mutant: only failures are logged.
LogExportNot(t, n) == IF n = Failed THEN latest' = [latest EXCEPT ![t] = n]
                                    ELSE UNCHANGED latest

\* RequestLog.insert
LogExport(t, n) == latest' = [latest EXCEPT ![t] = n]

\* ensure_export succeeds: a requestLog row with the hash, then either the
\* JSON answer or, for a link, get_cached_export.
Answer(w, n, noted) ==
  /\ LogExport(job[w].etype, n)
  /\ issued' = issued \cup {n}
  /\ \/ job[w].kind = "api" /\ Finish(w, Says("export", n, noted, TRUE))
     \/ /\ job[w].kind = "link"
        /\ pc' = [pc EXCEPT ![w] = ToServe(job[w].h)]
        /\ job' = [job EXCEPT ![w] = Link(job[w].etype, job[w].h)]
        /\ UNCHANGED reply

Abort(w) ==
  /\ Finish(w, Says("error", None, FALSE, TRUE))
  /\ UNCHANGED <<latest, issued>>

\* export_failed: a requestLog row with neither file nor hash, then the error.
ExportFailed(w) ==
  /\ LogExport(job[w].etype, Failed)
  /\ Finish(w, Says("error", None, FALSE, TRUE))
  /\ UNCHANGED issued

\* find_existing_export returned the file.  The caller is ensure_export, which
\* goes on from an epub to the derived export, or an export builder.
Found(w) ==
  LET j == job[w] IN
  \/ /\ j.seek = "epub" /\ j.etype # "epub"
     /\ Seek(w, "derived", [j EXCEPT !.epub = j.name])
  \/ /\ j.seek = "derived" \/ j.etype = "epub"
     /\ Answer(w, j.name, j.note)
  \/ /\ j.seek = "again"
     /\ Answer(w, j.name, FALSE)

\* find_existing_export returned None.
Missed(w) ==
  \/ /\ job[w].seek = "again"
     /\ Goto(w, "make", [job[w] EXCEPT !.name = None, !.ver = 0])
  \/ /\ job[w].seek # "again"
     /\ Goto(w, "fetch", [job[w] EXCEPT !.name = None, !.ver = 0, !.note = FALSE,
                                        !.seek = "epub", !.epub = None])
-----------------------------------------------------------------------------
(* The requests. *)

Begin(w, s, j) ==
  /\ pc[w] = "idle"
  /\ pc' = [pc EXCEPT ![w] = s]
  /\ job' = [job EXCEPT ![w] = j]
  /\ since' = [since EXCEPT ![w] = [content |-> content, version |-> version]]
  /\ UNCHANGED <<upstream, ficInfo, exports, latest, issued, disk, reply>>

\* /api/v0/epub: ensure_export of the epub.
RequestEpub(w) ==
  <<"epub", "epub">> \in Asks /\ Begin(w, "lookup", NoJob)

\* /cache/<etype>/<url_id>: ensure_export, then get_cached_export.
RequestPartial(w) ==
  \E t \in ETypes :
    <<"partial", t>> \in Asks /\ Begin(w, "lookup", Link(t, None))

\* /cache/<etype>/<url_id>/<fname>, with or without ?h=
RequestFile(w) ==
  \E t \in ETypes, h \in issued \cup {None} :
    /\ <<"file", t>> \in Asks
    /\ h # None => h.etype = t
    /\ Begin(w, ToServe(h), Link(t, h))

Return(w) ==
  /\ pc[w] = "done"
  /\ pc' = [pc EXCEPT ![w] = "idle"]
  /\ job' = [job EXCEPT ![w] = NoJob]
  /\ since' = [since EXCEPT ![w] = [content |-> 1, version |-> 0]]
  /\ reply' = [reply EXCEPT ![w] = NoReply]
  /\ UNCHANGED <<upstream, ficInfo, exports, latest, issued, disk>>
-----------------------------------------------------------------------------
(* ensure_export: the metadata, and the attempt to reuse an export. *)

\* The backend is up: ax.lookup returns the current metadata.
LookUp(w) ==
  /\ pc[w] = "lookup"
  /\ Goto(w, "save", [job[w] EXCEPT !.meta = content, !.note = FALSE])
  /\ UNCHANGED <<upstream, ficInfo, exports, disk, since>>

\* With a contentHash ensure_export looks for an epub made from it.
Reuse(w, m, noted) ==
  LET j == [job[w] EXCEPT !.meta = m, !.note = noted] IN
  \/ m \notin Hashless /\ Seek(w, "epub", j)
  \/ m \in Hashless /\ Goto(w, "fetch", [j EXCEPT !.note = FALSE])

\* Mutant: the fic need not be known.
LookUpDeadUnknown(w) ==
  /\ pc[w] = "lookup"
  /\ Reuse(w, ficInfo, TRUE)
  /\ UNCHANGED <<upstream, ficInfo, exports, disk, since>>

\* The backend is down: the metadata comes from the ficInfo row, with a note.
LookUpDead(w) ==
  /\ pc[w] = "lookup"
  /\ ficInfo # 0
  /\ Reuse(w, ficInfo, TRUE)
  /\ UNCHANGED <<upstream, ficInfo, exports, disk, since>>

\* ax_dead, an upstream error (logged without a urlId), or lookup_failed.
LookUpFails(w) ==
  /\ pc[w] = "lookup"
  /\ Abort(w)
  /\ UNCHANGED <<upstream, ficInfo, exports, disk, since>>

SaveInfo(w) ==
  /\ pc[w] = "save"
  /\ ficInfo' = job[w].meta
  /\ Reuse(w, job[w].meta, FALSE)
  /\ UNCHANGED <<upstream, exports, disk, since>>

\* The key find_existing_export was called with, under the version it read.
SoughtType(j) == IF j.seek = "epub" THEN "epub" ELSE j.etype
SoughtHash(j) == IF j.seek = "epub" THEN ContentHash(j.meta) ELSE j.epub

RowsAt(v, t, ih) ==
  {r \in exportLog : r.version = v /\ r.etype = t /\ r.ihash = ih}

FindRow(w) ==
  /\ pc[w] = "row"
  /\ LET j == job[w]
         rows == RowsAt(j.ver, SoughtType(j), SoughtHash(j)) IN
     \/ \E r \in rows : Goto(w, "check", [j EXCEPT !.name = r.hash, !.ver = 0])
     \/ rows = {} /\ Missed(w)
  /\ UNCHANGED <<upstream, ficInfo, exports, disk, since>>

FindFile(w) ==
  /\ pc[w] = "check"
  /\ LET n == job[w].name IN
     \/ n \in primary /\ Found(w)
     \/ n \in secondary \ primary /\ Store(w, "find", n, job[w])
     \/ n \notin primary \cup secondary /\ Missed(w)
  /\ UNCHANGED <<upstream, ficInfo, exports, disk, since>>

\* Any exception inside find_existing_export counts as not found.
FindFails(w) ==
  /\ pc[w] \in {"row", "check"}
  /\ Missed(w)
  /\ UNCHANGED <<upstream, ficInfo, exports, disk, since>>
-----------------------------------------------------------------------------
(* Moving a file into the primary cache: by find_existing_export and       *)
(* get_cached_export from the secondary, by finalize_export from tmp.      *)

Source(w) == IF job[w].via = "publish" THEN "tmp" ELSE "secondary"

SourceExists(w) == Source(w) = "secondary" => job[w].name \in secondary

WithoutSource(w) ==
  IF Source(w) = "secondary" THEN secondary \ {job[w].name} ELSE secondary

\* The move cannot be a rename.
Crosses(w) == Source(w) \notin Renames

\* What is left once file n is opened anew, replaced or removed.
Untorn(n) == {p \in torn : p[1] # n}
Unbroken(n) == {b \in broken : b[1] # n}

MoveDone(w) ==
  \/ job[w].via = "find" /\ Found(w)
  \/ job[w].via = "publish" /\ Goto(w, "stamp", job[w])
  \/ job[w].via = "serve" /\ Goto(w, "send", job[w])

\* Mutant: finalize_export goes on without the file.
GiveUpNot(w) ==
  \/ job[w].via = "find" /\ Missed(w)
  \/ job[w].via = "publish" /\ Goto(w, "stamp", job[w])
  \/ job[w].via = "serve" /\ Abort(w)

\* An exception: find_existing_export returns None, the others pass it on.
GiveUp(w) ==
  \/ job[w].via = "find" /\ Missed(w)
  \/ job[w].via = "publish" /\ ExportFailed(w)
  \/ job[w].via = "serve" /\ Abort(w)

\* Around the move find_existing_export swallows it and looks for the file.
MoveFailed(w) ==
  \/ job[w].via = "find" /\ job[w].name \in primary /\ Found(w)
  \/ (job[w].via = "find" => job[w].name \notin primary) /\ GiveUp(w)

\* mkdir without exist_ok, after somebody else's look at is_dir or after none.
MakeDir(w) ==
  /\ pc[w] = "mkdir"
  /\ job[w].name.etype \notin dirs
  /\ dirs' = dirs \cup {job[w].name.etype}
  /\ Goto(w, "move", job[w])
  /\ UNCHANGED <<upstream, ficInfo, exports, primary, secondary, torn, broken, since>>

MakeDirFails(w) ==
  /\ pc[w] = "mkdir"
  /\ job[w].name.etype \in dirs
  /\ GiveUp(w)
  /\ UNCHANGED <<upstream, ficInfo, exports, disk, since>>

\* shutil.move on one filesystem: the name switches to the whole file at once.
Rename(w) ==
  /\ pc[w] = "move"
  /\ ~Crosses(w)
  /\ SourceExists(w)
  /\ primary' = primary \cup {job[w].name}
  /\ secondary' = WithoutSource(w)
  /\ torn' = Untorn(job[w].name) /\ broken' = Unbroken(job[w].name)
  /\ MoveDone(w)
  /\ UNCHANGED <<upstream, ficInfo, exports, dirs, since>>

\* Across filesystems: the destination is opened, which truncates it, ...
OpenCopy(w) ==
  /\ pc[w] = "move"
  /\ Crosses(w)
  /\ SourceExists(w)
  /\ primary' = primary \cup {job[w].name}
  /\ torn' = Untorn(job[w].name) \cup {<<job[w].name, w>>}
  /\ broken' = Unbroken(job[w].name)
  /\ Goto(w, "copy", job[w])
  /\ UNCHANGED <<upstream, ficInfo, exports, secondary, dirs, since>>

\* ... filled, given the source's times, and the source is unlinked.  The last
\* two may be refused, and are when a name is gone.
CloseCopy(w) ==
  /\ pc[w] = "copy"
  /\ torn' = torn \ {<<job[w].name, w>>}
  /\ \/ /\ job[w].name \in primary /\ SourceExists(w)
        /\ secondary' = WithoutSource(w)
        /\ MoveDone(w)
     \/ /\ MoveFailed(w)
        /\ UNCHANGED secondary
  /\ UNCHANGED <<upstream, ficInfo, exports, primary, broken, dirs, since>>

\* The archive has what w copies, and nobody else copies it.
Alone(w) ==
  /\ job[w].name \in secondary
  /\ \A v \in Workers \ {w} : ~(pc[v] = "copy" /\ job[v].name = job[w].name)

\* A copy that ends before the file is filled is remembered, as one that ran
\* alone or not.
Break(w) ==
  broken' = IF pc[w] = "copy" /\ <<job[w].name, w>> \in torn
            THEN broken \cup {<<job[w].name, w, Alone(w)>>} ELSE broken

\* A read or a write raises (an I/O error, a full disk): the half filled file stays
\* under its final name, where find_existing_export takes it for the export.
CopyFails(w) ==
  /\ pc[w] = "copy"
  /\ Break(w)
  /\ MoveFailed(w)
  /\ UNCHANGED <<upstream, ficInfo, exports, primary, secondary, torn, dirs, since>>

\* Mutant: the destination is opened before the source.
SourceGoneOpened(w) ==
  /\ pc[w] = "move"
  /\ ~SourceExists(w)
  /\ primary' = primary \cup {job[w].name}
  /\ torn' = Untorn(job[w].name) \cup {<<job[w].name, w>>}
  /\ broken' = Unbroken(job[w].name)
  /\ MoveFailed(w)
  /\ UNCHANGED <<upstream, ficInfo, exports, secondary, dirs, since>>

\* The source is opened first, so nothing is truncated if it is gone.
SourceGone(w) ==
  /\ pc[w] = "move"
  /\ ~SourceExists(w)
  /\ MoveFailed(w)
  /\ UNCHANGED <<upstream, ficInfo, exports, disk, since>>
-----------------------------------------------------------------------------
(* create_export: create_epub, create_html_bundle, convert_epub. *)

\* All three start with create_epub, which never looks for an existing epub.
FetchChapters(w) ==
  /\ pc[w] = "fetch"
  /\ LET e == Epub(job[w].meta, content) IN
     Store(w, "publish", e, [job[w] EXCEPT !.epub = e])
  /\ UNCHANGED <<upstream, ficInfo, exports, disk, since>>

\* html is rendered from the chapters in memory.
RenderHtml(w) ==
  /\ pc[w] = "make"
  /\ job[w].etype = "html"
  /\ Store(w, "publish", [job[w].epub EXCEPT !.etype = "html"], job[w])
  /\ UNCHANGED <<upstream, ficInfo, exports, disk, since>>

\* janus converts the epub it finds in the cache.
ConvertEpub(w) ==
  /\ pc[w] = "make"
  /\ job[w].etype # "html"
  /\ job[w].epub \in primary
  /\ \E r \in Runs :
       Store(w, "publish",
             [job[w].epub EXCEPT !.etype = job[w].etype, !.run = r,
                                 !.torn = \E p \in torn : p[1] = job[w].epub],
             job[w])
  /\ UNCHANGED <<upstream, ficInfo, exports, disk, since>>

\* Mutant: ensure_export is tried again.
BuildFailsRetry(w) ==
  /\ pc[w] \in {"fetch", "make"}
  /\ Goto(w, "lookup", [NoJob EXCEPT !.kind = job[w].kind, !.etype = job[w].etype,
                                     !.h = job[w].h])
  /\ UNCHANGED <<upstream, ficInfo, exports, disk, since>>

\* Missing chapters, a JanusError, a timeout: the export failed.
BuildFails(w) ==
  /\ pc[w] \in {"fetch", "make"}
  /\ ExportFailed(w)
  /\ UNCHANGED <<upstream, ficInfo, exports, disk, since>>

\* Mutant: a derived export is filed under the contentHash too.
StoredKeyContent(j) == ContentHash(j.meta)

\* The inputHash finalize_export is given.
StoredKey(j) == IF j.name.etype = "epub" THEN ContentHash(j.meta) ELSE j.epub

Stored(w) ==
  \/ job[w].name.etype = job[w].etype /\ Answer(w, job[w].name, FALSE)
  \/ job[w].name.etype # job[w].etype /\ Seek(w, "again", job[w])

\* finalize_export reads the export version and its upsert begins.
BeginUpsert(w) ==
  /\ pc[w] = "stamp"
  /\ Goto(w, "insert",
          [job[w] EXCEPT !.ver = version,
             !.saw = RowsAt(version, job[w].name.etype, StoredKey(job[w])) # {}])
  /\ UNCHANGED <<upstream, ficInfo, exports, disk, since>>

\* On conflict the row is updated when it was created before this upsert began:
\* surely so if it was there then, perhaps not if it appeared since.
Upsert(w) ==
  /\ pc[w] = "insert"
  /\ LET j == job[w]
         rows == RowsAt(j.ver, j.name.etype, StoredKey(j))
         row == [version |-> j.ver, etype |-> j.name.etype,
                 ihash |-> StoredKey(j), hash |-> j.name] IN
     \/ exportLog' = (exportLog \ rows) \cup {row}
     \/ rows # {} /\ ~j.saw /\ UNCHANGED exportLog
  /\ logged' = logged \cup exportLog'
  /\ Stored(w)
  /\ UNCHANGED <<upstream, ficInfo, disk, since>>

\* finalize_export swallows the upsert's errors.
UpsertFails(w) ==
  /\ pc[w] \in {"stamp", "insert"}
  /\ Stored(w)
  /\ UNCHANGED <<upstream, ficInfo, exports, disk, since>>
-----------------------------------------------------------------------------
(* get_cached_export *)

\* Mutant: the secondary cache is forgotten.
ServeHashPrimary(w) ==
  /\ pc[w] = "serve"
  /\ Goto(w, "send", job[w])
  /\ UNCHANGED <<upstream, ficInfo, exports, disk, since>>

\* A link with a hash: a file only the secondary has is moved first, into a
\* directory created whether or not it is there.
ServeHash(w) ==
  /\ pc[w] = "serve"
  /\ \/ /\ job[w].h \in secondary \ primary
        /\ Goto(w, "mkdir", [job[w] EXCEPT !.name = job[w].h, !.via = "serve"])
     \/ /\ job[w].h \notin secondary \ primary
        /\ Goto(w, "send", job[w])
  /\ UNCHANGED <<upstream, ficInfo, exports, disk, since>>

SendFile(w) ==
  /\ pc[w] = "send"
  /\ \/ /\ job[w].h \in primary
        /\ Finish(w, Says("file", job[w].h, FALSE, ~\E p \in torn : p[1] = job[w].h))
        /\ UNCHANGED <<latest, issued>>
     \/ /\ job[w].h \notin primary
        /\ Goto(w, "latest", job[w])
  /\ UNCHANGED <<upstream, ficInfo, exports, disk, since>>

\* Mutant: the redirect does not look for the file.
ServeLatestUnchecked(w) ==
  /\ pc[w] = "latest"
  /\ LET n == latest[job[w].etype] IN
     \/ ficInfo = 0 /\ Finish(w, Says("missing", None, FALSE, TRUE))
     \/ ficInfo # 0 /\ Finish(w, Says("redirect", n, FALSE, TRUE))
  /\ UNCHANGED <<upstream, ficInfo, exports, latest, issued, disk, since>>

\* Neither a hash nor a file for it: redirect to the hash in the most recent
\* requestLog row, or regenerate the export if that file is missing.
ServeLatest(w) ==
  /\ pc[w] = "latest"
  /\ LET n == latest[job[w].etype] IN
     \/ /\ ficInfo = 0 \/ n = None
        /\ Finish(w, Says("missing", None, FALSE, TRUE))
        /\ UNCHANGED <<latest, issued>>
     \/ /\ ficInfo # 0 /\ n \in primary
        /\ Finish(w, Says("redirect", n, FALSE, TRUE))
        /\ UNCHANGED <<latest, issued>>
     \/ /\ ficInfo # 0 /\ n # None /\ n \notin primary
        /\ Goto(w, "lookup", Link(job[w].etype, job[w].h))
  /\ UNCHANGED <<upstream, ficInfo, exports, disk, since>>
-----------------------------------------------------------------------------
(* The environment. *)

UpstreamUpdate ==
  /\ content < MaxContent
  /\ content' = content + 1
  /\ UNCHANGED <<version, ficInfo, exports, latest, issued, disk, pc, job, since, reply>>

\* FicVersionBump.insert
BumpVersion ==
  /\ version < MaxVersion
  /\ version' = version + 1
  /\ UNCHANGED <<content, ficInfo, exports, latest, issued, disk, pc, job, since, reply>>

\* An export goes missing from the primary cache (an operator's clean up).
Evict ==
  /\ Evicting
  /\ \E n \in primary : /\ primary' = primary \ {n}
                        /\ torn' = Untorn(n) /\ broken' = Unbroken(n)
  /\ UNCHANGED <<upstream, ficInfo, exports, latest, issued, secondary, dirs,
                 pc, job, since, reply>>

\* The process is killed.  A half filled file stays under its final name, too.
Crash(w) ==
  /\ Crashing
  /\ pc[w] # "idle"
  /\ pc' = [pc EXCEPT ![w] = "idle"]
  /\ job' = [job EXCEPT ![w] = NoJob]
  /\ since' = [since EXCEPT ![w] = [content |-> 1, version |-> 0]]
  /\ reply' = [reply EXCEPT ![w] = NoReply]
  /\ Break(w)
  /\ UNCHANGED <<upstream, ficInfo, exports, latest, issued,
                 primary, secondary, torn, dirs>>

Request(w) == RequestEpub(w) \/ RequestPartial(w) \/ RequestFile(w)

Step(w) ==
  \/ LookUp(w) \/ LookUpDead(w) \/ LookUpFails(w) \/ SaveInfo(w)
  \/ FindRow(w) \/ FindFile(w) \/ FindFails(w)
  \/ MakeDir(w) \/ MakeDirFails(w)
  \/ Rename(w) \/ OpenCopy(w) \/ CloseCopy(w) \/ CopyFails(w) \/ SourceGone(w)
  \/ FetchChapters(w) \/ RenderHtml(w) \/ ConvertEpub(w) \/ BuildFails(w)
  \/ BeginUpsert(w) \/ Upsert(w) \/ UpsertFails(w)
  \/ ServeHash(w) \/ SendFile(w) \/ ServeLatest(w)
  \/ Return(w)

Environment == UpstreamUpdate \/ BumpVersion \/ Evict

Next ==
  \/ Environment
  \/ \E w \in Workers : Request(w) \/ Step(w) \/ Crash(w)

Spec == Init /\ [][Next]_vars

\* A thread that serves a request keeps running.  Nothing is assumed of clients,
\* of the backend or of operators.
FairSpec == Spec /\ \A w \in Workers : WF_vars(Step(w))
-----------------------------------------------------------------------------
(* Properties *)

\* Every variable stays in its set.
TypeOK ==
  /\ content \in Content /\ version \in Version
  /\ ficInfo \in Content \cup {0}
  /\ exportLog \subseteq Row /\ logged \subseteq Row
  /\ latest \in [ETypes -> Name \cup {None, Failed}]
  /\ issued \subseteq Name
  /\ primary \subseteq Name /\ secondary \subseteq Name
  /\ torn \subseteq Name \X Workers
  /\ broken \subseteq Name \X Workers \X BOOLEAN
  /\ dirs \subseteq ETypes
  /\ pc \in [Workers -> PC]
  /\ job \in [Workers -> Job]
  /\ since \in [Workers -> [content : Content, version : Version]]
  /\ reply \in [Workers -> Reply]

\* exportLog ties an epub to the contentHash it was looked up under and to
\* chapters at least as new as that, and any other export to the very epub it
\* was made from, whatever requests and upstream updates did in between
\* (finalize_export and its callers pass the right inputHash).
LogProvenance ==
  \A r \in exportLog :
    /\ r.hash.etype = r.etype
    /\ r.etype = "epub" => /\ r.ihash = ContentHash(r.hash.meta)
                           /\ r.hash.chap >= r.hash.meta
    /\ r.etype # "epub" => r.ihash = EpubOf(r.hash)

\* An API answer without the note "results may be stale" has chapters at least
\* as new as what upstream had when the request came in, reused or not.
FreshAnswer ==
  \A w \in Workers :
    reply[w].kind = "export" /\ ~reply[w].noted
      => reply[w].name.chap >= since[w].content

\* An answer reused from the cache was itself logged under an export version no
\* older than the one in force when the request came in: whatever other requests
\* log meanwhile, an export whose last row is from before a bump is not reused after
\* it.  Logged, not built: finalize_export reads the version once the file is built
\* and stored, so an export that was being built during a bump counts as new.
FreshVersion ==
  \A w \in Workers :
    reply[w].kind = "export" /\ job[w].via = "find"
      => \E r \in logged : /\ r.hash = reply[w].name
                           /\ r.version >= since[w].version

\* As long as nothing is deleted from the cache, every export that exportLog or
\* requestLog names is in one of the two caches: the row is written after the
\* file, and a move never leaves a gap, with any number of movers or crashes.
LoggedOnDisk ==
  ~Evicting =>
    /\ \A r \in exportLog : r.hash \in primary \cup secondary
    /\ \A t \in ETypes : latest[t] \in primary \cup secondary \cup {None, Failed}

\* As long as nothing is deleted, a link with a hash that was ever given out leads
\* to its file (or an error), never to another export or to "not found", however
\* often the file is moved, rewritten or half moved by a process that is killed.
LinkHonoured ==
  ~Evicting =>
    \A w \in Workers :
      pc[w] = "done" /\ job[w].h # None => reply[w].kind \in {"file", "error"}

\* The worker of a torn file is at it.
Filling(p) == pc[p[2]] = "copy" /\ job[p[2]].name = p[1]

\* A half written file is being written right now by the last worker that truncated
\* it, or that worker was killed or its copy raised: a move that ends well, or fails
\* before it opens the file, leaves none behind, however many overlap.
TornIsTransient ==
  \A p \in torn :
    /\ p[1] \in primary
    /\ Filling(p) \/ \E alone \in BOOLEAN : <<p[1], p[2], alone>> \in broken

\* Without deletions no single mover loses an archived export, even one that is
\* killed or whose copy raises: the export is in the secondary, or in the primary and
\* whole or being filled there, unless a copy was interrupted that another one
\* overlapped or that overwrote what had left the secondary before.
ArchiveSafe ==
  ~Evicting =>
    \A n \in Archived :
      \/ n \in secondary
      \/ /\ n \in primary
         /\ \A p \in torn :
              p[1] = n => Filling(p) \/ <<n, p[2], FALSE>> \in broken

\* What is left of a request: the phases of ensure_export before its answer, and the
\* steps of the phase.  find_existing_export is called for the epub, for the derived
\* export, and by its builder once the new epub is stored.
Phase(s, j) ==
  CASE s \in {"lookup", "save"} -> 6
    [] s \in {"row", "check"} \/ (s \in Moving /\ j.via = "find") ->
         IF j.seek = "again" THEN 2 ELSE IF j.seek = "derived" THEN 4 ELSE 5
    [] s = "fetch" \/ (Storing(s, j) /\ j.name.etype = "epub") -> 3
    [] s = "make" \/ (Storing(s, j) /\ j.name.etype # "epub") -> 1
    [] OTHER -> 0

StepsOf(s) ==
  CASE s \in {"lookup", "row"} -> 7
    [] s \in {"save", "check", "fetch", "make", "serve"} -> 6
    [] s = "mkdir" -> 5
    [] s = "move" -> 4
    [] s = "copy" -> 3
    [] s \in {"send", "stamp"} -> 2
    [] s \in {"latest", "insert"} -> 1
    [] OTHER -> 0

Left(s, j) == 8 * Phase(s, j) + StepsOf(s)

\* Nobody can keep a request going: whatever the other requests, upstream and the
\* operators do between its steps, each of them brings it nearer to its end.  Only
\* get_cached_export may start over, to regenerate an export that is missing; as long
\* as nothing is deleted that is one that failed or is still in the archive.
EachStepCounts ==
  [][\A w \in Workers :
       /\ <<pc[w], job[w]>>' # <<pc[w], job[w]>>
       /\ pc[w] # "idle" /\ pc'[w] # "idle"
       => \/ Left(pc'[w], job'[w]) < Left(pc[w], job[w])
          \/ /\ pc[w] = "latest" /\ pc'[w] = "lookup"
             /\ Evicting \/ latest[job[w].etype] \in {Failed} \cup secondary]_vars

\* An API request is answered, whatever the other requests do.
ApiAnswered ==
  \A w \in Workers :
    pc[w] = "lookup" /\ job[w].kind = "api" ~> pc[w] \in {"done", "idle"}

\* A link is answered once the other requests are over and nothing is deleted any
\* more: get_cached_export and get_cached_export_partial call each other, but not for
\* ever.
LinkAnswered ==
  \A w \in Workers :
    <>[](\A v \in Workers \ {w} : pc[v] = "idle") /\ <>[][~Evict]_vars
      => (pc[w] = "latest" ~> pc[w] \in {"done", "idle"})

-----------------------------------------------------------------------------
(* What the comments and the documentation say. *)

\* "if the request is for a specific slug, try to serve it directly": a link
\* whose file is in one of the caches does not end in an error.
SlugServedDirectly ==
  \A w \in Workers :
    pc[w] = "done" /\ job[w].via = "serve" => reply[w].kind # "error"

\* "the most recent export is missing for some reason... regenerate it": a link
\* without a hash regenerates an export only when no logged one is there to give.
RegeneratesOnlyMissing ==
  [][\A w \in Workers :
       pc[w] = "latest" /\ pc'[w] = "lookup"
         => \A r \in exportLog : r.etype = job[w].etype => r.hash \notin primary]_vars

\* The downloaded epub's md5sum is the hash in its link.
DownloadMatchesHash == \A w \in Workers : reply[w].whole
=============================================================================
