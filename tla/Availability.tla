------------------------------ MODULE Availability ------------------------------
(***************************************************************************)
(* One fic that must not be given out, and everything that might: the      *)
(* answers of the API, the links, the search index.  The author asks for   *)
(* it (ficBlacklist, authorBlacklist), or its site does (source 19).       *)
(*                                                                         *)
(* FicBlacklist.check joins ficInfo, so that it knows nothing of a fic     *)
(* before it is saved, nor of the author and the site of one saved before  *)
(* the table had these columns.  Nor does it of a link with the fic's id   *)
(* in another case, though the cache's paths have all ids in lower case.   *)
(* Requests, the operator and the bulk indexer of es.py change and read    *)
(* the tables at the same time.                                            *)
(*                                                                         *)
(* What an export is made of, and where it is, is ExportCache's.           *)
(***************************************************************************)
EXTENDS Integers

CONSTANTS
  Workers,      \* threads of one process, which share its module variables
  Queries,      \* queries that lead to the fic
  Reasons,      \* values of the columns "reason"
  Known,        \* FicBlacklistReason
  MaxRequests,  \* bound: requests
  MaxMarks      \* bound: rows of the two blacklists

ASSUME AvailabilityAssumption ==
  /\ Known \subseteq Reasons
  /\ "nothing" \notin Queries
  /\ MaxRequests \in Nat /\ MaxMarks \in Nat

VARIABLES
  royal,        \* the fic is from source 19
  row,          \* ficInfo's row: none, one without sourceId and authorId, or a full one
  listed,       \* ficBlacklist: the reasons given for the fic
  banned,       \* authorBlacklist: the reasons given for its author
  indexed,      \* the search index has the fic
  unavailable,  \* the "q" in FIC_UNAVAILABLE_ERROR, a dict of the module
  pc, job,      \* each thread's place in the code, and its request
  bulk,         \* the bulk indexer
  requests, marks

vars == <<royal, row, listed, banned, indexed, unavailable, pc, job, bulk, requests, marks>>

tables == <<royal, row, listed, banned>>
-----------------------------------------------------------------------------
(* What the checks find. *)

\* FicBlacklist.check(url_id, reason), for the reasons rs.
CheckFor(rs) ==
  \/ row # "none" /\ listed \cap rs # {}
  \/ row = "full" /\ (banned \cap rs # {} \/ royal)

\* FicBlacklist.check(url_id)
Check == CheckFor(Reasons)

\* What the author or the site wants, whatever a check can see of it.
Wanted == listed # {} \/ banned # {} \/ royal

\* due: it was unavailable when the request came in; wanted: it should have been;
\* looked: the request has looked it up; said: the "q" of the answer; own: a link's
\* id is the fic's own, not one that differs from it in case.
Job == [kind : {"api", "link"}, own : BOOLEAN,
        q : Queries, said : Queries \cup {"nothing"},
        due : BOOLEAN, wanted : BOOLEAN, looked : BOOLEAN]

NoRequest(q) == [kind |-> "api", own |-> TRUE, q |-> q, said |-> "nothing",
                 due |-> FALSE, wanted |-> FALSE, looked |-> FALSE]

PC == {"idle", "alive", "lookup", "checkFic", "checkAuthor", "save", "index",
       "export", "final", "link", "error", "sorry", "refused", "served"}

\* todo: the reasons still to be asked about; due: it was due to be left out.
Bulk == [at : {"off", "check", "index"}, todo : SUBSET Known, due : BOOLEAN]

Init ==
  /\ royal \in BOOLEAN
  /\ row \in {"none", "old", "full"}
  /\ listed = {} /\ banned = {}
  /\ indexed = FALSE
  /\ unavailable = "nothing"
  /\ pc = [w \in Workers |-> "idle"]
  /\ job \in [Workers -> {NoRequest(q) : q \in Queries}]
  /\ bulk = [at |-> "off", todo |-> {}, due |-> FALSE]
  /\ requests = 0 /\ marks = 0

Goto(w, from, to) == pc[w] = from /\ pc' = [pc EXCEPT ![w] = to]
-----------------------------------------------------------------------------
(* A request. *)

\* The API, a link with a file name, and one without, which is exported first.
Request(w, kind, own, q) ==
  /\ requests < MaxRequests
  /\ requests' = requests + 1
  /\ \/ Goto(w, "idle", "alive")
     \/ kind = "link" /\ Goto(w, "idle", "link")
  /\ job' = [job EXCEPT ![w] = [kind |-> kind, own |-> own, q |-> q, said |-> "nothing",
                                due |-> Check, wanted |-> Wanted, looked |-> FALSE]]
  /\ UNCHANGED <<tables, indexed, unavailable, bulk, marks>>

\* ensure_export: ax.alive.  A dead backend leaves the row of a known fic, which is
\* selected by the id as it was given.
Alive(w) ==
  /\ \/ Goto(w, "alive", "lookup")
     \/ job[w].own /\ row # "none" /\ Goto(w, "alive", "export")
     \/ Goto(w, "alive", "refused")
  /\ UNCHANGED <<tables, indexed, unavailable, job, bulk, requests, marks>>

\* ax.lookup: the backend's answer, or its error.
Lookup(w) ==
  /\ Goto(w, "lookup", "checkFic") \/ Goto(w, "lookup", "refused")
  /\ UNCHANGED <<tables, indexed, unavailable, job, bulk, requests, marks>>

\* Mutant: the fic's own list is not asked.
LookupCheckFicNot(w) ==
  /\ Goto(w, "checkFic", "checkAuthor")
  /\ UNCHANGED <<tables, indexed, unavailable, job, bulk, requests, marks>>

LookupCheckFic(w) ==
  /\ \/ Check /\ Goto(w, "checkFic", "error")
     \/ ~Check /\ Goto(w, "checkFic", "checkAuthor")
  /\ UNCHANGED <<tables, indexed, unavailable, job, bulk, requests, marks>>

\* AuthorBlacklist.check(source, author)
LookupCheckAuthor(w) ==
  /\ \/ banned # {} /\ Goto(w, "checkAuthor", "error")
     \/ banned = {} /\ Goto(w, "checkAuthor", "save")
  /\ UNCHANGED <<tables, indexed, unavailable, job, bulk, requests, marks>>

\* FicInfo.save
LookupSave(w) ==
  /\ Goto(w, "save", "index")
  /\ row' = "full"
  /\ UNCHANGED <<royal, listed, banned, indexed, unavailable, job, bulk, requests, marks>>

\* es.save, or a failure that is printed.
LookupIndex(w) ==
  /\ Goto(w, "index", "export")
  /\ indexed' \in {indexed, TRUE}
  /\ job' = [job EXCEPT ![w].looked = TRUE]
  /\ UNCHANGED <<tables, unavailable, bulk, requests, marks>>

\* The rest of ensure_export, and of try_ensure_export.
Export(w) ==
  /\ \/ job[w].kind = "api" /\ Goto(w, "export", "final")
     \/ job[w].kind = "link" /\ Goto(w, "export", "link")
     \/ Goto(w, "export", "refused")
  /\ UNCHANGED <<tables, indexed, unavailable, job, bulk, requests, marks>>

\* Mutant: lookup's checks are thought to be enough.
FinalCheckNot(w) ==
  /\ Goto(w, "final", "served")
  /\ UNCHANGED <<tables, indexed, unavailable, job, bulk, requests, marks>>

\* api_v0_epub: "greylisted", or the answer.
FinalCheck(w) ==
  /\ \/ Check /\ Goto(w, "final", "refused")
     \/ ~Check /\ Goto(w, "final", "served")
  /\ UNCHANGED <<tables, indexed, unavailable, job, bulk, requests, marks>>

\* get_cached_export: a 404, or the file with the link's hash, for which no row is
\* needed; for want of it and with a row a redirect to the latest export, or once
\* more through ensure_export.
FollowLink(w) ==
  /\ \/ Goto(w, "link", "refused")
     \/ ~(job[w].own /\ Check) /\ Goto(w, "link", "served")
     \/ job[w].own /\ ~Check /\ row # "none" /\ Goto(w, "link", "alive")
  /\ UNCHANGED <<tables, indexed, unavailable, job, bulk, requests, marks>>

\* api_v0_epub with FIC_UNAVAILABLE_ERROR: eres is the module's dict itself.
Sorry(w) ==
  /\ \/ /\ job[w].kind = "api" /\ Goto(w, "error", "sorry")
        /\ unavailable' = IF unavailable = "nothing" THEN job[w].q ELSE unavailable
        /\ job' = [job EXCEPT ![w].said = unavailable']
     \/ /\ job[w].kind = "link" /\ Goto(w, "error", "refused")
        /\ UNCHANGED <<unavailable, job>>
  /\ UNCHANGED <<tables, indexed, bulk, requests, marks>>

Return(w) ==
  /\ \E from \in {"sorry", "refused", "served"} : Goto(w, from, "idle")
  /\ job' = [job EXCEPT ![w] = NoRequest(job[w].q)]
  /\ UNCHANGED <<tables, indexed, unavailable, bulk, requests, marks>>
-----------------------------------------------------------------------------
(* The operator, and the bulk indexer. *)

\* Mutant: the row in ficInfo is not required.
ListUnknown(r) ==
  /\ marks < MaxMarks
  /\ marks' = marks + 1
  /\ listed' = listed \cup {r}
  /\ UNCHANGED <<royal, row, banned, indexed, unavailable, pc, job, bulk, requests>>

\* FicBlacklist.save: urlId references ficInfo.
List(r) ==
  /\ row # "none"
  /\ marks < MaxMarks
  /\ marks' = marks + 1
  /\ listed' = listed \cup {r}
  /\ UNCHANGED <<royal, row, banned, indexed, unavailable, pc, job, bulk, requests>>

\* A row of authorBlacklist.
Ban(r) ==
  /\ marks < MaxMarks
  /\ marks' = marks + 1
  /\ banned' = banned \cup {r}
  /\ UNCHANGED <<royal, row, listed, indexed, unavailable, pc, job, bulk, requests>>

\* es.blacklist
Unindex ==
  /\ indexed
  /\ indexed' = FALSE
  /\ UNCHANGED <<tables, unavailable, pc, job, bulk, requests, marks>>

\* generate_fic_info: FicInfo.select, and the source of the row it gave.
BulkSelect ==
  /\ bulk.at = "off"
  /\ row # "none"
  /\ row = "full" => ~royal
  /\ bulk' = [at |-> "check", todo |-> Known, due |-> CheckFor(Known)]
  /\ UNCHANGED <<tables, indexed, unavailable, pc, job, requests, marks>>

\* Mutant: one reason is enough.
BulkCheckOne(r) ==
  /\ bulk.at = "check"
  /\ r \in bulk.todo
  /\ bulk' = IF CheckFor({r}) THEN [at |-> "off", todo |-> {}, due |-> FALSE]
                              ELSE [bulk EXCEPT !.todo = {}]
  /\ UNCHANGED <<tables, indexed, unavailable, pc, job, requests, marks>>

\* greylisted and blacklisted: a check of its own for each reason.
BulkCheck(r) ==
  /\ bulk.at = "check"
  /\ r \in bulk.todo
  /\ bulk' = IF CheckFor({r}) THEN [at |-> "off", todo |-> {}, due |-> FALSE]
                              ELSE [bulk EXCEPT !.todo = @ \ {r}]
  /\ UNCHANGED <<tables, indexed, unavailable, pc, job, requests, marks>>

BulkYield ==
  /\ bulk.at = "check"
  /\ bulk.todo = {}
  /\ bulk' = [bulk EXCEPT !.at = "index"]
  /\ UNCHANGED <<tables, indexed, unavailable, pc, job, requests, marks>>

\* elasticsearch.helpers.bulk sends what it was given, or fails.
BulkIndex ==
  /\ bulk.at = "index"
  /\ indexed' \in {indexed, TRUE}
  /\ bulk' = [at |-> "off", todo |-> {}, due |-> FALSE]
  /\ UNCHANGED <<tables, unavailable, pc, job, requests, marks>>

Ask(w) ==
  \E q \in Queries :
    \/ Request(w, "api", TRUE, q)
    \/ \E own \in BOOLEAN : Request(w, "link", own, q)

LookUp(w) ==
  \/ Lookup(w) \/ LookupCheckFic(w) \/ LookupCheckAuthor(w) \/ LookupSave(w) \/ LookupIndex(w)

Step(w) ==
  \/ Ask(w) \/ Alive(w) \/ LookUp(w) \/ Export(w) \/ FinalCheck(w) \/ FollowLink(w)
  \/ Sorry(w) \/ Return(w)

Operate == Unindex \/ \E r \in Reasons : List(r) \/ Ban(r)

BulkStep == BulkSelect \/ BulkYield \/ BulkIndex \/ \E r \in Known : BulkCheck(r)

Next == Operate \/ BulkStep \/ \E w \in Workers : Step(w)

Spec == Init /\ [][Next]_vars
-----------------------------------------------------------------------------
(* Properties *)

\* Every variable stays in its set, and only a known fic is listed.
TypeOK ==
  /\ royal \in BOOLEAN
  /\ row \in {"none", "old", "full"}
  /\ listed \subseteq Reasons /\ (row = "none" => listed = {})
  /\ banned \subseteq Reasons
  /\ indexed \in BOOLEAN
  /\ unavailable \in Queries \cup {"nothing"}
  /\ pc \in [Workers -> PC] /\ job \in [Workers -> Job]
  /\ bulk \in Bulk
  /\ requests \in 0 .. MaxRequests /\ marks \in 0 .. MaxMarks

\* Under its own id no answer or file is given for a fic that was unavailable when the
\* request came in, whoever saves, looks up or lists meanwhile and though a dead backend
\* skips lookup's checks; and a request that has looked the fic up itself gives none
\* against the author's or the site's will, though the first checks could not see it.
\* Under its id in another case only lookup's checks see the fic: a link that comes to
\* a file without them is served whatever the tables say.
ListedNotServed ==
  \A w \in Workers :
    LET j == job[w] IN
    pc[w] = "served" =>
      /\ j.own => ~j.due /\ ~(j.wanted /\ j.looked)
      /\ j.looked => ~j.due /\ (j.wanted => royal)

\* No request is about to index a fic that was unavailable when it came in, nor one of
\* a banned author, known or not: only a site's wish is seen too late.
NotIndexedAnew ==
  \A w \in Workers : pc[w] = "index" => ~job[w].due /\ (job[w].wanted => royal)

\* The bulk indexer is not about to index a fic listed for one of the known reasons
\* before it began, though it asks about them one after the other.
BulkLeavesOut == bulk.at = "index" => ~bulk.due

\* The answer's "q" is the request's.
EchoesQuery ==
  \A w \in Workers : pc[w] = "sorry" => job[w].said = job[w].q
=============================================================================
