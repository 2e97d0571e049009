# FicHub, verified: a TLA+ development of fichub.net

FicHub takes the address of a piece of fan fiction, asks a backend ("ax") for its
metadata and chapters, builds an epub (and from that html, mobi or pdf), keeps
the files in a cache and serves them by links. This directory models what the
service does with its shared state: the tables, the cache directories and the
processes that work on them at the same time.

## The system

| component | state it keeps | operations | code |
|---|---|---|---|
| export pipeline | none of its own: locals of a request | `ensure_export`, `create_export`, `get_cached_export`, `get_cached_export_partial`, `create_epub`, `create_html_bundle`, `convert_epub` | `main.py`, `ebook.py` |
| cache directories | the files under the primary and the secondary root, the directories | publish (`finalize_export`), move (`find_existing_export`, `get_cached_export`), delete (scripts) | `ebook.py`, `bin/` |
| exportLog | one row per (fic, version, etype, inputHash) | `lookup`, `upsert` | `db.py` |
| requestLog | a row per request | `insert`, `most_recent_by_url_id` | `db.py` |
| ficInfo | a row per known fic | `save`, `select` | `db.py` |
| ficVersionBump | what a fic adds to the export version | `select` (rows are inserted by hand) | `db.py`, `ebook.py` |
| backend client | none | `alive`, `lookup`, `fetch_chapters`, `req_json` | `ax.py`, `util.py` |
| blacklist | ficBlacklist, authorBlacklist | `check`, `save` | `db.py` |
| search index | a document per fic | `es.save`, `search` | `es.py` |
| rate limiter | a leaky bucket per address or token, and a global one | `get_limiter`, `retry_after` (`fill_limiter`), `tick`, `set_parameters` | `limiter.py`, `sql/limiter.sql`, `main.py` |
| request sources | a row per (automated, route, address) | `upsert` | `db.py` |
| janus | the process table | `wait_for_our_turn`, conversion | `janus.py` |
| IP tags | tables of address ranges | `ip_is_datacenter` | `ip_tag.py` |
| maintenance | acts on the caches and the tables | `move_cache.sh`, `cleanup_*.sh`, `relayoutCache.py` | `bin/` |
| frontend, pages | none on the server | form, templates, redirects | `frontend/`, `main.py` |

**How they interact.** Everything runs in uwsgi threads and processes that share
only PostgreSQL and the file system. There is no lock around an export: two
requests for one fic run the whole pipeline side by side, and every query is a
transaction of its own (`with oil.open()`). A request passes the limiter and the
blacklist, then `ensure_export` asks the backend (or, if that is down, the
ficInfo row), looks for a logged export, otherwise builds one, publishes it and
logs it. `/cache/` links are served from the cache; when the file is missing,
`get_cached_export` calls `get_cached_export_partial`, which runs `ensure_export`
and calls `get_cached_export`. A mobi or pdf build runs janus, a process that waits
for its turn by scanning the process table.

**What is hard.** Between any two accesses another request, an upstream update, a
version bump, a clean-up script or a kill may come. A move across file systems
(`shutil.move` from `tmp` or from the archive to the primary root) is a copy, so
names appear before their contents. The upsert compares transaction times. Errors
are swallowed at some places and passed on at others. The checks of the blacklists
join a table that the request itself is about to fill. janus processes have no lock
but each other's age. And a migration script removes from the cache that requests
are writing to. `PROJECT.json` lists the
hazards at their lines; each names the properties that would catch it, or says why
there are none.

**What makes each part correct.** Pipeline: an answer is as fresh as it says, of the
type asked for, and every request is answered. Tables: a row's key describes how its
export was made, a row names an existing file. Caches: a half file is the fault of a copy that was
interrupted, and one such copy loses nothing archived. Limiter: no address
is granted more than capacity plus flow times elapsed time, no charge is lost, a
granted request was told no wait. Janus: at most one conversion per output type (ties
and processes that are not recognised apart), nobody waits for ever. Availability: a listed fic is
neither given out nor indexed once its listing is known. Maintenance: what is moved out
of the archive has arrived.

## Modules

| module | what it is |
|---|---|
| `ExportCache` | the export pipeline of one fic with its tables and caches: state, one action per step, the properties |
| `ExportService` | what the pipeline promises its callers, with no files, tables or steps |
| `ExportRefinement` | the mapping under which ExportCache implements ExportService |
| `ExportCacheProofs` | the inductive invariant of ExportCache and what follows from it |
| `ExportFileProofs` | theorems on what the tables, files and links owe each other: that what is named is on disk, who writes it, who left it half written, which version it was logged under |
| `ExportRefinementProofs` | the theorem that ExportCache implements ExportService |
| `Limiter` | the rate limiter and the way of a request past it, with time |
| `LimiterProofs` | the inductive invariant of the buckets and what follows from it |
| `LimiterPassProofs` | the theorem that no more requests get through than the buckets allow |
| `JanusQueue` | the janus processes of one machine, from fork to end, and their scans of the process table |
| `ConversionLine` | what the janus processes promise each other: a line for each type, served by age |
| `JanusQueueProofs` | its inductive invariant: how a scan accounts for every older process; that it implements ConversionLine |
| `Availability` | one fic that must not be given out, the requests, the operator and the bulk indexer |
| `AvailabilityProofs` | its inductive invariant: what a passed check still says |
| `CacheMove` | one archived export, `move_cache.sh` and the requests that move or rebuild the same file |
| `CacheMoveProofs` | its inductive invariant: what the script knows at each of its commands |
| `MCExportCache`, `MCLimiter`, `MCJanusQueue`, `MCAvailability`, `MCCacheMove` | instances for TLC |

### ExportCache and the code

Two fics share no row and no file. (`build_export_path` puts the whole id into the path, in
lower case: two whose ids differ in case alone share a directory, and the race for its mkdir,
which two requests for one fic have as well.) So the model has one fic. Its variables:

| variable | code |
|---|---|
| `content` | what the backend would answer now; a number that grows |
| `version` | the sum of the fic's `ficVersionBump` rows |
| `ficInfo` | the content the ficInfo row was saved from (0: no row) |
| `exportLog` | the table, as a set of (version, etype, inputHash, exportHash) |
| `logged` | history: every row the table ever had |
| `latest` | for each etype, the hash in the youngest requestLog row with this urlId |
| `primary`, `secondary` | the names of the files below `PRIMARY_CACHE_DIR`, `SECONDARY_CACHE_DIR` |
| `torn` | files whose copy has been opened and not filled, with the copier |
| `broken` | history: which of these copies were killed or raised, and whether they ran alone (`Alone`) |
| `dirs` | which per-fic directories exist in the primary cache |
| `pc`, `job`, `reply` | each thread's place in the code, its locals, its answer |
| `issued`, `since` | history: links given out; what was current when a request came |

A file's name is the md5 of its bytes. The model takes for the hash the record of what
the bytes depend on: the etype, the content of the metadata, the content of the
chapters (they are fetched later, and upstream may have changed), which conversion
made it (calibre output differs from run to run; epub and html are functions of
their input) and whether a half written epub was read. The inputHash of an epub is
its contentHash, or the literal `upstream` for a content without one
(`ContentHash`); that of any other export is the hash of its epub.

One action is the code between two accesses to shared state:

| code | actions |
|---|---|
| `api_v0_epub`, `get_cached_export_partial`, `get_cached_export` | `RequestEpub`, `RequestPartial`, `RequestFile`, `Return` |
| `ensure_export`: metadata | `LookUp` then `SaveInfo`, or `LookUpDead`, or `LookUpFails` |
| `find_existing_export` | `Seek` (reads the version), `FindRow`, `FindFile`, `FindFails`, and a move |
| `create_export` | `FetchChapters`, `RenderHtml`, `ConvertEpub`, `BuildFails` |
| `build_export_path(create=True)` | `MakeDir`, `MakeDirFails` |
| `shutil.move` | `Rename`, or `OpenCopy` then `CloseCopy` or `CopyFails`; `SourceGone` |
| `finalize_export` | a move, `BeginUpsert`, `Upsert`, `UpsertFails` |
| `get_cached_export` | `ServeHash`, a move, `SendFile`, `ServeLatest` |
| not the service | `UpstreamUpdate`, `BumpVersion`, `Evict`, `Crash` |

What follows a step, which in the code is where a function returns to, is an
operator of its own: `Found`, `Missed`, `MoveDone`, `MoveFailed`, `GiveUp`, `Stored`,
`Answer`, `ExportFailed`; a local variable that goes out of scope on the way loses its
value. `CopyFails` is a read or a write that raises half way: the half file stays under its
final name; `finalize_export` passes the exception on to `export_failed`, `get_cached_export` to
a 500, and `find_existing_export` swallows it, tests for the file and returns it as found
(ebook.py:182-192). The requestLog insert belongs to the answer; it is the
request's last access. The upsert's `where exportLog.created < EXCLUDED.created`
compares the start times of two transactions: a row that was there when the
upsert began is surely older, one that appeared since may or may not be (`saw`).

`Asks` says which requests clients send: all, but in ExportDerived. `Renames` says which sources `shutil.move` can rename from. In production the two
caches are two mounts and `tmp` is a third place, so it is empty; a single-disk
installation (the development set-up, the tests) has both.

### ExportService and the refinement

ExportService has a request, an answer and what upstream had when the request
came. An API request is answered by an epub that is no older, or by one that says
it may be; a link by the very file it names, or a redirect to one of the type asked
for; either by an error, a link also by "not found". Of the bytes in a file it says nothing,
since in production a file may be rewritten while it is sent (see Findings). `Service` in ExportRefinement maps the request to
the part of `job` that never changes and the answer to `reply`; everything
ExportCache does in between stutters.

### Limiter and the code

A bucket has a level (`value`) that leaks at `flow` and takes a charge of 1.0 per
request as long as it stays within `capacity`. The model counts volume and time in
integers: a request is `One` = 10 in the runs, so that the 0.2 of a refusal and the
0.5 of a failed export are 2 and 5. Its variables:

| variable | code |
|---|---|
| `clock` | the database's clock |
| `rows` | the table `fichub.limiter`, by key (`NoRow`: none) |
| `pc`, `job` | each thread's place between two transactions, and its locals; `now` is the `now()` of the `fill_limiter` that waits for the lock |
| `asked` | how many requests there were: the bound of the runs |
| `granted`, `passed`, `due` | history: charges per bucket and requests let through since each time; when the last refused client was told to come back |

Every method of `Limiter` is one transaction, so one action; only `fill_limiter` is
two, because it looks for the row before it takes the table lock. The lock excludes
the updates of `tick`, `set_parameters` and `create`, so what follows it is one step
(`Fill`). PostgreSQL's `now()` is the time at which the transaction began: two calls
that wait for the lock may get it in any order, and a row may be dated back.

| code | actions |
|---|---|
| `maybe_limit_request` up to the source's row; a wrong token's 403 | `Request` |
| `get_limiter`, `Limiter.create` | `Create` |
| `Limiter.set_parameters` for a HeadlessChrome | `SetParameters` |
| `Limiter.retry_after`: `fill_limiter` | `BeginFill`, `Fill` |
| `Limiter.tick` after a refusal, after a failed export of the API | `TickRefused`, `ServeFails` |
| the rest of the request | `Serve` |
| not the service | `Pass` (time), `Revoke` (an operator removes a token) |

Whether a request is the API's or a link's shows in the last step only, so the model
leaves it open until then. `Granted` and `Refused` are what `maybe_limit_request` does with an answer: it asks the
source's bucket, once more after a refusal and a tick, then the global one. A
`fill_limiter` without a row answers 60, a refusal like any other; one whose row goes
between the test and the lock computes a null shortfall, which is not negative, and
grants uncharged. `TickRefused` without a row raises: a 500. The division of the
shortfall by `flow` matters only for the wait, so `Excess` is taken before it and
`Wait` rounds as `math.ceil(retry_after + 1)` does.

`WindowBound` is the promise of a leaky bucket, here with overlapping and misdated
calls. `PassBound` states it where it matters, of requests that went through rather
than of charges, so that the retry, the creation race and a revoked token are within
its scope. `HonestWait` is what the Retry-After header tells: enough, and at most the rounding
and the one second that the code adds too much. `ChargeKept` is about
single steps: nothing but the flow lowers a level.

### JanusQueue and the code

The processes that `convert_epub` starts (one per mobi or pdf) have no queue but the
process table. Variables: `clock` in ticks of the kernel, in which `create_time()` is given;
per process its place `pc`, its `key` (the output type), `created`, the number of `polls`
made, and of the scan under way what is still `todo` and what it `found`; `cmdline` tells
whether it has the command line that the scans look for; `unseen` is
history: who was looked at before it was janus.

A scan counts a process only if its command line is `python3
/home/fichub/fichub.net/janus.py` and as many arguments as janus takes (janus.py:143-148:
`Recognised`). `convert_epub` executes the file by its own first line, `env -S uv run`, under
which the interpreter's name is another, and the file lies elsewhere now: at this commit the
service starts processes that no scan recognises. `CommandLines` says which there are, the
expected one ("janus"), others, or both; the run and the theorems have both, so that they say
what the scans do for the processes they were written for and for the ones they are
blind to.

| code | actions |
|---|---|
| `subprocess.run`; the new program takes over the process | `Fork`, `Exec` |
| `wait_for_our_turn`: a poll, one process of `process_iter`, `cmdline()` of one that is gone | `BeginScan`, `Look`, `LookFails` |
| the decision after a scan: go ahead, exit 103, sleep | `EndScan`: `GoAhead`, `Abort`, `Stay` |
| `WaitTimeoutError` after the last poll | `NeverOurTurn` |
| the conversion ends; the process is killed | `Finish`, `Kill` |

A scan is not atomic: `process_iter` lists the ids and then gives them in their order,
which has nothing to do with age; between two of them others are forked, become
janus, end or are killed. A process that is gone is skipped, or makes `cmdline()` raise,
which ends the one that looks. Between fork and exec a process has another command
line, so an older one can be overlooked, and one that is not recognised is never seen: these
are the only ways (besides equal ages, which the code lets pass) to two conversions of one type,
and `OneConversion` says exactly that. Where nobody is recognised it therefore claims
nothing, and `WaitShrinks`, `WaitEnds` and `NotAllGiveUp` hold because nobody waits.
ConversionLine is the same without polls, scans and ids: who goes ahead has passed over
nobody older of its key who waits or converts, except (`PassOver`) one that was still coming,
or one of the `strangers`, who came in another way; who gives up has somebody older. That is
more than `OneConversion`, which is silent on those that wait. The mapping: "forked" is "coming",
"poll" and "scan" are "line", `unseen` is `missed`, `cmdline` "other" makes a stranger.

`Kill` is any end of the janus process from outside. `convert_epub`'s timeout is one where it
starts janus itself; under `uv run` it kills uv, the python below goes on, and the
model has no step for that: a process that nobody waits for any more behaves like one that
somebody does.

A process id is used once. A calibre that outlives a killed janus is no janus
process and not in the model.

### Availability and the code

One fic, the two blacklists and everything that gives it out. Variables: `royal` (source
19), `row` (ficInfo's row: none, one of before the columns `sourceId` and `authorId`, or a
full one), `listed` and `banned` (the reasons in ficBlacklist and authorBlacklist),
`indexed`, `unavailable` (the "q" in the module's dict), each thread's `pc` and `job`, and
`bulk`, the indexer of `es.py`. `job.due` remembers what the checks would have said when
the request came, `job.wanted` what they should have. `job.own` says whether a link has the
fic's id as it is: the checks ask for the id as given (db.py:349), while the path to the file
is made of the id in lower case (ebook.py:132), so that under an id in another case there is no
row, nothing is refused before `lookup`, and the file is sent. The model has such links, and
`ListedNotServed` says what is left: under its own id nothing is given out that was
unavailable; under another, nothing once `lookup` has seen the fic.

| code | actions |
|---|---|
| `api_v0_epub` and the links up to `ax.alive` | `Request`, `Alive` |
| `lookup`: the backend, `FicBlacklist.check`, `AuthorBlacklist.check`, `FicInfo.save`, `es.save` | `Lookup`, `LookupCheckFic`, `LookupCheckAuthor`, `LookupSave`, `LookupIndex` |
| the rest of `ensure_export` (ExportCache's) | `Export` |
| the check before the answer; `get_cached_export` | `FinalCheck`, `FollowLink` |
| the answer with `FIC_UNAVAILABLE_ERROR`; any answer | `Sorry`, `Return` |
| an operator: a row in either blacklist, `es.blacklist` | `List`, `Ban`, `Unindex` |
| `generate_fic_info` and `helpers.bulk` | `BulkSelect`, `BulkCheck`, `BulkYield`, `BulkIndex` |

A check is one query, hence one step; the workers are threads of one process, since they
share a dict of a module (production runs six processes of six threads). "fixits", which
are popped from the same dict, are left out, and so is everything ExportCache is about:
here an export succeeds or does not.

### CacheMove and the code

One archived export, seen by `move_cache.sh` and by the requests that do the same to what
they need (`find_existing_export`; `get_cached_export`'s move differs by its mkdir only) or
build it anew (`finalize_export`). Variables: `archived`; of the primary file `there`,
`writers` (who has it open) and `torn` (who truncated it last and has not filled it); `pc`;
`alike` (what `nhash` tells); `left` (that the copy of `torn` was killed or failed) and `mover`
(who emptied the archive) are history.

| code | actions |
|---|---|
| `find_existing_export`: the two tests; a build | `Begin`, `LookInArchive` |
| `shutil.move` across file systems, and `cp` | `OpenSource`, `OpenTarget`, `Fill`; `Unlink` |
| `find`, `[[ -f new ]]`, the two md5sums | `List`, `Test`, `NewHash`, `OldHash` |
| `rm` of the archived file, of the primary file | `RemoveOld`, `RemoveNew` |
| a copy fails half way, on a full disk | `CopyFails` |
| a process is killed; the script is interrupted | `Kill` |

ExportCache has the moves of requests among each other, with rows and answers; here the
script takes part, which also removes from the primary cache: a removed file that
somebody has open loses its name, and its writers go on without one. There is one
script at a time, run by hand; an error ends a run (`set -e`), and so do 50000 files. That it
is run again is up to the operator, so nothing is said of when the archive is empty, only
(`ScriptAdvances`) that every step of every run brings it nearer. A copy that fails is not
among these steps: on a disk that stays full the script gets nowhere.

## Runs

The instances are the smallest in which the listed hazards happen: what they need is a
step of one actor between two steps of the other, so most have two threads (one in
ExportSlug; in JanusQueue, where two wait for a third, three processes). The runs of the
pipeline check deadlock, since a thread that serves a request always has a step; the
others do not, since nothing happens after the last request, process and tick. In the
pipeline two contents are one upstream update, one bump is one change of version; the guards of
`UpstreamUpdate`, `BumpVersion` and the sets `Runs` and `Archived` are the only
bounds. The features are spread over the runs (a copying file system, deletions, kills,
an archive, derived exports), because together they exceed what TLC can visit in
minutes; each property is checked where the features that endanger it are on.

| run | instance | checks | shows |
|---|---|---|---|
| ExportFresh | every request, epub only, one update, one bump, content 1 has no contentHash, backend may be down, one file system | `TypeOK`, `FreshAnswer`, `FreshVersion`, `ImplementsService` | the pipeline implements the service; what is reused was logged under a version no older than the request's |
| ExportDerived | links to a pdf (and so to the epub it is made from), one update, content 1 has no contentHash, one file system | `LogProvenance` | keys describe their exports though upstream changes between any two steps of a build |
| ExportCrash | every request, epub and html, an archived epub, the archive copies, copies fail, kills | `LoggedOnDisk`, `LinkHonoured`, `TornIsTransient`, `ArchiveSafe`, `EachStepCounts` | a row never names a missing file, a link leads to its file; who leaves a half file, and that one such mover loses nothing; nobody prolongs a request of another |
| ExportLive | every request, an archived epub, everything copies, deletions, fairness | `ApiAnswered`, `LinkAnswered` | requests end |
| ExportSlug | one thread, archived epub, one update | `SlugServedDirectly` (violated) | a finding, below |
| ExportDownload | epub, everything copies | `DownloadMatchesHash` (violated) | a finding, below |
| ExportRegenerate | epub, one file system | `RegeneratesOnlyMissing` (violated) | a finding, below |
| Limiter | two addresses without a row, one of which may have its parameters lowered, one token, 3 requests, times 0 to 2 | `TypeOK`, `WindowBound`, `PassBound`, `HonestWait`, `ChargeKept` | no bucket grants more than it may, no more requests get through, no charge is lost, the wait told is true |
| JanusQueue | three processes, two types, both command lines, two polls, a crowd of three, two ages, kills | `TypeOK`, `OneConversion`, `NotAllGiveUp`, `ImplementsLine`, `WaitShrinks`, `WaitEnds` | one conversion at a time but for the exceptions named; the scans are a line served by age; somebody always goes on; nobody prolongs another's wait; waits end |
| Availability | two threads, one query, three reasons of which two are known, 3 requests, 2 listings | `TypeOK`, `ListedNotServed`, `NotIndexedAnew`, `BulkLeavesOut` | what was unavailable when a request or an indexing began is not given out under its own id |
| UnavailableEcho | two queries for one fic | `EchoesQuery` (violated) | a finding, below |
| CacheMove | two requests, 5 moves or builds, 3 kills and failed copies | `TypeOK`, `ScriptKeeps`, `UnwrittenIsWhole`, `ScriptAdvances` | what the script takes from the archive has arrived; a half file is the fault of the last who truncated it; nothing makes the script repeat itself |

The other bounds. **Limiter**: `MaxRequests` and `MaxClock`. Its buckets hold one or
two requests and leak 0.3 to 1.2 of one per unit of time: the third request comes to a full
bucket while another thread still holds an old `now`, and two units are enough for a level to
leak to zero, for a `now` to be late by one and for the next drain to go back over it. The
addresses have no row at first, so that two creations race; the bucket of the one that is
never lowered is in `PassBound`. **JanusQueue**: `MaxPolls` stands for
the 72 polls of 180 s, `MaxOtherWaiting` for 3; with two of each a process waits, polls again,
gives up late and gives up in a crowd of three. One tick after zero gives older, younger and
equal. **Availability**: `MaxMarks` is a listing and a ban, or two listings between the queries of
the indexer; the third request comes after two that overlap. **CacheMove**: a request can move,
rebuild and move again; the script, a mover and the script again can be killed or run out of disk. The theorems
lift all of these bounds.

Every property of a passing run has a mutant in `PROJECT.json`: a plausible bug,
written as an operator next to the definition it would replace, that violates it.

**Fairness.** `FairSpec` assumes weak fairness of each thread's steps: the operating
system schedules a thread that can run, and every call has a time limit (requests'
timeouts, `subprocess.run(timeout=...)`), so it ends one way or the other. Nothing is
assumed of clients, of the backend (which may fail for ever: then the answer is an
error) or of operators. `LinkAnswered` needs the other requests to come to an end,
since each of their failures makes the link regenerate once more.

For janus weak fairness covers what a process does by itself until its turn (`Wait`): its
scans and sleeps go on. Nothing says when a conversion ends, nor that a process is
killed; `WaitEnds` must hold behind one that hangs, which is what the count of the
polls is for. The other modules have no fairness.

## Findings

* **ExportSlug.** `get_cached_export` moves an archived file into the primary cache
  after `fdir.mkdir(parents=True)` (main.py:555), which raises if the directory is
  there: as soon as the fic has a newer export in the primary cache, old links to
  archived exports end in a 500. The comment above promises to "try to serve it
  directly" (main.py:551).
* **ExportDownload.** Without a row to reuse, `create_epub` publishes the same bytes
  over the live file, by a copy that truncates it first (ebook.py:156). A download
  at that moment gets a part of it, and its md5sum is not the hash in the link
  (templates/api.html:97-102).
* **ExportRegenerate.** The most recent requestLog row may be that of a failure, with
  a null hash: "the most recent export is missing" (main.py:580) is then concluded
  of a file named `None.epub`, and the whole of `ensure_export` is run for an export that is
  there already: as a rule it asks the backend and finds the logged one, but it may build it
  anew, or fail.
* **UnavailableEcho.** `lookup` returns the module's dict `FIC_UNAVAILABLE_ERROR` itself
  (ax.py:38), and the callers write "upstream" and "q" into it, "q" only if there is
  none (main.py:775). From the first refusal on every unavailable fic is answered, by
  that process, with the query of the first one, and requestLog stores it. The API page
  shows an answer that repeats the query of its request (templates/api.html:33, 69).

Seen on the way, and not a disagreement with anything the repository says:

* `move_cache.sh` may remove the only copy of an export. A request that needs the file
  after `find` listed it moves it itself; `[[ -f new ]]` is then true, md5sum of the old
  name prints nothing, `cut` succeeds with an empty `ohash`, and the mismatch removes the
  primary file (line 42). The same happens to a file that a request is still filling, which
  then goes on writing to a file without a name. `ScriptKeeps` therefore says of the
  script what it cannot say of a request, and the export is built anew when it is asked
  for.
* A dead backend skips `lookup` and its checks, and the row of a fic that was saved before
  ficInfo had a source and an author tells `FicBlacklist.check` nothing of a banned author:
  such a fic is answered with the note that results may be stale. `ListedNotServed` claims
  the author's will only of requests that have looked the fic up.
* A fic of source 19 that is unknown passes lookup's checks, is saved and indexed, and
  only then refused by the check before the answer. `NotIndexedAnew` excludes it.
* `FicBlacklistReason` has no member for the default reason 1 of the SQL tables, so the
  bulk indexer never asks for it (`Known` is smaller than `Reasons`).
* As `convert_epub` starts it, janus recognises nobody, not even itself (janus.py:143-148
  against janus.py:1 and ebook.py:248-256), and every process goes ahead. No run says it is
  wrong, since nothing in the repository says that the queue works under `uv run`; see
  "JanusQueue and the code".
* A listed fic is served under its id in another case, as long as the link has a hash; see
  "Availability and the code".
* A half file that a failed copy leaves is returned by `find_existing_export` as the export, and
  stays until somebody copies over it. `TornIsTransient` and `ArchiveSafe` bound the damage: a
  copy that ends well leaves no half file, and one that fails leaves the archived file where it
  was, unless another copy had unlinked it meanwhile.
* `finalize_export` reads the export version after the build (ebook.py:162): an export that was
  being built during a bump counts as new. `FreshVersion` therefore tells when an export was
  logged, not when it was built.
* The answer of a fresh build (main.py:449-458) leaves out `notes`, so
  an export built while the backend was down does not say "results may be stale"
  (main.py:310). Its chapters are fetched from the backend then, so `FreshAnswer`
  holds of it; the model's `Answer(w, n, FALSE)` after a build is this omission.
* The clean-up scripts delete below `/mnt/fichub/cache`, a root the code no longer uses.

## Proofs

The theorems on the pipeline hold for any sets of threads, export types, contents,
versions, archives and file system layouts that meet `ExportAssumption` and
`ArchiveAssumption`; those on the limiter for any threads, addresses, tokens,
parameters and charges that meet `LimiterAssumption` (a bucket holds at least one
request; a flow is not zero; there are finitely many threads); those on the other
modules for any processes, command lines and polls, threads and reasons, requests and faults:

| theorem | module | states | for |
|---|---|---|---|
| `TypeCorrect` | ExportCacheProofs | `Spec => []TypeOK` | |
| `Provenance` | ExportCacheProofs | `Spec => []LogProvenance` | |
| `Freshness` | ExportCacheProofs | `Spec => []FreshAnswer` | |
| `Kept` | ExportFileProofs | `Spec => []LoggedOnDisk` | no deletions |
| `LinksKept` | ExportFileProofs | `Spec => []LinkHonoured` | no deletions |
| `TornHasWriter` | ExportFileProofs | `Spec => []TornIsTransient` | |
| `ArchiveKept` | ExportFileProofs | `Spec => []ArchiveSafe` | no deletions |
| `VersionsBind` | ExportFileProofs | `Spec => []FreshVersion` | |
| `NoStepLost` | ExportFileProofs | `Spec => EachStepCounts` | |
| `Implementation` | ExportRefinementProofs | `Spec => ImplementsService` | |
| `LimiterTyped` | LimiterProofs | `Spec => []TypeOK` | |
| `Windows` | LimiterProofs | `Spec => []WindowBound` | |
| `Honesty` | LimiterProofs | `Spec => []HonestWait` | |
| `Charges` | LimiterProofs | `Spec => ChargeKept` | |
| `Passing` | LimiterPassProofs | `Spec => []PassBound` | |
| `JanusTyped` | JanusQueueProofs | `Spec => []TypeOK` | |
| `JanusOneConversion` | JanusQueueProofs | `Spec => []OneConversion` | |
| `JanusNotAllGiveUp` | JanusQueueProofs | `Spec => []NotAllGiveUp` | |
| `JanusImplementsLine` | JanusQueueProofs | `Spec => ImplementsLine` | |
| `JanusWaitShrinks` | JanusQueueProofs | `Spec => WaitShrinks` | |
| `AvailabilityTyped` | AvailabilityProofs | `Spec => []TypeOK` | |
| `AvailabilityServes` | AvailabilityProofs | `Spec => []ListedNotServed` | |
| `AvailabilityIndexes` | AvailabilityProofs | `Spec => []NotIndexedAnew` | |
| `AvailabilityBulk` | AvailabilityProofs | `Spec => []BulkLeavesOut` | |
| `CacheMoveTyped` | CacheMoveProofs | `Spec => []TypeOK` | |
| `CacheMoveKeeps` | CacheMoveProofs | `Spec => []ScriptKeeps` | |
| `CacheMoveWhole` | CacheMoveProofs | `Spec => []UnwrittenIsWhole` | |
| `CacheMoveAdvances` | CacheMoveProofs | `Spec => ScriptAdvances` | |

**The invariant.** None of `TypeOK`, `LogProvenance` and `FreshAnswer` is inductive: that
the row written by `Upsert` has the right key depends on the locals a thread carried
through the build, and these depend on where the thread is. The inductive invariant is
`IInv == World /\ Control`. `World` says of the tables and disks what their types and
`LogProvenance` say, and that no content is from the future. `Control` says for every
thread, by its place in the code (`LocalOK`), what its locals are: while it finds, the
epub it goes on from is an epub; while it stores, the name it stores belongs to the epub
it built from metadata no newer than the chapters; unless its reply will be noted, its
metadata is no older than the request. The proof has a lemma for each continuation
(`GotoOK`, `FinishOK`, `AnswerOK`, `FoundOK`, ...), one for each group of actions
(`LookUpStep`, `FindStep`, `MoveStep`, `BuildStep`, `UpsertStep`, `ServeStep`), and
`NextIInv` puts them together. The other modules add to it and are laid out alike.

**What is on disk.** `Kept` needs to know that the name a thread is about to log or to
answer is in a cache, and `LinksKept` that a hash given out stays there. `Shelf` says so of
the tables and of `issued`, and `ThreadOK` of each thread by its place: between the move
and the requestLog row, the stored name is in a cache. Names only move from one cache to
the other (`ThreadGrows`), so what another thread does keeps this true.

**Who writes, and who left it half.** `StepContinues` shows that a step of a thread leaves the
other threads and its own request alone; the frame of most arguments. A file is in `torn` with
its last writer, which is at "copy" until it removes it, or its copy is in `broken`
(`Writing`). A copy that was alone when it broke has left its source in the archive, and
nobody copies the file now; whoever copies it later truncates it, and the break is forgotten
(`Solitary`). `Half` is both, and inductive with `IInv`: `OnlyOpenCopies` says that no step
but `OpenCopy` comes to "copy", `BreakHalf` what a kill and a copy that raises have in common.
The archive's names were all given out, so `Shelf` keeps them on disk: `ArchiveKept`.

**Which version.** `Versioned` carries the version of a request through its search: at
"row" the version it read is no older, and once a row is found, that row, with the hash of the
file that is then looked for, moved and answered, was logged under it (`HasRow`). An upsert
may replace the row meanwhile; what was logged stays logged (`RowsAlwaysStay`), and a file that
is published instead is not a reused one.

**The refinement.** `StepAnswers` shows from `IInv` alone that whatever a step answers
fits the request: an API request gets an epub, a link its own file or a redirect to
its type. With `FreshAnswer` that is `Acceptable`, so a step that ends a
request is the service's `Deliver`, any other a stutter (`StepRefines`); requests map
to `Ask`, returns and kills to `Leave`, updates to `Update`.

**The limiter.** `WindowBound` is not inductive: that the next charge keeps it is seen only
from the level. With `Height(r) == value + flow * last`, a row's level carried back to time
0, `BucketOK` says that what was granted since a time `a` is still in it:
`Height >= One * granted[a] + flow * a`. Draining never lowers the height, whether `now` is
after the last drain or before it (`Drains`), and a charge raises it by itself; it is
granted only if the level fits, which bounds the height from above by the capacity and
the flow up to `now` (`GrantBucket`). The difference of the two is the bound. `TickBucket`,
`LowerBucket` and `NewBucket` say the same of the other statements, and `Threads` that only
an address with a row is lowered. `RefuseBucket` is the arithmetic of `HonestWait`: with
`e` over the capacity, `Wait * flow > e` and `(Wait - 2) * flow < e`.

`PassBound` follows from `WindowBound` once every request that got through is seen to have
been granted by its source's bucket. A request is granted there first and passes later,
and in between it asks the global bucket: `Covered` counts those (`Pending`) with
those that passed, and bounds the sum by the charges granted. A step moves a request
into `Pending` with a charge, out of it with a pass or a refusal; the lemmas on
cardinalities of the library say what adding and removing one does. `Dated` says that no
charge is dated in the future and none before its request, so that it counts since the
same times; `Sited` that only a token's row goes away, with which the bound does too.

**janus.** `OneConversion` is about two that convert, its reason is in the scan of the younger
one: every older process of the key that lives is still to be looked at, or found, or was
overlooked before it was janus, or is a stranger (`ScanSees`); `Named` says that a command line
lasts from exec to the end of the process, so that nobody becomes one later. A process that starts later is not older, one that
ends no longer counts, so no step of another breaks it; at the end of a scan nothing is left to
look at, and whoever goes ahead has found no older one (`ConvertSees`). For `NotAllGiveUp`,
`WaitsBehind` says that who polls again or gives up has seen an older process of its key, so the
oldest of a key, which exists because ids and ages are natural numbers (`Oldest`, by the
library's well-foundedness), never does. In the refinement a scan's steps stutter or pass over
somebody who is forked (`LookRefines`); `GoRefines` is where `ScanSees` and the choice of the
oldest meet, and `WaitsBehind` is what `GiveUp` asks for.

**Availability.** The tables only grow: a check that refuses now refuses for ever. So what a
request remembers still holds (`Remembers`): it is due now if it was due when it came, and if it
has looked the fic up the row is full, and a check sees all that was wanted. A check that is
passed therefore says that it was not due then; `Placed` carries this from the check to the
index and to the answer. A link under the id in another case has passed no check until
`lookup`, which asks for the fic itself; `Placed` claims nothing of it before. The indexer's part (`BulkOK`) says that one of the reasons still to be
asked is there if any was when it selected the fic.

**CacheMove.** Only the script removes from the primary cache, so what it has tested is there
until it says otherwise (`Compared`), and a file whose hash was right is not one of its own
half files: while it compares it copies nothing. When it has taken the archive's file it has
nothing left to do (`Taken`), so what others do later only rewrites what is there.
`UnwrittenIsWhole` is inductive by itself: the last who truncated the file has it open, or
`left` it.

**That things end.** Fairness and ENABLED are beyond the prover, so the liveness properties
`ApiAnswered`, `LinkAnswered` and `WaitEnds` stay with TLC. Their safety
core is proved: a natural number that every step of the one who waits lowers, whatever
happened between two of them. What TLC adds is that it always has a step until it is done,
and that under fairness it takes it.

* `EachStepCounts`: a request has at most 55 steps left (`Left`): the phases of
  `ensure_export` (lookup, the search for the epub, fetch and store, the search for the
  derived export, the search again from its builder, make and store, the answer), and in
  each at most 7. The proof has one lemma for each continuation (`GotoNearer`, `FinishNearer`,
  `ErrorNearer`, `AnswerNearer`, ...) and one for each group of actions. A failure always
  goes forward; what comes back to the search from "make" comes to a later phase
  (`job.seek`). The one step that starts over is `get_cached_export`'s regeneration, and
  `StartsOver` needs `LoggedOnDisk`: without deletions, the latest export is then a failed one
  or in the archive. Hence the assumption of `LinkAnswered` that the other requests end.
* `WaitShrinks`: a poll costs at most one step per process and two more, and polls are
  counted, so `StepsLeft` falls even behind a conversion that hangs and among processes that
  keep starting; it needs that a scan begins with the processes there are, which are
  finitely many.
* `ScriptAdvances`: the script needs at most 17 steps (`ToGo`): to copy, to find and remove a
  half file, to copy again, to compare and remove. The case that matters is a file that changed
  after the script looked, and `Filling` keeps the one it is filling itself. Others may add
  to `ToGo`: a request that truncates the file, a kill or a failing copy of the script that
  leaves half of it. Here there is no liveness property to go with it, since nothing in the
  repository runs the script again.

Every invariant and action property of the passing runs is proved; only the three liveness
properties are model-checked alone.


## Not modelled

Within the pipeline: a database that fails at the requestLog insert (the reuse path
would then build, the create path would end in a 500), at a select of
`get_cached_export`, or at the export version inside `find_existing_export` other than
as a miss; colliding temporary names (32 random bits per process and thread); md5
collisions; a rename that fails though its source is there, and an open of the destination that
is refused, which leave no half file and end like `SourceGone`; two rows of requestLog with one time stamp. The wording of answers, pages,
slugs and the contents of files are data no property looks at.

In the limiter: `DYNAMIC_RATE_LIMIT` off, a database that fails between two of its
transactions, floating point rounding, and a clock that is set back. The checks of
addresses and agents that follow are one way a granted request ends (`Serve`).

In the queue: process ids that are used again, and a calibre that goes on after its janus was
killed (`bin/kill_orphaned_calibre.sh` ends these), whose conversion may overlap with the
next one; a kill that reaches only uv. In Availability: which other fics an author has, the fields of a document, and the
search itself, which reads only. In CacheMove: files that differ under one name, which the
content hashes exclude, and an `rm` that is refused.

Components that are left out:

* **Request sources.** `upsert` is a select, an insert that does nothing on conflict, and a
  select, on a table whose rows never change: no interleaving differs from another. The
  sleep of `LIMIT_UPSTREAMS` is a delay.
* **req_json's retries.** They only prolong a call to the backend, which may take any time in
  the models.
* **IP tags.** A list of ranges that is read and searched; the result is a log line and a delay.
* **relayoutCache.py.** A one-time copy between two roots neither of which the code uses.
* **Pages, redirects, frontend, deployment.** Stateless, or without state of the service.

## Plan

Done: the pipeline with its service and refinement, the limiter, the janus queue with its line and
refinement, availability, and the migration, each with its proofs. Left, in this order:

1. `RequestPath`: one request through limiter, blacklist, janus and the pipeline, with
   `ExportService` in place of the pipeline, for what the parts do not say of each other: that an
   export a link makes before it asks the limiter is still counted, and how the 290 s of
   `convert_epub` and the 180 s of the queue add up to one answer.
2. The caches' composition: ExportCache with the script as one more mover, so that rows and
   links are seen to survive a migration in the way single files do in CacheMove.
3. For the proofs: that `Acceptable` answers, in turn, are what `RequestPath` needs of the
   pipeline, so that its invariants need not look below ExportService.
