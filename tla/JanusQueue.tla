------------------------------- MODULE JanusQueue -------------------------------
(***************************************************************************)
(* janus (janus.py): the processes that convert_epub starts, one for each  *)
(* mobi or pdf to make.  They have no queue but the process table: each    *)
(* scans it until no older process with its key, the type it makes, is     *)
(* left, or until it gives up.  A scan knows janus by its command line,    *)
(* "python3 /home/fichub/fichub.net/janus.py" and two file names, and      *)
(* passes over a janus that was started in another way.                    *)
(*                                                                         *)
(* A scan looks at one process after the other while they start, exec,     *)
(* end and are killed.  Time is counted in ticks of the kernel's clock,    *)
(* in which create_time() is given: two processes may be of one age.       *)
(***************************************************************************)
EXTENDS Integers, FiniteSets

CONSTANTS
  Procs,            \* process ids, in no relation to age
  Keys,             \* the output types
  CommandLines,     \* how janus is started: "janus", what the scans look for, or "other"
  MaxPolls,         \* int(180 / delta)
  MaxOtherWaiting,  \* max_other_waiting
  MaxClock          \* bound: the end of time

ASSUME JanusAssumption ==
  /\ Procs \subseteq Nat /\ IsFiniteSet(Procs)
  /\ "null" \notin Keys
  /\ CommandLines \subseteq {"janus", "other"}
  /\ MaxPolls \in Nat \ {0} /\ MaxOtherWaiting \in Nat \ {0} /\ MaxClock \in Nat

VARIABLES
  clock,
  pc,        \* where each process is, or how it ended
  key,       \* get_wait_key, "null" before there is a process
  cmdline,   \* the command line, "none" before exec and once there is no process
  created,   \* create_time
  polls,     \* wait_for_our_turn: how many polls are over
  todo,      \* the rest of process_iter
  found,     \* the janus processes among those it has given
  unseen     \* history: older ones of its key that this scan met before they were janus

vars == <<clock, pc, key, cmdline, created, polls, todo, found, unseen>>

\* "forked" is in the process table, but has not become janus yet.
Living == {"forked", "poll", "scan", "convert"}

GaveUp == {"crowded", "late"}

PC == {"none", "over"} \cup Living \cup GaveUp

Init ==
  /\ clock = 0
  /\ pc = [p \in Procs |-> "none"]
  /\ key = [p \in Procs |-> "null"]
  /\ cmdline = [p \in Procs |-> "none"]
  /\ created = [p \in Procs |-> 0]
  /\ polls = [p \in Procs |-> 0]
  /\ todo = [p \in Procs |-> {}] /\ found = [p \in Procs |-> {}]
  /\ unseen = [p \in Procs |-> {}]
-----------------------------------------------------------------------------
(* Starting. *)

\* convert_epub: subprocess.run.
Fork(p, k) ==
  /\ pc[p] = "none"
  /\ pc' = [pc EXCEPT ![p] = "forked"]
  /\ key' = [key EXCEPT ![p] = k]
  /\ created' = [created EXCEPT ![p] = clock]
  /\ UNCHANGED <<clock, cmdline, polls, todo, found, unseen>>

\* janus has its command line.  convert_epub executes the file itself: under the
\* "uv run" of its first line, and where it lies now, that is "other".
Exec(p) ==
  /\ pc[p] = "forked"
  /\ pc' = [pc EXCEPT ![p] = "poll"]
  /\ \E c \in CommandLines : cmdline' = [cmdline EXCEPT ![p] = c]
  /\ UNCHANGED <<clock, key, created, polls, todo, found, unseen>>
-----------------------------------------------------------------------------
(* wait_for_our_turn *)

\* Mutant: whoever has a higher id is taken to be younger.
BeginScanLower(p) ==
  /\ pc[p] = "poll"
  /\ polls[p] < MaxPolls
  /\ pc' = [pc EXCEPT ![p] = "scan"]
  /\ todo' = [todo EXCEPT ![p] = {q \in Procs : q <= p /\ pc[q] \in Living}]
  /\ UNCHANGED <<clock, key, cmdline, created, polls, found, unseen>>

\* Mutant: one poll too many.
BeginScanOnceMore(p) ==
  /\ pc[p] = "poll"
  /\ polls[p] <= MaxPolls
  /\ pc' = [pc EXCEPT ![p] = "scan"]
  /\ todo' = [todo EXCEPT ![p] = {q \in Procs : pc[q] \in Living}]
  /\ UNCHANGED <<clock, key, cmdline, created, polls, found, unseen>>

BeginScan(p) ==
  /\ pc[p] = "poll"
  /\ polls[p] < MaxPolls
  /\ pc' = [pc EXCEPT ![p] = "scan"]
  /\ todo' = [todo EXCEPT ![p] = {q \in Procs : pc[q] \in Living}]
  /\ UNCHANGED <<clock, key, cmdline, created, polls, found, unseen>>

\* Leaving wait_for_our_turn, and its locals, or janus altogether.
Leave(p, where) ==
  /\ pc' = [pc EXCEPT ![p] = where]
  /\ polls' = [polls EXCEPT ![p] = 0]
  /\ todo' = [todo EXCEPT ![p] = {}]
  /\ found' = [found EXCEPT ![p] = {}]
  /\ unseen' = [unseen EXCEPT ![p] = IF where = "convert" THEN @ ELSE {}]
  /\ cmdline' = [cmdline EXCEPT ![p] = IF where = "convert" THEN @ ELSE "none"]
  /\ UNCHANGED <<clock, key, created>>

\* WaitTimeoutError
NeverOurTurn(p) ==
  /\ pc[p] = "poll"
  /\ polls[p] = MaxPolls
  /\ Leave(p, "late")

Older(q, p) == key[q] = key[p] /\ created[q] < created[p]

\* The scans find only who is janus already and was started as they expect.
Recognised(q) == pc[q] \in Living /\ cmdline[q] = "janus"

\* The next process of the scan.  One that is gone may be skipped by process_iter.
Look(p) ==
  /\ pc[p] = "scan"
  /\ \E q \in todo[p] :
       /\ \A r \in todo[p] : q <= r
       /\ todo' = [todo EXCEPT ![p] = @ \ {q}]
       /\ found' = [found EXCEPT ![p] = IF Recognised(q) THEN @ \cup {q} ELSE @]
       /\ unseen' = [unseen EXCEPT ![p] = IF pc[q] = "forked" /\ Older(q, p)
                                          THEN @ \cup {q} ELSE @]
  /\ UNCHANGED <<clock, pc, key, cmdline, created, polls>>

\* One that ends at the wrong moment, janus or not, makes cmdline() raise.
LookFails(p) == pc[p] = "scan" /\ Leave(p, "over")

\* Mutant: the first of the key, not the oldest.
FirstFound(p, q) ==
  /\ q \in found[p] /\ key[q] = key[p]
  /\ \A r \in found[p] : key[r] = key[p] => q <= r

\* min_pid: the oldest of the key, of those of one age the first.
First(p, q) ==
  /\ q \in found[p] /\ key[q] = key[p]
  /\ \A r \in found[p] :
       key[r] = key[p] => created[q] < created[r] \/ (created[q] = created[r] /\ q <= r)

OurTurn(p) == \A q \in Procs : First(p, q) => q = p \/ created[q] >= created[p]

Crowded(p) == Cardinality(found[p]) > MaxOtherWaiting

GoAhead(p) == OurTurn(p) /\ Leave(p, "convert")

\* sys.exit(103)
Abort(p) == ~OurTurn(p) /\ Crowded(p) /\ Leave(p, "crowded")

\* Mutant: polls are not counted.
StayForEver(p) ==
  /\ ~OurTurn(p) /\ ~Crowded(p)
  /\ pc' = [pc EXCEPT ![p] = "poll"]
  /\ found' = [found EXCEPT ![p] = {}]
  /\ unseen' = [unseen EXCEPT ![p] = {}]
  /\ UNCHANGED <<clock, key, cmdline, created, polls, todo>>

\* "previous export still running"
Stay(p) ==
  /\ ~OurTurn(p) /\ ~Crowded(p)
  /\ pc' = [pc EXCEPT ![p] = "poll"]
  /\ polls' = [polls EXCEPT ![p] = @ + 1]
  /\ found' = [found EXCEPT ![p] = {}]
  /\ unseen' = [unseen EXCEPT ![p] = {}]
  /\ UNCHANGED <<clock, key, cmdline, created, todo>>

\* Mutant: whoever is in a crowd gives up, its first too.
DecideCrowd(p) ==
  \/ ~Crowded(p) /\ (GoAhead(p) \/ Stay(p))
  \/ Crowded(p) /\ Leave(p, "crowded")

Decide(p) == GoAhead(p) \/ Abort(p) \/ Stay(p)

EndScan(p) == pc[p] = "scan" /\ todo[p] = {} /\ Decide(p)
-----------------------------------------------------------------------------
(* Ending. *)

\* convert_local or convert_janus returns, whatever the code.
Finish(p) == pc[p] = "convert" /\ Leave(p, "over")

\* convert_epub's timeout, or whoever kills janus.  Of a janus below uv the timeout
\* kills the uv, and this step is not taken: the janus goes on.
Kill(p) == pc[p] \in Living /\ Leave(p, "over")

Pass ==
  /\ clock < MaxClock
  /\ clock' = clock + 1
  /\ UNCHANGED <<pc, key, cmdline, created, polls, todo, found, unseen>>

\* What p does by itself until its turn has come.
Wait(p) == BeginScan(p) \/ NeverOurTurn(p) \/ Look(p) \/ LookFails(p) \/ EndScan(p)

Step(p) == (\E k \in Keys : Fork(p, k)) \/ Exec(p) \/ Wait(p) \/ Finish(p) \/ Kill(p)

Next == Pass \/ \E p \in Procs : Step(p)

Spec == Init /\ [][Next]_vars

\* A scan goes on; nothing says when a conversion ends.
FairSpec == Spec /\ \A p \in Procs : WF_vars(Wait(p))
-----------------------------------------------------------------------------
(* Properties *)

\* Every variable stays in its set.
TypeOK ==
  /\ clock \in 0 .. MaxClock
  /\ pc \in [Procs -> PC]
  /\ key \in [Procs -> Keys \cup {"null"}]
  /\ cmdline \in [Procs -> CommandLines \cup {"none"}]
  /\ created \in [Procs -> 0 .. MaxClock]
  /\ polls \in [Procs -> 0 .. MaxPolls]
  /\ todo \in [Procs -> SUBSET Procs]
  /\ found \in [Procs -> SUBSET Procs]
  /\ unseen \in [Procs -> SUBSET Procs]

\* Two processes of one key convert at once only if they were started in the same
\* tick, if the older has a command line that nobody recognises, or if it had none
\* yet when the younger looked at it: nothing that starts, ends, fails or is killed
\* during a scan lets another pass, and who is not recognised itself still waits.
OneConversion ==
  \A p, q \in Procs :
    pc[p] = "convert" /\ pc[q] = "convert" /\ key[p] = key[q] /\ created[p] < created[q]
      => cmdline[p] = "other" \/ p \in unseen[q]

\* Not everybody waits for somebody else: when all that made one type are gone,
\* at least one of them had not given up waiting.
NotAllGiveUp ==
  \A k \in Keys :
    LET made == {p \in Procs : key[p] = k}
    IN  made # {} => \E p \in made : pc[p] \notin GaveUp

\* Where the places in the code are in the line.
PlaceOf(s) ==
  CASE s = "forked" -> "coming"
    [] s \in {"poll", "scan"} -> "line"
    [] s \in GaveUp -> "left"
    [] OTHER -> s

Line == INSTANCE ConversionLine WITH
  place <- [p \in Procs |-> PlaceOf(pc[p])],
  missed <- unseen,
  strangers <- {p \in Procs : cmdline[p] = "other"}

\* The scans, each of a table that changes under it and with ids in no order, amount
\* to a line: no process overtakes an older one of its key that waits or converts,
\* but for one it looked at between fork and exec or one that was started in another
\* way; and nobody gives up who has nobody before it.
ImplementsLine == Line!Spec

\* A bound on the steps that p still waits for: a poll looks at each process at most
\* once, between its first and its last step.
StepsLeft(p) ==
  (MaxPolls - polls[p]) * (Cardinality(Procs) + 2)
    - IF pc[p] = "scan" THEN Cardinality(Procs) + 1 - Cardinality(todo[p]) ELSE 0

\* Nobody can prolong another's wait, neither the processes that start while it scans
\* the table nor a conversion it waits for: each step of it brings its end nearer.
WaitShrinks ==
  [][\A p \in Procs :
       /\ {pc[p], pc'[p]} \subseteq {"poll", "scan"}
       /\ <<pc[p], polls[p], todo[p]>>' # <<pc[p], polls[p], todo[p]>>
       => StepsLeft(p)' \in 0 .. StepsLeft(p) - 1]_vars

\* Nobody waits for ever, even behind a conversion that never ends: once the last
\* process has started, a time comes when no process waits any more.
WaitEnds == <>[](\A p \in Procs : pc[p] \notin {"poll", "scan"})
=============================================================================
