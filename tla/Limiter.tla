-------------------------------- MODULE Limiter --------------------------------
(***************************************************************************)
(* The rate limiter: the table fichub.limiter and its function             *)
(* fill_limiter (limiter.sql), the class Limiter (limiter.py) and the      *)
(* requests that pass by it (get_limiter, maybe_limit_request and          *)
(* api_v0_epub in main.py).                                                *)
(*                                                                         *)
(* Every call of the class is a transaction of its own.  Its now() is the  *)
(* time at which the transaction began, so that of a fill_limiter that had *)
(* to wait for the table lock may lie before the row's last drain.         *)
(*                                                                         *)
(* Time and volume are integers; a request's charge is One.                *)
(***************************************************************************)
EXTENDS Integers, FiniteSets

CONSTANTS
  Workers,      \* the threads of all processes
  Addresses,    \* keys "remote:..."
  Tokens,       \* keys "token:...", rows made and removed by an operator
  Global,       \* the key "global"
  Headless,     \* the addresses that (also) use a HeadlessChrome
  One,          \* the charge of a request, 1.0
  Late,         \* the charge of a refused request, 0.200
  Bad,          \* the charge of a failed export, 0.500
  Default, Lowered, Shared, Agreed,
                \* the parameters of an address, of one lowered, of the
                \* global bucket, of a token
  MaxClock,     \* bound: the end of time
  MaxRequests,  \* bound: the number of requests
  NoRow

Sources == Addresses \cup Tokens
Keys == Sources \cup {Global}

Parameters == [capacity : Nat, flow : Nat \ {0}]

ASSUME LimiterAssumption ==
  /\ IsFiniteSet(Workers)
  /\ Sources # {} /\ Headless \subseteq Addresses
  /\ Addresses \cap Tokens = {} /\ Global \notin Sources
  /\ One \in Nat \ {0} /\ Late \in Nat /\ Bad \in Nat
  /\ {Default, Lowered, Shared, Agreed} \subseteq Parameters
  /\ \A p \in {Default, Lowered, Shared, Agreed} : p.capacity >= One
  /\ MaxClock \in Nat /\ MaxRequests \in Nat
  /\ NoRow \notin [capacity : Nat, flow : Nat \ {0}, value : Nat, last : Nat]

Clock == 0 .. MaxClock
Stamp == 0 .. MaxClock + 1

Bucket == [capacity : Nat, flow : Nat \ {0}, value : Nat, last : Clock]

VARIABLES
  clock,      \* the time
  rows,       \* fichub.limiter: the row of each key
  pc, job,    \* each worker's program counter and local variables
  asked,      \* the number of requests so far
  granted,    \* history: how often each row was charged by a fill_limiter that began
              \* at or after each time, under its current parameters
  passed,     \* history: how many requests that came at or after each time went through
  due         \* history: when the last refused one may come again, 0 if others came since

vars == <<clock, rows, pc, job, asked, granted, passed, due>>

Job == [key : Sources,
        headless : BOOLEAN,    \* the User-Agent header is a HeadlessChrome's
        came : Clock,          \* history: when the request came in
        global : BOOLEAN,      \* which bucket is asked: the source's, or the global one
        again : BOOLEAN,       \* the source's is asked for the second time
        now : Clock]           \* fill_limiter's now()

PC == {"idle", "create", "params", "test", "fill", "tick", "work"}

Row(p, now) == [capacity |-> p.capacity, flow |-> p.flow, value |-> 0, last |-> now]

Never == [s \in Stamp |-> 0]

\* One more at time t.
Counted(h, t) == [s \in Stamp |-> h[s] + IF s <= t THEN 1 ELSE 0]

NoJob == [key |-> CHOOSE k \in Sources : TRUE, headless |-> FALSE, came |-> 0,
          global |-> FALSE, again |-> FALSE, now |-> 0]

Init ==
  /\ clock = 0
  /\ rows = [k \in Keys |-> IF k = Global THEN Row(Shared, 0)
                            ELSE IF k \in Tokens THEN Row(Agreed, 0) ELSE NoRow]
  /\ pc = [w \in Workers |-> "idle"] /\ job = [w \in Workers |-> NoJob]
  /\ asked = 0
  /\ granted = [k \in Keys |-> Never] /\ passed = [k \in Keys |-> Never]
  /\ due = [k \in Keys |-> 0]
-----------------------------------------------------------------------------
(* fill_limiter *)

\* Mutant: an idle bucket goes on leaking below zero.
DrainedBelow(r, now) == r.value - (now - r.last) * r.flow

\* greatest(0, value - (extract(epoch from (now() - lastDrain)) * flow))
Drained(r, now) ==
  LET level == r.value - (now - r.last) * r.flow IN
  IF level > 0 THEN level ELSE 0

\* Mutant: the charge itself need not fit.
ExcessBefore(r, now) == Drained(r, now) - r.capacity

\* What is over the capacity: the shortfall before its division by flow, negated.
Excess(r, now) == One + Drained(r, now) - r.capacity

\* Mutant: rounded down.
WaitDown(r, now) == Excess(r, now) \div r.flow

\* math.ceil(retry_after + 1)
Wait(r, now) == (Excess(r, now) + r.flow - 1) \div r.flow + 1

\* Mutant: the time of the last drain is not set.
ChargedUndated(r, now) == [r EXCEPT !.value = One + Drained(r, now)]

Charged(r, now) == [r EXCEPT !.value = One + Drained(r, now), !.last = now]
-----------------------------------------------------------------------------
(* How a worker goes on. *)

Goto(w, s, j) ==
  /\ pc' = [pc EXCEPT ![w] = s]
  /\ job' = [job EXCEPT ![w] = j]

Leave(w) == Goto(w, "idle", NoJob)

\* With the limiter's row: a HeadlessChrome lowers its parameters first.
Limit(w, j) == Goto(w, IF j.headless THEN "params" ELSE "test", j)

\* The bucket that is asked.
Asked(w) == IF job[w].global THEN Global ELSE job[w].key

\* retry_after is None: next the global bucket, then the request itself.
Granted(w) ==
  \/ /\ ~job[w].global
     /\ Goto(w, "test", [job[w] EXCEPT !.global = TRUE, !.now = 0])
     /\ UNCHANGED passed
  \/ /\ job[w].global
     /\ Goto(w, "work", [job[w] EXCEPT !.now = 0])
     /\ passed' = [k \in Keys |-> IF k \in {job[w].key, Global}
                                  THEN Counted(passed[k], job[w].came)
                                  ELSE passed[k]]

\* Mutant: the second answer is not looked at.
RefusedOnce(w) ==
  \/ job[w].again /\ ~job[w].global /\ Granted(w)
  \/ /\ ~job[w].again /\ ~job[w].global
     /\ Goto(w, "tick", [job[w] EXCEPT !.now = 0])
     /\ UNCHANGED passed
  \/ job[w].global /\ Leave(w) /\ UNCHANGED passed

\* A source that is refused is charged and asks once more; otherwise a 429.
Refused(w) ==
  /\ \/ /\ ~job[w].again /\ ~job[w].global
        /\ Goto(w, "tick", [job[w] EXCEPT !.now = 0])
     \/ (job[w].again \/ job[w].global) /\ Leave(w)
  /\ UNCHANGED passed
-----------------------------------------------------------------------------
(* A request. *)

\* A new request selects its row.  A token without one is answered by a 403.
Request(w) ==
  /\ pc[w] = "idle"
  /\ asked < MaxRequests
  /\ \E k \in Sources, headless \in BOOLEAN :
       /\ headless => k \in Headless
       /\ LET j == [NoJob EXCEPT !.key = k, !.headless = headless, !.came = clock] IN
          \/ rows[k] # NoRow /\ Limit(w, j)
          \/ rows[k] = NoRow /\ k \in Addresses /\ Goto(w, "create", j)
  /\ asked' = asked + 1
  /\ UNCHANGED <<clock, rows, granted, passed, due>>

\* Limiter.create; a row somebody else has created since violates unique(key).
Create(w) ==
  /\ pc[w] = "create"
  /\ \/ /\ rows[job[w].key] = NoRow
        /\ rows' = [rows EXCEPT ![job[w].key] = Row(Default, clock)]
        /\ Limit(w, job[w])
     \/ /\ rows[job[w].key] # NoRow
        /\ Leave(w)
        /\ UNCHANGED rows
  /\ UNCHANGED <<clock, asked, granted, passed, due>>

\* Limiter.set_parameters
SetParameters(w) ==
  /\ pc[w] = "params"
  /\ LET k == job[w].key
         r == [rows[k] EXCEPT !.capacity = Lowered.capacity, !.flow = Lowered.flow] IN
     /\ rows' = [rows EXCEPT ![k] = r]
     /\ granted' = [granted EXCEPT ![k] = IF r = rows[k] THEN granted[k] ELSE Never]
     /\ due' = [due EXCEPT ![k] = IF r = rows[k] THEN due[k] ELSE 0]
  /\ Goto(w, "test", job[w])
  /\ UNCHANGED <<clock, asked, passed>>

\* fill_limiter begins, and looks for the row before it takes the lock.
BeginFill(w) ==
  /\ pc[w] = "test"
  /\ \/ /\ rows[Asked(w)] # NoRow
        /\ Goto(w, "fill", [job[w] EXCEPT !.now = clock])
        /\ UNCHANGED passed
     \/ rows[Asked(w)] = NoRow /\ Refused(w)
  /\ UNCHANGED <<clock, rows, asked, granted, due>>

\* With the table locked.  A row that is gone by now has no shortfall, and a
\* shortfall of null is not negative.
Fill(w) ==
  /\ pc[w] = "fill"
  /\ LET k == Asked(w)
         r == rows[k]
         now == job[w].now IN
     \/ /\ r # NoRow /\ Excess(r, now) <= 0
        /\ rows' = [rows EXCEPT ![k] = Charged(r, now)]
        /\ granted' = [granted EXCEPT ![k] = Counted(granted[k], now)]
        /\ due' = [due EXCEPT ![k] = 0]
        /\ Granted(w)
     \/ /\ r # NoRow /\ Excess(r, now) > 0
        /\ due' = [due EXCEPT ![k] = now + Wait(r, now)]
        /\ Refused(w)
        /\ UNCHANGED <<rows, granted>>
     \/ /\ r = NoRow
        /\ Granted(w)
        /\ UNCHANGED <<rows, granted, due>>
  /\ UNCHANGED <<clock, asked>>

\* Limiter.tick: the level rises, whatever the capacity; without a row it raises.
Tick(k, v) ==
  \/ /\ rows[k] # NoRow
     /\ rows' = [rows EXCEPT ![k].value = @ + v]
     /\ due' = [due EXCEPT ![k] = 0]
  \/ rows[k] = NoRow /\ UNCHANGED <<rows, due>>

TickRefused(w) ==
  /\ pc[w] = "tick"
  /\ Tick(job[w].key, Late)
  /\ \/ rows[job[w].key] # NoRow /\ Goto(w, "test", [job[w] EXCEPT !.again = TRUE])
     \/ rows[job[w].key] = NoRow /\ Leave(w)
  /\ UNCHANGED <<clock, asked, granted, passed>>

\* The request is served, or refused for other reasons.  A link whose file is
\* missing passes the limiter again from within: a Request of its own here.
Serve(w) ==
  /\ pc[w] = "work"
  /\ Leave(w)
  /\ UNCHANGED <<clock, rows, asked, granted, passed, due>>

\* ensure_export answers api_v0_epub with an error.  Nothing up to here tells an API
\* request from a link, so that it is left open until now which of them this is.
ServeFails(w) ==
  /\ pc[w] = "work"
  /\ Tick(job[w].key, Bad)
  /\ Leave(w)
  /\ UNCHANGED <<clock, asked, granted, passed>>
-----------------------------------------------------------------------------
(* The environment. *)

Pass ==
  /\ clock < MaxClock
  /\ clock' = clock + 1
  /\ UNCHANGED <<rows, pc, job, asked, granted, passed, due>>

\* A token's row is removed.
Revoke ==
  /\ \E k \in Tokens : rows[k] # NoRow /\ rows' = [rows EXCEPT ![k] = NoRow]
  /\ UNCHANGED <<clock, pc, job, asked, granted, passed, due>>

Step(w) ==
  \/ Request(w) \/ Create(w) \/ SetParameters(w) \/ BeginFill(w) \/ Fill(w)
  \/ TickRefused(w) \/ Serve(w) \/ ServeFails(w)

Next == Pass \/ Revoke \/ \E w \in Workers : Step(w)

Spec == Init /\ [][Next]_vars
-----------------------------------------------------------------------------
(* Properties *)

\* Every variable stays in its set; in particular no level falls below zero.
TypeOK ==
  /\ clock \in Clock
  /\ rows \in [Keys -> Bucket \cup {NoRow}]
  /\ pc \in [Workers -> PC]
  /\ job \in [Workers -> Job]
  /\ asked \in 0 .. MaxRequests
  /\ granted \in [Keys -> [Stamp -> Nat]] /\ passed \in [Keys -> [Stamp -> Nat]]
  /\ due \in [Keys -> Nat]

\* Whatever the order in which overlapping fill_limiters get the lock, those that
\* began in an interval are granted at most the capacity, and the flow for its
\* length: now() may run backwards from one drain to the next, and nothing leaks
\* twice for it.
WindowBound ==
  \A k \in Keys : rows[k] # NoRow =>
    \A a, b \in Stamp :
      a < b /\ granted[k][a] > granted[k][b]
        => One * (granted[k][a] - granted[k][b])
             <= rows[k].capacity + rows[k].flow * (b - 1 - a)

\* The same of what it is for: of the requests of one source, and of all, that have
\* come in since some time, no more have got through, races, retries, revocations
\* and failures included.  (An address whose parameters are lowered on the way has
\* no one bound.)
PassBound ==
  \A k \in Keys \ Headless : rows[k] # NoRow =>
    \A a \in Stamp :
      passed[k][a] > 0
        => One * passed[k][a] <= rows[k].capacity + rows[k].flow * (clock - a)

\* The level a row stands for, carried back to time 0.
Height(r) == r.value + r.flow * r.last

\* No charge is ever lost, whatever overlaps: under unchanged parameters a bucket
\* leaks no faster than its flow, in every step.
ChargeKept ==
  [][\A k \in Keys :
       /\ rows[k] # NoRow /\ rows'[k] # NoRow
       /\ rows'[k].flow = rows[k].flow
       => Height(rows'[k]) >= Height(rows[k])]_vars

\* A refused client that comes back when it was told to, and nobody has used its
\* bucket since, is not refused by that bucket again; and it waits at most two
\* seconds longer than it had to: one of the rounding up, one of the "+ 1".
HonestWait ==
  \A k \in Keys :
    rows[k] # NoRow /\ due[k] > 0
      => Excess(rows[k], due[k]) <= 0 /\ Excess(rows[k], due[k] - 2) > 0
=============================================================================
