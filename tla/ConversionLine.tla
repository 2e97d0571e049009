----------------------------- MODULE ConversionLine -----------------------------
(***************************************************************************)
(* What janus's processes promise each other, however they look around: a  *)
(* line for each type to convert, served by age.  Nobody overtakes an      *)
(* older one that stands in line or converts, unless it looked at it while *)
(* it was still on its way there or the older one is a stranger, whom      *)
(* nobody can tell to be of the line; and only who has somebody older than *)
(* itself gives up.  Nothing is said of polls, scans or the order of ids.  *)
(***************************************************************************)
EXTENDS Integers

CONSTANTS Procs, Keys, MaxClock

VARIABLES clock,
          place,     \* "none", "coming", "line", "convert", "left", "over"
          key,       \* the type it converts
          created,   \* when it came
          missed,    \* whom it has passed over since it last began to look
          strangers  \* who came in another way

vars == <<clock, place, key, created, missed, strangers>>

Init ==
  /\ clock = 0
  /\ place = [p \in Procs |-> "none"]
  /\ key = [p \in Procs |-> "null"]
  /\ created = [p \in Procs |-> 0]
  /\ missed = [p \in Procs |-> {}]
  /\ strangers = {}

Present(p) == place[p] \in {"coming", "line", "convert"}

Older(q, p) == key[q] = key[p] /\ created[q] < created[p]

To(p, where) == place' = [place EXCEPT ![p] = where]

Come(p, k) ==
  /\ place[p] = "none" /\ To(p, "coming")
  /\ key' = [key EXCEPT ![p] = k]
  /\ created' = [created EXCEPT ![p] = clock]
  /\ UNCHANGED <<clock, missed, strangers>>

StandInLine(p) ==
  /\ place[p] = "coming" /\ To(p, "line")
  /\ strangers' \in {strangers, strangers \cup {p}}
  /\ UNCHANGED <<clock, key, created, missed>>

PassOver(p, q) ==
  /\ place[p] = "line" /\ place[q] = "coming"
  /\ missed' = [missed EXCEPT ![p] = @ \cup {q}]
  /\ UNCHANGED <<clock, place, key, created, strangers>>

LookAgain(p) ==
  /\ place[p] = "line"
  /\ missed' = [missed EXCEPT ![p] = {}]
  /\ UNCHANGED <<clock, place, key, created, strangers>>

GoAhead(p) ==
  /\ place[p] = "line" /\ To(p, "convert")
  /\ \A q \in Procs : Present(q) /\ Older(q, p) => q \in missed[p] \cup strangers
  /\ UNCHANGED <<clock, key, created, missed, strangers>>

GiveUp(p) ==
  /\ place[p] = "line" /\ To(p, "left")
  /\ \E q \in Procs : Older(q, p)
  /\ missed' = [missed EXCEPT ![p] = {}] /\ strangers' = strangers \ {p}
  /\ UNCHANGED <<clock, key, created>>

\* The conversion ends, or the process, wherever it is.
End(p) ==
  /\ Present(p) /\ To(p, "over")
  /\ missed' = [missed EXCEPT ![p] = {}] /\ strangers' = strangers \ {p}
  /\ UNCHANGED <<clock, key, created>>

Pass ==
  /\ clock < MaxClock /\ clock' = clock + 1
  /\ UNCHANGED <<place, key, created, missed, strangers>>

Act(p) ==
  \/ \E k \in Keys : Come(p, k)
  \/ StandInLine(p)
  \/ \E q \in Procs : PassOver(p, q)
  \/ LookAgain(p) \/ GoAhead(p) \/ GiveUp(p) \/ End(p)

Next == Pass \/ \E p \in Procs : Act(p)

Spec == Init /\ [][Next]_vars
=============================================================================
