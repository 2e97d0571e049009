----------------------------- MODULE ExportService -----------------------------
(***************************************************************************)
(* What the export pipeline promises whoever sends a request, whatever the *)
(* caches and the tables hold and however requests overlap: nothing is     *)
(* said of files, rows or workers' steps.                                  *)
(***************************************************************************)
EXTENDS Integers

CONSTANTS Workers, Name, MaxContent,
          Reply,       \* what can be answered: a kind, a name, noted, whole
          Requests,    \* what can be asked: records with a kind, an etype and an h
          Idle,        \* nothing asked
          NoReply      \* nothing answered

VARIABLES content,     \* what upstream has
          asked,       \* the request each worker serves
          since,       \* what upstream had when it came in
          answer       \* the answer

vars == <<content, asked, since, answer>>

Init ==
  /\ content = 1
  /\ asked = [w \in Workers |-> Idle]
  /\ since = [w \in Workers |-> 1]
  /\ answer = [w \in Workers |-> NoReply]

\* An API request is answered by an epub no older than the request, or one that
\* is said to be possibly stale; a link by the very file it names, or by a
\* redirect to one of the type it asks for; and either by an error.
Acceptable(w, a) ==
  \/ a.kind = "error"
  \/ /\ a.kind = "missing"
     /\ asked[w].kind = "link"
  \/ /\ a.kind = "export"
     /\ asked[w].kind = "api"
     /\ a.name \in Name /\ a.name.etype = "epub"
     /\ a.noted \/ a.name.chap >= since[w]
  \/ /\ a.kind = "file"
     /\ asked[w].kind = "link"
     /\ a.name \in Name /\ a.name = asked[w].h
  \/ /\ a.kind = "redirect"
     /\ asked[w].kind = "link"
     /\ a.name \in Name /\ a.name.etype = asked[w].etype

Ask(w) ==
  /\ asked[w] = Idle
  /\ asked'[w] \in Requests
  /\ asked' = [asked EXCEPT ![w] = asked'[w]]
  /\ since' = [since EXCEPT ![w] = content]
  /\ UNCHANGED <<content, answer>>

Deliver(w) ==
  /\ asked[w] # Idle /\ answer[w] = NoReply
  /\ answer'[w] \in Reply /\ Acceptable(w, answer'[w])
  /\ answer' = [answer EXCEPT ![w] = answer'[w]]
  /\ UNCHANGED <<content, asked, since>>

\* The answer is sent, or the worker's process dies.
Leave(w) ==
  /\ asked[w] # Idle
  /\ asked' = [asked EXCEPT ![w] = Idle]
  /\ since' = [since EXCEPT ![w] = 1]
  /\ answer' = [answer EXCEPT ![w] = NoReply]
  /\ UNCHANGED content

Update ==
  /\ content < MaxContent
  /\ content' = content + 1
  /\ UNCHANGED <<asked, since, answer>>

Next == Update \/ \E w \in Workers : Ask(w) \/ Deliver(w) \/ Leave(w)

Spec == Init /\ [][Next]_vars
=============================================================================
