--------------------------- MODULE ExportRefinement ---------------------------
(* ExportCache implements ExportService. *)
EXTENDS ExportCache

NotAsked == [kind |-> "none", etype |-> "epub", h |-> None]

Requests == [kind : {"api"}, etype : {"epub"}, h : {None}]
            \cup [kind : {"link"}, etype : ETypes, h : Name \cup {None}]

\* The request is the part of a worker's local state that it never changes.
Asked == [w \in Workers |->
  IF pc[w] = "idle" THEN NotAsked
  ELSE [kind |-> job[w].kind, etype |-> job[w].etype, h |-> job[w].h]]

Service == INSTANCE ExportService WITH
  Idle <- NotAsked,
  asked <- Asked,
  since <- [w \in Workers |-> since[w].content],
  answer <- reply

\* However requests overlap with each other, with upstream updates, bumps,
\* deletions and crashes, what ensure_export and get_cached_export answer is what
\* ExportService allows: every step is one of its steps or changes nothing there.
ImplementsService == Service!Spec
=============================================================================
