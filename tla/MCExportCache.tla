----------------------------- MODULE MCExportCache -----------------------------
(* Small instances of ExportCache for TLC. *)
EXTENDS ExportRefinement, TLC

\* Nothing archived; or the fic's first epub.
MCNothing == {}
MCEpub == {Epub(1, 1)}

\* Every request; or links without a file name, to the exports made from an epub.
MCAll == {"epub", "partial", "file"} \X ETypes
MCLinks == {"partial"} \X Derived

Threads == Permutations(Workers)
=============================================================================
