----------------------------- MODULE MCAvailability -----------------------------
(* Instances of Availability for TLC.  The threads are alike, and so are the   *)
(* reasons that the bulk indexer asks for.                                     *)
EXTENDS Availability, TLC

MCSymmetry == Permutations(Workers) \cup Permutations(Known)
=============================================================================
