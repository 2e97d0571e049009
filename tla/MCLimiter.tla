------------------------------- MODULE MCLimiter -------------------------------
(* An instance of Limiter for TLC: a request is ten units of volume. *)
EXTENDS Limiter, TLC

MCDefault == [capacity |-> 20, flow |-> 6]
MCLowered == [capacity |-> 10, flow |-> 3]
MCShared == [capacity |-> 20, flow |-> 12]
MCAgreed == [capacity |-> 10, flow |-> 9]

MCSymmetry == Permutations(Workers)
=============================================================================
