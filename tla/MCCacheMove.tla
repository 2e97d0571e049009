------------------------------ MODULE MCCacheMove ------------------------------
(* An instance of CacheMove for TLC. *)
EXTENDS CacheMove
=============================================================================
