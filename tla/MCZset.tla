------------------------------- MODULE MCZset -------------------------------
(* Instance for TLC: members and scores are the order in which they compare. *)
EXTENDS Zset
=============================================================================
