------------------------------ MODULE MCObjects ------------------------------
(* Objects for TLC: two ids, so that a network can be replaced by another.   *)
EXTENDS Objects

MCId == 1 .. 2
=============================================================================
