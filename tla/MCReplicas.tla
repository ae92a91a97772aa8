----------------------------- MODULE MCReplicas -----------------------------
(* Replicas for TLC: one replica, and the pod that a rolling update adds.     *)
EXTENDS Replicas

CONSTANTS p1, p2

TwoPods == {p1, p2}
=============================================================================
