-------------------------- MODULE MCManagerFactory --------------------------
(* Instances of ManagerFactory for TLC: two role ARNs, one with a slash and   *)
(* the empty one that is used when a namespace names no role.                *)
EXTENDS ManagerFactory


MCPart == {"", "arn:role", "reader"}
MCRoleARN == {<<"">>, <<"arn:role", "reader">>}
=============================================================================
