----------------------------- MODULE Lifecycle -----------------------------
(***************************************************************************)
(* What the controller promises about the life of one GlobalNetwork and of *)
(* the networks made for it, without reconciles, API calls and faults:     *)
(*  - a network is created only under the finalizer, and only while the    *)
(*    network on record is not in use;                                     *)
(*  - the record goes forward: from nothing, or from a network that is no  *)
(*    longer in use, to one that was created for the resource;             *)
(*  - a network is ended by request of the user, and only the one on       *)
(*    record, or else by somebody outside;                                 *)
(*  - the finalizer is given up only when the network on record is not in  *)
(*    use.                                                                 *)
(***************************************************************************)
EXTENDS Naturals

CONSTANTS Id, Nil, Foreign

VARIABLES phase,     \* unmanaged, managed (with finalizer), deleting or gone
          recorded,  \* the id in the status, or Nil
          life,      \* of each network: unused, live, leaving or gone
          outside    \* how often others have interfered

vars == <<phase, recorded, life, outside>>

RecordLive == recorded # Nil /\ life[recorded] = "live"

Init ==
    /\ phase = "unmanaged" /\ recorded = Nil /\ outside = 0
    /\ life = [n \in Id |-> IF n = Foreign THEN "live" ELSE "unused"]

Manage ==
    /\ phase = "unmanaged" /\ phase' = "managed"
    /\ UNCHANGED <<recorded, life, outside>>

\* The finalizer goes: the resource with it, if it was to be deleted.
GiveUp ==
    /\ ~RecordLive
    /\ \/ phase = "managed" /\ phase' = "unmanaged" /\ UNCHANGED recorded
       \/ phase = "deleting" /\ phase' = "gone" /\ recorded' = Nil

Release == GiveUp /\ UNCHANGED <<life, outside>>

\* The user deletes the resource.
Request ==
    /\ \/ phase = "managed" /\ phase' = "deleting" /\ UNCHANGED recorded
       \/ phase = "unmanaged" /\ phase' = "gone" /\ recorded' = Nil
    /\ UNCHANGED <<life, outside>>

\* A creation whose answer is lost looks like one that failed.
Create(n) ==
    /\ phase \in {"managed", "deleting"} /\ ~RecordLive
    /\ life[n] = "unused" /\ life' = [life EXCEPT ![n] = "live"]
    /\ UNCHANGED <<phase, recorded>> \/ GiveUp
    /\ UNCHANGED outside

Record(n) ==
    /\ phase \in {"managed", "deleting"} /\ ~RecordLive
    /\ n # Foreign /\ life[n] # "unused"
    /\ recorded' = n
    /\ UNCHANGED <<phase, life, outside>>

End(n) ==
    /\ phase = "deleting" /\ n = recorded
    /\ life[n] = "live" /\ life' = [life EXCEPT ![n] = "leaving"]
    /\ UNCHANGED <<phase, recorded, outside>>

Vanish(n) ==
    /\ life[n] = "leaving" /\ life' = [life EXCEPT ![n] = "gone"]
    /\ UNCHANGED <<phase, recorded, outside>>

Interfere(n) ==
    /\ n # Foreign /\ life[n] = "live"
    /\ life' = [life EXCEPT ![n] = "leaving"] \/ UNCHANGED life
    /\ outside' = outside + 1
    /\ UNCHANGED <<phase, recorded>>

Next ==
    \/ Manage \/ Release \/ Request
    \/ \E n \in Id : Create(n) \/ Record(n) \/ End(n) \/ Vanish(n) \/ Interfere(n)

Spec == Init /\ [][Next]_vars
=============================================================================
