------------------------------ MODULE TagPass ------------------------------
(***************************************************************************)
(* What a reconcile does to tags, told with maps: the user's tags in the   *)
(* spec, those the controller wants, those it takes to be the newest, and  *)
(* those of the network. This is how Reconciler sees tags; TagLists shows  *)
(* that the code, which works on lists of pointers, implements it.         *)
(***************************************************************************)
EXTENDS AckTags

CONSTANTS DefaultTags,  \* the tags of the --resource-tags flag
          NoNetwork     \* the network has not been created

VARIABLES pc, spec, desired, latest, remote,
          settled       \* nothing has changed since a reconcile that ended well

vars == <<pc, spec, desired, latest, remote, settled>>

Init ==
    /\ pc = "idle"
    /\ spec \in Tags /\ remote = NoNetwork
    /\ desired = NoTags /\ latest = NoTags
    /\ settled = FALSE

EditSpec ==
    /\ pc = "idle"
    /\ spec' \in Tags
    /\ settled' = FALSE
    /\ UNCHANGED <<pc, desired, latest, remote>>

Drift ==
    /\ pc = "idle" /\ remote # NoNetwork
    /\ remote' \in Tags
    /\ settled' = FALSE
    /\ UNCHANGED <<pc, spec, desired, latest>>

EnsureTags ==
    /\ pc = "idle"
    /\ pc' = IF remote = NoNetwork THEN "create" ELSE "read"
    /\ desired' = Merge(spec, DefaultTags)
    /\ UNCHANGED <<spec, latest, remote, settled>>

Create ==
    /\ pc = "create"
    /\ remote' = desired /\ latest' = desired
    /\ pc' = "patch"
    /\ UNCHANGED <<spec, desired, settled>>

ReadOne ==
    /\ pc = "read"
    /\ latest' = remote
    /\ desired' = SyncAWSTags(desired, remote)
    /\ pc' = IF desired' # latest' THEN "sync" ELSE "same"
    /\ UNCHANGED <<spec, remote, settled>>

Forget == pc' = "idle" /\ desired' = NoTags /\ latest' = NoTags

\* With tags that are the same, the description may still have to be updated.
SameTags ==
    /\ pc = "same"
    /\ Forget \/ (pc' = "patch" /\ UNCHANGED <<desired, latest>>)
    /\ UNCHANGED <<spec, remote, settled>>

Sync ==
    /\ pc = "sync"
    /\ remote' = desired /\ latest' = desired
    /\ pc' = "patch"
    /\ UNCHANGED <<spec, desired, settled>>

\* The service takes no "aws:" tags.
Reject ==
    /\ pc \in {"create", "sync"}
    /\ KeysOf(desired) \cap AWSKey # {}
    /\ Forget
    /\ UNCHANGED <<spec, remote, settled>>

\* The patch leaves the tags of the spec alone or puts the newest ones there,
\* without the system tags. A spec with the same tags in another order is not
\* the same spec: a patch need not settle it.
Patch ==
    /\ pc = "patch"
    /\ spec' \in {spec, IgnoreSystemTags(latest)}
    /\ Forget
    /\ settled' \in BOOLEAN /\ (settled' => spec' = spec)
    /\ UNCHANGED remote

Next == \/ EditSpec \/ Drift \/ EnsureTags \/ Create \/ ReadOne \/ SameTags
        \/ Sync \/ Reject \/ Patch

Spec == Init /\ [][Next]_vars

-----------------------------------------------------------------------------
\* A reconcile that ended well and left the spec alone is followed by quiet
\* ones: newResourceDelta finds no difference in tags (delta.go:51-55) until
\* somebody changes the spec or the network.
SettledIsQuiet == pc = "sync" => ~settled

\* A settled resource is what it looks like: apart from the "aws:" tags, its
\* network has the user's tags, with the user's value where the flags of the
\* controller name the same key (EnsureTags, manager.go:304-307), the tags of
\* the flags, and no other tag.
SettledIsDone ==
    settled => \A k \in TagKey \ AWSKey : remote[k] = Merge(spec, DefaultTags)[k]
=============================================================================
