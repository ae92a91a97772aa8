------------------------------ MODULE Objects ------------------------------
(***************************************************************************)
(* The objects of a reconcile in memory. Resources are pointers to custom  *)
(* resources, whose status points to metadata and conditions that are      *)
(* written in place: what one operation writes another may see through a   *)
(* resource of its own. The copies of zz_generated.deepcopy.go keep them   *)
(* apart, where the code makes one; ReadOne, EnsureTags, the tags-only     *)
(* path of sdkUpdate and onSuccess work on, or return, their argument.     *)
(*                                                                         *)
(* A pointer is an index into the heap, 0 the nil pointer. Strings and     *)
(* tags are replaced and never written through a pointer, so they are      *)
(* values; the account of the metadata may point into the resource manager,*)
(* which all workers share. The order of the calls and the patches are the *)
(* ACK runtime's, external. What the values are is in ResourceManager.     *)
(***************************************************************************)
EXTENDS Naturals, Sequences

CONSTANTS Id   \* ids of networks, positive numbers; 0 is the nil id

ASSUME IdAssumption == Id \subseteq Nat \ {0}

VARIABLES cr,        \* the custom resource's status in the API server
          heap,      \* the objects of the reconcile under way
          pc,
          desired, observed, latest,   \* resources: pointers into heap.ko
          shared     \* an answer was decoded into the resource manager's memory

vars == <<cr, heap, pc, desired, observed, latest, shared>>

Condition == {"Terminal", "Recoverable", "ResourceSynced"}
Value == {"True", "False"}

\* A status as it is sent, without pointers. "none" is a missing condition.
Status == [id : Id \cup {0}, arn : Id \cup {0}, owner : BOOLEAN,
           conditions : [Condition -> Value \cup {"none"}]]
NoConditions == [c \in Condition |-> "none"]
NoStatus == [id |-> 0, arn |-> 0, owner |-> FALSE, conditions |-> NoConditions]

\* ko: the GlobalNetworks; meta: ResourceMetadata, whose owner account is
\* missing, a string of its own, or &rm.awsAccountID; cond: conditions.
NoHeap == [ko |-> <<>>, meta |-> <<>>, cond |-> <<>>]
NoPointers == [c \in Condition |-> 0]

\* The last object that was allocated.
New(h) == Len(h.ko)

StatusOf(h, o) ==
    LET ko == h.ko[o] IN
    [id    |-> ko.id,
     arn   |-> IF ko.meta = 0 THEN 0 ELSE h.meta[ko.meta].arn,
     owner |-> ko.meta # 0 /\ h.meta[ko.meta].owner # "nil",
     conditions |-> [c \in Condition |->
                        IF ko.cond[c] = 0 THEN "none" ELSE h.cond[ko.cond[c]]]]

\* A status read from the API server, in objects of its own.
Order(c) == CASE c = "Terminal" -> 1 [] c = "Recoverable" -> 2 [] c = "ResourceSynced" -> 3
Decoded(h, s) ==
    [ko   |-> Append(h.ko, [id   |-> s.id,
                            meta |-> IF s.owner THEN Len(h.meta) + 1 ELSE 0,
                            cond |-> [c \in Condition |-> IF s.conditions[c] = "none" THEN 0
                                                          ELSE Len(h.cond) + Order(c)]]),
     meta |-> Append(h.meta, [arn |-> s.arn, owner |-> "own"]),
     cond |-> h.cond \o <<s.conditions["Terminal"], s.conditions["Recoverable"],
                          s.conditions["ResourceSynced"]>>]

-----------------------------------------------------------------------------
(* resource.go, references.go and the generated copies.                    *)

\* GlobalNetworkStatus.DeepCopyInto: a new object in which every pointer is new.
\* Shallow leaves metadata and conditions where they are.
Shallow(h, o) == [h EXCEPT !.ko = Append(@, h.ko[o])]
StatusDeepCopyInto(h, o) ==
    LET copy == Decoded(h, StatusOf(h, o)) IN
    IF h.ko[o].meta = 0 THEN copy
    ELSE [copy EXCEPT !.ko[New(copy)].meta = Len(copy.meta),
                      !.meta[Len(copy.meta)].owner =
                          IF h.meta[h.ko[o].meta].owner = "nil" THEN "nil" ELSE "own"]

\* GlobalNetwork.DeepCopy, of which only the status matters here.
DeepCopy(h, o) == StatusDeepCopyInto(h, o)

\* ClearResolvedReferences returns a copy, ResolveReferences its argument.
ClearNothing(h, o) == [heap |-> h, res |-> o]
ClearResolvedReferences(h, o) ==
    LET h1 == DeepCopy(h, o) IN [heap |-> h1, res |-> New(h1)]
ResolveReferences(o) == o

\* ReplaceConditions with the list of Conditions in which one is set, in place
\* if it is there.
SetCondition(h, o, c, v) ==
    LET p == h.ko[o].cond[c] IN
    IF p # 0 THEN [h EXCEPT !.cond[p] = v]
    ELSE [h EXCEPT !.cond = Append(@, v), !.ko[o].cond[c] = Len(h.cond) + 1]

-----------------------------------------------------------------------------
(* sdk.go and manager.go.                                                  *)

\* The metadata is made if it is missing, and written in place.
WithMetadata(h, o) ==
    IF h.ko[o].meta # 0 THEN h
    ELSE [h EXCEPT !.meta = Append(@, [arn |-> 0, owner |-> "nil"]),
                   !.ko[o].meta = Len(h.meta) + 1]

SetStatusDefaults(h, o) ==
    LET h1 == WithMetadata(h, o)
        p  == h1.ko[o].meta
    IN  [h1 EXCEPT !.meta[p].owner = IF @ = "nil" THEN "rm" ELSE @]

\* The end of sdkFind, sdkCreate and sdkUpdate: a copy with the ids of network n.
Merge(h, o, n) ==
    LET h1 == DeepCopy(h, o)
        h2 == WithMetadata(h1, New(h1))
        p  == h2.ko[New(h2)].meta
    IN  SetStatusDefaults([h2 EXCEPT !.ko[New(h2)].id = n, !.meta[p].arn = n], New(h2))

\* updateConditions: a copy with the conditions of err.
ClearedToUnknown(h, o, err) ==
    LET IfPresent(g, c) == IF g.ko[o].cond[c] = 0 THEN g ELSE SetCondition(g, o, c, "Unknown")
    IN  CASE err = "Terminal" -> SetCondition(h, o, "Terminal", "True")
          [] err = "Other"    -> SetCondition(IfPresent(h, "Terminal"), o, "Recoverable", "True")
          [] err = "none"     -> IfPresent(IfPresent(h, "Terminal"), "Recoverable")
ConditionsOf(h, o, err) ==
    LET IfPresent(g, c) == IF g.ko[o].cond[c] = 0 THEN g ELSE SetCondition(g, o, c, "False")
    IN  CASE err = "Terminal" -> SetCondition(h, o, "Terminal", "True")
          [] err = "Other"    -> SetCondition(IfPresent(h, "Terminal"), o, "Recoverable", "True")
          [] err = "none"     -> IfPresent(IfPresent(h, "Terminal"), "Recoverable")
UpdateInPlace(h, o, err) ==
    [heap |-> ConditionsOf(SetStatusDefaults(h, o), o, err), res |-> o]
UpdateConditions(h, o, err) ==
    LET h1 == DeepCopy(h, o)
        c  == New(h1)
    IN  [heap |-> ConditionsOf(SetStatusDefaults(h1, c), c, err), res |-> c]

\* onSuccess and onError: the argument itself, if the copy has no condition.
Finish(h, o, err) ==
    LET x == UpdateConditions(h, o, err) IN
    IF x.heap.ko[x.res].cond # NoPointers THEN x ELSE [heap |-> h, res |-> o]

Return(h, o, err, step) ==
    LET x == Finish(h, o, err) IN heap' = x.heap /\ latest' = x.res /\ pc' = step

Error == {"Terminal", "Other"}

-----------------------------------------------------------------------------
(* A reconcile. A resource starts without status, or with the one that an  *)
(* AdoptedResource gave it, which has no conditions.                       *)

Init ==
    /\ cr \in {NoStatus} \cup
              {[id |-> n, arn |-> n, owner |-> TRUE, conditions |-> NoConditions] : n \in Id}
    /\ heap = NoHeap /\ pc = "idle"
    /\ desired = 0 /\ observed = 0 /\ latest = 0
    /\ shared = FALSE

Start ==
    /\ pc = "idle"
    /\ heap' = Decoded(NoHeap, cr)
    /\ desired' = ResolveReferences(New(heap'))
    /\ observed' = 0 /\ latest' = 0
    /\ pc' = "read"
    /\ UNCHANGED <<cr, shared>>

\* ReadOne finds the network: there is nothing to do, or an update to make.
ReadFound ==
    /\ pc = "read" /\ heap.ko[desired].id # 0
    /\ \E step \in {"synced", "update", "delete"} :
         Return(Merge(heap, desired, heap.ko[desired].id), New(heap) + 1, "none", step)
    /\ observed' = latest'
    /\ UNCHANGED <<cr, desired, shared>>

\* The resource of an error that is not found is dropped.
ReadNotFound ==
    /\ pc = "read"
    /\ heap' = Finish(heap, desired, "Other").heap
    /\ pc' = "create"
    /\ UNCHANGED <<cr, desired, observed, latest, shared>>

ReadFail ==
    /\ pc = "read" /\ heap.ko[desired].id # 0
    /\ \E err \in Error : Return(heap, desired, err, "synced")
    /\ UNCHANGED <<cr, desired, observed, shared>>

Create ==
    /\ pc = "create"
    /\ \/ \E n \in Id : Return(Merge(heap, desired, n), New(heap) + 1, "none", "patch")
       \/ \E err \in Error : Return(heap, desired, err, "synced")
    /\ UNCHANGED <<cr, desired, observed, shared>>

\* sdkUpdate returns desired itself when only tags differed.
Update ==
    /\ pc = "update"
    /\ \/ Return(heap, desired, "none", "patch")
       \/ Return(Merge(heap, desired, heap.ko[desired].id), New(heap) + 1, "none", "patch")
       \/ \E err \in Error : Return(heap, observed, err, "synced")
    /\ UNCHANGED <<cr, desired, observed, shared>>

\* Delete failed. After one that succeeds there is no resource to write.
DeleteFail ==
    /\ pc = "delete"
    /\ \E err \in Error : Return(heap, observed, err, "synced")
    /\ UNCHANGED <<cr, desired, observed, shared>>

\* An answer of the API server is decoded into object o, through the pointers
\* it finds there.
PointsIntoManager(h, o) == h.ko[o].meta # 0 /\ h.meta[h.ko[o].meta].owner = "rm"

\* No field is initialized late, and so latest itself comes back.
LateInitialize(o) == o

\* The patch of metadata and spec is made with cleaned resources.
PatchSpec ==
    LET x == ClearResolvedReferences(heap, latest) IN
    /\ pc = "patch"
    /\ heap' = x.heap
    /\ shared' = (shared \/ PointsIntoManager(x.heap, x.res))
    /\ latest' = LateInitialize(latest)
    /\ pc' = "synced"
    /\ UNCHANGED <<cr, desired, observed>>

\* The ResourceSynced condition is set on the returned resource.
SetSynced ==
    /\ pc = "synced"
    /\ \E v \in Value : heap' = SetCondition(heap, latest, "ResourceSynced", v)
    /\ pc' = "status"
    /\ UNCHANGED <<cr, desired, observed, latest, shared>>

\* The merge patch of the status, made with a copy: it writes what differs
\* between desired and latest.
PatchStatus ==
    LET before == StatusOf(heap, desired)
        after  == StatusOf(heap, latest)
        h1     == DeepCopy(heap, latest)
    IN  /\ pc = "status"
        /\ cr' = IF before = after THEN cr ELSE after
        /\ shared' = (shared \/ PointsIntoManager(h1, New(h1)))
        /\ heap' = NoHeap /\ pc' = "idle"
        /\ desired' = 0 /\ observed' = 0 /\ latest' = 0

Next == Start \/ ReadFound \/ ReadNotFound \/ ReadFail \/ Create \/ Update \/ DeleteFail
        \/ PatchSpec \/ SetSynced \/ PatchStatus

Spec == Init /\ [][Next]_vars

-----------------------------------------------------------------------------
\* Every variable has its type, and no pointer points outside the heap.
TypeOK ==
    /\ cr \in Status
    /\ pc \in {"idle", "read", "create", "update", "delete", "patch", "synced", "status"}
    /\ {desired, observed, latest} \subseteq 0 .. Len(heap.ko)
    /\ \A o \in 1 .. Len(heap.ko) :
          /\ heap.ko[o].meta \in 0 .. Len(heap.meta)
          /\ \A c \in Condition : heap.ko[o].cond[c] \in 0 .. Len(heap.cond)
          /\ StatusOf(heap, o) \in Status
    /\ shared \in BOOLEAN

\* The operations of the resource manager leave the status of the resources
\* they are given as it is, desired and observed: whatever they write in place
\* (setStatusDefaults, updateConditions) they write to a copy.
ArgumentsKept ==
    [][pc \notin {"idle", "synced", "status"} =>
        \A o \in {desired, observed} \ {0} : StatusOf(heap', o) = StatusOf(heap, o)]_vars

\* The patch writes what differs between desired and latest, so a status change
\* reaches the API server only if the two are different objects. They are one
\* only after an update of tags on a resource whose status has no condition
\* yet, which is the first reconcile after its adoption.
StatusReachesServer ==
    [][pc = "status" /\ cr' # StatusOf(heap, latest) =>
        cr.id # 0 /\ cr.conditions = NoConditions]_vars

\* setStatusDefaults puts pointers to the resource manager's own account, region
\* and partition into the status, and workers share the manager: no object that
\* an answer is decoded into may still have them.
ManagerNotWritten == ~shared
=============================================================================
