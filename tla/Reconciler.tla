----------------------------- MODULE Reconciler -----------------------------
(***************************************************************************)
(* One GlobalNetwork custom resource, the controller that reconciles it,   *)
(* and the Network Manager service that holds the real networks. Every API *)
(* call is a step of its own, so that edits by the user, changes behind    *)
(* the controller's back, lost answers and crashes fall between any two.   *)
(*                                                                         *)
(* The calls, their arguments, and what is made of their answers are those *)
(* of manager.go, sdk.go and pkg/tags/sync.go. The order in which ReadOne, *)
(* Create, Update and Delete are called, the finalizer and status patches  *)
(* and the requeueing belong to the ACK runtime, and the effect of a call  *)
(* to the service: both are external, modelled from how this code uses     *)
(* them. One worker handles one custom resource at a time.                 *)
(***************************************************************************)
EXTENDS ResourceManager, Naturals, FiniteSets

CONSTANTS UserSpec,            \* the specs a user writes
          DefaultTags,         \* the tags of the --resource-tags flag
          InvalidDescription,  \* descriptions the service rejects
          Foreign,             \* a network that is not this resource's
          Gone, NoResource,
          Faults,              \* the kinds of fault that may happen
          MaxFaults,           \* bound: faults
          MaxEdits,            \* bound: edits of the spec by the user
          MaxDrifts            \* bound: changes behind the controller's back

ASSUME UserSpecAssumption == UserSpec \subseteq ResourceSpec
ASSUME DefaultTagsAssumption == DefaultTags \in Tags /\ KeysOf(DefaultTags) = SystemKey
ASSUME ForeignAssumption == Foreign \in Id
ASSUME IdAssumption == IsFiniteSet(Id)
ASSUME NoneAssumption == Gone \notin Resource /\ NoResource \notin Resource
ASSUME BoundAssumption == {MaxFaults, MaxEdits, MaxDrifts} \subseteq Nat
ASSUME InvalidAssumption == InvalidDescription \subseteq Description

VARIABLES cr,        \* the custom resource in the API server, or Gone
          net,       \* the networks of the account
          pc,        \* the step the reconcile is at
          desired,   \* local: the resource as read from the API server
          observed,  \* local: what ReadOne returned
          latest,    \* local: what the reconcile will write back
          err,       \* local: the error it ended with
          queued,    \* the resource is in the work queue
          drifted,   \* the network changed since the controller last read it
          faults, edits, drifts, \* events so far, for the bounds
          lapses,    \* events that make the controller lose sight of a network
          refused    \* the service refused a call of the last reconcile, with a
                     \* ValidationException for a reason that is not in the spec

locals == <<pc, desired, observed, latest, err>>
world == <<queued, drifted, faults, edits, drifts, lapses, refused>>
vars == <<cr, net, locals, world>>

Network == [description : Description \cup {Nil}, tags : Tags,
            state : State \cup {"UNUSED", "DELETED"}, mine : BOOLEAN]
NoNetwork(state, mine) ==
    [description |-> Nil, tags |-> NoTags, state |-> state, mine |-> mine]

Steps == {"idle", "read", "manage", "create", "tag", "untag", "update",
          "patch", "status", "delete", "unmanage"}

Init ==
    /\ \E s \in UserSpec : cr = [spec |-> s, status |-> NoStatus,
                                 managed |-> FALSE, deleting |-> FALSE]
    /\ net = [n \in Id |-> IF n = Foreign THEN NoNetwork("AVAILABLE", FALSE)
                                          ELSE NoNetwork("UNUSED", TRUE)]
    /\ pc = "idle"
    /\ desired = NoResource /\ observed = NoResource /\ latest = NoResource
    /\ err = "none"
    /\ queued = TRUE /\ drifted = FALSE
    /\ faults = 0 /\ edits = 0 /\ drifts = 0 /\ lapses = 0
    /\ refused = FALSE

-----------------------------------------------------------------------------
(* The service.                                                            *)

\* A network that calls can change; a call without an id finds none.
InService(n) == n # Nil /\ net[n].state \in LiveState

\* DescribeGlobalNetworks: a nil id asks for every network of the account.
Described(id) ==
    {n \in Id : /\ net[n].state \in State
                /\ id = Nil \/ n = id}

\* What CreateGlobalNetwork, UpdateGlobalNetwork and TagResource validate.
Rejected(spec) == spec.description \in InvalidDescription
RejectedTags(tags) == KeysOf(tags) \cap AWSKey # {}

\* A network becomes available, or is gone for good, in its own time.
Settle(n) ==
    /\ net[n].state \in {"PENDING", "UPDATING", "DELETING"}
    /\ net' = [net EXCEPT ![n] =
                  IF @.state = "DELETING" THEN NoNetwork("DELETED", @.mine)
                  ELSE [@ EXCEPT !.state = "AVAILABLE"]]
    /\ UNCHANGED <<cr, locals, world>>

\* Somebody else changes a tag or the description, or deletes the network.
Drift(n) ==
    /\ drifts < MaxDrifts /\ net[n].mine /\ InService(n)
    /\ \/ \E k \in TagKey \ AWSKey, v \in TagValue \cup {Absent} :
            /\ net[n].tags[k] # v
            /\ net' = [net EXCEPT ![n].tags[k] = v]
       \/ \E d \in Description \ InvalidDescription :
            /\ net[n].description # d
            /\ net' = [net EXCEPT ![n].description = d, ![n].state = "UPDATING"]
       \/ net' = [net EXCEPT ![n].state = "DELETING"]
    /\ drifted' = TRUE
    /\ drifts' = drifts + 1
    /\ UNCHANGED <<cr, locals, queued, faults, edits, lapses, refused>>

\* An AWS service puts a tag of its own on the network.
AWSTag(n) ==
    /\ drifts < MaxDrifts /\ net[n].mine /\ InService(n)
    /\ \E k \in AWSKey, v \in TagValue :
        /\ net[n].tags[k] = Absent
        /\ net' = [net EXCEPT ![n].tags[k] = v]
    /\ drifts' = drifts + 1
    /\ UNCHANGED <<cr, locals, queued, drifted, faults, edits, lapses, refused>>

-----------------------------------------------------------------------------
(* The user.                                                               *)

EditSpec ==
    /\ cr # Gone /\ edits < MaxEdits
    /\ \E s \in UserSpec \ {cr.spec} : cr' = [cr EXCEPT !.spec = s]
    /\ queued' = TRUE
    /\ edits' = edits + 1
    /\ UNCHANGED <<net, locals, drifted, faults, drifts, lapses, refused>>

\* The API server keeps a resource that has a finalizer until it is removed.
DeleteCR ==
    /\ cr # Gone /\ ~cr.deleting
    /\ cr' = IF cr.managed THEN [cr EXCEPT !.deleting = TRUE] ELSE Gone
    /\ queued' = TRUE
    /\ UNCHANGED <<net, locals, drifted, faults, edits, drifts, lapses, refused>>

-----------------------------------------------------------------------------
(* The controller.                                                         *)

Fault(kind) == kind \in Faults /\ faults < MaxFaults /\ faults' = faults + 1

Return(res, e, step) == latest' = res /\ err' = e /\ pc' = step

\* The error of a call that the spec did not cause: throttling, a conflict, or
\* a ValidationException for reasons of the service's own (devices or sites
\* that a network still has). terminalAWSError looks at the code alone.
ErrorCode == {"Other", "ValidationException"}
Refuses(e) == refused' = (e = "ValidationException")

\* The reconcile is over: the next one starts from the API server again.
Forget ==
    /\ pc' = "idle" /\ err' = "none"
    /\ desired' = NoResource /\ observed' = NoResource /\ latest' = NoResource

\* A network was created and only this reconcile knows its id.
Unsaved ==
    /\ latest # NoResource /\ cr # Gone
    /\ latest.status.id \notin {Nil, cr.status.id}

\* Reconcile: read the resource and, unless it is being deleted, EnsureTags.
StartReconcile ==
    /\ pc = "idle" /\ queued /\ cr # Gone
    /\ desired' = IF cr.deleting THEN cr ELSE EnsureTags(cr, DefaultTags)
    /\ pc' = "read"
    /\ queued' = FALSE /\ refused' = FALSE
    /\ UNCHANGED <<cr, net, observed, latest, err, drifted, faults, edits, drifts, lapses>>

IgnoreGone ==
    /\ pc = "idle" /\ queued /\ cr = Gone
    /\ queued' = FALSE
    /\ UNCHANGED <<cr, net, locals, drifted, faults, edits, drifts, lapses, refused>>

\* The periodic resync of a resource that is not in a terminal condition.
Resync ==
    /\ pc = "idle" /\ ~queued /\ cr # Gone
    /\ cr.status.conditions.terminal # "True"
    /\ queued' = TRUE
    /\ UNCHANGED <<cr, net, locals, drifted, faults, edits, drifts, lapses, refused>>

NotFoundCreates ==
    /\ pc' = IF desired.deleting THEN "unmanage" ELSE "create"
    /\ UNCHANGED <<desired, observed, latest, err>>

\* ReadOne ended with NotFound: nothing to delete, or a network to create.
\* onError passes NotFound on as it is, because it is not a terminal error,
\* and its resource, with the condition it set, is dropped.
NotFound ==
    /\ pc' = IF desired.deleting THEN "unmanage"
             ELSE IF desired.managed THEN "create" ELSE "manage"
    /\ UNCHANGED <<desired, observed, latest, err>>

\* ReadOne, nothing found: the id is missing from the status, or the service
\* does not know it.
ReadUnknownIsAnError ==
    LET x == OnError(desired, "Other") IN
    /\ pc = "read"
    /\ \/ RequiredFieldsMissing(desired) /\ NotFound
       \/ /\ ~RequiredFieldsMissing(desired) /\ Described(desired.status.id) = {}
          /\ Return(x.res, x.err, "status")
          /\ UNCHANGED <<desired, observed>>
    /\ drifted' = FALSE
    /\ UNCHANGED <<cr, net, queued, faults, edits, drifts, lapses, refused>>
ReadNotFound ==
    /\ pc = "read"
    /\ RequiredFieldsMissing(desired) \/ Described(desired.status.id) = {}
    /\ NotFound
    /\ drifted' = FALSE
    /\ UNCHANGED <<cr, net, queued, faults, edits, drifts, lapses, refused>>

\* ReadOne, and the service has not yet caught up with the creation.
ReadMissed ==
    /\ pc = "read"
    /\ ~RequiredFieldsMissing(desired) /\ Described(desired.status.id) # {}
    /\ Fault("staleRead")
    /\ NotFound
    /\ lapses' = lapses + 1
    /\ UNCHANGED <<cr, net, queued, drifted, edits, drifts, refused>>

\* ReadOne, found. The service's tags are mirrored into the desired resource,
\* then the resource is deleted, left alone, or updated where it differs.
ReadFound ==
    /\ pc = "read"
    /\ ~RequiredFieldsMissing(desired)
    /\ \E n \in Described(desired.status.id) :
        LET found == MergeOutput(desired, n, net[n])
            seen  == OnSuccess(found)
            want  == MirrorAWSTags(desired, found)
            delta == NewResourceDelta(want, seen)
        IN  /\ desired' = want
            /\ observed' = seen
            /\ \/ /\ want.deleting
                  /\ Return(seen, "none", "delete")
               \/ /\ ~want.deleting /\ ~want.managed
                  /\ Return([seen EXCEPT !.status.conditions.terminal = "True"],
                            "Terminal", "status")
               \/ /\ ~want.deleting /\ want.managed
                  /\ Return(seen, "none",
                       IF delta = {} THEN "status"
                       ELSE IF "Spec.Tags" \notin delta THEN "update"
                       ELSE IF ToAdd(want.spec.tags, seen.spec.tags) # NoTags
                            THEN "tag" ELSE "untag")
    /\ drifted' = FALSE
    /\ UNCHANGED <<cr, net, queued, faults, edits, drifts, lapses, refused>>

\* ReadOne, and DescribeGlobalNetworks failed.
ReadError(e) ==
    LET x == OnError(desired, e) IN Return(x.res, x.err, "status")
ReadFail ==
    /\ pc = "read" /\ ~RequiredFieldsMissing(desired)
    /\ Fault("apiError")
    /\ \E e \in ErrorCode : ReadError(e) /\ Refuses(e)
    /\ UNCHANGED <<cr, net, desired, observed, queued, drifted, edits, drifts, lapses>>

\* MarkManaged and the patch that stores the finalizer.
Manage ==
    /\ pc = "manage" /\ cr # Gone
    /\ cr' = [cr EXCEPT !.managed = TRUE]
    /\ desired' = [desired EXCEPT !.managed = TRUE]
    /\ pc' = "create"
    /\ UNCHANGED <<net, observed, latest, err, world>>

\* The patch failed: the resource is gone, or the API server did not answer.
ManageFail ==
    /\ pc = "manage"
    /\ \/ cr = Gone /\ UNCHANGED faults
       \/ Fault("patchFail")
    /\ Forget
    /\ queued' = TRUE
    /\ UNCHANGED <<cr, net, drifted, edits, drifts, lapses, refused>>

\* newCreateRequestPayload and CreateGlobalNetwork, as the service carries it out.
Created(n) ==
    /\ net[n].state = "UNUSED"
    /\ net' = [net EXCEPT ![n] = [description |-> desired.spec.description,
                                  tags |-> desired.spec.tags,
                                  state |-> "PENDING", mine |-> TRUE]]

\* sdkCreate returned an error, so the network does not exist as far as the
\* reconciler knows: it may take its finalizer off again.
CreateError(e) ==
    LET x == OnError(desired, e) IN
    /\ Return(x.res, x.err, "status")
    /\ \E keep \in BOOLEAN :
        cr' = IF cr = Gone \/ (cr.deleting /\ ~keep) THEN Gone
              ELSE [cr EXCEPT !.managed = keep]
    /\ UNCHANGED <<desired, observed>>

RejectedCreate == Rejected(desired.spec) \/ RejectedTags(desired.spec.tags)

CreateForgetsId ==
    /\ pc = "create" /\ ~RejectedCreate
    /\ \E n \in Id :
        /\ Created(n)
        /\ Return(OnSuccess(MergeWithoutId(desired, n, net'[n])), "none", "patch")
    /\ UNCHANGED <<cr, desired, observed, world>>

\* Create: the identifiers of the answer go into the resource's status.
Create ==
    /\ pc = "create" /\ ~RejectedCreate
    /\ \E n \in Id :
        /\ Created(n)
        /\ Return(OnSuccess(MergeOutput(desired, n, net'[n])), "none", "patch")
    /\ UNCHANGED <<cr, desired, observed, world>>

CreateFail ==
    /\ pc = "create"
    /\ \/ /\ RejectedCreate /\ CreateError("ValidationException")
          /\ UNCHANGED <<faults, refused>>
       \/ Fault("apiError") /\ \E e \in ErrorCode : CreateError(e) /\ Refuses(e)
    /\ UNCHANGED <<net, queued, drifted, edits, drifts, lapses>>

\* The service created the network but its answer was lost.
CreateLost ==
    /\ pc = "create" /\ ~RejectedCreate
    /\ Fault("lostAnswer")
    /\ \E n \in Id : Created(n)
    /\ CreateError("Other")
    /\ lapses' = lapses + 1
    /\ UNCHANGED <<queued, drifted, edits, drifts, refused>>

-----------------------------------------------------------------------------
(* Update.                                                                 *)

Target == desired.status.id

\* The rest of sdkUpdate after syncTags: when nothing but tags differed it
\* returns the desired resource itself, with the status it came with.
AfterSyncTags ==
    LET delta == NewResourceDelta(desired, observed) IN
    \/ /\ delta \ {"Spec.Tags"} = {}
       /\ Return(OnSuccess(desired), "none", "patch")
    \/ /\ delta \ {"Spec.Tags"} # {}
       /\ Return(latest, "none", "update")

\* An API call of Update failed; Update returns the observed resource.
UpdateError(e) ==
    LET x == OnError(observed, e) IN Return(x.res, x.err, "status")

\* A call that goes through and whose answer is lost, or that fails: the change
\* may have been made although the caller sees an error.
Attempt(made) ==
    \/ made /\ Fault("lostAnswer") /\ UpdateError("Other") /\ UNCHANGED refused
    \/ /\ UNCHANGED net
       /\ Fault("apiError") \/ (~InService(Target) /\ UNCHANGED faults)
       /\ \E e \in ErrorCode : UpdateError(e) /\ Refuses(e)

\* addTags: TagResource.
AddTags ==
    LET add == ToAdd(desired.spec.tags, observed.spec.tags)
        gone == ToDelete(desired.spec.tags, observed.spec.tags)
        made == /\ InService(Target) /\ ~RejectedTags(add)
                /\ net' = [net EXCEPT ![Target].tags = TagResource(@, add)]
    IN  /\ pc = "tag"
        /\ \/ /\ made /\ UNCHANGED <<faults, refused>>
              /\ IF gone # {} THEN Return(latest, "none", "untag") ELSE AfterSyncTags
           \/ Attempt(made)
           \/ /\ InService(Target) /\ RejectedTags(add)
              /\ UNCHANGED <<net, faults, refused>>
              /\ UpdateError("ValidationException")
        /\ UNCHANGED <<cr, desired, observed, queued, drifted, edits, drifts, lapses>>

\* removeTags: UntagResource.
RemoveTags ==
    LET gone == ToDelete(desired.spec.tags, observed.spec.tags)
        made == /\ InService(Target)
                /\ net' = [net EXCEPT ![Target].tags = UntagResource(@, gone)]
    IN  /\ pc = "untag"
        /\ \/ made /\ UNCHANGED <<faults, refused>> /\ AfterSyncTags
           \/ Attempt(made)
        /\ UNCHANGED <<cr, desired, observed, queued, drifted, edits, drifts, lapses>>

\* newUpdateRequestPayload leaves a nil description out of the request; the
\* service then keeps the description it has, or clears it.
NewDescriptions(r, n) ==
    IF r.spec.description # Nil THEN {r.spec.description} ELSE {net[n].description, Nil}

\* UpdateGlobalNetwork, and the merge of its answer into the desired resource.
Update ==
    LET made == /\ InService(Target) /\ ~Rejected(desired.spec)
                /\ \E d \in NewDescriptions(desired, Target) :
                     net' = [net EXCEPT ![Target].description = d,
                                        ![Target].state = "UPDATING"]
    IN  /\ pc = "update"
        /\ \/ /\ made /\ UNCHANGED <<faults, refused>>
              /\ Return(OnSuccess(MergeOutput(desired, Target, net'[Target])),
                        "none", "patch")
           \/ Attempt(made)
           \/ /\ InService(Target) /\ Rejected(desired.spec)
              /\ UNCHANGED <<net, faults, refused>>
              /\ UpdateError("ValidationException")
        /\ UNCHANGED <<cr, desired, observed, queued, drifted, edits, drifts, lapses>>

-----------------------------------------------------------------------------
(* Writing back.                                                           *)

\* The merge patch of the spec, made when newResourceDelta finds a difference
\* between the desired resource and the one that Create or Update returned:
\* every field that differs is written, and FilterSystemTags takes the system
\* tags out first. As JSON the tags are a list: one that differs only in its
\* order is written as well. A changed spec queues the resource.
PatchSpec ==
    LET before == FilterSystemTags(desired).spec.tags
        after == FilterSystemTags(latest).spec.tags
        d == latest.spec.description
    IN  /\ pc = "patch"
        /\ \E reordered \in BOOLEAN :
            LET written == before # after \/ reordered IN
            /\ reordered => NewResourceDelta(desired, latest) # {}
            /\ cr' = IF cr = Gone THEN Gone
                     ELSE [cr EXCEPT
                             !.spec.description = IF d # desired.spec.description THEN d ELSE @,
                             !.spec.tags = IF written THEN after ELSE @]
            /\ queued' = (queued \/ cr' # cr \/ reordered)
        /\ pc' = "status"
        /\ UNCHANGED <<net, desired, observed, latest, err,
                       drifted, faults, edits, drifts, lapses, refused>>

PatchSpecFail ==
    /\ pc = "patch"
    /\ Fault("patchFail")
    /\ Return(latest, "Other", "status")
    /\ UNCHANGED <<cr, net, desired, observed, queued, drifted, edits, drifts, lapses, refused>>

SyncedStatus ==
    IF err = "Terminal" \/ (err = "none" /\ IsSynced(latest)) THEN "True" ELSE "False"

\* The status patch that ends a reconcile. An error that is not terminal, or
\* a resource that is not synced yet, is queued again.
PatchStatus ==
    /\ pc = "status"
    /\ cr' = IF cr = Gone THEN Gone
             ELSE [cr EXCEPT !.status =
                     [latest.status EXCEPT !.conditions.synced = SyncedStatus]]
    /\ queued' = (queued \/ err \notin {"none", "Terminal"} \/ SyncedStatus = "False")
    /\ Forget
    /\ UNCHANGED <<net, drifted, faults, edits, drifts, lapses, refused>>

PatchStatusFail ==
    /\ pc = "status"
    /\ Fault("patchFail")
    /\ lapses' = IF Unsaved THEN lapses + 1 ELSE lapses
    /\ queued' = TRUE
    /\ Forget
    /\ UNCHANGED <<cr, net, drifted, edits, drifts, refused>>

-----------------------------------------------------------------------------
(* Deletion.                                                               *)

\* Delete returned an error, and the observed resource with it.
DeleteError(e) ==
    LET x == OnError(observed, e) IN Return(x.res, x.err, "status")

DeleteIgnoringErrors ==
    LET n == observed.status.id
    IN  /\ pc = "delete"
        /\ \/ InService(n) /\ net' = [net EXCEPT ![n].state = "DELETING"] /\ UNCHANGED faults
           \/ UNCHANGED net /\ Fault("apiError")
        /\ Return(latest, "none", "unmanage")
        /\ UNCHANGED <<cr, desired, observed, queued, drifted, edits, drifts, lapses, refused>>

\* sdkDelete: DeleteGlobalNetwork on the observed network. The network leaves
\* service at once and disappears later; nobody waits for that.
Delete ==
    LET n == observed.status.id
        made == InService(n) /\ net' = [net EXCEPT ![n].state = "DELETING"]
    IN  /\ pc = "delete"
        /\ \/ made /\ UNCHANGED <<faults, refused>> /\ Return(latest, "none", "unmanage")
           \/ made /\ Fault("lostAnswer") /\ DeleteError("Other") /\ UNCHANGED refused
           \/ /\ UNCHANGED net
              /\ Fault("apiError") \/ (~InService(n) /\ UNCHANGED faults)
              /\ \E e \in ErrorCode : DeleteError(e) /\ Refuses(e)
        /\ UNCHANGED <<cr, desired, observed, queued, drifted, edits, drifts, lapses>>

\* MarkUnmanaged and the patch that removes the finalizer: the API server
\* then drops the resource.
Unmanage ==
    /\ pc = "unmanage"
    /\ cr' = Gone
    /\ Forget
    /\ UNCHANGED <<net, world>>

UnmanageFail ==
    /\ pc = "unmanage"
    /\ Fault("patchFail")
    /\ Forget
    /\ queued' = TRUE
    /\ UNCHANGED <<cr, net, drifted, edits, drifts, lapses, refused>>

\* The controller process dies; its successor lists all resources.
Crash ==
    /\ pc # "idle"
    /\ Fault("crash")
    /\ lapses' = IF Unsaved THEN lapses + 1 ELSE lapses
    /\ Forget
    /\ queued' = TRUE
    /\ UNCHANGED <<cr, net, drifted, edits, drifts, refused>>

Reconcile ==
    \/ StartReconcile \/ IgnoreGone \/ ReadNotFound \/ ReadMissed \/ ReadFound \/ ReadFail
    \/ Manage \/ ManageFail \/ Create \/ CreateFail \/ CreateLost
    \/ AddTags \/ RemoveTags \/ Update
    \/ PatchSpec \/ PatchSpecFail \/ PatchStatus \/ PatchStatusFail
    \/ Delete \/ Unmanage \/ UnmanageFail

Next ==
    \/ Reconcile \/ Resync \/ Crash
    \/ EditSpec \/ DeleteCR
    \/ \E n \in Id : Settle(n) \/ Drift(n) \/ AWSTag(n)

\* The worker keeps working and the periodic resync keeps coming, the service
\* finishes what it has begun. Faults are bounded, so a retry is not refused
\* forever; the user and the rest of the world owe nothing.
Fairness == WF_vars(Reconcile) /\ WF_vars(Resync) /\ \A n \in Id : WF_vars(Settle(n))

Spec == Init /\ [][Next]_vars /\ Fairness

-----------------------------------------------------------------------------
\* Every variable has its type.
TypeOK ==
    /\ cr \in Resource \cup {Gone}
    /\ net \in [Id -> Network]
    /\ pc \in Steps
    /\ desired \in Resource \cup {NoResource}
    /\ observed \in Resource \cup {NoResource}
    /\ latest \in Resource \cup {NoResource}
    /\ err \in Errors
    /\ queued \in BOOLEAN /\ drifted \in BOOLEAN
    /\ faults \in Nat /\ edits \in Nat /\ drifts \in Nat /\ lapses \in Nat
    /\ refused \in BOOLEAN

\* A live network of this resource whose id is neither in the API server nor
\* in the hands of the reconcile under way.
Orphan(n) ==
    /\ net[n].mine /\ InService(n)
    /\ ~(cr # Gone /\ cr.status.id = n)
    /\ ~(latest # NoResource /\ latest.status.id = n)

\* sdkFind looks a network up by the id in the status and by nothing else, so
\* a network whose id is lost is never found again. That happens only when the
\* answer to Create, or the reconcile that holds it, is lost, or a read misses
\* the network: whatever the user and the service do otherwise, no network is
\* left behind, neither by an update nor by a deletion.
OneLapseOneOrphan == Cardinality({n \in Id : Orphan(n)}) <= lapses

\* The network is what the spec and the controller's default tags ask for.
Converged ==
    LET n == cr.status.id IN
    /\ n # Nil /\ InService(n)
    /\ net[n].description = cr.spec.description
    /\ \A k \in TagKey \ AWSKey :
          net[n].tags[k] = EnsureTags(cr, DefaultTags).spec.tags[k]

\* Nothing is left to a lucky retry: when no reconcile runs and none is queued
\* the resource is gone, or is terminal for a reason (the service rejects what
\* is asked for; a network without the finalizer; a ValidationException that
\* ended the last reconcile, which alone may leave a deletion undone), or the
\* network is what the spec asks for, and no condition says otherwise.
RestMeansDone ==
    pc = "idle" /\ ~queued /\ ~drifted /\ cr # Gone =>
        \/ /\ cr.status.conditions.terminal = "True"
           /\ \/ refused
              \/ /\ ~cr.deleting
                 /\ \/ Rejected(cr.spec) \/ ~cr.managed
                    \/ RejectedTags(EnsureTags(cr, DefaultTags).spec.tags)
        \/ /\ ~cr.deleting
           /\ cr.status.conditions.terminal # "True"
           /\ cr.status.conditions.recoverable # "True"
           /\ Converged

\* mirrorAWSTags: no call of the controller adds, changes or removes a tag
\* whose key starts with "aws:" on a network that is in service.
AWSTagsUntouched ==
    [][~(\E n \in Id : AWSTag(n)) =>
        \A n \in Id, k \in AWSKey :
            net[n].state \in State /\ net'[n].state \in State =>
                net'[n].tags[k] = net[n].tags[k]]_vars

\* sdkFind refuses to describe without an id, which would describe every
\* network of the account: a network that is not this resource's never changes.
ForeignUntouched == [][net'[Foreign] = net[Foreign]]_vars

\* FilterSystemTags: the patch of the spec never brings in a tag whose key
\* starts with "aws:" or is one of the controller's own.
NoSystemTagsPatched ==
    [][cr # Gone /\ cr' # Gone /\ ~EditSpec =>
        \A k \in AWSKey \cup SystemKey :
            cr'.spec.tags[k] \in {cr.spec.tags[k], Absent}]_vars

\* The controller writes to the user's spec only what it cannot know better:
\* tags that somebody else changed while it worked, and a description in place
\* of one the user left out. Otherwise the tags it writes are the user's own,
\* as the reconcile read them and without those of the system, and it writes
\* them only along with such a description or after AWS has added a tag.
SpecIsTheUsers ==
    [][cr # Gone /\ cr' # Gone /\ ~EditSpec =>
        /\ cr'.spec.tags # cr.spec.tags =>
              \/ drifted
              \/ /\ cr'.spec.tags = FilterSystemTags(desired).spec.tags
                 /\ \/ desired.spec.description = Nil
                    \/ \E k \in AWSKey : latest.spec.tags[k] # desired.spec.tags[k]
        /\ cr'.spec.description # cr.spec.description =>
              desired.spec.description = Nil]_vars

\* With an end to faults and edits the reconciling comes to an end as well: for
\* good, the network is as the spec says and the resource reported as synced,
\* or the resource is terminal or gone.
EventuallySettles ==
    <>[](\/ cr = Gone
         \/ cr.status.conditions.terminal = "True"
         \/ Converged /\ cr.status.conditions.synced = "True")

\* A deleted resource goes away, and with it the network its status names. The
\* finalizer stays for good only where the service has refused a call of the
\* last reconcile with a ValidationException: onError makes that terminal
\* (manager.go:405-411), nothing is retried, and the condition says so.
DeleteCompletes ==
    <>[](cr # Gone /\ cr.deleting =>
            /\ pc = "idle" /\ ~queued /\ refused
            /\ cr.status.conditions.terminal = "True")

\* A resource and the state of a network as Lifecycle sees them.
Phase(r) ==
    IF r = Gone THEN "gone" ELSE IF r.deleting THEN "deleting"
    ELSE IF r.managed THEN "managed" ELSE "unmanaged"
Record(r) == IF r = Gone THEN Nil ELSE r.status.id
LifeOf(state) ==
    CASE state = "UNUSED" -> "unused"
      [] state \in LiveState -> "live"
      [] state = "DELETING" -> "leaving"
      [] state = "DELETED" -> "gone"

\* The reconciler, with its finalizer, its record in the status and its retries,
\* is an implementation of Lifecycle, as long as the service never hides a
\* network that is there (the staleRead fault).
Life == INSTANCE Lifecycle WITH
    phase <- Phase(cr), recorded <- Record(cr),
    life <- [n \in Id |-> LifeOf(net[n].state)], outside <- drifts
ImplementsLifecycle == Life!Spec

\* As long as the network on record is in use the resource holds on to it: no
\* patch built from an older copy, no failed create or delete (sdk.go:177-261,
\* 402-420) and no request of the user takes the id out of the status, puts
\* another in its place or removes the finalizer (descriptor.go:107-136),
\* whoever else is at work. The service must not hide the network (staleRead).
RecordedIsHeld ==
    [][InService(Record(cr)) =>
        cr' # Gone /\ cr'.managed /\ Record(cr') = Record(cr)]_vars

\* What the comment on sdkUpdate promises (sdk.go:292-293): a resource with
\* updated fields. At least its state is the one the service reported last.
UpdatedIsFresh ==
    pc = "patch" /\ observed # NoResource =>
        latest.status.state \in {observed.status.state, "UPDATING"}

\* What the comment in sdkFind says (sdk.go:66-68): without an id in the
\* status the network "is not created yet".
MissingIdMeansNotCreated ==
    pc = "read" /\ RequiredFieldsMissing(desired) =>
        ~\E n \in Id : net[n].mine /\ InService(n)
=============================================================================
