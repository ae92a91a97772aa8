------------------------- MODULE ConvergenceProofs -------------------------
(***************************************************************************)
(* Tags and descriptions: what the controller may write to a network and   *)
(* to the user's spec, and that a resource left at rest is what its spec   *)
(* asks for. For every set of tags and specs, and for any number of        *)
(* faults, edits and changes by others.                                    *)
(***************************************************************************)
EXTENDS ReconcilerProofs

\* Two tag maps agree on the tags that are not those of AWS.
Agree(t, u) == \A k \in TagKey \ AWSKey : t[k] = u[k]

\* The tags that a resource asks for.
Wanted(r) == Merge(r.spec.tags, DefaultTags)

\* The tags of a network after addTags.
Added == TagResource(observed.spec.tags, ToAdd(desired.spec.tags, observed.spec.tags))

\* mirrorAWSTags: desired has every "aws:" tag that was observed.
MirrorInv ==
    pc \in {"tag", "untag", "update"} =>
        \A k \in AWSKey : observed.spec.tags[k] # Absent =>
            desired.spec.tags[k] = observed.spec.tags[k]

\* How far sdkUpdate has come with a network that nobody else has changed.
ProgressInv ==
    pc \in {"tag", "untag", "update"} /\ InService(Target) /\ ~drifted =>
        /\ net[Target].description = observed.spec.description
        /\ pc = "tag" => Agree(net[Target].tags, observed.spec.tags)
        /\ pc = "untag" => Agree(net[Target].tags, Added)
        /\ pc = "update" => Agree(net[Target].tags, desired.spec.tags)

\* What Create and Update return differs from what was asked for only where
\* somebody else interfered, or where nothing was asked for.
PatchInv ==
    pc = "patch" =>
        /\ err = "none"
        /\ latest.spec.description # desired.spec.description => desired.spec.description = Nil
        /\ ~drifted => Agree(latest.spec.tags, desired.spec.tags)

\* A resource that will be reported as synced has the network it asked for.
SyncedInv ==
    pc \in {"patch", "status"} /\ err = "none" /\ IsSynced(latest) /\ ~drifted =>
        LET n == latest.status.id IN
        /\ InService(n)
        /\ net[n].description = desired.spec.description
        /\ Agree(net[n].tags, desired.spec.tags)

\* The conditions follow the error, and a terminal error has a reason: the
\* resource as it is, or a call that the service refused.
Reason(r) == Rejected(r.spec) \/ ~r.managed \/ RejectedTags(Wanted(r))
ConditionInv ==
    pc \in {"patch", "status"} =>
        /\ err \in {"none", "Other", "Terminal"}
        /\ err = "none" => /\ latest.status.conditions.terminal # "True"
                           /\ latest.status.conditions.recoverable # "True"
        /\ err = "Terminal" => latest.status.conditions.terminal = "True"
        /\ err = "Terminal" /\ ~queued /\ cr # Gone => refused \/ Reason(cr)

\* A reconcile of a resource that is to be deleted ends without the resource or
\* with an error, which is terminal only where the service refused a call, and
\* never gets to create or update.
DeletingInv ==
    /\ pc \in {"manage", "create", "tag", "untag", "update", "patch"} => ~desired.deleting
    /\ pc = "status" /\ desired.deleting => err = "Other" \/ (err = "Terminal" /\ refused)

\* As long as nothing is queued the resource is as the reconcile read it.
SameSpec(d, r) ==
    d.spec.description = r.spec.description /\ Agree(d.spec.tags, Wanted(r))
FreshInv ==
    pc # "idle" /\ cr # Gone =>
        /\ cr.managed \/ pc = "create" => desired.managed
        /\ ~queued =>
             /\ cr.deleting = desired.deleting
             /\ ~desired.deleting => SameSpec(desired, cr)
             /\ ~desired.deleting /\ pc \in {"read", "manage", "create"} =>
                   desired.spec.tags = Wanted(cr)
             /\ pc = "tag" => \A k \in AWSKey : observed.spec.tags[k] = Absent =>
                                 desired.spec.tags[k] = Wanted(cr)[k]

ConvInv ==
    /\ MirrorInv /\ ProgressInv /\ PatchInv /\ SyncedInv
    /\ ConditionInv /\ DeletingInv /\ FreshInv /\ RestMeansDone

\* What every step does: keep the invariant, leave the "aws:" tags of networks
\* alone unless it is a step of AWS, and write to the spec only what it may.
AWSKept ==
    ~(\E n \in Id : AWSTag(n)) =>
        \A n \in Id, k \in AWSKey :
            net[n].state \in State /\ net'[n].state \in State =>
                net'[n].tags[k] = net[n].tags[k]
OwnTagsWritten ==
    /\ cr'.spec.tags = FilterSystemTags(desired).spec.tags
    /\ \/ desired.spec.description = Nil
       \/ \E k \in AWSKey : latest.spec.tags[k] # desired.spec.tags[k]
SpecKept ==
    cr # Gone /\ cr' # Gone /\ ~EditSpec =>
        /\ \A k \in AWSKey \cup SystemKey : cr'.spec.tags[k] \in {cr.spec.tags[k], Absent}
        /\ cr'.spec.tags # cr.spec.tags => drifted \/ OwnTagsWritten
        /\ cr'.spec.description # cr.spec.description => desired.spec.description = Nil
Tidy == ConvInv' /\ AWSKept /\ SpecKept

-----------------------------------------------------------------------------
LEMMA AgreeFacts ==
    ASSUME NEW t \in Tags, NEW u \in Tags, NEW v \in Tags, NEW K, Agree(t, u)
    PROVE  /\ Agree(TagResource(t, v), TagResource(u, v))
           /\ Agree(UntagResource(t, K), UntagResource(u, K))
           /\ Agree(u, v) => Agree(t, v)
BY DEF Agree, TagResource, UntagResource, Merge

LEMMA EnsureTagsWanted ==
    ASSUME NEW r \in Resource
    PROVE  /\ EnsureTags(r, DefaultTags).spec.tags = Wanted(r)
           /\ EnsureTags(r, DefaultTags).spec.description = r.spec.description
           /\ EnsureTags(r, DefaultTags).managed = r.managed
           /\ EnsureTags(r, DefaultTags).deleting = r.deleting
           /\ Wanted(r) \in Tags
BY EnsureTagsResult, DefaultTagsAssumption, TagsTypes, ResourceUpdates DEF Wanted, SameButTags

LEMMA InitConv == Init => ConvInv
BY DEF Init, ConvInv, MirrorInv, ProgressInv, PatchInv, SyncedInv, ConditionInv, DeletingInv,
       FreshInv, RestMeansDone

\* Steps that leave alone all networks, or all specs.
LEMMA NetUnchanged == net' = net => AWSKept
BY DEF AWSKept

LEMMA SpecUnchanged == (cr' # Gone => cr # Gone /\ cr'.spec = cr.spec) => SpecKept
BY DEF SpecKept

-----------------------------------------------------------------------------
(* The service and the user.                                               *)

\* Changes that do not count as drift: what the service does in its own time,
\* and tags of AWS.
LEMMA CalmStep ==
    ASSUME IInv, ConvInv, UNCHANGED <<cr, locals, queued, drifted, refused>>,
           \A m \in Id : /\ net'[m].state \in LiveState <=> net[m].state \in LiveState
                         /\ net[m].state \in LiveState =>
                               /\ net'[m].description = net[m].description
                               /\ Agree(net'[m].tags, net[m].tags)
    PROVE  ConvInv'
<1> USE DEF locals
<1>1. MirrorInv' /\ PatchInv' /\ ConditionInv' /\ DeletingInv' /\ FreshInv'
  BY DEF ConvInv, MirrorInv, PatchInv, ConditionInv, DeletingInv, FreshInv
<1>2. ASSUME NEW n \in Id \cup {Nil}, InService(n)' \/ InService(n)
      PROVE  /\ InService(n)' /\ InService(n) /\ net'[n].description = net[n].description
             /\ \A t : Agree(net[n].tags, t) => Agree(net'[n].tags, t)
  BY <1>2 DEF InService, Agree
<1>3. ProgressInv'
  <2> SUFFICES ASSUME pc \in {"tag", "untag", "update"}, InService(Target)', ~drifted
               PROVE  ProgressInv'
    BY DEF ProgressInv
  <2>1. Target \in Id \cup {Nil} /\ Target' = Target /\ Added' = Added
    BY ResourceUpdates DEF Target, Added, IInv, StepInv
  <2>2. InService(Target)
    BY <1>2, <2>1 DEF InService
  <2> QED BY <1>2, <2>1, <2>2 DEF ConvInv, ProgressInv
<1>4. SyncedInv'
  <2> SUFFICES ASSUME pc \in {"patch", "status"}, err = "none", IsSynced(latest), ~drifted
               PROVE  SyncedInv'
    BY DEF SyncedInv
  <2>1. latest.status.id \in Id \cup {Nil}
    BY ResourceUpdates DEF IInv, StepInv
  <2>2. /\ InService(latest.status.id)
        /\ net[latest.status.id].description = desired.spec.description
        /\ Agree(net[latest.status.id].tags, desired.spec.tags)
    BY DEF ConvInv, SyncedInv
  <2> QED BY <1>2, <2>1, <2>2 DEF SyncedInv, InService
<1>5. RestMeansDone'
  <2> SUFFICES ASSUME cr # Gone, Converged PROVE Converged'
    BY DEF ConvInv, RestMeansDone
  <2>1. cr.status.id \in Id \cup {Nil} /\ InService(cr.status.id)
    BY ResourceUpdates DEF IInv, TypeOK, Converged
  <2>2. /\ net'[cr.status.id].state \in LiveState
        /\ net'[cr.status.id].description = net[cr.status.id].description
        /\ \A k \in TagKey \ AWSKey : net'[cr.status.id].tags[k] = net[cr.status.id].tags[k]
    BY <1>2, <2>1 DEF Agree, InService
  <2> QED BY <2>2 DEF Converged, InService
<1> QED BY <1>1, <1>3, <1>4, <1>5 DEF ConvInv

LEMMA SettleTidy == ASSUME IInv, ConvInv, NEW n \in Id, Settle(n) PROVE Tidy
<1>1. /\ net \in [Id -> Network] /\ net[n] \in Network
      /\ net[n].state \in {"PENDING", "UPDATING", "DELETING"}
      /\ UNCHANGED <<cr, locals, queued, drifted, refused>>
  BY DEF Settle, world, IInv, TypeOK
<1>2. /\ \A m \in Id \ {n} : net'[m] = net[m]
      /\ net[n].state = "DELETING" => net'[n].state = "DELETED"
      /\ net[n].state # "DELETING" =>
            /\ net'[n].state = "AVAILABLE" /\ net'[n].description = net[n].description
            /\ net'[n].tags = net[n].tags
  BY <1>1 DEF Settle, NoNetwork, Network
<1>3. ConvInv'
  <2>1. \A m \in Id : /\ net'[m].state \in LiveState <=> net[m].state \in LiveState
                      /\ net[m].state \in LiveState =>
                            /\ net'[m].description = net[m].description
                            /\ Agree(net'[m].tags, net[m].tags)
    BY <1>1, <1>2 DEF LiveState, Agree
  <2> QED BY <1>1, <2>1, CalmStep
<1>4. AWSKept
  BY <1>1, <1>2 DEF AWSKept, State, LiveState
<1>5. SpecKept
  BY <1>1, SpecUnchanged
<1> QED BY <1>3, <1>4, <1>5 DEF Tidy

LEMMA AWSTagTidy == ASSUME IInv, ConvInv, NEW n \in Id, AWSTag(n) PROVE Tidy
<1>1. UNCHANGED <<cr, locals, queued, drifted, refused>>
  BY DEF AWSTag
<1>2. PICK k \in AWSKey, v \in TagValue : net' = [net EXCEPT ![n].tags[k] = v]
  BY DEF AWSTag
<1>3. net' = [net EXCEPT ![n] = [net[n] EXCEPT !.tags = [net[n].tags EXCEPT ![k] = v]]]
  BY <1>2
<1>4. /\ \A m \in Id \ {n} : net'[m] = net[m]
      /\ net'[n].state = net[n].state /\ net'[n].description = net[n].description
      /\ net'[n].tags = [net[n].tags EXCEPT ![k] = v] /\ net[n].tags \in Tags
  BY <1>3 DEF IInv, TypeOK, Network
<1>5. \A m \in Id : Agree(net'[m].tags, net[m].tags)
  BY <1>4 DEF Agree, Tags
<1>6. ConvInv'
  <2>1. \A m \in Id : net'[m].state = net[m].state /\ net'[m].description = net[m].description
    BY <1>4
  <2> QED BY <1>1, <1>5, <2>1, CalmStep
<1> QED BY <1>1, <1>6, SpecUnchanged DEF AWSKept, Tidy

LEMMA DriftTidy == ASSUME IInv, ConvInv, NEW n \in Id, Drift(n) PROVE Tidy
<1>1. UNCHANGED <<cr, locals, queued, refused>> /\ drifted'
  BY DEF Drift
<1>2. net \in [Id -> Network] /\ net[n] \in Network /\ net[n].tags \in Tags
  BY DEF IInv, TypeOK, Network
<1>3. \A m \in Id, k \in AWSKey : net'[m].tags[k] = net[m].tags[k]
  <2>1. CASE \E k \in TagKey \ AWSKey, v \in TagValue \cup {Absent} :
                 net' = [net EXCEPT ![n].tags[k] = v]
    <3>1. PICK k \in TagKey \ AWSKey, v \in TagValue \cup {Absent} :
              net' = [net EXCEPT ![n] = [net[n] EXCEPT !.tags = [net[n].tags EXCEPT ![k] = v]]]
      BY <2>1
    <3>2. /\ \A m \in Id \ {n} : net'[m] = net[m]
          /\ net'[n].tags = [net[n].tags EXCEPT ![k] = v]
      BY <1>2, <3>1 DEF Network
    <3> QED BY <1>2, <3>1, <3>2, TagKeyAssumption DEF Tags
  <2>2. CASE \E d \in Description \ InvalidDescription :
                 net' = [net EXCEPT ![n].description = d, ![n].state = "UPDATING"]
    <3>1. PICK d \in Description \ InvalidDescription :
              net' = [net EXCEPT ![n] = [net[n] EXCEPT !.description = d, !.state = "UPDATING"]]
      BY <2>2
    <3> QED BY <1>2, <3>1 DEF Network
  <2>3. CASE net' = [net EXCEPT ![n].state = "DELETING"]
    BY <1>2, <2>3 DEF Network
  <2> QED BY <2>1, <2>2, <2>3 DEF Drift
<1>4. ConvInv'
  BY <1>1 DEF locals, ConvInv, MirrorInv, ProgressInv, PatchInv, SyncedInv, ConditionInv,
              DeletingInv, FreshInv, RestMeansDone
<1> QED BY <1>1, <1>3, <1>4, SpecUnchanged DEF AWSKept, Tidy

\* A change by the user queues the resource: nothing is claimed of it until a
\* reconcile has read it again.
LEMMA UserTidy == ASSUME IInv, ConvInv, EditSpec \/ DeleteCR PROVE Tidy
<1>1. UNCHANGED <<net, locals, drifted, refused>> /\ queued' /\ cr # Gone /\ cr \in Resource
  BY DEF EditSpec, DeleteCR, IInv, TypeOK
<1>2. /\ cr' # Gone => cr'.managed = cr.managed
      /\ EditSpec \/ (cr' # Gone => cr'.spec = cr.spec)
  <2>1. CASE EditSpec
    BY <1>1, <2>1 DEF EditSpec, Resource
  <2>2. CASE DeleteCR
    BY <1>1, <2>2 DEF DeleteCR, Resource
  <2> QED BY <2>1, <2>2
<1>3. MirrorInv' /\ PatchInv' /\ ConditionInv' /\ DeletingInv' /\ RestMeansDone'
  BY <1>1 DEF locals, ConvInv, MirrorInv, PatchInv, ConditionInv, DeletingInv, RestMeansDone
<1>4. ProgressInv' /\ SyncedInv'
  BY <1>1 DEF locals, ConvInv, ProgressInv, SyncedInv, InService, Target, Added
<1>5. FreshInv'
  BY <1>1, <1>2 DEF locals, ConvInv, FreshInv
<1>6. SpecKept
  BY <1>1, <1>2 DEF SpecKept
<1> QED BY <1>1, <1>3, <1>4, <1>5, <1>6, NetUnchanged DEF ConvInv, Tidy

-----------------------------------------------------------------------------
(* Steps that reconciles have in common.                                   *)

\* The end of a reconcile that queues the resource again, or is its last.
LEMMA ForgetTidy ==
    ASSUME Forget, net' = net, cr' = Gone \/ (cr' = cr /\ queued')
    PROVE  Tidy
<1>1. ConvInv'
  BY DEF Forget, ConvInv, MirrorInv, ProgressInv, PatchInv, SyncedInv, ConditionInv,
         DeletingInv, FreshInv, RestMeansDone
<1> QED BY <1>1, NetUnchanged, SpecUnchanged DEF Tidy

\* An operation ended with an error: a terminal one has a reason that stands, or
\* the service refused the call.
LEMMA ErrorTidy ==
    ASSUME ConvInv, pc # "idle", pc' = "status", UNCHANGED <<desired, queued>>, AWSKept,
           cr' # Gone => /\ cr # Gone /\ cr'.spec = cr.spec /\ cr'.deleting = cr.deleting
                         /\ cr'.managed => desired.managed,
           \/ err' = "Other"
           \/ /\ err' = "Terminal" /\ latest'.status.conditions.terminal = "True"
              /\ \/ refused'
                 \/ ~desired.deleting /\ (~queued /\ cr' # Gone => Reason(cr)')
    PROVE  Tidy
<1>1. MirrorInv' /\ ProgressInv' /\ PatchInv' /\ SyncedInv' /\ DeletingInv' /\ RestMeansDone'
  BY DEF MirrorInv, ProgressInv, PatchInv, SyncedInv, DeletingInv, RestMeansDone
<1>2. ConditionInv'
  BY DEF ConditionInv
<1>3. FreshInv'
  <2> SUFFICES ASSUME cr' # Gone PROVE FreshInv'
    BY DEF FreshInv
  <2>1. /\ cr # Gone /\ cr'.deleting = cr.deleting /\ cr'.managed => desired.managed
        /\ SameSpec(desired, cr)' <=> SameSpec(desired, cr)
    BY DEF SameSpec, Agree, Wanted
  <2> QED BY <2>1 DEF ConvInv, FreshInv
<1> QED BY <1>1, <1>2, <1>3, SpecUnchanged DEF ConvInv, Tidy

\* As long as nothing is queued, what the service rejects is what the spec asks for.
LEMMA RejectedHasReason ==
    ASSUME ConvInv, cr # Gone, ~queued,
           \/ pc \in {"create", "update"} /\ Rejected(desired.spec)
           \/ pc = "create" /\ RejectedTags(desired.spec.tags)
           \/ /\ pc = "tag"
              /\ \E k \in AWSKey : observed.spec.tags[k] = Absent /\ desired.spec.tags[k] # Absent
    PROVE  Rejected(cr.spec) \/ RejectedTags(Wanted(cr))
<1>1. ~desired.deleting
  BY DEF ConvInv, DeletingInv
<1>2. CASE Rejected(desired.spec)
  BY <1>1, <1>2 DEF ConvInv, FreshInv, SameSpec, Rejected
<1>3. CASE pc = "create" /\ RejectedTags(desired.spec.tags)
  BY <1>1, <1>3 DEF ConvInv, FreshInv
<1>4. CASE pc = "tag" /\ \E k \in AWSKey : observed.spec.tags[k] = Absent
                                           /\ desired.spec.tags[k] # Absent
  <2>1. PICK k \in AWSKey : observed.spec.tags[k] = Absent /\ desired.spec.tags[k] # Absent
    BY <1>4
  <2>2. Wanted(cr)[k] # Absent /\ k \in TagKey
    BY <1>4, <2>1, TagKeyAssumption DEF ConvInv, FreshInv
  <2> QED BY <2>2 DEF RejectedTags, KeysOf
<1> QED BY <1>2, <1>3, <1>4

\* What onError makes of a call that failed, and not because of the spec.
LEMMA RefusalOrOther ==
    ASSUME NEW r \in Resource, NEW e \in ErrorCode, Refuses(e),
           Return(OnError(r, e).res, OnError(r, e).err, "status")
    PROVE  \/ err' = "Other"
           \/ err' = "Terminal" /\ latest'.status.conditions.terminal = "True" /\ refused'
<1>1. CASE e = "Other"
  BY <1>1, OnErrorConditions DEF Return
<1>2. CASE e = "ValidationException"
  BY <1>2, OnErrorConditions DEF Return, Refuses
<1> QED BY <1>1, <1>2 DEF ErrorCode

-----------------------------------------------------------------------------
(* The start of a reconcile, and what ReadOne finds.                       *)

LEMMA StartTidy ==
    ASSUME IInv, ConvInv, StartReconcile \/ IgnoreGone \/ Resync PROVE Tidy
<1>1. pc = "idle" /\ UNCHANGED <<cr, net, drifted>>
  BY DEF StartReconcile, IgnoreGone, Resync
<1>2. CASE StartReconcile
  <2>1. /\ cr # Gone /\ cr \in Resource /\ pc' = "read"
        /\ desired' = IF cr.deleting THEN cr ELSE EnsureTags(cr, DefaultTags)
    BY <1>2 DEF StartReconcile, IInv, TypeOK
  <2>2. /\ desired'.deleting = cr.deleting /\ desired'.managed = cr.managed
        /\ ~cr.deleting => /\ desired'.spec.tags = Wanted(cr)
                           /\ desired'.spec.description = cr.spec.description
    BY <2>1, EnsureTagsWanted
  <2>3. FreshInv'
    BY <1>1, <2>1, <2>2 DEF FreshInv, SameSpec, Agree, Wanted
  <2>4. MirrorInv' /\ ProgressInv' /\ PatchInv' /\ SyncedInv' /\ ConditionInv' /\ DeletingInv'
        /\ RestMeansDone'
    BY <2>1 DEF MirrorInv, ProgressInv, PatchInv, SyncedInv, ConditionInv, DeletingInv, RestMeansDone
  <2> QED BY <1>1, <2>3, <2>4, NetUnchanged, SpecUnchanged DEF ConvInv, Tidy
<1>3. CASE IgnoreGone \/ Resync
  <2>1. pc' = "idle" /\ (queued' \/ cr' = Gone)
    BY <1>1, <1>3 DEF IgnoreGone, Resync, locals
  <2>2. ConvInv'
    BY <2>1 DEF ConvInv, MirrorInv, ProgressInv, PatchInv, SyncedInv, ConditionInv,
                DeletingInv, FreshInv, RestMeansDone
  <2> QED BY <1>1, <2>2, NetUnchanged, SpecUnchanged DEF Tidy
<1> QED BY <1>2, <1>3

LEMMA ReadNotFoundTidy ==
    ASSUME IInv, ConvInv, ReadNotFound \/ ReadMissed PROVE Tidy
<1>1. /\ pc = "read" /\ UNCHANGED <<cr, net, desired, observed, latest, err, queued>>
      /\ pc' = IF desired.deleting THEN "unmanage"
               ELSE IF desired.managed THEN "create" ELSE "manage"
  BY DEF ReadNotFound, ReadMissed, NotFound
<1>2. MirrorInv' /\ ProgressInv' /\ PatchInv' /\ SyncedInv' /\ ConditionInv' /\ DeletingInv'
      /\ RestMeansDone'
  BY <1>1 DEF MirrorInv, ProgressInv, PatchInv, SyncedInv, ConditionInv, DeletingInv, RestMeansDone
<1>3. FreshInv'
  <2>1. SameSpec(desired, cr)' <=> SameSpec(desired, cr)
    BY <1>1 DEF SameSpec, Agree, Wanted
  <2> QED BY <1>1, <2>1 DEF ConvInv, FreshInv, Wanted
<1> QED BY <1>1, <1>2, <1>3, NetUnchanged, SpecUnchanged DEF ConvInv, Tidy

LEMMA ReadFailTidy == ASSUME IInv, ConvInv, ReadFail PROVE Tidy
<1>1. /\ pc = "read" /\ pc' = "status" /\ UNCHANGED <<cr, net, desired, queued>>
      /\ desired \in Resource
  BY DEF ReadFail, ReadError, Return, IInv, StepInv
<1>2. \/ err' = "Other"
      \/ err' = "Terminal" /\ latest'.status.conditions.terminal = "True" /\ refused'
  <2>1. PICK e \in ErrorCode : ReadError(e) /\ Refuses(e)
    BY DEF ReadFail
  <2> QED BY <1>1, <2>1, RefusalOrOther DEF ReadError
<1>3. cr # Gone => (cr.managed => desired.managed)
  BY <1>1 DEF ConvInv, FreshInv
<1> QED BY <1>1, <1>2, <1>3, NetUnchanged, ErrorTidy

\* What ReadOne makes of the resource and of the network that it found.
LEMMA ReadResult ==
    ASSUME NEW d \in Resource, NEW n \in Id, NEW x \in Network, x.state \in State
    PROVE  LET seen == OnSuccess(MergeOutput(d, n, x))
               want == MirrorAWSTags(d, MergeOutput(d, n, x))
           IN  /\ seen \in Resource /\ seen.status.id = n /\ seen.status.state = x.state
               /\ seen.spec.description = x.description /\ seen.spec.tags = x.tags
               /\ seen.status.conditions.terminal # "True"
               /\ seen.status.conditions.recoverable # "True"
               /\ want \in Resource /\ SameButTags(want, d)
               /\ want.spec.tags = SyncAWSTags(d.spec.tags, x.tags)
<1> DEFINE m == MergeOutput(d, n, x)
<1>1. /\ m \in Resource /\ m.status.id = n /\ m.status.state = x.state
      /\ m.spec.description = x.description /\ m.spec.tags = x.tags
  BY MergeOutputResult DEF Network
<1> HIDE DEF m
<1>2. OnSuccess(m) \in Resource /\ Keeps(OnSuccess(m), m)
  BY <1>1, OnSuccessType
<1>3. /\ OnSuccess(m).status.conditions.terminal # "True"
      /\ OnSuccess(m).status.conditions.recoverable # "True"
  BY <1>1, OnSuccessConditions
<1>4. /\ MirrorAWSTags(d, m) \in Resource /\ SameButTags(MirrorAWSTags(d, m), d)
      /\ MirrorAWSTags(d, m).spec.tags = SyncAWSTags(d.spec.tags, m.spec.tags)
  BY <1>1, MirrorAWSTagsResult
<1> QED BY <1>1, <1>2, <1>3, <1>4 DEF Keeps, m

LEMMA DeltaEmpty ==
    ASSUME NEW a, NEW b
    PROVE  /\ "Spec.Tags" \notin NewResourceDelta(a, b) <=> a.spec.tags = b.spec.tags
           /\ NewResourceDelta(a, b) \ {"Spec.Tags"} = {} <=>
                 a.spec.description = b.spec.description
           /\ NewResourceDelta(a, b) = {} =>
                 a.spec.tags = b.spec.tags /\ a.spec.description = b.spec.description
BY DEF NewResourceDelta

LEMMA ReadFoundTidy == ASSUME IInv, ConvInv, ReadFound PROVE Tidy
<1>1. /\ pc = "read" /\ desired \in Resource /\ desired.status.id \in Id
      /\ UNCHANGED <<cr, net, queued>> /\ drifted' = FALSE
  BY ResourceUpdates DEF ReadFound, IInv, StepInv, RequiredFieldsMissing
<1> DEFINE s(n) == OnSuccess(MergeOutput(desired, n, net[n]))
           w(n) == MirrorAWSTags(desired, MergeOutput(desired, n, net[n]))
           delta(n) == NewResourceDelta(w(n), s(n))
           Then(n) ==
             \/ w(n).deleting /\ Return(s(n), "none", "delete")
             \/ /\ ~w(n).deleting /\ ~w(n).managed
                /\ Return([s(n) EXCEPT !.status.conditions.terminal = "True"], "Terminal", "status")
             \/ /\ ~w(n).deleting /\ w(n).managed
                /\ Return(s(n), "none",
                          IF delta(n) = {} THEN "status"
                          ELSE IF "Spec.Tags" \notin delta(n) THEN "update"
                          ELSE IF ToAdd(w(n).spec.tags, s(n).spec.tags) # NoTags
                               THEN "tag" ELSE "untag")
<1>2. PICK n \in Described(desired.status.id) :
          desired' = w(n) /\ observed' = s(n) /\ Then(n)
  BY DEF ReadFound
<1>3. n \in Id /\ n = desired.status.id /\ net[n].state \in State /\ net[n] \in Network
  BY <1>1, <1>2, NilAssumption DEF Described, IInv, TypeOK
<1> DEFINE seen == s(n)
           want == w(n)
<1>4. /\ seen \in Resource /\ seen.status.id = n /\ seen.status.state = net[n].state
      /\ seen.spec.description = net[n].description /\ seen.spec.tags = net[n].tags
      /\ seen.status.conditions.terminal # "True"
      /\ seen.status.conditions.recoverable # "True"
      /\ want \in Resource /\ SameButTags(want, desired)
      /\ want.spec.tags = SyncAWSTags(desired.spec.tags, net[n].tags)
  <2> HIDE DEF delta, Then
  <2>1. PICK d \in Resource, x \in Network : d = desired /\ x = net[n]
    BY <1>1, <1>3
  <2>2. n \in Id /\ x.state \in State
    BY <1>3, <2>1
  <2> DEFINE m == MergeOutput(d, n, x)
  <2>3. /\ OnSuccess(m) \in Resource /\ OnSuccess(m).status.id = n
        /\ OnSuccess(m).status.state = x.state
        /\ OnSuccess(m).spec.description = x.description /\ OnSuccess(m).spec.tags = x.tags
        /\ OnSuccess(m).status.conditions.terminal # "True"
        /\ OnSuccess(m).status.conditions.recoverable # "True"
        /\ MirrorAWSTags(d, m) \in Resource /\ SameButTags(MirrorAWSTags(d, m), d)
        /\ MirrorAWSTags(d, m).spec.tags = SyncAWSTags(d.spec.tags, x.tags)
    BY <2>2, ReadResult
  <2>4. seen = OnSuccess(m) /\ want = MirrorAWSTags(d, m)
    BY <2>1
  <2> HIDE DEF seen, want, m
  <2> QED BY <2>1, <2>3, <2>4
<1>5. /\ desired' = want /\ observed' = seen
      /\ \/ want.deleting /\ pc' = "delete" /\ err' = "none"
         \/ /\ ~want.deleting /\ ~want.managed /\ pc' = "status" /\ err' = "Terminal"
            /\ latest' = [seen EXCEPT !.status.conditions.terminal = "True"]
         \/ /\ ~want.deleting /\ want.managed /\ err' = "none" /\ latest' = seen
            /\ \/ pc' = "status" /\ NewResourceDelta(want, seen) = {}
               \/ pc' = "update" /\ "Spec.Tags" \notin NewResourceDelta(want, seen)
               \/ pc' = "tag"
               \/ pc' = "untag" /\ ToAdd(want.spec.tags, seen.spec.tags) = NoTags
  BY <1>2 DEF Return
<1> HIDE DEF seen, want, s, w, delta, Then
<1>6. /\ net[n].tags \in Tags /\ desired.spec.tags \in Tags
      /\ \A k \in TagKey \ AWSKey : want.spec.tags[k] = desired.spec.tags[k]
      /\ \A k \in AWSKey : want.spec.tags[k] = IF seen.spec.tags[k] # Absent
                                               THEN seen.spec.tags[k] ELSE desired.spec.tags[k]
  <2>1. net[n].tags \in Tags /\ desired.spec.tags \in Tags
    BY <1>1, <1>3, ResourceUpdates DEF Network
  <2> QED BY <1>4, <2>1, MirrorResult
<1>7. want.deleting = desired.deleting /\ want.managed = desired.managed
      /\ want.spec.description = desired.spec.description /\ want.status.id = n
  BY <1>3, <1>4 DEF SameButTags
<1>8. MirrorInv'
  BY <1>5, <1>6 DEF MirrorInv
<1>9. ProgressInv'
  <2> SUFFICES ASSUME pc' \in {"tag", "untag", "update"} PROVE ProgressInv'
    BY DEF ProgressInv
  <2>1. Target' = n /\ net' = net
    BY <1>1, <1>5, <1>7 DEF Target
  <2>2. net[n].description = observed'.spec.description /\ net[n].tags = observed'.spec.tags
    BY <1>4, <1>5
  <2>3. CASE pc' = "tag"
    BY <2>1, <2>2, <2>3 DEF ProgressInv, Agree
  <2>4. CASE pc' = "untag"
    <3>1. want.spec.tags \in Tags /\ seen.spec.tags \in Tags
      BY <1>4, ResourceUpdates
    <3>2. ToAdd(want.spec.tags, seen.spec.tags) = NoTags
      BY <1>5, <2>4
    <3>3. TagResource(seen.spec.tags, ToAdd(want.spec.tags, seen.spec.tags)) = seen.spec.tags
      BY <3>1, <3>2, SyncTagsReachesDesired
    <3>4. Added' = TagResource(seen.spec.tags, ToAdd(want.spec.tags, seen.spec.tags))
      BY <1>5 DEF Added
    <3>5. Added' = net[n].tags
      BY <1>4, <3>3, <3>4
    <3> QED BY <2>1, <2>2, <2>4, <3>5 DEF ProgressInv, Agree
  <2>5. CASE pc' = "update"
    <3>1. desired'.spec.tags = net[n].tags
      BY <1>4, <1>5, <2>5, DeltaEmpty
    <3> QED BY <2>1, <2>2, <2>5, <3>1 DEF ProgressInv, Agree
  <2> QED BY <2>3, <2>4, <2>5
<1>10. PatchInv' /\ RestMeansDone'
  BY <1>5 DEF PatchInv, RestMeansDone
<1>11. SyncedInv'
  <2> SUFFICES ASSUME pc' = "status", err' = "none", IsSynced(latest)' PROVE SyncedInv'
    BY <1>5 DEF SyncedInv
  <2>1. /\ latest' = seen /\ want.spec.tags = seen.spec.tags
        /\ want.spec.description = seen.spec.description
    BY <1>5, DeltaEmpty
  <2>2. net'[n].state \in LiveState /\ n # Nil
    BY <1>1, <1>3, <1>4, <2>1, NilAssumption DEF IsSynced, LiveState
  <2>3. latest'.status.id = n /\ net'[n].description = desired'.spec.description
        /\ net'[n].tags = desired'.spec.tags
    BY <1>1, <1>4, <1>5, <2>1
  <2> QED BY <2>2, <2>3 DEF SyncedInv, InService, Agree
<1>12. ConditionInv'
  <2>1. err' = "Terminal" => latest'.status.conditions.terminal = "True"
    BY <1>4, <1>5 DEF Resource, ResourceStatus, Conditions
  <2>2. err' = "Terminal" /\ cr' # Gone => ~cr'.managed
    BY <1>1, <1>5, <1>7 DEF ConvInv, FreshInv
  <2>3. err' = "none" /\ pc' \in {"patch", "status"} => latest' = seen
    BY <1>5
  <2> QED BY <1>4, <1>5, <2>1, <2>2, <2>3 DEF ConditionInv, Reason
<1>13. DeletingInv'
  BY <1>5 DEF DeletingInv
<1>14. FreshInv'
  <2> SUFFICES ASSUME cr # Gone PROVE FreshInv'
    BY <1>1 DEF FreshInv
  <2>1. cr.managed => want.managed
    BY <1>1, <1>7 DEF ConvInv, FreshInv
  <2>2. ASSUME ~queued
        PROVE  /\ cr.deleting = want.deleting
               /\ ~want.deleting => SameSpec(want, cr)
               /\ ~want.deleting => \A k \in AWSKey : seen.spec.tags[k] = Absent =>
                                       want.spec.tags[k] = Wanted(cr)[k]
    <3>1. /\ cr.deleting = desired.deleting
          /\ ~desired.deleting => SameSpec(desired, cr) /\ desired.spec.tags = Wanted(cr)
      BY <1>1, <2>2 DEF ConvInv, FreshInv
    <3> QED BY <1>6, <1>7, <3>1 DEF SameSpec, Agree
  <2>3. pc' \notin {"create", "manage", "read"} /\ (pc' = "tag" => ~want.deleting)
    BY <1>5
  <2>4. ~want.deleting /\ ~queued => SameSpec(desired, cr)'
    BY <1>1, <1>5, <2>2 DEF SameSpec, Agree, Wanted
  <2> QED BY <1>1, <1>5, <2>1, <2>2, <2>3, <2>4 DEF FreshInv, Wanted
<1> QED BY <1>1, <1>8, <1>9, <1>10, <1>11, <1>12, <1>13, <1>14, NetUnchanged, SpecUnchanged
        DEF ConvInv, Tidy

-----------------------------------------------------------------------------
(* Create.                                                                 *)

LEMMA ManageTidy == ASSUME IInv, ConvInv, Manage \/ ManageFail PROVE Tidy
<1>1. CASE Manage
  <2>1. /\ pc = "manage" /\ pc' = "create" /\ cr # Gone /\ cr \in Resource /\ desired \in Resource
        /\ cr' = [cr EXCEPT !.managed = TRUE] /\ desired' = [desired EXCEPT !.managed = TRUE]
        /\ UNCHANGED <<net, queued>>
    BY <1>1 DEF Manage, world, IInv, TypeOK, StepInv
  <2>2. /\ cr'.spec = cr.spec /\ cr'.deleting = cr.deleting
        /\ desired'.spec = desired.spec /\ desired'.deleting = desired.deleting /\ desired'.managed
    BY <2>1 DEF Resource
  <2>3. MirrorInv' /\ ProgressInv' /\ PatchInv' /\ SyncedInv' /\ ConditionInv' /\ RestMeansDone'
    BY <2>1 DEF MirrorInv, ProgressInv, PatchInv, SyncedInv, ConditionInv, RestMeansDone
  <2>4. DeletingInv'
    BY <2>1, <2>2 DEF ConvInv, DeletingInv
  <2>5. FreshInv'
    <3>1. (SameSpec(desired, cr)' <=> SameSpec(desired, cr)) /\ Wanted(cr)' = Wanted(cr)
      BY <2>2 DEF SameSpec, Agree, Wanted
    <3> QED BY <2>1, <2>2, <3>1 DEF ConvInv, FreshInv
  <2> QED BY <2>1, <2>2, <2>3, <2>4, <2>5, NetUnchanged, SpecUnchanged DEF ConvInv, Tidy
<1>2. CASE ManageFail
  BY <1>2, ForgetTidy DEF ManageFail
<1> QED BY <1>1, <1>2

LEMMA CreatedKeepsTags == ASSUME IInv, NEW n \in Id, Created(n) PROVE AWSKept
<1>1. net[n].state = "UNUSED" /\ \A m \in Id \ {n} : net'[m] = net[m]
  BY DEF Created, IInv, TypeOK
<1> QED BY <1>1 DEF AWSKept, State, LiveState

LEMMA CreateTidy == ASSUME IInv, ConvInv, Create PROVE Tidy
<1>1. PICK n \in Id : /\ Created(n)
                      /\ Return(OnSuccess(MergeOutput(desired, n, net'[n])), "none", "patch")
  BY DEF Create
<1>2. /\ pc = "create" /\ desired \in Resource
      /\ UNCHANGED <<cr, desired, observed, queued, drifted>>
  BY DEF Create, world, IInv, StepInv
<1>3. /\ net' \in [Id -> Network] /\ net'[n].state = "PENDING"
      /\ net'[n].description = desired.spec.description /\ net'[n].tags = desired.spec.tags
  <2>1. net' \in [Id -> Network] /\ net'[n].state = "PENDING"
    BY <1>1, <1>2, CreatedNet
  <2>2. /\ net'[n].description = desired.spec.description
        /\ net'[n].tags = desired.spec.tags
    BY <1>1 DEF Created, IInv, TypeOK
  <2> QED BY <2>1, <2>2
<1> DEFINE made == OnSuccess(MergeOutput(desired, n, net'[n]))
<1>4. /\ made.status.state = "PENDING" /\ made.spec.tags = desired.spec.tags
      /\ made.spec.description = desired.spec.description
      /\ made.status.conditions.terminal # "True" /\ made.status.conditions.recoverable # "True"
  <2>1. net'[n] \in Network /\ net'[n].state \in State
    BY <1>3 DEF State, LiveState
  <2> QED BY <1>2, <1>3, <2>1, ReadResult
<1>5. latest' = made /\ err' = "none" /\ pc' = "patch"
  BY <1>1 DEF Return
<1> HIDE DEF made
<1>6. MirrorInv' /\ ProgressInv' /\ RestMeansDone'
  BY <1>5 DEF MirrorInv, ProgressInv, RestMeansDone
<1>7. PatchInv' /\ SyncedInv' /\ ConditionInv'
  BY <1>2, <1>4, <1>5 DEF PatchInv, SyncedInv, ConditionInv, IsSynced, Agree
<1>8. DeletingInv'
  BY <1>2, <1>5 DEF ConvInv, DeletingInv
<1>9. FreshInv'
  <2>1. SameSpec(desired, cr)' <=> SameSpec(desired, cr)
    BY <1>2 DEF SameSpec, Agree, Wanted
  <2> QED BY <1>2, <1>5, <2>1 DEF ConvInv, FreshInv
<1> QED BY <1>1, <1>2, <1>6, <1>7, <1>8, <1>9, CreatedKeepsTags, SpecUnchanged DEF ConvInv, Tidy

LEMMA CreateErrorTidy == ASSUME IInv, ConvInv, CreateFail \/ CreateLost PROVE Tidy
<1>1. pc = "create" /\ UNCHANGED <<queued, drifted>> /\ desired \in Resource
  BY DEF CreateFail, CreateLost, IInv, StepInv
<1>2. AWSKept
  BY CreatedKeepsTags, NetUnchanged DEF CreateFail, CreateLost
<1>3. PICK e \in {"ValidationException", "Other"} :
          CreateError(e) /\ (e = "ValidationException" => refused' \/ RejectedCreate)
  BY DEF CreateFail, CreateLost, ErrorCode, Refuses
<1>4. /\ pc' = "status" /\ desired' = desired
      /\ latest' = OnError(desired, e).res /\ err' = OnError(desired, e).err
  BY <1>3 DEF CreateError, Return
<1>5. cr' # Gone => /\ cr # Gone /\ cr'.spec = cr.spec /\ cr'.deleting = cr.deleting
                    /\ cr'.managed => desired.managed
  <2> SUFFICES ASSUME cr' # Gone
               PROVE  /\ cr # Gone /\ cr'.spec = cr.spec /\ cr'.deleting = cr.deleting
                      /\ desired.managed
    OBVIOUS
  <2>1. cr # Gone /\ \E keep \in BOOLEAN : cr' = [cr EXCEPT !.managed = keep]
    BY <1>3 DEF CreateError
  <2>2. cr \in Resource /\ desired.managed
    BY <1>1, <2>1 DEF IInv, TypeOK, ConvInv, FreshInv
  <2> QED BY <2>1, <2>2 DEF Resource
<1>6. \/ err' = "Other"
      \/ /\ err' = "Terminal" /\ latest'.status.conditions.terminal = "True"
         /\ \/ refused'
            \/ ~desired.deleting /\ (~queued /\ cr' # Gone => Reason(cr)')
  <2>1. CASE e = "Other"
    BY <1>1, <1>4, <2>1, OnErrorConditions
  <2>2. CASE e = "ValidationException"
    <3>1. /\ err' = "Terminal" /\ latest'.status.conditions.terminal = "True"
          /\ ~desired.deleting
      BY <1>1, <1>4, <2>2, OnErrorConditions DEF ConvInv, DeletingInv
    <3>2. ASSUME ~refused', ~queued, cr' # Gone PROVE Reason(cr)'
      <4>1. Rejected(cr.spec) \/ RejectedTags(Wanted(cr))
        BY <1>1, <1>3, <1>5, <2>2, <3>2, RejectedHasReason DEF RejectedCreate
      <4> QED BY <1>5, <3>2, <4>1 DEF Reason, Wanted
    <3> QED BY <3>1, <3>2
  <2> QED BY <2>1, <2>2
<1> QED BY <1>1, <1>2, <1>4, <1>5, <1>6, ErrorTidy

-----------------------------------------------------------------------------
(* Update.                                                                 *)

\* A call of Update failed, and not because of the spec.
Failed == \E e \in ErrorCode : UpdateError(e) /\ (e = "ValidationException" => refused')

\* A failed call of Update: what it may have done to the network does not matter.
LEMMA UpdateErrorTidy ==
    ASSUME IInv, ConvInv, pc \in {"tag", "untag", "update"},
           UNCHANGED <<cr, desired, queued>>, AWSKept,
           NEW e \in {"ValidationException", "Other"}, UpdateError(e),
           e = "ValidationException" =>
               \/ refused'
               \/ pc = "update" /\ Rejected(desired.spec)
               \/ pc = "tag" /\ RejectedTags(ToAdd(desired.spec.tags, observed.spec.tags))
    PROVE  Tidy
<1>1. /\ observed \in Resource /\ desired \in Resource
      /\ pc' = "status" /\ latest' = OnError(observed, e).res /\ err' = OnError(observed, e).err
  BY DEF IInv, StepInv, UpdateError, Return
<1>2. cr # Gone => (cr.managed => desired.managed)
  BY DEF ConvInv, FreshInv
<1>3. \/ err' = "Other"
      \/ /\ err' = "Terminal" /\ latest'.status.conditions.terminal = "True"
         /\ \/ refused'
            \/ ~desired.deleting /\ (~queued /\ cr' # Gone => Reason(cr)')
  <2>1. CASE e = "Other"
    BY <1>1, <2>1, OnErrorConditions
  <2>2. CASE e = "ValidationException"
    <3>1. /\ err' = "Terminal" /\ latest'.status.conditions.terminal = "True"
          /\ ~desired.deleting
      BY <1>1, <2>2, OnErrorConditions DEF ConvInv, DeletingInv
    <3>2. ASSUME ~refused', ~queued, cr # Gone
          PROVE  Rejected(cr.spec) \/ RejectedTags(Wanted(cr))
      <4>1. CASE pc = "update" /\ Rejected(desired.spec)
        BY <3>2, <4>1, RejectedHasReason
      <4>2. CASE pc = "tag" /\ RejectedTags(ToAdd(desired.spec.tags, observed.spec.tags))
        <5>1. desired.spec.tags \in Tags /\ observed.spec.tags \in Tags
          BY <1>1, ResourceUpdates
        <5>2. \A k \in AWSKey : observed.spec.tags[k] # Absent =>
                  desired.spec.tags[k] = observed.spec.tags[k]
          BY DEF ConvInv, MirrorInv
        <5>3. \E k \in AWSKey : observed.spec.tags[k] = Absent /\ desired.spec.tags[k] # Absent
          BY <4>2, <5>1, <5>2, MirroredTagsAreKept DEF RejectedTags
        <5> QED BY <3>2, <4>2, <5>3, RejectedHasReason
      <4> QED BY <2>2, <3>2, <4>1, <4>2
    <3> QED BY <3>1, <3>2 DEF Reason, Wanted
  <2> QED BY <2>1, <2>2
<1> QED BY <1>1, <1>2, <1>3, ErrorTidy

\* TagResource and UntagResource set tags of the network and nothing else.
LEMMA TagCallNet ==
    ASSUME IInv, NEW n \in Id, NEW t \in Tags, net' = [net EXCEPT ![n].tags = t],
           \A k \in AWSKey : t[k] = net[n].tags[k]
    PROVE  /\ \A m \in Id \ {n} : net'[m] = net[m]
           /\ net'[n].tags = t /\ net'[n].state = net[n].state
           /\ net'[n].description = net[n].description
           /\ AWSKept
<1>1. /\ \A m \in Id \ {n} : net'[m] = net[m]
      /\ net'[n].tags = t /\ net'[n].state = net[n].state
      /\ net'[n].description = net[n].description
  <2>1. net' = [net EXCEPT ![n] = [net[n] EXCEPT !.tags = t]]
    OBVIOUS
  <2> QED BY <2>1 DEF IInv, TypeOK, Network
<1> QED BY <1>1 DEF AWSKept

\* A call of syncTags that succeeded, and what sdkUpdate does next.
LEMMA TagCallTidy ==
    ASSUME IInv, ConvInv, pc \in {"tag", "untag"}, NEW n \in Id, n = Target, InService(n),
           UNCHANGED <<cr, desired, observed, queued, drifted>>,
           NEW t \in Tags, net'[n].tags = t, net'[n].state = net[n].state,
           net'[n].description = net[n].description, AWSKept,
           \/ Return(latest, "none", "untag") /\ (~drifted => Agree(t, Added))
           \/ AfterSyncTags /\ (~drifted => Agree(t, desired.spec.tags))
    PROVE  Tidy
<1>1. /\ net'[n].tags = t /\ net'[n].state = net[n].state
      /\ net'[n].description = net[n].description /\ AWSKept
  OBVIOUS
<1>2. /\ desired \in Resource /\ observed \in Resource /\ Target' = n /\ Added' = Added
      /\ ~desired.deleting /\ InService(n)'
  BY <1>1 DEF IInv, StepInv, Target, Added, ConvInv, DeletingInv, InService
<1>3. ~drifted => net[n].description = observed.spec.description
  BY DEF ConvInv, ProgressInv
<1>4. /\ OnSuccess(desired) \in Resource /\ Keeps(OnSuccess(desired), desired)
      /\ OnSuccess(desired).status.conditions.terminal # "True"
      /\ OnSuccess(desired).status.conditions.recoverable # "True"
  BY <1>2, OnSuccessType, OnSuccessConditions
<1>5. /\ err' = "none"
      /\ \/ pc' = "untag" /\ (~drifted => Agree(t, Added))
         \/ pc' = "update" /\ (~drifted => Agree(t, desired.spec.tags))
         \/ /\ pc' = "patch" /\ (~drifted => Agree(t, desired.spec.tags))
            /\ latest' = OnSuccess(desired)
            /\ desired.spec.description = observed.spec.description
  BY DeltaEmpty DEF AfterSyncTags, Return
<1>6. MirrorInv'
  BY <1>5 DEF ConvInv, MirrorInv
<1>7. ProgressInv'
  BY <1>1, <1>2, <1>3, <1>5 DEF ProgressInv
<1>8. PatchInv' /\ ConditionInv'
  BY <1>4, <1>5 DEF PatchInv, ConditionInv, Keeps, Agree
<1>9. SyncedInv'
  <2> SUFFICES ASSUME pc' = "patch", ~drifted PROVE SyncedInv'
    BY <1>5 DEF SyncedInv
  <2>1. /\ latest'.status.id = n /\ net'[n].description = desired'.spec.description
        /\ Agree(net'[n].tags, desired'.spec.tags)
    BY <1>1, <1>3, <1>4, <1>5 DEF Keeps, Target
  <2> QED BY <1>2, <2>1 DEF SyncedInv, InService
<1>10. DeletingInv' /\ RestMeansDone'
  BY <1>2, <1>5 DEF DeletingInv, RestMeansDone
<1>11. FreshInv'
  <2>1. SameSpec(desired, cr)' <=> SameSpec(desired, cr)
    BY DEF SameSpec, Agree, Wanted
  <2> QED BY <1>5, <2>1 DEF ConvInv, FreshInv
<1> QED BY <1>1, <1>6, <1>7, <1>8, <1>9, <1>10, <1>11, SpecUnchanged DEF ConvInv, Tidy

LEMMA AddTagsTidy == ASSUME IInv, ConvInv, AddTags PROVE Tidy
<1> DEFINE add == ToAdd(desired.spec.tags, observed.spec.tags)
           gone == ToDelete(desired.spec.tags, observed.spec.tags)
<1>1. pc = "tag" /\ UNCHANGED <<cr, desired, observed, queued, drifted>>
  BY DEF AddTags
<1>2. /\ Target \in Id /\ desired \in Resource /\ observed \in Resource
      /\ desired.spec.tags \in Tags /\ observed.spec.tags \in Tags /\ add \in Tags
  BY <1>1, ResourceUpdates, TagsTypes DEF IInv, StepInv, Target
<1>3. PICK n \in Id : n = Target
  BY <1>2
<1> DEFINE t == TagResource(net[n].tags, add)
           made == InService(n) /\ ~RejectedTags(add) /\ net' = [net EXCEPT ![n].tags = t]
<1>4. \/ made /\ (IF gone # {} THEN Return(latest, "none", "untag") ELSE AfterSyncTags)
      \/ (made \/ net' = net) /\ Failed
      \/ net' = net /\ RejectedTags(add) /\ UpdateError("ValidationException")
  BY <1>3 DEF AddTags, Attempt, Failed, ErrorCode, Refuses
<1>5. t \in Tags /\ net[n].tags \in Tags
  BY <1>2, TagsTypes DEF IInv, TypeOK, Network
<1>6. ~RejectedTags(add) => \A k \in AWSKey : t[k] = net[n].tags[k]
  <2>1. \A k \in AWSKey : observed.spec.tags[k] # Absent =>
            desired.spec.tags[k] = observed.spec.tags[k]
    BY <1>1 DEF ConvInv, MirrorInv
  <2>2. PICK d \in Tags, o \in Tags, w \in Tags :
            d = desired.spec.tags /\ o = observed.spec.tags /\ w = net[n].tags
    BY <1>2, <1>5
  <2>3. KeysOf(ToAdd(d, o)) \cap AWSKey = {} =>
            \A k \in AWSKey : TagResource(w, ToAdd(d, o))[k] = w[k]
    BY <2>1, <2>2, MirroredTagsAreKept
  <2> QED BY <2>2, <2>3 DEF RejectedTags
<1>7. CASE made /\ (IF gone # {} THEN Return(latest, "none", "untag") ELSE AfterSyncTags)
  <2>1. ~drifted => Agree(net[n].tags, observed.spec.tags)
    BY <1>1, <1>3, <1>7 DEF ConvInv, ProgressInv
  <2>2. ~drifted => Agree(t, Added)
    <3>1. PICK o \in Tags, a \in Tags, w \in Tags :
              o = observed.spec.tags /\ a = add /\ w = net[n].tags
      BY <1>2, <1>5
    <3>2. Agree(w, o) => Agree(TagResource(w, a), TagResource(o, a))
      BY AgreeFacts
    <3> QED BY <2>1, <3>1, <3>2 DEF Added
  <2>3. gone = {} => Added = desired.spec.tags
    BY <1>2, SyncTagsReachesDesired DEF Added
  <2>4. /\ net'[n].tags = t /\ net'[n].state = net[n].state
        /\ net'[n].description = net[n].description /\ AWSKept
    <3> HIDE DEF t
    <3> QED BY <1>5, <1>6, <1>7, TagCallNet
  <2> HIDE DEF t, gone, add
  <2> QED BY <1>1, <1>3, <1>5, <1>7, <2>2, <2>3, <2>4, TagCallTidy
<1>8. CASE (made \/ net' = net) /\ Failed
  <2>1. AWSKept
    BY <1>5, <1>6, <1>8, TagCallNet, NetUnchanged
  <2> QED BY <1>1, <1>8, <2>1, UpdateErrorTidy DEF Failed, ErrorCode
<1>9. CASE net' = net /\ RejectedTags(add) /\ UpdateError("ValidationException")
  BY <1>1, <1>9, NetUnchanged, UpdateErrorTidy
<1> QED BY <1>4, <1>7, <1>8, <1>9

LEMMA RemoveTagsTidy == ASSUME IInv, ConvInv, RemoveTags PROVE Tidy
<1> DEFINE gone == ToDelete(desired.spec.tags, observed.spec.tags)
<1>1. pc = "untag" /\ UNCHANGED <<cr, desired, observed, queued, drifted>>
  BY DEF RemoveTags
<1>2. /\ Target \in Id /\ desired \in Resource /\ observed \in Resource
      /\ desired.spec.tags \in Tags /\ observed.spec.tags \in Tags
  BY <1>1, ResourceUpdates DEF IInv, StepInv, Target
<1>3. PICK n \in Id : n = Target
  BY <1>2
<1> DEFINE t == UntagResource(net[n].tags, gone)
           made == InService(n) /\ net' = [net EXCEPT ![n].tags = t]
<1>4. \/ made /\ AfterSyncTags
      \/ (made \/ net' = net) /\ Failed
  BY <1>3 DEF RemoveTags, Attempt, Failed, ErrorCode, Refuses
<1>5. t \in Tags /\ net[n].tags \in Tags
  BY TagsTypes DEF IInv, TypeOK, Network
<1>6. \A k \in AWSKey : t[k] = net[n].tags[k]
  <2>1. \A k \in AWSKey : observed.spec.tags[k] # Absent =>
            desired.spec.tags[k] = observed.spec.tags[k]
    BY <1>1 DEF ConvInv, MirrorInv
  <2> QED BY <1>2, <1>5, <2>1, MirroredTagsAreKept
<1>7. CASE made /\ AfterSyncTags
  <2>1. ~drifted => Agree(net[n].tags, Added)
    BY <1>1, <1>3, <1>7 DEF ConvInv, ProgressInv
  <2>2. Added \in Tags /\ UntagResource(Added, gone) = desired.spec.tags
    BY <1>2, TagsTypes, SyncTagsReachesDesired DEF Added
  <2>3. ~drifted => Agree(t, desired.spec.tags)
    BY <1>2, <1>5, <2>1, <2>2, AgreeFacts
  <2>4. /\ net'[n].tags = t /\ net'[n].state = net[n].state
        /\ net'[n].description = net[n].description /\ AWSKept
    <3> HIDE DEF t
    <3> QED BY <1>5, <1>6, <1>7, TagCallNet
  <2> HIDE DEF t
  <2> QED BY <1>1, <1>3, <1>5, <1>7, <2>3, <2>4, TagCallTidy
<1>8. CASE (made \/ net' = net) /\ Failed
  <2>1. AWSKept
    BY <1>5, <1>6, <1>8, TagCallNet, NetUnchanged
  <2> QED BY <1>1, <1>8, <2>1, UpdateErrorTidy DEF Failed, ErrorCode
<1> QED BY <1>4, <1>7, <1>8

LEMMA UpdateTidy == ASSUME IInv, ConvInv, Update PROVE Tidy
<1>1. pc = "update" /\ UNCHANGED <<cr, desired, observed, queued, drifted>>
  BY DEF Update
<1>2. Target \in Id /\ desired \in Resource /\ ~desired.deleting
  BY <1>1 DEF IInv, StepInv, Target, ConvInv, DeletingInv
<1>3. PICK n \in Id : n = Target
  BY <1>2
<1> DEFINE set(d) == net' = [net EXCEPT ![n].description = d, ![n].state = "UPDATING"]
           made == InService(n) /\ \E d \in NewDescriptions(desired, n) : set(d)
<1>4. \/ made /\ Return(OnSuccess(MergeOutput(desired, n, net'[n])), "none", "patch")
      \/ (made \/ net' = net) /\ Failed
      \/ net' = net /\ Rejected(desired.spec) /\ UpdateError("ValidationException")
  BY <1>3 DEF Update, Attempt, Failed, ErrorCode, Refuses
<1>5. ASSUME made
      PROVE  /\ net'[n] \in Network /\ net'[n].state = "UPDATING" /\ net'[n].tags = net[n].tags
             /\ net'[n].description # desired.spec.description => desired.spec.description = Nil
             /\ AWSKept
  <2>1. PICK d \in NewDescriptions(desired, n) : set(d)
    BY <1>5
  <2>2. /\ d \in Description \cup {Nil} /\ net[n] \in Network /\ net \in [Id -> Network]
        /\ d # desired.spec.description => desired.spec.description = Nil
    BY <1>2, ResourceUpdates DEF NewDescriptions, IInv, TypeOK, Network
  <2>3. net' = [net EXCEPT ![n] = [net[n] EXCEPT !.description = d, !.state = "UPDATING"]]
    BY <2>1
  <2>4. /\ \A m \in Id \ {n} : net'[m] = net[m]
        /\ net'[n] = [net[n] EXCEPT !.description = d, !.state = "UPDATING"]
    BY <2>2, <2>3
  <2>5. /\ net'[n] \in Network /\ net'[n].state = "UPDATING" /\ net'[n].tags = net[n].tags
        /\ net'[n].description = d
    BY <2>2, <2>4 DEF Network, State, LiveState
  <2> QED BY <2>2, <2>4, <2>5 DEF AWSKept
<1>6. CASE made /\ Return(OnSuccess(MergeOutput(desired, n, net'[n])), "none", "patch")
  <2> DEFINE done == OnSuccess(MergeOutput(desired, n, net'[n]))
  <2>1. /\ done.status.state = "UPDATING" /\ done.spec.tags = net[n].tags
        /\ done.spec.description = net'[n].description
        /\ done.status.conditions.terminal # "True" /\ done.status.conditions.recoverable # "True"
    <3>1. PICK x \in Network : x = net'[n] /\ x.state = "UPDATING" /\ x.tags = net[n].tags
      BY <1>5, <1>6
    <3>2. x.state \in State
      BY <3>1 DEF State, LiveState
    <3> QED BY <1>2, <3>1, <3>2, ReadResult
  <2>2. latest' = done /\ err' = "none" /\ pc' = "patch"
    BY <1>6 DEF Return
  <2> HIDE DEF done
  <2>3. ~drifted => Agree(net[n].tags, desired.spec.tags)
    BY <1>1, <1>3, <1>6 DEF ConvInv, ProgressInv
  <2>4. MirrorInv' /\ ProgressInv' /\ RestMeansDone' /\ DeletingInv'
    BY <1>1, <1>2, <2>2 DEF MirrorInv, ProgressInv, RestMeansDone, DeletingInv
  <2>5. PatchInv' /\ SyncedInv' /\ ConditionInv'
    <3>1. latest'.spec.description # desired'.spec.description => desired'.spec.description = Nil
      BY <1>1, <1>5, <1>6, <2>1, <2>2
    <3> QED BY <1>1, <2>1, <2>2, <2>3, <3>1 DEF PatchInv, SyncedInv, ConditionInv, IsSynced
  <2>6. FreshInv'
    <3>1. SameSpec(desired, cr)' <=> SameSpec(desired, cr)
      BY <1>1 DEF SameSpec, Agree, Wanted
    <3> QED BY <1>1, <2>2, <3>1 DEF ConvInv, FreshInv
  <2> QED BY <1>1, <1>5, <1>6, <2>4, <2>5, <2>6, SpecUnchanged DEF ConvInv, Tidy
<1>7. CASE (made \/ net' = net) /\ Failed
  BY <1>1, <1>5, <1>7, NetUnchanged, UpdateErrorTidy DEF Failed, ErrorCode
<1>8. CASE net' = net /\ Rejected(desired.spec) /\ UpdateError("ValidationException")
  BY <1>1, <1>8, NetUnchanged, UpdateErrorTidy
<1> QED BY <1>4, <1>6, <1>7, <1>8

-----------------------------------------------------------------------------
(* Writing back, and deletion.                                             *)

LEMMA PatchSpecTidy == ASSUME IInv, ConvInv, PatchSpec PROVE Tidy
<1> DEFINE before == FilterSystemTags(desired).spec.tags
           after == FilterSystemTags(latest).spec.tags
           d == IF latest.spec.description # desired.spec.description
                THEN latest.spec.description ELSE cr.spec.description
<1>0. PICK reordered \in BOOLEAN :
          /\ reordered => NewResourceDelta(desired, latest) # {}
          /\ cr' = IF cr = Gone THEN Gone
                   ELSE [cr EXCEPT !.spec.description = d,
                                   !.spec.tags = IF before # after \/ reordered
                                                 THEN after ELSE cr.spec.tags]
          /\ queued' = (queued \/ cr' # cr \/ reordered)
  BY DEF PatchSpec
<1> DEFINE t == IF before # after \/ reordered THEN after ELSE cr.spec.tags
<1>1. /\ pc = "patch" /\ pc' = "status" /\ desired \in Resource /\ latest \in Resource
      /\ cr \in Resource \cup {Gone}
      /\ UNCHANGED <<net, desired, latest, err, drifted, refused>>
  BY DEF PatchSpec, IInv, TypeOK, StepInv
<1>2. /\ before = IgnoreSystemTags(desired.spec.tags)
      /\ after = IgnoreSystemTags(latest.spec.tags)
  BY <1>1, FilterSystemTagsResult
<1>3. /\ cr = Gone => cr' = Gone
      /\ cr # Gone => /\ cr' # Gone /\ cr'.managed = cr.managed
                      /\ cr'.spec.tags = t /\ cr'.spec.description = d
  <2>1. CASE cr = Gone
    BY <1>0, <2>1
  <2>2. CASE cr # Gone
    <3>1. cr \in Resource /\ cr' = [cr EXCEPT !.spec.description = d, !.spec.tags = t]
      BY <1>0, <1>1, <2>2
    <3>2. t \in Tags /\ d \in Description \cup {Nil}
      <4>1. /\ cr.spec.tags \in Tags /\ cr.spec.description \in Description \cup {Nil}
            /\ latest.spec.tags \in Tags /\ latest.spec.description \in Description \cup {Nil}
        BY <1>1, <3>1, ResourceUpdates
      <4>2. after \in Tags
        BY <1>2, <4>1, TagsTypes
      <4> QED BY <4>1, <4>2
    <3> HIDE DEF t, d
    <3>3. cr' \in Resource
      BY <3>1, <3>2, SpecPatchType
    <3>4. cr'.managed = cr.managed /\ cr'.spec.tags = t /\ cr'.spec.description = d
      BY <3>1, <3>2 DEF Resource, ResourceSpec
    <3> QED BY <2>2, <3>3, <3>4, NoneAssumption
  <2> QED BY <2>1, <2>2
<1>4. before # after => drifted
  <2>1. ASSUME Agree(latest.spec.tags, desired.spec.tags) PROVE before = after
    BY <1>2, <2>1 DEF IgnoreSystemTags, Agree
  <2> QED BY <1>1, <2>1 DEF ConvInv, PatchInv
<1>5. SpecKept
  <2> SUFFICES ASSUME cr # Gone
               PROVE  /\ \A k \in AWSKey \cup SystemKey :
                            cr'.spec.tags[k] \in {cr.spec.tags[k], Absent}
                      /\ cr'.spec.tags # cr.spec.tags => drifted \/ OwnTagsWritten
                      /\ cr'.spec.description # cr.spec.description =>
                            desired.spec.description = Nil
    BY DEF SpecKept
  <2>1. \A k \in AWSKey \cup SystemKey : after[k] = Absent
    BY <1>2, TagKeyAssumption DEF IgnoreSystemTags
  <2>2. cr'.spec.description # cr.spec.description => desired.spec.description = Nil
    BY <1>1, <1>3 DEF ConvInv, PatchInv
  <2>3. ASSUME cr'.spec.tags # cr.spec.tags, ~drifted PROVE OwnTagsWritten
    <3>1. reordered /\ cr'.spec.tags = before
      BY <1>3, <1>4, <2>3
    <3>2. \/ desired.spec.tags # latest.spec.tags
          \/ desired.spec.description # latest.spec.description
      BY <1>0, <3>1 DEF NewResourceDelta
    <3>3. CASE desired.spec.description # latest.spec.description
      BY <1>1, <3>1, <3>3 DEF ConvInv, PatchInv, OwnTagsWritten
    <3>4. CASE desired.spec.tags # latest.spec.tags
      <4>1. /\ desired.spec.tags \in Tags /\ latest.spec.tags \in Tags
            /\ Agree(latest.spec.tags, desired.spec.tags)
        BY <1>1, <2>3, ResourceUpdates DEF ConvInv, PatchInv
      <4>2. \E k \in AWSKey : latest.spec.tags[k] # desired.spec.tags[k]
        BY <3>4, <4>1 DEF Tags, Agree
      <4> QED BY <3>1, <4>2 DEF OwnTagsWritten
    <3> QED BY <3>2, <3>3, <3>4
  <2> HIDE DEF before, after
  <2> QED BY <1>3, <2>1, <2>2, <2>3
<1>6. MirrorInv' /\ ProgressInv' /\ PatchInv' /\ RestMeansDone'
  BY <1>1 DEF MirrorInv, ProgressInv, PatchInv, RestMeansDone
<1>7. SyncedInv'
  BY <1>1 DEF ConvInv, SyncedInv, InService
<1>8. ConditionInv' /\ DeletingInv'
  BY <1>1 DEF ConvInv, PatchInv, ConditionInv, DeletingInv
<1>9. FreshInv'
  <2>1. ~queued' => ~queued /\ cr' = cr
    BY <1>0
  <2>2. cr' = cr => (SameSpec(desired, cr)' <=> SameSpec(desired, cr))
    BY <1>1 DEF SameSpec, Agree, Wanted
  <2>3. cr' # Gone => cr # Gone /\ cr'.managed = cr.managed
    BY <1>3
  <2> QED BY <1>1, <2>1, <2>2, <2>3 DEF ConvInv, FreshInv
<1> QED BY <1>1, <1>5, <1>6, <1>7, <1>8, <1>9, NetUnchanged DEF ConvInv, Tidy

LEMMA PatchSpecFailTidy == ASSUME IInv, ConvInv, PatchSpecFail PROVE Tidy
<1>1. /\ pc = "patch" /\ pc' = "status" /\ err' = "Other"
      /\ UNCHANGED <<cr, net, desired, queued>>
  BY DEF PatchSpecFail, Return
<1>2. cr # Gone => (cr.managed => desired.managed)
  BY <1>1 DEF ConvInv, FreshInv
<1> QED BY <1>1, <1>2, NetUnchanged, ErrorTidy

\* The end of a reconcile that does not queue the resource again.
LEMMA PatchStatusTidy == ASSUME IInv, ConvInv, PatchStatus PROVE Tidy
<1>1. /\ pc = "status" /\ pc' = "idle" /\ latest \in Resource /\ cr \in Resource \cup {Gone}
      /\ queued' = (queued \/ err \notin {"none", "Terminal"} \/ SyncedStatus = "False")
      /\ UNCHANGED <<net, drifted, refused>>
  BY DEF PatchStatus, Forget, IInv, StepInv, TypeOK
<1>2. /\ cr = Gone => cr' = Gone
      /\ cr # Gone =>
           /\ cr' \in Resource /\ cr'.spec = cr.spec /\ cr'.managed = cr.managed
           /\ cr'.deleting = cr.deleting /\ cr'.status.id = latest.status.id
           /\ cr'.status.conditions.terminal = latest.status.conditions.terminal
           /\ cr'.status.conditions.recoverable = latest.status.conditions.recoverable
  <2>1. CASE cr = Gone
    BY <2>1 DEF PatchStatus
  <2>2. CASE cr # Gone
    <3> DEFINE st == [latest.status EXCEPT !.conditions.synced = SyncedStatus]
    <3>1. cr \in Resource /\ cr' = [cr EXCEPT !.status = st]
      BY <1>1, <2>2 DEF PatchStatus
    <3>2. latest.status \in ResourceStatus /\ SyncedStatus \in ConditionStatus
      BY <1>1, ResourceUpdates DEF SyncedStatus, ConditionStatus
    <3>3. /\ st \in ResourceStatus /\ st.id = latest.status.id
          /\ st.conditions.terminal = latest.status.conditions.terminal
          /\ st.conditions.recoverable = latest.status.conditions.recoverable
      BY <3>2 DEF ResourceStatus, Conditions
    <3> HIDE DEF st
    <3> QED BY <2>2, <3>1, <3>3 DEF Resource
  <2> QED BY <2>1, <2>2
<1>3. RestMeansDone'
  <2> SUFFICES ASSUME ~queued', ~drifted', cr' # Gone PROVE RestMeansDone'
    BY DEF RestMeansDone
  <2>1. /\ cr # Gone /\ ~queued /\ ~drifted /\ err \in {"none", "Terminal"}
        /\ err = "none" => IsSynced(latest)
    BY <1>1, <1>2 DEF SyncedStatus
  <2>2. err = "none" \/ ~refused =>
            ~cr'.deleting /\ ~desired.deleting /\ SameSpec(desired, cr)
    BY <1>1, <1>2, <2>1 DEF ConvInv, DeletingInv, FreshInv
  <2>3. /\ EnsureTags(cr, DefaultTags)'.spec.tags = Wanted(cr)
        /\ cr'.spec.description = cr.spec.description
    BY <1>2, <2>1, EnsureTagsWanted DEF Wanted
  <2>4. CASE err = "Terminal"
    <3>1. latest.status.conditions.terminal = "True" /\ (refused \/ Reason(cr))
      BY <1>1, <2>1, <2>4 DEF ConvInv, ConditionInv
    <3>2. refused' \/ Rejected(cr.spec)' \/ ~cr'.managed \/ RejectedTags(EnsureTags(cr, DefaultTags).spec.tags)'
      BY <1>1, <1>2, <2>1, <2>3, <3>1 DEF Reason, Rejected
    <3> QED BY <1>1, <1>2, <2>1, <2>2, <3>1, <3>2 DEF RestMeansDone
  <2>5. CASE err = "none"
    <3>1. /\ latest.status.conditions.terminal # "True"
          /\ latest.status.conditions.recoverable # "True"
      BY <1>1, <2>5 DEF ConvInv, ConditionInv
    <3> DEFINE n == latest.status.id
    <3>2. /\ InService(n) /\ net[n].description = desired.spec.description
          /\ Agree(net[n].tags, desired.spec.tags)
      BY <1>1, <2>1, <2>5 DEF ConvInv, SyncedInv
    <3>3. /\ n # Nil /\ net'[n].state \in LiveState /\ net'[n].description = cr'.spec.description
          /\ \A k \in TagKey \ AWSKey :
                net'[n].tags[k] = EnsureTags(cr, DefaultTags)'.spec.tags[k]
      BY <1>1, <2>2, <2>3, <2>5, <3>2 DEF InService, SameSpec, Agree
    <3>4. Converged'
      BY <1>2, <2>1, <3>3 DEF Converged, InService
    <3> QED BY <1>2, <2>1, <2>2, <2>5, <3>1, <3>4 DEF RestMeansDone
  <2> QED BY <2>1, <2>4, <2>5
<1>4. MirrorInv' /\ ProgressInv' /\ PatchInv' /\ SyncedInv' /\ ConditionInv' /\ DeletingInv'
      /\ FreshInv'
  BY <1>1 DEF MirrorInv, ProgressInv, PatchInv, SyncedInv, ConditionInv, DeletingInv, FreshInv
<1> QED BY <1>1, <1>2, <1>3, <1>4, NetUnchanged, SpecUnchanged DEF ConvInv, Tidy

LEMMA DeleteTidy == ASSUME IInv, ConvInv, Delete PROVE Tidy
<1>1. /\ pc = "delete" /\ observed \in Resource /\ observed.status.id \in Id
      /\ UNCHANGED <<cr, desired, observed, queued, drifted>>
  BY DEF Delete, IInv, StepInv
<1>2. PICK n \in Id : n = observed.status.id
  BY <1>1
<1>3. AWSKept
  <2>1. net' = net \/ net' = [net EXCEPT ![n].state = "DELETING"]
    BY <1>2 DEF Delete
  <2>2. CASE net' = [net EXCEPT ![n].state = "DELETING"]
    <3>1. net' = [net EXCEPT ![n] = [net[n] EXCEPT !.state = "DELETING"]]
      BY <2>2
    <3>2. \A m \in Id : net'[m].tags = net[m].tags
      BY <3>1 DEF IInv, TypeOK, Network
    <3> QED BY <3>2 DEF AWSKept
  <2> QED BY <2>1, <2>2, NetUnchanged
<1>4. CASE Return(latest, "none", "unmanage")
  <2>1. pc' = "unmanage"
    BY <1>4 DEF Return
  <2>2. MirrorInv' /\ ProgressInv' /\ PatchInv' /\ SyncedInv' /\ ConditionInv' /\ DeletingInv'
        /\ RestMeansDone'
    BY <2>1 DEF MirrorInv, ProgressInv, PatchInv, SyncedInv, ConditionInv, DeletingInv, RestMeansDone
  <2>3. FreshInv'
    <3>1. SameSpec(desired, cr)' <=> SameSpec(desired, cr)
      BY <1>1 DEF SameSpec, Agree, Wanted
    <3> QED BY <1>1, <2>1, <3>1 DEF ConvInv, FreshInv
  <2> QED BY <1>1, <1>3, <2>2, <2>3, SpecUnchanged DEF ConvInv, Tidy
<1>5. ASSUME NEW e \in ErrorCode, DeleteError(e), e = "ValidationException" => refused'
      PROVE  Tidy
  <2>1. /\ pc' = "status"
        /\ \/ err' = "Other"
           \/ err' = "Terminal" /\ latest'.status.conditions.terminal = "True" /\ refused'
    BY <1>1, <1>5, OnErrorConditions DEF DeleteError, Return, ErrorCode
  <2>2. cr # Gone => (cr.managed => desired.managed)
    BY <1>1 DEF ConvInv, FreshInv
  <2> QED BY <1>1, <1>3, <2>1, <2>2, ErrorTidy
<1> QED BY <1>4, <1>5 DEF Delete, ErrorCode, Refuses

LEMMA EndTidy ==
    ASSUME PatchStatusFail \/ Unmanage \/ UnmanageFail \/ Crash PROVE Tidy
BY ForgetTidy DEF PatchStatusFail, Unmanage, UnmanageFail, Crash

-----------------------------------------------------------------------------
LEMMA StepTidy == IInv /\ ConvInv /\ [Next]_vars => IInv' /\ Tidy
<1> SUFFICES ASSUME IInv, ConvInv, [Next]_vars PROVE IInv' /\ Tidy
  OBVIOUS
<1>1. IInv'
  BY StepSafe DEF Safe
<1>2. CASE Reconcile
  BY <1>1, <1>2, StartTidy, ReadNotFoundTidy, ReadFoundTidy, ReadFailTidy, ManageTidy, CreateTidy,
     CreateErrorTidy, AddTagsTidy, RemoveTagsTidy, UpdateTidy, PatchSpecTidy, PatchSpecFailTidy,
     PatchStatusTidy, DeleteTidy, EndTidy
  DEF Reconcile
<1>3. CASE Resync \/ Crash \/ EditSpec \/ DeleteCR
  BY <1>1, <1>3, StartTidy, EndTidy, UserTidy
<1>4. CASE \E n \in Id : Settle(n) \/ Drift(n) \/ AWSTag(n)
  BY <1>1, <1>4, SettleTidy, DriftTidy, AWSTagTidy
<1>5. CASE UNCHANGED vars
  <2>1. UNCHANGED <<cr, net, locals, queued, drifted, refused>>
    BY <1>5 DEF vars, world
  <2>2. \A m \in Id : Agree(net'[m].tags, net[m].tags)
    BY <2>1 DEF Agree
  <2>3. ConvInv'
    BY <2>1, <2>2, CalmStep
  <2> QED BY <1>1, <2>1, <2>3, NetUnchanged, SpecUnchanged DEF Tidy
<1> QED BY <1>1, <1>2, <1>3, <1>4, <1>5 DEF Next, Tidy

LEMMA ConvInvHolds == Spec => [](IInv /\ ConvInv)
<1>1. IInv /\ ConvInv /\ [Next]_vars => (IInv /\ ConvInv)'
  BY StepTidy DEF Tidy
<1> QED BY InitIInv, InitConv, <1>1, PTL DEF Spec

\* When no reconcile runs and none is queued, the resource is gone, or terminal
\* for a reason that stands, or terminal because the service refused a call with
\* a ValidationException (then also with its deletion undone), or its network is
\* in service with the description and the tags of the spec: no early return of sdkUpdate, no error path and no
\* edit that overtakes a reconcile leaves the work undone and unqueued.
THEOREM RestIsDone == Spec => []RestMeansDone
<1>1. ConvInv => RestMeansDone
  BY DEF ConvInv
<1> QED BY ConvInvHolds, <1>1, PTL

\* Because ReadOne mirrors the "aws:" tags into the desired resource, addTags
\* and removeTags leave those of a network in service as they are, also where
\* AWS adds one between the read and the call.
THEOREM AWSTagsKept == Spec => AWSTagsUntouched
<1>1. IInv /\ ConvInv /\ [Next]_vars =>
          [~(\E n \in Id : AWSTag(n)) =>
              \A n \in Id, k \in AWSKey :
                  net[n].state \in State /\ net'[n].state \in State =>
                      net'[n].tags[k] = net[n].tags[k]]_vars
  BY StepTidy DEF Tidy, AWSKept
<1> QED BY ConvInvHolds, <1>1, PTL DEF Spec, AWSTagsUntouched

\* FilterSystemTags keeps the controller's own tags, and those of AWS, out of
\* the user's spec, whatever the network has come to carry.
THEOREM SystemTagsStayOut == Spec => NoSystemTagsPatched
<1>1. IInv /\ ConvInv /\ [Next]_vars =>
          [cr # Gone /\ cr' # Gone /\ ~EditSpec =>
              \A k \in AWSKey \cup SystemKey :
                  cr'.spec.tags[k] \in {cr.spec.tags[k], Absent}]_vars
  BY StepTidy DEF Tidy, SpecKept
<1> QED BY ConvInvHolds, <1>1, PTL DEF Spec, NoSystemTagsPatched

\* What the patch of the spec writes is what somebody else did to the network
\* while the reconcile worked on it, or a description the user left out. Tags it
\* writes otherwise are the user's own less the system's (an override of a
\* --resource-tags key is lost), and go with such a description or an AWS tag.
THEOREM SpecStaysTheUsers == Spec => SpecIsTheUsers
<1>1. IInv /\ ConvInv /\ [Next]_vars =>
          [cr # Gone /\ cr' # Gone /\ ~EditSpec =>
              /\ cr'.spec.tags # cr.spec.tags =>
                    \/ drifted
                    \/ /\ cr'.spec.tags = FilterSystemTags(desired).spec.tags
                       /\ \/ desired.spec.description = Nil
                          \/ \E k \in AWSKey : latest.spec.tags[k] # desired.spec.tags[k]
              /\ cr'.spec.description # cr.spec.description =>
                    desired.spec.description = Nil]_vars
  BY StepTidy DEF Tidy, SpecKept, OwnTagsWritten
<1> QED BY ConvInvHolds, <1>1, PTL DEF Spec, SpecIsTheUsers
=============================================================================
