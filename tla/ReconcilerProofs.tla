-------------------------- MODULE ReconcilerProofs --------------------------
(***************************************************************************)
(* The reconciler for every set of tags, networks and specs, and for any   *)
(* number of faults, edits and changes behind the controller's back: types *)
(* and the networks of others first, then that no network is left behind   *)
(* unnoticed and that the reconciler implements Lifecycle.                 *)
(***************************************************************************)
EXTENDS Reconciler, ResourceManagerProofs, FiniteSetTheorems

\* What a reconcile has in hand where: it writes to a network by an id that it
\* read from the status of a resource.
StepInv ==
    /\ pc # "idle" => desired \in Resource
    /\ pc \in {"tag", "untag", "update"} =>
          observed \in Resource /\ latest \in Resource /\ desired.status.id \in Id
    /\ pc = "delete" =>
          observed \in Resource /\ latest \in Resource /\ observed.status.id \in Id
    /\ pc \in {"patch", "status"} => latest \in Resource

\* Nobody holds the id of the network that is not this resource's.
NotForeign(r) == r \in Resource => r.status.id # Foreign
ForeignInv ==
    /\ ~net[Foreign].mine /\ net[Foreign].state = "AVAILABLE"
    /\ NotForeign(cr) /\ NotForeign(desired) /\ NotForeign(observed) /\ NotForeign(latest)

IInv == TypeOK /\ StepInv /\ ForeignInv

\* What every step does: keep the invariant and leave that network alone.
Safe == IInv' /\ net'[Foreign] = net[Foreign]

-----------------------------------------------------------------------------
(* The networks and the resources merged from them keep their types.        *)

LEMMA MergeOutputType ==
    ASSUME NEW r \in Resource, NEW n \in Id, NEW out \in Network, out.state \in State
    PROVE  MergeOutput(r, n, out) \in Resource /\ MergeOutput(r, n, out).status.id = n
BY MergeOutputResult DEF Network

LEMMA NetSet ==
    ASSUME NEW f \in [Id -> Network], NEW n \in Id, NEW x \in Network
    PROVE  /\ [f EXCEPT ![n] = x] \in [Id -> Network] /\ [f EXCEPT ![n] = x][n] = x
           /\ \A m \in Id \ {n} : [f EXCEPT ![n] = x][m] = f[m]
OBVIOUS

LEMMA NetTags ==
    ASSUME NEW f \in [Id -> Network], NEW n \in Id, NEW t \in Tags
    PROVE  /\ f[n].tags \in Tags
           /\ [f EXCEPT ![n].tags = t] \in [Id -> Network]
           /\ \A m \in Id \ {n} : [f EXCEPT ![n].tags = t][m] = f[m]
BY DEF Network

LEMMA NetTag ==
    ASSUME NEW f \in [Id -> Network], NEW n \in Id,
           NEW k \in TagKey, NEW v \in TagValue \cup {Absent}
    PROVE  /\ [f EXCEPT ![n].tags[k] = v] \in [Id -> Network]
           /\ \A m \in Id \ {n} : [f EXCEPT ![n].tags[k] = v][m] = f[m]
<1>1. f[n].tags \in Tags
  BY DEF Network
<1>2. [f[n].tags EXCEPT ![k] = v] \in Tags
  BY <1>1 DEF Tags
<1> QED BY <1>2, NetTags

LEMMA NetState ==
    ASSUME NEW f \in [Id -> Network], NEW n \in Id, NEW s \in State
    PROVE  /\ [f EXCEPT ![n].state = s] \in [Id -> Network]
           /\ \A m \in Id \ {n} : [f EXCEPT ![n].state = s][m] = f[m]
BY DEF Network

\* What UpdateGlobalNetwork does to the networks.
Networks == [Id -> Network]
Redescribed(f, n, d, s) == [f EXCEPT ![n].description = d, ![n].state = s]

LEMMA NetDescription ==
    ASSUME NEW f \in Networks, NEW n \in Id, NEW d \in Description \cup {Nil}, NEW s \in State
    PROVE  /\ Redescribed(f, n, d, s) \in Networks
           /\ Redescribed(f, n, d, s)[n].state = s
           /\ \A m \in Id \ {n} : Redescribed(f, n, d, s)[m] = f[m]
BY DEF Network, Networks, Redescribed

LEMMA NoNetworkType ==
    ASSUME NEW b \in BOOLEAN, NEW s \in {"UNUSED", "DELETED", "AVAILABLE"}
    PROVE  NoNetwork(s, b) \in Network /\ NoNetwork(s, b).mine = b /\ NoNetwork(s, b).state = s
BY TagsTypes DEF NoNetwork, Network, State, LiveState, NoTags, Tags

-----------------------------------------------------------------------------
LEMMA InitIInv == Init => IInv
<1> SUFFICES ASSUME Init PROVE IInv
  OBVIOUS
<1>1. PICK s \in UserSpec : cr = [spec |-> s, status |-> NoStatus,
                                  managed |-> FALSE, deleting |-> FALSE]
  BY DEF Init
<1>2. cr \in Resource /\ cr.status.id = Nil
  <2>1. NoStatus \in ResourceStatus /\ NoStatus.id = Nil
    BY DEF NoStatus, ResourceStatus, NoConditions, Conditions, ConditionStatus
  <2> QED BY <1>1, <2>1, UserSpecAssumption DEF Resource
<1>3. net \in [Id -> Network] /\ ~net[Foreign].mine /\ net[Foreign].state = "AVAILABLE"
  BY NoNetworkType, ForeignAssumption DEF Init
<1>4. TypeOK
  BY <1>2, <1>3 DEF Init, TypeOK, Steps, Errors
<1>5. StepInv /\ ForeignInv
  BY <1>2, <1>3, NoneAssumption, NilAssumption, ForeignAssumption
  DEF Init, StepInv, ForeignInv, NotForeign
<1> QED BY <1>4, <1>5 DEF IInv

\* Whether the service refused a call is decided by the step that made it.
LEMMA RefusedType == TypeOK /\ [Next]_vars => refused' \in BOOLEAN
<1> SUFFICES ASSUME TypeOK, [Next]_vars PROVE refused' \in BOOLEAN
  OBVIOUS
<1>1. refused \in BOOLEAN
  BY DEF TypeOK
<1>2. CASE Reconcile
  <2>1. \/ refused' = refused \/ refused' = FALSE \/ \E e \in ErrorCode : Refuses(e)
    <3>1. CASE StartReconcile \/ IgnoreGone \/ ReadNotFound \/ ReadMissed \/ ReadFound \/ ReadFail
      BY <3>1 DEF StartReconcile, IgnoreGone, ReadNotFound, ReadMissed, ReadFound, ReadFail
    <3>2. CASE Manage \/ ManageFail \/ Create \/ CreateFail \/ CreateLost
      BY <3>2 DEF Manage, ManageFail, Create, CreateFail, CreateLost, world
    <3>3. CASE AddTags \/ RemoveTags \/ Update
      BY <3>3 DEF AddTags, RemoveTags, Update, Attempt
    <3>4. CASE PatchSpec \/ PatchSpecFail \/ PatchStatus \/ PatchStatusFail
      BY <3>4 DEF PatchSpec, PatchSpecFail, PatchStatus, PatchStatusFail
    <3>5. CASE Delete \/ Unmanage \/ UnmanageFail
      BY <3>5 DEF Delete, Unmanage, UnmanageFail, world
    <3> QED BY <1>2, <3>1, <3>2, <3>3, <3>4, <3>5 DEF Reconcile
  <2> QED BY <1>1, <2>1 DEF Refuses
<1>3. CASE ~Reconcile
  <2>1. refused' = refused
    BY <1>3 DEF Next, Resync, Crash, EditSpec, DeleteCR, Settle, Drift, AWSTag, world, vars
  <2> QED BY <1>1, <2>1
<1> QED BY <1>2, <1>3

\* The service and the rest of the world.
LEMMA ServiceStep ==
    ASSUME IInv, refused' \in BOOLEAN, NEW n \in Id, Settle(n) \/ Drift(n) \/ AWSTag(n) PROVE Safe
<1> USE DEF IInv
<1>1. net' \in [Id -> Network] /\ net'[Foreign] = net[Foreign]
  <2> USE ForeignAssumption DEF TypeOK, ForeignInv
  <2>1. CASE Settle(n)
    <3>1. n # Foreign /\ net[n] \in Network /\ net[n].mine \in BOOLEAN
      BY <2>1 DEF Settle, Network
    <3>2. CASE net[n].state = "DELETING"
      BY <2>1, <3>1, <3>2, NoNetworkType DEF Settle
    <3>3. CASE net[n].state # "DELETING"
      <4>1. [net[n] EXCEPT !.state = "AVAILABLE"] \in Network
        BY <3>1 DEF Network, State, LiveState
      <4> QED BY <2>1, <3>1, <3>3, <4>1 DEF Settle
    <3> QED BY <3>2, <3>3
  <2>2. CASE Drift(n)
    <3>1. n # Foreign /\ "UPDATING" \in State /\ "DELETING" \in State
      BY <2>2 DEF Drift, State, LiveState
    <3>2. CASE \E k \in TagKey \ AWSKey, v \in TagValue \cup {Absent} :
                   net' = [net EXCEPT ![n].tags[k] = v]
      BY <3>1, <3>2, NetTag
    <3>3. CASE \E d \in Description \ InvalidDescription :
                   net' = [net EXCEPT ![n].description = d, ![n].state = "UPDATING"]
      <4>1. PICK d \in Description \ InvalidDescription :
                net' = [net EXCEPT ![n].description = d, ![n].state = "UPDATING"]
        BY <3>3
      <4>2. net \in [Id -> Network] /\ Foreign \in Id \ {n} /\ d \in Description \cup {Nil}
        BY <3>1
      <4> HIDE DEF IInv, TypeOK, ForeignInv
      <4>3. net' = Redescribed(net, n, d, "UPDATING")
        BY <4>1 DEF Redescribed
      <4>4. net \in Networks
        BY <4>2 DEF Networks
      <4>5. net' \in Networks /\ \A m \in Id \ {n} : net'[m] = net[m]
        BY <3>1, <4>2, <4>3, <4>4, NetDescription
      <4> QED BY <4>2, <4>5 DEF Networks
    <3>4. CASE net' = [net EXCEPT ![n].state = "DELETING"]
      BY <3>1, <3>4, NetState
    <3> QED BY <2>2, <3>2, <3>3, <3>4 DEF Drift
  <2>3. CASE AWSTag(n)
    <3>1. n # Foreign
      BY <2>3 DEF AWSTag
    <3> QED BY <2>3, <3>1, NetTag, TagKeyAssumption DEF AWSTag
  <2> QED BY <2>1, <2>2, <2>3
<1>2. /\ UNCHANGED <<cr, locals, queued, faults, edits, lapses>>
      /\ drifted' \in BOOLEAN /\ drifts' \in Nat
  <2>1. CASE Settle(n)
    BY <2>1 DEF Settle, world, TypeOK
  <2>2. CASE Drift(n)
    BY <2>2 DEF Drift, TypeOK
  <2>3. CASE AWSTag(n)
    BY <2>3 DEF AWSTag, TypeOK
  <2> QED BY <2>1, <2>2, <2>3
<1>3. TypeOK' /\ StepInv' /\ ForeignInv'
  BY <1>1, <1>2 DEF TypeOK, StepInv, ForeignInv, NotForeign, locals
<1> QED BY <1>1, <1>3 DEF Safe, IInv

\* The user.
LEMMA UserStep == ASSUME IInv, refused' \in BOOLEAN, EditSpec \/ DeleteCR PROVE Safe
<1> USE DEF IInv
<1>1. /\ UNCHANGED <<net, locals, drifted, faults, drifts, lapses>>
      /\ queued' \in BOOLEAN /\ edits' \in Nat
  <2>1. CASE EditSpec
    BY <2>1 DEF EditSpec, TypeOK
  <2>2. CASE DeleteCR
    BY <2>2 DEF DeleteCR, TypeOK
  <2> QED BY <2>1, <2>2
<1>2. cr' \in Resource \cup {Gone} /\ NotForeign(cr)'
  <2>1. cr \in Resource /\ cr.status.id # Foreign
    BY DEF EditSpec, DeleteCR, TypeOK, ForeignInv, NotForeign
  <2>2. CASE EditSpec
    <3>1. PICK s \in UserSpec : cr' = [cr EXCEPT !.spec = s]
      BY <2>2 DEF EditSpec
    <3> QED BY <2>1, <3>1, ResourceUpdates, UserSpecAssumption DEF NotForeign
  <2>3. CASE DeleteCR
    BY <2>1, <2>3, ResourceUpdates, NoneAssumption DEF DeleteCR, NotForeign
  <2> QED BY <2>2, <2>3
<1>3. TypeOK' /\ StepInv' /\ ForeignInv'
  BY <1>1, <1>2 DEF TypeOK, StepInv, ForeignInv, NotForeign, locals
<1> QED BY <1>1, <1>3 DEF Safe

-----------------------------------------------------------------------------
(* The controller.                                                         *)

\* Steps that end a reconcile and drop all it knew.
LEMMA ForgetStep ==
    ASSUME IInv, refused' \in BOOLEAN, Forget, net' = net,
           cr' \in Resource \cup {Gone}, NotForeign(cr)',
           queued' \in BOOLEAN, drifted' \in BOOLEAN,
           faults' \in Nat, edits' \in Nat, drifts' \in Nat, lapses' \in Nat
    PROVE  Safe
<1>1. TypeOK'
  BY DEF IInv, TypeOK, Forget, Steps, Errors
<1>2. StepInv'
  BY DEF StepInv, Forget
<1>3. ForeignInv'
  BY NoneAssumption DEF IInv, ForeignInv, NotForeign, Forget
<1> QED BY <1>1, <1>2, <1>3 DEF Safe, IInv

LEMMA StartStep == ASSUME IInv, refused' \in BOOLEAN, StartReconcile \/ IgnoreGone \/ Resync PROVE Safe
<1> USE DEF IInv
<1>1. CASE StartReconcile
  <2>1. cr \in Resource /\ cr.status.id # Foreign
    BY <1>1 DEF StartReconcile, TypeOK, ForeignInv, NotForeign
  <2>2. EnsureTags(cr, DefaultTags) \in Resource /\ EnsureTags(cr, DefaultTags).status = cr.status
    BY <2>1, TagOperations, DefaultTagsAssumption
  <2>3. desired' \in Resource /\ desired'.status.id # Foreign
    BY <1>1, <2>1, <2>2 DEF StartReconcile
  <2>4. /\ UNCHANGED <<cr, net, observed, latest, err, drifted, faults, edits, drifts, lapses>>
        /\ pc' = "read" /\ queued' \in BOOLEAN
    BY <1>1 DEF StartReconcile
  <2> QED BY <2>3, <2>4 DEF Safe, TypeOK, Steps, StepInv, ForeignInv, NotForeign
<1>2. CASE IgnoreGone \/ Resync
  <2>1. UNCHANGED <<cr, net, locals, drifted, faults, edits, drifts, lapses>> /\ queued' \in BOOLEAN
    BY <1>2 DEF IgnoreGone, Resync
  <2> QED BY <2>1 DEF Safe, TypeOK, StepInv, ForeignInv, NotForeign, locals
<1> QED BY <1>1, <1>2

LEMMA ReadNotFoundStep == ASSUME IInv, refused' \in BOOLEAN, ReadNotFound \/ ReadMissed PROVE Safe
<1> USE DEF IInv
<1>1. /\ UNCHANGED <<cr, net, desired, observed, latest, err, queued, edits, drifts>>
      /\ pc = "read" /\ pc' \in {"unmanage", "create", "manage"}
  BY DEF ReadNotFound, ReadMissed, NotFound
<1>2. drifted' \in BOOLEAN /\ faults' \in Nat /\ lapses' \in Nat
  <2>1. CASE ReadNotFound
    BY <2>1 DEF ReadNotFound, TypeOK
  <2>2. CASE ReadMissed
    BY <2>2 DEF ReadMissed, Fault, TypeOK
  <2> QED BY <2>1, <2>2
<1> QED BY <1>1, <1>2 DEF Safe, TypeOK, Steps, StepInv, ForeignInv, NotForeign

\* Steps after which nothing but what the reconcile returns has changed.
LEMMA ReturnStep ==
    ASSUME IInv, refused' \in BOOLEAN, NEW r \in Resource, r.status.id # Foreign, NEW e \in Errors,
           NEW s \in {"patch", "status", "unmanage"}, Return(r, e, s),
           pc # "idle", UNCHANGED <<desired, observed, queued, edits, drifts>>,
           drifted' \in BOOLEAN, faults' \in Nat, lapses' \in Nat,
           cr' \in Resource \cup {Gone}, NotForeign(cr)',
           net' \in [Id -> Network], net'[Foreign] = net[Foreign]
    PROVE  Safe
<1> USE DEF IInv, Return
<1>1. TypeOK'
  BY DEF TypeOK, Steps
<1>2. StepInv'
  BY DEF StepInv
<1>3. ForeignInv'
  BY DEF ForeignInv, NotForeign
<1> QED BY <1>1, <1>2, <1>3 DEF Safe

LEMMA ReadFailStep == ASSUME IInv, refused' \in BOOLEAN, ReadFail PROVE Safe
<1>0. PICK c \in ErrorCode : ReadError(c)
  BY DEF ReadFail
<1> DEFINE x == OnError(desired, c)
<1>1. desired \in Resource /\ desired.status.id # Foreign
  BY DEF IInv, StepInv, ForeignInv, NotForeign, ReadFail
<1>2. x.res \in Resource /\ x.err \in Errors /\ x.res.status.id # Foreign
  BY <1>1, OnErrorType DEF Keeps, Errors, TerminalErrors, ErrorCode
<1>3. /\ Return(x.res, x.err, "status") /\ pc # "idle"
      /\ UNCHANGED <<cr, net, desired, observed, queued, drifted, edits, drifts, lapses>>
      /\ faults' \in Nat
  BY <1>0 DEF ReadFail, ReadError, Fault, IInv, TypeOK
<1> HIDE DEF x
<1> QED BY <1>2, <1>3, ReturnStep DEF IInv, TypeOK, ForeignInv, NotForeign

\* ReadOne can only have found the network that the status names.
LEMMA ReadFoundStep == ASSUME IInv, refused' \in BOOLEAN, ReadFound PROVE Safe
<1> USE DEF IInv
<1>1. desired \in Resource /\ desired.status.id \in Id /\ desired.status.id # Foreign
  BY ResourceUpdates DEF ReadFound, StepInv, ForeignInv, NotForeign, RequiredFieldsMissing
<1> DEFINE found(n) == MergeOutput(desired, n, net[n])
           seen(n) == OnSuccess(found(n))
           want(n) == MirrorAWSTags(desired, found(n))
<1>2. PICK n \in Described(desired.status.id) :
          /\ desired' = want(n) /\ observed' = seen(n)
          /\ \/ want(n).deleting /\ Return(seen(n), "none", "delete")
             \/ Return([seen(n) EXCEPT !.status.conditions.terminal = "True"],
                       "Terminal", "status")
             \/ \E s \in {"status", "update", "tag", "untag"} : Return(seen(n), "none", s)
  BY DEF ReadFound
<1>3. n = desired.status.id /\ n \in Id /\ net[n] \in Network /\ net[n].state \in State
  BY <1>1, <1>2, NilAssumption DEF Described, TypeOK
<1>4. found(n) \in Resource /\ found(n).status.id = n
  BY <1>1, <1>3, MergeOutputType
<1>5. seen(n) \in Resource /\ seen(n).status.id = n
  <2> HIDE DEF found
  <2> QED BY <1>4, OnSuccessType DEF Keeps
<1>6. want(n) \in Resource /\ want(n).status.id = n
  <2>1. desired.spec.tags \in Tags
    BY <1>1, ResourceUpdates
  <2> HIDE DEF found
  <2> QED BY <1>1, <1>3, <1>4, <2>1, TagOperations
<1> DEFINE bad == [seen(n) EXCEPT !.status.conditions.terminal = "True"]
<1>7. bad \in Resource /\ bad.status.id = n
  <2> HIDE DEF seen
  <2> QED BY <1>5, ResourceUpdates
<1>8. UNCHANGED <<cr, net, queued, faults, edits, drifts, lapses>> /\ drifted' \in BOOLEAN
  BY DEF ReadFound
<1> HIDE DEF found, seen, want, bad
<1>9. /\ latest' \in Resource /\ latest'.status.id = n /\ err' \in Errors
      /\ pc' \in {"delete", "status", "update", "tag", "untag"}
  BY <1>2, <1>5, <1>7 DEF Return, Errors, bad
<1>10. desired' \in Resource /\ desired'.status.id = n /\ observed' \in Resource
       /\ observed'.status.id = n /\ n \in Id /\ n # Foreign
  BY <1>1, <1>2, <1>3, <1>5, <1>6
<1>11. TypeOK'
  BY <1>8, <1>9, <1>10 DEF TypeOK, Steps
<1>12. StepInv'
  BY <1>9, <1>10 DEF StepInv
<1>13. ForeignInv'
  BY <1>8, <1>9, <1>10 DEF ForeignInv, NotForeign
<1> QED BY <1>8, <1>11, <1>12, <1>13 DEF Safe

LEMMA ManageStep == ASSUME IInv, refused' \in BOOLEAN, Manage \/ ManageFail PROVE Safe
<1> USE DEF IInv
<1>1. CASE Manage
  <2>1. /\ cr \in Resource /\ cr.status.id # Foreign
        /\ desired \in Resource /\ desired.status.id # Foreign
    BY <1>1 DEF Manage, TypeOK, StepInv, ForeignInv, NotForeign
  <2>2. /\ cr' \in Resource /\ cr'.status.id # Foreign
        /\ desired' \in Resource /\ desired'.status.id # Foreign
    BY <1>1, <2>1, ResourceUpdates DEF Manage
  <2>3. pc' = "create" /\ UNCHANGED <<net, observed, latest, err, world>>
    BY <1>1 DEF Manage
  <2> QED BY <2>2, <2>3 DEF Safe, TypeOK, Steps, StepInv, ForeignInv, NotForeign, world
<1>2. CASE ManageFail
  <2>1. Forget /\ UNCHANGED <<cr, net, drifted, edits, drifts, lapses>> /\ queued' \in BOOLEAN
    BY <1>2 DEF ManageFail
  <2>2. faults' \in Nat
    BY <1>2 DEF ManageFail, Fault, TypeOK
  <2> QED BY <2>1, <2>2, ForgetStep DEF TypeOK, ForeignInv, NotForeign
<1> QED BY <1>1, <1>2

LEMMA CreatedNet ==
    ASSUME IInv, pc = "create", NEW n \in Id, Created(n)
    PROVE  /\ net' \in [Id -> Network] /\ net'[Foreign] = net[Foreign]
           /\ n # Foreign /\ net'[n].state = "PENDING"
<1> DEFINE new == [description |-> desired.spec.description, tags |-> desired.spec.tags,
                   state |-> "PENDING", mine |-> TRUE]
<1>1. desired \in Resource
  BY DEF IInv, StepInv
<1>2. new \in Network /\ new.state = "PENDING"
  BY <1>1, ResourceUpdates DEF Network, State, LiveState
<1>3. n # Foreign /\ net' = [net EXCEPT ![n] = new]
  BY DEF Created, IInv, ForeignInv
<1> HIDE DEF new
<1> QED BY <1>2, <1>3, NetSet, ForeignAssumption DEF IInv, TypeOK

LEMMA CreateStep == ASSUME IInv, refused' \in BOOLEAN, Create PROVE Safe
<1>1. PICK n \in Id : /\ Created(n)
                      /\ Return(OnSuccess(MergeOutput(desired, n, net'[n])), "none", "patch")
  BY DEF Create
<1>2. pc = "create" /\ UNCHANGED <<cr, desired, observed, world>>
  BY DEF Create
<1>3. /\ net' \in [Id -> Network] /\ net'[Foreign] = net[Foreign]
      /\ n # Foreign /\ net'[n].state = "PENDING"
  BY <1>1, <1>2, CreatedNet
<1> DEFINE m == MergeOutput(desired, n, net'[n])
<1>4. m \in Resource /\ m.status.id = n
  <2>1. desired \in Resource
    BY <1>2 DEF IInv, StepInv
  <2> QED BY <1>3, <2>1, MergeOutputType DEF State, LiveState
<1> HIDE DEF m
<1> DEFINE r == OnSuccess(m)
<1>5. r \in Resource /\ r.status.id # Foreign
  BY <1>3, <1>4, OnSuccessType DEF Keeps
<1>6. Return(r, "none", "patch")
  BY <1>1 DEF m
<1> HIDE DEF r
<1> QED BY <1>2, <1>3, <1>5, <1>6, ReturnStep
        DEF IInv, TypeOK, ForeignInv, NotForeign, Errors, world

LEMMA CreateErrorStep == ASSUME IInv, refused' \in BOOLEAN, CreateFail \/ CreateLost PROVE Safe
<1> USE DEF IInv
<1>1. PICK e \in {"ValidationException", "Other"} : CreateError(e)
  BY DEF CreateFail, CreateLost, ErrorCode
<1>2. pc = "create" /\ UNCHANGED <<queued, drifted, edits, drifts>>
  BY DEF CreateFail, CreateLost
<1>3. faults' \in Nat /\ lapses' \in Nat
  BY DEF CreateFail, CreateLost, Fault, TypeOK
<1>4. net' \in [Id -> Network] /\ net'[Foreign] = net[Foreign]
  <2>1. CASE CreateFail
    BY <2>1 DEF CreateFail, TypeOK
  <2>2. CASE CreateLost
    BY <1>2, <2>2, CreatedNet DEF CreateLost
  <2> QED BY <2>1, <2>2
<1>5. cr' \in Resource \cup {Gone} /\ NotForeign(cr)'
  <2>1. PICK keep \in BOOLEAN :
            cr' = IF cr = Gone \/ (cr.deleting /\ ~keep) THEN Gone
                  ELSE [cr EXCEPT !.managed = keep]
    BY <1>1 DEF CreateError
  <2>2. CASE cr' = Gone
    BY <2>2, NoneAssumption DEF NotForeign
  <2>3. CASE cr # Gone /\ cr' = [cr EXCEPT !.managed = keep]
    BY <2>3, ResourceUpdates DEF TypeOK, ForeignInv, NotForeign
  <2> QED BY <2>1, <2>2, <2>3
<1> DEFINE x == OnError(desired, e)
<1>6. x.res \in Resource /\ x.err \in Errors /\ x.res.status.id # Foreign
  <2>1. desired \in Resource /\ desired.status.id # Foreign
    BY <1>2 DEF StepInv, ForeignInv, NotForeign
  <2> QED BY <2>1, OnErrorType DEF Keeps, Errors, TerminalErrors
<1>7. Return(x.res, x.err, "status") /\ UNCHANGED <<desired, observed>>
  BY <1>1 DEF CreateError
<1> HIDE DEF x
<1> QED BY <1>2, <1>3, <1>4, <1>5, <1>6, <1>7, ReturnStep DEF TypeOK

-----------------------------------------------------------------------------
(* Update.                                                                 *)

\* Steps of sdkUpdate go on to the next call of the same Update or return.
LEMMA UpdateReturnStep ==
    ASSUME IInv, refused' \in BOOLEAN, pc \in {"tag", "untag", "update"},
           UNCHANGED <<cr, desired, observed, queued, drifted, edits, drifts, lapses>>,
           faults' \in Nat, net' \in [Id -> Network], net'[Foreign] = net[Foreign],
           NEW r \in Resource, r.status.id # Foreign, NEW e \in Errors,
           NEW s \in {"untag", "update", "patch", "status"}, Return(r, e, s)
    PROVE  Safe
<1> USE DEF IInv, Return
<1>1. TypeOK'
  BY DEF TypeOK, Steps
<1>2. StepInv'
  BY DEF StepInv
<1>3. ForeignInv'
  BY DEF ForeignInv, NotForeign
<1> QED BY <1>1, <1>2, <1>3 DEF Safe

\* What AfterSyncTags and UpdateError return has its type.
LEMMA UpdateReturns ==
    ASSUME IInv, pc \in {"tag", "untag", "update"}, NEW e \in {"Other", "ValidationException"}
    PROVE  /\ AfterSyncTags => \E r \in Resource, s \in {"update", "patch"} :
                                   r.status.id # Foreign /\ Return(r, "none", s)
           /\ UpdateError(e) => \E r \in Resource, f \in Errors :
                                   r.status.id # Foreign /\ Return(r, f, "status")
           /\ latest \in Resource /\ latest.status.id # Foreign
           /\ desired \in Resource /\ Target \in Id /\ Target # Foreign
           /\ desired.spec.tags \in Tags /\ observed \in Resource
<1>1. /\ latest \in Resource /\ latest.status.id # Foreign
      /\ observed \in Resource /\ observed.status.id # Foreign
      /\ desired \in Resource /\ desired.status.id # Foreign /\ desired.status.id \in Id
  BY DEF IInv, StepInv, ForeignInv, NotForeign
<1>2. AfterSyncTags => \E r \in Resource, s \in {"update", "patch"} :
                           r.status.id # Foreign /\ Return(r, "none", s)
  <2>1. OnSuccess(desired) \in Resource /\ OnSuccess(desired).status.id # Foreign
    BY <1>1, OnSuccessType DEF Keeps
  <2> QED BY <1>1, <2>1 DEF AfterSyncTags
<1>3. UpdateError(e) => \E r \in Resource, f \in Errors :
                            r.status.id # Foreign /\ Return(r, f, "status")
  <2>1. /\ OnError(observed, e).res \in Resource /\ OnError(observed, e).err \in Errors
        /\ OnError(observed, e).res.status.id # Foreign
    BY <1>1, OnErrorType DEF Keeps, Errors, TerminalErrors
  <2> QED BY <2>1 DEF UpdateError
<1> QED BY <1>1, <1>2, <1>3, ResourceUpdates DEF Target

LEMMA TagsStep == ASSUME IInv, refused' \in BOOLEAN, AddTags \/ RemoveTags PROVE Safe
<1> USE DEF IInv
<1> DEFINE add == ToAdd(desired.spec.tags, observed.spec.tags)
           gone == ToDelete(desired.spec.tags, observed.spec.tags)
<1>1. pc \in {"tag", "untag"}
      /\ UNCHANGED <<cr, desired, observed, queued, drifted, edits, drifts, lapses>>
  BY DEF AddTags, RemoveTags
<1>2. /\ latest \in Resource /\ latest.status.id # Foreign
      /\ Target \in Id /\ Target # Foreign
      /\ desired.spec.tags \in Tags /\ observed \in Resource
  BY <1>1, UpdateReturns
<1>3. \/ net' = net
      \/ net' = [net EXCEPT ![Target].tags = TagResource(net[Target].tags, add)]
      \/ net' = [net EXCEPT ![Target].tags = UntagResource(net[Target].tags, gone)]
  BY DEF AddTags, RemoveTags, Attempt
<1>4. net' \in [Id -> Network] /\ net'[Foreign] = net[Foreign]
  <2>1. add \in Tags /\ net[Target].tags \in Tags
    BY <1>2, ResourceUpdates, TagsTypes DEF TypeOK, Network
  <2> HIDE DEF add, gone
  <2>2. /\ TagResource(net[Target].tags, add) \in Tags
        /\ UntagResource(net[Target].tags, gone) \in Tags
    BY <2>1, TagsTypes
  <2> QED BY <1>2, <1>3, <2>2, NetTags, ForeignAssumption DEF TypeOK
<1>5. faults' \in Nat
  BY DEF AddTags, RemoveTags, Attempt, Fault, TypeOK
<1>6. \/ Return(latest, "none", "untag") \/ AfterSyncTags
      \/ \E e \in {"Other", "ValidationException"} : UpdateError(e)
  BY DEF AddTags, RemoveTags, Attempt, ErrorCode
<1>7. \E r \in Resource, e \in Errors, s \in {"untag", "update", "patch", "status"} :
          r.status.id # Foreign /\ Return(r, e, s)
  <2>1. "none" \in Errors
    BY DEF Errors
  <2> QED BY <1>1, <1>2, <1>6, <2>1, UpdateReturns
<1> QED BY <1>1, <1>4, <1>5, <1>7, UpdateReturnStep

LEMMA UpdateStep == ASSUME IInv, refused' \in BOOLEAN, Update PROVE Safe
<1> USE DEF IInv
<1> DEFINE made == \E d \in NewDescriptions(desired, Target) :
                      net' = [net EXCEPT ![Target].description = d,
                                         ![Target].state = "UPDATING"]
<1>1. pc = "update"
      /\ UNCHANGED <<cr, desired, observed, queued, drifted, edits, drifts, lapses>>
  BY DEF Update
<1>2. Target \in Id /\ Target # Foreign /\ desired \in Resource
  BY <1>1, UpdateReturns
<1>3. \/ made /\ Return(OnSuccess(MergeOutput(desired, Target, net'[Target])), "none", "patch")
      \/ (made \/ net' = net) /\ \E e \in {"Other", "ValidationException"} : UpdateError(e)
  BY DEF Update, Attempt, ErrorCode
<1>4. faults' \in Nat
  BY DEF Update, Attempt, Fault, TypeOK
<1>5. made => /\ net' \in [Id -> Network] /\ net'[Foreign] = net[Foreign]
              /\ net'[Target].state = "UPDATING"
  <2> SUFFICES ASSUME made
               PROVE  /\ net' \in [Id -> Network] /\ net'[Foreign] = net[Foreign]
                      /\ net'[Target].state = "UPDATING"
    OBVIOUS
  <2>1. PICK d \in NewDescriptions(desired, Target) :
            net' = [net EXCEPT ![Target].description = d, ![Target].state = "UPDATING"]
    OBVIOUS
  <2>2. d \in Description \cup {Nil}
    BY <1>2, ResourceUpdates DEF NewDescriptions, TypeOK, Network
  <2>3. "UPDATING" \in State /\ net \in [Id -> Network] /\ Foreign \in Id \ {Target}
    BY <1>2, ForeignAssumption DEF TypeOK, State, LiveState
  <2>4. PICK n \in Id : n = Target
    BY <1>2
  <2>5. net' = [net EXCEPT ![n].description = d, ![n].state = "UPDATING"]
    BY <2>1, <2>4
  <2>6. net' = Redescribed(net, n, d, "UPDATING")
    BY <2>5 DEF Redescribed
  <2> HIDE DEF IInv, made
  <2>7. /\ net' \in [Id -> Network] /\ net'[n].state = "UPDATING"
        /\ \A m \in Id \ {n} : net'[m] = net[m]
    <3>1. net \in Networks
      BY <2>3 DEF Networks
    <3>2. /\ net' \in Networks /\ net'[n].state = "UPDATING"
          /\ \A m \in Id \ {n} : net'[m] = net[m]
      BY <2>2, <2>3, <2>6, <3>1, NetDescription
    <3> QED BY <3>2 DEF Networks
  <2> QED BY <2>3, <2>4, <2>7
<1> HIDE DEF made
<1>6. net' \in [Id -> Network] /\ net'[Foreign] = net[Foreign]
  BY <1>3, <1>5 DEF TypeOK
<1>7. \E r \in Resource, e \in Errors, s \in {"untag", "update", "patch", "status"} :
          r.status.id # Foreign /\ Return(r, e, s)
  <2>1. CASE \E e \in {"Other", "ValidationException"} : UpdateError(e)
    BY <1>1, <2>1, UpdateReturns
  <2>2. CASE made /\ Return(OnSuccess(MergeOutput(desired, Target, net'[Target])),
                            "none", "patch")
    <3> DEFINE m == MergeOutput(desired, Target, net'[Target])
    <3>1. m \in Resource /\ m.status.id = Target
      BY <1>2, <1>5, <2>2, MergeOutputType DEF State, LiveState
    <3> HIDE DEF m
    <3>2. OnSuccess(m) \in Resource /\ OnSuccess(m).status.id # Foreign /\ "none" \in Errors
      BY <1>2, <3>1, OnSuccessType DEF Keeps, Errors
    <3> QED BY <2>2, <3>2 DEF m
  <2> QED BY <1>3, <2>1, <2>2
<1> QED BY <1>1, <1>4, <1>6, <1>7, UpdateReturnStep

-----------------------------------------------------------------------------
(* Writing back, deletion and crashes.                                     *)

LEMMA PatchSpecStep == ASSUME IInv, refused' \in BOOLEAN, PatchSpec \/ PatchSpecFail PROVE Safe
<1> USE DEF IInv
<1>1. pc = "patch" /\ latest \in Resource /\ latest.status.id # Foreign /\ desired \in Resource
  BY DEF PatchSpec, PatchSpecFail, StepInv, ForeignInv, NotForeign
<1>2. CASE PatchSpec
  <2>1. cr' \in Resource \cup {Gone} /\ NotForeign(cr)'
    <3>1. CASE cr = Gone
      BY <1>2, <3>1, NoneAssumption DEF PatchSpec, NotForeign
    <3>2. CASE cr # Gone
      <4>1. cr \in Resource /\ cr.status.id # Foreign
        BY <3>2 DEF TypeOK, ForeignInv, NotForeign
      <4>2. /\ latest.spec.description \in Description \cup {Nil}
            /\ cr.spec.description \in Description \cup {Nil} /\ cr.spec.tags \in Tags
            /\ FilterSystemTags(latest).spec.tags \in Tags
        BY <1>1, <4>1, ResourceUpdates, TagOperations
      <4>3. PICK d \in Description \cup {Nil}, t \in Tags :
                cr' = [cr EXCEPT !.spec.description = d, !.spec.tags = t]
        BY <1>2, <3>2, <4>2 DEF PatchSpec
      <4> QED BY <4>1, <4>3, SpecPatchType DEF NotForeign
    <3> QED BY <3>1, <3>2
  <2>2. /\ UNCHANGED <<net, desired, observed, latest, err, drifted, faults, edits, drifts, lapses>>
        /\ pc' = "status"
    BY <1>2 DEF PatchSpec
  <2>3. queued' \in BOOLEAN
    BY <1>2 DEF PatchSpec
  <2> QED BY <1>1, <2>1, <2>2, <2>3 DEF Safe, TypeOK, Steps, StepInv, ForeignInv, NotForeign
<1>3. CASE PatchSpecFail
  <2>1. /\ Return(latest, "Other", "status")
        /\ UNCHANGED <<cr, net, desired, observed, queued, drifted, edits, drifts, lapses>>
        /\ faults' \in Nat
    BY <1>3 DEF PatchSpecFail, Fault, TypeOK
  <2> QED BY <1>1, <2>1, ReturnStep DEF TypeOK, ForeignInv, NotForeign, Errors
<1> QED BY <1>2, <1>3

LEMMA PatchStatusStep == ASSUME IInv, refused' \in BOOLEAN, PatchStatus PROVE Safe
<1> USE DEF IInv
<1>1. latest \in Resource /\ latest.status.id # Foreign /\ latest.status \in ResourceStatus
  BY ResourceUpdates DEF PatchStatus, StepInv, ForeignInv, NotForeign
<1>2. cr' \in Resource \cup {Gone} /\ NotForeign(cr)'
  <2>1. CASE cr = Gone
    BY <2>1, NoneAssumption DEF PatchStatus, NotForeign
  <2>2. CASE cr # Gone
    <3>1. /\ cr \in Resource /\ SyncedStatus \in ConditionStatus
          /\ cr' = [cr EXCEPT !.status = [latest.status EXCEPT !.conditions.synced = SyncedStatus]]
      BY <2>2 DEF PatchStatus, TypeOK, SyncedStatus, ConditionStatus
    <3>2. PICK st \in ResourceStatus, c \in ConditionStatus :
              st = latest.status /\ c = SyncedStatus
      BY <1>1, <3>1
    <3>3. cr' = [cr EXCEPT !.status = [st EXCEPT !.conditions.synced = c]]
      BY <3>1, <3>2
    <3>4. cr' \in Resource /\ cr'.status.id = st.id
      <4>1. /\ [st EXCEPT !.conditions.synced = c] \in ResourceStatus
            /\ [st EXCEPT !.conditions.synced = c].id = st.id
        BY DEF ResourceStatus, Conditions
      <4> QED BY <3>1, <3>3, <4>1 DEF Resource
    <3> QED BY <1>1, <3>2, <3>4 DEF NotForeign
  <2> QED BY <2>1, <2>2
<1>3. Forget /\ UNCHANGED <<net, drifted, faults, edits, drifts, lapses>>
  BY DEF PatchStatus
<1>4. queued' \in BOOLEAN
  BY DEF PatchStatus
<1> QED BY <1>2, <1>3, <1>4, ForgetStep DEF TypeOK

LEMMA DeleteStep == ASSUME IInv, refused' \in BOOLEAN, Delete PROVE Safe
<1> USE DEF IInv
<1> DEFINE n == observed.status.id
           x(c) == OnError(observed, c)
<1>1. /\ pc = "delete" /\ latest \in Resource /\ latest.status.id # Foreign
      /\ observed \in Resource /\ n \in Id /\ n # Foreign
  BY DEF Delete, StepInv, ForeignInv, NotForeign
<1>2. \A c \in ErrorCode :
          x(c).res \in Resource /\ x(c).err \in Errors /\ x(c).res.status.id # Foreign
  BY <1>1, OnErrorType DEF Keeps, Errors, TerminalErrors, ErrorCode
<1>3. net' = net \/ net' = [net EXCEPT ![n].state = "DELETING"]
  BY DEF Delete
<1>4. net' \in [Id -> Network] /\ net'[Foreign] = net[Foreign]
  BY <1>1, <1>3, NetState, ForeignAssumption DEF TypeOK, State
<1>5. /\ UNCHANGED <<cr, desired, observed, queued, drifted, edits, drifts, lapses>>
      /\ \/ Return(latest, "none", "unmanage")
         \/ \E c \in ErrorCode : Return(x(c).res, x(c).err, "status")
  BY DEF Delete, DeleteError, ErrorCode
<1>6. faults' \in Nat
  BY DEF Delete, Fault, TypeOK
<1> HIDE DEF n, x
<1>7. PICK r \in Resource, e \in Errors, s \in {"unmanage", "status"} :
          r.status.id # Foreign /\ Return(r, e, s)
  BY <1>1, <1>2, <1>5 DEF Errors
<1> QED BY <1>1, <1>4, <1>5, <1>6, <1>7, ReturnStep DEF TypeOK, ForeignInv, NotForeign

LEMMA EndStep == ASSUME IInv, refused' \in BOOLEAN, PatchStatusFail \/ Unmanage \/ UnmanageFail \/ Crash PROVE Safe
<1> USE DEF IInv
<1>1. Forget /\ UNCHANGED <<net, drifted, edits, drifts>>
  BY DEF PatchStatusFail, Unmanage, UnmanageFail, Crash, world
<1>2. queued' \in BOOLEAN
  BY DEF PatchStatusFail, Unmanage, UnmanageFail, Crash, world, TypeOK
<1>3. faults' \in Nat /\ lapses' \in Nat
  BY DEF PatchStatusFail, Unmanage, UnmanageFail, Crash, world, Fault, TypeOK
<1>4. cr' \in Resource \cup {Gone} /\ NotForeign(cr)'
  BY NoneAssumption
  DEF PatchStatusFail, Unmanage, UnmanageFail, Crash, TypeOK, ForeignInv, NotForeign
<1> QED BY <1>1, <1>2, <1>3, <1>4, ForgetStep DEF TypeOK

LEMMA StepSafe == IInv /\ [Next]_vars => Safe
<1> SUFFICES ASSUME IInv, [Next]_vars PROVE Safe
  OBVIOUS
<1>0. refused' \in BOOLEAN
  BY RefusedType DEF IInv
<1>1. CASE Reconcile
  BY <1>0, <1>1, StartStep, ReadNotFoundStep, ReadFoundStep, ReadFailStep, ManageStep,
     CreateStep, CreateErrorStep, TagsStep, UpdateStep, PatchSpecStep, PatchStatusStep,
     DeleteStep, EndStep DEF Reconcile
<1>2. CASE Resync \/ Crash
  BY <1>0, <1>2, StartStep, EndStep
<1>3. CASE EditSpec \/ DeleteCR
  BY <1>0, <1>3, UserStep
<1>4. CASE \E n \in Id : Settle(n) \/ Drift(n) \/ AWSTag(n)
  BY <1>0, <1>4, ServiceStep
<1>5. CASE UNCHANGED vars
  BY <1>0, <1>5 DEF vars, locals, world, Safe, IInv, TypeOK, StepInv, ForeignInv, NotForeign
<1> QED BY <1>1, <1>2, <1>3, <1>4, <1>5 DEF Next

LEMMA IInvHolds == Spec => []IInv
<1>1. IInv /\ [Next]_vars => IInv'
  BY StepSafe DEF Safe
<1> QED BY InitIInv, <1>1, PTL DEF Spec

-----------------------------------------------------------------------------
\* Whatever the tags, the networks and the number of faults: the resource, the
\* networks and the locals of a reconcile keep their types.
THEOREM TypeCorrect == Spec => []TypeOK
<1>1. IInv => TypeOK
  BY DEF IInv
<1> QED BY IInvHolds, <1>1, PTL

\* No step of the controller ever touches a network that is not the
\* resource's own: every call that writes is given an id that sdkFind looked up
\* by the status, and the status only ever gets ids that sdkCreate was given.
THEOREM OthersUntouched == Spec => ForeignUntouched
<1>1. IInv /\ [Next]_vars => [net'[Foreign] = net[Foreign]]_vars
  BY StepSafe DEF Safe
<1> QED BY IInvHolds, <1>1, PTL DEF Spec, ForeignUntouched

-----------------------------------------------------------------------------
(* Which networks exist and who knows of them. The ground for the theorems *)
(* of this part is what a reconcile knows at each step of the resource in  *)
(* the API server and of the network it names.                             *)

\* Between its read and its last patch a reconcile can trust the record in the
\* status, since nobody else writes it, and the finalizer, since a user can ask
\* for a deletion but cannot carry it out.
HasFinalizer == cr # Gone /\ cr.managed
ToBeDeleted == cr # Gone /\ cr.deleting
HoldInv ==
    /\ ToBeDeleted => cr.managed
    /\ pc # "idle" /\ cr # Gone => cr.status.id = desired.status.id
    /\ pc \in {"tag", "untag", "update", "delete"} =>
          /\ HasFinalizer
          /\ observed.status.id = desired.status.id /\ latest.status.id = desired.status.id
    /\ pc \in {"create", "patch"} \/ (pc = "read" /\ desired.managed) => HasFinalizer
    /\ pc \in {"delete", "unmanage"} \/ (pc = "read" /\ desired.deleting) => ToBeDeleted
    /\ pc \in {"patch", "status"} =>
          \/ latest.status.id = desired.status.id
          \/ /\ HasFinalizer /\ latest.status.id \in Id
             /\ net[latest.status.id].state # "UNUSED"

\* The record of a network that is in use is not about to be given up.
ExactInv ==
    \/ pc \in {"manage", "create", "unmanage"}
    \/ pc \in {"patch", "status"} /\ latest.status.id # desired.status.id
    => ~InService(Record(cr))

\* Networks that are an orphan or may become one without a further lapse: the
\* reconcile has not found the network of the record, or the finalizer is off.
Kept(n) ==
    /\ HasFinalizer
    /\ \/ pc \in {"idle", "read", "tag", "untag", "update", "delete"} /\ cr.status.id = n
       \/ pc \in {"patch", "status"} /\ latest.status.id = n
Doomed == {n \in Id : net[n].mine /\ InService(n) /\ ~Kept(n)}
DoomInv == Cardinality(Doomed) <= lapses

\* What every step does: keep what a reconcile holds, doom a network only with
\* a lapse, and one only, and do what Lifecycle allows.
Owes ==
    \/ lapses' = lapses /\ Doomed' \subseteq Doomed
    \/ lapses' = lapses + 1 /\ \E x : Doomed' \subseteq Doomed \cup {x}
Refines == ExactInv' /\ [Life!Next]_(Life!vars)
NoStaleReads == "staleRead" \notin Faults
Follows == HoldInv' /\ Owes /\ (ExactInv /\ NoStaleReads => Refines)

-----------------------------------------------------------------------------
LEMMA LifeValues ==
    /\ LifeOf("UNUSED") = "unused" /\ LifeOf("DELETING") = "leaving" /\ LifeOf("DELETED") = "gone"
    /\ \A s \in LiveState : LifeOf(s) = "live"
BY DEF LifeOf, LiveState

LEMMA LifeLive ==
    ASSUME NEW s \in State \cup {"UNUSED", "DELETED"}
    PROVE  LifeOf(s) = "live" <=> s \in LiveState
BY DEF LifeOf, LiveState, State

\* Steps that Lifecycle does not see.
LEMMA QuietStep ==
    ASSUME Phase(cr)' = Phase(cr), Record(cr)' = Record(cr), drifts' = drifts,
           \A n \in Id : LifeOf(net'[n].state) = LifeOf(net[n].state)
    PROVE  UNCHANGED Life!vars
BY DEF Life!vars

LEMMA InitLife == Init => Life!Init
<1> SUFFICES ASSUME Init PROVE Life!Init
  OBVIOUS
<1>1. PICK s \in UserSpec : cr = [spec |-> s, status |-> NoStatus,
                                  managed |-> FALSE, deleting |-> FALSE]
  BY DEF Init
<1>2. cr \in Resource
  BY <1>1, NoStatusType, UserSpecAssumption DEF Resource
<1>3. Phase(cr) = "unmanaged" /\ Record(cr) = Nil
  BY <1>1, <1>2, NoStatusType, NoneAssumption DEF Phase, Record
<1>4. \A n \in Id : LifeOf(net[n].state) = IF n = Foreign THEN "live" ELSE "unused"
  BY LifeValues DEF Init, NoNetwork, LiveState
<1> QED BY <1>3, <1>4 DEF Life!Init, Init

\* The states of networks that Lifecycle tells apart.
LEMMA LiveMeansInService ==
    ASSUME IInv
    PROVE  Life!RecordLive <=> InService(Record(cr))
<1>1. Record(cr) # Nil => Record(cr) \in Id
  BY ResourceUpdates DEF IInv, TypeOK, Record
<1>2. ASSUME NEW n \in Id PROVE LifeOf(net[n].state) = "live" <=> net[n].state \in LiveState
  <2>1. net[n].state \in State \cup {"UNUSED", "DELETED"}
    BY DEF IInv, TypeOK, Network
  <2> QED BY <2>1, LifeLive
<1> QED BY <1>1, <1>2 DEF Life!RecordLive, InService

LEMMA LifeChange ==
    ASSUME NEW n \in Id, NEW v, LifeOf(net'[n].state) = v,
           \A m \in Id \ {n} : net'[m] = net[m]
    PROVE  [m \in Id |-> LifeOf(net[m].state)]'
               = [[m \in Id |-> LifeOf(net[m].state)] EXCEPT ![n] = v]
OBVIOUS

-----------------------------------------------------------------------------
(* The service and the user.                                               *)

\* Others cannot bring a network into service.
LEMMA WorldStep ==
    ASSUME IInv, HoldInv, UNCHANGED <<cr, locals, lapses>>,
           \A m \in Id : /\ net'[m].mine => net[m].mine
                         /\ net'[m].state \in LiveState => net[m].state \in LiveState
                         /\ net[m].state # "UNUSED" => net'[m].state # "UNUSED"
    PROVE  HoldInv' /\ Owes /\ (ExactInv => ExactInv')
<1> USE DEF locals
<1>1. HoldInv'
  BY DEF HoldInv, HasFinalizer, ToBeDeleted
<1>2. Doomed' \subseteq Doomed
  BY DEF Doomed, InService, Kept, HasFinalizer
<1>3. ExactInv => ExactInv'
  <2>1. Record(cr) # Nil => Record(cr) \in Id
    BY ResourceUpdates DEF IInv, TypeOK, Record
  <2> QED BY <2>1 DEF ExactInv, InService
<1> QED BY <1>1, <1>2, <1>3 DEF Owes

LEMMA SettleFollows == ASSUME IInv, HoldInv, NEW n \in Id, Settle(n) PROVE Follows
<1>1. /\ net[n] \in Network /\ net[n].state \in {"PENDING", "UPDATING", "DELETING"}
      /\ net \in [Id -> Network]
      /\ UNCHANGED <<cr, locals, world>>
  BY DEF Settle, IInv, TypeOK
<1>2. /\ \A m \in Id \ {n} : net'[m] = net[m]
      /\ net'[n].mine = net[n].mine
      /\ net'[n].state = IF net[n].state = "DELETING" THEN "DELETED" ELSE "AVAILABLE"
  BY <1>1 DEF Settle, NoNetwork, Network
<1>3. HoldInv' /\ Owes /\ (ExactInv => ExactInv')
  BY <1>1, <1>2, WorldStep DEF LiveState, world
<1>4. [Life!Next]_(Life!vars)
  <2>1. CASE net[n].state = "DELETING"
    <3>1. LifeOf(net[n].state) = "leaving" /\ LifeOf(net'[n].state) = "gone"
      BY <1>2, <2>1, LifeValues
    <3>2. Life!Vanish(n)
      BY <1>1, <1>2, <3>1, LifeChange DEF Life!Vanish, world
    <3> QED BY <3>2 DEF Life!Next
  <2>2. CASE net[n].state # "DELETING"
    <3>1. LifeOf(net[n].state) = "live" /\ LifeOf(net'[n].state) = "live"
      BY <1>1, <1>2, <2>2, LifeValues DEF LiveState
    <3> QED BY <1>1, <1>2, <3>1, QuietStep DEF world
  <2> QED BY <2>1, <2>2
<1> QED BY <1>3, <1>4 DEF Follows, Refines

LEMMA DriftFollows == ASSUME IInv, HoldInv, NEW n \in Id, Drift(n) \/ AWSTag(n) PROVE Follows
<1>1. /\ net[n] \in Network /\ net[n].mine /\ net[n].state \in LiveState
      /\ net \in [Id -> Network] /\ n # Foreign
      /\ UNCHANGED <<cr, locals, lapses>> /\ drifts' = drifts + 1
  BY DEF Drift, AWSTag, InService, IInv, TypeOK, ForeignInv
<1>2. /\ \A m \in Id \ {n} : net'[m] = net[m]
      /\ net'[n].mine = net[n].mine
      /\ net'[n].state \in {net[n].state, "UPDATING", "DELETING"}
  <2>1. CASE \E k \in TagKey, v \in TagValue \cup {Absent} : net' = [net EXCEPT ![n].tags[k] = v]
    <3>1. PICK k \in TagKey, v \in TagValue \cup {Absent} : net' = [net EXCEPT ![n].tags[k] = v]
      BY <2>1
    <3>2. net' = [net EXCEPT ![n] = [net[n] EXCEPT !.tags[k] = v]]
      BY <3>1
    <3>3. /\ [net[n] EXCEPT !.tags[k] = v].mine = net[n].mine
          /\ [net[n] EXCEPT !.tags[k] = v].state = net[n].state
      BY <1>1 DEF Network
    <3> QED BY <1>1, <3>2, <3>3
  <2>2. CASE \E d \in Description :
               net' = [net EXCEPT ![n].description = d, ![n].state = "UPDATING"]
    <3>1. PICK d \in Description :
              net' = [net EXCEPT ![n].description = d, ![n].state = "UPDATING"]
      BY <2>2
    <3>2. net' = [net EXCEPT ![n] = [net[n] EXCEPT !.description = d, !.state = "UPDATING"]]
      BY <1>1, <3>1
    <3>3. /\ [net[n] EXCEPT !.description = d, !.state = "UPDATING"].mine = net[n].mine
          /\ [net[n] EXCEPT !.description = d, !.state = "UPDATING"].state = "UPDATING"
      BY <1>1 DEF Network
    <3> QED BY <1>1, <3>2, <3>3
  <2>3. CASE net' = [net EXCEPT ![n].state = "DELETING"]
    BY <1>1, <2>3 DEF Network
  <2> QED BY <2>1, <2>2, <2>3, TagKeyAssumption DEF Drift, AWSTag
<1>3. HoldInv' /\ Owes /\ (ExactInv => ExactInv')
  BY <1>1, <1>2, WorldStep DEF LiveState
<1>4. Life!Interfere(n)
  <2>1. LifeOf(net[n].state) = "live"
    BY <1>1, LifeValues
  <2>2. LifeOf(net'[n].state) \in {"live", "leaving"}
    BY <1>2, <2>1, LifeValues DEF LiveState
  <2>3. CASE LifeOf(net'[n].state) = "live"
    BY <1>1, <1>2, <2>1, <2>3 DEF Life!Interfere
  <2>4. CASE LifeOf(net'[n].state) = "leaving"
    BY <1>1, <1>2, <2>1, <2>4, LifeChange DEF Life!Interfere
  <2> QED BY <2>2, <2>3, <2>4
<1> QED BY <1>3, <1>4 DEF Follows, Refines, Life!Next

\* Patches of the spec, and of metadata as it is already, change nothing here.
SameStanding(a, r) ==
    \/ a = Gone /\ r = Gone
    \/ /\ a # Gone /\ r # Gone /\ a.managed = r.managed /\ a.deleting = r.deleting
       /\ a.status.id = r.status.id

LEMMA StandingSeen ==
    ASSUME NEW a, NEW r, SameStanding(a, r)
    PROVE  Phase(a) = Phase(r) /\ Record(a) = Record(r)
BY DEF SameStanding, Phase, Record

LEMMA UserFollows == ASSUME IInv, IInv', HoldInv, EditSpec \/ DeleteCR PROVE Follows
<1>1. UNCHANGED <<net, locals, drifts, lapses>> /\ cr # Gone /\ cr \in Resource
  BY DEF EditSpec, DeleteCR, IInv, TypeOK
<1>2. \/ SameStanding(cr', cr)
      \/ cr' = Gone /\ ~cr.managed
      \/ /\ cr.managed /\ ~cr.deleting /\ cr' # Gone
         /\ cr'.managed /\ cr'.deleting /\ cr'.status = cr.status
  <2>1. CASE EditSpec
    <3>1. PICK sp \in UserSpec : cr' = [cr EXCEPT !.spec = sp]
      BY <2>1 DEF EditSpec
    <3>2. cr' \in Resource /\ cr'.status = cr.status
      BY <1>1, <3>1, ResourceUpdates, UserSpecAssumption
    <3>3. cr'.managed = cr.managed /\ cr'.deleting = cr.deleting
      BY <1>1, <3>1 DEF Resource
    <3> QED BY <1>1, <3>2, <3>3, NoneAssumption DEF SameStanding
  <2>2. CASE DeleteCR /\ cr.managed
    <3>1. cr' = [cr EXCEPT !.deleting = TRUE] /\ ~cr.deleting
      BY <2>2 DEF DeleteCR
    <3>2. cr' \in Resource /\ cr'.status = cr.status
      BY <1>1, <3>1, ResourceUpdates
    <3>3. cr'.managed = cr.managed /\ cr'.deleting
      BY <1>1, <3>1 DEF Resource
    <3> QED BY <1>1, <2>2, <3>1, <3>2, <3>3, NoneAssumption
  <2>3. CASE DeleteCR /\ ~cr.managed
    BY <2>3 DEF DeleteCR
  <2> QED BY <2>1, <2>2, <2>3
<1>3. HoldInv'
  BY <1>1, <1>2 DEF HoldInv, HasFinalizer, ToBeDeleted, SameStanding, locals
<1>4. Doomed' \subseteq Doomed
  BY <1>1, <1>2 DEF Doomed, InService, Kept, HasFinalizer, SameStanding, locals
<1>5. ExactInv => ExactInv'
  <2>1. Record(cr)' \in {Record(cr), Nil}
    BY <1>1, <1>2 DEF Record, SameStanding
  <2> QED BY <1>1, <2>1 DEF ExactInv, InService, locals
<1>6. [Life!Next]_(Life!vars)
  <2>1. CASE SameStanding(cr', cr)
    BY <1>1, <2>1, StandingSeen, QuietStep
  <2>2. CASE ~SameStanding(cr', cr)
    <3>1. Life!Request
      <4>1. ~cr.deleting
        BY <1>1, <1>2, <2>2 DEF HoldInv, ToBeDeleted
      <4>2. \/ Phase(cr) = "managed" /\ Phase(cr') = "deleting" /\ Record(cr') = Record(cr)
            \/ Phase(cr) = "unmanaged" /\ Phase(cr') = "gone" /\ Record(cr') = Nil
        BY <1>1, <1>2, <2>2, <4>1 DEF Phase, Record
      <4> QED BY <1>1, <4>2 DEF Life!Request
    <3> QED BY <3>1 DEF Life!Next
  <2> QED BY <2>1, <2>2
<1> QED BY <1>1, <1>3, <1>4, <1>5, <1>6 DEF Follows, Owes, Refines

-----------------------------------------------------------------------------
(* Reading.                                                                *)

\* The status is trusted from here on.
LEMMA StartFollows ==
    ASSUME IInv, HoldInv, StartReconcile \/ IgnoreGone \/ Resync PROVE Follows
<1>1. UNCHANGED <<cr, net, drifts, lapses>> /\ pc = "idle"
  BY DEF StartReconcile, IgnoreGone, Resync
<1>2. UNCHANGED Life!vars
  BY <1>1, QuietStep
<1>3. CASE StartReconcile
  <2>1. cr \in Resource /\ cr # Gone /\ pc' = "read"
    BY <1>3 DEF StartReconcile, IInv, TypeOK
  <2>2. /\ EnsureTags(cr, DefaultTags).status = cr.status
        /\ EnsureTags(cr, DefaultTags).managed = cr.managed
        /\ EnsureTags(cr, DefaultTags).deleting = cr.deleting
    BY <2>1, EnsureTagsResult, DefaultTagsAssumption DEF SameButTags
  <2>3. desired'.status = cr.status /\ desired'.managed = cr.managed /\ desired'.deleting = cr.deleting
    BY <1>3, <2>2 DEF StartReconcile
  <2>4. HoldInv'
    BY <1>1, <2>1, <2>3 DEF HoldInv, HasFinalizer, ToBeDeleted
  <2>5. Doomed' \subseteq Doomed
    BY <1>1, <2>1 DEF Doomed, InService, Kept, HasFinalizer
  <2> QED BY <1>1, <1>2, <2>1, <2>4, <2>5 DEF Follows, Owes, Refines, ExactInv
<1>4. CASE IgnoreGone \/ Resync
  <2>1. UNCHANGED locals
    BY <1>4 DEF IgnoreGone, Resync
  <2>2. HoldInv' /\ Owes /\ (ExactInv => ExactInv')
    BY <1>1, <2>1, WorldStep
  <2> QED BY <1>2, <2>2 DEF Follows, Refines
<1> QED BY <1>3, <1>4

LEMMA ReadNotFoundFollows ==
    ASSUME IInv, HoldInv, ReadNotFound \/ ReadMissed PROVE Follows
<1>1. /\ pc = "read" /\ UNCHANGED <<cr, net, desired, observed, latest, drifts>>
      /\ pc' = IF desired.deleting THEN "unmanage"
               ELSE IF desired.managed THEN "create" ELSE "manage"
  BY DEF ReadNotFound, ReadMissed, NotFound
<1>2. UNCHANGED Life!vars
  BY <1>1, QuietStep
<1>3. HoldInv'
  BY <1>1 DEF HoldInv, HasFinalizer, ToBeDeleted
<1>4. Doomed' \subseteq Doomed \cup {Record(cr)}
  BY <1>1 DEF Doomed, InService, Kept, HasFinalizer, Record
<1>5. CASE ReadNotFound
  <2>1. ~InService(Record(cr))
    <3>1. CASE cr = Gone
      BY <3>1 DEF Record, InService
    <3>2. CASE cr # Gone
      <4>1. Record(cr) = desired.status.id /\ (Record(cr) # Nil => Record(cr) \in Id)
        BY <1>1, <3>2, ResourceUpdates DEF HoldInv, Record, IInv, TypeOK
      <4>2. desired.status.id = Nil \/ Described(desired.status.id) = {}
        BY <1>5 DEF ReadNotFound, RequiredFieldsMissing
      <4> QED BY <4>1, <4>2 DEF InService, Described, State
    <3> QED BY <3>1, <3>2
  <2>2. Doomed' \subseteq Doomed /\ lapses' = lapses
    BY <1>1, <1>4, <1>5, <2>1 DEF ReadNotFound, Doomed, InService
  <2>3. ExactInv'
    BY <1>1, <2>1 DEF ExactInv, InService
  <2> QED BY <1>2, <1>3, <2>2, <2>3 DEF Follows, Owes, Refines
<1>6. CASE ReadMissed
  <2>1. lapses' = lapses + 1 /\ ~NoStaleReads
    BY <1>6 DEF ReadMissed, Fault, NoStaleReads
  <2> QED BY <1>3, <1>4, <2>1 DEF Follows, Owes
<1> QED BY <1>5, <1>6

LEMMA ReadFoundFollows == ASSUME IInv, HoldInv, ReadFound PROVE Follows
<1>1. /\ desired \in Resource /\ desired.status.id \in Id /\ pc = "read"
      /\ UNCHANGED <<cr, net, drifts, lapses>>
  BY ResourceUpdates DEF ReadFound, IInv, StepInv, RequiredFieldsMissing
<1> DEFINE merged(n) == MergeOutput(desired, n, net[n])
           seen(n) == OnSuccess(merged(n))
           want(n) == MirrorAWSTags(desired, merged(n))
<1>2. PICK n \in Described(desired.status.id) :
          /\ desired' = want(n) /\ observed' = seen(n)
          /\ \/ want(n).deleting /\ Return(seen(n), "none", "delete")
             \/ Return([seen(n) EXCEPT !.status.conditions.terminal = "True"],
                       "Terminal", "status")
             \/ /\ want(n).managed
                /\ \E st \in {"status", "update", "tag", "untag"} : Return(seen(n), "none", st)
  BY DEF ReadFound
<1>3. n = desired.status.id /\ n \in Id /\ net[n] \in Network /\ net[n].state \in State
  BY <1>1, <1>2, NilAssumption DEF Described, IInv, TypeOK
<1>4. merged(n) \in Resource /\ merged(n).status.id = n
  BY <1>1, <1>3, MergeOutputType
<1>5. seen(n) \in Resource /\ seen(n).status.id = n
  <2> HIDE DEF merged
  <2> QED BY <1>4, OnSuccessType DEF Keeps
<1>6. /\ want(n).status = desired.status /\ want(n).managed = desired.managed
      /\ want(n).deleting = desired.deleting
  <2> HIDE DEF merged
  <2> QED BY <1>1, <1>4, MirrorAWSTagsResult DEF SameButTags
<1> DEFINE bad == [seen(n) EXCEPT !.status.conditions.terminal = "True"]
<1>7. bad.status.id = n
  <2> HIDE DEF seen
  <2> QED BY <1>5, ResourceUpdates
<1> HIDE DEF merged, seen, want
<1>8. /\ desired'.status = desired.status
      /\ observed'.status.id = desired.status.id /\ latest'.status.id = desired.status.id
      /\ \/ pc' = "delete" /\ desired.deleting
         \/ pc' = "status"
         \/ pc' \in {"update", "tag", "untag"} /\ desired.managed
  BY <1>2, <1>3, <1>5, <1>6, <1>7 DEF Return
<1>9. HoldInv'
  BY <1>1, <1>8 DEF HoldInv, HasFinalizer, ToBeDeleted
<1>10. Doomed' \subseteq Doomed
  BY <1>1, <1>8 DEF HoldInv, Doomed, InService, Kept, HasFinalizer
<1>11. UNCHANGED Life!vars
  BY <1>1, QuietStep
<1>12. ExactInv'
  BY <1>8 DEF ExactInv
<1> QED BY <1>1, <1>9, <1>10, <1>11, <1>12 DEF Follows, Owes, Refines

\* A reconcile that returns with the resource it read, or an equal one, keeps
\* the record, whatever it has done to the description and tags of networks.
LEMMA ReturnFollows ==
    ASSUME IInv, HoldInv, pc \in {"read", "tag", "untag", "update"},
           UNCHANGED <<cr, desired, observed, drifts, lapses>>,
           NEW r, r.status.id = desired.status.id, NEW e,
           NEW st \in {"untag", "update", "patch", "status"}, Return(r, e, st),
           pc = "read" => st = "status",
           \A m \in Id : /\ net'[m].mine = net[m].mine
                         /\ \/ net'[m].state = net[m].state
                            \/ {net'[m].state, net[m].state} \subseteq LiveState
    PROVE  Follows
<1> USE DEF Return
<1>1. HoldInv'
  BY DEF HoldInv, HasFinalizer, ToBeDeleted
<1>2. Doomed' \subseteq Doomed
  BY DEF HoldInv, Doomed, InService, Kept, HasFinalizer
<1>3. UNCHANGED Life!vars
  <2>1. \A m \in Id : LifeOf(net'[m].state) = LifeOf(net[m].state)
    BY LifeValues
  <2> QED BY <2>1, QuietStep
<1>4. ExactInv'
  BY DEF ExactInv
<1> QED BY <1>1, <1>2, <1>3, <1>4 DEF Follows, Owes, Refines

LEMMA ReadFailFollows == ASSUME IInv, HoldInv, ReadFail PROVE Follows
<1>0. PICK c \in ErrorCode : ReadError(c)
  BY DEF ReadFail
<1> DEFINE x == OnError(desired, c)
<1>1. desired \in Resource /\ pc = "read"
  BY DEF ReadFail, IInv, StepInv
<1>2. x.res.status.id = desired.status.id
  BY <1>1, OnErrorType DEF Errors, TerminalErrors, Keeps, ErrorCode
<1>3. /\ Return(x.res, x.err, "status")
      /\ UNCHANGED <<cr, net, desired, observed, drifts, lapses>>
  BY <1>0 DEF ReadFail, ReadError
<1> HIDE DEF x
<1> QED BY <1>1, <1>2, <1>3, ReturnFollows

-----------------------------------------------------------------------------
(* The finalizer and creation.                                             *)

\* Steps that end a reconcile and leave the resource as it is.
LEMMA ForgetFollows ==
    ASSUME HoldInv, Forget, UNCHANGED <<cr, net, drifts>>, Owes PROVE Follows
<1>1. HoldInv'
  BY DEF HoldInv, Forget, HasFinalizer, ToBeDeleted
<1>2. ExactInv'
  BY DEF ExactInv, Forget
<1>3. UNCHANGED Life!vars
  BY QuietStep
<1> QED BY <1>1, <1>2, <1>3 DEF Follows, Refines

LEMMA ManageFollows == ASSUME IInv, HoldInv, Manage \/ ManageFail PROVE Follows
<1>1. CASE Manage
  <2>1. /\ pc = "manage" /\ pc' = "create" /\ cr # Gone /\ cr \in Resource /\ desired \in Resource
        /\ cr' = [cr EXCEPT !.managed = TRUE] /\ desired' = [desired EXCEPT !.managed = TRUE]
        /\ UNCHANGED <<net, observed, latest, drifts, lapses>>
    BY <1>1 DEF Manage, world, IInv, TypeOK, StepInv
  <2>2. /\ cr' \in Resource /\ cr'.status = cr.status /\ desired'.status = desired.status
        /\ cr'.managed /\ cr'.deleting = cr.deleting
    BY <2>1 DEF Resource
  <2>3. cr' # Gone
    BY <2>2, NoneAssumption
  <2>4. HoldInv'
    BY <2>1, <2>2, <2>3 DEF HoldInv, HasFinalizer, ToBeDeleted
  <2>5. Doomed' \subseteq Doomed
    BY <2>1 DEF Doomed, InService, Kept
  <2>6. Record(cr') = Record(cr)
    BY <2>1, <2>2, <2>3 DEF Record
  <2>7. ExactInv => ExactInv'
    BY <2>1, <2>6 DEF ExactInv, InService
  <2>8. [Life!Next]_(Life!vars)
    <3>1. \/ Phase(cr') = Phase(cr)
          \/ Phase(cr) = "unmanaged" /\ Phase(cr') = "managed"
      BY <2>1, <2>2, <2>3 DEF Phase, HoldInv, ToBeDeleted
    <3>2. CASE Phase(cr') = Phase(cr)
      BY <2>1, <2>6, <3>2, QuietStep
    <3>3. CASE Phase(cr) = "unmanaged" /\ Phase(cr') = "managed"
      BY <2>1, <2>6, <3>3 DEF Life!Manage, Life!Next
    <3> QED BY <3>1, <3>2, <3>3
  <2> QED BY <2>1, <2>4, <2>5, <2>7, <2>8 DEF Follows, Owes, Refines
<1>2. CASE ManageFail
  <2>1. pc = "manage" /\ Forget /\ UNCHANGED <<cr, net, drifts, lapses>>
    BY <1>2 DEF ManageFail
  <2>2. Doomed' \subseteq Doomed
    BY <2>1 DEF Doomed, InService, Kept
  <2> QED BY <2>1, <2>2, ForgetFollows DEF Owes
<1> QED BY <1>1, <1>2

\* What the service does with CreateGlobalNetwork, as Lifecycle sees it.
LEMMA CreatedLife ==
    ASSUME IInv, HoldInv, pc = "create", NEW n \in Id, Created(n)
    PROVE  /\ net[n].state = "UNUSED" /\ net'[n].state = "PENDING"
           /\ \A m \in Id \ {n} : net'[m] = net[m]
           /\ LifeOf(net[n].state) = "unused"
           /\ [m \in Id |-> LifeOf(net[m].state)]'
                 = [[m \in Id |-> LifeOf(net[m].state)] EXCEPT ![n] = "live"]
           /\ Phase(cr) \in {"managed", "deleting"} /\ cr # Gone /\ cr.managed
<1>1. net[n].state = "UNUSED" /\ net'[n].state = "PENDING"
  BY CreatedNet DEF Created
<1>2. \A m \in Id \ {n} : net'[m] = net[m]
  BY DEF Created, IInv, TypeOK
<1>3. LifeOf(net[n].state) = "unused" /\ LifeOf(net'[n].state) = "live"
  BY <1>1, LifeValues DEF LiveState
<1>4. Phase(cr) \in {"managed", "deleting"} /\ cr # Gone /\ cr.managed
  BY DEF HoldInv, HasFinalizer, Phase
<1>5. [m \in Id |-> LifeOf(net[m].state)]'
        = [[m \in Id |-> LifeOf(net[m].state)] EXCEPT ![n] = "live"]
  BY <1>2, <1>3, LifeChange
<1> QED BY <1>1, <1>2, <1>3, <1>4, <1>5

LEMMA CreateFollows == ASSUME IInv, HoldInv, Create PROVE Follows
<1>1. PICK n \in Id : /\ Created(n)
                      /\ Return(OnSuccess(MergeOutput(desired, n, net'[n])), "none", "patch")
  BY DEF Create
<1>2. pc = "create" /\ UNCHANGED <<cr, desired, observed, drifts, lapses>>
  BY DEF Create, world
<1>3. /\ net[n].state = "UNUSED" /\ net'[n].state = "PENDING"
      /\ \A m \in Id \ {n} : net'[m] = net[m]
      /\ cr # Gone /\ cr.managed
  BY <1>1, <1>2, CreatedLife
<1>4. latest'.status.id = n /\ pc' = "patch"
  <2> DEFINE m == MergeOutput(desired, n, net'[n])
  <2>1. net'[n] \in Network
    BY <1>1, <1>2, CreatedNet
  <2>2. m \in Resource /\ m.status.id = n
    BY <1>2, <1>3, <2>1, MergeOutputType DEF IInv, StepInv, State, LiveState
  <2> HIDE DEF m
  <2>3. OnSuccess(m).status.id = n
    BY <2>2, OnSuccessType DEF Keeps
  <2> QED BY <1>1, <2>3 DEF Return, m
<1>5. HoldInv'
  BY <1>2, <1>3, <1>4 DEF HoldInv, HasFinalizer, ToBeDeleted
<1>6. Doomed' \subseteq Doomed
  BY <1>2, <1>3, <1>4 DEF Doomed, InService, Kept, HasFinalizer
<1>7. ExactInv => Refines
  <2> SUFFICES ASSUME ExactInv PROVE Refines
    OBVIOUS
  <2>1. ~InService(Record(cr)) /\ Record(cr) = desired.status.id
    BY <1>2, <1>3 DEF ExactInv, Record, HoldInv
  <2>2. ExactInv'
    <3>1. Record(cr) # Nil => Record(cr) \in Id
      BY ResourceUpdates DEF IInv, TypeOK, Record
    <3> QED BY <1>2, <1>3, <1>4, <2>1, <3>1 DEF ExactInv, InService
  <2>3. Life!Create(n)
    <3>1. ~Life!RecordLive
      BY <2>1, LiveMeansInService
    <3> QED BY <1>1, <1>2, <3>1, CreatedLife DEF Life!Create
  <2> QED BY <2>2, <2>3 DEF Refines, Life!Next
<1> QED BY <1>2, <1>5, <1>6, <1>7 DEF Follows, Owes

\* CreateError: the finalizer may go, since no network is in use as far as the
\* reconcile knows.
LEMMA CreateErrorFacts ==
    ASSUME IInv, HoldInv, pc = "create", NEW e \in Errors, CreateError(e)
    PROVE  /\ pc' = "status" /\ desired' = desired /\ latest'.status.id = desired.status.id
           /\ \/ SameStanding(cr', cr)
              \/ cr.deleting /\ cr' = Gone
              \/ /\ ~cr.deleting /\ cr' # Gone /\ ~cr'.managed /\ ~cr'.deleting
                 /\ cr'.status = cr.status
<1>1. cr \in Resource /\ cr # Gone /\ cr.managed /\ desired \in Resource
  BY DEF IInv, TypeOK, StepInv, HoldInv, HasFinalizer
<1>2. /\ pc' = "status" /\ desired' = desired /\ latest' = OnError(desired, e).res
  BY DEF CreateError, Return
<1>3. latest'.status.id = desired.status.id
  BY <1>1, <1>2, OnErrorType DEF Keeps
<1>4. PICK keep \in BOOLEAN :
          cr' = IF cr = Gone \/ (cr.deleting /\ ~keep) THEN Gone ELSE [cr EXCEPT !.managed = keep]
  BY DEF CreateError
<1>5. CASE cr.deleting /\ ~keep
  BY <1>1, <1>2, <1>3, <1>4, <1>5
<1>6. CASE ~(cr.deleting /\ ~keep)
  <2>1. cr' = [cr EXCEPT !.managed = keep]
    BY <1>1, <1>4, <1>6
  <2>2. /\ cr' \in Resource /\ cr'.status = cr.status /\ cr'.managed = keep
        /\ cr'.deleting = cr.deleting
    BY <1>1, <2>1 DEF Resource
  <2>3. cr' # Gone
    BY <2>2, NoneAssumption
  <2>4. keep \/ ~cr.deleting
    BY <1>6
  <2>5. CASE keep
    BY <1>1, <1>2, <1>3, <2>2, <2>3, <2>5 DEF SameStanding
  <2>6. CASE ~keep
    BY <1>2, <1>3, <2>2, <2>3, <2>4, <2>6
  <2> QED BY <2>5, <2>6
<1> QED BY <1>5, <1>6

LEMMA CreateErrorFollows == ASSUME IInv, HoldInv, CreateFail \/ CreateLost PROVE Follows
<1>1. PICK e \in Errors : CreateError(e)
  BY DEF CreateFail, CreateLost, Errors, TerminalErrors, ErrorCode
<1>2. pc = "create" /\ drifts' = drifts
  BY DEF CreateFail, CreateLost
<1>3. /\ pc' = "status" /\ desired' = desired /\ latest'.status.id = desired.status.id
      /\ \/ SameStanding(cr', cr)
         \/ cr.deleting /\ cr' = Gone
         \/ /\ ~cr.deleting /\ cr' # Gone /\ ~cr'.managed /\ ~cr'.deleting
            /\ cr'.status = cr.status
  BY <1>1, <1>2, CreateErrorFacts
<1>4. HoldInv'
  BY <1>2, <1>3 DEF HoldInv, HasFinalizer, ToBeDeleted, SameStanding
<1>5. ExactInv'
  BY <1>3 DEF ExactInv
<1>6. cr # Gone /\ cr.managed
  BY <1>2 DEF HoldInv, HasFinalizer
<1>7. ExactInv => \/ Phase(cr') = Phase(cr) /\ Record(cr') = Record(cr)
                  \/ Life!GiveUp
  <2> SUFFICES ASSUME ExactInv, ~SameStanding(cr', cr) PROVE Life!GiveUp
    BY StandingSeen
  <2>1. ~Life!RecordLive
    BY <1>2, LiveMeansInService DEF ExactInv
  <2>2. \/ Phase(cr) = "managed" /\ Phase(cr') = "unmanaged" /\ Record(cr') = Record(cr)
        \/ Phase(cr) = "deleting" /\ Phase(cr') = "gone" /\ Record(cr') = Nil
    BY <1>3, <1>6 DEF Phase, Record
  <2> QED BY <2>1, <2>2 DEF Life!GiveUp
<1>8. CASE CreateFail
  <2>1. UNCHANGED <<net, lapses>>
    BY <1>8 DEF CreateFail
  <2>2. Doomed' \subseteq Doomed
    BY <1>2, <2>1 DEF Doomed, InService, Kept
  <2>3. ExactInv => [Life!Next]_(Life!vars)
    <3>1. CASE Phase(cr') = Phase(cr) /\ Record(cr') = Record(cr)
      BY <1>2, <2>1, <3>1, QuietStep
    <3>2. CASE Life!GiveUp
      BY <1>2, <2>1, <3>2 DEF Life!Release, Life!Next
    <3> QED BY <1>7, <3>1, <3>2
  <2> QED BY <1>4, <1>5, <2>1, <2>2, <2>3 DEF Follows, Owes, Refines
<1>9. CASE CreateLost
  <2>1. PICK n \in Id : Created(n)
    BY <1>9 DEF CreateLost
  <2>2. lapses' = lapses + 1
    BY <1>9 DEF CreateLost
  <2>3. Doomed' \subseteq Doomed \cup {n}
    <3>1. \A m \in Id \ {n} : net'[m] = net[m]
      BY <1>2, <2>1, CreatedLife
    <3> SUFFICES ASSUME NEW m \in Id \ {n}, m \in Doomed' PROVE m \in Doomed
      BY DEF Doomed
    <3>2. net[m].mine /\ InService(m)
      BY <3>1 DEF Doomed, InService
    <3>3. ~Kept(m)
      BY <1>2 DEF Kept
    <3> QED BY <3>2, <3>3 DEF Doomed
  <2>4. ExactInv => Life!Create(n)
    <3> SUFFICES ASSUME ExactInv PROVE Life!Create(n)
      OBVIOUS
    <3>1. ~Life!RecordLive
      BY <1>2, LiveMeansInService DEF ExactInv
    <3> QED BY <1>2, <1>7, <2>1, <3>1, CreatedLife DEF Life!Create
  <2> QED BY <1>4, <1>5, <2>2, <2>3, <2>4 DEF Follows, Owes, Refines, Life!Next
<1> QED BY <1>8, <1>9

-----------------------------------------------------------------------------
(* Update.                                                                 *)

\* What sdkUpdate returns, at whichever call it ends, has the id of the
\* resource it was given.
LEMMA UpdateKeepsRecord ==
    ASSUME IInv, HoldInv, pc \in {"tag", "untag", "update"},
           NEW e \in {"Other", "ValidationException"}
    PROVE  /\ AfterSyncTags => \E r \in Resource, st \in {"update", "patch"} :
                  r.status.id = desired.status.id /\ Return(r, "none", st)
           /\ UpdateError(e) => \E r \in Resource, f \in Errors :
                  r.status.id = desired.status.id /\ Return(r, f, "status")
           /\ latest.status.id = desired.status.id
<1>1. /\ desired \in Resource /\ observed \in Resource /\ latest \in Resource
      /\ observed.status.id = desired.status.id /\ latest.status.id = desired.status.id
  BY DEF IInv, StepInv, HoldInv
<1>2. OnSuccess(desired) \in Resource /\ OnSuccess(desired).status.id = desired.status.id
  BY <1>1, OnSuccessType DEF Keeps
<1>3. /\ OnError(observed, e).res \in Resource /\ OnError(observed, e).err \in Errors
      /\ OnError(observed, e).res.status.id = desired.status.id
  BY <1>1, OnErrorType DEF Keeps, Errors, TerminalErrors
<1>4. AfterSyncTags => \E r \in Resource, st \in {"update", "patch"} :
                  r.status.id = desired.status.id /\ Return(r, "none", st)
  BY <1>1, <1>2 DEF AfterSyncTags
<1>5. UpdateError(e) => \E r \in Resource, f \in Errors : r.status.id = desired.status.id /\ Return(r, f, "status")
  BY <1>3 DEF UpdateError
<1> QED BY <1>1, <1>4, <1>5

LEMMA TagsFollows == ASSUME IInv, HoldInv, AddTags \/ RemoveTags PROVE Follows
<1>1. pc \in {"tag", "untag"} /\ UNCHANGED <<cr, desired, observed, drifts, lapses>>
  BY DEF AddTags, RemoveTags
<1>2. net' = net \/ \E t : net' = [net EXCEPT ![Target].tags = t]
  BY DEF AddTags, RemoveTags, Attempt
<1>3. \A m \in Id : net'[m].mine = net[m].mine /\ net'[m].state = net[m].state
  <2>1. CASE net' = net
    BY <2>1
  <2>2. CASE \E t : net' = [net EXCEPT ![Target].tags = t]
    <3>1. PICK t : net' = [net EXCEPT ![Target].tags = t]
      BY <2>2
    <3>2. PICK n \in Id : n = Target
      BY <1>1, UpdateReturns
    <3>3. net' = [net EXCEPT ![n] = [net[n] EXCEPT !.tags = t]] /\ net[n] \in Network
      BY <3>1, <3>2 DEF IInv, TypeOK
    <3>4. /\ [net[n] EXCEPT !.tags = t].mine = net[n].mine
          /\ [net[n] EXCEPT !.tags = t].state = net[n].state
      BY <3>3 DEF Network
    <3> QED BY <3>3, <3>4 DEF IInv, TypeOK
  <2> QED BY <1>2, <2>1, <2>2
<1>4. \/ Return(latest, "none", "untag") \/ AfterSyncTags
      \/ \E e \in {"Other", "ValidationException"} : UpdateError(e)
  BY DEF AddTags, RemoveTags, Attempt, ErrorCode
<1>5. PICK r \in Resource, e \in Errors, st \in {"untag", "update", "patch", "status"} :
          r.status.id = desired.status.id /\ Return(r, e, st)
  <2>1. "none" \in Errors /\ latest \in Resource
    BY <1>1 DEF Errors, IInv, StepInv
  <2> QED BY <1>1, <1>4, <2>1, UpdateKeepsRecord
<1> QED BY <1>1, <1>3, <1>5, ReturnFollows

LEMMA UpdateFollows == ASSUME IInv, HoldInv, Update PROVE Follows
<1>1. pc = "update" /\ UNCHANGED <<cr, desired, observed, drifts, lapses>>
  BY DEF Update
<1>2. PICK n \in Id : n = Target
  BY <1>1, UpdateReturns
<1> DEFINE made == /\ InService(n)
                   /\ \E d \in NewDescriptions(desired, n) :
                        net' = [net EXCEPT ![n].description = d, ![n].state = "UPDATING"]
<1>3. \/ made /\ Return(OnSuccess(MergeOutput(desired, n, net'[n])), "none", "patch")
      \/ (made \/ net' = net) /\ \E e \in {"Other", "ValidationException"} : UpdateError(e)
  BY <1>2 DEF Update, Attempt, ErrorCode
<1>4. ASSUME made
      PROVE  /\ \A m \in Id \ {n} : net'[m] = net[m]
             /\ net'[n] \in Network /\ net'[n].mine = net[n].mine
             /\ net[n].state \in LiveState /\ net'[n].state = "UPDATING"
  <2>1. PICK d \in NewDescriptions(desired, n) :
            net' = [net EXCEPT ![n].description = d, ![n].state = "UPDATING"]
    BY <1>4
  <2>2. net[n] \in Network /\ net \in [Id -> Network]
    BY DEF IInv, TypeOK
  <2>3. d \in Description \cup {Nil}
    BY <1>1, <2>2, ResourceUpdates DEF NewDescriptions, Network, IInv, StepInv
  <2>4. net' = [net EXCEPT ![n] = [net[n] EXCEPT !.description = d, !.state = "UPDATING"]]
    BY <2>1, <2>2
  <2>5. /\ [net[n] EXCEPT !.description = d, !.state = "UPDATING"] \in Network
        /\ [net[n] EXCEPT !.description = d, !.state = "UPDATING"].mine = net[n].mine
        /\ [net[n] EXCEPT !.description = d, !.state = "UPDATING"].state = "UPDATING"
    BY <2>2, <2>3 DEF Network, State, LiveState
  <2>6. net[n].state \in LiveState
    BY <1>4 DEF InService
  <2> QED BY <2>2, <2>4, <2>5, <2>6
<1> HIDE DEF made
<1>5. \A m \in Id : /\ net'[m].mine = net[m].mine
                    /\ \/ net'[m].state = net[m].state
                       \/ {net'[m].state, net[m].state} \subseteq LiveState
  BY <1>3, <1>4 DEF LiveState
<1>6. PICK r \in Resource, e \in Errors, st \in {"patch", "status"} : r.status.id = desired.status.id /\ Return(r, e, st)
  <2>1. CASE \E e \in {"Other", "ValidationException"} : UpdateError(e)
    BY <1>1, <2>1, UpdateKeepsRecord
  <2>2. CASE made /\ Return(OnSuccess(MergeOutput(desired, n, net'[n])), "none", "patch")
    <3> DEFINE m == MergeOutput(desired, n, net'[n])
    <3>1. m \in Resource /\ m.status.id = n
      BY <1>1, <1>4, <2>2, MergeOutputType DEF IInv, StepInv, State, LiveState
    <3> HIDE DEF m
    <3>2. OnSuccess(m) \in Resource /\ OnSuccess(m).status.id = desired.status.id
      BY <1>2, <3>1, OnSuccessType DEF Keeps, Target
    <3> QED BY <2>2, <3>2 DEF m, Errors
  <2> QED BY <1>3, <2>1, <2>2
<1> QED BY <1>1, <1>5, <1>6, ReturnFollows

-----------------------------------------------------------------------------
(* Writing back, deletion and crashes.                                     *)

LEMMA PatchSpecFollows == ASSUME IInv, IInv', HoldInv, PatchSpec \/ PatchSpecFail PROVE Follows
<1>1. /\ pc = "patch" /\ pc' = "status"
      /\ UNCHANGED <<net, desired, observed, latest, drifts, lapses>>
  BY DEF PatchSpec, PatchSpecFail, Return
<1>2. SameStanding(cr', cr)
  <2>1. cr \in Resource /\ cr # Gone
    BY <1>1 DEF IInv, TypeOK, HoldInv, HasFinalizer
  <2>2. CASE PatchSpecFail
    BY <2>1, <2>2 DEF PatchSpecFail, SameStanding
  <2>3. CASE PatchSpec
    <3>1. PICK d, t : cr' = [cr EXCEPT !.spec.description = d, !.spec.tags = t]
      BY <2>1, <2>3 DEF PatchSpec
    <3>2. cr'.managed = cr.managed /\ cr'.deleting = cr.deleting /\ cr'.status = cr.status
      BY <2>1, <3>1 DEF Resource
    <3>3. cr' # Gone
      <4>1. PICK d2 \in Description \cup {Nil}, t2 \in Tags :
                cr' = [cr EXCEPT !.spec.description = d2, !.spec.tags = t2]
        <5>1. /\ latest.spec.description \in Description \cup {Nil}
              /\ cr.spec.description \in Description \cup {Nil} /\ cr.spec.tags \in Tags
              /\ FilterSystemTags(latest).spec.tags \in Tags
          BY <1>1, <2>1, ResourceUpdates, FilterSystemTagsResult DEF IInv, StepInv
        <5> QED BY <2>1, <2>3, <5>1 DEF PatchSpec
      <4>2. cr' \in Resource
        BY <2>1, <4>1, SpecPatchType
      <4> QED BY <4>2, NoneAssumption
    <3> QED BY <2>1, <3>2, <3>3 DEF SameStanding
  <2> QED BY <2>2, <2>3
<1>3. HoldInv'
  BY <1>1, <1>2 DEF HoldInv, HasFinalizer, ToBeDeleted, SameStanding
<1>4. Doomed' \subseteq Doomed
  BY <1>1, <1>2 DEF Doomed, InService, Kept, HasFinalizer, SameStanding
<1>5. Phase(cr') = Phase(cr) /\ Record(cr') = Record(cr)
  BY <1>2, StandingSeen
<1>6. UNCHANGED Life!vars
  BY <1>1, <1>5, QuietStep
<1>7. ExactInv => ExactInv'
  BY <1>1, <1>5 DEF ExactInv, InService
<1> QED BY <1>1, <1>3, <1>4, <1>6, <1>7 DEF Follows, Owes, Refines

\* The status patch is where a new record is made.
LEMMA PatchStatusFollows == ASSUME IInv, HoldInv, PatchStatus PROVE Follows
<1>1. /\ pc = "status" /\ Forget /\ UNCHANGED <<net, drifts, lapses>>
      /\ latest \in Resource
  BY DEF PatchStatus, IInv, StepInv
<1>2. \/ cr = Gone /\ cr' = Gone
      \/ /\ cr # Gone /\ cr' # Gone /\ cr'.managed = cr.managed /\ cr'.deleting = cr.deleting
         /\ cr'.status.id = latest.status.id
  <2>1. CASE cr = Gone
    BY <2>1 DEF PatchStatus
  <2>2. CASE cr # Gone
    <3>1. PICK st \in ResourceStatus, c \in ConditionStatus :
              st = latest.status /\ c = SyncedStatus
      BY <1>1, ResourceUpdates DEF SyncedStatus, ConditionStatus
    <3>2. cr' = [cr EXCEPT !.status = [st EXCEPT !.conditions.synced = c]]
      BY <2>2, <3>1 DEF PatchStatus
    <3>3. /\ [st EXCEPT !.conditions.synced = c] \in ResourceStatus
          /\ [st EXCEPT !.conditions.synced = c].id = st.id
      BY DEF ResourceStatus, Conditions
    <3>4. /\ cr' \in Resource /\ cr'.managed = cr.managed /\ cr'.deleting = cr.deleting
          /\ cr'.status.id = st.id
      BY <2>2, <3>2, <3>3 DEF IInv, TypeOK, Resource
    <3> QED BY <2>2, <3>1, <3>4, NoneAssumption
  <2> QED BY <2>1, <2>2
<1>3. HoldInv'
  BY <1>1, <1>2 DEF HoldInv, HasFinalizer, ToBeDeleted, Forget
<1>4. Doomed' \subseteq Doomed
  BY <1>1, <1>2 DEF Doomed, InService, Kept, HasFinalizer, Forget
<1>5. ExactInv'
  BY <1>1 DEF ExactInv, Forget
<1>6. ExactInv => [Life!Next]_(Life!vars)
  <2> SUFFICES ASSUME ExactInv PROVE [Life!Next]_(Life!vars)
    OBVIOUS
  <2>1. Phase(cr') = Phase(cr)
    BY <1>2 DEF Phase
  <2>2. CASE Record(cr') = Record(cr)
    BY <1>1, <2>1, <2>2, QuietStep
  <2>3. CASE Record(cr') # Record(cr)
    <3> DEFINE n == latest.status.id
    <3>1. cr # Gone /\ Record(cr') = n /\ n # desired.status.id
      BY <1>1, <1>2, <2>3 DEF Record, HoldInv
    <3>2. n \in Id /\ net[n].state # "UNUSED" /\ cr.managed
      BY <1>1, <3>1 DEF HoldInv, HasFinalizer
    <3>3. n # Foreign
      BY <1>1 DEF IInv, ForeignInv, NotForeign
    <3>4. ~Life!RecordLive
      BY <1>1, <3>1, LiveMeansInService DEF ExactInv
    <3>5. Phase(cr) \in {"managed", "deleting"}
      BY <3>1, <3>2 DEF Phase
    <3>6. LifeOf(net[n].state) # "unused"
      <4>1. net[n].state \in State \cup {"DELETED"}
        BY <3>2 DEF IInv, TypeOK, Network
      <4> QED BY <4>1, LifeValues DEF State
    <3> HIDE DEF n
    <3>7. Life!Record(n)
      BY <1>1, <2>1, <3>1, <3>2, <3>3, <3>4, <3>5, <3>6 DEF Life!Record
    <3> QED BY <3>2, <3>7 DEF Life!Next
  <2> QED BY <2>2, <2>3
<1> QED BY <1>1, <1>3, <1>4, <1>5, <1>6 DEF Follows, Owes, Refines

\* DeleteGlobalNetwork ends the network on record, on the user's request.
LEMMA DeleteFollows == ASSUME IInv, HoldInv, Delete PROVE Follows
<1>1. /\ pc = "delete" /\ UNCHANGED <<cr, desired, observed, drifts, lapses>>
  BY DEF Delete
<1>2. PICK n \in Id : n = observed.status.id
  BY <1>1 DEF IInv, StepInv
<1>3. /\ cr # Gone /\ cr.managed /\ cr.deleting
      /\ n = desired.status.id /\ cr.status.id = n /\ latest.status.id = n
  BY <1>1, <1>2 DEF HoldInv, HasFinalizer, ToBeDeleted
<1>4. \A c \in ErrorCode : OnError(observed, c).res.status.id = n
  BY <1>1, <1>2, OnErrorType DEF IInv, StepInv, Errors, TerminalErrors, Keeps, ErrorCode
<1>5. CASE net' = net /\ \E c \in ErrorCode : DeleteError(c)
  <2>1. latest'.status.id = n /\ pc' = "status"
    BY <1>4, <1>5 DEF DeleteError, Return
  <2>2. HoldInv'
    BY <1>1, <1>3, <2>1 DEF HoldInv, HasFinalizer, ToBeDeleted
  <2>3. Doomed' \subseteq Doomed
    BY <1>1, <1>3, <1>5, <2>1 DEF Doomed, InService, Kept, HasFinalizer
  <2>4. UNCHANGED Life!vars
    BY <1>1, <1>5, QuietStep
  <2>5. ExactInv'
    BY <1>1, <1>3, <2>1 DEF ExactInv
  <2> QED BY <1>1, <2>2, <2>3, <2>4, <2>5 DEF Follows, Owes, Refines
<1>6. CASE /\ InService(n) /\ net' = [net EXCEPT ![n].state = "DELETING"]
           /\ \/ Return(latest, "none", "unmanage")
              \/ \E c \in ErrorCode : DeleteError(c)
  <2>1. /\ \A m \in Id \ {n} : net'[m] = net[m]
        /\ net'[n].state = "DELETING" /\ net[n].state \in LiveState
    BY <1>6 DEF InService, IInv, TypeOK, Network
  <2>2. latest'.status.id = n /\ pc' \in {"status", "unmanage"}
    BY <1>3, <1>4, <1>6 DEF DeleteError, Return
  <2>3. HoldInv'
    BY <1>1, <1>3, <2>2 DEF HoldInv, HasFinalizer, ToBeDeleted
  <2>4. Doomed' \subseteq Doomed
    BY <1>1, <1>3, <2>1 DEF Doomed, InService, Kept, HasFinalizer, LiveState
  <2>5. Life!End(n)
    <3>1. Phase(cr) = "deleting" /\ Record(cr) = n
      BY <1>3 DEF Phase, Record
    <3>2. LifeOf(net[n].state) = "live" /\ LifeOf(net'[n].state) = "leaving"
      BY <2>1, LifeValues
    <3> QED BY <1>1, <2>1, <3>1, <3>2, LifeChange DEF Life!End
  <2>6. ExactInv'
    BY <1>1, <1>3, <2>1, <2>2 DEF ExactInv, InService, Record, LiveState
  <2> QED BY <1>1, <2>3, <2>4, <2>5, <2>6 DEF Follows, Owes, Refines, Life!Next
<1> QED BY <1>2, <1>5, <1>6 DEF Delete, ErrorCode

LEMMA UnmanageFollows == ASSUME IInv, HoldInv, Unmanage \/ UnmanageFail PROVE Follows
<1>1. pc = "unmanage" /\ Forget /\ UNCHANGED <<net, drifts, lapses>>
  BY DEF Unmanage, UnmanageFail, world
<1>2. Doomed' \subseteq Doomed
  BY <1>1 DEF Doomed, InService, Kept
<1>3. CASE UnmanageFail
  <2>1. cr' = cr
    BY <1>3 DEF UnmanageFail
  <2> QED BY <1>1, <1>2, <2>1, ForgetFollows DEF Owes
<1>4. CASE Unmanage
  <2>1. cr' = Gone /\ cr # Gone /\ cr.deleting
    BY <1>1, <1>4 DEF Unmanage, HoldInv, ToBeDeleted
  <2>2. HoldInv' /\ ExactInv'
    BY <1>1, <2>1 DEF HoldInv, ExactInv, Forget, HasFinalizer, ToBeDeleted
  <2>3. ExactInv => Life!Release
    <3> SUFFICES ASSUME ExactInv PROVE Life!Release
      OBVIOUS
    <3>1. ~Life!RecordLive
      BY <1>1, LiveMeansInService DEF ExactInv
    <3>2. Phase(cr) = "deleting" /\ Phase(cr') = "gone" /\ Record(cr') = Nil
      BY <2>1 DEF Phase, Record
    <3> QED BY <1>1, <3>1, <3>2 DEF Life!Release, Life!GiveUp
  <2> QED BY <1>1, <1>2, <2>2, <2>3 DEF Follows, Owes, Refines, Life!Next
<1> QED BY <1>3, <1>4

\* A reconcile is lost with what it knew: at most the id of one new network.
LEMMA LostFollows == ASSUME IInv, HoldInv, PatchStatusFail \/ Crash PROVE Follows
<1>1. /\ pc # "idle" /\ Forget /\ UNCHANGED <<cr, net, drifts>>
      /\ lapses' = IF Unsaved THEN lapses + 1 ELSE lapses
  BY DEF PatchStatusFail, Crash
<1>2. Owes
  <2>1. CASE Unsaved
    <3>1. Doomed' \subseteq Doomed \cup {latest.status.id}
      BY <1>1 DEF Doomed, InService, Kept, HasFinalizer, Forget
    <3> QED BY <1>1, <2>1, <3>1 DEF Owes
  <2>2. CASE ~Unsaved
    <3>1. ASSUME NEW n \in Id, Kept(n) PROVE Kept(n)'
      <4>1. cr # Gone /\ cr.managed
        BY <3>1 DEF Kept, HasFinalizer
      <4>2. CASE pc \in {"patch", "status"}
        <5>1. latest \in Resource /\ latest.status.id = n
          BY <3>1, <4>2 DEF Kept, IInv, StepInv
        <5>2. latest # NoResource /\ n # Nil
          BY <5>1, NoneAssumption, NilAssumption
        <5>3. cr.status.id = n
          BY <2>2, <4>1, <5>1, <5>2 DEF Unsaved
        <5> QED BY <1>1, <4>1, <5>3 DEF Kept, HasFinalizer, Forget
      <4>3. CASE pc \notin {"patch", "status"}
        BY <1>1, <3>1, <4>1, <4>3 DEF Kept, HasFinalizer, Forget
      <4> QED BY <4>2, <4>3
    <3>2. Doomed' \subseteq Doomed
      BY <1>1, <3>1 DEF Doomed, InService
    <3> QED BY <1>1, <2>2, <3>2 DEF Owes
  <2> QED BY <2>1, <2>2
<1> QED BY <1>1, <1>2, ForgetFollows

-----------------------------------------------------------------------------
LEMMA StepFollows == IInv /\ HoldInv /\ [Next]_vars => IInv' /\ Follows
<1> SUFFICES ASSUME IInv, HoldInv, [Next]_vars PROVE IInv' /\ Follows
  OBVIOUS
<1>1. IInv'
  BY StepSafe DEF Safe
<1>2. CASE Reconcile
  BY <1>1, <1>2, StartFollows, ReadNotFoundFollows, ReadFoundFollows, ReadFailFollows,
     ManageFollows, CreateFollows, CreateErrorFollows, TagsFollows, UpdateFollows,
     PatchSpecFollows, PatchStatusFollows, DeleteFollows, UnmanageFollows, LostFollows
  DEF Reconcile
<1>3. CASE Resync \/ Crash
  BY <1>1, <1>3, StartFollows, LostFollows
<1>4. CASE EditSpec \/ DeleteCR
  BY <1>1, <1>4, UserFollows
<1>5. CASE \E n \in Id : Settle(n) \/ Drift(n) \/ AWSTag(n)
  BY <1>1, <1>5, SettleFollows, DriftFollows
<1>6. CASE UNCHANGED vars
  <2>1. UNCHANGED <<cr, net, locals, drifts, lapses>>
    BY <1>6 DEF vars, world
  <2>2. HoldInv' /\ Owes /\ (ExactInv => ExactInv')
    BY <2>1, WorldStep
  <2>3. UNCHANGED Life!vars
    BY <2>1, QuietStep
  <2> QED BY <1>1, <2>2, <2>3 DEF Follows, Refines
<1> QED BY <1>1, <1>2, <1>3, <1>4, <1>5, <1>6 DEF Next

LEMMA DoomedFinite == IsFiniteSet(Doomed) /\ Cardinality(Doomed) \in Nat
<1>1. IsFiniteSet(Doomed)
  BY IdAssumption, FS_Subset DEF Doomed
<1> QED BY <1>1, FS_CardinalityType

LEMMA DoomStep == TypeOK /\ DoomInv /\ Owes => DoomInv'
<1> SUFFICES ASSUME TypeOK, DoomInv, Owes PROVE DoomInv'
  OBVIOUS
<1> DEFINE D == Doomed
           E == Doomed'
<1>1. IsFiniteSet(D) /\ Cardinality(D) \in Nat
  BY DoomedFinite
<1>2. lapses \in Nat /\ Cardinality(D) <= lapses
  BY DEF TypeOK, DoomInv
<1>3. \/ lapses' = lapses /\ E \subseteq D
      \/ lapses' = lapses + 1 /\ \E x : E \subseteq D \cup {x}
  BY DEF Owes
<1>4. DoomInv' <=> Cardinality(E) <= lapses'
  BY DEF DoomInv
<1> HIDE DEF D, E
<1>5. CASE lapses' = lapses /\ E \subseteq D
  <2>1. Cardinality(E) \in Nat /\ Cardinality(E) <= Cardinality(D)
    BY <1>1, <1>5, FS_Subset, FS_CardinalityType
  <2> QED BY <1>1, <1>2, <1>4, <1>5, <2>1
<1>6. CASE lapses' = lapses + 1 /\ \E x : E \subseteq D \cup {x}
  <2>1. PICK x : E \subseteq D \cup {x}
    BY <1>6
  <2>2. /\ IsFiniteSet(D \cup {x}) /\ Cardinality(D \cup {x}) \in Nat
        /\ Cardinality(D \cup {x}) <= Cardinality(D) + 1
    <3>1. /\ IsFiniteSet(D \cup {x})
          /\ Cardinality(D \cup {x}) = IF x \in D THEN Cardinality(D) ELSE Cardinality(D) + 1
      BY <1>1, FS_AddElement
    <3> QED BY <1>1, <3>1
  <2>3. Cardinality(E) \in Nat /\ Cardinality(E) <= Cardinality(D \cup {x})
    BY <2>1, <2>2, FS_Subset, FS_CardinalityType
  <2> QED BY <1>1, <1>2, <1>4, <1>6, <2>2, <2>3
<1> QED BY <1>3, <1>5, <1>6

LEMMA InitHold == Init => HoldInv /\ ExactInv /\ DoomInv
<1> SUFFICES ASSUME Init PROVE HoldInv /\ ExactInv /\ DoomInv
  OBVIOUS
<1>1. HoldInv /\ ExactInv
  <2>1. cr # Gone => ~cr.deleting
    BY DEF Init
  <2> QED BY <2>1 DEF Init, HoldInv, ExactInv, ToBeDeleted
<1>2. Doomed = {}
  BY DEF Init, Doomed, InService, NoNetwork, LiveState
<1>3. Cardinality(Doomed) = 0
  BY <1>2, FS_EmptySet
<1> QED BY <1>1, <1>3 DEF DoomInv, Init

\* However often calls fail, answers and statuses are lost, the controller dies
\* and the user edits or deletes the resource, no more networks are left behind
\* than ids have been lost: on every other path the id that sdkCreate returned
\* is in the status or in the reconcile that will put it there, and it is given
\* up only for a network that is not in use any more.
THEOREM NoOrphanWithoutLapse == Spec => []OneLapseOneOrphan
<1>1. IInv /\ HoldInv /\ DoomInv /\ [Next]_vars => (IInv /\ HoldInv /\ DoomInv)'
  BY StepFollows, DoomStep DEF Follows, IInv
<1>2. IInv /\ DoomInv => OneLapseOneOrphan
  <2> SUFFICES ASSUME IInv, DoomInv PROVE OneLapseOneOrphan
    OBVIOUS
  <2> DEFINE O == {n \in Id : Orphan(n)}
  <2>1. O \subseteq Doomed
    <3> SUFFICES ASSUME NEW n \in Id, Orphan(n), Kept(n) PROVE FALSE
      BY DEF Doomed, Orphan
    <3>1. cr # Gone
      BY DEF Kept, HasFinalizer
    <3>2. CASE cr.status.id = n
      BY <3>1, <3>2 DEF Orphan
    <3>3. CASE pc \in {"patch", "status"} /\ latest.status.id = n
      BY <3>3, NoneAssumption DEF Orphan, IInv, StepInv
    <3> QED BY <3>2, <3>3 DEF Kept
  <2>2. Cardinality(O) \in Nat /\ Cardinality(O) <= Cardinality(Doomed)
    <3> HIDE DEF O
    <3> QED BY <2>1, DoomedFinite, FS_Subset, FS_CardinalityType
  <2>3. Cardinality(O) <= lapses
    <3> HIDE DEF O
    <3> QED BY <2>2, DoomedFinite DEF IInv, TypeOK, DoomInv
  <2> QED BY <2>3 DEF OneLapseOneOrphan
<1> QED BY InitIInv, InitHold, <1>1, <1>2, PTL DEF Spec

\* As long as the service does not hide a network that is there, every step of
\* the reconciler, with its finalizer, its record in the status, its retries and
\* its crashes, is one that Lifecycle allows or that it does not see.
THEOREM LifecycleImplemented ==
    ASSUME NoStaleReads PROVE Spec => ImplementsLifecycle
<1>1. IInv /\ HoldInv /\ ExactInv /\ [Next]_vars =>
          (IInv /\ HoldInv /\ ExactInv)' /\ [Life!Next]_(Life!vars)
  BY StepFollows DEF Follows, Refines
<1> QED BY InitIInv, InitHold, InitLife, <1>1, PTL DEF Spec, ImplementsLifecycle, Life!Spec

\* What Lifecycle says of a network on record: it has been created, and it is
\* not in use unless the resource has its finalizer.
Lives == [n \in Id |-> LifeOf(net[n].state)]
RecordInv ==
    Record(cr) # Nil =>
        /\ Lives[Record(cr)] # "unused"
        /\ Lives[Record(cr)] = "live" => Phase(cr) \in {"managed", "deleting"}
RecordHeld ==
    Record(cr) # Nil /\ Lives[Record(cr)] = "live" =>
        Record(cr)' = Record(cr) /\ Phase(cr)' \in {"managed", "deleting"}

LEMMA RecordLives ==
    ASSUME IInv PROVE InService(Record(cr)) <=> Record(cr) # Nil /\ Lives[Record(cr)] = "live"
<1>1. Record(cr) \in Id \cup {Nil}
  BY ResourceUpdates, NilAssumption DEF IInv, TypeOK, Record
<1>2. ASSUME NEW n \in Id PROVE Lives[n] = "live" <=> net[n].state \in LiveState
  <2>1. Lives[n] = LifeOf(net[n].state)
    BY DEF Lives
  <2>2. net[n].state \in State \cup {"UNUSED", "DELETED"}
    BY DEF IInv, TypeOK, Network
  <2> QED BY <2>1, <2>2, LifeLive
<1> QED BY <1>1, <1>2 DEF InService

\* A step of Lifecycle, in the state of the reconciler.
LEMMA LifeHolds ==
    ASSUME IInv, RecordInv, [Life!Next]_(Life!vars) PROVE RecordInv' /\ RecordHeld
<1> DEFINE p == Phase(cr)
           r == Record(cr)
<1>1. r \in Id \cup {Nil} /\ Nil \notin Id /\ DOMAIN Lives = Id
  BY ResourceUpdates, NilAssumption DEF IInv, TypeOK, Record, Lives
<1>2. CASE Life!Manage
  <2>1. p = "unmanaged" /\ p' = "managed" /\ r' = r /\ Lives' = Lives
    BY <1>2 DEF Life!Manage, Lives
  <2> QED BY <2>1 DEF RecordInv, RecordHeld
<1>3. CASE Life!Release
  <2>1. /\ ~(r # Nil /\ Lives[r] = "live") /\ Lives' = Lives
        /\ r' \in {r, Nil}
    BY <1>3 DEF Life!Release, Life!GiveUp, Life!RecordLive, Lives
  <2> QED BY <2>1 DEF RecordInv, RecordHeld
<1>4. CASE Life!Request
  <2>1. /\ Lives' = Lives
        /\ \/ p = "managed" /\ p' = "deleting" /\ r' = r
           \/ p = "unmanaged" /\ p' = "gone" /\ r' = Nil
    BY <1>4 DEF Life!Request, Lives
  <2> QED BY <2>1 DEF RecordInv, RecordHeld
<1>5. ASSUME NEW n \in Id, Life!Create(n) PROVE RecordInv' /\ RecordHeld
  <2>1. /\ ~(r # Nil /\ Lives[r] = "live") /\ Lives[n] = "unused"
        /\ Lives' = [Lives EXCEPT ![n] = "live"] /\ r' \in {r, Nil}
    BY <1>5 DEF Life!Create, Life!GiveUp, Life!RecordLive, Lives
  <2>2. r # Nil => Lives'[r] = Lives[r]
    BY <1>1, <2>1 DEF RecordInv
  <2> QED BY <2>1, <2>2 DEF RecordInv, RecordHeld
<1>6. ASSUME NEW n \in Id, Life!Record(n) PROVE RecordInv' /\ RecordHeld
  <2>1. /\ ~(r # Nil /\ Lives[r] = "live") /\ p \in {"managed", "deleting"} /\ p' = p
        /\ Lives[n] # "unused" /\ r' = n /\ Lives' = Lives
    BY <1>6 DEF Life!Record, Life!RecordLive, Lives
  <2> QED BY <2>1 DEF RecordInv, RecordHeld
<1>7. ASSUME NEW n \in Id, Life!End(n) \/ Life!Vanish(n) \/ Life!Interfere(n)
      PROVE  RecordInv' /\ RecordHeld
  <2>1. /\ p' = p /\ r' = r
        /\ \/ Lives' = Lives
           \/ \E x \in {"leaving", "gone"} : Lives' = [Lives EXCEPT ![n] = x]
    BY <1>7 DEF Life!End, Life!Vanish, Life!Interfere, Lives
  <2>2. r # Nil => Lives'[r] \in {Lives[r], "leaving", "gone"}
    BY <1>1, <2>1
  <2> QED BY <2>1, <2>2 DEF RecordInv, RecordHeld
<1>8. CASE UNCHANGED Life!vars
  <2>1. p' = p /\ r' = r /\ Lives' = Lives
    BY <1>8 DEF Life!vars, Lives
  <2> QED BY <2>1 DEF RecordInv, RecordHeld
<1> QED BY <1>2, <1>3, <1>4, <1>5, <1>6, <1>7, <1>8 DEF Life!Next

\* For as long as the network on record is in use, no step of the controller, of
\* a user or of the service makes the resource lose its record of it or its
\* finalizer: whatever fails, and whoever edits or deletes the resource while a
\* reconcile works on an older copy. It follows from what Lifecycle allows.
THEOREM RecordIsNotLost ==
    ASSUME NoStaleReads PROVE Spec => RecordedIsHeld
<1>1. Init => RecordInv
  BY NilAssumption, NoneAssumption DEF Init, RecordInv, Record, NoStatus
<1>2. IInv /\ HoldInv /\ ExactInv /\ RecordInv /\ [Next]_vars =>
          (IInv /\ HoldInv /\ ExactInv /\ RecordInv)' /\ RecordHeld
  BY StepFollows, LifeHolds DEF Follows, Refines
<1>3. IInv /\ HoldInv' /\ RecordHeld =>
          [InService(Record(cr)) =>
              cr' # Gone /\ cr'.managed /\ Record(cr') = Record(cr)]_vars
  <2> SUFFICES ASSUME IInv, HoldInv', RecordHeld, InService(Record(cr))
               PROVE  cr' # Gone /\ cr'.managed /\ Record(cr') = Record(cr)
    OBVIOUS
  <2>1. Record(cr)' = Record(cr) /\ Phase(cr)' \in {"managed", "deleting"}
    BY RecordLives DEF RecordHeld
  <2>2. cr' # Gone /\ (cr'.deleting \/ cr'.managed)
    BY <2>1 DEF Phase
  <2> QED BY <2>1, <2>2 DEF HoldInv, ToBeDeleted, Record
<1> QED BY InitIInv, InitHold, <1>1, <1>2, <1>3, PTL DEF Spec, RecordedIsHeld
=============================================================================
