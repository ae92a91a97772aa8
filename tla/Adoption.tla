------------------------------ MODULE Adoption ------------------------------
(***************************************************************************)
(* Taking over a network that exists already. There are three ways:        *)
(*   "adopt"            an annotation names the network; the resource takes *)
(*                      its spec from it;                                  *)
(*   "adopt-or-create"  the same, but the network takes the resource's     *)
(*                      spec, and is created when there is none;           *)
(*   "AdoptedResource"  another resource names the network and a reconciler*)
(*                      of its own writes the GlobalNetwork, object first  *)
(*                      and status second, while the GlobalNetwork's own   *)
(*                      reconciler is already looking at it.               *)
(* The order of the calls is the ACK runtime's and external; what they do  *)
(* to the resource is resource.go, descriptor.go, manager.go and sdk.go.   *)
(* Faults of API calls are in Reconciler.                                  *)
(***************************************************************************)
EXTENDS ResourceManager, Naturals

CONSTANTS UserSpec,      \* the specs a user writes
          DefaultTags,   \* the tags of the --resource-tags flag
          Policies,      \* the ways of adoption that are used
          Existing,      \* a network that was there before the resource
          ExistingSpec,  \* what it may look like
          NoResource,
          MaxDrifts      \* bound: changes of networks by others

ASSUME PolicyAssumption == Policies \subseteq {"adopt", "adopt-or-create", "AdoptedResource"}
ASSUME DefaultTagsAssumption == DefaultTags \in Tags
ASSUME SpecAssumption == UserSpec \cup ExistingSpec \subseteq ResourceSpec
ASSUME ExistingAssumption == Existing \in Id
ASSUME DriftAssumption == MaxDrifts \in Nat
ASSUME NoResourceAssumption == NoResource \notin Resource

VARIABLES policy,    \* the way of adoption
          named,     \* the id in the annotation or AdoptedResource; Nil: missing
          adopted,   \* the annotation that MarkAdopted sets
          cr,        \* the GlobalNetwork in the API server, or NoResource
          net,       \* the networks; NoResource for an id that is not in use
          pc, desired, observed, latest,   \* the reconcile under way
          adopter,   \* the step of the AdoptedResource's reconciler
          found,     \* local to it: the resource it will write
          stopped,   \* a terminal error: no more reconciles
          drifts     \* changes by others so far

locals == <<pc, desired, observed, latest>>
vars == <<policy, named, adopted, cr, net, locals, adopter, found, stopped, drifts>>

Network == [description : Description \cup {Nil}, tags : Tags, state : State]

Blank(spec) == [spec |-> spec, status |-> NoStatus, managed |-> FALSE, deleting |-> FALSE]
EmptySpec == [description |-> Nil, tags |-> NoTags]

Exists(n) == n # Nil /\ net[n] # NoResource

\* DescribeGlobalNetworks: a nil id asks for every network of the account.
Described(id) == {n \in Id : Exists(n) /\ (id = Nil \/ n = id)}

Init ==
    /\ policy \in Policies
    /\ named \in Id \cup {Nil}
    /\ adopted = FALSE
    /\ \E s \in UserSpec :
         cr = IF policy = "AdoptedResource" THEN NoResource ELSE Blank(s)
    /\ \E s \in ExistingSpec :
         net = [n \in Id |-> IF n = Existing
                             THEN [description |-> s.description, tags |-> s.tags,
                                   state |-> "AVAILABLE"]
                             ELSE NoResource]
    /\ pc = "idle" /\ desired = NoResource /\ observed = NoResource /\ latest = NoResource
    /\ adopter = IF policy = "AdoptedResource" THEN "read" ELSE "done"
    /\ found = NoResource
    /\ stopped = FALSE /\ drifts = 0

-----------------------------------------------------------------------------
(* What resource.go does with the identifiers it is given.                 *)

\* PopulateResourceFromAnnotation and SetIdentifiers put the id into the status
\* and nothing else; without one they return an error. An empty string is no
\* id to SetIdentifiers, so Nil stands for it in an AdoptedResource; to
\* PopulateResourceFromAnnotation, which only asks for the key, it is an id
\* like others that no network has.
PopulatedAnyway(r, id) == [res |-> [r EXCEPT !.status.id = id], err |-> "none"]
PopulateResourceFromAnnotation(r, id) ==
    IF id = Nil THEN [res |-> r, err |-> "TerminalError"]
    ELSE [res |-> [r EXCEPT !.status.id = id], err |-> "none"]

SetIdentifiers(r, id) ==
    IF id = Nil THEN [res |-> r, err |-> "Other"]
    ELSE [res |-> [r EXCEPT !.status.id = id], err |-> "none"]

\* MarkAdopted, in the patch that also stores the finalizer.
MarkNothing == adopted' = adopted
MarkAdopted == adopted' = TRUE

\* resourceIdentifiers.ARN
ARN(r) == r.status.arn

NeedsAdoption == policy \in {"adopt", "adopt-or-create"} /\ ~adopted

-----------------------------------------------------------------------------
(* The reconciler of the GlobalNetwork.                                    *)

Forget == pc' = "idle" /\ desired' = NoResource /\ observed' = NoResource
          /\ latest' = NoResource

\* A resource that needs adoption gets its id from the annotation.
StartReconcile ==
    LET x == IF NeedsAdoption THEN PopulateResourceFromAnnotation(cr, named)
             ELSE [res |-> cr, err |-> "none"]
    IN  /\ pc = "idle" /\ cr # NoResource /\ ~stopped
        /\ \/ /\ x.err = "none"
              /\ desired' = EnsureTags(x.res, DefaultTags)
              /\ pc' = "read"
              /\ UNCHANGED <<cr, observed, latest, stopped>>
           \/ /\ x.err # "none"
              /\ cr' = OnError(cr, x.err).res
              /\ stopped' = TRUE
              /\ UNCHANGED locals
        /\ UNCHANGED <<policy, named, adopted, net, adopter, found, drifts>>

\* Without a network, a resource that is or should be adopted is left alone;
\* any other gets one created.
ReadNotFound ==
    /\ pc = "read"
    /\ RequiredFieldsMissing(desired) \/ Described(desired.status.id) = {}
    /\ \/ (adopted \/ policy = "adopt") /\ Forget
       \/ ~(adopted \/ policy = "adopt") /\ pc' = "create"
          /\ UNCHANGED <<desired, observed, latest>>
    /\ UNCHANGED <<policy, named, adopted, cr, net, adopter, found, stopped, drifts>>

\* The resource takes the network's spec ("adopt"), the network the resource's
\* ("adopt-or-create" and all later reconciles).
ReadFound ==
    /\ pc = "read" /\ ~RequiredFieldsMissing(desired)
    /\ \E n \in Described(desired.status.id) :
        LET seen == OnSuccess(MergeOutput(desired, n, net[n]))
            want == MirrorAWSTags(desired, seen)
        IN  /\ desired' = want /\ observed' = seen /\ latest' = seen
            /\ pc' = IF NeedsAdoption THEN "mark"
                     ELSE IF NewResourceDelta(want, seen) # {} THEN "update" ELSE "status"
    /\ UNCHANGED <<policy, named, adopted, cr, net, adopter, found, stopped, drifts>>

\* MarkManaged and MarkAdopted, and the patch of metadata and spec. Whether the
\* desired resource gets the observed status before Update is up to the runtime.
Mark ==
    /\ pc = "mark"
    /\ MarkAdopted
    /\ \/ /\ policy = "adopt"
          /\ cr' = [cr EXCEPT !.managed = TRUE, !.spec = FilterSystemTags(observed).spec]
          /\ desired' = [desired EXCEPT !.managed = TRUE, !.spec = observed.spec]
          /\ pc' = "status"
       \/ /\ policy = "adopt-or-create"
          /\ cr' = [cr EXCEPT !.managed = TRUE]
          /\ \E status \in {desired.status, observed.status} :
               desired' = [desired EXCEPT !.managed = TRUE, !.status = status]
          /\ pc' = IF NewResourceDelta(desired, observed) # {} THEN "update" ELSE "status"
    /\ UNCHANGED <<policy, named, net, observed, latest, adopter, found, stopped, drifts>>

\* sdkUpdate dereferences the ARN of the desired resource when tags differ.
Dereferences == pc = "update" /\ "Spec.Tags" \in NewResourceDelta(desired, observed)

\* sdkUpdate: SyncTags with the ARN, then UpdateGlobalNetwork unless only tags
\* differ. A worker that meets a nil ARN panics, is recovered, and tries again.
Update ==
    LET n == desired.status.id
        d == desired.spec
        o == observed.spec
        panics == Dereferences /\ ARN(desired) = Nil
        tagged == UntagResource(TagResource(net[n].tags, ToAdd(d.tags, o.tags)),
                                ToDelete(d.tags, o.tags))
        tagsOnly == NewResourceDelta(desired, observed) = {"Spec.Tags"}
    IN  /\ pc = "update"
        /\ \/ (panics \/ ~Exists(n)) /\ Forget /\ UNCHANGED net
           \/ /\ ~panics /\ Exists(n)
              /\ net' = [net EXCEPT
                           ![n].tags = tagged,
                           ![n].description =
                               IF tagsOnly \/ d.description = Nil THEN @ ELSE d.description]
              /\ latest' = IF tagsOnly THEN OnSuccess(desired)
                           ELSE OnSuccess(MergeOutput(desired, n, net'[n]))
              /\ pc' = "status"
              /\ UNCHANGED <<desired, observed>>
        /\ UNCHANGED <<policy, named, adopted, cr, adopter, found, stopped, drifts>>

\* The finalizer is stored before the network is created.
Create ==
    /\ pc = "create"
    /\ cr' = [cr EXCEPT !.managed = TRUE]
    /\ \E n \in Id \ {Existing} :
        /\ ~Exists(n)
        /\ net' = [net EXCEPT ![n] = [description |-> desired.spec.description,
                                      tags |-> desired.spec.tags,
                                      state |-> "AVAILABLE"]]
        /\ latest' = OnSuccess(MergeOutput(desired, n, net'[n]))
    /\ pc' = "status"
    /\ UNCHANGED <<policy, named, adopted, desired, observed, adopter, found, stopped, drifts>>

\* The patches of spec and status that end a reconcile. The spec is written
\* where the returned resource differs from the desired one; a list of tags in
\* another order is written along with anything else that differs.
PatchStatus ==
    LET before == FilterSystemTags(desired).spec
        after  == FilterSystemTags(latest).spec
    IN
    /\ pc = "status"
    /\ \E reordered \in BOOLEAN :
        /\ reordered => NewResourceDelta(desired, latest) # {}
        /\ cr' = [cr EXCEPT
                    !.status = latest.status,
                    !.spec.description =
                        IF after.description # before.description THEN after.description ELSE @,
                    !.spec.tags = IF after.tags # before.tags \/ reordered THEN after.tags ELSE @]
    /\ Forget
    /\ UNCHANGED <<policy, named, adopted, net, adopter, found, stopped, drifts>>

-----------------------------------------------------------------------------
(* The reconciler of the AdoptedResource.                                  *)

AdopterRead ==
    LET x == SetIdentifiers(Blank(EmptySpec), named) IN
    /\ adopter = "read"
    /\ \/ /\ x.err = "none" /\ Exists(named)
          /\ found' = OnSuccess(MergeOutput(x.res, named, net[named]))
          /\ adopter' = "write"
       \/ /\ x.err # "none" \/ ~Exists(named)
          /\ adopter' = "done"
          /\ UNCHANGED found
    /\ UNCHANGED <<policy, named, adopted, cr, net, locals, stopped, drifts>>

\* The object is created with its annotation and finalizer and without status.
AdopterWrite ==
    /\ adopter = "write"
    /\ cr' = [found EXCEPT !.managed = TRUE, !.status = NoStatus]
    /\ MarkAdopted
    /\ adopter' = "status"
    /\ UNCHANGED <<policy, named, net, locals, found, stopped, drifts>>

AdopterStatus ==
    /\ adopter = "status"
    /\ cr' = [cr EXCEPT !.status = found.status]
    /\ adopter' = "done"
    /\ UNCHANGED <<policy, named, adopted, net, locals, found, stopped, drifts>>

-----------------------------------------------------------------------------
\* Somebody changes the description or a tag of a network, or deletes it.
Drift(n) ==
    /\ drifts < MaxDrifts /\ Exists(n)
    /\ \/ \E d \in Description \ {net[n].description} :
            net' = [net EXCEPT ![n].description = d]
       \/ \E k \in TagKey, v \in TagValue :
            net[n].tags[k] # v /\ net' = [net EXCEPT ![n].tags[k] = v]
       \/ net' = [net EXCEPT ![n] = NoResource]
    /\ drifts' = drifts + 1
    /\ UNCHANGED <<policy, named, adopted, cr, locals, adopter, found, stopped>>

Reconcile == StartReconcile \/ ReadNotFound \/ ReadFound \/ Mark \/ Update \/ Create
             \/ PatchStatus
Adopter == AdopterRead \/ AdopterWrite \/ AdopterStatus

Next == Reconcile \/ Adopter \/ \E n \in Id : Drift(n)

Fairness == WF_vars(Reconcile) /\ WF_vars(Adopter)

Spec == Init /\ [][Next]_vars /\ Fairness

-----------------------------------------------------------------------------
\* Every variable has its type.
TypeOK ==
    /\ policy \in Policies /\ named \in Id \cup {Nil}
    /\ adopted \in BOOLEAN /\ stopped \in BOOLEAN
    /\ net \in [Id -> Network \cup {NoResource}]
    /\ {cr, desired, observed, latest, found} \subseteq Resource \cup {NoResource}
    /\ pc \in {"idle", "read", "mark", "update", "create", "status"}
    /\ adopter \in {"read", "write", "status", "done"}
    /\ drifts \in Nat

\* sdkUpdate (sdk.go:308) dereferences the ARN without a check. ReadOne puts it
\* into the observed resource, not into the desired one: it can be nil only in
\* the reconcile that adopts with adopt-or-create, in which the status comes
\* from the annotation, and never in any later one.
NilArnOnlyWhileAdopting ==
    Dereferences /\ ARN(desired) = Nil =>
        policy = "adopt-or-create" /\ cr.status.id = Nil

\* PopulateResourceFromAnnotation and MarkAdopted: to adopt never means to
\* create. Only adopt-or-create makes a network, and only one that a name was
\* given for; nor does a resource that its AdoptedResource has written without
\* a status as yet get a network of its own.
AdoptionCreatesNothing ==
    (\E n \in Id \ {Existing} : Exists(n)) => policy = "adopt-or-create" /\ named # Nil

\* Until it has been adopted a network is as others have made it: with "adopt"
\* and with an AdoptedResource the first contact only reads.
FirstContactReads ==
    [][policy # "adopt-or-create" /\ (cr = NoResource \/ ~adopted) /\ drifts' = drifts =>
        net' = net]_vars

\* With "adopt" and with an AdoptedResource the network and the resource agree
\* in the end, the controller's tags included, unless there is no such network.
\* (With adopt-or-create that depends on what the runtime makes of the ARN.)
Agree ==
    /\ net[named].description = cr.spec.description
    /\ \A k \in TagKey \ AWSKey :
         net[named].tags[k] = EnsureTags(cr, DefaultTags).spec.tags[k]
AdoptionSettles ==
    policy # "adopt-or-create" =>
        <>[](~Exists(named) \/ (cr # NoResource /\ cr.status.id = named /\ Agree))
=============================================================================
