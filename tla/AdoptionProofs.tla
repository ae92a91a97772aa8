--------------------------- MODULE AdoptionProofs ---------------------------
(***************************************************************************)
(* Adoption for every set of networks, specs and tags, and for any number  *)
(* of changes by others.                                                   *)
(***************************************************************************)
EXTENDS Adoption, ResourceManagerProofs

\* What the reconcile and the AdoptedResource's reconciler have in hand where.
StepInv ==
    /\ pc # "idle" => cr # NoResource /\ desired \in Resource
    /\ pc \in {"mark", "update"} => observed \in Resource
    /\ pc \in {"mark", "status"} => latest \in Resource
    /\ adopter \in {"write", "status"} => found \in Resource
    /\ adopter = "status" => cr # NoResource
    /\ adopter \in {"read", "write"} => cr = NoResource

\* The annotation is the guard of both reconcilers. One that the
\* AdoptedResource's reconciler writes has it from the first moment; one that
\* is reconciled without it has a name to be adopted by; and without the
\* annotation only adopt-or-create gets as far as a call that writes.
GuardInv ==
    /\ adopter # "done" => policy = "AdoptedResource"
    /\ policy = "AdoptedResource" /\ cr # NoResource => adopted
    /\ pc # "idle" /\ ~adopted => named # Nil
    /\ pc = "mark" => NeedsAdoption
    /\ pc = "create" => ~adopted /\ policy = "adopt-or-create"
    /\ pc = "update" => adopted \/ policy = "adopt-or-create"

\* A status that a reconcile has written, or is about to write, has an ARN
\* wherever it has an id. Only the id from an annotation comes without one.
ArnInv ==
    /\ cr # NoResource /\ cr.status.arn = Nil => cr.status.id = Nil
    /\ pc \in {"mark", "status"} => latest.status.arn # Nil
    /\ pc = "mark" => observed.status.arn # Nil
    /\ adopter \in {"write", "status"} => found.status.arn # Nil
    /\ pc \in {"read", "mark", "update"} /\ desired.status.arn = Nil =>
          \/ pc = "read" /\ desired.status.id = Nil
          \/ pc # "update" /\ policy = "adopt" /\ ~adopted
          \/ policy = "adopt-or-create" /\ cr.status.id = Nil

IInv == TypeOK /\ StepInv /\ GuardInv /\ ArnInv /\ AdoptionCreatesNothing

\* What every step does: keep the invariant, and only read where first contact does.
ReadsFirst == policy # "adopt-or-create" /\ (cr = NoResource \/ ~adopted) /\ drifts' = drifts
                  => net' = net
Safe == IInv' /\ ReadsFirst

-----------------------------------------------------------------------------
(* The operators keep the types.                                           *)

LEMMA Types ==
    ASSUME TypeOK
    PROVE  /\ cr \in Resource \cup {NoResource} /\ desired \in Resource \cup {NoResource}
           /\ observed \in Resource \cup {NoResource} /\ latest \in Resource \cup {NoResource}
           /\ found \in Resource \cup {NoResource}
BY DEF TypeOK

LEMMA BlankType ==
    ASSUME NEW s \in ResourceSpec
    PROVE  /\ Blank(s) \in Resource
           /\ Blank(s).status.id = Nil /\ Blank(s).status.arn = Nil
BY NoStatusType DEF Blank, Resource

\* The resource gets the id it is given; its ARN is the one it had.
LEMMA WithId ==
    ASSUME NEW r \in Resource, NEW n \in Id \cup {Nil}
    PROVE  LET a == [r EXCEPT !.status.id = n] IN
           a \in Resource /\ a.status.id = n /\ a.status.arn = r.status.arn
BY DEF Resource, ResourceStatus

LEMMA WithStatus ==
    ASSUME NEW r \in Resource, NEW st \in ResourceStatus
    PROVE  LET a == [r EXCEPT !.status = st] IN a \in Resource /\ a.status = st
BY DEF Resource

\* What ReadOne, Create and Update make of the API's answer.
LEMMA MergedType ==
    ASSUME NEW r \in Resource, NEW n \in Id, NEW out \in Network
    PROVE  LET m == OnSuccess(MergeOutput(r, n, out)) IN
           m \in Resource /\ m.status.id = n /\ m.status.arn = n /\ m.status.arn # Nil
<1> DEFINE m == MergeOutput(r, n, out)
<1>1. m \in Resource /\ m.status.id = n /\ m.status.arn = n
  BY MergeOutputResult DEF Network
<1> HIDE DEF m
<1>2. OnSuccess(m) \in Resource /\ Keeps(OnSuccess(m), m)
  BY <1>1, OnSuccessType
<1> QED BY <1>1, <1>2, NilAssumption DEF Keeps, m

-----------------------------------------------------------------------------
LEMMA InitIInv == Init => IInv
<1> SUFFICES ASSUME Init PROVE IInv
  OBVIOUS
<1>1. PICK s \in UserSpec :
          cr = IF policy = "AdoptedResource" THEN NoResource ELSE Blank(s)
  BY DEF Init
<1>2. Blank(s) \in Resource /\ Blank(s).status.id = Nil
  BY BlankType, SpecAssumption
<1>3. PICK t \in ExistingSpec :
          net = [n \in Id |-> IF n = Existing
                              THEN [description |-> t.description, tags |-> t.tags,
                                    state |-> "AVAILABLE"]
                              ELSE NoResource]
  BY DEF Init
<1>4. [description |-> t.description, tags |-> t.tags, state |-> "AVAILABLE"] \in Network
  BY SpecAssumption DEF Network, ResourceSpec, State, LiveState
<1>5. net \in [Id -> Network \cup {NoResource}] /\ AdoptionCreatesNothing
  BY <1>3, <1>4 DEF AdoptionCreatesNothing, Exists
<1>6. TypeOK
  BY <1>1, <1>2, <1>5 DEF Init, TypeOK
<1>7. cr # NoResource => cr.status.id = Nil /\ policy # "AdoptedResource"
  BY <1>1, <1>2
<1>8. StepInv /\ GuardInv /\ ArnInv
  BY <1>1, <1>7 DEF Init, StepInv, GuardInv, ArnInv
<1> QED BY <1>5, <1>6, <1>8 DEF IInv

-----------------------------------------------------------------------------
(* The reconciler of the GlobalNetwork.                                    *)

\* Steps that end a reconcile: they write the resource with a status that has
\* an ARN or not at all.
LEMMA ForgetStep ==
    ASSUME IInv, Forget, cr # NoResource, cr' \in Resource,
           cr'.status.arn = Nil => cr'.status.id = Nil,
           UNCHANGED <<policy, named, adopted, net, adopter, found, stopped, drifts>>
    PROVE  Safe
<1>1. TypeOK'
  BY DEF IInv, TypeOK, Forget
<1>2. cr' # NoResource
  BY NoResourceAssumption
<1>3. StepInv' /\ GuardInv' /\ ArnInv'
  BY <1>2 DEF IInv, StepInv, GuardInv, ArnInv, Forget
<1> QED BY <1>1, <1>3 DEF IInv, Safe, ReadsFirst, AdoptionCreatesNothing, Exists

LEMMA StartStep == ASSUME IInv, StartReconcile PROVE Safe
<1> DEFINE x == IF NeedsAdoption THEN PopulateResourceFromAnnotation(cr, named)
                ELSE [res |-> cr, err |-> "none"]
<1>1. /\ pc = "idle" /\ cr # NoResource /\ cr \in Resource /\ named \in Id \cup {Nil}
      /\ UNCHANGED <<policy, named, adopted, net, adopter, found, drifts>>
  BY DEF StartReconcile, IInv, TypeOK
<1>2. /\ x.res \in Resource /\ x.res.status.arn = cr.status.arn
      /\ x.err = "none" => IF NeedsAdoption THEN named # Nil
                           ELSE x.res.status.id = cr.status.id
      /\ x.err \in Errors
  BY <1>1, WithId DEF PopulateResourceFromAnnotation, Errors, TerminalErrors
<1>3. \/ /\ x.err = "none" /\ desired' = EnsureTags(x.res, DefaultTags) /\ pc' = "read"
         /\ UNCHANGED <<cr, observed, latest, stopped>>
      \/ /\ x.err # "none" /\ cr' = OnError(cr, x.err).res /\ stopped' = TRUE
         /\ UNCHANGED locals
  BY DEF StartReconcile
<1> HIDE DEF x
<1>4. CASE x.err = "none"
  <2>1. desired' \in Resource /\ desired'.status = x.res.status
    BY <1>2, <1>3, <1>4, TagOperations, DefaultTagsAssumption
  <2>2. UNCHANGED <<cr, observed, latest, stopped>> /\ pc' = "read"
    BY <1>3, <1>4
  <2>3. TypeOK'
    BY <1>1, <2>1, <2>2 DEF IInv, TypeOK
  <2>4. StepInv'
    BY <1>1, <2>1, <2>2 DEF IInv, StepInv
  <2>5. GuardInv'
    <3>1. ~adopted => NeedsAdoption
      BY <1>1, PolicyAssumption DEF IInv, GuardInv, NeedsAdoption, TypeOK
    <3> QED BY <1>1, <1>2, <1>4, <2>2, <3>1 DEF IInv, GuardInv
  <2>6. ArnInv'
    <3>1. desired'.status.arn = Nil =>
            \/ desired'.status.id = Nil
            \/ policy = "adopt" /\ ~adopted
            \/ policy = "adopt-or-create" /\ cr.status.id = Nil
      BY <1>1, <1>2, <1>4, <2>1 DEF IInv, ArnInv, NeedsAdoption
    <3> QED BY <1>1, <2>2, <3>1 DEF IInv, ArnInv
  <2> QED BY <1>1, <2>3, <2>4, <2>5, <2>6 DEF IInv, Safe, ReadsFirst, AdoptionCreatesNothing, Exists
<1>5. CASE x.err # "none"
  <2>1. cr' \in Resource /\ cr'.status.arn = cr.status.arn /\ cr'.status.id = cr.status.id
    BY <1>1, <1>2, <1>3, <1>5, OnErrorType DEF Keeps
  <2>2. stopped' = TRUE /\ UNCHANGED locals /\ cr' # NoResource
    BY <1>3, <1>5, <2>1, NoResourceAssumption
  <2>3. TypeOK'
    BY <1>1, <2>1, <2>2 DEF IInv, TypeOK, locals
  <2>4. StepInv' /\ GuardInv' /\ ArnInv'
    BY <1>1, <2>1, <2>2 DEF IInv, StepInv, GuardInv, ArnInv, locals
  <2> QED BY <1>1, <2>3, <2>4 DEF IInv, Safe, ReadsFirst, AdoptionCreatesNothing, Exists
<1> QED BY <1>4, <1>5

LEMMA ReadNotFoundStep == ASSUME IInv, ReadNotFound PROVE Safe
<1>1. /\ pc = "read" /\ cr # NoResource /\ cr \in Resource
      /\ UNCHANGED <<policy, named, adopted, cr, net, adopter, found, stopped, drifts>>
  BY DEF ReadNotFound, IInv, TypeOK, StepInv
<1>2. CASE Forget
  BY <1>1, <1>2, ForgetStep DEF IInv, ArnInv
<1>3. CASE ~(adopted \/ policy = "adopt") /\ pc' = "create" /\ UNCHANGED <<desired, observed, latest>>
  <2>1. policy = "adopt-or-create" /\ ~adopted
    BY <1>1, <1>3, PolicyAssumption DEF IInv, TypeOK, GuardInv
  <2>2. TypeOK'
    BY <1>1, <1>3 DEF IInv, TypeOK
  <2>3. StepInv'
    BY <1>1, <1>3 DEF IInv, StepInv
  <2>4. GuardInv'
    BY <1>1, <1>3, <2>1 DEF IInv, GuardInv
  <2>5. ArnInv'
    BY <1>1, <1>3 DEF IInv, ArnInv
  <2> QED BY <1>1, <2>2, <2>3, <2>4, <2>5 DEF IInv, Safe, ReadsFirst, AdoptionCreatesNothing, Exists
<1> QED BY <1>2, <1>3 DEF ReadNotFound

LEMMA ReadFoundStep == ASSUME IInv, ReadFound PROVE Safe
<1> DEFINE seen(n) == OnSuccess(MergeOutput(desired, n, net[n]))
           want(n) == MirrorAWSTags(desired, seen(n))
<1>1. /\ pc = "read" /\ desired.status.id # Nil
      /\ UNCHANGED <<policy, named, adopted, cr, net, adopter, found, stopped, drifts>>
  BY DEF ReadFound, RequiredFieldsMissing
<1>2. desired \in Resource /\ cr # NoResource
  BY <1>1 DEF IInv, StepInv
<1>3. PICK n \in Described(desired.status.id) :
          /\ desired' = want(n) /\ observed' = seen(n) /\ latest' = seen(n)
          /\ pc' = IF NeedsAdoption THEN "mark"
                   ELSE IF NewResourceDelta(want(n), seen(n)) # {} THEN "update" ELSE "status"
  BY DEF ReadFound
<1>4. n \in Id /\ net[n] \in Network
  BY DEF Described, Exists, IInv, TypeOK
<1>5. seen(n) \in Resource /\ seen(n).status.arn # Nil
  BY <1>2, <1>4, MergedType
<1>6. want(n) \in Resource /\ want(n).status = desired.status
  <2> HIDE DEF seen
  <2> QED BY <1>2, <1>5, MirrorAWSTagsResult DEF SameButTags
<1> HIDE DEF seen, want
<1>7. /\ desired' \in Resource /\ observed' \in Resource /\ latest' \in Resource
      /\ desired'.status = desired.status /\ observed'.status.arn # Nil /\ latest'.status.arn # Nil
      /\ IF NeedsAdoption THEN pc' = "mark" ELSE pc' \in {"update", "status"}
  BY <1>3, <1>5, <1>6
<1>8. TypeOK'
  BY <1>1, <1>7 DEF IInv, TypeOK
<1>9. StepInv'
  BY <1>1, <1>2, <1>7 DEF IInv, StepInv
<1>10. GuardInv'
  <2>1. ~adopted => NeedsAdoption
    BY <1>1, <1>2, PolicyAssumption DEF IInv, GuardInv, NeedsAdoption, TypeOK
  <2> QED BY <1>1, <1>2, <1>7, <2>1 DEF IInv, GuardInv, NeedsAdoption
<1>11. ArnInv'
  BY <1>1, <1>2, <1>7 DEF IInv, ArnInv, NeedsAdoption
<1> QED BY <1>1, <1>8, <1>9, <1>10, <1>11 DEF IInv, Safe, ReadsFirst, AdoptionCreatesNothing, Exists

LEMMA MarkStep == ASSUME IInv, Mark PROVE Safe
<1>1. /\ pc = "mark" /\ adopted' = TRUE
      /\ UNCHANGED <<policy, named, net, observed, latest, adopter, found, stopped, drifts>>
  BY DEF Mark, MarkAdopted
<1>2. /\ cr \in Resource /\ cr # NoResource /\ desired \in Resource
      /\ observed \in Resource /\ latest \in Resource
      /\ observed.status.arn # Nil /\ latest.status.arn # Nil
      /\ policy \in {"adopt", "adopt-or-create"}
  BY <1>1 DEF IInv, TypeOK, StepInv, GuardInv, ArnInv, NeedsAdoption
<1>3. /\ cr' \in Resource /\ cr'.status = cr.status /\ desired' \in Resource
      /\ \/ policy = "adopt" /\ pc' = "status"
         \/ /\ policy = "adopt-or-create" /\ pc' \in {"update", "status"}
            /\ desired'.status \in {desired.status, observed.status}
  <2>1. CASE policy = "adopt"
    <3>1. /\ cr' = [cr EXCEPT !.managed = TRUE, !.spec = FilterSystemTags(observed).spec]
          /\ desired' = [desired EXCEPT !.managed = TRUE, !.spec = observed.spec]
          /\ pc' = "status"
      BY <2>1 DEF Mark
    <3>2. FilterSystemTags(observed).spec \in ResourceSpec /\ observed.spec \in ResourceSpec
      BY <1>2, FilterSystemTagsResult DEF Resource
    <3>3. ASSUME NEW r \in Resource, NEW sp \in ResourceSpec
          PROVE  /\ [r EXCEPT !.managed = TRUE, !.spec = sp] \in Resource
                 /\ [r EXCEPT !.managed = TRUE, !.spec = sp].status = r.status
      BY DEF Resource
    <3> QED BY <1>2, <2>1, <3>1, <3>2, <3>3
  <2>2. CASE policy = "adopt-or-create"
    <3>1. PICK st \in {desired.status, observed.status} :
              desired' = [desired EXCEPT !.managed = TRUE, !.status = st]
      BY <2>2 DEF Mark
    <3>2. st \in ResourceStatus
      BY <1>2 DEF Resource
    <3>3. desired' \in Resource /\ desired'.status = st
      BY <1>2, <3>1, <3>2 DEF Resource
    <3>4. cr' = [cr EXCEPT !.managed = TRUE] /\ pc' \in {"update", "status"}
      BY <2>2 DEF Mark
    <3>5. cr' \in Resource /\ cr'.status = cr.status
      BY <1>2, <3>4, ResourceUpdates
    <3> QED BY <2>2, <3>1, <3>3, <3>4, <3>5
  <2> QED BY <1>2, <2>1, <2>2
<1>4. TypeOK'
  BY <1>1, <1>3 DEF IInv, TypeOK
<1>5. cr' # NoResource
  BY <1>3, NoResourceAssumption
<1>6. StepInv'
  BY <1>1, <1>2, <1>3, <1>5 DEF IInv, StepInv
<1>7. GuardInv'
  BY <1>1, <1>2, <1>3, <1>5 DEF IInv, GuardInv
<1>8. ArnInv'
  <2>1. pc' = "update" /\ desired'.status.arn = Nil =>
            policy = "adopt-or-create" /\ cr'.status.id = Nil
    BY <1>1, <1>2, <1>3 DEF IInv, ArnInv
  <2> QED BY <1>1, <1>2, <1>3, <1>5, <2>1 DEF IInv, ArnInv
<1> QED BY <1>1, <1>4, <1>6, <1>7, <1>8 DEF IInv, Safe, ReadsFirst, AdoptionCreatesNothing, Exists

\* The steps that change a network and go on to write the status.
LEMMA WriteStep ==
    ASSUME IInv, pc \in {"update", "create"}, pc' = "status",
           UNCHANGED <<policy, named, adopted, desired, observed, adopter, found, stopped, drifts>>,
           net' \in [Id -> Network \cup {NoResource}], AdoptionCreatesNothing',
           latest' \in Resource, latest'.status.arn # Nil,
           cr' \in Resource, cr'.status = cr.status
    PROVE  Safe
<1>1. cr # NoResource /\ cr' # NoResource
  BY NoResourceAssumption DEF IInv, StepInv
<1>2. TypeOK'
  BY DEF IInv, TypeOK
<1>3. StepInv'
  BY <1>1 DEF IInv, StepInv
<1>4. GuardInv'
  BY <1>1 DEF IInv, GuardInv
<1>5. ArnInv'
  BY <1>1 DEF IInv, ArnInv
<1>6. ReadsFirst
  BY <1>1 DEF ReadsFirst, IInv, GuardInv
<1> QED BY <1>2, <1>3, <1>4, <1>5, <1>6 DEF Safe, IInv

LEMMA UpdateStep == ASSUME IInv, Update PROVE Safe
<1> DEFINE n == desired.status.id
           d == desired.spec
           o == observed.spec
           panics == Dereferences /\ ARN(desired) = Nil
           tagged == UntagResource(TagResource(net[n].tags, ToAdd(d.tags, o.tags)),
                                   ToDelete(d.tags, o.tags))
           tagsOnly == NewResourceDelta(desired, observed) = {"Spec.Tags"}
           described == IF tagsOnly \/ d.description = Nil THEN net[n].description
                        ELSE d.description
<1>1. /\ pc = "update"
      /\ UNCHANGED <<policy, named, adopted, cr, adopter, found, stopped, drifts>>
  BY DEF Update
<1>2. cr \in Resource /\ cr # NoResource /\ desired \in Resource /\ observed \in Resource
  BY <1>1 DEF IInv, TypeOK, StepInv
<1>3. CASE Forget /\ UNCHANGED net
  BY <1>1, <1>2, <1>3, ForgetStep DEF IInv, ArnInv
<1>4. CASE /\ ~panics /\ Exists(n)
           /\ net' = [net EXCEPT ![n].tags = tagged, ![n].description = described]
           /\ latest' = IF tagsOnly THEN OnSuccess(desired)
                        ELSE OnSuccess(MergeOutput(desired, n, net'[n]))
           /\ pc' = "status" /\ UNCHANGED <<desired, observed>>
  <2>1. n \in Id /\ net[n] \in Network
    BY <1>2, <1>4, ResourceUpdates DEF Exists, IInv, TypeOK
  <2>2. tagged \in Tags
    <3>1. net[n].tags \in Tags /\ d.tags \in Tags /\ o.tags \in Tags
      BY <1>2, <2>1, ResourceUpdates DEF Network
    <3> QED BY <3>1, TagsTypes
  <2>3. described \in Description \cup {Nil}
    BY <1>2, <2>1, ResourceUpdates DEF Network
  <2>4. ~tagsOnly \/ desired.status.arn # Nil
    BY <1>1, <1>4 DEF Dereferences, ARN
  <2>5. PICK m \in Id, t \in Tags, x \in Description \cup {Nil} :
            m = n /\ t = tagged /\ x = described
    BY <2>1, <2>2, <2>3
  <2>6. net' = [net EXCEPT ![m].tags = t, ![m].description = x] /\ net[m] # NoResource
    BY <1>4, <2>5 DEF Exists
  <2>7. net' \in [Id -> Network \cup {NoResource}] /\ net'[m] \in Network
        /\ \A i \in Id \ {m} : net'[i] = net[i]
    BY <2>1, <2>5, <2>6 DEF IInv, TypeOK, Network
  <2>8. AdoptionCreatesNothing'
    BY <1>1, <2>5, <2>6, <2>7 DEF IInv, AdoptionCreatesNothing, Exists
  <2>9. latest' \in Resource /\ latest'.status.arn # Nil
    <3>1. OnSuccess(desired) \in Resource /\ OnSuccess(desired).status.arn = desired.status.arn
      BY <1>2, OnSuccessType DEF Keeps
    <3>2. /\ OnSuccess(MergeOutput(desired, m, net'[m])) \in Resource
          /\ OnSuccess(MergeOutput(desired, m, net'[m])).status.arn # Nil
      BY <1>2, <2>7, MergedType
    <3> QED BY <1>4, <2>4, <2>5, <3>1, <3>2
  <2> QED BY <1>1, <1>2, <1>4, <2>7, <2>8, <2>9, WriteStep
<1> QED BY <1>3, <1>4 DEF Update

\* Only adopt-or-create comes here, and only with a name.
LEMMA CreateStep == ASSUME IInv, Create PROVE Safe
<1> DEFINE new == [description |-> desired.spec.description, tags |-> desired.spec.tags,
                   state |-> "AVAILABLE"]
<1>1. /\ pc = "create" /\ pc' = "status" /\ cr' = [cr EXCEPT !.managed = TRUE]
      /\ UNCHANGED <<policy, named, adopted, desired, observed, adopter, found, stopped, drifts>>
  BY DEF Create
<1>2. /\ cr \in Resource /\ desired \in Resource
      /\ policy = "adopt-or-create" /\ named # Nil
  BY <1>1 DEF IInv, TypeOK, StepInv, GuardInv
<1>3. PICK n \in Id : /\ net' = [net EXCEPT ![n] = new]
                      /\ latest' = OnSuccess(MergeOutput(desired, n, net'[n]))
  BY DEF Create
<1>4. new \in Network
  BY <1>2, ResourceUpdates DEF Network, State, LiveState
<1> HIDE DEF new
<1>5. net' \in [Id -> Network \cup {NoResource}] /\ net'[n] \in Network
  BY <1>3, <1>4 DEF IInv, TypeOK
<1>6. latest' \in Resource /\ latest'.status.arn # Nil
  BY <1>2, <1>3, <1>5, MergedType
<1>7. cr' \in Resource /\ cr'.status = cr.status
  BY <1>1, <1>2, ResourceUpdates
<1>8. AdoptionCreatesNothing'
  BY <1>1, <1>2 DEF AdoptionCreatesNothing
<1> QED BY <1>1, <1>5, <1>6, <1>7, <1>8, WriteStep

LEMMA PatchStatusStep == ASSUME IInv, PatchStatus PROVE Safe
<1> DEFINE before == FilterSystemTags(desired).spec
           after == FilterSystemTags(latest).spec
           d == IF after.description # before.description THEN after.description
                ELSE cr.spec.description
<1>0. PICK reordered \in BOOLEAN :
          cr' = [cr EXCEPT !.status = latest.status, !.spec.description = d,
                           !.spec.tags = IF after.tags # before.tags \/ reordered
                                         THEN after.tags ELSE cr.spec.tags]
  BY DEF PatchStatus
<1> DEFINE t == IF after.tags # before.tags \/ reordered THEN after.tags ELSE cr.spec.tags
<1>1. /\ pc = "status" /\ Forget
      /\ UNCHANGED <<policy, named, adopted, net, adopter, found, stopped, drifts>>
      /\ cr' = [cr EXCEPT !.status = latest.status, !.spec.description = d, !.spec.tags = t]
  BY <1>0 DEF PatchStatus
<1>2. /\ cr \in Resource /\ cr # NoResource /\ latest \in Resource
      /\ latest.status.arn # Nil /\ latest.status \in ResourceStatus
  BY <1>1, ResourceUpdates DEF IInv, TypeOK, StepInv, ArnInv
<1>3. d \in Description \cup {Nil} /\ t \in Tags
  BY <1>2, FilterSystemTagsResult, ResourceUpdates
<1> HIDE DEF d, t
<1>4. cr' \in Resource /\ cr'.status = latest.status
  BY <1>1, <1>2, <1>3 DEF Resource, ResourceSpec
<1> QED BY <1>1, <1>2, <1>4, ForgetStep

-----------------------------------------------------------------------------
(* The reconciler of the AdoptedResource, and others.                      *)

LEMMA AdopterStep == ASSUME IInv, Adopter PROVE Safe
<1>1. CASE AdopterRead
  <2> DEFINE x == SetIdentifiers(Blank(EmptySpec), named)
  <2>1. /\ adopter = "read" /\ adopter' \in {"write", "done"}
        /\ UNCHANGED <<policy, named, adopted, cr, net, locals, stopped, drifts>>
    BY <1>1 DEF AdopterRead
  <2>2. EmptySpec \in ResourceSpec
    BY TagsTypes DEF EmptySpec, ResourceSpec, NoTags, Tags
  <2>3. x.res \in Resource
    BY <2>2, BlankType, WithId DEF SetIdentifiers, IInv, TypeOK
  <2>4. \/ adopter' = "done" /\ found' = found
        \/ /\ adopter' = "write" /\ Exists(named)
           /\ found' = OnSuccess(MergeOutput(x.res, named, net[named]))
    BY <1>1 DEF AdopterRead
  <2> HIDE DEF x
  <2>5. adopter' = "write" => found' \in Resource /\ found'.status.arn # Nil
    <3> SUFFICES ASSUME adopter' = "write" PROVE found' \in Resource /\ found'.status.arn # Nil
      OBVIOUS
    <3>1. named \in Id /\ net[named] \in Network
      BY <2>4 DEF Exists, IInv, TypeOK
    <3> QED BY <2>3, <2>4, <3>1, MergedType
  <2>6. TypeOK'
    BY <2>1, <2>4, <2>5 DEF IInv, TypeOK, locals
  <2>7. StepInv' /\ GuardInv' /\ ArnInv'
    BY <2>1, <2>5 DEF IInv, StepInv, GuardInv, ArnInv, locals, NeedsAdoption
  <2> QED BY <2>1, <2>6, <2>7 DEF IInv, Safe, ReadsFirst, AdoptionCreatesNothing, Exists
<1>2. CASE AdopterWrite
  <2>1. /\ adopter = "write" /\ adopter' = "status" /\ adopted' = TRUE
        /\ cr' = [found EXCEPT !.managed = TRUE, !.status = NoStatus]
        /\ UNCHANGED <<policy, named, net, locals, found, stopped, drifts>>
    BY <1>2 DEF AdopterWrite, MarkAdopted
  <2>2. found \in Resource /\ cr = NoResource
    BY <2>1 DEF IInv, StepInv
  <2>3. cr' \in Resource /\ cr'.status.id = Nil
    BY <2>1, <2>2, NoStatusType DEF Resource
  <2>4. cr' # NoResource /\ pc = "idle"
    BY <2>2, <2>3, NoResourceAssumption DEF IInv, StepInv
  <2>5. TypeOK'
    BY <2>1, <2>3 DEF IInv, TypeOK, locals
  <2>6. StepInv' /\ GuardInv' /\ ArnInv'
    BY <2>1, <2>2, <2>3, <2>4 DEF IInv, StepInv, GuardInv, ArnInv, locals
  <2> QED BY <2>1, <2>5, <2>6 DEF IInv, Safe, ReadsFirst, AdoptionCreatesNothing, Exists
<1>3. CASE AdopterStatus
  <2>1. /\ adopter = "status" /\ adopter' = "done"
        /\ cr' = [cr EXCEPT !.status = found.status]
        /\ UNCHANGED <<policy, named, adopted, net, locals, found, stopped, drifts>>
    BY <1>3 DEF AdopterStatus
  <2>2. /\ found \in Resource /\ found.status.arn # Nil /\ cr # NoResource /\ cr \in Resource
        /\ policy = "AdoptedResource"
    BY <2>1 DEF IInv, TypeOK, StepInv, GuardInv, ArnInv
  <2>3. cr' \in Resource /\ cr'.status = found.status
    BY <2>1, <2>2, WithStatus, ResourceUpdates
  <2>4. cr' # NoResource
    BY <2>3, NoResourceAssumption
  <2>5. TypeOK'
    BY <2>1, <2>3 DEF IInv, TypeOK, locals
  <2>6. StepInv' /\ GuardInv' /\ ArnInv'
    BY <2>1, <2>2, <2>3, <2>4 DEF IInv, StepInv, GuardInv, ArnInv, locals, NeedsAdoption
  <2> QED BY <2>1, <2>5, <2>6 DEF IInv, Safe, ReadsFirst, AdoptionCreatesNothing, Exists
<1> QED BY <1>1, <1>2, <1>3 DEF Adopter

LEMMA DriftStep == ASSUME IInv, NEW n \in Id, Drift(n) PROVE Safe
<1>1. /\ drifts' = drifts + 1 /\ net[n] \in Network /\ n # Nil /\ net[n] # NoResource
      /\ UNCHANGED <<policy, named, adopted, cr, locals, adopter, found, stopped>>
  BY DEF Drift, Exists, IInv, TypeOK
<1>2. /\ net' \in [Id -> Network \cup {NoResource}]
      /\ \A m \in Id \ {n} : net'[m] = net[m]
  <2>1. PICK x \in Network \cup {NoResource} : net' = [net EXCEPT ![n] = x]
    <3>1. CASE \E d \in Description : net' = [net EXCEPT ![n].description = d]
      <4>1. PICK d \in Description : net' = [net EXCEPT ![n].description = d]
        BY <3>1
      <4>2. [net[n] EXCEPT !.description = d] \in Network
        BY <1>1 DEF Network
      <4> QED BY <4>1, <4>2
    <3>2. CASE \E k \in TagKey, v \in TagValue : net' = [net EXCEPT ![n].tags[k] = v]
      <4>1. PICK k \in TagKey, v \in TagValue : net' = [net EXCEPT ![n].tags[k] = v]
        BY <3>2
      <4>2. [net[n].tags EXCEPT ![k] = v] \in Tags
        BY <1>1 DEF Network, Tags
      <4>3. [net[n] EXCEPT !.tags[k] = v] \in Network
        BY <1>1, <4>2 DEF Network
      <4> QED BY <4>1, <4>3
    <3>3. CASE net' = [net EXCEPT ![n] = NoResource]
      BY <3>3
    <3> QED BY <3>1, <3>2, <3>3 DEF Drift
  <2> QED BY <2>1 DEF IInv, TypeOK
<1>3. AdoptionCreatesNothing'
  BY <1>1, <1>2 DEF IInv, AdoptionCreatesNothing, Exists
<1>4. TypeOK'
  BY <1>1, <1>2 DEF IInv, TypeOK, locals
<1>5. StepInv' /\ GuardInv' /\ ArnInv'
  BY <1>1 DEF IInv, StepInv, GuardInv, ArnInv, locals, NeedsAdoption
<1>6. ReadsFirst
  BY <1>1 DEF ReadsFirst, IInv, TypeOK
<1> QED BY <1>3, <1>4, <1>5, <1>6 DEF IInv, Safe

-----------------------------------------------------------------------------
LEMMA StepSafe == IInv /\ [Next]_vars => Safe
<1> SUFFICES ASSUME IInv, [Next]_vars PROVE Safe
  OBVIOUS
<1>1. CASE Reconcile
  BY <1>1, StartStep, ReadNotFoundStep, ReadFoundStep, MarkStep, UpdateStep, CreateStep,
     PatchStatusStep DEF Reconcile
<1>2. CASE Adopter \/ \E n \in Id : Drift(n)
  BY <1>2, AdopterStep, DriftStep
<1>3. CASE UNCHANGED vars
  BY <1>3 DEF vars, locals, Safe, IInv, TypeOK, StepInv, GuardInv, ArnInv, NeedsAdoption,
              AdoptionCreatesNothing, Exists, ReadsFirst
<1> QED BY <1>1, <1>2, <1>3 DEF Next

LEMMA IInvHolds == Spec => []IInv
<1>1. IInv /\ [Next]_vars => IInv'
  BY StepSafe DEF Safe
<1> QED BY InitIInv, <1>1, PTL DEF Spec

\* The resource, the networks and what both reconcilers hold keep their types,
\* for all networks, specs and tags.
THEOREM TypeCorrect == Spec => []TypeOK
<1>1. IInv => TypeOK
  BY DEF IInv
<1> QED BY IInvHolds, <1>1, PTL

\* To adopt never means to create, for any number of networks and whatever
\* others do to them: PopulateResourceFromAnnotation stops a resource without
\* a name before its first read, and the annotation of MarkAdopted a resource
\* whose status is not there yet.
THEOREM AdoptingIsNotCreating == Spec => []AdoptionCreatesNothing
<1>1. IInv => AdoptionCreatesNothing
  BY DEF IInv
<1> QED BY IInvHolds, <1>1, PTL

\* sdkUpdate meets a nil ARN only in the reconcile that adopts with
\* adopt-or-create, before any status has been written: every status that is
\* written has an ARN with its id.
THEOREM NilArnIsAdopting == Spec => []NilArnOnlyWhileAdopting
<1>1. IInv => NilArnOnlyWhileAdopting
  BY DEF IInv, ArnInv, NilArnOnlyWhileAdopting, Dereferences, ARN
<1> QED BY IInvHolds, <1>1, PTL

\* Until it has been adopted, no step of either reconciler changes a network:
\* the call that writes comes only after the annotation, or with adopt-or-create.
THEOREM FirstContactOnlyReads == Spec => FirstContactReads
<1>1. IInv /\ [Next]_vars =>
        [policy # "adopt-or-create" /\ (cr = NoResource \/ ~adopted) /\ drifts' = drifts =>
            net' = net]_vars
  BY StepSafe DEF Safe, ReadsFirst
<1> QED BY IInvHolds, <1>1, PTL DEF Spec, FirstContactReads
=============================================================================
