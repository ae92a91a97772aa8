------------------------ MODULE ResourceManagerProofs ------------------------
(***************************************************************************)
(* What the operations of the resource manager do to a resource and, which *)
(* matters as much to the reconcilers built on them, what they leave alone. *)
(***************************************************************************)
EXTENDS ResourceManager, TLAPS

\* The parts of a resource that conditions and status defaults do not touch.
Keeps(a, r) ==
    /\ a.spec = r.spec /\ a.managed = r.managed /\ a.deleting = r.deleting
    /\ a.status.id = r.status.id /\ a.status.arn = r.status.arn
    /\ a.status.state = r.status.state

LEMMA TagsTypes ==
    ASSUME NEW a \in Tags, NEW b \in Tags, NEW K
    PROVE  /\ Merge(a, b) \in Tags /\ SyncAWSTags(a, b) \in Tags
           /\ IgnoreSystemTags(a) \in Tags /\ ToAdd(a, b) \in Tags
           /\ TagResource(a, b) \in Tags /\ UntagResource(a, K) \in Tags
           /\ NoTags \in Tags
BY DEF Tags, Merge, SyncAWSTags, IgnoreSystemTags, ToAdd, TagResource, UntagResource, NoTags

\* SyncTags and the two calls it makes turn the existing tags into the desired
\* ones, and after TagResource alone nothing is missing but the removals.
THEOREM SyncTagsReachesDesired ==
    ASSUME NEW d \in Tags, NEW o \in Tags
    PROVE  /\ UntagResource(TagResource(o, ToAdd(d, o)), ToDelete(d, o)) = d
           /\ ToDelete(d, o) = {} => TagResource(o, ToAdd(d, o)) = d
           /\ ToAdd(d, o) = NoTags => TagResource(o, ToAdd(d, o)) = o
<1> USE DEF Tags, TagResource, UntagResource, ToAdd, ToDelete, KeysOf, Merge, NoTags
<1>1. ASSUME NEW k \in TagKey
      PROVE  /\ UntagResource(TagResource(o, ToAdd(d, o)), ToDelete(d, o))[k] = d[k]
             /\ ToDelete(d, o) = {} => TagResource(o, ToAdd(d, o))[k] = d[k]
             /\ ToAdd(d, o) = NoTags => TagResource(o, ToAdd(d, o))[k] = o[k]
  <2>1. CASE d[k] = o[k]
    BY <2>1
  <2>2. CASE d[k] # o[k] /\ d[k] # Absent
    BY <2>2
  <2>3. CASE d[k] # o[k] /\ d[k] = Absent
    BY <2>3
  <2> QED BY <2>1, <2>2, <2>3
<1>2. /\ UntagResource(TagResource(o, ToAdd(d, o)), ToDelete(d, o)) \in Tags
      /\ TagResource(o, ToAdd(d, o)) \in Tags
  BY TagsTypes
<1> HIDE DEF TagResource, UntagResource, ToAdd, ToDelete, KeysOf, Merge, NoTags
<1> QED BY <1>1, <1>2

\* Once the "aws:" tags are mirrored, SyncTags removes none of them, and the
\* only ones it would add are those that the service rejects.
THEOREM MirroredTagsAreKept ==
    ASSUME NEW d \in Tags, NEW o \in Tags, NEW t \in Tags,
           \A k \in AWSKey : o[k] # Absent => d[k] = o[k]
    PROVE  /\ \A k \in AWSKey : UntagResource(t, ToDelete(d, o))[k] = t[k]
           /\ KeysOf(ToAdd(d, o)) \cap AWSKey = {} =>
                 \A k \in AWSKey : TagResource(t, ToAdd(d, o))[k] = t[k]
           /\ KeysOf(ToAdd(d, o)) \cap AWSKey # {} =>
                 \E k \in AWSKey : o[k] = Absent /\ d[k] # Absent
BY TagKeyAssumption DEF Tags, TagResource, UntagResource, ToAdd, ToDelete, KeysOf, Merge

LEMMA MirrorResult ==
    ASSUME NEW d \in Tags, NEW o \in Tags
    PROVE  /\ \A k \in TagKey \ AWSKey : SyncAWSTags(d, o)[k] = d[k]
           /\ \A k \in AWSKey : SyncAWSTags(d, o)[k] = IF o[k] # Absent THEN o[k] ELSE d[k]
BY TagKeyAssumption DEF SyncAWSTags

LEMMA NoStatusType ==
    NoStatus \in ResourceStatus /\ NoStatus.id = Nil /\ NoStatus.arn = Nil
BY DEF NoStatus, ResourceStatus, NoConditions, Conditions, ConditionStatus

LEMMA StatusDefaultsType ==
    ASSUME NEW r \in Resource
    PROVE  SetStatusDefaults(r) \in Resource /\ Keeps(SetStatusDefaults(r), r)
BY DEF SetStatusDefaults, Resource, ResourceStatus, Keeps

\* sdkFind, sdkCreate and sdkUpdate return a resource with the network's id and
\* ARN, description and tags, and with the metadata it had.
LEMMA MergeOutputResult ==
    ASSUME NEW r \in Resource, NEW n \in Id, NEW out,
           out.description \in Description \cup {Nil}, out.tags \in Tags, out.state \in State
    PROVE  LET m == MergeOutput(r, n, out) IN
           /\ m \in Resource /\ m.status.id = n /\ m.status.arn = n
           /\ m.status.state = out.state
           /\ m.spec.description = out.description /\ m.spec.tags = out.tags
           /\ m.managed = r.managed /\ m.deleting = r.deleting
<1> DEFINE m == [r EXCEPT !.spec.description = out.description,
                          !.spec.tags = out.tags,
                          !.status.id = n,
                          !.status.arn = n,
                          !.status.state = out.state]
<1>1. m \in Resource
  BY DEF Resource, ResourceSpec, ResourceStatus
<1>2. /\ m.status.id = n /\ m.status.arn = n /\ m.status.state = out.state
      /\ m.spec.description = out.description /\ m.spec.tags = out.tags
      /\ m.managed = r.managed /\ m.deleting = r.deleting
  BY DEF Resource, ResourceSpec, ResourceStatus
<1>3. MergeOutput(r, n, out) = SetStatusDefaults(m)
  BY DEF MergeOutput
<1> HIDE DEF m
<1> QED BY <1>1, <1>2, <1>3, StatusDefaultsType DEF Keeps

LEMMA UpdateConditionsType ==
    ASSUME NEW r \in Resource, NEW e
    PROVE  UpdateConditions(r, e) \in Resource /\ Keeps(UpdateConditions(r, e), r)
<1> DEFINE c == r.status.conditions
           m == [r EXCEPT !.status.conditions = UpdatedConditions(c, e)]
<1>1. UpdatedConditions(c, e) \in Conditions
  BY DEF UpdatedConditions, Conditions, ConditionStatus, Resource, ResourceStatus
<1>2. m \in Resource /\ Keeps(m, r)
  <2> HIDE DEF c
  <2> QED BY <1>1 DEF Resource, ResourceStatus, Keeps
<1>3. UpdateConditions(r, e) = SetStatusDefaults(m)
  BY DEF UpdateConditions
<1> HIDE DEF m
<1> QED BY <1>2, <1>3, StatusDefaultsType DEF Keeps

\* What onError and onSuccess return is the resource they were given, with
\* other conditions and an owner.
LEMMA OnErrorType ==
    ASSUME NEW r \in Resource, NEW e \in Errors
    PROVE  /\ OnError(r, e).res \in Resource /\ OnError(r, e).err \in Errors
           /\ Keeps(OnError(r, e).res, r)
BY UpdateConditionsType DEF OnError, Errors

LEMMA OnSuccessType ==
    ASSUME NEW r \in Resource
    PROVE  OnSuccess(r) \in Resource /\ Keeps(OnSuccess(r), r)
BY UpdateConditionsType DEF OnSuccess, Keeps

\* SetStatusDefaults leaves the conditions that were set before it.
LEMMA ConditionsSet ==
    ASSUME NEW r \in Resource, NEW u
    PROVE  SetStatusDefaults([r EXCEPT !.status.conditions = u]).status.conditions = u
<1> DEFINE a == [r.status EXCEPT !.conditions = u]
           b == [r EXCEPT !.status = a]
           w == IF a.owner = Nil THEN Account ELSE a.owner
<1>1. r.status \in ResourceStatus
  BY DEF Resource
<1>2. a.conditions = u
  BY <1>1 DEF ResourceStatus
<1>3. [a EXCEPT !.owner = w].conditions = u
  <2>1. DOMAIN a = DOMAIN r.status
    OBVIOUS
  <2>2. "conditions" \in DOMAIN a
    BY <1>1, <2>1 DEF ResourceStatus
  <2> HIDE DEF a, w
  <2> QED BY <1>2, <2>2
<1>4. b.status = a
  <2> HIDE DEF a
  <2> QED BY DEF Resource
<1>5. b = [r EXCEPT !.status.conditions = u]
  OBVIOUS
<1>6. DOMAIN b = DOMAIN r /\ "status" \in DOMAIN r
  BY DEF Resource
<1>7. SetStatusDefaults(b) = [b EXCEPT !.status = [a EXCEPT !.owner = w]]
  <2> HIDE DEF a, b
  <2> QED BY <1>4 DEF SetStatusDefaults, w
<1> HIDE DEF a, b, w
<1>8. SetStatusDefaults(b).status = [a EXCEPT !.owner = w]
  BY <1>6, <1>7
<1> QED BY <1>3, <1>5, <1>8

\* Success clears the Terminal and Recoverable conditions, also where onSuccess
\* returns the resource it was given, because it had none.
LEMMA OnSuccessConditions ==
    ASSUME NEW r \in Resource
    PROVE  /\ OnSuccess(r).status.conditions.terminal # "True"
           /\ OnSuccess(r).status.conditions.recoverable # "True"
<1> DEFINE c == r.status.conditions
           u == UpdatedConditions(c, "none")
<1>1. c \in Conditions
  BY DEF Resource, ResourceStatus
<1>2. u.terminal # "True" /\ u.recoverable # "True" /\ (u = NoConditions => c = NoConditions)
  <2> HIDE DEF c
  <2>1. u = [c EXCEPT !.terminal = IF c.terminal # "None" THEN "False" ELSE c.terminal,
                      !.recoverable = IF c.recoverable # "None" THEN "False" ELSE c.recoverable]
    BY DEF UpdatedConditions, TerminalError, TerminalErrors
  <2>2. /\ u.terminal = IF c.terminal # "None" THEN "False" ELSE c.terminal
        /\ u.recoverable = IF c.recoverable # "None" THEN "False" ELSE c.recoverable
        /\ u.synced = c.synced
    BY <1>1, <2>1 DEF Conditions
  <2> HIDE DEF u
  <2> QED BY <1>1, <2>2 DEF Conditions, NoConditions
<1>3. UpdateConditions(r, "none").status.conditions = u
  <2> HIDE DEF c
  <2>1. UpdateConditions(r, "none") = SetStatusDefaults([r EXCEPT !.status.conditions = u])
    BY DEF UpdateConditions, c
  <2> HIDE DEF u
  <2> QED BY <2>1, ConditionsSet
<1>4. CASE Updated(UpdateConditions(r, "none"))
  BY <1>2, <1>3, <1>4 DEF OnSuccess
<1>5. CASE ~Updated(UpdateConditions(r, "none"))
  <2>1. c = NoConditions /\ OnSuccess(r) = r
    BY <1>2, <1>3, <1>5 DEF OnSuccess, Updated
  <2> QED BY <2>1 DEF NoConditions
<1> QED BY <1>4, <1>5

\* An error is terminal, and the condition says so, or it is passed on.
LEMMA OnErrorConditions ==
    ASSUME NEW r \in Resource
    PROVE  /\ OnError(r, "Other").err = "Other"
           /\ OnError(r, "ValidationException").err = "Terminal"
           /\ OnError(r, "ValidationException").res.status.conditions.terminal = "True"
<1>1. ASSUME NEW e PROVE OnError(r, e).res.status.conditions
                             = UpdatedConditions(r.status.conditions, e)
  <2> DEFINE u == UpdatedConditions(r.status.conditions, e)
  <2>1. OnError(r, e).res = SetStatusDefaults([r EXCEPT !.status.conditions = u])
    BY DEF OnError, UpdateConditions
  <2> HIDE DEF u
  <2>2. SetStatusDefaults([r EXCEPT !.status.conditions = u]).status.conditions = u
    BY ConditionsSet
  <2> QED BY <2>1, <2>2 DEF u
<1>2. r.status.conditions \in Conditions
  BY DEF Resource, ResourceStatus
<1>3. UpdatedConditions(r.status.conditions, "ValidationException").terminal = "True"
  BY <1>2 DEF UpdatedConditions, TerminalError, TerminalErrors, Conditions
<1>4. UpdatedConditions(r.status.conditions, "Other").terminal # "True"
  BY <1>2 DEF UpdatedConditions, TerminalError, TerminalErrors, Conditions
<1>5. ASSUME NEW e
      PROVE  OnError(r, e).err = IF OnError(r, e).res.status.conditions.terminal = "True"
                                 THEN "Terminal" ELSE e
  BY DEF OnError
<1> QED BY <1>1, <1>3, <1>4, <1>5

LEMMA ResourceUpdates ==
    ASSUME NEW r \in Resource
    PROVE  /\ r.spec \in ResourceSpec /\ r.spec.tags \in Tags
           /\ r.spec.description \in Description \cup {Nil}
           /\ r.status \in ResourceStatus /\ r.status.id \in Id \cup {Nil}
           /\ \A s \in ResourceSpec : /\ [r EXCEPT !.spec = s] \in Resource
                                      /\ [r EXCEPT !.spec = s].status = r.status
           /\ \A t \in Tags : /\ [r EXCEPT !.spec.tags = t] \in Resource
                              /\ [r EXCEPT !.spec.tags = t].status = r.status
           /\ \A b \in BOOLEAN : /\ [r EXCEPT !.managed = b] \in Resource
                                 /\ [r EXCEPT !.managed = b].status = r.status
           /\ [r EXCEPT !.deleting = TRUE] \in Resource
           /\ [r EXCEPT !.deleting = TRUE].status = r.status
           /\ [r EXCEPT !.status.conditions.terminal = "True"] \in Resource
           /\ [r EXCEPT !.status.conditions.terminal = "True"].status.id = r.status.id
<1> USE DEF Resource, ResourceStatus
<1>1. /\ r.spec \in ResourceSpec /\ r.spec.tags \in Tags
      /\ r.spec.description \in Description \cup {Nil}
      /\ r.status \in ResourceStatus /\ r.status.id \in Id \cup {Nil}
  BY DEF ResourceSpec
<1>2. ASSUME NEW s \in ResourceSpec
      PROVE  [r EXCEPT !.spec = s] \in Resource /\ [r EXCEPT !.spec = s].status = r.status
  OBVIOUS
<1>3. ASSUME NEW t \in Tags
      PROVE  /\ [r EXCEPT !.spec.tags = t] \in Resource
             /\ [r EXCEPT !.spec.tags = t].status = r.status
  BY DEF ResourceSpec
<1>4. ASSUME NEW b \in BOOLEAN
      PROVE  [r EXCEPT !.managed = b] \in Resource /\ [r EXCEPT !.managed = b].status = r.status
  OBVIOUS
<1>5. [r EXCEPT !.deleting = TRUE] \in Resource /\ [r EXCEPT !.deleting = TRUE].status = r.status
  OBVIOUS
<1>6. /\ [r EXCEPT !.status.conditions.terminal = "True"] \in Resource
      /\ [r EXCEPT !.status.conditions.terminal = "True"].status.id = r.status.id
  BY DEF Conditions, ConditionStatus
<1> QED BY <1>1, <1>2, <1>3, <1>4, <1>5, <1>6

LEMMA SpecPatchType ==
    ASSUME NEW r \in Resource, NEW d \in Description \cup {Nil}, NEW t \in Tags
    PROVE  /\ [r EXCEPT !.spec.description = d, !.spec.tags = t] \in Resource
           /\ [r EXCEPT !.spec.description = d, !.spec.tags = t].status = r.status
BY DEF Resource, ResourceSpec

\* EnsureTags, mirrorAWSTags and FilterSystemTags change tags and nothing else.
SameButTags(a, r) ==
    /\ a.status = r.status /\ a.managed = r.managed /\ a.deleting = r.deleting
    /\ a.spec.description = r.spec.description

LEMMA WithTags ==
    ASSUME NEW r \in Resource, NEW t \in Tags
    PROVE  LET a == [r EXCEPT !.spec.tags = t] IN
           a \in Resource /\ a.spec.tags = t /\ SameButTags(a, r)
BY DEF Resource, ResourceSpec, SameButTags

LEMMA EnsureTagsResult ==
    ASSUME NEW r \in Resource, NEW t \in Tags
    PROVE  LET a == EnsureTags(r, t) IN
           a \in Resource /\ a.spec.tags = Merge(r.spec.tags, t) /\ SameButTags(a, r)
BY ResourceUpdates, TagsTypes, WithTags DEF EnsureTags

LEMMA MirrorAWSTagsResult ==
    ASSUME NEW r \in Resource, NEW b \in Resource
    PROVE  LET a == MirrorAWSTags(r, b) IN
           /\ a \in Resource /\ SameButTags(a, r)
           /\ a.spec.tags = SyncAWSTags(r.spec.tags, b.spec.tags)
BY ResourceUpdates, TagsTypes, WithTags DEF MirrorAWSTags

LEMMA FilterSystemTagsResult ==
    ASSUME NEW r \in Resource
    PROVE  LET a == FilterSystemTags(r) IN
           /\ a \in Resource /\ SameButTags(a, r)
           /\ a.spec.tags = IgnoreSystemTags(r.spec.tags)
BY ResourceUpdates, TagsTypes, WithTags DEF FilterSystemTags

LEMMA TagOperations ==
    ASSUME NEW r \in Resource, NEW b \in Resource, NEW t \in Tags
    PROVE  /\ EnsureTags(r, t) \in Resource /\ EnsureTags(r, t).status = r.status
           /\ MirrorAWSTags(r, b) \in Resource /\ MirrorAWSTags(r, b).status = r.status
           /\ FilterSystemTags(r) \in Resource /\ FilterSystemTags(r).status = r.status
BY EnsureTagsResult, MirrorAWSTagsResult, FilterSystemTagsResult DEF SameButTags
=============================================================================
