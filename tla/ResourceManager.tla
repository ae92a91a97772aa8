-------------------------- MODULE ResourceManager --------------------------
(***************************************************************************)
(* The in-memory half of the GlobalNetwork resource manager: how sdk.go    *)
(* merges API output into a copy of the custom resource, how conditions    *)
(* follow the error of an operation, and when two resources differ.        *)
(*                                                                         *)
(* A resource is the custom resource it wraps: Spec, Status, whether the   *)
(* ACK finalizer is on it and whether it has a deletion timestamp.         *)
(***************************************************************************)
EXTENDS AckTags

CONSTANTS Description,   \* description strings
          Id,            \* GlobalNetworkIds; a network's ARN is named by its id
          Account,       \* the manager's account, region and partition
          Nil            \* the nil pointer

ASSUME NilAssumption ==
    Nil \notin Description /\ Nil \notin Id /\ Nil # Account

\* Conditions of one type are absent from the list, or have a status.
ConditionStatus == {"None", "True", "False"}
Conditions == [terminal : ConditionStatus, recoverable : ConditionStatus,
               synced : ConditionStatus]
NoConditions == [terminal |-> "None", recoverable |-> "None", synced |-> "None"]

LiveState == {"PENDING", "AVAILABLE", "UPDATING"}
State == LiveState \cup {"DELETING"}

ResourceSpec == [description : Description \cup {Nil}, tags : Tags]
ResourceStatus == [id : Id \cup {Nil}, arn : Id \cup {Nil}, owner : {Account, Nil},
                   state : State \cup {Nil}, conditions : Conditions]
Resource == [spec : ResourceSpec, status : ResourceStatus,
             managed : BOOLEAN, deleting : BOOLEAN]

NoStatus == [id |-> Nil, arn |-> Nil, owner |-> Nil, state |-> Nil,
             conditions |-> NoConditions]

\* Errors the operations return; "none" is the nil error, "Terminal" the
\* runtime's ackerr.Terminal and "Other" every error the code does not single out.
TerminalErrors == {"ValidationException", "SecretTypeNotSupported",
                   "SecretNotFound", "TerminalError"}
Errors == TerminalErrors \cup {"none", "NotFound", "Terminal", "Other"}

-----------------------------------------------------------------------------
SetStatusDefaults(r) ==
    [r EXCEPT !.status.owner = IF @ = Nil THEN Account ELSE @]

\* The fields that sdkFind takes from a network of the API's answer. sdkCreate
\* and sdkUpdate take the same ones.
MergeWithoutId(r, n, out) ==
    SetStatusDefaults([r EXCEPT !.spec.description = out.description,
                                !.spec.tags = out.tags,
                                !.status.arn = n,
                                !.status.state = out.state])
MergeWithoutArn(r, n, out) ==
    SetStatusDefaults([r EXCEPT !.spec.description = out.description,
                                !.spec.tags = out.tags,
                                !.status.id = n,
                                !.status.state = out.state])
MergeIdForDescription(r, n, out) ==
    SetStatusDefaults([r EXCEPT !.spec.description = n,
                                !.spec.tags = out.tags,
                                !.status.id = n,
                                !.status.arn = n,
                                !.status.state = out.state])
MergeOutput(r, n, out) ==
    SetStatusDefaults([r EXCEPT !.spec.description = out.description,
                                !.spec.tags = out.tags,
                                !.status.id = n,
                                !.status.arn = n,
                                !.status.state = out.state])

\* requiredFieldsMissingFromReadManyInput
NothingMissing(r) == FALSE
RequiredFieldsMissing(r) == r.status.id = Nil

\* IsSynced, generated from "synced.when" in generator.yaml
IsSynced(r) == r.status.state = "AVAILABLE"

\* terminalAWSError and the other errors that updateConditions calls terminal
TerminalError(err) == err \in TerminalErrors

\* updateConditions: the conditions an operation that ended with err leaves.
\* A terminal error leaves the Recoverable condition as it was.
StickyTerminalConditions(c, err) ==
    IF TerminalError(err)
    THEN [c EXCEPT !.terminal = "True"]
    ELSE [c EXCEPT !.recoverable = IF err # "none" THEN "True"
                                   ELSE IF @ # "None" THEN "False" ELSE @]
UpdatedConditions(c, err) ==
    IF TerminalError(err)
    THEN [c EXCEPT !.terminal = "True"]
    ELSE [c EXCEPT !.terminal = IF @ # "None" THEN "False" ELSE @,
                   !.recoverable = IF err # "none" THEN "True"
                                   ELSE IF @ # "None" THEN "False" ELSE @]

UpdateConditions(r, err) ==
    SetStatusDefaults([r EXCEPT !.status.conditions = UpdatedConditions(@, err)])

\* updateConditions reports "updated" as soon as there is a condition at all.
Updated(r) == r.status.conditions # NoConditions

\* onError and onSuccess: the resource and the error that an operation returns.
OnError(r, err) ==
    LET r1 == UpdateConditions(r, err)
    IN  [res |-> r1,
         err |-> IF r1.status.conditions.terminal = "True" THEN "Terminal" ELSE err]

OnSuccess(r) ==
    LET r1 == UpdateConditions(r, "none") IN IF Updated(r1) THEN r1 ELSE r

\* EnsureTags adds the controller's default tags to the resource's own.
EnsureTagsOverriding(r, defaults) == [r EXCEPT !.spec.tags = Merge(defaults, @)]
EnsureTags(r, defaults) == [r EXCEPT !.spec.tags = Merge(@, defaults)]

\* FilterSystemTags takes out of a resource the tags that are not the user's.
FilterSystemTags(r) == [r EXCEPT !.spec.tags = IgnoreSystemTags(@)]

\* mirrorAWSTags: a, the resource passed to ReadOne, gets the "aws:" tags of b.
MirrorAWSTags(a, b) == [a EXCEPT !.spec.tags = SyncAWSTags(@, b.spec.tags)]

\* newResourceDelta: the paths at which two resources differ.
DeltaWithoutTags(a, b) ==
    {p \in {"Spec.Description"} : a.spec.description # b.spec.description}
NewResourceDelta(a, b) ==
    {p \in {"Spec.Description", "Spec.Tags"} :
        \/ p = "Spec.Description" /\ a.spec.description # b.spec.description
        \/ p = "Spec.Tags" /\ a.spec.tags # b.spec.tags}
=============================================================================
