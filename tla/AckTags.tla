------------------------------- MODULE AckTags -------------------------------
(***************************************************************************)
(* Resource tags as acktags.Tags, the string map that the controller turns *)
(* every tag list into before it merges, filters, mirrors or compares tags *)
(* (tags.go, manager.go, pkg/tags/sync.go). A tag map is a total function  *)
(* on the keys; Absent is the value of a key that is not in the Go map.    *)
(***************************************************************************)
CONSTANTS TagKey,      \* tag keys
          AWSKey,      \* those that start with "aws:"
          SystemKey,   \* those set with the --resource-tags flag
          TagValue,    \* tag values
          Absent       \* a key that is not in a map

ASSUME TagKeyAssumption == AWSKey \subseteq TagKey /\ SystemKey \subseteq TagKey
ASSUME AbsentAssumption == Absent \notin TagValue

Tags == [TagKey -> TagValue \cup {Absent}]

NoTags == [k \in TagKey |-> Absent]

KeysOf(t) == {k \in TagKey : t[k] # Absent}

\* acktags.Merge of the runtime: all keys of both, a's value where both have one.
Merge(a, b) == [k \in TagKey |-> IF a[k] # Absent THEN a[k] ELSE b[k]]

\* ignoreSystemTags deletes the "aws:" keys and the --resource-tags keys.
IgnoreAWSTagsOnly(t) == [k \in TagKey |-> IF k \in AWSKey THEN Absent ELSE t[k]]
IgnoreSystemTags(t) ==
    [k \in TagKey |-> IF k \in AWSKey \cup SystemKey THEN Absent ELSE t[k]]

\* syncAWSTags copies the "aws:" tags of b into a.
SyncNothing(a, b) == a
SyncAWSTags(a, b) ==
    [k \in TagKey |-> IF k \in AWSKey /\ b[k] # Absent THEN b[k] ELSE a[k]]

\* SyncTags, first half: what TagResource has to set to get from existing to
\* desired and what UntagResource has to remove.
ToAddMissingOnly(desired, existing) ==
    [k \in TagKey |-> IF existing[k] = Absent THEN desired[k] ELSE Absent]
ToAdd(desired, existing) ==
    [k \in TagKey |-> IF desired[k] # existing[k] THEN desired[k] ELSE Absent]

ToDeleteAlsoChanged(desired, existing) ==
    {k \in KeysOf(existing) : desired[k] # existing[k]}
ToDelete(desired, existing) == KeysOf(existing) \ KeysOf(desired)

\* What TagResource and UntagResource do to the tags of a resource.
TagResource(tags, add) == Merge(add, tags)
UntagResource(tags, keys) == [k \in TagKey |-> IF k \in keys THEN Absent ELSE tags[k]]
=============================================================================
