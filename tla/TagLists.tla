------------------------------ MODULE TagLists ------------------------------
(***************************************************************************)
(* Tags as the code has them: lists of pointers to a key and a value, each *)
(* of which may be nil, in the custom resource, in requests and answers.   *)
(* tags.go turns a list into a map and a map into a list; pkg/tags/sync.go *)
(* dereferences what it finds. The CRD lets a user write a tag without a   *)
(* key, a tag without a value, and a key twice. A Go map is ranged over in *)
(* any order, so what makes a list out of a map is a set of lists.         *)
(*                                                                         *)
(* The state machine is one reconcile after another of one resource, as    *)
(* far as it concerns tags. Faults, and edits during a reconcile, are in   *)
(* Reconciler.                                                             *)
(***************************************************************************)
EXTENDS AckTags, Naturals, Sequences, SequencesExt

CONSTANTS DefaultTags,  \* the tags of the --resource-tags flag
          NoNetwork,    \* the network has not been created
          Empty,        \* the empty string, a tag value
          Nil,          \* the nil pointer
          UserTags      \* the lists a user writes

Tag == [key : TagKey \cup {Nil}, value : TagValue \cup {Nil}]
TagList == Seq(Tag)

ASSUME ValueAssumption == Empty \in TagValue /\ Nil \notin TagKey \cup TagValue
ASSUME DefaultAssumption == DefaultTags \in Tags /\ KeysOf(DefaultTags) = SystemKey
ASSUME UserTagsAssumption == UserTags \subseteq TagList
ASSUME NoNetworkAssumption == NoNetwork \notin Tags

VARIABLES pc,       \* the step the reconcile is at
          spec,     \* Spec.Tags of the custom resource in the API server
          desired,  \* Spec.Tags of the desired resource
          latest,   \* Spec.Tags of the observed, then of the returned resource
          remote,   \* the tags of the network
          settled   \* nothing has changed since a reconcile that ended well

vars == <<pc, spec, desired, latest, remote, settled>>

-----------------------------------------------------------------------------
(* Lists and maps.                                                         *)

KeyOrder(list) == [i \in DOMAIN list |-> list[i].key]

\* convertToOrderedACKTags: the map and the keys in the order of the list.
KeepNilValues(list) ==
    LET keyed == SelectSeq(list, LAMBDA t : t.key # Nil)
    IN  [tags |-> FoldLeft(LAMBDA m, t : [m EXCEPT ![t.key] = t.value], NoTags, keyed),
         keyOrder |-> KeyOrder(keyed)]
ConvertToOrderedACKTags(list) ==
    LET keyed == SelectSeq(list, LAMBDA t : t.key # Nil)
        Put(m, t) == [m EXCEPT ![t.key] = IF t.value # Nil THEN t.value ELSE Empty]
    IN  [tags |-> FoldLeft(Put, NoTags, keyed), keyOrder |-> KeyOrder(keyed)]

Pick(tags, k) == [key |-> k, value |-> tags[k]]

\* The second loop of fromACKTags: the keys of a map, in any order.
AnyOrder(tags) ==
    {[i \in DOMAIN ks |-> Pick(tags, ks[i])] : ks \in SetToSeqs(KeysOf(tags))}

\* fromACKTags: first the keys of keyOrder, each taken out of the map as it
\* is put on the list, then what is left of the map.
WithoutDelete(tags, keyOrder) ==
    LET known == SelectSeq(keyOrder, LAMBDA k : tags[k] # Absent)
    IN  {[i \in DOMAIN known |-> Pick(tags, known[i])] \o l : l \in AnyOrder(tags)}
WithoutOrder(tags, keyOrder) == AnyOrder(tags)
KnownKeysOnly(tags, keyOrder) ==
    LET known == SelectSeq(keyOrder, LAMBDA k : tags[k] # Absent)
    IN  {[i \in DOMAIN known |-> Pick(tags, known[i])]}
FromACKTags(tags, keyOrder) ==
    LET Take(s, k) ==
            IF s.tags[k] = Absent THEN s
            ELSE [list |-> Append(s.list, Pick(s.tags, k)),
                  tags |-> [s.tags EXCEPT ![k] = Absent]]
        taken == FoldLeft(Take, [list |-> << >>, tags |-> tags], keyOrder)
    IN  {taken.list \o l : l \in AnyOrder(taken.tags)}

-----------------------------------------------------------------------------
(* What manager.go and delta.go do with them. Each operation yields the    *)
(* lists that it may leave in the resource.                                *)

EnsuredTags(list) ==
    LET c == ConvertToOrderedACKTags(list)
    IN  FromACKTags(Merge(c.tags, DefaultTags), c.keyOrder)

FilteredTags(list) ==
    LET c == ConvertToOrderedACKTags(list)
    IN  FromACKTags(IgnoreSystemTags(c.tags), c.keyOrder)

MirroredTags(a, b) ==
    LET c == ConvertToOrderedACKTags(a)
        l == ConvertToOrderedACKTags(b)
    IN  FromACKTags(SyncAWSTags(c.tags, l.tags), c.keyOrder)

DifferentTags(a, b) ==
    ConvertToOrderedACKTags(a).tags # ConvertToOrderedACKTags(b).tags

-----------------------------------------------------------------------------
(* What sync.go does with them: maps from keys to pointers.                *)

PointerMap(list) == FoldLeft(LAMBDA m, t : [m EXCEPT ![t.key] = t.value], NoTags, list)

\* The dereferences of SyncTags: of every key, of the values of a key that is
\* on both sides, and of the values to be added, for the log.
NilDereference(aTags, bTags) ==
    \/ \E t \in ToSet(aTags) \cup ToSet(bTags) : t.key = Nil
    \/ LET d == PointerMap(aTags)
           e == PointerMap(bTags)
       IN  \/ \E k \in KeysOf(d) \cap KeysOf(e) : Nil \in {d[k], e[k]}
           \/ \E k \in TagKey : ToAdd(d, e)[k] = Nil

\* addTags: the list of tags in a request, from the map of pointers.
AddTags(toAdd) == AnyOrder(toAdd)

\* The service keeps one value for a key and tells them in an order of its own.
\* It never sends a tag without key or value: sdkFind would keep such a nil
\* (sdk.go:125-130) and SyncTags dereference it (sync.go:62).
Listed(tags) == AnyOrder(tags)

-----------------------------------------------------------------------------
Init ==
    /\ pc = "idle"
    /\ spec \in UserTags /\ remote = NoNetwork
    /\ desired = << >> /\ latest = << >>
    /\ settled = FALSE

EditSpec ==
    /\ pc = "idle"
    /\ spec' \in UserTags \ {spec}
    /\ settled' = FALSE
    /\ UNCHANGED <<pc, desired, latest, remote>>

\* Somebody, or AWS, changes a tag of the network.
Drift ==
    /\ pc = "idle" /\ remote # NoNetwork
    /\ \E k \in TagKey, v \in TagValue \cup {Absent} : remote' = [remote EXCEPT ![k] = v]
    /\ remote' # remote
    /\ settled' = FALSE
    /\ UNCHANGED <<pc, spec, desired, latest>>

EnsureTags ==
    /\ pc = "idle"
    /\ pc' = IF remote = NoNetwork THEN "create" ELSE "read"
    /\ desired' \in EnsuredTags(spec)
    /\ UNCHANGED <<spec, latest, remote, settled>>

\* The reconcile is over, and its local variables with it.
Forget == pc' = "idle" /\ desired' = << >> /\ latest' = << >>

RejectedKeys(tags) == KeysOf(tags) \cap AWSKey # {}

\* newCreateRequestPayload copies the list into the request tag by tag.
Create ==
    LET sent == PointerMap(desired) IN
    /\ pc = "create" /\ ~RejectedKeys(sent)
    /\ remote' = sent
    /\ latest' \in Listed(sent)
    /\ pc' = "patch"
    /\ UNCHANGED <<spec, desired, settled>>

\* sdkFind, mirrorAWSTags and the delta.
ReadOne ==
    /\ pc = "read"
    /\ latest' \in Listed(remote)
    /\ desired' \in MirroredTags(desired, latest')
    /\ pc' = IF DifferentTags(desired', latest') THEN "sync" ELSE "same"
    /\ UNCHANGED <<spec, remote, settled>>

\* The tags are the same: the reconcile is over or, when the description has
\* to be updated, goes on with the tags of the answer to UpdateGlobalNetwork.
SameTags ==
    /\ pc = "same"
    /\ \/ Forget /\ UNCHANGED spec
       \/ pc' = "patch" /\ UNCHANGED <<spec, desired, latest>>
    /\ UNCHANGED <<remote, settled>>

\* SyncTags. Then Update returns the desired resource or, if the description
\* differs too, one with the tags of the answer to UpdateGlobalNetwork.
SyncTags ==
    LET d == PointerMap(desired)
        e == PointerMap(latest)
    IN  /\ pc = "sync" /\ ~RejectedKeys(ToAdd(d, e))
        /\ \E sent \in AddTags(ToAdd(d, e)) :
             remote' = UntagResource(TagResource(remote, PointerMap(sent)), ToDelete(d, e))
        /\ latest' \in {desired} \cup Listed(remote')
        /\ pc' = "patch"
        /\ UNCHANGED <<spec, desired, settled>>

\* The service refuses "aws:" tags.
Rejected ==
    /\ \/ pc = "create" /\ RejectedKeys(PointerMap(desired))
       \/ pc = "sync" /\ RejectedKeys(ToAdd(PointerMap(desired), PointerMap(latest)))
    /\ Forget
    /\ UNCHANGED <<spec, remote, settled>>

\* The merge patch, after FilterSystemTags: a list that differs is written,
\* unless only its order does and nothing else of the spec has to be patched.
Patch ==
    /\ pc = "patch"
    /\ \E before \in FilteredTags(desired), after \in FilteredTags(latest) :
        \/ ~DifferentTags(before, after) /\ spec' = spec
        \/ before # after /\ spec' = after
    /\ Forget
    /\ settled' = (spec' = spec)
    /\ UNCHANGED remote

Next == \/ EditSpec \/ Drift \/ EnsureTags \/ Create \/ ReadOne \/ SameTags
        \/ SyncTags \/ Rejected \/ Patch

Spec == Init /\ [][Next]_vars

-----------------------------------------------------------------------------
(* Properties.                                                             *)

\* Types: the lists of the resources, and a network with one value per key.
TypeOK ==
    /\ pc \in {"idle", "create", "read", "same", "sync", "patch"}
    /\ {spec, desired, latest} \subseteq TagList
    /\ remote \in Tags \cup {NoNetwork}
    /\ settled \in BOOLEAN

\* SyncTags (sync.go:49-77) dereferences keys and values without a check. It
\* never meets a nil, whatever the user has written: EnsureTags and
\* mirrorAWSTags have put a list without nils into the desired resource.
NoNilDereference == pc = "sync" => ~NilDereference(desired, latest)

\* newCreateRequestPayload sends the list as it is. What is sent has every key
\* once, with a value, although the user's list may not.
RequestIsWellFormed ==
    pc = "create" =>
        /\ \A t \in ToSet(desired) : Nil \notin {t.key, t.value}
        /\ IsInjective(KeyOrder(desired))

\* fromACKTags "maintains the order from original" (tags.go:57-60): EnsureTags
\* and mirrorAWSTags leave the user's keys in front, in the user's order, each
\* at the place where the user wrote it first.
FirstKeys(list) ==
    LET FirstAt(i) == list[i].key # Nil /\ \A j \in 1..(i - 1) : list[j].key # list[i].key
    IN  [n \in 1..Cardinality({i \in DOMAIN list : FirstAt(i)}) |->
            list[CHOOSE i \in DOMAIN list :
                    FirstAt(i) /\ Cardinality({j \in 1..i : FirstAt(j)}) = n].key]
UserOrderKept ==
    pc \in {"create", "read", "same", "sync", "patch"} => IsPrefix(FirstKeys(spec), KeyOrder(desired))

\* The map that a list means: the last value of a key, the empty string for a
\* nil one; tags without a key mean nothing.
Meaning(list) ==
    [k \in TagKey |->
        LET at == {i \in DOMAIN list : list[i].key = k}
        IN  IF at = {} THEN Absent
            ELSE LET v == list[CHOOSE i \in at : \A j \in at : j <= i].value
                 IN  IF v = Nil THEN Empty ELSE v]

Maps == INSTANCE TagPass WITH
            spec <- Meaning(spec), desired <- Meaning(desired), latest <- Meaning(latest)

\* A reconcile that ended well and left the spec alone is followed by quiet
\* ones: newResourceDelta finds no difference in tags (delta.go:51-55) until
\* somebody changes the spec or the network, also for lists with nils and
\* duplicates, and in whatever order maps are ranged over.
SettledIsQuiet == Maps!SettledIsQuiet

\* Until then the network has what the user's list means, apart from the "aws:"
\* tags: the user's tags, the last value of a key that is there twice, and the
\* tags of the --resource-tags flag (EnsureTags, manager.go:304-307).
SettledIsDone == Maps!SettledIsDone

\* The code on lists implements the operations on maps: every conversion, merge,
\* filter, mirror and synchronisation (tags.go, manager.go:285-365, sync.go) does
\* to the meaning of the lists what AckTags says, and nothing else does.
ImplementsMaps == Maps!Spec
=============================================================================
