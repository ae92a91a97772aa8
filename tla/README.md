# Verification of the ACK Network Manager controller

The controller keeps one kind of custom resource, `GlobalNetwork`, in step with a global
network of the AWS Network Manager service. Most of the repository is generated by
`ack-generate`; what it does at run time is in `pkg/resource/global_network` and `pkg/tags`.
The reconcile loop that calls this code is the ACK runtime (`github.com/aws-controllers-k8s/runtime`
v0.67.0), a library that is not in the repository.

This directory holds TLA+ models of that code, TLC configurations that check them on small
instances, and TLAPS proofs of nearly all their safety properties for all instances. `PROJECT.json`
lists components, runs, mutants, the source lines of every definition, findings, hazards and
theorems.

## Inventory

| Part | Source | State | Operations |
| --- | --- | --- | --- |
| Resource manager cache | `manager_factory.go` | `rmCache`, a Go map under a `sync.RWMutex` | `ManagerFor` |
| Resource manager | `sdk.go`, `manager.go` | none of its own; the custom resource and the network | `ReadOne`, `Create`, `Update`, `Delete`, `EnsureTags`, `FilterSystemTags`, `IsSynced`, `LateInitialize` |
| Tag maps | `tags.go` | none | conversions, filtering, mirroring of `aws:` tags |
| Tag synchronisation | `pkg/tags/sync.go` | the network's tags | `SyncTags`: `TagResource`, then `UntagResource` |
| Differences | `delta.go` | none | `newResourceDelta` |
| Resource wrapper, descriptor | `resource.go`, `descriptor.go` | finalizer, deletion timestamp, annotations, status | `MarkManaged`, `MarkUnmanaged`, `MarkAdopted`, `SetIdentifiers`, `PopulateResourceFromAnnotation` |
| API types | `apis/v1alpha1` | the shape of Spec and Status | generated deep copies |
| References | `references.go` | none; there are no reference fields | `ResolveReferences` returns its argument, `ClearResolvedReferences` a copy |
| Start-up | `cmd/controller/main.go`, `registry.go` | flags, the lease of leader election | validates the flags, builds and starts the manager, exits on errors |
| Deployment | `helm/`, `config/` | the pods | replicas, rolling updates |
| ACK runtime (external) | - | work queue, finalizer, patches | calls the resource manager |
| Network Manager (external) | - | networks | `Create-`, `Update-`, `DeleteGlobalNetwork`, `DescribeGlobalNetworks`, `TagResource`, `UntagResource` |

How they interact. A worker of the runtime takes a resource off the queue, asks the factory
for a manager (shared state: the cache), reads the resource from the API server, adds the
default tags, and calls `ReadOne`. Depending on the answer it puts the finalizer on and calls
`Create`, or compares and calls `Update`, or calls `Delete`. What these return is patched into
the spec (without system tags) and then into the status. Errors and a network that is not
`AVAILABLE` put the resource back into the queue.

What is hard:

- the id of a network is known to the service two API calls before it is in the status, and
  `sdkFind` has no other way to find it: crashes, lost answers and stale reads fall in between;
- `Update` is up to three API calls, any of which can fail after the ones before it took effect;
- the user edits and deletes the resource, AWS puts tags on the network, and others change it,
  while a reconcile works with what it read earlier;
- the answer to a call is merged into the resource and patched over the user's spec;
- conditions decide about retries and have to follow the errors;
- `ManagerFor` is called by all workers at once;
- a network may be there before the resource (adoption), and then an id is known without an ARN;
- conditions and metadata are written in place, through pointers that operations may share;
- leader election is off by default, and a rolling update runs an old and a new pod together.

What makes each part correct: the cache is free of races and deadlocks and never confuses two
requests; the reconcile loop loses no network without a fault, stops only when there is nothing
left to do, always gets there, and never touches what belongs to AWS, to others or to the user;
the finalizer outlives the use of the network; adoption reads before it writes and creates nothing;
operations leave their arguments alone; and only a lapse lets two pods create two networks.

## Modules

**`ManagerFactory`** models `ManagerFor` with one action per lock operation and map access:
`RLock`, `Lookup`, `RUnlock`, `LockAnnounce` and `LockAcquire` (a Go writer first announces
itself, which stops new readers, and then waits for the readers to leave) and `Store`. Variables
`readers` and `writer` are the mutex, `rmCache` is the map, `rm` the local variable. The cache
key is the sequence of the strings between its slashes, because a role ARN contains slashes.
`made` is a history of all managers built. `MCManagerFactory` gives it two workers, one account
and region, and two role ARNs (the empty one and one with a slash).

**`AckTags`** has the operations on tag maps: `IgnoreSystemTags`, `SyncAWSTags`, and the
difference `ToAdd`, `ToDelete` of `SyncTags`. A map is a total function on the keys with
`Absent` for a key that is not there.

**`TagLists`** (extends `AckTags`) has tags as the code has them, lists of pointers to a key and a
value that may be nil: `ConvertToOrderedACKTags` and `FromACKTags` are the loops of `tags.go`,
and since a Go map is ranged over in any order, what makes a list out of a map yields a set of
lists. `PointerMap` and `NilDereference` are the maps and the dereferences of `SyncTags`. Its
state machine is one reconcile after another as far as tags go: `EnsureTags`, then `Create` or
`ReadOne` (with `mirrorAWSTags` and the delta), `SyncTags`, and the patch of the spec after
`FilterSystemTags`, with edits and changes by others between reconciles. **`TagPass`** is its
abstract specification, the same steps on maps. `TagLists` implements it under the mapping
`Meaning` (the last value of a key counts, a nil value is the empty string, a tag without a key
means nothing), which is what entitles `Reconciler` to work with maps. `settled` is in both: it is
set when a reconcile ends well and leaves the spec alone, and cleared when somebody changes the spec
or the network. The service is taken to answer with tags that have a key and a value: `sdkFind` would
keep a nil, and `SyncTags` would dereference it.

**`ResourceManager`** (extends `AckTags`) has what `sdk.go` and `manager.go` do to a resource in
memory: `MergeOutput` for the merge of an API answer, `UpdatedConditions`, `OnError` and
`OnSuccess` for conditions and the error that is handed on, `EnsureTags`, `MirrorAWSTags`,
`FilterSystemTags`, `IsSynced`, `NewResourceDelta`. A resource is a record of spec, status,
finalizer and deletion mark. The ARN of a network is named by its id, and account, region and
partition are one value, since they are set together. `CreatedAt` and the messages of
conditions are left out: nothing depends on them.

**`Reconciler`** (extends `ResourceManager`) composes the custom resource in the API server
(`cr`), the networks of the account (`net`), one worker with its local variables (`desired`,
`observed`, `latest`, `err`) and the queue (`queued`). `pc` names the API call that comes next,
and every API call is a step:

| step | code |
| --- | --- |
| `StartReconcile` | read the resource, `EnsureTags` |
| `ReadFound`, `ReadNotFound`, `ReadFail`, `ReadMissed` | `ReadOne`: `sdkFind`, `mirrorAWSTags`, `onSuccess` or `onError`; then the delta |
| `Manage`, `ManageFail` | `MarkManaged` and its patch |
| `Create`, `CreateFail`, `CreateLost` | `sdkCreate` |
| `AddTags`, `RemoveTags`, `Update` | `sdkUpdate`: `addTags`, `removeTags`, `UpdateGlobalNetwork` |
| `PatchSpec`, `PatchStatus` and their failures | the runtime writes back what `Create` or `Update` returned |
| `Delete`, `Unmanage`, `UnmanageFail` | `sdkDelete`, `MarkUnmanaged` and its patch |
| `Crash` | the process dies; its successor starts from the API server |

Around it: `EditSpec` and `DeleteCR` by the user, `Settle` (a network becomes available or is gone),
`Drift` (somebody changes or deletes the network), `AWSTag` (AWS adds a tag), `Resync`. What the
runtime does when `Create` fails (keep the finalizer or take it off) is left open. A call that fails
does so with a `ValidationException` or with another error (`ErrorCode`), since `terminalAWSError`
looks at the code alone: `onError` makes the first one terminal and it is not retried, on
`DescribeGlobalNetworks`, `UntagResource` and `DeleteGlobalNetwork` as on any other call, although
the spec did not cause it (a network that still has devices or sites cannot be deleted). `PatchSpec`
writes the fields in which the returned resource differs from the desired one. As JSON the tags are
a list, so `reordered` is the choice that a list with the same tags in another order is written too,
as `TagLists` allows, whenever newResourceDelta finds some other difference. The patch has the tags
as the reconcile read them, less those of the system: a value that the user gave to a
`--resource-tags` key is lost, and so is an edit of the tags that came in between.

Three ghost variables serve the properties: `refused` says that a call of the last reconcile was
refused with a `ValidationException` for a reason outside the spec, `drifted` that the network was
changed by others since the controller last read it, and `lapses` counts the events that make it
lose sight of a network (a lost answer to `Create`, a stale read, a crash or failed patch with a new
id in hand).

One network, `Foreign`, belongs to somebody else. `DescribeGlobalNetworks` without an id would
return it, which is why the check for a missing id in `sdkFind` matters.

**`Lifecycle`** is the abstract specification of the reconciler: the resource is unmanaged, managed,
deleting or gone, an id may be on record, and each network is unused, live, leaving or gone. It says
that networks are created only under the finalizer and only while none is live on record, that the
record goes forward, that the controller ends only the recorded network and only on the user's
request, and that the finalizer is given up only when the recorded network is not in use.
`Reconciler` implements it (`ImplementsLifecycle`), with `cr` and the states of the networks mapped
to the four variables. The stale read is left out of that run: after one the controller believes
the network away and rightly, by what it knows, gives up the finalizer; `OneLapseOneOrphan` has the
bound for that case.

**`Adoption`** (extends `ResourceManager`) is about a network that was there first. `policy` is the
way of adoption: the annotation policies `adopt` (the resource takes its spec from the network) and
`adopt-or-create` (the network takes the resource's), and the older `AdoptedResource`, whose own
reconciler creates the object, with the annotation that `MarkAdopted` sets, and then its status, in
two steps between which the GlobalNetwork's reconciler may run. `PopulateResourceFromAnnotation` and
`SetIdentifiers` put the id into the status and nothing else (the second takes the empty string for
no id, and so does the model; to the first it is an id that no network has), so the desired resource
has no ARN until a status has been written. Whether the desired resource gets the observed status
before the first `Update` of `adopt-or-create` is the runtime's business, and left open. A worker
that dereferences a nil ARN panics and is recovered. Faults of API calls are not repeated here.

**`Objects`** looks at the same operations as objects in memory, because values hide what pointers
share. The heap has custom resources, metadata and conditions; an operation takes a heap and a
pointer and returns a heap and a pointer. `StatusDeepCopyInto` is the generated copy,
`SetStatusDefaults` and `SetCondition` write in place, `Finish` (`onSuccess`, `onError`) returns its
argument when there is no condition, and so does `sdkUpdate` on its tags-only path. The metadata's
account is nil, a string of its own, or a pointer into the resource manager, which
`setStatusDefaults` puts there. Which objects the runtime sets conditions on, decodes answers into
and computes patches from is external. Contents are left to `ResourceManager`: what an API call
answers is chosen freely.

**`Replicas`** has the pods of the Deployment. A pod goes through the steps of `main` in their order
(`Proceed`), exits where `main` calls `os.Exit(1)` (`Exit`, after which the kubelet starts it again),
waits in `mgr.Start` for the lease if leader election is on (`Start`), and exits when it has lost it
(`LeaderLost`). `rejected` is the step that the flags make fail, if any; the one error that `main` only
logs is that of a webhook. `main` does not ask for the lease to be released, so it has to `Expire`;
a leader that stalls may lose it without knowing (`MissRenewal`). A rolling update (`Rollout`,
`Launch`, `Retire`) adds a pod and stops an old one when enough are ready. Of the reconcile only
the race is kept: read the id, create, record. Networks are numbered as they are created.

## Runs

| run | question | bounds |
| --- | --- | --- |
| `manager_cache` | Is the cache free of races and deadlocks, and the manager the right one? | 2 workers, 2 calls each, 2 roles |
| `manager_cache_duplicates` | Is there one manager per key? No. | 2 workers, 1 call |
| `reconcile_faults` | Does a fault leave more behind than it must? Does the loop rest too early? | 3 specs (with a description, without one, rejected), 2 faults of any kind, 1 edit, 1 change by others |
| `reconcile_ownership` | Does the controller touch what is not its own? | 6 specs, 1 fault, 1 edit, 1 change by others |
| `reconcile_liveness` | Does the loop come to an end, does deletion, and does it implement `Lifecycle`? | the same 3 specs, 1 fault, 1 edit, 1 change by others |
| `tag_lists` | Do the tag lists, with nils and duplicates and in any order, behave as the maps say? | all lists of 2 tags over 4 keys and nil, some of 3; any number of edits and changes |
| `adoption` | Does adoption create nothing, read first, end in agreement, and find an ARN? | 3 policies, 3 specs, 3 existing networks, any name or none, 1 change by others |
| `objects` | Do the copies keep arguments, patches and the manager safe? | 2 ids, any number of reconciles |
| `replicas` | How many networks do crashing and replaced pods create, and can one with bad flags? Is one recorded in the end, does a rolling update complete? | 1 replica and the pod that an update adds, 2 rolling updates, 2 failures |
| `two_instances_of_one_replica` | Do as many instances reconcile as there are replicas? Not in a rolling update without election. | 1 replica, 1 rolling update |
| `update_returns_stale_status` | Does `sdkUpdate` return updated fields? Not on the tags-only path. | 1 edit |
| `missing_id_but_created` | Does a missing id mean that there is no network? Not after a crash. | 1 crash |

Every property has a mutant in `PROJECT.json`: a definition with a plausible bug, under which
TLC finds the property violated.

*Properties of the cache.* `MapRaceFree`, `RightManager`, `BuildsOncePerWorker` and
`CallReturns`. The stronger `OneManagerPerRmId`, which a comment in the code promises, fails:
`ManagerFor` does not look again after taking the write lock.

*Properties of the reconciler.* `OneLapseOneOrphan`: there are never more live networks that
nobody knows than there were lapses; in particular none without a lapse. `RestMeansDone`: with
nothing queued and nothing running, the resource is gone, or terminal for a reason that still
stands (a description that the service rejects, an `aws:` tag among those asked for, a network
without the finalizer), or terminal because the service refused a call of the last reconcile, which
alone may leave a deletion undone, or the network is what the spec asks for and no condition says
otherwise. `AWSTagsUntouched`, `ForeignUntouched`, `NoSystemTagsPatched` and `SpecIsTheUsers` are
action properties about what the controller may never do. The last one: the description of a spec
changes only where the user left it out, and its tags only if others changed the network meanwhile
or, along with such a description or after AWS added a tag, to the user's own tags less those of the
system. `RecordedIsHeld`: while the network on record is in
use, no step of anybody takes the id out of the status, replaces it or removes the finalizer; like
`Lifecycle` it needs a service that hides no network. `EventuallySettles` and `DeleteCompletes`
are the liveness properties: the loop ends, and a resource that is to be deleted goes away, unless
the service refused a call of its last reconcile and the resource stays, terminal.

*Properties of the tag lists.* `NoNilDereference` (`SyncTags` has no checks and relies on the
conversions before it), `RequestIsWellFormed`, `UserOrderKept`, `SettledIsQuiet` (after a
reconcile that ended well no later one finds a difference until somebody makes one), `SettledIsDone`
(until then the network has the user's tags and those of the flags, and no others but those of AWS)
and `ImplementsMaps`, the refinement.

*Properties of adoption.* `NilArnOnlyWhileAdopting`: the unchecked dereference at `sdk.go:308` can
meet a nil only in the first reconcile of `adopt-or-create`, and only if the runtime does not hand
the observed status over. `AdoptionCreatesNothing`, `FirstContactReads` (until it is marked as
adopted, a network is only read) and, under fairness, `AdoptionSettles`.

*Properties of the objects.* `ArgumentsKept`: no operation changes the status of a resource it was
given. `StatusReachesServer`: the status patch is computed from `desired` and `latest` and would be
empty if they were one object; they are one only in an update of tags on a status without any
condition, which is possible once, after an `AdoptedResource` has written the status (the next
reconcile makes up for it). `ManagerNotWritten`: no answer is decoded through a pointer into the
resource manager that all workers share.

*Properties of the pods.* `OneNetworkPerLapse`: with leader election, a second network of a resource
takes a leader that missed a renewal or ended with an id in hand. `RejectedCreatesNothing`: a pod
whose flags were refused never gets to the service. `NetworkRecorded` and `RolloutCompletes` are
liveness; the second holds because the readiness check answers before the pod leads.

*Why the bounds suffice.* One user tag, one controller tag and one AWS tag with two values each give
every combination of present, absent, equal and different that the tag code tells apart. The specs
include one without fields, two that override a controller tag (with a description and without one,
so that the patch of the description carries the tags along), one that the service rejects and one
with an `aws:` tag. There are two valid descriptions, so that others can change a network's and the
controller has to change it back. There are as many ids as networks can be created within the bounds
(one, one more per fault, one more per deletion by others), so `Create` never runs out of them. For
the tag lists two user keys, nil, a controller key and an AWS key in lists of two give every pair of
neighbours; the lists of three repeat a key around another one, the shortest case in which the first
place and the last value of a key fall apart. The runs with `SYMMETRY` check no liveness; ids other
than `Foreign` are interchangeable. Deadlock is not checked in `Reconciler`, where a terminal
resource, or a deleted one, leaves nothing to do, nor in `ManagerFactory`, where all calls may have
returned; there `CallReturns` would fail if the mutex blocked somebody for ever, nor in `Adoption`
(a terminal error, an `AdoptedResource` whose network does not exist) and `Replicas` (everything is
recorded and nobody crashes any more). `Replicas` needs one pod more than replicas for the rolling
update, two failures so that a crash and a lost lease fall together, and no bound on networks, since
lapses bound them. In `Objects` the heap is emptied between reconciles, so the state space is finite
without a bound.

*Fairness.* `ManagerFor` is weakly fair for every worker (goroutines are scheduled, the mutex is
handed on; nobody has to call). In `Reconciler` the worker is weakly fair (the runtime's worker
loop and its retries with back-off), and so are the periodic resync of resources that are not
terminal and the transitions of the service. The user, the other actors and faults are not.
Faults are bounded, which is the assumption that a retried call is not refused for ever.
`Adoption` is fair to both reconcilers, and `Replicas` to the processes, the Deployment's controller
and the expiry of leases. `Objects` and `Lifecycle` state safety only.

## Proofs

TLAPS proves every safety property that a run checks, except those that are about lists as such, for
every value of the constants: any number of workers, pods, networks, ids, tags and specs, and any bounds
on faults, edits and changes by others. Each component's proofs are in a module of their own. All
follow one pattern: an inductive invariant, one lemma per action that the action keeps it (and does
only what the action properties allow), and a last step that combines them. TLC has checked the
inductive invariants on the instances of the runs before they were proved.

| module | theorems | about |
| --- | --- | --- |
| `ManagerFactoryProofs` | `RmIdInjective`, `TypeCorrect`, `NoMapRace`, `ManagerIsRight`, `OneBuildPerWorker` | the cache |
| `ResourceManagerProofs` | `SyncTagsReachesDesired`, `MirroredTagsAreKept` | the operators that the reconcilers share |
| `TagPassProofs` | `SettledStaysQuiet`, `SettledHasItsTags` | tags from one reconcile to the next |
| `ReconcilerProofs` | `TypeCorrect`, `OthersUntouched`, `NoOrphanWithoutLapse`, `LifecycleImplemented`, `RecordIsNotLost` | types, the networks of others, which networks exist and who knows them |
| `ConvergenceProofs` | `RestIsDone`, `AWSTagsKept`, `SystemTagsStayOut`, `SpecStaysTheUsers` | what networks and specs contain |
| `AdoptionProofs` | `TypeCorrect`, `AdoptingIsNotCreating`, `NilArnIsAdopting`, `FirstContactOnlyReads` | adoption |
| `ObjectsProofs` | `TypeCorrect`, `ManagerIsNotWritten`, `ArgumentsAreKept`, `StatusIsWritten` | pointers |
| `ReplicasProofs` | `TypeCorrect`, `LeaderCreatesOnce`, `RejectedFlagsStopMain` | pods and the lease |

**The cache.** `RmIdInjective` is the fact about the key: account and region have no slash, so the
first two parts of the key are theirs whatever the role brings. The invariant adds `LockInv` (who
holds the mutex is where its program counter stands; without it nothing relates `writer` to the map
access), `CacheInv` (a key holds managers of one request, and what was made left something under its
key) and `MissInv` (a worker whose lookup missed has made no such manager; it survives the stores of
others because it speaks only of what the worker itself made).

**The operators.** `SyncTagsReachesDesired`: tagging with `ToAdd` and untagging `ToDelete` turns any
tags into the desired ones, and one call is enough where `SyncTags` makes only one.
`MirroredTagsAreKept`: after `mirrorAWSTags` neither call touches an `aws:` tag, unless the user asked
for one, which the service rejects. The lemmas say of the merge, the conditions, `EnsureTags`,
`FilterSystemTags` and `mirrorAWSTags` what they change and, with `Keeps` and `SameButTags`, what not.

**Tags from one reconcile to the next.** Neither theorem assumes anything of the default tags or of the
values. The invariant says of each step what the desired tags are, and `AtRest`, that the network's tags
are a fixed point of `EnsureTags` and `mirrorAWSTags`: at `patch`, and for as long as the resource is
settled. It holds because mirroring is idempotent (`MirrorTwice`), also where the user's own tags
include an `aws:` key that AWS has set. The theorems are about `TagPass`; `TagLists` has the same two
properties, stated through its refinement mapping and checked by TLC.

**The reconciler's types.** `StepInv` says which local variables are set at which step (every write
goes to an id in `Id`), `ForeignInv` that no resource, in the API server or in a local variable,
carries the foreign id. The key step is `ReadFoundStep`: the only network that `sdkFind` can return
is the one that the status names.

**Orphans and the lifecycle.** `HoldInv` says what a reconcile may rely on between its read and its
last patch: nobody else writes the status, so the id in it is the one that was read; the finalizer is
on wherever a call that writes comes next, and a user can ask for a deletion but not carry it out. An
orphan count is not inductive, since a network can be lost some steps before it is an orphan (a read
that misses it leads to a second `Create`, which overwrites its id). `Doomed` is therefore the set of
live networks that no continuation without a lapse keeps on record, `Orphan` is a part of it, and
every step adds at most one network to it, and only with a lapse (`Owes`). `LifecycleImplemented` adds
`ExactInv` (where a record is about to be given up, its network is not in use), which a stale read
breaks; the theorem therefore assumes `NoStaleReads`, and `NoOrphanWithoutLapse` does not.
`RecordIsNotLost` is what `Lifecycle` implies, carried over to the reconciler: no guard of `Lifecycle`
alone says that an unmanaged resource has no live network on record, so `RecordInv` has it, together
with the fact that what is on record was created once (or `Create` could bring it to life).

**Convergence.** `RestMeansDone` is about the end of a reconcile, so its invariant follows the tags
and the description through all of `sdkUpdate`. `MirrorInv`: the desired resource has the observed
`aws:` tags. `ProgressInv`: how far the calls made so far have brought the network (`Agree` compares
tags that are not those of AWS). `PatchInv`: what `Create` and `Update` return differs from what was
asked for only by the hand of others, or where nothing was asked for. `SyncedInv`: what is about to
be reported as synced is in service and as desired. This is the interesting one, because the
tags-only path returns the desired resource with the state it came with (finding 2): the state may
be old, but the call that has just succeeded shows that the network is in service. `ConditionInv`
and `DeletingInv` relate conditions, error and deletion; `FreshInv` says that as long as nothing is
queued the resource is as the reconcile read it, so that a terminal error has a reason in the spec
of now, unless `refused` is its reason; a reconcile of a deletion ends in a terminal error only with
that. The three action properties use the same invariant. For `SpecIsTheUsers` the argument is that,
with nobody else at work, `PatchInv` leaves two differences that can bring on the patch: a
description that was not asked for, or an `aws:` tag that is new; the filtered tags are equal then,
so what is written is the user's.

**Adoption.** `GuardInv`: the annotation of `MarkAdopted` is the guard of both reconcilers. `ArnInv`: a
status that was written, or is about to be, has an ARN wherever it has an id.

**Objects.** The argument is one of framing. `Extends`, `Fresh` and `Writes` say that an operation makes
a copy all of whose pointers are new and writes only to it and to what it points to; `Apart` that the
desired and the returned resource share no metadata and no condition; `OwnerInv` that
`setStatusDefaults` has been called on all metadata.

**Replicas.** The count of networks is not inductive either: `Pending` are the pods that may still
create one without reading the status again, `Excused` is the network that needs no lapse, and
`LapseInv` bounds their sum. `StuckInv` orders the steps of `main` (`Depth`).

*Assumptions*, all named and evaluated by TLC: the null values (`Nil`, `Gone`, `Absent`...) are none of
the real ones, the keys of AWS and of the controller are keys, `DefaultTags` has just the controller's
keys, the specs are specs, role ARNs are sequences of parts, policies are the three there are, and
ids and pods are finitely many where they are counted. None bounds the behaviour.

*Only model-checked.* The liveness properties (`CallReturns`, `EventuallySettles`, `DeleteCompletes`,
`AdoptionSettles`, `NetworkRecorded`, `RolloutCompletes`), because fairness and `ENABLED` are out of the
prover's reach; `TypeOK`, `NoNilDereference`, `RequestIsWellFormed` and `UserOrderKept` of `TagLists`
and its refinement of `TagPass`, because what the folds over lists compute is an induction over data.
What `TagLists` hands to the proofs is its refinement: the proofs are about maps.

## Findings

1. `manager_factory.go:58-60` promises one manager per key; two workers can build two (harmless,
   they are equivalent).
2. `sdk.go:292-293` promises updated fields; the tags-only path at 315-317 returns the desired
   resource with its old state, which is then patched as the newest status.
3. `sdk.go:66-68` takes a missing id to mean that the network does not exist; after a crash or a
   lost answer it does, and a second one is created. The deferred function at `sdk.go:247-259`
   protects against errors after the call, not against these.
4. `helm/values.yaml:19-20` says that `replicas` determines how many instances run and that leader
   election is for more than one; the default rolling update runs two instances of one replica, and
   each may create a network for one resource.

## Not modelled

`ARNFromName` (a string that nothing here reads), the rest of `LateInitialize` after its early
return (the list of field names is empty), `validateReferenceFields` (returns nil), the registry (a
list written once by `init`), the version strings, the manifests other than what `Replicas` takes
from them, and the tests. Of the generated types and deep copies, those of API shapes that the
controller does not use (the greater part of `types.go`, `enums.go` and `zz_generated.deepcopy.go`)
have no behaviour in it. The deletion policy is `delete`; `retain` would only skip `Delete`. Which
resources the flags select (namespaces, selectors) is the runtime's.

## Plan

All of what was planned is in place: the cache, the resource manager, the reconcile loop and its
abstract specification, the tag lists and theirs, adoption, the objects in memory, start-up and
replicas, with proofs of their safety properties on maps. What is left waits for the tools: the tag
lists, should the provers come to support induction over sequences, and the liveness properties,
should they come to support fairness.
