--------------------------- MODULE ManagerFactory ---------------------------
(***************************************************************************)
(* resourceManagerFactory.ManagerFor (manager_factory.go): the cache of    *)
(* resource managers that all reconcile workers of the controller share.   *)
(* It is a Go map guarded by a sync.RWMutex: look up under the read lock,  *)
(* release it, and on a miss take the write lock and store a new manager.  *)
(* A worker is a goroutine of the controller's worker pool.                *)
(***************************************************************************)
EXTENDS Naturals, Sequences

CONSTANTS Worker,      \* reconcile goroutines
          Account,     \* AWS account ids: no "/" in them
          Region,      \* AWS regions: no "/" in them
          Part,        \* what stands between the slashes of a role ARN
          RoleARN,     \* role ARNs, each the sequence of its "/"-separated parts
          NoWorker, NoManager,
          MaxCalls     \* bound: calls of ManagerFor per worker

ASSUME RoleARNAssumption == RoleARN \subseteq Seq(Part)
ASSUME NoWorkerAssumption == NoWorker \notin Worker
ASSUME MaxCallsAssumption == MaxCalls \in Nat

VARIABLES pc,       \* where in ManagerFor each worker is
          req,      \* the (id, region, roleARN) arguments of its call
          rm,       \* its local variable rm: what the lookup or the store gave
          calls,    \* how many calls it has begun
          readers,  \* workers that hold the read lock
          writer,   \* the worker that holds or awaits the write lock
          rmCache,  \* the factory's map
          made      \* history: every manager newResourceManager returned

vars == <<pc, req, rm, calls, readers, writer, rmCache, made>>

Request == [id : Account, region : Region, role : RoleARN]

\* fmt.Sprintf("%s/%s/%s", id, region, roleARN), as the sequence of the parts
\* between its slashes; a role ARN brings slashes of its own.
RmIdWithoutRole(r) == <<r.id, r.region>>
RmId(r) == <<r.id, r.region>> \o r.role

RmIds == {RmId(r) : r \in Request}

\* A manager is known by the call that built it and by what it was built for:
\* the account, the region, and the role its client configuration assumes.
Manager == [by : Worker, call : Nat, for : Request]

ASSUME NoManagerAssumption == NoManager \notin Manager

Miss == {"lock", "wait", "store"}
Steps == {"idle", "rlock", "lookup", "runlock"} \cup Miss

Init ==
    /\ pc = [w \in Worker |-> "idle"]
    /\ req \in [Worker -> Request]
    /\ rm = [w \in Worker |-> NoManager]
    /\ calls = [w \in Worker |-> 0]
    /\ readers = {}
    /\ writer = NoWorker
    /\ rmCache = [k \in RmIds |-> NoManager]
    /\ made = {}

Goto(w, step) == pc' = [pc EXCEPT ![w] = step]

\* A reconcile calls ManagerFor.
Call(w) ==
    /\ pc[w] = "idle"
    /\ calls[w] < MaxCalls
    /\ \E r \in Request : req' = [req EXCEPT ![w] = r]
    /\ calls' = [calls EXCEPT ![w] = @ + 1]
    /\ rm' = [rm EXCEPT ![w] = NoManager]
    /\ Goto(w, "rlock")
    /\ UNCHANGED <<readers, writer, rmCache, made>>

\* f.RLock(): waits while a writer holds the lock or has announced itself.
RLock(w) ==
    /\ pc[w] = "rlock"
    /\ writer = NoWorker
    /\ readers' = readers \cup {w}
    /\ Goto(w, "lookup")
    /\ UNCHANGED <<req, rm, calls, writer, rmCache, made>>

\* rm, found := f.rmCache[rmId]
Lookup(w) ==
    /\ pc[w] = "lookup"
    /\ rm' = [rm EXCEPT ![w] = rmCache[RmId(req[w])]]
    /\ Goto(w, "runlock")
    /\ UNCHANGED <<req, calls, readers, writer, rmCache, made>>

\* f.RUnlock(), and the early return when the map had the manager.
RUnlock(w) ==
    /\ pc[w] = "runlock"
    /\ readers' = readers \ {w}
    /\ Goto(w, IF rm[w] # NoManager THEN "idle" ELSE "lock")
    /\ UNCHANGED <<req, rm, calls, writer, rmCache, made>>

\* f.Lock(), first half: one writer at a time announces itself.
LockAnnounce(w) ==
    /\ pc[w] = "lock"
    /\ writer = NoWorker
    /\ writer' = w
    /\ Goto(w, "wait")
    /\ UNCHANGED <<req, rm, calls, readers, rmCache, made>>

\* f.Lock(), second half: the announced writer waits for the readers to leave.
LockAcquireEarly(w) ==
    /\ pc[w] = "wait"
    /\ Goto(w, "store")
    /\ UNCHANGED <<req, rm, calls, readers, writer, rmCache, made>>

LockAcquire(w) ==
    /\ pc[w] = "wait"
    /\ readers = {}
    /\ Goto(w, "store")
    /\ UNCHANGED <<req, rm, calls, readers, writer, rmCache, made>>

\* newResourceManager(...), f.rmCache[rmId] = rm, the deferred f.Unlock() and
\* the return. The map is not looked at again: another worker may have stored
\* a manager for the same id since this one's lookup.
WithoutClientConfig(w) ==
    [by |-> w, call |-> calls[w], for |-> [req[w] EXCEPT !.role = << >>]]

NewResourceManager(w) == [by |-> w, call |-> calls[w], for |-> req[w]]

StoreNothing(w) ==
    LET new == NewResourceManager(w) IN
    /\ pc[w] = "store"
    /\ made' = made \cup {new}
    /\ rm' = [rm EXCEPT ![w] = new]
    /\ writer' = NoWorker
    /\ Goto(w, "idle")
    /\ UNCHANGED <<req, calls, readers, rmCache>>

StoreWithoutUnlock(w) ==
    LET new == NewResourceManager(w) IN
    /\ pc[w] = "store"
    /\ made' = made \cup {new}
    /\ rmCache' = [rmCache EXCEPT ![RmId(req[w])] = new]
    /\ rm' = [rm EXCEPT ![w] = new]
    /\ Goto(w, "idle")
    /\ UNCHANGED <<req, calls, readers, writer>>

Store(w) ==
    LET new == NewResourceManager(w) IN
    /\ pc[w] = "store"
    /\ made' = made \cup {new}
    /\ rmCache' = [rmCache EXCEPT ![RmId(req[w])] = new]
    /\ rm' = [rm EXCEPT ![w] = new]
    /\ writer' = NoWorker
    /\ Goto(w, "idle")
    /\ UNCHANGED <<req, calls, readers>>

ManagerFor(w) ==
    \/ RLock(w) \/ Lookup(w) \/ RUnlock(w)
    \/ LockAnnounce(w) \/ LockAcquire(w) \/ Store(w)

Next == \E w \in Worker : Call(w) \/ ManagerFor(w)

\* A goroutine inside ManagerFor is scheduled again and again; nobody has to
\* call it. The mutex hands itself on, which weak fairness captures because
\* each worker makes at most MaxCalls calls.
Fairness == \A w \in Worker : WF_vars(ManagerFor(w))

Spec == Init /\ [][Next]_vars /\ Fairness

-----------------------------------------------------------------------------
\* Every variable has its type.
TypeOK ==
    /\ pc \in [Worker -> Steps]
    /\ req \in [Worker -> Request]
    /\ rm \in [Worker -> Manager \cup {NoManager}]
    /\ calls \in [Worker -> Nat]
    /\ readers \subseteq Worker
    /\ writer \in Worker \cup {NoWorker}
    /\ rmCache \in [RmIds -> Manager \cup {NoManager}]
    /\ made \subseteq Manager

\* No goroutine reads or writes the Go map of ManagerFor while another writes
\* it: the runtime would stop the whole controller.
MapRaceFree ==
    \A w, v \in Worker :
        w # v /\ pc[w] = "store" => pc[v] \notin {"lookup", "store"}

\* ManagerFor hands out a manager built for the very account, region and role
\* that were asked for: the "/"-joined cache key never merges two of them.
RightManager ==
    \A w \in Worker : rm[w] # NoManager => rm[w].for = req[w]

\* A worker never builds two managers for one account, region and role: the
\* lookup of ManagerFor finds what the worker itself stored or a later one.
\* Only misses of different workers can overlap.
BuildsOncePerWorker ==
    \A m, n \in made : m.by = n.by /\ m.for = n.for => m = n

\* What the comment in ManagerFor promises (manager_factory.go:58-60): no two
\* resource managers for the same account/region/roleARN combination.
OneManagerPerRmId ==
    \A m, n \in made : m.for = n.for => m = n

\* Every call of ManagerFor returns: the read and the write lock never leave
\* the workers waiting for each other.
CallReturns ==
    \A w \in Worker : pc[w] # "idle" ~> pc[w] = "idle"
=============================================================================
