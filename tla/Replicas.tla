------------------------------ MODULE Replicas ------------------------------
(***************************************************************************)
(* The pods of the controller's Deployment: how main starts one, when it   *)
(* gives up, and how many of them reconcile one resource at the same time. *)
(*                                                                         *)
(* A pod takes the steps of main in their order. The lease, the kubelet's  *)
(* restarts and the rolling update are those of Kubernetes and of          *)
(* controller-runtime, external, with the options main gives them. Of the  *)
(* reconciler only the part is here that races: the id is read from the    *)
(* status, a network is created without one, and its id is recorded.       *)
(***************************************************************************)
EXTENDS Naturals, FiniteSets

CONSTANTS Pod,
          Nobody,          \* no pod
          LeaderElection,  \* the --enable-leader-election flag
          Replicas,        \* deployment.replicas in values.yaml
          Surge,           \* pods a rolling update may add
          MaxRollouts,     \* bound: rolling updates
          MaxFailures      \* bound: crashes and missed renewals of the lease

ASSUME ReplicasAssumption ==
    LeaderElection \in BOOLEAN /\ {Replicas, Surge, MaxRollouts, MaxFailures} \subseteq Nat
ASSUME NobodyAssumption == Nobody \notin Pod
ASSUME PodAssumption == IsFiniteSet(Pod)

VARIABLES rejected,  \* steps of main that fail with the flags as they are
          stage,     \* where each pod is in main
          old,       \* the pods that a rolling update is to replace
          lease,     \* the pod that holds the lease, or Nobody
          work,      \* each pod's reconcile: idle, create or record
          made,      \* the id it has to record, 0 for none
          created,   \* networks created so far; their ids are 1 .. created
          status,    \* the id in the resource's status, 0 for none
          rollouts, failures,  \* events so far, for the bounds
          lapses     \* ids lost with a pod, and leaders that missed a renewal

pods == <<stage, old, lease>>
jobs == <<work, made>>
networks == <<created, status>>
vars == <<rejected, pods, jobs, networks, rollouts, failures, lapses>>

StartUp == {"validate", "address", "namespaces", "selectors", "manager",
            "webhooks", "bind", "healthz", "readyz"}

\* main, step by step: "start" waits in mgr.Start, "run" reconciles.
After(step) ==
    CASE step = "validate"   -> "address"
      [] step = "address"    -> "namespaces"
      [] step = "namespaces" -> "selectors"
      [] step = "selectors"  -> "manager"
      [] step = "manager"    -> "webhooks"
      [] step = "webhooks"   -> "bind"
      [] step = "bind"       -> "healthz"
      [] step = "healthz"    -> "readyz"
      [] step = "readyz"     -> "start"

\* The steps whose error ends in os.Exit(1). That of a webhook is only logged.
FatalOnlyLate(step) == step \notin {"namespaces", "webhooks"}
AlwaysFatal(step) == TRUE
Fatal(step) == step # "webhooks"

\* The Deployment starts its pods at random times.
Init ==
    /\ rejected \in {{}} \cup {{step} : step \in StartUp}
    /\ stage = [p \in Pod |-> "off"]
    /\ old = {} /\ lease = Nobody
    /\ work = [p \in Pod |-> "idle"] /\ made = [p \in Pod |-> 0]
    /\ created = 0 /\ status = 0
    /\ rollouts = 0 /\ failures = 0 /\ lapses = 0

Existing == {p \in Pod : stage[p] # "off"}

\* healthz.Ping, served as soon as mgr.Start is called, leading or not.
ReadyWhenLeading(p) == stage[p] = "run"
Ready(p) == stage[p] \in {"start", "run"}

\* mgr.Start: with LeaderElection nothing runs before the pod has the lease.
ElectionIgnored(p) == TRUE
MayRun(p) == LeaderElection => lease = Nobody

-----------------------------------------------------------------------------
Launch(p) ==
    /\ stage[p] = "off"
    /\ Cardinality(Existing) < Replicas + IF old = {} THEN 0 ELSE Surge
    /\ stage' = [stage EXCEPT ![p] = "validate"]
    /\ UNCHANGED <<rejected, old, lease, jobs, networks, rollouts, failures, lapses>>

\* The process ends; the id of a network it has not recorded is lost.
End(p, next) ==
    /\ stage' = [stage EXCEPT ![p] = next]
    /\ work' = [work EXCEPT ![p] = "idle"]
    /\ made' = [made EXCEPT ![p] = 0]

Loss(p) == IF made[p] \notin {0, status} THEN 1 ELSE 0

\* One step of main that succeeds, or whose error does not matter.
Proceed(p) ==
    /\ stage[p] \in StartUp
    /\ stage[p] \in rejected => ~Fatal(stage[p])
    /\ stage' = [stage EXCEPT ![p] = After(@)]
    /\ UNCHANGED <<rejected, old, lease, jobs, networks, rollouts, failures, lapses>>

\* os.Exit(1): the kubelet starts the container again.
Exit(p) ==
    /\ stage[p] \in rejected /\ Fatal(stage[p])
    /\ End(p, "validate")
    /\ UNCHANGED <<rejected, old, lease, networks, rollouts, failures, lapses>>

Start(p) ==
    /\ stage[p] = "start" /\ MayRun(p)
    /\ stage' = [stage EXCEPT ![p] = "run"]
    /\ lease' = IF LeaderElection THEN p ELSE lease
    /\ UNCHANGED <<rejected, old, jobs, networks, rollouts, failures, lapses>>

\* mgr.Start returns an error when the pod has lost the lease, and main exits.
LeaderLost(p) ==
    /\ stage[p] = "run" /\ LeaderElection /\ lease # p
    /\ End(p, "validate")
    /\ lapses' = lapses + Loss(p)
    /\ UNCHANGED <<rejected, old, lease, networks, rollouts, failures>>

\* Any process may die, and a step of main may fail although the flags are fine.
Crash(p) ==
    /\ failures < MaxFailures /\ stage[p] \notin {"off", "validate"}
    /\ End(p, "validate")
    /\ failures' = failures + 1
    /\ lapses' = lapses + Loss(p)
    /\ UNCHANGED <<rejected, old, lease, networks, rollouts>>

\* main does not ask for the lease to be released when it stops: it expires.
Expire ==
    /\ lease # Nobody /\ stage[lease] # "run"
    /\ lease' = Nobody
    /\ UNCHANGED <<rejected, stage, old, jobs, networks, rollouts, failures, lapses>>

\* The holder is cut off or stalled past the renewal and does not know it yet.
MissRenewal ==
    /\ failures < MaxFailures /\ lease # Nobody /\ stage[lease] = "run"
    /\ lease' = Nobody
    /\ failures' = failures + 1
    /\ lapses' = lapses + 1
    /\ UNCHANGED <<rejected, stage, old, jobs, networks, rollouts>>

-----------------------------------------------------------------------------
(* A rolling update, the default strategy: one pod more for a while.       *)

Rollout ==
    /\ rollouts < MaxRollouts /\ old = {} /\ Existing # {}
    /\ old' = Existing
    /\ rollouts' = rollouts + 1
    /\ UNCHANGED <<rejected, stage, lease, jobs, networks, failures, lapses>>

\* An old pod gets its SIGTERM, which ends mgr.Start, when enough others are
\* ready or it is not ready itself.
Retire(p) ==
    /\ p \in old
    /\ Ready(p) => Cardinality({q \in Pod : Ready(q)}) > Replicas
    /\ old' = old \ {p}
    /\ End(p, "off")
    /\ lapses' = lapses + Loss(p)
    /\ UNCHANGED <<rejected, lease, networks, rollouts, failures>>

-----------------------------------------------------------------------------
(* The reconciles of one resource.                                         *)

\* ReadOne finds no id in the status.
Read(p) ==
    /\ stage[p] = "run" /\ work[p] = "idle" /\ status = 0
    /\ work' = [work EXCEPT ![p] = "create"]
    /\ UNCHANGED <<rejected, pods, made, networks, rollouts, failures, lapses>>

CreateFailed(p) ==
    /\ work[p] = "create"
    /\ work' = [work EXCEPT ![p] = "record"]
    /\ made' = [made EXCEPT ![p] = created + 1]
    /\ UNCHANGED <<rejected, pods, networks, rollouts, failures, lapses>>

\* CreateGlobalNetwork. (CreateFailed goes on without a network.)
Create(p) ==
    /\ work[p] = "create"
    /\ created' = created + 1
    /\ work' = [work EXCEPT ![p] = "record"]
    /\ made' = [made EXCEPT ![p] = created']
    /\ UNCHANGED <<rejected, pods, status, rollouts, failures, lapses>>

\* The patch of the status.
Record(p) ==
    /\ work[p] = "record"
    /\ status' = made[p]
    /\ work' = [work EXCEPT ![p] = "idle"]
    /\ made' = [made EXCEPT ![p] = 0]
    /\ UNCHANGED <<rejected, pods, created, rollouts, failures, lapses>>

Main(p) == Proceed(p) \/ Exit(p) \/ Start(p) \/ LeaderLost(p)
           \/ Read(p) \/ Create(p) \/ Record(p)
Deploy(p) == Launch(p) \/ Retire(p)

Next ==
    \/ \E p \in Pod : Main(p) \/ Deploy(p) \/ Crash(p)
    \/ Expire \/ MissRenewal \/ Rollout

\* Processes run, the Deployment does its work and leases expire.
Fairness ==
    /\ \A p \in Pod : WF_vars(Main(p))
    /\ WF_vars(\E p \in Pod : Deploy(p))
    /\ WF_vars(Expire)

Spec == Init /\ [][Next]_vars /\ Fairness

-----------------------------------------------------------------------------
\* Every variable has its type.
TypeOK ==
    /\ rejected \subseteq StartUp
    /\ stage \in [Pod -> StartUp \cup {"off", "start", "run"}]
    /\ old \subseteq Pod /\ lease \in Pod \cup {Nobody}
    /\ created \in Nat /\ status \in 0 .. created
    /\ work \in [Pod -> {"idle", "create", "record"}]
    /\ made \in [Pod -> 0 .. created]
    /\ {rollouts, failures, lapses} \subseteq Nat

\* The LeaderElection option of main.go:143: however pods start, crash, stall
\* and are replaced, a second network of one resource comes only from a leader
\* that missed a renewal or that ended with an id it had not recorded.
OneNetworkPerLapse == LeaderElection => created <= 1 + lapses

\* The exits of main: a controller whose flags main could not use never touches
\* the service. One that took unusable namespaces or selectors for none would
\* reconcile the resources of every namespace.
RejectedCreatesNothing == created > 0 => rejected \subseteq {"webhooks"}

\* A webhook that cannot be registered keeps main from nothing (main.go:190-200):
\* with flags that are fine otherwise the resource gets its network, recorded
\* for good, whoever leads.
NetworkRecorded == rejected \subseteq {"webhooks"} => <>[](status # 0)

\* The readiness check answers before the pod leads (main.go:217): a rolling
\* update waits for the new pod to be ready before it stops the old one, whose
\* lease the new one waits for.
RolloutCompletes == rejected \subseteq {"webhooks"} => (old # {} ~> old = {})

\* What values.yaml:19 says of deployment.replicas: that many instances run.
InstancesAsConfigured == Cardinality({p \in Pod : stage[p] = "run"}) <= Replicas
=============================================================================
