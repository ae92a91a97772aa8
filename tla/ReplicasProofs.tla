--------------------------- MODULE ReplicasProofs ---------------------------
(***************************************************************************)
(* The pods of the Deployment for any number of them, of replicas, rolling *)
(* updates, crashes and missed renewals.                                   *)
(***************************************************************************)
EXTENDS Replicas, FiniteSetTheorems, TLAPS

\* Only a pod that runs has work, and only one that has created has an id.
WorkInv ==
    \A p \in Pod : /\ work[p] # "idle" => stage[p] = "run"
                   /\ made[p] # 0 <=> work[p] = "record"

\* How far main has come at a stage.
Depth(step) ==
    CASE step = "off"        -> 0
      [] step = "validate"   -> 1
      [] step = "address"    -> 2
      [] step = "namespaces" -> 3
      [] step = "selectors"  -> 4
      [] step = "manager"    -> 5
      [] step = "webhooks"   -> 6
      [] step = "bind"       -> 7
      [] step = "healthz"    -> 8
      [] step = "readyz"     -> 9
      [] step = "start"      -> 10
      [] step = "run"        -> 11

\* No pod has passed a step whose error ends main, so none has created.
StuckInv ==
    \A step \in rejected :
        Fatal(step) => /\ created = 0
                       /\ \A p \in Pod : Depth(stage[p]) <= Depth(step)

\* Pods that may still create a network without anyone having to read a status
\* again: as long as there is no id on record these are the ones that run on
\* after a missed renewal, later those that have read the status before.
Pending ==
    {p \in Pod : /\ stage[p] = "run"
                 /\ IF status = 0 THEN lease # p /\ work[p] # "record"
                    ELSE work[p] = "create"}

\* The network that no lapse has to answer for: the leader's, or the one on record.
Excused ==
    IF status # 0 \/ \E p \in Pod : lease = p /\ work[p] = "record" THEN 1 ELSE 0

\* Every other network made so far, and every one that a pod is about to make,
\* has a lapse of its own.
LapseInv == LeaderElection => created + Cardinality(Pending) <= lapses + Excused

IInv == TypeOK /\ WorkInv /\ StuckInv /\ LapseInv

-----------------------------------------------------------------------------
LEMMA InitIInv == Init => IInv
<1> SUFFICES ASSUME Init PROVE IInv
  OBVIOUS
<1>1. TypeOK
  BY ReplicasAssumption DEF Init, TypeOK, StartUp
<1>2. WorkInv
  BY DEF Init, WorkInv
<1>3. StuckInv
  BY <1>1 DEF Init, StuckInv, Depth, Fatal, TypeOK, StartUp
<1>4. LapseInv
  <2>1. Pending = {}
    BY DEF Init, Pending
  <2>2. Excused = 0
    BY DEF Init, Excused
  <2> QED BY <2>1, <2>2, FS_EmptySet DEF Init, LapseInv
<1> QED BY <1>1, <1>2, <1>3, <1>4 DEF IInv

-----------------------------------------------------------------------------
(* Types, and what a pod has in hand.                                      *)

LEMMA Depths ==
    /\ Depth("off") = 0 /\ Depth("validate") = 1 /\ Depth("address") = 2
    /\ Depth("namespaces") = 3 /\ Depth("selectors") = 4 /\ Depth("manager") = 5
    /\ Depth("webhooks") = 6 /\ Depth("bind") = 7 /\ Depth("healthz") = 8
    /\ Depth("readyz") = 9 /\ Depth("start") = 10 /\ Depth("run") = 11
BY DEF Depth

LEMMA Afters ==
    /\ After("validate") = "address" /\ After("address") = "namespaces"
    /\ After("namespaces") = "selectors" /\ After("selectors") = "manager"
    /\ After("manager") = "webhooks" /\ After("webhooks") = "bind"
    /\ After("bind") = "healthz" /\ After("healthz") = "readyz" /\ After("readyz") = "start"
BY DEF After

LEMMA AfterType ==
    ASSUME NEW step \in StartUp
    PROVE  /\ After(step) \in (StartUp \ {"validate"}) \cup {"start"}
           /\ Depth(After(step)) = Depth(step) + 1 /\ Depth(step) \in Nat
BY Depths, Afters DEF StartUp

LEMMA TypeStep == ASSUME TypeOK, [Next]_vars PROVE TypeOK'
<1> USE DEF TypeOK, pods, jobs, networks
<1>1. ASSUME NEW p \in Pod, Main(p) PROVE TypeOK'
  <2>1. CASE Proceed(p)
    BY <2>1, AfterType DEF Proceed
  <2>2. CASE Exit(p)
    BY <2>2 DEF Exit, End, StartUp
  <2>3. CASE Start(p)
    BY <2>3 DEF Start
  <2>4. CASE LeaderLost(p)
    BY <2>4 DEF LeaderLost, End, Loss, StartUp
  <2>5. CASE Read(p)
    BY <2>5 DEF Read
  <2>6. CASE Create(p)
    BY <2>6 DEF Create
  <2>7. CASE Record(p)
    BY <2>7 DEF Record
  <2> QED BY <1>1, <2>1, <2>2, <2>3, <2>4, <2>5, <2>6, <2>7 DEF Main
<1>2. ASSUME NEW p \in Pod, Deploy(p) \/ Crash(p) PROVE TypeOK'
  <2>1. CASE Launch(p)
    BY <2>1 DEF Launch, StartUp
  <2>2. CASE Retire(p)
    BY <2>2 DEF Retire, End, Loss
  <2>3. CASE Crash(p)
    BY <2>3 DEF Crash, End, Loss, StartUp
  <2> QED BY <1>2, <2>1, <2>2, <2>3 DEF Deploy
<1>3. CASE Expire \/ MissRenewal \/ Rollout
  BY <1>3 DEF Expire, MissRenewal, Rollout, Existing
<1>4. CASE UNCHANGED vars
  BY <1>4 DEF vars
<1> QED BY <1>1, <1>2, <1>3, <1>4 DEF Next

LEMMA WorkStep == ASSUME TypeOK, WorkInv, [Next]_vars PROVE WorkInv'
<1> USE DEF TypeOK, WorkInv, pods, jobs, networks
<1>1. ASSUME NEW p \in Pod, Main(p) PROVE WorkInv'
  <2>1. CASE Proceed(p)
    <3>1. stage[p] # "run"
      BY <2>1 DEF Proceed, StartUp
    <3> QED BY <2>1, <3>1 DEF Proceed
  <2>2. CASE Exit(p)
    BY <2>2 DEF Exit, End
  <2>3. CASE Start(p)
    BY <2>3 DEF Start
  <2>4. CASE LeaderLost(p)
    BY <2>4 DEF LeaderLost, End
  <2>5. CASE Read(p)
    BY <2>5 DEF Read
  <2>6. CASE Create(p)
    BY <2>6 DEF Create
  <2>7. CASE Record(p)
    BY <2>7 DEF Record
  <2> QED BY <1>1, <2>1, <2>2, <2>3, <2>4, <2>5, <2>6, <2>7 DEF Main
<1>2. ASSUME NEW p \in Pod, Deploy(p) \/ Crash(p) PROVE WorkInv'
  <2>1. CASE Launch(p)
    BY <2>1 DEF Launch
  <2>2. CASE Retire(p)
    BY <2>2 DEF Retire, End
  <2>3. CASE Crash(p)
    BY <2>3 DEF Crash, End
  <2> QED BY <1>2, <2>1, <2>2, <2>3 DEF Deploy
<1>3. CASE Expire \/ MissRenewal \/ Rollout
  BY <1>3 DEF Expire, MissRenewal, Rollout
<1>4. CASE UNCHANGED vars
  BY <1>4 DEF vars
<1> QED BY <1>1, <1>2, <1>3, <1>4 DEF Next

-----------------------------------------------------------------------------
(* main stops at a step that fails.                                        *)

LEMMA DepthOfStages ==
    ASSUME NEW step \in StartUp
    PROVE  /\ Depth(step) \in 1 .. 9
           /\ Depth("off") = 0 /\ Depth("validate") = 1 /\ Depth("run") = 11
           /\ \A other \in StartUp : Depth(other) = Depth(step) => other = step
BY Depths DEF StartUp

LEMMA StuckStep == ASSUME TypeOK, WorkInv, StuckInv, [Next]_vars PROVE StuckInv'
<1> SUFFICES ASSUME NEW step \in rejected', Fatal(step)
             PROVE  created' = 0 /\ \A p \in Pod : Depth(stage'[p]) <= Depth(step)
  BY DEF StuckInv, Fatal
<1>0. rejected' = rejected
  BY DEF Next, Main, Deploy, Proceed, Exit, Start, LeaderLost, Read, Create, Record,
         Launch, Retire, Crash, Expire, MissRenewal, Rollout, vars
<1>1. /\ step \in StartUp /\ step \in rejected /\ created = 0
      /\ \A p \in Pod : Depth(stage[p]) <= Depth(step)
  BY <1>0 DEF StuckInv, TypeOK
<1>2. Depth(step) \in 1 .. 9 /\ Depth("off") = 0 /\ Depth("validate") = 1 /\ Depth("run") = 11
  BY <1>1, DepthOfStages
<1>3. \A p \in Pod : stage[p] # "run" /\ work[p] = "idle"
  BY <1>1, <1>2 DEF WorkInv
<1>4. ASSUME NEW p \in Pod, Proceed(p)
      PROVE  created' = 0 /\ \A q \in Pod : Depth(stage'[q]) <= Depth(step)
  <2>1. stage[p] \in StartUp /\ stage[p] # step
    BY <1>1, <1>4 DEF Proceed
  <2>2. Depth(stage[p]) # Depth(step) /\ Depth(stage[p]) \in Nat
    BY <1>1, <2>1, DepthOfStages
  <2>3. Depth(After(stage[p])) <= Depth(step)
    BY <1>1, <1>2, <2>1, <2>2, AfterType
  <2>4. \A q \in Pod : stage'[q] = IF q = p THEN After(stage[p]) ELSE stage[q]
    BY <1>4 DEF Proceed, TypeOK
  <2> QED BY <1>1, <1>4, <2>3, <2>4 DEF Proceed, networks
<1>5. ASSUME NEW p \in Pod, Exit(p) \/ Launch(p) \/ Retire(p) \/ Crash(p)
      PROVE  created' = 0 /\ \A q \in Pod : Depth(stage'[q]) <= Depth(step)
  <2>1. \A q \in Pod : stage'[q] \in {stage[q], "off", "validate"}
    BY <1>5 DEF Exit, Launch, Retire, Crash, End, TypeOK
  <2>2. created' = 0
    BY <1>1, <1>5 DEF Exit, Launch, Retire, Crash, networks
  <2> QED BY <1>1, <1>2, <2>1, <2>2
<1>6. ASSUME NEW p \in Pod, Start(p) PROVE FALSE
  <2>1. Depth("start") = 10 /\ stage[p] = "start"
    BY <1>6 DEF Start, Depth
  <2> QED BY <1>1, <1>2, <2>1
<1>7. ASSUME NEW p \in Pod, LeaderLost(p) \/ Read(p) \/ Create(p) \/ Record(p) PROVE FALSE
  BY <1>3, <1>7 DEF LeaderLost, Read, Create, Record
<1>8. CASE Expire \/ MissRenewal \/ Rollout \/ UNCHANGED vars
  BY <1>1, <1>8 DEF Expire, MissRenewal, Rollout, vars, pods, networks
<1> QED BY <1>4, <1>5, <1>6, <1>7, <1>8 DEF Next, Main, Deploy

-----------------------------------------------------------------------------
(* A lapse for every network but one.                                      *)

LEMMA Counting ==
    ASSUME NEW S \in SUBSET Pod, NEW T \in SUBSET Pod, NEW p
    PROVE  /\ Cardinality(S) \in Nat /\ Cardinality(T) \in Nat
           /\ T \subseteq S => Cardinality(T) <= Cardinality(S)
           /\ T \subseteq S \cup {p} => Cardinality(T) <= Cardinality(S) + 1
           /\ T \subseteq S \ {p} /\ p \in S => Cardinality(T) <= Cardinality(S) - 1
<1>1. IsFiniteSet(S) /\ IsFiniteSet(T)
  BY PodAssumption, FS_Subset
<1>2. Cardinality(S) \in Nat /\ Cardinality(T) \in Nat
  BY <1>1, FS_CardinalityType
<1>3. T \subseteq S => Cardinality(T) <= Cardinality(S)
  BY <1>1, FS_Subset
<1>4. T \subseteq S \cup {p} => Cardinality(T) <= Cardinality(S) + 1
  <2>1. IsFiniteSet(S \cup {p}) /\ Cardinality(S \cup {p}) <= Cardinality(S) + 1
    <3>1. /\ IsFiniteSet(S \cup {p})
          /\ Cardinality(S \cup {p}) = IF p \in S THEN Cardinality(S) ELSE Cardinality(S) + 1
      BY <1>1, FS_AddElement
    <3> QED BY <1>2, <3>1
  <2>2. ASSUME T \subseteq S \cup {p} PROVE Cardinality(T) <= Cardinality(S \cup {p})
    BY <2>1, <2>2, FS_Subset
  <2>3. Cardinality(S \cup {p}) \in Nat
    BY <2>1, FS_CardinalityType
  <2> QED BY <1>2, <2>1, <2>2, <2>3
<1>5. T \subseteq S \ {p} /\ p \in S => Cardinality(T) <= Cardinality(S) - 1
  <2>1. IsFiniteSet(S \ {p}) /\ (p \in S => Cardinality(S \ {p}) = Cardinality(S) - 1)
    BY <1>1, FS_RemoveElement
  <2>2. ASSUME T \subseteq S \ {p} PROVE Cardinality(T) <= Cardinality(S \ {p})
    BY <2>1, <2>2, FS_Subset
  <2> QED BY <1>2, <2>1, <2>2
<1> QED BY <1>2, <1>3, <1>4, <1>5

\* No pod that may create comes in, and nothing of what is counted changes.
LEMMA SameCount ==
    ASSUME TypeOK, LapseInv, Pending' \subseteq Pending, Excused' = Excused,
           created' = created, lapses' \in Nat, lapses' >= lapses
    PROVE  LapseInv'
<1>1. Pending \subseteq Pod /\ Pending' \subseteq Pod
  BY DEF Pending
<1>2. /\ Cardinality(Pending) \in Nat /\ Cardinality(Pending') \in Nat
      /\ Cardinality(Pending') <= Cardinality(Pending)
  BY <1>1, Counting
<1>3. Excused \in {0, 1}
  BY DEF Excused
<1> QED BY <1>2, <1>3 DEF LapseInv, TypeOK

\* A process ends: with it a network that no lapse answered for, if it was the
\* leader's and not recorded, and then the end counts as one.
LEMMA EndCount ==
    ASSUME TypeOK, WorkInv, LapseInv, NEW p \in Pod, NEW next \in {"off", "validate"},
           End(p, next), lapses' = lapses + Loss(p), UNCHANGED <<lease, networks>>
    PROVE  LapseInv'
<1>1. Pending' \subseteq Pending
  BY DEF Pending, End, networks, TypeOK
<1>2. Pending \subseteq Pod /\ Pending' \subseteq Pod
  BY DEF Pending
<1>3. /\ Cardinality(Pending) \in Nat /\ Cardinality(Pending') \in Nat
      /\ Cardinality(Pending') <= Cardinality(Pending)
  BY <1>1, <1>2, Counting
<1>4. Excused \in {0, 1} /\ Excused' \in {0, 1} /\ Loss(p) \in {0, 1}
  BY DEF Excused, Loss
<1>5. Excused <= Excused' + Loss(p)
  <2>1. CASE status # 0
    BY <1>4, <2>1 DEF Excused, networks
  <2>2. CASE status = 0 /\ lease = p /\ work[p] = "record"
    <3>1. Loss(p) = 1
      BY <2>2 DEF Loss, WorkInv
    <3>2. PICK before \in {0, 1}, after \in {0, 1} : before = Excused /\ after = Excused'
      BY <1>4
    <3>3. before <= after + 1
      OBVIOUS
    <3> QED BY <3>1, <3>2, <3>3
  <2>3. CASE status = 0 /\ ~(lease = p /\ work[p] = "record")
    <3>1. \A q \in Pod : lease = q /\ work[q] = "record" => lease' = q /\ work'[q] = "record"
      BY <2>3 DEF End, TypeOK
    <3> QED BY <1>4, <2>3, <3>1 DEF Excused, networks
  <2> QED BY <2>1, <2>2, <2>3
<1> QED BY <1>3, <1>4, <1>5 DEF LapseInv, TypeOK, networks

LEMMA CreateCount == ASSUME TypeOK, WorkInv, LapseInv, NEW p \in Pod, Create(p) PROVE LapseInv'
<1> SUFFICES ASSUME LeaderElection
             PROVE  created' + Cardinality(Pending') <= lapses' + Excused'
  BY DEF LapseInv
<1>1. /\ stage[p] = "run" /\ work[p] = "create" /\ work' = [work EXCEPT ![p] = "record"]
      /\ created' = created + 1
      /\ UNCHANGED <<stage, lease, status, lapses>>
  BY DEF Create, WorkInv, pods
<1>2. Pending \subseteq Pod /\ Pending' \subseteq Pod /\ Pending' \subseteq Pending \ {p}
  BY <1>1 DEF Pending, TypeOK
<1>3. /\ Cardinality(Pending) \in Nat /\ Cardinality(Pending') \in Nat
      /\ Cardinality(Pending') <= Cardinality(Pending)
      /\ p \in Pending => Cardinality(Pending') <= Cardinality(Pending) - 1
  BY <1>2, Counting
<1>4. Excused \in {0, 1} /\ Excused' \in {0, 1} /\ Excused <= Excused'
  BY <1>1 DEF Excused, TypeOK
<1>5. CASE p \in Pending
  BY <1>1, <1>3, <1>4, <1>5 DEF LapseInv, TypeOK
<1>6. CASE p \notin Pending
  <2>1. status = 0 /\ lease = p
    BY <1>1, <1>6 DEF Pending
  <2>2. Excused = 0 /\ Excused' = 1
    BY <1>1, <2>1 DEF Excused, TypeOK
  <2> QED BY <1>1, <1>3, <2>2 DEF LapseInv, TypeOK
<1> QED BY <1>5, <1>6

LEMMA RecordCount == ASSUME TypeOK, WorkInv, LapseInv, NEW p \in Pod, Record(p) PROVE LapseInv'
<1> SUFFICES ASSUME LeaderElection
             PROVE  created' + Cardinality(Pending') <= lapses' + Excused'
  BY DEF LapseInv
<1>1. /\ stage[p] = "run" /\ work[p] = "record" /\ work' = [work EXCEPT ![p] = "idle"]
      /\ status' # 0
      /\ UNCHANGED <<stage, lease, created, lapses>>
  BY DEF Record, WorkInv, pods
<1>2. Pending \subseteq Pod /\ Pending' \subseteq Pod /\ Pending' \subseteq Pending \cup {lease}
  BY <1>1 DEF Pending, TypeOK
<1>3. /\ Cardinality(Pending) \in Nat /\ Cardinality(Pending') \in Nat
      /\ Pending' \subseteq Pending => Cardinality(Pending') <= Cardinality(Pending)
      /\ Cardinality(Pending') <= Cardinality(Pending) + 1
  BY <1>2, Counting
<1>4. Excused' = 1 /\ Excused \in {0, 1}
  BY <1>1 DEF Excused
<1>5. CASE Excused = 0
  BY <1>1, <1>3, <1>4, <1>5 DEF LapseInv, TypeOK
<1>6. CASE Excused = 1
  <2>1. Pending' \subseteq Pending
    BY <1>1, <1>6 DEF Excused, Pending, TypeOK
  <2> QED BY <1>1, <1>3, <1>4, <1>6, <2>1 DEF LapseInv, TypeOK
<1> QED BY <1>4, <1>5, <1>6

LEMMA MissCount == ASSUME TypeOK, WorkInv, LapseInv, MissRenewal PROVE LapseInv'
<1> SUFFICES ASSUME LeaderElection
             PROVE  created' + Cardinality(Pending') <= lapses' + Excused'
  BY DEF LapseInv
<1>1. /\ lease \in Pod /\ stage[lease] = "run" /\ lease' = Nobody /\ lapses' = lapses + 1
      /\ UNCHANGED <<stage, work, status, created>>
  BY DEF MissRenewal, TypeOK, jobs, networks
<1>2. Pending \subseteq Pod /\ Pending' \subseteq Pod /\ Pending' \subseteq Pending \cup {lease}
  BY <1>1 DEF Pending
<1>3. /\ Cardinality(Pending) \in Nat /\ Cardinality(Pending') \in Nat
      /\ Pending' \subseteq Pending => Cardinality(Pending') <= Cardinality(Pending)
      /\ Cardinality(Pending') <= Cardinality(Pending) + 1
  BY <1>2, Counting
<1>4. Excused \in {0, 1} /\ Excused' \in {0, 1}
  BY DEF Excused
<1>5. CASE Excused' = Excused
  BY <1>1, <1>3, <1>4, <1>5 DEF LapseInv, TypeOK
<1>6. CASE Excused' # Excused
  <2>1. status = 0 /\ work[lease] = "record"
    BY <1>1, <1>6, NobodyAssumption DEF Excused
  <2>2. Pending' \subseteq Pending
    BY <1>1, <2>1 DEF Pending
  <2> QED BY <1>1, <1>3, <1>4, <2>2 DEF LapseInv, TypeOK
<1> QED BY <1>5, <1>6

LEMMA LapseStep == ASSUME TypeOK, WorkInv, LapseInv, [Next]_vars PROVE LapseInv'
<1>1. ASSUME NEW p \in Pod, Proceed(p) \/ Exit(p) \/ Launch(p) PROVE LapseInv'
  <2>1. stage[p] # "run" /\ stage'[p] # "run" /\ \A q \in Pod \ {p} : stage'[q] = stage[q]
    BY <1>1, AfterType DEF Proceed, Exit, Launch, End, TypeOK, StartUp
  <2>2. work[p] = "idle" /\ work' = work /\ UNCHANGED <<lease, status, created, lapses>>
    BY <1>1, <2>1 DEF Proceed, Exit, Launch, End, jobs, networks, WorkInv, TypeOK
  <2>3. Pending' \subseteq Pending /\ Excused' = Excused
    BY <2>1, <2>2 DEF Pending, Excused
  <2> QED BY <2>2, <2>3, SameCount DEF TypeOK
<1>2. ASSUME NEW p \in Pod, Start(p) PROVE LapseInv'
  <2>1. /\ stage[p] = "start" /\ work[p] = "idle" /\ work' = work
        /\ UNCHANGED <<status, created, lapses>>
        /\ \A q \in Pod \ {p} : stage'[q] = stage[q]
    BY <1>2 DEF Start, WorkInv, jobs, networks, TypeOK
  <2>2. LeaderElection => lease = Nobody /\ lease' = p
    BY <1>2 DEF Start, MayRun
  <2>3. LeaderElection => Pending' \subseteq Pending /\ Excused' = Excused
    BY <2>1, <2>2, NobodyAssumption DEF Pending, Excused
  <2>4. CASE LeaderElection
    BY <2>1, <2>3, <2>4, SameCount DEF TypeOK
  <2>5. CASE ~LeaderElection
    BY <2>5 DEF LapseInv
  <2> QED BY <2>4, <2>5
<1>3. ASSUME NEW p \in Pod, LeaderLost(p) \/ Crash(p) \/ Retire(p) PROVE LapseInv'
  <2>1. \E next \in {"off", "validate"} : End(p, next)
    BY <1>3 DEF LeaderLost, Crash, Retire
  <2>2. lapses' = lapses + Loss(p) /\ UNCHANGED <<lease, networks>>
    BY <1>3 DEF LeaderLost, Crash, Retire
  <2> QED BY <2>1, <2>2, EndCount
<1>4. ASSUME NEW p \in Pod, Read(p) PROVE LapseInv'
  <2>1. /\ status = 0 /\ work[p] = "idle" /\ work' = [work EXCEPT ![p] = "create"]
        /\ UNCHANGED <<stage, lease, status, created, lapses>>
    BY <1>4 DEF Read, pods, networks
  <2>2. Pending' \subseteq Pending /\ Excused' = Excused
    BY <2>1 DEF Pending, Excused, TypeOK
  <2> QED BY <2>1, <2>2, SameCount DEF TypeOK
<1>5. CASE Expire
  <2>1. /\ lease \in Pod /\ stage[lease] # "run" /\ work[lease] = "idle" /\ lease' = Nobody
        /\ UNCHANGED <<stage, work, status, created, lapses>>
    BY <1>5 DEF Expire, TypeOK, WorkInv, jobs, networks
  <2>2. Pending' \subseteq Pending /\ Excused' = Excused
    BY <2>1, NobodyAssumption DEF Pending, Excused
  <2> QED BY <2>1, <2>2, SameCount DEF TypeOK
<1>6. CASE Rollout \/ UNCHANGED vars
  <2>1. UNCHANGED <<stage, work, lease, status, created, lapses>>
    BY <1>6 DEF Rollout, vars, pods, jobs, networks
  <2>2. Pending' \subseteq Pending /\ Excused' = Excused
    BY <2>1 DEF Pending, Excused
  <2> QED BY <2>1, <2>2, SameCount DEF TypeOK
<1> QED BY <1>1, <1>2, <1>3, <1>4, <1>5, <1>6, CreateCount, RecordCount, MissCount
        DEF Next, Main, Deploy

LEMMA IInvHolds == Spec => []IInv
<1>1. IInv /\ [Next]_vars => IInv'
  BY TypeStep, WorkStep, StuckStep, LapseStep DEF IInv
<1> QED BY InitIInv, <1>1, PTL DEF Spec

-----------------------------------------------------------------------------
\* However many pods start, stop and take over: main's stages, the lease, the
\* work of every pod and the ids it holds keep their types.
THEOREM TypeCorrect == Spec => []TypeOK
<1>1. IInv => TypeOK
  BY DEF IInv
<1> QED BY IInvHolds, <1>1, PTL

\* The LeaderElection option of main: among any number of pods a second network
\* for one resource always has a lapse to answer for it, a leader that missed a
\* renewal or a process that ended before it recorded the id it had made.
THEOREM LeaderCreatesOnce == Spec => []OneNetworkPerLapse
<1>1. IInv => OneNetworkPerLapse
  <2> SUFFICES ASSUME IInv, LeaderElection PROVE created <= 1 + lapses
    BY DEF OneNetworkPerLapse
  <2>1. Cardinality(Pending) \in Nat /\ Excused \in {0, 1}
    BY Counting DEF Pending, Excused
  <2> QED BY <2>1 DEF IInv, LapseInv, TypeOK
<1> QED BY IInvHolds, <1>1, PTL

\* The os.Exit(1) of main: with a flag that main cannot use no pod, restarted as
\* often as may be, gets as far as to create a network.
THEOREM RejectedFlagsStopMain == Spec => []RejectedCreatesNothing
<1>1. IInv => RejectedCreatesNothing
  BY DEF IInv, StuckInv, RejectedCreatesNothing, Fatal, TypeOK
<1> QED BY IInvHolds, <1>1, PTL
=============================================================================
