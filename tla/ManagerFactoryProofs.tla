------------------------ MODULE ManagerFactoryProofs ------------------------
(***************************************************************************)
(* ManagerFor for any number of workers, calls, accounts, regions and role *)
(* ARNs: the cache key tells every two requests apart, the map is never    *)
(* raced on, and a manager never serves another account, region or role.   *)
(***************************************************************************)
EXTENDS ManagerFactory, SequenceTheorems, TLAPS

\* The Go RWMutex as pc sees it: who holds it is where it stands in the code.
LockInv ==
    /\ readers = {w \in Worker : pc[w] \in {"lookup", "runlock"}}
    /\ \A w \in Worker : pc[w] \in {"wait", "store"} <=> writer = w
    /\ \A w \in Worker : pc[w] = "store" => readers = {}

\* A key of the map holds managers of one request only, and whatever was made
\* has left something in the map.
CacheInv ==
    /\ \A r \in Request : rmCache[RmId(r)] # NoManager => rmCache[RmId(r)].for = r
    /\ \A m \in made : rmCache[RmId(m.for)] # NoManager

\* A worker whose lookup missed has made no manager for this request before.
MissInv ==
    \A w \in Worker :
        (pc[w] = "runlock" /\ rm[w] = NoManager) \/ pc[w] \in Miss =>
            \A m \in made : m.by = w => m.for # req[w]

IInv ==
    /\ TypeOK /\ LockInv /\ CacheInv /\ MissInv
    /\ RightManager /\ BuildsOncePerWorker

-----------------------------------------------------------------------------
\* The key made with fmt.Sprintf("%s/%s/%s", id, region, roleARN) is different
\* for different arguments, slashes in the role ARN notwithstanding.
THEOREM RmIdInjective ==
    ASSUME NEW r \in Request, NEW q \in Request, RmId(r) = RmId(q)
    PROVE  r = q
<1> DEFINE S == Account \cup Region \cup Part
<1>1. ASSUME NEW x \in Request
      PROVE  /\ <<x.id, x.region>> \in Seq(S) /\ Len(<<x.id, x.region>>) = 2
             /\ x.role \in Seq(S)
  BY RoleARNAssumption, SeqMonotonic DEF Request
<1>2. ASSUME NEW x \in Request
      PROVE  /\ Len(RmId(x)) = 2 + Len(x.role)
             /\ RmId(x)[1] = x.id /\ RmId(x)[2] = x.region
             /\ \A i \in 1 .. Len(x.role) : RmId(x)[2 + i] = x.role[i]
  <2> DEFINE s == <<x.id, x.region>>
             t == x.role
  <2>1. s \in Seq(S) /\ Len(s) = 2 /\ t \in Seq(S) /\ Len(t) \in Nat
    BY <1>1, LenProperties
  <2>2. s[1] = x.id /\ s[2] = x.region
    OBVIOUS
  <2>3. /\ Len(s \o t) = Len(s) + Len(t)
        /\ \A i \in 1 .. Len(s) + Len(t) :
              (s \o t)[i] = IF i <= Len(s) THEN s[i] ELSE t[i - Len(s)]
    <3> HIDE DEF s, t, S
    <3> QED BY <2>1, ConcatProperties
  <2>4. RmId(x) = s \o t
    BY DEF RmId
  <2>5. \A i \in 1 .. Len(t) : (s \o t)[2 + i] = t[i]
    <3> HIDE DEF s, t, S
    <3> SUFFICES ASSUME NEW i \in 1 .. Len(t) PROVE (s \o t)[2 + i] = t[i]
      OBVIOUS
    <3>1. 2 + i \in 1 .. Len(s) + Len(t) /\ ~(2 + i <= Len(s)) /\ 2 + i - Len(s) = i
      BY <2>1
    <3> QED BY <3>1, <2>3
  <2>6. (s \o t)[1] = s[1] /\ (s \o t)[2] = s[2]
    <3> HIDE DEF s, t, S
    <3>1. 1 \in 1 .. Len(s) + Len(t) /\ 2 \in 1 .. Len(s) + Len(t)
      BY <2>1
    <3> QED BY <3>1, <2>1, <2>3
  <2> HIDE DEF s
  <2> QED BY <2>1, <2>2, <2>3, <2>4, <2>5, <2>6
<1>3. Len(r.role) = Len(q.role)
  <2>1. Len(r.role) \in Nat /\ Len(q.role) \in Nat
    BY <1>1, LenProperties
  <2> QED BY <1>2, <2>1
<1>4. ASSUME NEW i \in 1 .. Len(r.role) PROVE r.role[i] = q.role[i]
  <2>1. i \in 1 .. Len(q.role)
    BY <1>3
  <2>2. RmId(r)[2 + i] = r.role[i]
    BY <1>2
  <2>3. RmId(q)[2 + i] = q.role[i]
    BY <1>2, <2>1
  <2> QED BY <2>2, <2>3
<1>5. r.role = q.role
  BY <1>1, <1>3, <1>4, SeqEqual
<1>6. r.id = q.id /\ r.region = q.region
  BY <1>2
<1> QED BY <1>5, <1>6 DEF Request

LEMMA RmIdType == \A r \in Request : RmId(r) \in RmIds
BY DEF RmIds

-----------------------------------------------------------------------------
LEMMA InitIInv == Init => IInv
<1> SUFFICES ASSUME Init PROVE IInv
  OBVIOUS
<1>1. TypeOK
  BY DEF Init, TypeOK, Steps
<1>2. LockInv
  BY NoWorkerAssumption DEF Init, LockInv
<1>3. CacheInv /\ MissInv /\ RightManager /\ BuildsOncePerWorker
  BY RmIdType DEF Init, CacheInv, MissInv, Miss, RightManager, BuildsOncePerWorker
<1> QED BY <1>1, <1>2, <1>3 DEF IInv

LEMMA TypeStep == TypeOK /\ [Next]_vars => TypeOK'
<1> SUFFICES ASSUME TypeOK, [Next]_vars PROVE TypeOK'
  OBVIOUS
<1> USE DEF TypeOK, Steps, Miss, Goto
<1>1. ASSUME NEW w \in Worker, Call(w) PROVE TypeOK'
  BY <1>1 DEF Call
<1>2. ASSUME NEW w \in Worker, RLock(w) PROVE TypeOK'
  BY <1>2 DEF RLock
<1>3. ASSUME NEW w \in Worker, Lookup(w) PROVE TypeOK'
  BY <1>3, RmIdType DEF Lookup
<1>4. ASSUME NEW w \in Worker, RUnlock(w) PROVE TypeOK'
  BY <1>4 DEF RUnlock
<1>5. ASSUME NEW w \in Worker, LockAnnounce(w) PROVE TypeOK'
  BY <1>5 DEF LockAnnounce
<1>6. ASSUME NEW w \in Worker, LockAcquire(w) PROVE TypeOK'
  BY <1>6 DEF LockAcquire
<1>7. ASSUME NEW w \in Worker, Store(w) PROVE TypeOK'
  <2>1. NewResourceManager(w) \in Manager
    BY DEF NewResourceManager, Manager
  <2> QED BY <1>7, <2>1 DEF Store
<1>8. CASE UNCHANGED vars
  BY <1>8 DEF vars
<1> QED BY <1>1, <1>2, <1>3, <1>4, <1>5, <1>6, <1>7, <1>8 DEF Next, ManagerFor

LEMMA LockStep == TypeOK /\ LockInv /\ [Next]_vars => LockInv'
<1> SUFFICES ASSUME TypeOK, LockInv, [Next]_vars PROVE LockInv'
  OBVIOUS
<1> USE NoWorkerAssumption DEF TypeOK, LockInv, Steps, Miss, Goto
<1>1. ASSUME NEW w \in Worker, Call(w) PROVE LockInv'
  BY <1>1 DEF Call
<1>2. ASSUME NEW w \in Worker, RLock(w) PROVE LockInv'
  BY <1>2 DEF RLock
<1>3. ASSUME NEW w \in Worker, Lookup(w) PROVE LockInv'
  BY <1>3 DEF Lookup
<1>4. ASSUME NEW w \in Worker, RUnlock(w) PROVE LockInv'
  BY <1>4 DEF RUnlock
<1>5. ASSUME NEW w \in Worker, LockAnnounce(w) PROVE LockInv'
  BY <1>5 DEF LockAnnounce
<1>6. ASSUME NEW w \in Worker, LockAcquire(w) PROVE LockInv'
  BY <1>6 DEF LockAcquire
<1>7. ASSUME NEW w \in Worker, Store(w) PROVE LockInv'
  BY <1>7 DEF Store
<1>8. CASE UNCHANGED vars
  BY <1>8 DEF vars
<1> QED BY <1>1, <1>2, <1>3, <1>4, <1>5, <1>6, <1>7, <1>8 DEF Next, ManagerFor

\* Only Call, Lookup and Store touch what these three invariants speak of; for
\* the other steps it is enough that the cache and its history stay.
LEMMA CacheStep ==
    IInv /\ [Next]_vars => (CacheInv /\ MissInv /\ RightManager /\ BuildsOncePerWorker)'
<1> DEFINE Goal == CacheInv /\ MissInv /\ RightManager /\ BuildsOncePerWorker
<1> SUFFICES ASSUME IInv, [Next]_vars PROVE Goal'
  OBVIOUS
<1> USE DEF IInv, TypeOK, Goto
<1>1. ASSUME NEW w \in Worker, Call(w) PROVE Goal'
  <2>1. CacheInv' /\ BuildsOncePerWorker'
    BY <1>1 DEF Call, CacheInv, BuildsOncePerWorker
  <2>2. MissInv'
    BY <1>1 DEF Call, MissInv, Miss
  <2>3. RightManager'
    BY <1>1 DEF Call, RightManager
  <2> QED BY <2>1, <2>2, <2>3
<1>2. ASSUME NEW w \in Worker, Lookup(w) PROVE Goal'
  <2>1. CacheInv' /\ BuildsOncePerWorker'
    BY <1>2 DEF Lookup, CacheInv, BuildsOncePerWorker
  <2>2. MissInv'
    BY <1>2, RmIdType DEF Lookup, MissInv, Miss, CacheInv
  <2>3. RightManager'
    BY <1>2, RmIdType DEF Lookup, RightManager, CacheInv
  <2> QED BY <2>1, <2>2, <2>3
<1>3. ASSUME NEW w \in Worker, Store(w) PROVE Goal'
  <2> DEFINE new == NewResourceManager(w)
  <2>1. new \in Manager /\ new.by = w /\ new.for = req[w] /\ new # NoManager
    BY NoManagerAssumption DEF NewResourceManager, Manager
  <2>2. /\ made' = made \cup {new}
        /\ rmCache' = [rmCache EXCEPT ![RmId(req[w])] = new]
        /\ rm' = [rm EXCEPT ![w] = new]
        /\ pc' = [pc EXCEPT ![w] = "idle"]
        /\ pc[w] = "store" /\ req' = req
    BY <1>3 DEF Store
  <2> HIDE DEF new
  <2>3. CacheInv'
    <3>1. ASSUME NEW r \in Request, rmCache'[RmId(r)] # NoManager
          PROVE  rmCache'[RmId(r)].for = r
      <4>1. CASE RmId(r) = RmId(req[w])
        BY <2>1, <2>2, <4>1, RmIdType, RmIdInjective
      <4>2. CASE RmId(r) # RmId(req[w])
        BY <2>2, <3>1, <4>2, RmIdType DEF CacheInv
      <4> QED BY <4>1, <4>2
    <3>2. ASSUME NEW m \in made' PROVE rmCache'[RmId(m.for)] # NoManager
      <4>1. m.for \in Request
        BY <2>1, <2>2 DEF Manager
      <4> QED BY <2>1, <2>2, <4>1, RmIdType DEF CacheInv
    <3> QED BY <3>1, <3>2 DEF CacheInv
  <2>4. MissInv'
    BY <2>1, <2>2 DEF MissInv, Miss
  <2>5. RightManager'
    BY <2>1, <2>2 DEF RightManager
  <2>6. BuildsOncePerWorker'
    <3>1. \A m \in made : m.by = w => m.for # req[w]
      BY <2>2 DEF MissInv, Miss
    <3> QED BY <2>1, <2>2, <3>1 DEF BuildsOncePerWorker
  <2> QED BY <2>3, <2>4, <2>5, <2>6
<1>4. ASSUME NEW w \in Worker, RLock(w) \/ RUnlock(w) \/ LockAnnounce(w) \/ LockAcquire(w)
      PROVE  Goal'
  <2>1. UNCHANGED <<req, rm, rmCache, made>>
    BY <1>4 DEF RLock, RUnlock, LockAnnounce, LockAcquire
  <2>2. MissInv'
    BY <1>4, <2>1 DEF RLock, RUnlock, LockAnnounce, LockAcquire, MissInv, Miss
  <2> QED BY <2>1, <2>2 DEF CacheInv, RightManager, BuildsOncePerWorker
<1>5. CASE UNCHANGED vars
  BY <1>5 DEF vars, CacheInv, MissInv, RightManager, BuildsOncePerWorker
<1> QED BY <1>1, <1>2, <1>3, <1>4, <1>5 DEF Next, ManagerFor

LEMMA IInvHolds == Spec => []IInv
<1>1. IInv /\ [Next]_vars => IInv'
  BY TypeStep, LockStep, CacheStep DEF IInv
<1> QED BY InitIInv, <1>1, PTL DEF Spec

-----------------------------------------------------------------------------
\* Every variable of ManagerFor keeps its type.
THEOREM TypeCorrect == Spec => []TypeOK
<1>1. IInv => TypeOK
  BY DEF IInv
<1> QED BY IInvHolds, <1>1, PTL

\* The Go map is never read or written while another worker writes it, however
\* many workers there are.
THEOREM NoMapRace == Spec => []MapRaceFree
<1>1. IInv => MapRaceFree
  BY NoWorkerAssumption DEF IInv, TypeOK, LockInv, MapRaceFree
<1> QED BY IInvHolds, <1>1, PTL

\* ManagerFor only ever hands out a manager of the account, region and role it
\* was asked for.
THEOREM ManagerIsRight == Spec => []RightManager
<1>1. IInv => RightManager
  BY DEF IInv
<1> QED BY IInvHolds, <1>1, PTL

\* One worker alone never builds a second manager for the same request: two
\* managers for one account, region and role come from two workers.
THEOREM OneBuildPerWorker == Spec => []BuildsOncePerWorker
<1>1. IInv => BuildsOncePerWorker
  BY DEF IInv
<1> QED BY IInvHolds, <1>1, PTL
=============================================================================
