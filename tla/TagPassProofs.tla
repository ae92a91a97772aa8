--------------------------- MODULE TagPassProofs ---------------------------
(***************************************************************************)
(* What a settled resource means, for every set of keys and values, every  *)
(* set of default tags and any number of edits and changes by others. The  *)
(* ground is that one pass of mirrorAWSTags over what another pass has     *)
(* left finds nothing to mirror.                                           *)
(***************************************************************************)
EXTENDS TagPass, TLAPS

\* The tags a reconcile wants a network with tags r to have.
Wanted == Merge(spec, DefaultTags)
Goal(r) == SyncAWSTags(Wanted, r)

\* The network has what a reconcile of this spec would want it to have.
AtRest == remote = Goal(remote)

\* What a reconcile has in hand where, and what a settled resource is.
IInv ==
    /\ pc \in {"create", "read"} => desired = Wanted
    /\ pc = "sync" => desired = Goal(remote) /\ ~AtRest
    /\ pc \in {"same", "patch"} => AtRest
    /\ settled => AtRest

\* Mirroring is idempotent: what was mirrored once is mirrored.
LEMMA MirrorTwice ==
    ASSUME NEW a, NEW r
    PROVE  LET m == SyncAWSTags([k \in TagKey |-> a[k]], r)
           IN  SyncAWSTags([k \in TagKey |-> a[k]], m) = m
<1> DEFINE f == [k \in TagKey |-> a[k]]
           m == SyncAWSTags(f, r)
<1>1. ASSUME NEW k \in TagKey
      PROVE  m[k] = IF k \in AWSKey /\ m[k] # Absent THEN m[k] ELSE f[k]
  BY DEF SyncAWSTags
<1>2. SyncAWSTags(f, m) = [k \in TagKey |-> IF k \in AWSKey /\ m[k] # Absent THEN m[k] ELSE f[k]]
  BY DEF SyncAWSTags
<1>3. m = [k \in TagKey |-> m[k]]
  BY DEF SyncAWSTags
<1> HIDE DEF m, f
<1>4. [k \in TagKey |-> IF k \in AWSKey /\ m[k] # Absent THEN m[k] ELSE f[k]]
          = [k \in TagKey |-> m[k]]
  BY <1>1
<1> QED BY <1>2, <1>3, <1>4 DEF m, f

LEMMA WantedIsMap == Wanted = [k \in TagKey |-> Wanted[k]]
BY DEF Wanted, Merge

\* A network that was given the tags of a goal is at rest.
LEMMA GoalRests == ASSUME NEW r PROVE Goal(Goal(r)) = Goal(r)
BY WantedIsMap, MirrorTwice DEF Goal

\* So is one that was created with the wanted tags, without "aws:" tags to mirror.
LEMMA WantedRests == Goal(Wanted) = Wanted
<1>1. Goal(Wanted) = [k \in TagKey |-> IF k \in AWSKey /\ Wanted[k] # Absent
                                       THEN Wanted[k] ELSE Wanted[k]]
  BY DEF Goal, SyncAWSTags
<1>2. Goal(Wanted) = [k \in TagKey |-> Wanted[k]]
  BY <1>1
<1> QED BY <1>2, WantedIsMap

LEMMA StepIInv == ASSUME IInv, [Next]_vars PROVE IInv'
<1>1. CASE EditSpec \/ Drift
  BY <1>1 DEF EditSpec, Drift, IInv
<1>2. CASE EnsureTags
  <2>1. Wanted' = Wanted /\ desired' = Wanted /\ (AtRest' <=> AtRest)
    BY <1>2 DEF EnsureTags, Wanted, AtRest, Goal
  <2> QED BY <1>2, <2>1 DEF EnsureTags, IInv
<1>3. CASE Create
  <2>1. Wanted' = Wanted /\ remote' = Wanted
    BY <1>3 DEF Create, IInv, Wanted
  <2>2. AtRest'
    BY <2>1, WantedRests DEF AtRest, Goal
  <2> QED BY <1>3, <2>2 DEF Create, IInv
<1>4. CASE ReadOne
  <2>1. /\ remote' = remote /\ latest' = remote /\ settled' = settled
        /\ Wanted' = Wanted /\ desired' = Goal(remote) /\ (AtRest' <=> AtRest)
        /\ Goal(remote)' = Goal(remote)
    BY <1>4 DEF ReadOne, IInv, Wanted, Goal, AtRest
  <2>2. pc' = IF AtRest THEN "same" ELSE "sync"
    BY <1>4, <2>1 DEF ReadOne, AtRest
  <2> QED BY <2>1, <2>2 DEF IInv
<1>5. CASE SameTags
  <2>1. AtRest' <=> AtRest
    BY <1>5 DEF SameTags, AtRest, Goal, Wanted
  <2> QED BY <1>5, <2>1 DEF SameTags, Forget, IInv
<1>6. CASE Sync
  <2>1. Wanted' = Wanted /\ remote' = Goal(remote)
    BY <1>6 DEF Sync, IInv, Wanted
  <2>2. AtRest'
    BY <2>1, GoalRests DEF AtRest, Goal
  <2> QED BY <1>6, <2>2 DEF Sync, IInv
<1>7. CASE Reject
  <2>1. AtRest' <=> AtRest
    BY <1>7 DEF Reject, AtRest, Goal, Wanted
  <2> QED BY <1>7, <2>1 DEF Reject, Forget, IInv
<1>8. CASE Patch
  <2>1. AtRest /\ pc' = "idle" /\ remote' = remote /\ (settled' => spec' = spec)
    BY <1>8 DEF Patch, Forget, IInv
  <2>2. settled' => AtRest'
    BY <2>1 DEF AtRest, Goal, Wanted
  <2> QED BY <2>1, <2>2 DEF IInv
<1>9. CASE UNCHANGED vars
  <2>1. Wanted' = Wanted /\ (AtRest' <=> AtRest) /\ Goal(remote)' = Goal(remote)
    BY <1>9 DEF vars, AtRest, Goal, Wanted
  <2> QED BY <1>9, <2>1 DEF vars, IInv
<1> QED BY <1>1, <1>2, <1>3, <1>4, <1>5, <1>6, <1>7, <1>8, <1>9 DEF Next

LEMMA IInvHolds == Spec => []IInv
<1>1. Init => IInv
  BY DEF Init, IInv
<1>2. IInv /\ [Next]_vars => IInv'
  BY StepIInv
<1> QED BY <1>1, <1>2, PTL DEF Spec

\* A settled resource gives rise to no further TagResource or UntagResource:
\* the comparison of newResourceDelta finds nothing, whatever tags of AWS the
\* network has and whatever keys the user shares with the flags.
THEOREM SettledStaysQuiet == Spec => []SettledIsQuiet
<1>1. IInv => SettledIsQuiet
  BY DEF IInv, SettledIsQuiet
<1> QED BY IInvHolds, <1>1, PTL

\* A settled resource has on its network exactly the tags that its spec and the
\* --resource-tags flag ask for, apart from those of AWS.
THEOREM SettledHasItsTags == Spec => []SettledIsDone
<1>1. AtRest => \A k \in TagKey \ AWSKey : remote[k] = Wanted[k]
  <2> SUFFICES ASSUME AtRest, NEW k \in TagKey \ AWSKey PROVE remote[k] = Wanted[k]
    OBVIOUS
  <2>1. Goal(remote)[k] = Wanted[k]
    BY DEF Goal, SyncAWSTags
  <2> QED BY <2>1 DEF AtRest
<1>2. IInv => SettledIsDone
  BY <1>1 DEF IInv, SettledIsDone, Wanted
<1> QED BY IInvHolds, <1>2, PTL
=============================================================================
