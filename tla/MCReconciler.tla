---------------------------- MODULE MCReconciler ----------------------------
(* Instances of Reconciler for TLC: one user tag, one tag of the controller,  *)
(* one tag of AWS, two values; the specs a user may write differ where the    *)
(* properties can tell them apart.                                            *)
EXTENDS Reconciler, TLC

MCAWSKey == {"aws:key"}
MCSystemKey == {"system"}
MCTagKey == {"user", "system", "aws:key"}
MCDefaultTags == [k \in TagKey |-> IF k = "system" THEN "v1" ELSE Absent]

WithTags(d, t) ==
    [description |-> d, tags |-> [k \in TagKey |-> IF k \in DOMAIN t THEN t[k] ELSE Absent]]

NoFields == WithTags(Nil, << >>)
Plain == WithTags("d1", [user |-> "v1"])
Overriding == WithTags("d1", [user |-> "v2", system |-> "v2"])
Undescribed == WithTags(Nil, [user |-> "v2", system |-> "v2"])
Invalid == WithTags("bad", [user |-> "v1"])
AWSTagged == WithTags("d1", "aws:key" :> "v1")

MCUserSpec == {NoFields, Plain, Overriding, Undescribed, Invalid, AWSTagged}
MCUserSpecSmall == {Plain, Undescribed, Invalid}
MCUserSpecTags == {Plain, Overriding}

Symmetry == Permutations(Id \ {Foreign})
=============================================================================
