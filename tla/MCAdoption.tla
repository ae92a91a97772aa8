----------------------------- MODULE MCAdoption -----------------------------
(* Instances of Adoption for TLC: a network that exists, with or without a    *)
(* description, a user's tag and a tag of AWS; two ids for others.            *)
EXTENDS Adoption, TLC

MCAWSKey == {"aws:key"}
MCSystemKey == {"system"}
MCTagKey == {"user", "system", "aws:key"}
MCDefaultTags == [k \in TagKey |-> IF k = "system" THEN "v1" ELSE Absent]

WithTags(d, t) ==
    [description |-> d, tags |-> [k \in TagKey |-> IF k \in DOMAIN t THEN t[k] ELSE Absent]]

MCUserSpec == {WithTags(Nil, << >>), WithTags("d1", [user |-> "v1"]),
               WithTags("d1", [system |-> "v2"])}
MCExistingSpec == {WithTags(Nil, << >>), WithTags("d2", [user |-> "v2"]),
                   WithTags("d1", [user |-> "v1"] @@ "aws:key" :> "v1")}
=============================================================================
