----------------------------- MODULE MCTagLists -----------------------------
(* An instance of TagLists for TLC: two keys of the user, one of the          *)
(* controller, one of AWS. A user writes any list of up to two tags, nil keys *)
(* and values and duplicates included, or three tags of which the last one    *)
(* repeats the first one's key.                                               *)
EXTENDS TagLists

MCTagKey == {"k1", "k2", "system", "aws:key"}
MCAWSKey == {"aws:key"}
MCSystemKey == {"system"}
MCDefaultTags == [k \in TagKey |-> IF k = "system" THEN "v" ELSE Absent]

Key(k) == [key : {k}, value : {"v", Nil}]
MCUserTags ==
    BoundedSeq([key : TagKey \cup {Nil}, value : {"v", Nil}], 2)
        \cup {<<t, u, w>> : t \in Key("k2"), u \in Key("k1"), w \in Key("k2")}
=============================================================================
