SPECIFICATION Spec
CONSTANTS
    TagKey <- MCTagKey
    AWSKey <- MCAWSKey
    SystemKey <- MCSystemKey
    TagValue = {"v1", "v2"}
    Absent = Absent
    Description = {"d1", "d2"}
    Id = {n0, n1, n2}
    Existing = n0
    Account = account
    Nil = Nil
    UserSpec <- MCUserSpec
    ExistingSpec <- MCExistingSpec
    DefaultTags <- MCDefaultTags
    NoResource = NoResource
    Policies = {"adopt", "adopt-or-create", "AdoptedResource"}
    MaxDrifts = 1
INVARIANTS
    TypeOK
    NilArnOnlyWhileAdopting
    AdoptionCreatesNothing
PROPERTIES
    FirstContactReads
    AdoptionSettles
CHECK_DEADLOCK FALSE
