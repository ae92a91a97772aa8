SPECIFICATION Spec
CONSTANTS
    TagKey <- MCTagKey
    AWSKey <- MCAWSKey
    SystemKey <- MCSystemKey
    TagValue = {"v1", "v2"}
    Absent = Absent
    Description = {"d1", "bad"}
    InvalidDescription = {"bad"}
    Id = {n0, n1}
    Foreign = n0
    Account = account
    Nil = Nil
    UserSpec <- MCUserSpecTags
    DefaultTags <- MCDefaultTags
    Gone = Gone
    NoResource = NoResource
    Faults = {}
    MaxFaults = 0
    MaxEdits = 1
    MaxDrifts = 0
INVARIANTS
    UpdatedIsFresh
CHECK_DEADLOCK FALSE
