SPECIFICATION Spec
CONSTANTS
    TagKey <- MCTagKey
    AWSKey <- MCAWSKey
    SystemKey <- MCSystemKey
    TagValue = {"v1", "v2"}
    Absent = Absent
    Description = {"d1", "d2", "bad"}
    InvalidDescription = {"bad"}
    Id = {n0, n1, n2, n3, n4}
    Foreign = n0
    Account = account
    Nil = Nil
    UserSpec <- MCUserSpecSmall
    DefaultTags <- MCDefaultTags
    Gone = Gone
    NoResource = NoResource
    Faults = {"apiError", "lostAnswer", "staleRead", "patchFail", "crash"}
    MaxFaults = 2
    MaxEdits = 1
    MaxDrifts = 1
SYMMETRY Symmetry
INVARIANTS
    TypeOK
    OneLapseOneOrphan
    RestMeansDone
CHECK_DEADLOCK FALSE
