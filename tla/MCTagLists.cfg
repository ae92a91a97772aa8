SPECIFICATION Spec
CONSTANTS
    TagKey <- MCTagKey
    AWSKey <- MCAWSKey
    SystemKey <- MCSystemKey
    TagValue = {"v", "empty"}
    Empty = "empty"
    Absent = Absent
    Nil = Nil
    NoNetwork = NoNetwork
    DefaultTags <- MCDefaultTags
    UserTags <- MCUserTags
INVARIANTS
    TypeOK
    NoNilDereference
    RequestIsWellFormed
    UserOrderKept
    SettledIsQuiet
    SettledIsDone
PROPERTY ImplementsMaps
