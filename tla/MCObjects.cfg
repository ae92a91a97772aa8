SPECIFICATION Spec
CONSTANTS
    Id <- MCId
INVARIANTS
    TypeOK
    ManagerNotWritten
PROPERTIES
    ArgumentsKept
    StatusReachesServer
