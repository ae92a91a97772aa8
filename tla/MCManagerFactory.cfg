SPECIFICATION Spec
CONSTANTS
    Worker = {w1, w2}
    Account = {a1}
    Region = {r1}
    Part <- MCPart
    RoleARN <- MCRoleARN
    NoWorker = NoWorker
    NoManager = NoManager
    MaxCalls = 2
INVARIANTS
    TypeOK
    MapRaceFree
    RightManager
    BuildsOncePerWorker
PROPERTIES
    CallReturns
CHECK_DEADLOCK FALSE
