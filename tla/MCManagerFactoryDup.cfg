SPECIFICATION Spec
CONSTANTS
    Worker = {w1, w2}
    Account = {a1}
    Region = {r1}
    Part <- MCPart
    RoleARN <- MCRoleARN
    NoWorker = NoWorker
    NoManager = NoManager
    MaxCalls = 1
INVARIANTS
    OneManagerPerRmId
CHECK_DEADLOCK FALSE
