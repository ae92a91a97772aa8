SPECIFICATION Spec
CONSTANTS
    p1 = p1
    p2 = p2
    Pod <- TwoPods
    Nobody = Nobody
    LeaderElection = TRUE
    Replicas = 1
    Surge = 1
    MaxRollouts = 2
    MaxFailures = 2
PROPERTIES
    NetworkRecorded
    RolloutCompletes
CHECK_DEADLOCK FALSE
INVARIANTS
    TypeOK
    OneNetworkPerLapse
    RejectedCreatesNothing
