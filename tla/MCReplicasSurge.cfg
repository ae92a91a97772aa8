SPECIFICATION Spec
CONSTANTS
    p1 = p1
    p2 = p2
    Pod <- TwoPods
    Nobody = Nobody
    LeaderElection = FALSE
    Replicas = 1
    Surge = 1
    MaxRollouts = 1
    MaxFailures = 0
INVARIANTS
    InstancesAsConfigured
CHECK_DEADLOCK FALSE
