SPECIFICATION Spec
CONSTANTS
    Services = {"a", "b"}
    Ids = {0}
    IPv4 = {"x", "y"}
    IPv6 = {"u"}
    AddressSets <- DualStack
    Flows = {"f", "g"}
    Hosts4 = {"v"}
    Hosts6 = {"w"}
    Networks = {"n"}
    CidrSets <- DualStackFlows
    MaxTargets = 1
    StartingOffset = 10
    MaxInt = 11
    MaxFaults = 1
    DrainFirst = TRUE
INVARIANTS
    SteeringExact
    FlowsOfHeldServices
PROPERTIES
    VipsCatchUp
CHECK_DEADLOCK FALSE
