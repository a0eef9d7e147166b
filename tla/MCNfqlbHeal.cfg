SPECIFICATION Spec
CONSTANTS
    Services = {"a", "b"}
    Ids = {0, 1}
    IPv4 = {"x", "y"}
    IPv6 = {}
    AddressSets <- SingleAddress
    Flows = {}
    Hosts4 = {}
    Hosts6 = {}
    Networks = {}
    CidrSets = {}
    MaxTargets = 1
    StartingOffset = 10
    MaxInt = 12
    MaxFaults = 0
    DrainFirst = FALSE
PROPERTIES
    HealComesBack
CHECK_DEADLOCK FALSE
