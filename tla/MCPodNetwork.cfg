SPECIFICATION Spec
CONSTANTS
    IPv4 = {"a", "x", "y"}
    IPv6 = {"b6", "z6"}
    Gateways = {"g", "h"}
    VipSets <- SingleStackVips
    HopSets <- SingleStackHops
    MaxChanges = 2
    MaxFaults = 1
INVARIANTS
    TypeOK
    TablesDistinct
    AttachedIsConfigured
    NothingIsLeft
PROPERTIES
    Converges
CHECK_DEADLOCK FALSE
