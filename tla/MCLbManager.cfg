SPECIFICATION Spec
CONSTANTS
    Services = {"a", "b"}
    Routes = {"r"}
    Backends = {"a", "b"}
    IPv4 = {"p4", "q4"}
    IPv6 = {"p6"}
    Lists <- Pods
    MaxFaults = 1
INVARIANTS
    TypeOK
    TargetsRecorded
    RecordIsTrue
    FlowsRecorded
    SettledIsApplied
PROPERTIES
    Converges
