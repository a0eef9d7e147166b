SPECIFICATION Spec
CONSTANTS
    Services = {"a"}
    Routes = {}
    Backends = {}
    IPv4 = {"q4"}
    IPv6 = {"p6"}
    Lists <- PodsHandover
    MaxFaults = 0
PROPERTIES
    EndpointsApplied
