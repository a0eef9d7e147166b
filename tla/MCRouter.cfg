SPECIFICATION Spec
CONSTANTS
    IPv4 = {"v4"}
    IPv6 = {"v6"}
    Statuses = {{}, {"v4", "v6"}}
    Routers = {"near", "far", "static"}
    Foreign = {"far"}
    SpecOf <- Specs
    MaxFaults = 1
INVARIANTS
    TypeOK
    SettledIsApplied
PROPERTIES
    RulesFollowBird
    Converges
