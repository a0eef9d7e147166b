SPECIFICATION Spec
CONSTANTS
    Gateways = {"g", "h", "k"}
    ClassOf <- Class
    Services = {"s", "t"}
    OwnersOf <- Owners
    Pods = {"p"}
    Labels = {"x", "y"}
    Routes = {"q", "r"}
    Vip <- Addresses
    MaxChanges = 2
    MaxFaults = 1
INVARIANTS
    TypeOK
    SettledIsApplied
PROPERTIES
    Converges
CHECK_DEADLOCK FALSE
