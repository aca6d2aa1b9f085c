SPECIFICATION Spec
CONSTANTS
    Setups = {alice}
    Keepers = {k1}
    Profiles = {p1}
    Gateways = {g1, g2}
    MaxChanges = 1
    MaxFailures = 0
    MaxRestarts = 0
INVARIANTS ReconnectUsesLastProfile
CHECK_DEADLOCK FALSE
