SPECIFICATION Spec
CONSTANTS
    Setups = {alice}
    Keepers = {k1}
    Profiles = {p1}
    Gateways = {g1}
    MaxChanges = 1
    MaxFailures = 1
    MaxRestarts = 1
INVARIANTS TypeOK FileFollowsMemory LoginIsTheSavedOne
PROPERTIES StaysConfigured
CHECK_DEADLOCK FALSE
