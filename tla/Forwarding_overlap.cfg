SPECIFICATION Spec
CONSTANTS
    Workers = {w1, w2}
    MaxJobs = 2
    MaxFailures = 1
    MaxRestarts = 1
    MaxEvents = 2
SYMMETRY Symmetry
INVARIANTS TypeOK ManagementOpen JumpsBounded LANReachesInternet DnsmasqServesItsFile
PROPERTIES SoloJobSetsRules SoloDirectDropsZones
CHECK_DEADLOCK FALSE
