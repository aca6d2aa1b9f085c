SPECIFICATION Spec
CONSTANTS
    Bits = 4
    DefaultPrefix = 2
    Candidates <- MCCandidates
    Interfaces = {"eth1", "eth10", "wlan0", "wlan1"}
    Wireless = {"wlan0", "wlan1"}
    Uplinks = {"eth1"}
    Prolongs <- MCProlongs
    LongerNames <- MCLongerNames
    Mentioned = {"wlan0"}
    FirstBlocks <- MCFirstBlocks
    RetriedLANs <- MCLANs
    MaxAttempts = 3
    MaxRestarts = 2
CONSTRAINT FollowSome
INVARIANTS TypeOK ConfiguredLANIsApart OnlySharedIsRefused SuggestionIsAccepted NetmaskIsTheLANs LANHasItsAddress APFollowsTheLAN DnsmasqServesTheLAN OthersAreLeftAlone
CHECK_DEADLOCK FALSE
