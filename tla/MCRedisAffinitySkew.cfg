\* Expected to fail: the hosts pass their monotonic clocks.
SPECIFICATION Spec
CONSTANTS
    g1 = g1
    g2 = g2
    a = a
    b = b
    c = c
    Hosts <- TwoHosts
    Blocks <- ThreeBlocks
    Chains <- SharedPrefix
    Skew <- OtherUptime
    TTL = 1
    MaxBlocks = 2
    Crashes = FALSE
    MaxTime = 4
INVARIANT
    HostsAgree
