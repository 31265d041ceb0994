CONSTANTS
    g1 = g1
    g2 = g2
    m1 = m1
    s1 = s1
    s2 = s2
    Gateways <- MCGateway1
    Callers <- MCCallers1
    Metrics <- MCMetrics
    Days <- MCDays
    Masters <- MCMasters
    ShardGroupCap = 1
    MaxExpiries = 1
    TransientErrors = FALSE
SPECIFICATION Spec
INVARIANT QuietCacheConsistent
