\* Two gateways, three callers (two in g1), one lease expiry, transient
\* etcd errors; one day, so that the run stays within minutes.
CONSTANTS
    g1 = g1
    g2 = g2
    m1 = m1
    s1 = s1
    s2 = s2
    Gateways <- MCGateways
    Callers <- MCCallers
    Metrics <- MCMetrics
    Days <- MCDays1
    Masters <- MCMasters
    ShardGroupCap = 1
    MaxExpiries = 1
    TransientErrors = TRUE
SPECIFICATION Spec
SYMMETRY MCSymmetry
INVARIANT TypeOK
INVARIANT RouteAgreesAcrossGateways
PROPERTY EveryCallReturns
