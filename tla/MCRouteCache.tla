---------------------------- MODULE MCRouteCache ----------------------------
(* Model-checking instance of RouteCache: two gateways, two concurrent    *)
(* callers in the first and one in the second, one metric over two days, *)
(* two masters and shard groups of one (gateway.toml: shard_group_cap=1). *)
EXTENDS RouteCache, TLC

CONSTANTS g1, g2, m1, s1, s2

MCGateways == {g1, g2}
MCCallers == {<<g1, 1>>, <<g1, 2>>, <<g2, 1>>}
MCMetrics == {m1}
MCDays == {1, 2}
MCDays1 == {1}
MCMasters == {s1, s2}

\* One gateway with two callers, for the runs with a lease expiry.
MCGateway1 == {g1}
MCCallers1 == {<<g1, 1>>, <<g1, 2>>}

MCSymmetry == Permutations(MCMasters)
=============================================================================
