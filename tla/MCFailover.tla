----------------------------- MODULE MCFailover -----------------------------
(* Model-checking instance of Failover: two gateways; a shard with master *)
(* M and slave A in IDC z1 and slaves C and B in IDC z2 (spec scenario 3  *)
(* with a second slave in the other IDC, so that two live slaves can be   *)
(* candidates of one failover).                                           *)
EXTENDS Failover, TLC

CONSTANTS g1, g2, M, A, B, C

MCGateways == {g1, g2}
MCNodes == {M, A, B, C}
MCNodeOrder == <<A, C, B, M>>
MCIDC == (M :> "z1" @@ A :> "z1" @@ C :> "z2" @@ B :> "z2")
=============================================================================
