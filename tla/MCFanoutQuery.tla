---------------------------- MODULE MCFanoutQuery ----------------------------
(* Three shard queriers answering with any sorted subset of three labels, *)
(* or failing.                                                            *)
EXTENDS FanoutQuery

MCLabels == {1, 2, 3}
=============================================================================
