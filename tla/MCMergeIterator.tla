--------------------------- MODULE MCMergeIterator ---------------------------
(* Three series over timestamps 1..3, one Seek.                          *)
EXTENDS MergeIterator

MCTimes == {1, 2, 3}
=============================================================================
