----------------------------- MODULE FanoutQuery -----------------------------
(***************************************************************************)
(* The read path of the fan-out backend (src/backend/fanout.go): one       *)
(* query over K shard queriers (K >= 2, so NewMergeQuerier builds a        *)
(* mergeQuerier, lines 143-161).                                           *)
(*   Select (164-193): one goroutine per querier; errors are appended to   *)
(*   multiErr under mtx, series sets stored by index; after wg.Wait an     *)
(*   error fails the whole query, else NewMergeSeriesSet (290-307) and the *)
(*   caller iterates mergeSeriesSet.Next (309-329).                        *)
(*   LabelValues (196-227): goroutines append their value lists to results *)
(*   in completion order; after wg.Wait, mergeStringSlices (229-266).      *)
(* A shard querier's answer (the shard client is not under src/) is fixed  *)
(* at the start: it fails, or it returns a sorted list of distinct labels  *)
(* (label sets for Select, values for LabelValues). A series set that     *)
(* stops early with an error (its Next returns FALSE, its Err is set) is   *)
(* the list it delivers before that: mergeSeriesSet treats both alike.    *)
(***************************************************************************)
EXTENDS Naturals, Sequences, SequencesExt, FiniteSets

CONSTANTS
    K,        \* number of shard queriers
    Labels    \* label sets (or label values), ordered by <

ASSUME K \in Nat /\ K >= 2 /\ Labels \subseteq Nat

Q == 1..K

\* The sorted lists of distinct labels a shard can answer with.
SortedLists == {SetToSortSeq(S, <) : S \in SUBSET Labels}

Answer == [items : SortedLists, fail : BOOLEAN]

VARIABLES
    op,        \* "select" or "labelValues"
    resp,      \* resp[i]: querier i's answer
    done,      \* goroutines that have called wg.Done
    multiErr,  \* queriers whose error was appended to multiErr
    results,   \* LabelValues: value lists in the order goroutines appended them
    phase,     \* "fanout", "iterating", "finished" or "failed"
    pos,       \* pos[i]: index of series set i's current series (0: not advanced)
    heap,      \* series sets in seriesSetHeap
    cur,       \* currentSets
    out,       \* Select: [labels, sets] emitted by each successful Next
    values     \* LabelValues: the merged list returned

vars == <<op, resp, done, multiErr, results, phase, pos, heap, cur, out, values>>

TypeOK ==
    /\ op \in {"select", "labelValues"}
    /\ resp \in [Q -> Answer]
    /\ done \subseteq Q /\ multiErr \subseteq Q
    /\ results \in BoundedSeq(SortedLists, K)
    /\ phase \in {"fanout", "iterating", "finished", "failed"}
    /\ pos \in [Q -> Nat]
    /\ heap \subseteq Q /\ cur \subseteq Q
    /\ out \in Seq([labels : Labels, sets : SUBSET Q])
    /\ values \in Seq(Labels)

-----------------------------------------------------------------------------
(* mergeStringSlices and mergeTwoStringSlices (229-266).                   *)

\* Two sorted lists merged; an element at the head of both is kept once.
RECURSIVE mergeTwoStringSlices(_, _)
mergeTwoStringSlices(a, b) ==
    IF a = <<>> THEN b
    ELSE IF b = <<>> THEN a
    ELSE CASE Head(a) = Head(b) -> <<Head(a)>> \o mergeTwoStringSlices(Tail(a), Tail(b))
           [] Head(a) < Head(b) -> <<Head(a)>> \o mergeTwoStringSlices(Tail(a), b)
           [] OTHER             -> <<Head(b)>> \o mergeTwoStringSlices(a, Tail(b))

\* Divide and conquer over the list of lists.
RECURSIVE mergeStringSlices(_)
mergeStringSlices(ss) ==
    CASE Len(ss) = 0 -> <<>>
      [] Len(ss) = 1 -> ss[1]
      [] Len(ss) = 2 -> mergeTwoStringSlices(ss[1], ss[2])
      [] OTHER ->
           LET half == Len(ss) \div 2 IN
           mergeTwoStringSlices(mergeStringSlices(SubSeq(ss, 1, half)),
                                mergeStringSlices(SubSeq(ss, half + 1, Len(ss))))

-----------------------------------------------------------------------------
(* The per-querier goroutines.                                             *)

\* Lines 174-185: q.Select returns; an error goes to multiErr, a series set
\* to seriesSets[idx]; the deferred wg.Done runs either way.
SelectReturns(i) ==
    /\ op = "select" /\ phase = "fanout"
    /\ i \notin done
    /\ multiErr' = IF resp[i].fail THEN multiErr \cup {i} ELSE multiErr
    /\ done' = done \cup {i}
    /\ UNCHANGED <<op, resp, results, phase, pos, heap, cur, out, values>>

\* Mutant: the goroutine's guard against running twice dropped.
LabelValuesReturnsAgain(i) ==
    /\ op = "labelValues" /\ phase = "fanout"
    /\ IF resp[i].fail
       THEN /\ multiErr' = multiErr \cup {i}
            /\ UNCHANGED results
       ELSE /\ results' = Append(results, resp[i].items)
            /\ UNCHANGED multiErr
    /\ done' = done \cup {i}
    /\ UNCHANGED <<op, resp, phase, pos, heap, cur, out, values>>

\* Lines 206-218: q.LabelValues returns; under mtx the error goes to
\* multiErr or the values are appended to results.
LabelValuesReturns(i) ==
    /\ op = "labelValues" /\ phase = "fanout"
    /\ i \notin done
    /\ IF resp[i].fail
       THEN /\ multiErr' = multiErr \cup {i}
            /\ UNCHANGED results
       ELSE /\ results' = Append(results, resp[i].items)
            /\ UNCHANGED multiErr
    /\ done' = done \cup {i}
    /\ UNCHANGED <<op, resp, phase, pos, heap, cur, out, values>>

-----------------------------------------------------------------------------
(* After wg.Wait.                                                          *)

\* Lines 187-192 and 290-307: fail with multiErr, or pre-advance every
\* series set and push the non-empty ones into the heap.
SelectWait ==
    /\ op = "select" /\ phase = "fanout"
    /\ done = Q
    /\ IF multiErr # {}
       THEN /\ phase' = "failed"
            /\ UNCHANGED <<pos, heap>>
       ELSE /\ pos' = [i \in Q |-> 1]
            /\ heap' = {i \in Q : resp[i].items # <<>>}
            /\ phase' = "iterating"
    /\ UNCHANGED <<op, resp, done, multiErr, results, cur, out, values>>

\* Lines 220-226.
LabelValuesWait ==
    /\ op = "labelValues" /\ phase = "fanout"
    /\ done = Q
    /\ IF multiErr # {}
       THEN /\ phase' = "failed"
            /\ UNCHANGED values
       ELSE /\ values' = mergeStringSlices(results)
            /\ phase' = "finished"
    /\ UNCHANGED <<op, resp, done, multiErr, results, pos, heap, cur, out>>

-----------------------------------------------------------------------------
(* mergeSeriesSet.Next (309-329), called by the query's consumer.          *)

\* Series set i's current label set at cursor p[i].
At(p, i) == resp[i].items[p[i]]

\* The cursors after advancing currentSets (line 313).
Advanced == [i \in Q |-> IF i \in cur THEN pos[i] + 1 ELSE pos[i]]

\* Mutant: only the heap's top is popped, equal label sets are not merged.
MergeNextPopOne ==
    LET adv    == {i \in cur : pos[i] < Len(resp[i].items)}
        h      == heap \cup adv
        minLbl == CHOOSE l \in {At(Advanced, i) : i \in h} : \A j \in h : l <= At(Advanced, j)
        top    == CHOOSE i \in h : At(Advanced, i) = minLbl
    IN /\ phase = "iterating"
       /\ pos' = Advanced
       /\ IF h = {}
          THEN /\ phase' = "finished"
               /\ UNCHANGED <<heap, cur, out>>
          ELSE /\ cur' = {top}
               /\ heap' = h \ {top}
               /\ out' = Append(out, [labels |-> minLbl, sets |-> {top}])
               /\ UNCHANGED phase
       /\ UNCHANGED <<op, resp, done, multiErr, results, values>>

\* Advance the current sets and push back those with a next series; if
\* the heap is empty return FALSE; else pop every set whose series has
\* the smallest label set: they become currentSets.
MergeNext ==
    LET adv    == {i \in cur : pos[i] < Len(resp[i].items)}
        h      == heap \cup adv
        minLbl == CHOOSE l \in {At(Advanced, i) : i \in h} : \A j \in h : l <= At(Advanced, j)
    IN /\ phase = "iterating"
       /\ pos' = Advanced
       /\ IF h = {}
          THEN /\ phase' = "finished"
               /\ UNCHANGED <<heap, cur, out>>
          ELSE LET top == {i \in h : At(Advanced, i) = minLbl} IN
               /\ cur' = top
               /\ heap' = h \ top
               /\ out' = Append(out, [labels |-> minLbl, sets |-> top])
               /\ UNCHANGED phase
       /\ UNCHANGED <<op, resp, done, multiErr, results, values>>

-----------------------------------------------------------------------------

Init ==
    /\ op \in {"select", "labelValues"}
    /\ resp \in [Q -> Answer]
    /\ done = {} /\ multiErr = {} /\ results = <<>>
    /\ phase = "fanout"
    /\ pos = [i \in Q |-> 0]
    /\ heap = {} /\ cur = {} /\ out = <<>> /\ values = <<>>

Next ==
    \/ \E i \in Q : SelectReturns(i) \/ LabelValuesReturns(i)
    \/ SelectWait \/ LabelValuesWait
    \/ MergeNext

\* Every goroutine runs to completion and the consumer keeps calling Next.
Spec == Init /\ [][Next]_vars /\ WF_vars(Next)

-----------------------------------------------------------------------------
(* Properties                                                              *)

Failed == {i \in Q : resp[i].fail}

\* Reference: every label delivered by some series set, in order, each
\* with the exact set of series sets that delivered it.
Delivered == UNION {ToSet(resp[i].items) : i \in Q}
Expected ==
    LET ls == SetToSortSeq(Delivered, <) IN
    [n \in 1..Len(ls) |-> [labels |-> ls[n],
                           sets |-> {i \in Q : ls[n] \in ToSet(resp[i].items)}]]

\* The refinement mapping: the fan-out and iterating phases are a running
\* query; a failed query reports multiErr; out and values are the answer.
Abstract == INSTANCE FanoutQueryAbstract WITH
    status <- [fanout |-> "running", iterating |-> "running",
               finished |-> "finished", failed |-> "failed"][phase],
    errs <- IF phase = "failed" THEN multiErr ELSE {}

\* The goroutines, the mutex-protected multiErr and results, wg.Wait,
\* mergeStringSlices and mergeSeriesSet.Next implement the atomic query of
\* FanoutQueryAbstract: whatever order the goroutines finish in, a Select
\* yields, one Next at a time, exactly the ascending merge of the shards'
\* label sets, each merged from exactly the series sets that hold it, a
\* LabelValues returns the sorted, duplicate-free union, a failure reports
\* every failed shard, and every query returns (spec 4.6, 4.7 and 8).
QueryRefinesAbstract == Abstract!Spec

=============================================================================
