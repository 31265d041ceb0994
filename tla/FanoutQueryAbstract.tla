------------------------- MODULE FanoutQueryAbstract -------------------------
(***************************************************************************)
(* What a fan-out query promises its caller (spec 4.6 and 4.7), with no    *)
(* goroutines, mutex or heap: once every shard has answered, the query     *)
(* fails with the error of every shard that failed, or it answers with the *)
(* merge of all the answers.  A Select answer is consumed one label set at *)
(* a time, each with the series sets that hold it; a LabelValues answer   *)
(* is the sorted, duplicate-free union of the value lists, returned whole. *)
(* FanoutQuery implements this specification.                              *)
(***************************************************************************)
EXTENDS Naturals, Sequences, SequencesExt, FiniteSets

CONSTANTS
    K,        \* number of shard queriers
    Labels    \* label sets (or label values), ordered by <

Q == 1..K

Answer == [items : {SetToSortSeq(S, <) : S \in SUBSET Labels}, fail : BOOLEAN]

VARIABLES
    op,       \* "select" or "labelValues"
    resp,     \* resp[i]: shard i's answer
    status,   \* "running", "finished" or "failed"
    errs,     \* the shards whose errors the failed query reports
    out,      \* Select: the [labels, sets] consumed so far
    values    \* LabelValues: the list returned

avars == <<op, resp, status, errs, out, values>>

Failed == {i \in Q : resp[i].fail}

\* Every label some shard answered with, ascending, each with the exact
\* set of shards whose answer holds it.
Union == SetToSortSeq(UNION {ToSet(resp[i].items) : i \in Q}, <)
Merged == [n \in 1..Len(Union) |->
              [labels |-> Union[n], sets |-> {i \in Q : Union[n] \in ToSet(resp[i].items)}]]

Init ==
    /\ op \in {"select", "labelValues"}
    /\ resp \in [Q -> Answer]
    /\ status = "running" /\ errs = {}
    /\ out = <<>> /\ values = <<>>

\* Some shard failed: the query fails with all of their errors and no data.
Fail ==
    /\ status = "running" /\ Failed # {}
    /\ out = <<>>
    /\ status' = "failed" /\ errs' = Failed
    /\ UNCHANGED <<op, resp, out, values>>

\* The caller consumes the next label set of the merge.
Emit ==
    /\ op = "select" /\ status = "running" /\ Failed = {}
    /\ Len(out) < Len(Merged)
    /\ out' = Append(out, Merged[Len(out) + 1])
    /\ UNCHANGED <<op, resp, status, errs, values>>

\* The merge is exhausted.
EndSelect ==
    /\ op = "select" /\ status = "running" /\ Failed = {}
    /\ out = Merged
    /\ status' = "finished"
    /\ UNCHANGED <<op, resp, errs, out, values>>

AnswerLabelValues ==
    /\ op = "labelValues" /\ status = "running" /\ Failed = {}
    /\ values' = Union /\ status' = "finished"
    /\ UNCHANGED <<op, resp, errs, out>>

Next == Fail \/ Emit \/ EndSelect \/ AnswerLabelValues

\* Every query ends.
Spec == Init /\ [][Next]_avars /\ WF_avars(Next)

=============================================================================
