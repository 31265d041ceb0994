---------------------------- MODULE MergeIterator ----------------------------
(***************************************************************************)
(* The per-series time merge of src/backend/fanout.go: the iterator of a   *)
(* mergeSeries (385-391), newMergeIterator (398-403) and                   *)
(* mergeIterator.Seek/At/Next (405-444) over seriesIteratorHeap (455-476), *)
(* driven by a consumer that calls Next or Seek and reads At after every   *)
(* call that returned TRUE, until one returns FALSE.                       *)
(* The children are the per-shard series iterators (not under src/): a    *)
(* strictly increasing list of timestamps with a cursor; Next moves to the *)
(* next sample, Seek(t) moves forward to the first sample >= t and does    *)
(* not move when the current sample is already >= t.                       *)
(***************************************************************************)
EXTENDS Naturals, Sequences, SequencesExt, FiniteSets

CONSTANTS
    N,         \* number of merged series
    Times,     \* sample timestamps
    MaxSeeks   \* bound on the consumer's Seek calls

ASSUME N \in Nat \ {0} /\ Times \subseteq Nat /\ MaxSeeks \in Nat

I == 1..N

\* A series' samples: strictly increasing timestamps.
SampleLists == {SetToSortSeq(S, <) : S \in SUBSET Times}

VARIABLES
    samples,  \* samples[i]: series i's timestamps
    pos,      \* pos[i]: child i's cursor; 0 before the first Next, Len+1 when done
    started,  \* FALSE while mergeIterator.h is nil
    h,        \* the children in the heap
    out,      \* the timestamps At returned, in order
    seeks,    \* Seek calls so far
    floor,    \* the largest Seek target so far (0: none)
    running   \* FALSE once a call returned FALSE

vars == <<samples, pos, started, h, out, seeks, floor, running>>

TypeOK ==
    /\ samples \in [I -> SampleLists]
    /\ \A i \in I : pos[i] \in 0..Len(samples[i]) + 1
    /\ started \in BOOLEAN
    /\ h \subseteq I
    /\ out \in Seq(Times)
    /\ seeks \in 0..MaxSeeks
    /\ floor \in Times \cup {0}
    /\ running \in BOOLEAN

-----------------------------------------------------------------------------
(* Children.                                                               *)

Valid(p, i) == p[i] \in 1..Len(samples[i])

\* Child i's At at cursor p[i]; an exhausted child's At is undefined, read
\* here as 0 (no sample has timestamp 0).
T(p, i) == IF Valid(p, i) THEN samples[i][p[i]] ELSE 0

\* The cursor after child i's Seek(t).
SeekPos(i, t) ==
    IF Valid(pos, i) /\ T(pos, i) >= t THEN pos[i]
    ELSE LET later == {j \in 1..Len(samples[i]) : j > pos[i] /\ samples[i][j] >= t}
         IN IF later = {} THEN Len(samples[i]) + 1
            ELSE CHOOSE j \in later : \A k \in later : j <= k

\* Mutant: Less compares with > (a max-heap).
TopsReversed(p, hp) == {i \in hp : \A j \in hp : T(p, i) >= T(p, j)}

\* The heap's minimum by At (seriesIteratorHeap.Less, 460-464); among
\* children with equal timestamps any may be on top.
Tops(p, hp) == {i \in hp : \A j \in hp : T(p, i) <= T(p, j)}

-----------------------------------------------------------------------------
(* mergeIterator calls.                                                    *)

\* Lines 425-431: the first Next advances every child and pushes those
\* that have a sample.
NextFirst ==
    LET p == [i \in I |-> pos[i] + 1]
        hp == {i \in I : Valid(p, i)}
    IN /\ running /\ ~started
       /\ pos' = p
       /\ started' = (hp # {})
       /\ h' = hp
       /\ IF hp = {}
          THEN running' = FALSE /\ UNCHANGED out
          ELSE \E top \in Tops(p, hp) : out' = Append(out, T(p, top)) /\ UNCHANGED running
       /\ UNCHANGED <<samples, seeks, floor>>

\* Mutant: the popped child is pushed back without checking its Next.
NextPushExhausted ==
    /\ running /\ started
    /\ IF h = {}
       THEN running' = FALSE /\ UNCHANGED <<pos, h, out>>
       ELSE \E it \in Tops(pos, h) :
              LET p == [pos EXCEPT ![it] = @ + 1]
              IN /\ pos' = p
                 /\ h' = h
                 /\ \E top \in Tops(p, h) : out' = Append(out, T(p, top)) /\ UNCHANGED running
    /\ UNCHANGED <<samples, started, seeks, floor>>

\* Mutant: the popped child is advanced but not pushed back.
NextLoseChild ==
    /\ running /\ started
    /\ IF h = {}
       THEN running' = FALSE /\ UNCHANGED <<pos, h, out>>
       ELSE \E it \in Tops(pos, h) :
              LET p == [pos EXCEPT ![it] = @ + 1]
                  hp == h \ {it}
              IN /\ pos' = p
                 /\ h' = hp
                 /\ IF hp = {}
                    THEN running' = FALSE /\ UNCHANGED out
                    ELSE \E top \in Tops(p, hp) : out' = Append(out, T(p, top)) /\ UNCHANGED running
    /\ UNCHANGED <<samples, started, seeks, floor>>

\* Lines 434-443: pop the top child, advance it, push it back if it has a
\* sample; TRUE while the heap is not empty.
NextStep ==
    /\ running /\ started
    /\ IF h = {}
       THEN running' = FALSE /\ UNCHANGED <<pos, h, out>>
       ELSE \E it \in Tops(pos, h) :
              LET p == [pos EXCEPT ![it] = @ + 1]
                  hp == IF Valid(p, it) THEN h ELSE h \ {it}
              IN /\ pos' = p
                 /\ h' = hp
                 /\ IF hp = {}
                    THEN running' = FALSE /\ UNCHANGED out
                    ELSE \E top \in Tops(p, hp) : out' = Append(out, T(p, top)) /\ UNCHANGED running
    /\ UNCHANGED <<samples, started, seeks, floor>>

\* Lines 405-413: rebuild the heap from the children whose Seek(t) lands
\* on a sample.
Seek(t) ==
    LET p == [i \in I |-> SeekPos(i, t)]
        hp == {i \in I : Valid(p, i)}
    IN /\ running
       /\ seeks < MaxSeeks
       /\ pos' = p
       /\ started' = TRUE
       /\ h' = hp
       /\ seeks' = seeks + 1
       /\ floor' = IF t > floor THEN t ELSE floor
       /\ IF hp = {}
          THEN running' = FALSE /\ UNCHANGED out
          ELSE \E top \in Tops(p, hp) : out' = Append(out, T(p, top)) /\ UNCHANGED running
       /\ UNCHANGED samples

-----------------------------------------------------------------------------

Init ==
    /\ samples \in [I -> SampleLists]
    /\ pos = [i \in I |-> 0]
    /\ started = FALSE
    /\ h = {}
    /\ out = <<>>
    /\ seeks = 0
    /\ floor = 0
    /\ running = TRUE

Next == NextFirst \/ NextStep \/ \E t \in Times : Seek(t)

Spec == Init /\ [][Next]_vars

-----------------------------------------------------------------------------
(* Properties                                                              *)

\* The merged series' samples come out in non-decreasing time (spec 8),
\* across any mix of Next and Seek calls.
TimeOrdered == IsSorted(out, <=)

\* Nothing is lost: when the iteration ends, every sample at or after the
\* last Seek target was returned, and without Seek the output is exactly
\* the union, with multiplicity, of the series' samples (equal timestamps
\* of different series are both kept, see the TODO at line 420).
NoSampleLost ==
    ~running =>
        /\ \A i \in I : \A j \in 1..Len(samples[i]) :
              samples[i][j] >= floor => samples[i][j] \in ToSet(out)
        /\ seeks = 0 =>
              \A t \in Times :
                  Cardinality({k \in DOMAIN out : out[k] = t})
                      = Cardinality({i \in I : t \in ToSet(samples[i])})

=============================================================================
