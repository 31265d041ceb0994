CONSTANTS
    N = 3
    Times <- MCTimes
    MaxSeeks = 1
SPECIFICATION Spec
INVARIANT TypeOK
INVARIANT TimeOrdered
INVARIANT NoSampleLost
\* The consumer stops once a call returned FALSE.
CHECK_DEADLOCK FALSE
