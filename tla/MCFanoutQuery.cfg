CONSTANTS
    K = 3
    Labels <- MCLabels
SPECIFICATION Spec
INVARIANT TypeOK
PROPERTY QueryRefinesAbstract
\* A query ends: the finished and failed states have no successor.
CHECK_DEADLOCK FALSE
