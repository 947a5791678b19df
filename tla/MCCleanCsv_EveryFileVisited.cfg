CONSTANTS
    f1 = f1
    f2 = f2
    FileIds <- MCFileIds2
    Lines <- MCLines
    MaxLines = 2
    MaxPasses = 1

SPECIFICATION Spec
SYMMETRY MCSymmetry

INVARIANT EveryFileVisited

\* The script terminates after its last invocation.
CHECK_DEADLOCK FALSE
