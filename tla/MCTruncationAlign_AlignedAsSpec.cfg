\* Spec 4.2 and 8 on figure2's truncation alignment.
CONSTANTS
    a1 = a1
    a2 = a2
    b1 = b1
    t1 = t1
    u1 = u1
    Files <- MCFiles
    FileName <- MCFileName
    Bench <- MCBench
    NumParts <- MCNumParts
    Logs <- MCLogs
    InVerify = TRUE

INIT Init
NEXT Next

INVARIANT AlignedAsSpec

\* The script ends after the plot, or at an uncaught error.
CHECK_DEADLOCK FALSE
