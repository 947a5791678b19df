\* figure2 on every subset of the entries, every listing order and every
\* mix of logs, empty ones included.
CONSTANTS
    a1 = a1
    a2 = a2
    b1 = b1
    t1 = t1
    u1 = u1
    Files <- MCFiles
    FileName <- MCFileName
    Bench <- MCBench
    NumParts <- MCNumParts
    Logs <- MCLogsWithEmpty
    InVerify = TRUE

INIT Init
NEXT Next

INVARIANT TypeOK

\* The script ends after the plot, or at an uncaught error.
CHECK_DEADLOCK FALSE
