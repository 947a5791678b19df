\* figure4.py's main: every content of five files, every
\* os.listdir order of the tied indices, a grid of 4 points.
CONSTANTS
    r1 = r1
    r2 = r2
    s1 = s1
    x1 = x1
    y1 = y1
    Files <- MCFiles
    FileName <- MCFileName
    SuffixedIndex = {"1.csv"}
    NameRank <- MCNameRank
    IndexVal <- MCIndexVal
    Runs <- MCRuns
    TimePoints = 4

INIT Init
NEXT Next

INVARIANT TypeOK
INVARIANT CurveMatchesReference

\* The script ends after the last benchmark, or at an uncaught error.
CHECK_DEADLOCK FALSE
