\* figure1.py then table4.py on every subset of five entries, every
\* table mix, every glob order, with and without the plots folder.
CONSTANTS
    d1 = d1
    d2 = d2
    n1 = n1
    z1 = z1
    o1 = o1
    dq = dq
    mq = mq
    ts = ts
    Files <- MCFiles
    IsCsv <- MCIsCsv
    Parses <- MCParses
    HasCols <- MCHasCols
    TopLevel <- MCTopLevel
    IsSummary <- MCIsSummary
    Benches <- MCBenches
    MethodNames = {"no", "star", "3phstar", "Random"}
    SecTokens = {"0", "1", "2", "x"}
    DurVal <- MCDurVal
    BenchRank <- MCBenchRank
    Tables <- MCTables
    Holds <- MCHolds
    Families <- MCFamilies
    Sizes <- MCSizes
    Cap = 2

SPECIFICATION Spec

INVARIANT TabTypeOK
INVARIANT TabBoldIsBest
INVARIANT TabTablesInListOrder
INVARIANT FigPlotLoopAsFolder

\* The scripts stop after the second table or an error.
CHECK_DEADLOCK FALSE
