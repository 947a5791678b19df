\* table1.py, synthetic_cox_analysis.py and the Cox command line on every
\* subset of five entries, every table mix and every listing order.
CONSTANTS
    c1 = c1
    c2 = c2
    n1 = n1
    s1 = s1
    z1 = z1
    Files <- MCFiles
    IsCsv <- MCIsCsv
    Parses <- MCParses
    HasCols <- MCHasCols
    TopLevel <- MCTopLevel
    IsSummary <- MCIsSummary
    Benches = {"b1", "b2"}
    MethodNames = {"Random", "3phstar", "GenMC"}
    SecTokens = {"1", "0", "-1", "x"}
    DurVal <- MCDurVal
    BenchRank <- MCBenchRank
    Tables <- MCTables
    Holds <- MCHolds
    TableBenches <- MCTableBenches
    M1 = "Random"
    M2 = "3phstar"
    ByBench = TRUE

SPECIFICATION Spec

INVARIANT TypeOK
INVARIANT TableCellsAsFolder
PROPERTY CliImplementsOutcome

\* The last script stops; the run of the three is over.
CHECK_DEADLOCK FALSE
