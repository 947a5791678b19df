\* Spec 4.4 on the Cox command line: timed-out runs are censored.
CONSTANTS
    c1 = c1
    c2 = c2
    n1 = n1
    Files <- MCFiles
    IsCsv <- MCIsCsv
    Parses <- MCParses
    HasCols <- MCHasCols
    TopLevel <- MCTopLevel
    IsSummary <- MCIsSummary
    Holds <- MCHolds
    Benches = {"b1", "b2"}
    MethodNames = {"Random", "3phstar", "GenMC"}
    SecTokens = {"1", "0", "-1", "x"}
    DurVal <- MCDurVal
    M1 = "Random"
    M2 = "3phstar"
    ByBench = TRUE
    BenchRank <- MCBenchRank
    Tables <- MCTables

INIT Init
NEXT Next

INVARIANT TimeoutsCensored


\* The script stops: a report, sys.exit(1) or an uncaught error.
CHECK_DEADLOCK FALSE
