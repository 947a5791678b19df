---------------------------- MODULE SyntheticCox ----------------------------
(***************************************************************************)
(* synthetic_cox_analysis.py: main() loads the *.csv files directly in    *)
(* out/synthetic/ (glob, no recursion) that hold more than one record,    *)
(* concatenates them, runs one Cox fit stratified by Benchmark over the   *)
(* Random and 3phstar rows, then one fit per benchmark (in the order of   *)
(* Series.unique()) that has rows of both methods.  Every fit is inside   *)
(* `try ... except Exception`, which turns a failure into None.  The      *)
(* printing is left out; what is modelled is which files and rows reach   *)
(* the fits, which fits give a result, and when the script stops.         *)
(***************************************************************************)
EXTENDS SyntheticData

VARIABLES
    present,    \* the entries the folder holds
    content,    \* Files -> the rows of the file
    sphase,     \* "load", "perBench", "done" or "crashed"
    unglobbed,  \* the globbed files the loading loop has not reached
    loaded,     \* the files appended to all_data, in glob order
    overall,    \* the overall fit: "pending", "result" or "none"
    spending,   \* the benchmarks analyze_by_benchmark_groups has not reached
    results     \* the benchmarks stored in `results`

vars == <<present, content, sphase, unglobbed, loaded, overall, spending, results>>

SynMethods == {"Random", "3phstar"}

\* pd.concat(all_data): the rows that carry a Benchmark and a Method.
Frame == RowsOf(content, loaded)

\* cph.fit(cox_data, strata="Benchmark") returns: every duration is a
\* number (astype(float) raises on a non-numeric token, and
\* check_nans_or_infs on NaN), and some stratum holds both groups (else
\* the Hessian is singular and ConvergenceError is raised).
FitSucceeds(sel) ==
    /\ \A i \in DOMAIN sel : IsNumeric(sel[i])
    /\ \E b \in Benches : \A m \in SynMethods :
           \E i \in DOMAIN sel : sel[i].bench = b /\ sel[i].method = m

\* cox_regression_analysis(df, "Random", "3phstar"): (z, p) is not None.
CoxRegression(rows) ==
    LET sel == SelectSeq(rows, LAMBDA r : r.method \in SynMethods)
    IN  sel # <<>> /\ FitSucceeds(sel)

-----------------------------------------------------------------------------

TypeOK ==
    /\ present \subseteq Files
    /\ content \in [Files -> Tables]
    /\ sphase \in {"load", "perBench", "done", "crashed"}
    /\ unglobbed \subseteq Files
    /\ loaded \in Seq(Files)
    /\ overall \in {"pending", "result", "none"}
    /\ spending \in Seq(Benches)
    /\ results \subseteq Benches

Init ==
    /\ present \in SUBSET Files
    /\ content \in FolderContents
    /\ sphase = "load"
    /\ unglobbed = {f \in present : IsCsv[f] /\ TopLevel[f]}
    /\ loaded = <<>>
    /\ overall = "pending"
    /\ spending = <<>>
    /\ results = {}

\* One file of glob("*.csv"): read_csv inside a try (a file it cannot
\* parse is reported and passed over), appended `if len(df) > 1`.
LoadCsv(f) ==
    /\ sphase = "load" /\ f \in unglobbed
    /\ unglobbed' = unglobbed \ {f}
    /\ loaded' = IF Parses[f] /\ Len(content[f]) > 1 THEN Append(loaded, f) ELSE loaded
    /\ UNCHANGED <<present, content, sphase, overall, spending, results>>

\* `if df.empty`: "No data to analyze!" and return.
NoData ==
    /\ sphase = "load" /\ unglobbed = {} /\ loaded = <<>>
    /\ sphase' = "done"
    /\ UNCHANGED <<present, content, unglobbed, loaded, overall, spending, results>>

\* df['Benchmark'] (line 179) outside any try: KeyError when no loaded
\* file has the columns.
SchemaError ==
    /\ sphase = "load" /\ unglobbed = {} /\ loaded # <<>>
    /\ \A i \in DOMAIN loaded : ~HasCols[loaded[i]]
    /\ sphase' = "crashed"
    /\ UNCHANGED <<present, content, unglobbed, loaded, overall, spending, results>>

\* overall_analysis(df), then the benchmarks of df["Benchmark"].unique().
OverallAnalysis ==
    /\ sphase = "load" /\ unglobbed = {}
    /\ \E i \in DOMAIN loaded : HasCols[loaded[i]]
    /\ sphase' = "perBench"
    /\ overall' = IF CoxRegression(Frame) THEN "result" ELSE "none"
    /\ spending' = UniqueBenches(Frame)
    /\ UNCHANGED <<present, content, unglobbed, loaded, results>>

\* One benchmark of analyze_by_benchmark_groups: when its rows have both
\* methods, cox_regression_analysis on them, and a z that is not None is
\* stored.
FitBenchmark ==
    /\ sphase = "perBench" /\ spending # <<>>
    /\ LET b    == Head(spending)
           data == SelectSeq(Frame, LAMBDA r : r.bench = b)
           both == \A m \in SynMethods : \E i \in DOMAIN data : data[i].method = m
       IN  results' = IF both /\ CoxRegression(data) THEN results \cup {b} ELSE results
    /\ spending' = Tail(spending)
    /\ UNCHANGED <<present, content, sphase, unglobbed, loaded, overall>>

\* The summary is printed and main() returns.
Summarise ==
    /\ sphase = "perBench" /\ spending = <<>>
    /\ sphase' = "done"
    /\ UNCHANGED <<present, content, unglobbed, loaded, overall, spending, results>>

Next ==
    \/ \E f \in Files : LoadCsv(f)
    \/ NoData \/ SchemaError \/ OverallAnalysis
    \/ FitBenchmark \/ Summarise

\* A sequential script: it takes its next step until it stops.
Spec == Init /\ [][Next]_vars /\ WF_vars(Next)

Ended == sphase \in {"done", "crashed"}

=============================================================================
