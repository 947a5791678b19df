---------------------------- MODULE CoxAnalysis ----------------------------
(***************************************************************************)
(* The Cox path of stat_test.py's command line (--analysis cox):          *)
(* _load_benchmark_set walks --dir for *.csv files and keeps the columns   *)
(* Benchmark, Method and the duration of those that have them; the rows    *)
(* without a positive numeric duration are dropped, the two methods        *)
(* --m1 and --m2 kept, Group and Event added, and a Cox model stratified   *)
(* by benchmark is fitted; with --by-benchmark, one unstratified model per *)
(* benchmark that has both methods.  The fits are library calls: what is   *)
(* modelled is which rows reach them and when the script stops.           *)
(*                                                                         *)
(* A CSV row is [bench, method, sec], sec a token of the duration column;  *)
(* DurVal gives pd.to_numeric of the tokens that are numbers.              *)
(***************************************************************************)
EXTENDS SyntheticData, Functions

CONSTANTS
    M1, M2,     \* --m1, --m2
    ByBench     \* --by-benchmark

VARIABLES
    present,    \* the entries the folder holds
    content,    \* Files -> the rows of the file
    unwalked,   \* files os.walk has not yielded yet
    frames,     \* the rows of the frames kept, concatenated in walk order
    phase,      \* "load", "fit", "perBench", "done", "exited" or "crashed"
    fitData,    \* the rows handed to the global fit: [bench, group, sec, event]
    pendingB,   \* the benchmarks the per-benchmark loop has not reached
    fitted      \* the benchmarks a per-benchmark model was fitted for

vars == <<present, content, unwalked, frames, phase, fitData, pendingB, fitted>>

-----------------------------------------------------------------------------

\* pd.to_numeric(errors='coerce') then dropna and `> 0`.
Completed(r) == r.sec \in DOMAIN DurVal /\ DurVal[r.sec] > 0

\* The rows that survive the cleaning and the method filter.
KeepRow(r) == Completed(r) /\ r.method \in {M1, M2}

\* Fault-injection variant of FitRows: Group coded 1/2 as cox_regression
\* does (`map({version1: 1, version2: 2})`).
FitRowsOneTwo(rows) ==
    LET kept == SelectSeq(rows, KeepRow)
    IN  [i \in DOMAIN kept |-> [bench |-> kept[i].bench,
                                group |-> IF kept[i].method = M1 THEN 1 ELSE 2,
                                sec   |-> kept[i].sec,
                                event |-> 1]]

\* df_methods with Group = map({m1: 0, m2: 1}) and Event = 1.
FitRows(rows) ==
    LET kept == SelectSeq(rows, KeepRow)
    IN  [i \in DOMAIN kept |-> [bench |-> kept[i].bench,
                                group |-> IF kept[i].method = M1 THEN 0 ELSE 1,
                                sec   |-> kept[i].sec,
                                event |-> 1]]

\* Fault-injection variant of Estimable: the fit is taken to succeed
\* whenever both groups occur anywhere, as an unstratified fit would.
EstimableUnstratified(rows) ==
    \A g \in {0, 1} : \E i \in DOMAIN rows : rows[i].group = g

\* A stratified Cox fit has information about Group only from a stratum
\* that holds both groups; with none, the Hessian is singular and
\* CoxPHFitter.fit raises ConvergenceError.
Estimable(rows) ==
    \E b \in Benches :
        \A g \in {0, 1} : \E i \in DOMAIN rows : rows[i].bench = b /\ rows[i].group = g

-----------------------------------------------------------------------------

TypeOK ==
    /\ present \subseteq Files
    /\ content \in [Files -> Tables]
    /\ unwalked \subseteq Files
    /\ frames \in Seq(Row)
    /\ phase \in {"load", "fit", "perBench", "done", "exited", "crashed"}
    /\ fitData \in Seq([bench : Benches, group : {0, 1}, sec : SecTokens, event : {0, 1}])
    /\ pendingB \subseteq Benches
    /\ fitted \subseteq Benches

Init ==
    /\ present \in SUBSET Files
    /\ content \in FolderContents
    /\ unwalked = present
    /\ frames = <<>>
    /\ phase = "load"
    /\ fitData = <<>>
    /\ pendingB = {}
    /\ fitted = {}

\* One file of os.walk with a ".csv" name and the expected columns: its
\* three columns are kept.
LoadFrame(f) ==
    /\ phase = "load" /\ f \in unwalked
    /\ IsCsv[f] /\ HasCols[f]
    /\ unwalked' = unwalked \ {f}
    /\ frames' = frames \o content[f]
    /\ UNCHANGED <<present, content, phase, fitData, pendingB, fitted>>

\* Any other file: not a CSV, or read_csv raises (`except Exception:
\* pass`), or a column is missing.
SkipFile(f) ==
    /\ phase = "load" /\ f \in unwalked
    /\ ~(IsCsv[f] /\ HasCols[f])
    /\ unwalked' = unwalked \ {f}
    /\ UNCHANGED <<present, content, frames, phase, fitData, pendingB, fitted>>

\* `if df_set.empty` / `if df_methods.empty`: a message and sys.exit(1).
ExitNoData ==
    /\ phase = "load" /\ unwalked = {}
    /\ FitRows(frames) = <<>>
    /\ phase' = "exited"
    /\ UNCHANGED <<present, content, unwalked, frames, fitData, pendingB, fitted>>

\* The cleaning and the filter leave rows: they are handed to the fit.
PrepareFit ==
    /\ phase = "load" /\ unwalked = {}
    /\ FitRows(frames) # <<>>
    /\ fitData' = FitRows(frames)
    /\ phase' = "fit"
    /\ UNCHANGED <<present, content, unwalked, frames, pendingB, fitted>>

\* cph.fit(..., strata="Benchmark") raises, outside any try.
FitFails ==
    /\ phase = "fit"
    /\ ~Estimable(fitData)
    /\ phase' = "crashed"
    /\ UNCHANGED <<present, content, unwalked, frames, fitData, pendingB, fitted>>

\* The global fit succeeds and Z, P and HR are printed; then the
\* per-benchmark loop over sorted(df_methods["Benchmark"].unique()).
FitReported ==
    /\ phase = "fit"
    /\ Estimable(fitData)
    /\ phase' = IF ByBench THEN "perBench" ELSE "done"
    /\ pendingB' = {fitData[i].bench : i \in DOMAIN fitData}
    /\ UNCHANGED <<present, content, unwalked, frames, fitData, fitted>>

\* One benchmark of the loop: fitted without strata if both methods are
\* present in its rows, else passed over.
FitBenchmark(b) ==
    /\ phase = "perBench"
    /\ b \in pendingB /\ \A x \in pendingB : BenchRank[b] <= BenchRank[x]
    /\ pendingB' = pendingB \ {b}
    /\ fitted' = IF \A g \in {0, 1} : \E i \in DOMAIN fitData :
                                        fitData[i].bench = b /\ fitData[i].group = g
                 THEN fitted \cup {b} ELSE fitted
    /\ UNCHANGED <<present, content, unwalked, frames, phase, fitData>>

FinishPerBench ==
    /\ phase = "perBench" /\ pendingB = {}
    /\ phase' = "done"
    /\ UNCHANGED <<present, content, unwalked, frames, fitData, pendingB, fitted>>

Next ==
    \/ \E f \in Files : LoadFrame(f) \/ SkipFile(f)
    \/ ExitNoData \/ PrepareFit
    \/ FitFails \/ FitReported
    \/ \E b \in Benches : FitBenchmark(b)
    \/ FinishPerBench

\* The script is a single-threaded loop over files, then over the fits:
\* while it has not stopped it always takes its next step.
Spec == Init /\ [][Next]_vars /\ WF_vars(Next)

Ended == phase \in {"done", "exited", "crashed"}

-----------------------------------------------------------------------------
(* Properties.                                                             *)

\* The rows of the CSV files under --dir that have the three columns,
\* as a set of (file, position) pairs: independent of the walk order.
LoadedRows ==
    UNION {{<<f, i>> : i \in DOMAIN content[f]} : f \in {g \in present : IsCsv[g] /\ HasCols[g]}}

RowAt(p) == content[p[1]][p[2]]

\* Benchmark b has a completed run (a positive duration) of method m.
HasCompleted(b, m) ==
    \E p \in LoadedRows : RowAt(p).bench = b /\ RowAt(p).method = m /\ Completed(RowAt(p))

SharedBenches == {b \in Benches : HasCompleted(b, M1) /\ HasCompleted(b, M2)}

\* The refinement mapping: the script is running until it stops; it
\* reports when done, and refuses when it exits or an error escapes.
Outcome == INSTANCE CoxOutcome WITH
    shared    <- SharedBenches,
    outcome   <- CASE phase \in {"load", "fit", "perBench"} -> "running"
                   [] phase = "done"                      -> "reported"
                   [] phase \in {"exited", "crashed"}     -> "refused",
    reportedB <- IF phase = "done" THEN fitted ELSE {}

\* The command line implements CoxOutcome: it always stops; it reports
\* exactly when some benchmark has completed runs of both methods
\* (whatever files, folders and walk order the runs are spread over),
\* and with --by-benchmark fits a model for exactly those benchmarks.
CliImplementsOutcome == Outcome!Spec

\* Spec 4.4: every run of the two methods enters the model, a completed
\* run as an event and a run that hit the time or iteration cap as
\* censored (Event = 0); none is left out.
TimeoutsCensored ==
    phase \in {"fit", "perBench", "done"} =>
        Len(fitData) = Cardinality({p \in LoadedRows : RowAt(p).method \in {M1, M2}})

=============================================================================
