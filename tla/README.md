# TLA+ models of the weazer analysis scripts

The repository (`src/genmc-tool/luan/`) is a set of batch Python scripts that post-process
the CSV logs of benchmark runs of an external model checker. There are no threads and no
network. What makes them hard to test is this:

- they rewrite files in place, and an I/O error or a kill can stop them part way;
- they walk folders in an order the OS picks;
- a file's meaning comes from its name and from the pandas/numpy semantics of its content;
- several scripts read the same files and each checks them with its own code.

The models cover the scripts' control: every branch, early return and uncaught exception.
They abstract the data to the cases the properties tell apart.

## Inventory

| Component | Source | State | Operations | Interacts with |
|---|---|---|---|---|
| CSV cleaner | `clean_csv.py` | the folder: entries (file, directory), each file's lines | list the folder; per entry: skip a directory, delete an empty file, read + filter + rewrite in place; the print-and-continue `except` | its output is read by every other script that reads `out/coverage/` logs |
| Coverage-rate scan | `stat_test.py` 117-160 | one run's log | keep the last line that parses and has positive SecElapsed | reads the cleaner's output; feeds the statistics |
| Stratified Mann-Whitney analysis | `stat_test.py` 23-74, 163-194 | records (benchmark, caption, rate) in walk order; the tested strata | walk; infer the benchmark and caption from the file name; filter to `--m1`/`--m2`; test every stratum that has exactly two captions; weighted U, Fisher p | scipy (not modelled) |
| Cox command line | `stat_test.py` 444-526 | a frame of (Benchmark, Method, duration) rows | walk `--dir` recursively; keep the CSVs with the columns; drop rows without a positive duration; filter the methods; add Group and Event; fit stratified (uncaught), then per benchmark | reads `out/synthetic/`; lifelines (not modelled) |
| Synthetic Cox analysis | `synthetic_cox_analysis.py` | the loaded frames, the fit results | glob the top-level CSVs; load those with more than one record; return on no data; fit over Random and 3phstar, stratified, inside `try`; fit each benchmark with both methods | reads `out/synthetic/` |
| Truncation aligner | `figure2.py` 110-218 | per caption, the runs' (time, coverage) arrays | match files by regex; read the log twice with two column names; prepend time 0; truncate to a common length; merge on `iter`; truncate every run to the shortest; mean and std by index | reads the cleaner's output and `out/verify.csv` |
| Interpolation aligner | `figure4.py` 10-171 | per method, the runs' frames | select files by regex; sort by index; a uniform grid up to the longest run; linear interpolation with NaN outside each run; mean and std per point over the runs present | reads `out/buggy/coverage/` logs |
| Synthetic time tables | `table1.py`, `table2.py`, `table3.py` | a frame of summary rows | glob the top-level CSVs but `summary`, `read_csv` with no `try`; per listed benchmark and method: `\bugnotfound`, `\clock`, or mean ± std and success rate | reads `out/synthetic/` (table2: `out/rff/`); prints LaTeX |
| Bug-finding table | `table4.py`, `figure1.py` 24-29 | `figure1.py`'s frame, built at import from `out/buggy/data/4versions-*.csv` | per benchmark and method over the first 30 rows: success share, mean ± std; the best method by (percent, -mean, -std) in bold | prints LaTeX |
| Error-bar plot | `figure1.py` | the same frame, built at its own import | per family: skip it if it has no Random and no 3phstar row; per size 3-8, error bars of the first 30 rows; y limits from `max(all_seconds)`; save `out/buggy/plots/<family>.pdf` | writes PDFs; run before `table4.py` |
| Generators | `test.py`, `bench/utils/gen.py` | none | print commands or random numbers | none |

Hard behaviours, each listed with its source line under `hazards` in `PROJECT.json`:

- **Partial failure and crash.** `open(path, 'w')` truncates the log before the cleaner
  writes it. A write error, or a kill, leaves a prefix of the new lines. The next run then
  deletes the file if that prefix is empty.
- **Uncaught exceptions.** Some exceptions end a whole script: `os.remove` in the cleaner,
  `np.average` with no weights, `KeyError` in `figure2.py`, `interp1d` on a one-row run in
  `figure4.py`, `read_csv` and `pd.concat` when `figure1.py` is imported by `table4.py`,
  and `plt.ylim` on a NaN maximum in `figure1.py`.
- **Order.** `os.walk` and `os.listdir` order decides which sample comes first in each
  Mann-Whitney stratum. It also decides which run `zip` pairs with which.
- **Numeric edges.** NaN passes `sec_val <= 0`. Other edges are runs of one row, empty
  groups, and merge keys that repeat.
- **Cross-script agreement.** The cleaner and the rate scan each validate rows with their
  own code. Three scripts read `out/synthetic/`, each with its own file selection: the Cox
  command line recursively and with `summary.csv`, the other two only at the top level,
  and `table1.py` without `summary.csv`. They also judge a run differently: the command
  line drops a 0-second run, and `table1.py` counts it as a success.
- **Uncaught reads.** `table1.py` reads every CSV with no `try`. A folder without CSVs
  makes `get_df` return `None`, which `get_data` then indexes.

Correctness of each component (what the properties state):

- **Cleaner.** Its output contains only valid rows under at most one leading header. It is
  idempotent. It keeps every valid row. It never changes what downstream scripts compute.
  A failure on one file leaves that file alone and does not stop the others. (The code
  keeps the last two promises only in part: see the runs.)
- **Statistics.** Exactly the benchmarks with runs of both methods are tested, each once,
  with all of its runs. A folder of well-formed logs is always analysed.
- **Cox command line.** It always stops. It reports exactly when some benchmark has
  completed runs of both methods, and with `--by-benchmark` it fits exactly those
  benchmarks. It keeps every run, censoring the timed-out ones.
- **Synthetic analysis and tables.** A failing fit is caught, so only frames without the
  columns end the script. A table cell counts exactly the runs of its benchmark and
  method, whatever the glob order. Missing data gives a placeholder, never a crash.
- **Bug-finding table.** The bold method of a row is the best by share, then mean,
  then std, with ties going to the first method. This does not depend on the glob order
  while `head(30)` keeps every run. `\hline` separates families across the two tables.
- **Aligners.** The aligned length is the minimum run length. The mean at a grid point is
  taken over exactly the runs that cover that point. The result does not depend on the
  order of the runs.

## Modules

| Module | Models | Notes |
|---|---|---|
| `CsvLine` | a log line as the sequence of its comma-separated tokens; `int()`, `float()`, `<= 0`, `> 0` on tokens, NaN included; `count(',')`; `startswith(header)` | no variables |
| `CoverageRate` | the scan of `load_coverage_benchmark_set` (`ScannedValid`, `LastValid`) | operators only |
| `CleanCsv` | `clean_csv_files`; the script can be run several times on one folder | state machine |
| `MCCleanCsv` | two entries (model values, symmetric), nine kinds of line | cfgs below |
| `CoverageStat` | the `--analysis coverage` path of `stat_test.py` | state machine, EXTENDS `CoverageRate` |
| `MCCoverageStat` | six files: two benchmarks (one with a `-` in its name), both methods, a `-time` file and a file named `Random` | cfgs below |
| `InterpolationAlign` | `figure4.py`: `main` over `get_benchnames`, `load_benchmark_data` and `plot_benchmark_comparison` with `process_method_data_efficient` | state machine; numbers as exact rationals |
| `MCInterpolationAlign` | five files: two Random runs whose indices tie (`1`, `01`), one 3phstar run, one name with a suffix; a second benchmark named only by a suffixed file | cfg below |
| `TruncationAlign` | `figure2.main`, the body of the loop for one benchmark | state machine |
| `MCTruncationAlign` | any subset of five entries: two rand runs, a fuzz run, a `-time` file, a run of a third method | cfgs below |
| `SyntheticData` | the constants shared by the three scripts of `out/synthetic/` (files, columns, tables), `pd.concat` of frames and `Series.unique()` | constants and operators |
| `CoxAnalysis` | the `--analysis cox` path of the `stat_test.py` command line | state machine, EXTENDS `SyntheticData` |
| `CoxOutcome` | what the command line promises: stop; report iff some benchmark is shared; per-benchmark results for exactly the shared benchmarks | abstract specification |
| `MCCoxAnalysis` | three files (one without the columns), seven small tables over two benchmarks and three methods | cfg below |
| `SyntheticCox` | `main` of `synthetic_cox_analysis.py` | state machine, EXTENDS `SyntheticData` |
| `SummaryTable` | `get_df`, `get_data` and `print_table` of `table1.py` | state machine, EXTENDS `SyntheticData` |
| `SyntheticFolder` | the three scripts run one after another on one folder | composition of `Tab`, `Syn` and `Cli` instances |
| `BugTable` | `figure1.py`'s frame, built at import, and `generate_table` of `table4.py` | state machine, EXTENDS `SyntheticData` |
| `FigureOne` | `figure1.py`: its import and `plot_figures` | state machine, EXTENDS `SyntheticData` |
| `BuggyData` | `figure1.py` then `table4.py` on one `out/buggy/data/` | composition of `Fig` and `Tab` instances |
| `MCBuggyData` | five entries of `out/buggy/data/`, three families of two sizes, `head` of 2, the plots folder present or not | cfg below |
| `MCSyntheticFolder` | five entries: top-level and nested CSVs with the columns, one without them, a `summary.csv`, a 0-byte CSV | cfgs below |

### CleanCsv: state and actions

`fs` is the folder: each entry is a file, a directory or absent, and a file has a sequence
of lines. The other variables record the script's progress:

- `running`: an invocation is under way.
- `pending`: what `glob` listed and the loop has not reached yet.
- `passes`: how many invocations have started.

Ghost variables record what the properties talk about:

- `outcome`: what this invocation did to each entry.
- `before`: each file's content when it was last visited.
- `orig`: the folder before the first run.
- `damaged`: the files whose rewrite was cut short.

Each action is one iteration of the loop. It is taken whole, and its branches are the
code's branches:

| Action | Code |
|---|---|
| `SkipDirectory` | `if not os.path.isfile: continue` |
| `RemoveEmpty` | size 0, then `os.remove` |
| `RemoveFails` | `os.remove` raises outside the `try`, so the script ends |
| `ProcessFails` | read or `open(..., 'w')` raises before the truncation; printed, file unchanged |
| `CleanFile` | `CleanLines`: the last header-like line first, then the rows that pass the filter, in order |
| `WriteFails` | a write raises after the truncation; the file keeps a strict prefix of the new lines |
| `Interrupt` | `KeyboardInterrupt` during the rewrite |

`StartInvocation` and `FinishInvocation` are the `glob` and the end of the loop.

### CoverageStat: state and actions

| Variable | Holds |
|---|---|
| `content` | each file's log |
| `unvisited` | the files `os.walk` has not yet yielded |
| `records` | the (benchmark, caption) records, in walk order |
| `rows` | the records of `--m1`/`--m2` |
| `strata` | the benchmarks still to test, in `unique()` order |
| `tested` | for each tested stratum: the benchmark, which caption was `groups[0]`, and the weight |

| Action | Code |
|---|---|
| `LoadFile` | one file of the walk, in any order |
| `StartAnalysis` | the early returns of `coverage_mann_whitney_analysis` and `df[strata_col].unique()` |
| `TestStratum` | one iteration of the strata loop; `GroupsTested` is `len(groups) != 2` |
| `Combine` | `np.average` and `combine_pvalues`; with no tested stratum, `np.average` raises |

### InterpolationAlign: state and actions

`content` maps each file to its log: a 0-byte file or rows `[t, c]` (SecElapsed, Cover).
`Listed` is `get_benchnames`' sorted list, and `bidx` the position of the benchmark
`main` is at. `toRead` holds its selected files not yet read, `data` the frames read, and
`curve` the aligned curve of each benchmark and method. Times are integers. Grid times and interpolated
values are reduced fractions, so the means and variances are exact. A variance stands for
the standard deviation, which is its square root.

| Action | Code |
|---|---|
| `ReadRun` | one iteration of the read loops (lines 47-64): the least index first; a 0-byte file raises and is skipped, any other is appended |
| `FinishLoad` | `plot_benchmark` hands the data to the plot |
| `SkipMethod` | `else: print("NO ... DATA!")` |
| `CrashOnShortRun` | `iloc[-1]` on a header-only log (IndexError) or `interp1d` on one row (ValueError); both are uncaught |
| `PlotMethod` | `process_method_data_efficient`: grid `linspace(0, max_end, TimePoints)`, `interp1d` with NaN fill, mean and `std` (0 for one value) over the non-NaN values |
| `SavePlot` | `savefig`, then `main`'s next name: a new `benchmark_data` and `load_files` |
| `EndMain` | `main`'s loop is over |

### TruncationAlign: state and actions

A log is a 0-byte file, or an optional header followed by rows `[i, c, s]`. `present` is
the set of entries in the folder. `unlisted`, `matched` and `todo` follow the listing and
the read loop. `series` holds each run's merged (time, coverage) pairs, and `combined`
holds, for each index, the values the runs contribute there.

| Action | Code |
|---|---|
| `ListOther` / `ListRun` / `ListUnknownCap` | one file of `os.listdir`: skipped (`-time`, no match), appended to `matched_files[cap]`, or `KeyError` for any other method |
| `FinishListing` | end of the listing loop |
| `ReadRun` | the `try` body: two `read_csv(skiprows=1, names=[...])`, the prepended `(0, 0.0)`, the truncation, `pd.merge(on="iter", how="inner")` |
| `ReadFails` | `read_csv` raises when no line is left (depends on the pandas version) |
| `CombineMethod` | `min_length`, truncation, `np.mean`/`np.std` over axis 0; or "No valid data" |
| `PlotNothing` / `PlotFails` / `PlotSaved` | no method with data; `match.iloc[0]` or `max` on an empty curve raises; the figure is saved |

The key fact of `RunSeries` is that the log has three fields and `read_csv` is given two
names, so pandas makes the first field (Iter) the index. The column called `iter` is
therefore Cover, and the plotted `coverage` is SecElapsed.

### CoxAnalysis: state and actions

A row is `[bench, method, sec]`, where `sec` is the token in the duration column.
`frames` holds the kept rows in walk order. `fitData` holds the rows handed to the
stratified fit, with `Group` and `Event`. `pendingB` and `fitted` track the per-benchmark
loop.

| Action | Code |
|---|---|
| `LoadFrame` / `SkipFile` | one file of `_load_benchmark_set`: a `.csv` with the three columns is kept; any other file, or a `read_csv` error, is passed over |
| `ExitNoData` | `df_set.empty` or `df_methods.empty`: message and `sys.exit(1)` |
| `PrepareFit` | `to_numeric(coerce)`, `dropna`, `> 0`, the method filter, `Group = {m1: 0, m2: 1}`, `Event = 1` |
| `FitFails` | the stratified fit, outside any `try`, raises (singular: no benchmark holds both groups) |
| `FitReported` | Z, P and HR printed |
| `FitBenchmark` / `FinishPerBench` | one iteration of `for bmk in sorted(...)`, fitting only when both methods are present |

### SyntheticCox: state and actions

`loaded` holds the files appended to `all_data`, in glob order. `overall` is the outcome of
the overall fit. `spending` holds the benchmarks of `unique()` that the per-benchmark loop
has not reached yet. `results` holds the benchmarks whose fit gave a z value.

| Action | Code |
|---|---|
| `LoadCsv` | one file of `glob`: `read_csv` inside a `try`, appended `if len(df) > 1` |
| `NoData` | `if df.empty: return` |
| `SchemaError` | `df['Benchmark']` at line 179 raises `KeyError` when no loaded frame has the columns |
| `OverallAnalysis` | `cox_regression_analysis` over all rows: `None` when no Random/3phstar rows, or when the fit raises (a non-numeric or NaN Sec, or no stratum with both groups) |
| `FitBenchmark` | one iteration of `analyze_by_benchmark_groups` |
| `Summarise` | the summary printout, and `main` returns |

### SummaryTable: state and actions

`tframes` holds the frames of `df_list`, in glob order. `tnext` is the position in
`benchnames`. `cells` maps each printed benchmark and method to a cell: its kind
(`\bugnotfound`, `\clock`, or a value), its number of runs, and its number of runs with a
Sec that is a number `>= 0`. These fix the printed percentage.

| Action | Code |
|---|---|
| `ReadCsv` / `ReadRaises` / `SkipSummary` | one file of `glob`: read and appended; `read_csv` raises, uncaught; `"summary"` in the path |
| `NoUsableFrame` | `get_df` returns `None` (TypeError in `get_data`), or no frame has the columns (KeyError) |
| `ConcatFrames` | `pd.concat`, and the table header |
| `PrintRow` | `get_data` for the next benchmark of the list |
| `EndTable` | the table footer |

### SyntheticFolder: composition and refinement

`SyntheticFolder` instantiates the three modules over one `present` and `content`. A
`stage` variable runs them in the order a user would: `table1.py`, then
`synthetic_cox_analysis.py`, then the command line. None of them writes to the folder, so
running them in sequence is the same as any interleaving. Each module's `Ended` marks the
state where its script has returned or died.

`CoxAnalysis` defines `Outcome == INSTANCE CoxOutcome WITH ...`, with this refinement
mapping:

- `shared` is the set of benchmarks with completed runs of both methods in the folder.
- `outcome` is `running` until the script stops, `reported` when it is done, and `refused`
  after `sys.exit(1)` or an uncaught error.
- `reportedB` is `fitted` once the script is done.

The property `CliImplementsOutcome == Outcome!Spec` is checked in `synthetic_pass`. It
includes the abstract weak fairness, so it also states that the command line stops.

### BugTable: state and actions

`bframes` holds the frames of `figure1`'s list comprehension, in glob order. `table` and
`idx` are the table being printed and the position in the list of names
`"<family>(<size>)"`, modelled as pairs. `curr` is the family of the last printed row.
`lines` holds, per printed row, its name, whether a `\hline` precedes it and the bold
method. `Stats` gives a method's column: the rows left by `head(Cap)`, those left by
`dropna()` (none when some frame lacks the columns: `NoNaNColumn`), and the sum and
sum of squares of their Sec. `Pct` rounds the share as
`round(p * 30) / 30` does, with Python's half-to-even rule. `Outranks` is the tuple
comparison, and `BestMethod` the loop with its sentinel.

| Action | Code |
|---|---|
| `ReadFile` / `ReadRaises` | one file of `glob("out/buggy/data/4versions-*.csv")`: read, or `read_csv` raises at import, uncaught |
| `ConcatFails` | `pd.concat([])` raises `ValueError`, or no frame has the columns (`KeyError` on `df["Sec"]`) |
| `ConcatFrames` | `pd.concat`, `to_numeric`, and the first table's header |
| `PrintBenchLine` | one iteration of `print_bench_lines`, with the whole `print_bench_line` |
| `EndFirstTable` | the first table's footer and the second's header; the returned `curr` is passed on |
| `EndSecondTable` | the second table's footer |

### FigureOne and BuggyData: state and actions

`fframes` holds the frames of `figure1`'s import, in a glob order chosen once.
`fidx` is the position in `benchmarks` of the next `plot_figure` call, `plotted` the
families whose PDF was written, and `plotsDir` whether `out/buggy/plots/` exists. A value
of `all_seconds` is abstracted to whether it is NaN: only that decides whether
`plt.ylim` raises. `KeptCount` counts the rows left by `head(Cap).dropna()`, none when some frame lacks
the columns.
`AllSeconds` appends, per size, the kept values of each method and then each method's
`mean() + std()`, which is NaN below two values. `PyMax` is Python's `max()`: a NaN first
element is never replaced, because every comparison with NaN is false.

| Action | Code |
|---|---|
| `ImportDf` / `ImportRaises` | the import, in any glob order: it succeeds, or `read_csv`, `pd.concat` or `df["Sec"]` raises |
| `SkipFamily` | the early return when both selections are empty |
| `LimitRaises` | the loop over sizes, then `plt.ylim` raises `ValueError` on a NaN `max_y` |
| `SaveFails` | `savefig` into a missing `out/buggy/plots/` raises `FileNotFoundError` |
| `SavePlot` | the error bars, the labels and the PDF written |
| `EndPlots` | `plot_figures` returns |

`BuggyData` shares `present` and `content` between `Fig` (`FigureOne`) and `Tab`
(`BugTable`). `Tab` steps only once `Fig` has ended, as when `python figure1.py` is
followed by `python table4.py`, whose `from figure1 import df` runs the import again.

## Runs

| Run | Checks | Result |
|---|---|---|
| `clean_pass` | `TypeOK`, `CleanedIsFixpoint`, `StatRatePreserved`, `DataPreserved` | pass, about 880k distinct states |
| `clean_nan_row` | `CleanedRowsValid` | violation: a `nan` SecElapsed row survives cleaning |
| `clean_remove_abort` | `EveryFileVisited` | violation: an `os.remove` error stops the cleaning of the rest of the folder |
| `covstat_pass` | `TypeOK`, `StrataComplete` | pass, about 100k distinct states |
| `covstat_no_stratum_crash` | `AnalysisCompletes` | violation: the only valid log, a `-time` file, becomes a single stratum with one caption; its test is skipped, the weights are empty and `np.average` raises |
| `interp_pass` | `TypeOK`, `CurveMatchesReference` | pass, about 95k distinct states |
| `trunc_pass` | `TypeOK` | pass, about 1.4M distinct states |
| `trunc_aligned_length` | `AlignedAsSpec` | violation: one log of a header and two rows gives a one-point curve whose "coverage" is SecElapsed |
| `synthetic_pass` | `TypeOK`, `TableCellsAsFolder`, `CliImplementsOutcome` | pass, about 256k distinct states, 90 s |
| `cox_timeouts_dropped` | `TimeoutsCensored` | violation: a timed-out run (negative duration) never reaches the fit |
| `synthetic_uncaught` | `NoUncaughtError` | violation: `table1.py` on a folder without CSV files dies with a TypeError |
| `buggy_data_pass` | `TabTypeOK`, `TabBoldIsBest`, `TabTablesInListOrder`, `FigPlotLoopAsFolder` | pass, about 100k distinct states |

`clean_pass` runs two invocations with every failure action enabled. It shows three things:

- A successfully cleaned file is a fixpoint of the cleaner.
- A file whose rewrite was never cut short holds exactly the spec-valid rows of the
  original, in order.
- The line `stat_test` picks for the rate is the same before and after cleaning. The two
  scripts' validators differ on NaN and on the header, but agree on every line that can be
  last.

`WriteFails` also reaches a file left truncated by a failed rewrite: the cleaner prints
the error and moves on. Spec 4.1 says such a file is skipped, so this differs from the
spec. `DataPreserved` is stated only for files whose rewrite completed.

`covstat_pass` checks the analysis over every walk order and every mix of empty, invalid
and valid logs. The tested strata are exactly the benchmarks with valid runs of both
methods under the spec's `<benchmark>-<method>-<index>` convention, and each is weighted
by all of its runs.

`interp_pass` compares the plotted mean and variance at every grid point with an
order-free reference. The reference takes, for each run, the neighbouring samples of the
grid time, with NaN outside the run's span. This covers every listing order and every tie
of `int()` indices. Note that NaN also applies before a run's first sample, so the grid
point t = 0 is never plotted. Spec 4.2 mentions NaN only after the last sample. The
difference is small and is recorded under hazards, not as a run.

`interp_pass` also reaches the crash on a selected log of fewer than two rows and a
name listed only from a file with an extension (`q-3phstar-1.csv`), which gets a PDF
with no curve; no property is stated about them (hazards `figure4.py:129` and
`figure4.py:32`).

`trunc_pass` explores figure2's per-benchmark body on every subset of entries and every
listing order, with zero-byte and header-only logs and the KeyError of an unknown method;
it checks only the type invariant, and serves to fire every action. `trunc_aligned_length` shows what the merged samples of a run are:

- the plotted "coverage" is SecElapsed;
- the merge on the shifted Cover key drops the last row;
- on a coverage plateau the merge repeats rows.

`synthetic_pass` runs the three scripts of `out/synthetic/` on every subset of five
entries, every table mix, and every listing order, one script after the other:

- **Cox command line.** It implements `CoxOutcome`. It reports a global result exactly
  when some benchmark has completed runs of both methods; otherwise it exits with a
  message, or ends in the uncaught fit error when the methods never share a benchmark.
  `--by-benchmark` fits exactly the shared benchmarks.
- **`synthetic_cox_analysis.py`.** It runs on the same folders, reaching its loading
  guard `len(df) > 1`, a failing fit caught by its `try`, and the KeyError of line 179;
  no property of its own is checked (hazards `synthetic_cox_analysis.py:24` and `:81`).
- **`table1.py`.** When it finishes, each cell counts exactly the runs, and the runs with a
  non-negative Sec, of the top-level non-summary CSVs. The glob order plays no part.

`synthetic_uncaught` checks spec 7 on the same folder. Its shortest counterexample is an
empty folder, on which `table1.py` dies after printing the table header. A zero-byte CSV
makes it die the same way, through `read_csv`.

`buggy_data_pass` runs `figure1.py` and then `table4.py` on every subset of five entries
of `out/buggy/data/`, in every glob order, with and without `out/buggy/plots/`. It shows
four things:

- **Bold method.** When `head()` keeps every run of the row's benchmark, the bold method
  is the reference's choice. The reference (`RefBest`) is computed from the folder's runs
  as a set, applying the priority in the comment at line 46 by successive filtering:
  highest exact share, then lowest mean, then lowest std, then the first method. This
  checks the 1/30 % rounding, the tuple comparison with its sentinel, and the strict `>`
  on ties. The tables give ties on all three keys, and a mean and a std that point
  different ways.
- **`\hline`.** The rows are the list in order, all of them once the second table is
  closed. A `\hline` precedes a row exactly when its family differs from the previous
  row's, across the split inside a family.
- **Plots** (`FigPlotLoopAsFolder`). Each family the loop has passed has a PDF exactly
  when the folder has a Random or 3phstar run of it, and only if one of those runs at
  size 3 is a number. When `plt.ylim` raises, the family has runs but none of them at
  size 3 is a number (when `head()` drops none). So a family whose runs start at size 4
  (tables `T2`, `T4`), or lie outside `range(3, 9)` (`T7`), ends the plotting of every
  later family. Spec 7 (b) asks for such a family to be skipped. A family with Random
  runs only (`T6`) is plotted.
- **Column-less file.** `pd.concat` is an outer join of the columns, and `dropna()`
  drops a row with a NaN in any column. So one parsable `4versions-*.csv` without
  Benchmark, Method and Sec (`n1`) leaves no row after `dropna()` in either script:
  `table4.py` prints `\clock` in every cell and bolds nothing, and `figure1.py` raises
  at `plt.ylim` on the first family with a run. Both references (`RefStats`,
  `NumericAtFirst`) count a run only when every globbed file has the columns, and
  `Stats` and `KeptCount` model the whole-row `dropna()` (hazard `table4.py:27`).

The run also reaches the import-time errors: a zero-byte file, no matching file, and
frames without the columns, which end both scripts. Spec 7 asks for processing to go on
after them; no run states that (see hazard `figure1.py:27`).

`MCCoxAnalysis` keeps the command line alone, for `cox_timeouts_dropped`.

Every property of a passing run has a fault-injection variant: a mapped definition replaced
by an operator defined just before it (`PROJECT.json` "mutants"). With it, TLC finds the
property violated. This shows that each property depends on the code it is about.

### Bounds

**Cleaner.** Nine line kinds:

- the header;
- a header with an extra column;
- rows with integer SecElapsed, fractional SecElapsed, zero SecElapsed and NaN SecElapsed;
- a non-integral Iter;
- a row with one comma;
- a blank line.

Every combination of up to two lines, in two entries (files or directories), and two
invocations. Two lines are enough to put a header after a row, two headers together, and
an invalid row before or after a valid one. Two entries are enough for one entry's failure
to cut off the other.

**Statistics.** Every walk order of six files, each empty, invalid or valid. This covers a
benchmark with a `-` in its name, both methods, a paired `-time` file, and a file of the
other naming convention.

**Interpolation.** Five files, two benchmark names (`mp`, and `q`, sorted after it and
named only by a suffixed file), and five run shapes: empty, one row, and two or three rows
with different spans. `TimePoints = 4`, so the grid has points before, inside and after
each run.

**Truncation.** Five entries, any subset of them present, and five logs:

- header plus two rows;
- header plus a plateau;
- no header plus two rows;
- header only;
- 0 bytes.

These reach every branch, including the KeyError, the empty reads and an empty curve.

**Cox.** Three files, each holding one of seven tables. The tables cover two benchmarks,
three methods, and durations that are positive, zero, negative or not numeric. Together
they produce shared benchmarks, benchmarks with one method, and the singular fit.

**Synthetic folder.** Any subset of five entries:

- `c1`: one of the seven tables;
- `c2`: nested, one of three tables;
- `n1`: without the columns, empty or two records;
- `s1`: `summary.csv`, two records;
- `z1`: zero bytes.

Tables of one record reach the `len(df) > 1` guard. `n1` alone reaches the KeyError of
`synthetic_cox_analysis.py` and of `table1.py`. `s1` separates the scripts that read
summaries from `table1.py`, which does not. `c2` separates the recursive walk from the
globs. The table lists both benchmarks.

**Bug table.** Any subset of five entries:

- `d1`, `d2`: two matching files with the columns, each holding one of six tables;
- `n1`: a matching file without the columns;
- `z1`: a zero-byte matching file;
- `o1`: a CSV whose name the glob does not match.

Three families of two sizes make six rows. The split falls inside the second family,
as the real 90-name list splits inside `ms-queue-opt2`. `T6` and `T7` add Random runs:
at size 3, and at size 9, outside the loop. The plots folder is present or missing. `Cap = 2` stands for `head(30)`,
so two files can overfill a method's column. With `n <= 30` the rounding to 1/30 % never
merges two different shares (they differ by at least 1/870), and `n <= 2` keeps that true.

### Fairness and termination

Each script is one sequential, single-threaded loop over a finite listing. While it runs, it
always takes its next step, and nothing it waits on can block. That justifies weak fairness
on each script's next-state relation. `CoxAnalysis`, `SyntheticCox`, `SummaryTable`,
`SyntheticFolder`, `BugTable`, `FigureOne` and `BuggyData` state `WF_vars(Next)`, and so
does the abstract `CoxOutcome`. The one liveness promise checked is the refinement's:
`CliImplementsOutcome` includes `CoxOutcome`'s fairness, so the command line always
stops with an outcome. `CHECK_DEADLOCK FALSE` is set because a
script really does stop after its last step.

The older modules (`CleanCsv`, `CoverageStat`, `TruncationAlign`, `InterpolationAlign`)
have no fairness and no liveness property: their loops are bounded in the same way.

## What is not modelled, and why

- The statistical tests themselves: `mannwhitneyu`, `combine_pvalues` and `CoxPHFitter`
  are library numerics.
- Plot drawing and the text of the LaTeX tables.
- Undecodable bytes dropped by `errors='ignore'`.
- Whitespace inside tokens.
- The drawing of `figure1.py`'s error bars (what is drawn is abstracted to NaN or a
  number), the Sec and percent text of `table4.py`'s cells, and `print_bench_line1`, which nothing calls.
- `table3.py` has no module of its own. It is `get_data` over one fixed file, already
  modelled in `SummaryTable`. `table2.py` is `table1.py` on another folder and list, which
  is the same model with other constants.
- The `cox_regression` helpers of `stat_test.py` (lines 197-412), which its command line
  never calls.
- The `getsize` exception branch of the cleaner, which only a concurrent deletion by
  another process can reach.

## Plan

In order of importance:

1. **Done:**
   - `CsvLine`, `CleanCsv` and `CoverageRate`: the cleaner, and its agreement with the
     rate scan.
   - `CoverageStat`: stratum selection.
   - `InterpolationAlign`: `figure4.py`, with `main` and `get_benchnames`.
   - `TruncationAlign`: `figure2.py`.
   - `CoxAnalysis` and `CoxOutcome`: the Cox command line and its refinement.
   - `SyntheticCox`, `SummaryTable` and `SyntheticFolder`: the three scripts of
     `out/synthetic/`, with liveness.
   - `BugTable`: `table4.py` with `figure1.py`'s frame.
   - `FigureOne` and `BuggyData`: `figure1.py`'s plotting loop, run before `table4.py`.
2. **The composition of `CleanCsv` with `InterpolationAlign`**: a log that the cleaner
   reduces to its header crashes `figure4.py` (hazard `figure4.py:129`).
3. **`get_benchnames`** in `figure2.py` (done for `figure4.py`), and its disagreement
   with the per-benchmark regexes.

All 12 runs are in use, so any new property has to go into an existing run. The run
`clean_write_failure` was retired to make room for the bug-table run; its divergence is
described under `clean_pass`. The hazards still without a property (`figure1.py:115`, `synthetic_cox_analysis.py:24`, `stat_test.py:53`) each need a
violation run of their own, or a statement in the spec to check.
