-------------------------- MODULE TruncationAlign --------------------------
(***************************************************************************)
(* figure2.main, for one benchmark of out/coverage/: the files of the      *)
(* benchmark are collected per method from os.listdir, each run log is     *)
(* read into a (time, coverage) series, the series of a method are         *)
(* truncated to the shortest and averaged index by index, and the result   *)
(* is plotted by plot_coverage_time.  The outer loop over the benchmarks   *)
(* of get_benchnames runs this body once per benchmark.                    *)
(*                                                                         *)
(* A log is [zero, header, rows]: a 0-byte file, or an optional header     *)
(* line and the rows [i, c, s] (Iter, Cover, SecElapsed).  A series is    *)
(* summarised, at each index, by the values the runs contribute there:    *)
(* np.mean and np.std are functions of those values alone.                *)
(***************************************************************************)
EXTENDS Integers, Sequences, SequencesExt, FiniteSets, Functions

CONSTANTS
    Files,      \* the entries of out/coverage/
    FileName,   \* Files -> the name as the sequence of its '-'-separated parts
    Bench,      \* the benchmark, as a sequence of parts
    NumParts,   \* the name parts that start with a digit (\d+ matches)
    Logs,       \* the logs a file may hold
    InVerify    \* out/verify.csv has a row for the benchmark

Caps == <<"rand", "fuzz">>
CapSet == {Caps[i] : i \in 1..2}

VARIABLES
    present,    \* the entries of out/coverage/ in this folder
    content,    \* Files -> the log
    phase,      \* "list", a method being aligned, "plot", "done" or "crashed"
    unlisted,   \* files os.listdir has not yielded yet
    matched,    \* method -> the matched files, in listing order
    todo,       \* method -> the matched files not processed yet
    series,     \* method -> the (time, coverage) series read, in order
    combined    \* method -> per index [time, cov] value sequences, or <<>>

vars == <<present, content, phase, unlisted, matched, todo, series, combined>>

-----------------------------------------------------------------------------
(* File selection.                                                         *)

\* `if "-time" in filename: continue`
IsTimeFile(n) == \E i \in 2..Len(n) : n[i] = "time"

\* re.match(rf"{bench}-(\w+)-\d+", filename), not anchored at the end.
MatchesBench(n) ==
    /\ Len(n) >= Len(Bench) + 2
    /\ SubSeq(n, 1, Len(Bench)) = Bench
    /\ n[Len(Bench) + 2] \in NumParts

CapOf(n) == n[Len(Bench) + 1]

-----------------------------------------------------------------------------
(* Reading one run (the body of the try).                                  *)

\* pd.read_csv(f, skiprows=1, header=None, names=["iter", X]): the first
\* line is skipped whatever it is; the rows have three fields and two
\* names, so pandas takes the first field (Iter) as the index, and
\* "iter" is Cover and X is SecElapsed.
DataRows(log) ==
    IF log.header THEN log.rows
    ELSE IF log.rows = <<>> THEN <<>> ELSE Tail(log.rows)

\* The series of one run: df_data ("iter", "coverage"); df_time, the same
\* file, with the row (0, 0.0) put first; both truncated to the shorter
\* (len(df_data)); then pd.merge(df_data, df_time, on="iter",
\* how="inner"), which keeps the order of the left rows and, for each,
\* every right row with an equal key.
RunSeries(log) ==
    LET d     == DataRows(log)
        n     == Len(d)
        tIter == SubSeq(<<0>> \o [k \in 1..n |-> d[k].c], 1, n)
        tTime == SubSeq(<<0>> \o [k \in 1..n |-> d[k].s], 1, n)
        hits(l)     == SelectSeq([r \in 1..n |-> r], LAMBDA r : tIter[r] = d[l].c)
        rowPairs(l) == [j \in DOMAIN hits(l) |->
                          [time |-> tTime[hits(l)[j]], cov |-> d[l].s]]
    IN  FlattenSeq([l \in 1..n |-> rowPairs(l)])

\* min_length = min(len(t) for t in all_times); every series cut to it;
\* np.mean / np.std over axis 0, i.e. over the runs at each index.
Align(runs) ==
    LET L == Min({Len(runs[i]) : i \in DOMAIN runs})
    IN  [k \in 1..L |-> [time |-> [i \in DOMAIN runs |-> runs[i][k].time],
                         cov  |-> [i \in DOMAIN runs |-> runs[i][k].cov]]]

-----------------------------------------------------------------------------

TypeOK ==
    /\ present \subseteq Files
    /\ content \in [Files -> Logs]
    /\ phase \in CapSet \cup {"list", "plot", "done", "crashed"}
    /\ unlisted \subseteq Files
    /\ matched \in [CapSet -> Seq(Files)]
    /\ todo \in [CapSet -> Seq(Files)]
    /\ series \in [CapSet -> Seq(Seq([time : Nat, cov : Nat]))]
    /\ combined \in [CapSet -> Seq([time : Seq(Nat), cov : Seq(Nat)])]

Init ==
    /\ present \in SUBSET Files
    /\ content \in [Files -> Logs]
    /\ phase = "list"
    /\ unlisted = present
    /\ matched = [c \in CapSet |-> <<>>]
    /\ todo = [c \in CapSet |-> <<>>]
    /\ series = [c \in CapSet |-> <<>>]
    /\ combined = [c \in CapSet |-> <<>>]

\* A listed file that is a time file or does not match is passed over.
ListOther(f) ==
    /\ phase = "list" /\ f \in unlisted
    /\ IsTimeFile(FileName[f]) \/ ~MatchesBench(FileName[f])
    /\ unlisted' = unlisted \ {f}
    /\ UNCHANGED <<present, content, phase, matched, todo, series, combined>>

\* A matching file: matched_files[cap].append; its "time file" is the
\* path itself, which exists, so time_files[cap] gets the same file.
ListRun(f) ==
    /\ phase = "list" /\ f \in unlisted
    /\ ~IsTimeFile(FileName[f]) /\ MatchesBench(FileName[f])
    /\ CapOf(FileName[f]) \in CapSet
    /\ unlisted' = unlisted \ {f}
    /\ matched' = [matched EXCEPT ![CapOf(FileName[f])] = Append(@, f)]
    /\ UNCHANGED <<present, content, phase, todo, series, combined>>

\* A matching file of another method: matched_files[cap] raises
\* KeyError, outside any try; the script ends.
ListUnknownCap(f) ==
    /\ phase = "list" /\ f \in unlisted
    /\ ~IsTimeFile(FileName[f]) /\ MatchesBench(FileName[f])
    /\ CapOf(FileName[f]) \notin CapSet
    /\ phase' = "crashed"
    /\ UNCHANGED <<present, content, unlisted, matched, todo, series, combined>>

FinishListing ==
    /\ phase = "list" /\ unlisted = {}
    /\ todo' = matched
    /\ phase' = Caps[1]
    /\ UNCHANGED <<present, content, unlisted, matched, series, combined>>

\* One run of the method: zip(data_files, time_files[cap]) pairs each
\* file with itself.  The series is read and appended.
ReadRun(c) ==
    /\ phase = c /\ todo[c] # <<>>
    /\ series' = [series EXCEPT ![c] = Append(@, RunSeries(content[Head(todo[c])]))]
    /\ todo' = [todo EXCEPT ![c] = Tail(@)]
    /\ UNCHANGED <<present, content, phase, unlisted, matched, combined>>

\* read_csv finds no line after skiprows: whether it raises or returns an
\* empty frame depends on the pandas version; when it raises, the error
\* is printed and the run skipped.
ReadFails(c) ==
    /\ phase = c /\ todo[c] # <<>>
    /\ DataRows(content[Head(todo[c])]) = <<>>
    /\ todo' = [todo EXCEPT ![c] = Tail(@)]
    /\ UNCHANGED <<present, content, phase, unlisted, matched, series, combined>>

NextPhase(c) == IF c = Caps[1] THEN Caps[2] ELSE "plot"

\* Fault-injection variant of CombineMethod: the runs are stored as read,
\* not aligned index by index (the axis=0 of np.mean missing).
CombineMethodUnaligned(c) ==
    /\ phase = c /\ todo[c] = <<>>
    /\ combined' = IF series[c] = <<>> THEN combined
                   ELSE [combined EXCEPT ![c] = series[c]]
    /\ phase' = NextPhase(c)
    /\ UNCHANGED <<present, content, unlisted, matched, todo, series>>

\* All runs of the method read: with none, "No valid data" and continue;
\* otherwise the aligned mean and std are stored.
CombineMethod(c) ==
    /\ phase = c /\ todo[c] = <<>>
    /\ combined' = IF series[c] = <<>> THEN combined
                   ELSE [combined EXCEPT ![c] = Align(series[c])]
    /\ phase' = NextPhase(c)
    /\ UNCHANGED <<present, content, unlisted, matched, todo, series>>

\* The methods with at least one series: the keys of combined_datas.
Plotted == {c \in CapSet : series[c] # <<>>}

\* `else: print("No valid data found ...")`
PlotNothing ==
    /\ phase = "plot" /\ Plotted = {}
    /\ phase' = "done"
    /\ UNCHANGED <<present, content, unlisted, matched, todo, series, combined>>

\* plot_coverage_time: match.iloc[0] raises IndexError when verify.csv
\* has no row for the benchmark, and max(data["time"]) raises ValueError
\* on an empty series; neither is caught.
PlotFails ==
    /\ phase = "plot" /\ Plotted # {}
    /\ ~InVerify \/ \E c \in Plotted : combined[c] = <<>>
    /\ phase' = "crashed"
    /\ UNCHANGED <<present, content, unlisted, matched, todo, series, combined>>

\* The rest of plot_coverage_time: curves, labels and percentages drawn,
\* the figure saved.
PlotSaved ==
    /\ phase = "plot" /\ Plotted # {}
    /\ InVerify /\ \A c \in Plotted : combined[c] # <<>>
    /\ phase' = "done"
    /\ UNCHANGED <<present, content, unlisted, matched, todo, series, combined>>

Next ==
    \/ \E f \in Files : ListOther(f) \/ ListRun(f) \/ ListUnknownCap(f)
    \/ FinishListing
    \/ \E c \in CapSet : ReadRun(c) \/ ReadFails(c) \/ CombineMethod(c)
    \/ PlotNothing \/ PlotFails \/ PlotSaved

Spec == Init /\ [][Next]_vars

-----------------------------------------------------------------------------
(* Properties.                                                             *)

\* The run files of method c for the benchmark, per the spec's naming
\* convention <benchmark>-<method>-<index>, that hold at least one row.
SpecRuns(c) ==
    {f \in present : /\ Len(FileName[f]) = Len(Bench) + 2
                   /\ SubSeq(FileName[f], 1, Len(Bench)) = Bench
                   /\ FileName[f][Len(Bench) + 1] = c
                   /\ FileName[f][Len(Bench) + 2] \in NumParts
                   /\ content[f].rows # <<>>}

\* Spec 4.2 and 8 (truncation alignment): for runs of lengths L1..LN the
\* aligned curve has min(L1..LN) points, and its k-th point averages the
\* k-th (SecElapsed, Cover) sample of every run.  Stated on the values
\* the runs contribute at each index, of which the mean and the standard
\* deviation figure2 plots are functions.
AlignedAsSpec ==
    \A c \in CapSet :
        combined[c] # <<>> =>
            LET F == SpecRuns(c)
                L == Min({Len(content[f].rows) : f \in F})
            IN  /\ F # {}
                /\ Len(combined[c]) = L
                /\ \A k \in 1..L :
                      /\ ToBag(combined[c][k].time) =
                            ToBag([f \in F |-> content[f].rows[k].s])
                      /\ ToBag(combined[c][k].cov) =
                            ToBag([f \in F |-> content[f].rows[k].c])

=============================================================================
