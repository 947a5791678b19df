--------------------------- MODULE SyntheticData ---------------------------
(***************************************************************************)
(* The per-run summary CSVs that three scripts read from one folder       *)
(* (out/synthetic/ by default): the Cox path of the stat_test.py command  *)
(* line, synthetic_cox_analysis.py and table1.py.  A file holds rows      *)
(* [bench, method, sec], sec being the token of the Sec column; DurVal    *)
(* gives pd.to_numeric of the tokens that are numbers.  figure1.py reads  *)
(* files of the same shape from out/buggy/data/ (BugTable).               *)
(***************************************************************************)
EXTENDS Integers, Sequences, SequencesExt, FiniteSets

CONSTANTS
    Files,      \* the entries under the folder, subfolders included
    IsCsv,      \* Files -> the name ends with ".csv"
    Parses,     \* Files -> pd.read_csv returns a frame (a zero-byte file raises)
    HasCols,    \* Files -> read_csv gives the columns Benchmark, Method, Sec
    TopLevel,   \* Files -> the file is directly in the folder
    IsSummary,  \* Files -> "summary" occurs in the path
    Benches,    \* benchmark names
    MethodNames,\* method names found in the files
    SecTokens,  \* the Sec column's cells
    DurVal,     \* the numeric tokens and their values
    BenchRank,  \* Benches -> position in sorted() order
    Tables,     \* the row sequences a file may hold
    Holds       \* Files -> the tables that file may hold

\* Only a file that parses can have columns; a zero-byte file holds no rows.
ASSUME \A f \in Files : HasCols[f] => Parses[f]

Row == [bench : Benches, method : MethodNames, sec : SecTokens]

\* The folders the scripts may be run on: every file holds one of its tables.
FolderContents == {c \in [Files -> Tables] : \A f \in Files : c[f] \in Holds[f]}

\* pd.to_numeric(errors='coerce') gives a number, not NaN.
IsNumeric(r) == r.sec \in DOMAIN DurVal

\* The rows of the files of sequence fs that have the three columns, in
\* order: pd.concat of their frames, as a filter on a name sees it.  A
\* frame without the columns contributes rows whose Benchmark and Method
\* are NaN, which no such filter selects, so they are left out; its own
\* header adds columns that are NaN in every other row (see NoNaNColumn).
RowsOf(content, fs) ==
    LET withCols == SelectSeq(fs, LAMBDA f : HasCols[f])
    IN  FoldLeft(LAMBDA acc, f : acc \o content[f], <<>>, withCols)

\* pd.concat is an outer join of the frames' columns: when one frame of fs
\* lacks Benchmark, Method and Sec (its header names other columns), every
\* row of the concatenation has a NaN cell, and dropna() keeps none.
NoNaNColumn(fs) == \A i \in DOMAIN fs : HasCols[fs[i]]

\* The Benchmark column of a frame, in order of first appearance
\* (Series.unique()).
UniqueBenches(rows) ==
    FoldLeft(LAMBDA acc, r : IF \E i \in DOMAIN acc : acc[i] = r.bench
                             THEN acc ELSE Append(acc, r.bench),
             <<>>, rows)

=============================================================================
