---------------------------- MODULE SummaryTable ----------------------------
(***************************************************************************)
(* table1.py: print_table() calls get_df("out/synthetic/"), which reads  *)
(* every *.csv directly in the folder whose path does not contain         *)
(* "summary" (read_csv outside any try) and concatenates them, then       *)
(* get_data() for each benchmark of the fixed list `benchnames`, in its   *)
(* three groups.  get_data prints one LaTeX row: per method of GenMC,     *)
(* Random and 3phstar, \bugnotfound when it has no rows, \clock when no   *)
(* row has a Sec that is a number >= 0, else the mean (and std) of those  *)
(* and the share of rows they are.  A cell is modelled by its kind, its   *)
(* number of rows and its number of successful rows, which fix the        *)
(* percentage; the layout, the mean and the std are left out.             *)
(***************************************************************************)
EXTENDS SyntheticData

CONSTANTS
    TableBenches    \* benchnames in print order: long-assert, mp, n1-val

VARIABLES
    present,    \* the entries the folder holds
    content,    \* Files -> the rows of the file
    tphase,     \* "glob", "rows", "done" or "crashed"
    tunread,    \* the globbed files get_df has not reached
    tframes,    \* the files appended to df_list, in glob order
    tnext,      \* the position in TableBenches of the next row
    cells       \* printed benchmark -> method -> Cell

vars == <<present, content, tphase, tunread, tframes, tnext, cells>>

TabMethods == {"GenMC", "Random", "3phstar"}

Cell == [kind : {"bugnotfound", "clock", "value"}, total : Nat, ok : Nat]

\* Fault-injection variant of ValidTime: a Sec of 0 is not a success.
ValidTimePositive(r) == IsNumeric(r) /\ DurVal[r.sec] > 0

\* dropna() then `valid_data >= 0`.
ValidTime(r) == IsNumeric(r) /\ DurVal[r.sec] >= 0

\* The cell get_data prints for benchmark b and method m.
CellOf(b, m) ==
    LET sel == SelectSeq(RowsOf(content, tframes),
                         LAMBDA r : r.bench = b /\ r.method = m)
        ok  == Len(SelectSeq(sel, ValidTime))
    IN  [kind  |-> IF sel = <<>> THEN "bugnotfound"
                   ELSE IF ok = 0 THEN "clock" ELSE "value",
         total |-> Len(sel),
         ok    |-> ok]

-----------------------------------------------------------------------------

TypeOK ==
    /\ present \subseteq Files
    /\ content \in [Files -> Tables]
    /\ tphase \in {"glob", "rows", "done", "crashed"}
    /\ tunread \subseteq Files
    /\ tframes \in Seq(Files)
    /\ tnext \in 1..Len(TableBenches) + 1
    /\ \E S \in SUBSET Benches : cells \in [S -> [TabMethods -> Cell]]

Init ==
    /\ present \in SUBSET Files
    /\ content \in FolderContents
    /\ tphase = "glob"
    /\ tunread = {f \in present : IsCsv[f] /\ TopLevel[f]}
    /\ tframes = <<>>
    /\ tnext = 1
    /\ cells = <<>>

\* One file of glob(f"{dir}*.csv") that is not a summary: read_csv with
\* no try, and the frame appended to df_list.
ReadCsv(f) ==
    /\ tphase = "glob" /\ f \in tunread /\ ~IsSummary[f] /\ Parses[f]
    /\ tunread' = tunread \ {f}
    /\ tframes' = Append(tframes, f)
    /\ UNCHANGED <<present, content, tphase, tnext, cells>>

\* read_csv raises (EmptyDataError on a zero-byte file): nothing catches
\* it and the script ends.
ReadRaises(f) ==
    /\ tphase = "glob" /\ f \in tunread /\ ~IsSummary[f] /\ ~Parses[f]
    /\ tphase' = "crashed"
    /\ UNCHANGED <<present, content, tunread, tframes, tnext, cells>>

\* `if "summary" not in file`: summary.csv is passed over.
SkipSummary(f) ==
    /\ tphase = "glob" /\ f \in tunread /\ IsSummary[f]
    /\ tunread' = tunread \ {f}
    /\ UNCHANGED <<present, content, tphase, tframes, tnext, cells>>

\* `if not df_list`: get_df prints and returns None, and the first
\* get_data evaluates None["Benchmark"]: TypeError.  With frames none of
\* which has the columns, df["Benchmark"] raises KeyError.
NoUsableFrame ==
    /\ tphase = "glob" /\ tunread = {} /\ TableBenches # <<>>
    /\ \A i \in DOMAIN tframes : ~HasCols[tframes[i]]
    /\ tphase' = "crashed"
    /\ UNCHANGED <<present, content, tunread, tframes, tnext, cells>>

\* pd.concat(df_list), and the table header is printed.
ConcatFrames ==
    /\ tphase = "glob" /\ tunread = {}
    /\ \E i \in DOMAIN tframes : HasCols[tframes[i]]
    /\ tphase' = "rows"
    /\ UNCHANGED <<present, content, tunread, tframes, tnext, cells>>

\* get_data for the next benchmark of the list.
PrintRow ==
    /\ tphase = "rows" /\ tnext <= Len(TableBenches)
    /\ cells' = cells @@ (TableBenches[tnext] :> [m \in TabMethods |-> CellOf(TableBenches[tnext], m)])
    /\ tnext' = tnext + 1
    /\ UNCHANGED <<present, content, tphase, tunread, tframes>>

\* The table footer is printed.
EndTable ==
    /\ tphase = "rows" /\ tnext > Len(TableBenches)
    /\ tphase' = "done"
    /\ UNCHANGED <<present, content, tunread, tframes, tnext, cells>>

Next ==
    \/ \E f \in Files : ReadCsv(f) \/ ReadRaises(f) \/ SkipSummary(f)
    \/ NoUsableFrame \/ ConcatFrames
    \/ PrintRow \/ EndTable

\* A sequential script: it takes its next step until it stops.
Spec == Init /\ [][Next]_vars /\ WF_vars(Next)

Ended == tphase \in {"done", "crashed"}

-----------------------------------------------------------------------------
(* Properties.                                                             *)

\* The runs of the folder that table1 reads, as (file, position) pairs:
\* the rows of the top-level, non-summary CSV files with the columns.
TableRuns ==
    UNION {{<<f, i>> : i \in DOMAIN content[f]} :
           f \in {g \in present : IsCsv[g] /\ TopLevel[g] /\ ~IsSummary[g] /\ HasCols[g]}}

\* The cell an order-free count gives: the runs of b and m, and those that
\* finished (a Sec that is a number and not negative; a timed-out run is
\* logged with a negative Sec).
RefCell(b, m) ==
    LET runs == {p \in TableRuns : content[p[1]][p[2]].bench = b
                                   /\ content[p[1]][p[2]].method = m}
        fin  == {p \in runs : content[p[1]][p[2]].sec \in DOMAIN DurVal
                              /\ DurVal[content[p[1]][p[2]].sec] >= 0}
    IN  [kind  |-> IF runs = {} THEN "bugnotfound"
                   ELSE IF fin = {} THEN "clock" ELSE "value",
         total |-> Cardinality(runs),
         ok    |-> Cardinality(fin)]

\* A finished table shows every benchmark of the list, and each cell
\* counts exactly the runs and the finished runs of its benchmark and
\* method in the folder's top-level CSVs, whatever the glob order, the
\* summary file and the files without the columns.
TableCellsAsFolder ==
    tphase = "done" =>
        /\ DOMAIN cells = {TableBenches[i] : i \in DOMAIN TableBenches}
        /\ \A b \in DOMAIN cells, m \in TabMethods : cells[b][m] = RefCell(b, m)

=============================================================================
