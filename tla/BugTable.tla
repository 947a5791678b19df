------------------------------ MODULE BugTable ------------------------------
(***************************************************************************)
(* table4.py, the bug-finding time table.  Importing figure1 builds `df`: *)
(* read_csv of every file of glob("out/buggy/data/4versions-*.csv")       *)
(* (no try), pd.concat of the frames, Sec made numeric.  table4 then      *)
(* prints one row per benchmark name "<family>(<size>)", the list split    *)
(* in two halves over two tables, a \hline before a row whose family      *)
(* differs from the previous row's, and, per row, the Sec and share of     *)
(* each method, the best one in bold.  A row is modelled by its name,     *)
(* whether a \hline precedes it and which method is bold.                 *)
(***************************************************************************)
EXTENDS SyntheticData

CONSTANTS
    Families,   \* figure1.benchmarks, in order
    Sizes,      \* range(3, 9)
    Cap         \* head(30)

VARIABLES
    present, content,
    bphase,     \* "read", "rows", "done" or "crashed"
    bunread,    \* the globbed files the list comprehension has not read
    bframes,    \* the frames read, in glob order
    table,      \* the table being printed, 1 or 2
    idx,        \* the position in BenchList of the next row
    curr,       \* print_bench_lines' `curr`: the family of the last row
    lines       \* the rows printed: [bench, hline, bold]

vars == <<present, content, bphase, bunread, bframes, table, idx, curr, lines>>

MethodSeq == <<"no", "star", "3phstar">>

\* benchmarks = [f"{b}({i})" for b in benchmarks for i in range(3, 9)]
BenchList == [i \in 1..Len(Families) * Len(Sizes) |->
                 <<Families[((i - 1) \div Len(Sizes)) + 1], Sizes[((i - 1) % Len(Sizes)) + 1]>>]

\* split_list: benchmarks_1 is BenchList[1..Mid].
Mid == Len(BenchList) \div 2

\* Python's round() on a non-negative a/n: halves go to the even integer.
RoundHalfEven(a, n) ==
    LET q == a \div n  r == a % n
    IN  IF 2 * r < n \/ (2 * r = n /\ q % 2 = 0) THEN q ELSE q + 1

\* One method's column: n rows after head(Cap), k of them left by dropna(),
\* the sum s and the sum of squares q of their Sec.  dropna() drops a row
\* with a NaN in any column: a NaN Sec, or a column of another frame.
Stats(b, m) ==
    LET sel  == SelectSeq(RowsOf(content, bframes), LAMBDA r : r.bench = b /\ r.method = m)
        head == SubSeq(sel, 1, IF Len(sel) < Cap THEN Len(sel) ELSE Cap)
        data == IF NoNaNColumn(bframes) THEN SelectSeq(head, IsNumeric) ELSE <<>>
    IN  [n |-> Len(head), k |-> Len(data),
         s |-> FoldLeft(LAMBDA a, r : a + DurVal[r.sec], 0, data),
         q |-> FoldLeft(LAMBDA a, r : a + DurVal[r.sec] * DurVal[r.sec], 0, data)]

\* percent_rounded, in units of 1/30 %: round(k / n * 100 * 30).
Pct(st) == IF st.n > 0 THEN RoundHalfEven(3000 * st.k, st.n) ELSE 0

\* The sample variance as a fraction (std is 0 for fewer than two values);
\* std compares as the variance does.
VarFrac(st) ==
    IF st.k > 1 THEN <<st.k * st.q - st.s * st.s, st.k * (st.k - 1)>> ELSE <<0, 1>>
FracLess(x, y) == x[1] * y[2] < y[1] * x[2]

\* (percent, -mean, -std) of a is greater than that of b, as tuples.
Outranks(a, b) ==
    \/ Pct(a) > Pct(b)
    \/ Pct(a) = Pct(b) /\ a.s * b.k < b.s * a.k
    \/ Pct(a) = Pct(b) /\ a.s * b.k = b.s * a.k /\ FracLess(VarFrac(a), VarFrac(b))

\* Mutant of BestMethod: a later method with an equal score replaces the best.
BestMethodLastTie(b) ==
    FoldLeft(LAMBDA acc, m : IF Stats(b, m).k > 0 /\ (acc = "none" \/ ~Outranks(Stats(b, acc), Stats(b, m)))
                             THEN m ELSE acc, "none", MethodSeq)

\* The loop over method_data: a method with data whose score is strictly
\* greater replaces the best.  The sentinel (-inf, inf, inf) loses to any
\* score, which "none" stands for.  Only a method with data is bolded.
BestMethod(b) ==
    FoldLeft(LAMBDA acc, m : IF Stats(b, m).k > 0 /\ (acc = "none" \/ Outranks(Stats(b, m), Stats(b, acc)))
                             THEN m ELSE acc, "none", MethodSeq)

-----------------------------------------------------------------------------

TypeOK ==
    /\ present \subseteq Files /\ content \in [Files -> Tables]
    /\ bphase \in {"read", "rows", "done", "crashed"}
    /\ bunread \subseteq Files /\ bframes \in Seq(Files)
    /\ table \in {1, 2} /\ idx \in 1..Len(BenchList) + 1
    /\ curr \in {Families[i] : i \in DOMAIN Families}
    /\ lines \in Seq([bench : Benches, hline : BOOLEAN,
                      bold : {MethodSeq[i] : i \in 1..3} \cup {"none"}])

\* current_bench = benchmarks[0].
Init ==
    /\ present \in SUBSET Files /\ content \in FolderContents
    /\ bphase = "read" /\ bunread = {f \in present : IsCsv[f] /\ TopLevel[f]}
    /\ bframes = <<>> /\ table = 1 /\ idx = 1 /\ curr = Families[1] /\ lines = <<>>

\* pd.read_csv(file) for one file of file_list.
ReadFile(f) ==
    /\ bphase = "read" /\ f \in bunread /\ Parses[f]
    /\ bunread' = bunread \ {f} /\ bframes' = Append(bframes, f)
    /\ UNCHANGED <<present, content, bphase, table, idx, curr, lines>>

\* read_csv raises on a zero-byte file, at import: nothing is printed.
ReadRaises(f) ==
    /\ bphase = "read" /\ f \in bunread /\ ~Parses[f]
    /\ bphase' = "crashed"
    /\ UNCHANGED <<present, content, bunread, bframes, table, idx, curr, lines>>

\* pd.concat([]) raises ValueError; with no frame holding the columns,
\* df["Sec"] raises KeyError.
ConcatFails ==
    /\ bphase = "read" /\ bunread = {}
    /\ \A i \in DOMAIN bframes : ~HasCols[bframes[i]]
    /\ bphase' = "crashed"
    /\ UNCHANGED <<present, content, bunread, bframes, table, idx, curr, lines>>

\* pd.concat, to_numeric, and the first table's header.
ConcatFrames ==
    /\ bphase = "read" /\ bunread = {}
    /\ \E i \in DOMAIN bframes : HasCols[bframes[i]]
    /\ bphase' = "rows"
    /\ UNCHANGED <<present, content, bunread, bframes, table, idx, curr, lines>>

\* Mutant of PrintBenchLine: curr keeps the whole name, not its family.
PrintBenchLineNoSplit ==
    /\ bphase = "rows" /\ idx <= IF table = 1 THEN Mid ELSE Len(BenchList)
    /\ LET b == BenchList[idx]
       IN  /\ lines' = Append(lines, [bench |-> b, hline |-> b[1] # curr, bold |-> BestMethod(b)])
           /\ curr' = b
    /\ idx' = idx + 1
    /\ UNCHANGED <<present, content, bphase, bunread, bframes, table>>

\* One iteration of print_bench_lines: \hline unless the name starts with
\* curr + "(", curr set to the family, then print_bench_line.
PrintBenchLine ==
    /\ bphase = "rows" /\ idx <= IF table = 1 THEN Mid ELSE Len(BenchList)
    /\ LET b == BenchList[idx]
       IN  /\ lines' = Append(lines, [bench |-> b, hline |-> b[1] # curr, bold |-> BestMethod(b)])
           /\ curr' = b[1]
    /\ idx' = idx + 1
    /\ UNCHANGED <<present, content, bphase, bunread, bframes, table>>

\* Mutant of EndFirstTable: the second table starts from benchmarks[0].
EndFirstTableReset ==
    /\ bphase = "rows" /\ table = 1 /\ idx = Mid + 1
    /\ table' = 2 /\ curr' = Families[1]
    /\ UNCHANGED <<present, content, bphase, bunread, bframes, idx, lines>>

\* The first table's footer and the second's header; the returned curr
\* is passed on.
EndFirstTable ==
    /\ bphase = "rows" /\ table = 1 /\ idx = Mid + 1
    /\ table' = 2
    /\ UNCHANGED <<present, content, bphase, bunread, bframes, idx, curr, lines>>

\* The second table's footer.
EndSecondTable ==
    /\ bphase = "rows" /\ table = 2 /\ idx = Len(BenchList) + 1
    /\ bphase' = "done"
    /\ UNCHANGED <<present, content, bunread, bframes, table, idx, curr, lines>>

Next ==
    \/ \E f \in Files : ReadFile(f) \/ ReadRaises(f)
    \/ ConcatFails \/ ConcatFrames
    \/ PrintBenchLine \/ EndFirstTable \/ EndSecondTable

\* A sequential script: it takes its next step until it stops.
Spec == Init /\ [][Next]_vars /\ WF_vars(Next)

-----------------------------------------------------------------------------
(* Properties.                                                             *)

\* The runs of b by method m in the folder, as (file, position) pairs, and
\* their column computed as a set: figure1 reads the top-level matching
\* files with the columns.  A run counts as found when its Sec is a
\* number and every matching file has the three columns.
FolderRuns(b, m) ==
    UNION {{<<f, i>> : i \in {j \in DOMAIN content[f] : content[f][j].bench = b
                                                      /\ content[f][j].method = m}} :
           f \in {g \in present : IsCsv[g] /\ TopLevel[g] /\ HasCols[g]}}

RefStats(b, m) ==
    LET uniform == \A g \in present : IsCsv[g] /\ TopLevel[g] => HasCols[g]
        fin == {p \in FolderRuns(b, m) : uniform /\ IsNumeric(content[p[1]][p[2]])}
        v(p) == DurVal[content[p[1]][p[2]].sec]
    IN  [n |-> Cardinality(FolderRuns(b, m)), k |-> Cardinality(fin),
         s |-> MapThenSumSet(v, fin), q |-> MapThenSumSet(LAMBDA p : v(p) * v(p), fin)]

\* The priority of the comment at line 46, by filtering: among the methods
\* with data the highest share of found runs, then the lowest mean, then
\* the lowest std, then the first in the table.
RefBest(b) ==
    LET st     == [m \in {"no", "star", "3phstar"} |-> RefStats(b, m)]
        cands  == {m \in DOMAIN st : st[m].k > 0}
        top    == {m \in cands : \A o \in cands : st[o].k * st[m].n <= st[m].k * st[o].n}
        fast   == {m \in top : \A o \in top : st[m].s * st[o].k <= st[o].s * st[m].k}
        steady == {m \in fast : \A o \in fast : ~FracLess(VarFrac(st[o]), VarFrac(st[m]))}
    IN  IF steady = {} THEN "none"
        ELSE MethodSeq[Min({i \in 1..3 : MethodSeq[i] \in steady})]

\* When no method has more runs of b than head() keeps, the bold method of
\* b's row is the best by that priority over the folder's runs, whatever
\* the glob order of the files: the rounding of the percentage, the tuple
\* comparison with its sentinel and the strict > agree with it, ties
\* included.  A parsable 4versions CSV without the columns leaves no run
\* found (dropna() at line 27 drops every row), so every cell is \clock
\* and no method is bold.
BoldIsBest ==
    \A i \in DOMAIN lines :
        (\A m \in {"no", "star", "3phstar"} : Cardinality(FolderRuns(lines[i].bench, m)) <= Cap)
            => lines[i].bold = RefBest(lines[i].bench)

\* The two tables print the names of the list in order, all of them once
\* the second is closed, and a row is preceded by \hline exactly when its
\* family differs from that of the row printed before it, across the
\* split between the tables (the first row is compared with benchmarks[0]).
TablesInListOrder ==
    /\ \A i \in DOMAIN lines :
           /\ lines[i].bench = BenchList[i]
           /\ lines[i].hline = (lines[i].bench[1] # IF i = 1 THEN Families[1] ELSE lines[i - 1].bench[1])
    /\ bphase = "done" => Len(lines) = Len(BenchList)

=============================================================================
