------------------------------ MODULE FigureOne -----------------------------
(***************************************************************************)
(* figure1.py, the error-bar plot of bug-finding time.  Its import builds *)
(* `df` from out/buggy/data/4versions-*.csv as BugTable's does; main then *)
(* calls plot_figure for each family in order.  A family with no Random   *)
(* and no 3phstar row is skipped; otherwise, for each size, head(30) and  *)
(* dropna() of each method's rows give the points of an error bar, and    *)
(* their values and mean()+std() are collected in all_seconds, whose      *)
(* max() sets the y limits.  The PDF goes to out/buggy/plots/, which no   *)
(* script creates.  A drawn value is abstracted to whether it is NaN.     *)
(***************************************************************************)
EXTENDS SyntheticData

CONSTANTS
    Families,   \* benchmarks, in order
    Sizes,      \* range(3, 9)
    Cap         \* head(30)

VARIABLES
    present, content,
    fphase,     \* "import", "plot", "done", or where it raised:
                \* "import_error", "limit_error", "save_error"
    fframes,    \* the frames read, in glob order
    fidx,       \* the position in Families of the next plot_figure call
    plotted,    \* the families whose PDF was written
    plotsDir    \* out/buggy/plots/ exists

fvars == <<present, content, fphase, fframes, fidx, plotted, plotsDir>>

Globbed == {f \in present : IsCsv[f] /\ TopLevel[f]}

\* filtered_random / filtered_3phstar: method m, name matching "<fam>\(".
Selected(fam, m) ==
    SelectSeq(RowsOf(content, fframes), LAMBDA r : r.bench[1] = fam /\ r.method = m)

\* len(...[Benchmark == benchname].head(30).dropna()): dropna() drops a
\* row with a NaN in any column, so a frame without the columns empties it.
KeptCount(fam, m, i) ==
    LET sel == SelectSeq(Selected(fam, m), LAMBDA r : r.bench[2] = i)
    IN  IF NoNaNColumn(fframes)
        THEN Len(SelectSeq(SubSeq(sel, 1, IF Len(sel) < Cap THEN Len(sel) ELSE Cap), IsNumeric))
        ELSE 0

\* mean() + std() of k values: NaN unless k > 1.
MeanPlusStd(k) == IF k > 1 THEN "num" ELSE "nan"

\* all_seconds after the loop: per size the kept Random values, the kept
\* 3phstar values, then each method's mean() + std().
AllSeconds(fam) ==
    FoldLeft(LAMBDA acc, i :
                 LET kr == KeptCount(fam, "Random", i)  kf == KeptCount(fam, "3phstar", i)
                 IN  acc \o [j \in 1..kr + kf |-> "num"] \o <<MeanPlusStd(kr), MeanPlusStd(kf)>>,
             <<>>, Sizes)

\* Mutant of PyMax: max() as a NaN-skipping maximum (numpy's nanmax).
PyMaxSkipNaN(s) == IF \E i \in DOMAIN s : s[i] = "num" THEN "num" ELSE "nan"

\* Python's max(): the first element is replaced only by a later x with
\* x > m, which is False whenever x or m is NaN.
PyMax(s) == FoldLeft(LAMBDA m, x : IF m = "num" /\ x = "num" THEN "num" ELSE m, s[1], Tail(s))

-----------------------------------------------------------------------------

Init ==
    /\ present \in SUBSET Files /\ content \in FolderContents
    /\ fphase = "import" /\ fframes = <<>> /\ fidx = 1 /\ plotted = {}
    /\ plotsDir \in BOOLEAN

\* The import, in any glob order: read_csv of every file, pd.concat and
\* to_numeric succeed.
ImportDf ==
    /\ fphase = "import"
    /\ \A f \in Globbed : Parses[f]
    /\ \E f \in Globbed : HasCols[f]
    /\ \E order \in SetToSeqs(Globbed) : fframes' = order
    /\ fphase' = "plot"
    /\ UNCHANGED <<present, content, fidx, plotted, plotsDir>>

\* read_csv raises on a zero-byte file; pd.concat([]) raises, and so does
\* df["Sec"] when no frame has the column.  Nothing is plotted.
ImportRaises ==
    /\ fphase = "import"
    /\ (\E f \in Globbed : ~Parses[f]) \/ (\A f \in Globbed : ~HasCols[f])
    /\ fphase' = "import_error"
    /\ UNCHANGED <<present, content, fframes, fidx, plotted, plotsDir>>

Fam == Families[fidx]
Drawn == fphase = "plot" /\ fidx <= Len(Families)
            /\ ~(Len(Selected(Fam, "Random")) = 0 /\ Len(Selected(Fam, "3phstar")) = 0)

\* Mutant of SkipFamily: the `&` of the two .empty read as "or".
SkipFamilyEither ==
    /\ fphase = "plot" /\ fidx <= Len(Families)
    /\ Len(Selected(Fam, "Random")) = 0 \/ Len(Selected(Fam, "3phstar")) = 0
    /\ fidx' = fidx + 1
    /\ UNCHANGED <<present, content, fphase, fframes, plotted, plotsDir>>

\* plot_figure returns early when both selections are empty.
SkipFamily ==
    /\ fphase = "plot" /\ fidx <= Len(Families)
    /\ Len(Selected(Fam, "Random")) = 0 /\ Len(Selected(Fam, "3phstar")) = 0
    /\ fidx' = fidx + 1
    /\ UNCHANGED <<present, content, fphase, fframes, plotted, plotsDir>>

\* all_seconds is never empty (two means per size), so the else branch is
\* dead; plt.ylim raises ValueError on a NaN max_y, ending main.
LimitRaises ==
    /\ Drawn /\ PyMax(AllSeconds(Fam)) = "nan"
    /\ fphase' = "limit_error"
    /\ UNCHANGED <<present, content, fframes, fidx, plotted, plotsDir>>

\* plt.savefig into a missing out/buggy/plots/ raises FileNotFoundError.
SaveFails ==
    /\ Drawn /\ PyMax(AllSeconds(Fam)) = "num" /\ ~plotsDir
    /\ fphase' = "save_error"
    /\ UNCHANGED <<present, content, fframes, fidx, plotted, plotsDir>>

\* The PDF of the family is written.
SavePlot ==
    /\ Drawn /\ PyMax(AllSeconds(Fam)) = "num" /\ plotsDir
    /\ plotted' = plotted \cup {Fam} /\ fidx' = fidx + 1
    /\ UNCHANGED <<present, content, fphase, fframes, plotsDir>>

\* plot_figures returns after the last family.
EndPlots ==
    /\ fphase = "plot" /\ fidx = Len(Families) + 1
    /\ fphase' = "done"
    /\ UNCHANGED <<present, content, fframes, fidx, plotted, plotsDir>>

Ended == fphase \notin {"import", "plot"}

Next ==
    \/ ImportDf \/ ImportRaises
    \/ SkipFamily \/ LimitRaises \/ SaveFails \/ SavePlot \/ EndPlots

Spec == Init /\ [][Next]_fvars /\ WF_fvars(Next)

-----------------------------------------------------------------------------
(* Properties.                                                             *)

\* The folder's rows of family fam by method m, as (file, position) pairs,
\* over the globbed files that have the columns.
FolderRows(fam, m) ==
    UNION {{<<f, j>> : j \in {j \in DOMAIN content[f] : content[f][j].bench[1] = fam
                                                      /\ content[f][j].method = m}} :
           f \in {g \in Globbed : HasCols[g]}}

HasRun(fam) == \E m \in {"Random", "3phstar"} : FolderRows(fam, m) # {}

\* The rows of fam by either plotted method at the first size.
FirstSizeRows(fam) ==
    {p \in FolderRows(fam, "Random") \cup FolderRows(fam, "3phstar") :
        content[p[1]][p[2]].bench[2] = Sizes[1]}

\* Some run of fam at the first size has a number that dropna() keeps:
\* every globbed file has the columns.
NumericAtFirst(fam) ==
    /\ \A g \in Globbed : HasCols[g]
    /\ \E p \in FirstSizeRows(fam) : IsNumeric(content[p[1]][p[2]])

\* The plotting loop against the folder: every family plot_figure has
\* passed got a PDF exactly when the folder has a Random or 3phstar run of
\* it, and only if one of them is a number at the first size; when
\* plt.ylim raises, the family has such runs and (when head() drops none)
\* none of them at size 3 is a number that dropna() keeps.  So a family
\* whose runs start at a later size, or lie outside range(3, 9), ends the
\* plotting of all families after it, although spec 7 (b) asks for it to
\* be skipped; and a parsable 4versions CSV without the columns ends it
\* at the first family with a run.
PlotLoopAsFolder ==
    /\ \A i \in 1..fidx - 1 :
           /\ Families[i] \in plotted <=> HasRun(Families[i])
           /\ Families[i] \in plotted => NumericAtFirst(Families[i])
    /\ fphase = "limit_error" =>
           /\ HasRun(Fam)
           /\ \A m \in {"Random", "3phstar"} :
                  Cardinality({p \in FirstSizeRows(Fam) : content[p[1]][p[2]].method = m}) <= Cap
              => ~NumericAtFirst(Fam)

=============================================================================
