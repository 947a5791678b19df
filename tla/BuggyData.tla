------------------------------ MODULE BuggyData -----------------------------
(***************************************************************************)
(* The two scripts on out/buggy/data/: `python figure1.py` draws the      *)
(* plots, then `python table4.py`, whose `from figure1 import df` runs    *)
(* figure1's import again, prints the table.  They share the folder, read *)
(* it in their own glob order, and change nothing the other reads.        *)
(***************************************************************************)
EXTENDS SyntheticData

CONSTANTS Families, Sizes, Cap

VARIABLES
    present, content,
    fphase, fframes, fidx, plotted, plotsDir,
    bphase, bunread, bframes, table, idx, curr, lines

Fig == INSTANCE FigureOne
Tab == INSTANCE BugTable

figVars == <<fphase, fframes, fidx, plotted, plotsDir>>
tabVars == <<bphase, bunread, bframes, table, idx, curr, lines>>
vars == <<present, content, figVars, tabVars>>

Init == Fig!Init /\ Tab!Init

\* figure1.py runs to its end or its error, then table4.py.
Next ==
    \/ Fig!Next /\ UNCHANGED tabVars
    \/ Fig!Ended /\ Tab!Next /\ UNCHANGED figVars

Spec == Init /\ [][Next]_vars /\ WF_vars(Next)

\* Each script's own properties, checked on the composition.
\* FigureOne: the plotting loop plots and raises as the folder says.
FigPlotLoopAsFolder == Fig!PlotLoopAsFolder
\* BugTable: the variables keep their types.
TabTypeOK == Tab!TypeOK
\* BugTable: the bold method is the best by the comment's priority.
TabBoldIsBest == Tab!BoldIsBest
\* BugTable: the rows and their \hline follow the benchmark list.
TabTablesInListOrder == Tab!TablesInListOrder

=============================================================================
