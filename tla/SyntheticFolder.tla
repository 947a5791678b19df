--------------------------- MODULE SyntheticFolder ---------------------------
(***************************************************************************)
(* The three scripts that read out/synthetic/, run one after another on   *)
(* the same folder, as one does to produce the table and the Cox results  *)
(* of the synthetic benchmarks: table1.py, synthetic_cox_analysis.py,     *)
(* and stat_test.py --analysis cox.  None of them writes to the folder,   *)
(* so running them in sequence loses no interleaving: they share only     *)
(* `present` and `content`, which no step changes.                        *)
(***************************************************************************)
EXTENDS SyntheticData

CONSTANTS TableBenches, M1, M2, ByBench

VARIABLES
    stage,      \* the script running: "table", "synthetic", "cli" or "end"
    present, content,
    tphase, tunread, tframes, tnext, cells,
    sphase, unglobbed, loaded, overall, spending, results,
    phase, unwalked, frames, fitData, pendingB, fitted

tabVars == <<tphase, tunread, tframes, tnext, cells>>
synVars == <<sphase, unglobbed, loaded, overall, spending, results>>
cliVars == <<phase, unwalked, frames, fitData, pendingB, fitted>>
vars == <<stage, present, content, tabVars, synVars, cliVars>>

Tab == INSTANCE SummaryTable
Syn == INSTANCE SyntheticCox
Cli == INSTANCE CoxAnalysis

TypeOK ==
    /\ stage \in {"table", "synthetic", "cli", "end"}
    /\ Tab!TypeOK /\ Syn!TypeOK /\ Cli!TypeOK

Init ==
    /\ stage = "table"
    /\ Tab!Init /\ Syn!Init /\ Cli!Init

\* A step of the script that is running.
RunTable ==
    stage = "table" /\ Tab!Next /\ UNCHANGED <<stage, synVars, cliVars>>
RunSynthetic ==
    stage = "synthetic" /\ Syn!Next /\ UNCHANGED <<stage, tabVars, cliVars>>
RunCli ==
    stage = "cli" /\ Cli!Next /\ UNCHANGED <<stage, tabVars, synVars>>

\* The running script has stopped, by returning or by an error: the next
\* one is started.
NextScript ==
    /\ \/ stage = "table" /\ Tab!Ended /\ stage' = "synthetic"
       \/ stage = "synthetic" /\ Syn!Ended /\ stage' = "cli"
       \/ stage = "cli" /\ Cli!Ended /\ stage' = "end"
    /\ UNCHANGED <<present, content, tabVars, synVars, cliVars>>

Next == RunTable \/ RunSynthetic \/ RunCli \/ NextScript

\* Each script is single-threaded and takes its next step until it stops,
\* and the next command is run after it.
Spec == Init /\ [][Next]_vars /\ WF_vars(Next)

-----------------------------------------------------------------------------
(* Properties.                                                             *)

\* table1.py's cells count the folder's runs (see SummaryTable).
TableCellsAsFolder == Tab!TableCellsAsFolder

\* The command line implements CoxOutcome (see CoxAnalysis).
CliImplementsOutcome == Cli!CliImplementsOutcome

\* Spec 7: only malformed top-level CSV schemas may end a run with an
\* uncaught error; missing or empty data gives a placeholder row and
\* processing goes on, and (spec 5) a file that cannot be read is skipped.
\* So a script that stopped with an error has read some CSV, and none of
\* the CSVs it read has the expected columns.  The command line keeps only
\* frames with the columns, so it may not stop with an error at all.
Malformed(fs) == fs # <<>> /\ \A i \in DOMAIN fs : ~HasCols[fs[i]]

NoUncaughtError ==
    /\ tphase = "crashed" => Malformed(tframes)
    /\ sphase = "crashed" => Malformed(loaded)
    /\ phase # "crashed"

=============================================================================
