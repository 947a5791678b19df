---------------------------- MODULE CoxOutcome ----------------------------
(***************************************************************************)
(* What the Cox command line of stat_test.py promises (spec 4.4 and 6),   *)
(* with the data abstracted to one value: `shared`, the benchmarks that   *)
(* have completed runs of both methods.  A run of the script ends, and    *)
(* it ends with a report exactly when `shared` is not empty; with         *)
(* --by-benchmark the report covers exactly the benchmarks of `shared`.   *)
(* Otherwise it ends without a result.                                    *)
(***************************************************************************)
CONSTANTS
    Benches,    \* benchmark names
    ByBench     \* --by-benchmark

VARIABLES
    shared,     \* the benchmarks the two methods both completed
    outcome,    \* "running", "reported" or "refused"
    reportedB   \* the benchmarks with a per-benchmark result

vars == <<shared, outcome, reportedB>>

Init ==
    /\ shared \in SUBSET Benches
    /\ outcome = "running"
    /\ reportedB = {}

Report ==
    /\ outcome = "running" /\ shared # {}
    /\ outcome' = "reported"
    /\ reportedB' = IF ByBench THEN shared ELSE {}
    /\ UNCHANGED shared

Refuse ==
    /\ outcome = "running" /\ shared = {}
    /\ outcome' = "refused"
    /\ UNCHANGED <<shared, reportedB>>

Next == Report \/ Refuse

\* The script is a sequential batch run: once started it takes its next
\* step until it stops.
Spec == Init /\ [][Next]_vars /\ WF_vars(Next)

=============================================================================
