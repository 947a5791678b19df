---------------------------- MODULE CoverageRate ----------------------------
(***************************************************************************)
(* The per-file scan of stat_test.load_coverage_benchmark_set: the last    *)
(* syntactically valid line of a coverage log, from which the coverage     *)
(* rate Cover/SecElapsed of the run is computed.                           *)
(***************************************************************************)
EXTENDS Integers, Sequences, SequencesExt, CsvLine

\* Fault-injection variant of ScannedValid: the `if se > 0` test dropped.
ScannedValidNoSecCheck(l) ==
    /\ l # <<"">>
    /\ ~IsHeaderLine(l)
    /\ CommaCount(l) = 2
    /\ ParsesInt(l[1]) /\ ParsesInt(l[2]) /\ ParsesFloat(l[3])

\* A line that sets last_valid: not blank, not the header, two commas,
\* int, int, float, and a positive SecElapsed.
ScannedValid(l) ==
    /\ l # <<"">>
    /\ ~IsHeaderLine(l)
    /\ CommaCount(l) = 2
    /\ ParsesInt(l[1]) /\ ParsesInt(l[2]) /\ ParsesFloat(l[3])
    /\ FloatGtZero(l[3])

\* last_valid after the loop over the file: <<>> for None (the file is
\* then skipped and yields no rate), else the one line the rate is
\* computed from.  An empty file (getsize = 0) also yields None.
LastValid(lines) ==
    LET valid == SelectSeq(lines, ScannedValid)
    IN  IF valid = <<>> THEN <<>> ELSE <<Last(valid)>>

=============================================================================
