--------------------------- MODULE MCCoxAnalysis ---------------------------
(***************************************************************************)
(* Three entries under --dir: two CSVs with the expected columns (one in   *)
(* a subfolder; os.walk finds both) and one without them.  Each holds one  *)
(* of seven small tables over two benchmarks and three methods, with      *)
(* durations that are positive, zero, negative (a timed-out run) or not a  *)
(* number.                                                                 *)
(***************************************************************************)
EXTENDS CoxAnalysis

CONSTANTS c1, c2, n1

MCFiles == {c1, c2, n1}
MCIsCsv == (c1 :> TRUE) @@ (c2 :> TRUE) @@ (n1 :> TRUE)
MCHasCols == (c1 :> TRUE) @@ (c2 :> TRUE) @@ (n1 :> FALSE)
MCParses == [f \in MCFiles |-> TRUE]
MCTopLevel == (c1 :> TRUE) @@ (c2 :> FALSE) @@ (n1 :> TRUE)
MCIsSummary == [f \in MCFiles |-> FALSE]

MCDurVal == ("1" :> 1) @@ ("0" :> 0) @@ ("-1" :> -1)
MCBenchRank == ("b1" :> 1) @@ ("b2" :> 2)

R(b, m, s) == [bench |-> b, method |-> m, sec |-> s]

MCTables ==
    { <<>>,
      <<R("b1", "Random", "1"), R("b1", "3phstar", "1")>>,
      <<R("b1", "Random", "1"), R("b1", "3phstar", "-1")>>,
      <<R("b2", "3phstar", "1"), R("b2", "GenMC", "1")>>,
      <<R("b2", "Random", "0"), R("b2", "3phstar", "1")>>,
      <<R("b1", "3phstar", "x")>>,
      <<R("b2", "Random", "1")>> }

MCHolds == [f \in MCFiles |-> MCTables]

=============================================================================
