-------------------------- MODULE MCSyntheticFolder --------------------------
(***************************************************************************)
(* Five entries of out/synthetic/:                                         *)
(*   c1  a top-level CSV with the columns, holding any of seven tables;    *)
(*   c2  a CSV with the columns in a subfolder (only os.walk reaches it);  *)
(*   n1  a top-level CSV without the columns, empty or with two records;   *)
(*   s1  a top-level summary.csv with the columns and two records;         *)
(*   z1  a top-level zero-byte CSV, which read_csv cannot parse.           *)
(* Any subset of them is present.  The tables use two benchmarks and the   *)
(* three methods, with one- and two-record files and durations that are   *)
(* positive, zero, negative (a timed-out run) or not a number.            *)
(***************************************************************************)
EXTENDS SyntheticFolder

CONSTANTS c1, c2, n1, s1, z1

MCFiles == {c1, c2, n1, s1, z1}
MCIsCsv == [f \in MCFiles |-> TRUE]
MCParses == [f \in MCFiles |-> f # z1]
MCHasCols == [f \in MCFiles |-> f \in {c1, c2, s1}]
MCTopLevel == [f \in MCFiles |-> f # c2]
MCIsSummary == [f \in MCFiles |-> f = s1]

MCDurVal == ("1" :> 1) @@ ("0" :> 0) @@ ("-1" :> -1)
MCBenchRank == ("b1" :> 1) @@ ("b2" :> 2)

R(b, m, s) == [bench |-> b, method |-> m, sec |-> s]

T0 == <<>>
T1 == <<R("b1", "Random", "1"), R("b1", "3phstar", "1")>>
T2 == <<R("b1", "Random", "1"), R("b1", "3phstar", "-1")>>
T3 == <<R("b2", "3phstar", "1"), R("b2", "GenMC", "1")>>
T4 == <<R("b2", "Random", "0"), R("b2", "3phstar", "1")>>
T5 == <<R("b1", "3phstar", "x")>>
T6 == <<R("b2", "Random", "1")>>

MCTables == {T0, T1, T2, T3, T4, T5, T6}

MCHolds == (c1 :> MCTables) @@ (c2 :> {T0, T4, T6}) @@ (n1 :> {T0, T1})
           @@ (s1 :> {T1}) @@ (z1 :> {T0})

MCTableBenches == <<"b1", "b2">>

=============================================================================
