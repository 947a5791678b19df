---------------------------- MODULE MCBuggyData -----------------------------
(***************************************************************************)
(* Five entries of out/buggy/data/:                                        *)
(*   d1, d2  4versions-*.csv files with the columns;                       *)
(*   n1      a 4versions-*.csv file without them;                          *)
(*   z1      a zero-byte 4versions-*.csv file;                             *)
(*   o1      a CSV whose name the glob does not match.                     *)
(* Any subset is present, and out/buggy/plots/ may be missing.  Three     *)
(* families (model values, after dglm-queue, ms-queue, treiber-stack) of   *)
(* two sizes give six rows, so the split falls inside family mq as it     *)
(* falls inside ms-queue-opt2 in the real list.  head() keeps two rows,   *)
(* so two files can overfill it; the tables give ties on share, mean and  *)
(* std, a family with Random runs only (T6), runs that start at size 4    *)
(* (T2, T4) and a run of a size outside range(3, 9) (T7).                 *)
(***************************************************************************)
EXTENDS BuggyData

CONSTANTS d1, d2, n1, z1, o1, dq, mq, ts

MCFiles == {d1, d2, n1, z1, o1}
MCIsCsv == [f \in MCFiles |-> f # o1]
MCParses == [f \in MCFiles |-> f # z1]
MCHasCols == [f \in MCFiles |-> f \in {d1, d2, o1}]
MCTopLevel == [f \in MCFiles |-> TRUE]
MCIsSummary == [f \in MCFiles |-> FALSE]

MCFamilies == <<dq, mq, ts>>
MCSizes == <<3, 4>>
MCBenches == {dq, mq, ts} \X {3, 4, 9}
MCBenchRank == [b \in MCBenches |-> 1]
MCDurVal == ("0" :> 0) @@ ("1" :> 1) @@ ("2" :> 2)

R(b, m, s) == [bench |-> b, method |-> m, sec |-> s]

T0 == <<>>
T1 == <<R(<<dq, 4>>, "no", "1"), R(<<dq, 4>>, "star", "1")>>
T2 == <<R(<<dq, 4>>, "star", "2"), R(<<dq, 4>>, "3phstar", "x"), R(<<dq, 4>>, "3phstar", "1")>>
T3 == <<R(<<dq, 4>>, "no", "2"), R(<<dq, 4>>, "no", "0")>>
T4 == <<R(<<mq, 4>>, "3phstar", "1"), R(<<mq, 4>>, "no", "x")>>
T5 == <<R(<<dq, 4>>, "star", "1"), R(<<dq, 4>>, "star", "1")>>
T6 == <<R(<<dq, 3>>, "Random", "1"), R(<<mq, 3>>, "3phstar", "x")>>
T7 == <<R(<<ts, 9>>, "Random", "2")>>

MCTables == {T0, T1, T2, T3, T4, T5, T6, T7}

MCHolds == (d1 :> {T0, T1, T2, T3, T4, T6}) @@ (d2 :> {T0, T1, T2, T4, T5, T7})
           @@ (n1 :> {T1}) @@ (z1 :> {T0}) @@ (o1 :> {T1})

=============================================================================
