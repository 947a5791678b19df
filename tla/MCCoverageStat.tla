--------------------------- MODULE MCCoverageStat ---------------------------
(***************************************************************************)
(* Model of the coverage analysis of stat_test.py: two benchmarks, one of  *)
(* whose names contains a '-', a run of each method for each, a paired     *)
(* time file and a file named after the Random/3phstar convention of       *)
(* figure4.py.  Each file holds no line, only an invalid row, or a valid   *)
(* row.                                                                    *)
(***************************************************************************)
EXTENDS CoverageStat

MCNames ==
    { <<"ms", "queue", "rand", "1">>, <<"ms", "queue", "fuzz", "1">>,
      <<"mp", "rand", "1">>, <<"mp", "fuzz", "2">>,
      <<"mp", "rand", "1", "time">>, <<"mp", "Random", "3">> }

MCContents == { <<>>, <<<<"3", "3", "0">>>>, <<<<"1", "1", "1">>>> }

=============================================================================
