------------------------ MODULE MCInterpolationAlign ------------------------
(***************************************************************************)
(* Benchmark "mp" with two Random logs of the same index (1 and 01, so    *)
(* their order is os.listdir's), one 3phstar log, and a Random log with a *)
(* ".csv" extension that load_files does not match; "q", sorted after it, *)
(* is named only by a 3phstar log with an extension.  Each file is        *)
(* empty, header-only, one row, or a sorted run of two or three rows with  *)
(* positive times, as clean_csv leaves them.                               *)
(***************************************************************************)
EXTENDS InterpolationAlign

CONSTANTS r1, r2, s1, x1, y1

MCFiles == {r1, r2, s1, x1, y1}

MCFileName ==
    (r1 :> <<"mp", "Random", "1">>) @@ (r2 :> <<"mp", "Random", "01">>) @@
    (s1 :> <<"mp", "3phstar", "2">>) @@ (x1 :> <<"mp", "Random", "1.csv">>) @@
    (y1 :> <<"q", "3phstar", "1.csv">>)

MCNameRank == (<<"mp">> :> 1) @@ (<<"q">> :> 2)

MCIndexVal == ("1" :> 1) @@ ("01" :> 1) @@ ("2" :> 2)

MCRuns ==
    { <<>>,
      <<[t |-> 1, c |-> 1]>>,
      <<[t |-> 1, c |-> 0], [t |-> 2, c |-> 2]>>,
      <<[t |-> 2, c |-> 1], [t |-> 4, c |-> 3]>>,
      <<[t |-> 1, c |-> 1], [t |-> 2, c |-> 1], [t |-> 4, c |-> 2]>> }

=============================================================================
