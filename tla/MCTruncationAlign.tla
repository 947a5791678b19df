------------------------- MODULE MCTruncationAlign -------------------------
(***************************************************************************)
(* Benchmark "mp": any subset of two rand runs, one fuzz run, a paired    *)
(* time file and a run of a third method ("cov").                          *)
(* Each log is cleaned: a header or not, then rows (Iter, Cover,           *)
(* SecElapsed) with increasing Iter and SecElapsed and non-decreasing     *)
(* Cover, with or without a plateau.                                       *)
(***************************************************************************)
EXTENDS TruncationAlign

CONSTANTS a1, a2, b1, t1, u1

MCFiles == {a1, a2, b1, t1, u1}

MCFileName ==
    (a1 :> <<"mp", "rand", "1">>) @@ (a2 :> <<"mp", "rand", "2">>) @@
    (b1 :> <<"mp", "fuzz", "1">>) @@ (t1 :> <<"mp", "rand", "1", "time">>) @@
    (u1 :> <<"mp", "cov", "1">>)

MCBench == <<"mp">>

MCNumParts == {"1", "2"}

MCLogs ==
    { [zero |-> FALSE, header |-> TRUE,
       rows |-> <<[i |-> 1, c |-> 3, s |-> 1], [i |-> 2, c |-> 4, s |-> 2]>>],
      [zero |-> FALSE, header |-> TRUE,
       rows |-> <<[i |-> 1, c |-> 3, s |-> 1], [i |-> 2, c |-> 3, s |-> 2],
                  [i |-> 3, c |-> 4, s |-> 3]>>],
      [zero |-> FALSE, header |-> FALSE,
       rows |-> <<[i |-> 1, c |-> 3, s |-> 1], [i |-> 2, c |-> 4, s |-> 2]>>] }


\* The logs of the pass run: those of MCLogs, a 0-byte file and a log
\* that cleaning reduced to its header.
MCLogsWithEmpty ==
    MCLogs \cup { [zero |-> TRUE, header |-> FALSE, rows |-> <<>>],
                  [zero |-> FALSE, header |-> TRUE, rows |-> <<>>] }

=============================================================================
