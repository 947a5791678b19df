------------------------------ MODULE CsvLine ------------------------------
(***************************************************************************)
(* One text line of a coverage log "Iter,Cover,SecElapsed", as the scripts *)
(* see it after line.strip(): the sequence of its comma-separated tokens   *)
(* (line.split(',')).  A token is a short string; the numerals among them  *)
(* carry their integer value in IntVal.  The Python conversions int(),     *)
(* float() and the comparisons of a float with 0 are modelled by what they *)
(* do on these tokens, NaN included.                                       *)
(***************************************************************************)
EXTENDS Integers, Sequences

\* Numerals and their values: int(t) succeeds exactly on these.
IntVal == [n \in {"-1", "0", "1", "2", "3"} |->
             CASE n = "-1" -> -1 [] n = "0" -> 0 [] n = "1" -> 1
               [] n = "2" -> 2  [] n = "3" -> 3]

\* A positive decimal that is not an integer, such as "2.5".
Frac == "2.5"
\* float("nan"): parses, and every comparison with it is false.
NaN == "nan"

\* The three leading tokens of the header "Iter,Cover,SecElapsed".
HeaderWords == <<"Iter", "Cover", "SecElapsed">>

\* line.count(',')
CommaCount(l) == Len(l) - 1

\* line.startswith("Iter,Cover,SecElapsed")
IsHeaderLine(l) == Len(l) >= 3 /\ SubSeq(l, 1, 3) = HeaderWords

\* int(t) does not raise ValueError.
ParsesInt(t) == t \in DOMAIN IntVal

\* float(t) does not raise ValueError.
ParsesFloat(t) == t \in DOMAIN IntVal \cup {Frac, NaN}

\* float(t) <= 0, with IEEE semantics (False for NaN).
FloatLeqZero(t) == t \in DOMAIN IntVal /\ IntVal[t] <= 0

\* float(t) > 0, with IEEE semantics (False for NaN).
FloatGtZero(t) == t = Frac \/ (t \in DOMAIN IntVal /\ IntVal[t] > 0)

=============================================================================
