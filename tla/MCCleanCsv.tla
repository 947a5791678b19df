----------------------------- MODULE MCCleanCsv -----------------------------
(***************************************************************************)
(* Model of clean_csv.py for TLC: a folder of a few entries whose files    *)
(* hold short logs built from one line of each kind the filter tells       *)
(* apart.                                                                  *)
(***************************************************************************)
EXTENDS CleanCsv, TLC

CONSTANTS f1, f2

\* "Iter,Cover,SecElapsed" and a header with an extra column.
MCHeader   == <<"Iter", "Cover", "SecElapsed">>
MCHeaderX  == <<"Iter", "Cover", "SecElapsed", "Extra">>
\* Rows that both scripts accept: integer and fractional SecElapsed.
MCRowInt   == <<"1", "1", "1">>
MCRowFrac  == <<"2", "3", "2.5">>
\* Rows with SecElapsed 0 and NaN.
MCRowZero  == <<"3", "3", "0">>
MCRowNaN   == <<"3", "3", "nan">>
\* A non-integral Iter, a row with one comma, a blank line.
MCRowFloatIter == <<"2.5", "1", "1">>
MCRowShort == <<"1", "1">>
MCBlank    == <<"">>

MCLines == {MCHeader, MCHeaderX, MCRowInt, MCRowFrac, MCRowZero, MCRowNaN,
            MCRowFloatIter, MCRowShort, MCBlank}

MCFileIds2 == {f1, f2}
MCFileIds1 == {f1}

MCSymmetry == Permutations(MCFileIds2)

=============================================================================
