\* Six files, three possible logs each, the default --m1 and --m2.
CONSTANTS
    Names <- MCNames
    Contents <- MCContents
    M1 = "Random"
    M2 = "3phstar"

SPECIFICATION Spec


INVARIANT AnalysisCompletes

\* The script ends after printing its result (or with its uncaught error).
CHECK_DEADLOCK FALSE
