\* Two folder entries, logs of up to two lines, the script run twice.
CONSTANTS
    f1 = f1
    f2 = f2
    FileIds <- MCFileIds2
    Lines <- MCLines
    MaxLines = 2
    MaxPasses = 2

SPECIFICATION Spec
SYMMETRY MCSymmetry

INVARIANT TypeOK
INVARIANT CleanedIsFixpoint
INVARIANT StatRatePreserved
INVARIANT DataPreserved

\* The script terminates after its last invocation.
CHECK_DEADLOCK FALSE
