---------------------------- MODULE CoverageStat ----------------------------
(***************************************************************************)
(* The coverage analysis of stat_test.py (--analysis coverage):            *)
(* load_coverage_benchmark_set walks the folder and turns every run file   *)
(* with a valid line into a record (Benchmark, Caption) inferred from its  *)
(* name; coverage_mann_whitney_analysis keeps the records of the two       *)
(* methods and stratified_mann_whitney_test runs one Mann-Whitney U test   *)
(* per benchmark that has exactly two captions, then averages the U        *)
(* statistics weighted by sample size.  The tests themselves are library  *)
(* calls and are not modelled; which strata are tested, in which           *)
(* orientation and with which weight is.                                   *)
(*                                                                         *)
(* A file name is the sequence of its '-'-separated parts.                 *)
(***************************************************************************)
EXTENDS Integers, Sequences, SequencesExt, FiniteSets, CoverageRate

CONSTANTS
    Names,      \* the names of the files in the folder
    Contents,   \* the logs a file may hold
    M1, M2      \* the captions compared (--m1, --m2)

VARIABLES
    content,    \* Names -> the log in each file
    unvisited,  \* files os.walk has not yielded yet
    records,    \* the records built so far, in walk order
    phase,      \* "load", "strata", "done" or "crashed"
    strata,     \* the benchmarks still to test, in df.unique() order
    rows,       \* the records of M1 and M2
    tested      \* per tested stratum: benchmark, groups[0], weight

vars == <<content, unvisited, records, phase, strata, rows, tested>>

-----------------------------------------------------------------------------
(* Inference of the record fields from the file name.                      *)

\* "-rand-" in name: a part that has a '-' on both sides.
HasInnerPart(n, p) == \E i \in 2..(Len(n) - 1) : n[i] = p

\* Fault-injection variant of InferCaption: the final `return "Unknown"`
\* missing, so the function returns None.
InferCaptionNoDefault(n) ==
    IF HasInnerPart(n, "rand") THEN "Random"
    ELSE IF HasInnerPart(n, "fuzz") THEN "3phstar"
    ELSE "None"

\* _infer_caption_from_filename
InferCaption(n) ==
    IF HasInnerPart(n, "rand") THEN "Random"
    ELSE IF HasInnerPart(n, "fuzz") THEN "3phstar"
    ELSE "Unknown"

\* Fault-injection variant of InferBenchmark: only the index is dropped.
InferBenchmarkDropOne(n) ==
    IF Len(n) >= 3 THEN SubSeq(n, 1, Len(n) - 1) ELSE n

\* _infer_benchmark_from_filename: '-'.join(parts[:-2]) if len(parts) >= 3.
InferBenchmark(n) ==
    IF Len(n) >= 3 THEN SubSeq(n, 1, Len(n) - 2) ELSE n

\* pandas unique(): the distinct elements in order of first appearance.
Unique(s) ==
    FoldLeft(LAMBDA acc, x : IF Contains(acc, x) THEN acc ELSE Append(acc, x),
             <<>>, s)

Captions == {"Random", "3phstar", "Unknown"}
Record == [bench : Seq(STRING), caption : Captions]

-----------------------------------------------------------------------------

TypeOK ==
    /\ content \in [Names -> Contents]
    /\ unvisited \subseteq Names
    /\ records \in Seq(Record)
    /\ phase \in {"load", "strata", "done", "crashed"}
    /\ rows \in Seq(Record)
    /\ tested \in Seq([bench : Seq(STRING), first : Captions, weight : Nat])

Init ==
    /\ content \in [Names -> Contents]
    /\ unvisited = Names
    /\ records = <<>>
    /\ phase = "load"
    /\ strata = <<>>
    /\ rows = <<>>
    /\ tested = <<>>

\* One file yielded by os.walk: a record if it has a valid line
\* (an empty file, getsize = 0, has none).
LoadFile(n) ==
    /\ phase = "load"
    /\ n \in unvisited
    /\ unvisited' = unvisited \ {n}
    /\ records' = IF LastValid(content[n]) = <<>> THEN records
                  ELSE Append(records, [bench |-> InferBenchmark(n),
                                        caption |-> InferCaption(n)])
    /\ UNCHANGED <<content, phase, strata, rows, tested>>

\* The walk is over.  No records, or none of M1 and M2: a message and
\* return.  Otherwise the strata are the benchmarks of the kept rows.
StartAnalysis ==
    /\ phase = "load" /\ unvisited = {}
    /\ LET kept == SelectSeq(records, LAMBDA r : r.caption \in {M1, M2})
       IN  /\ rows' = kept
           /\ strata' = Unique([i \in 1..Len(kept) |-> kept[i].bench])
           /\ phase' = IF kept = <<>> THEN "done" ELSE "strata"
    /\ UNCHANGED <<content, unvisited, records, tested>>

\* `if len(groups) != 2: continue`
GroupsTested(groups) == Len(groups) = 2

\* One iteration of the loop over the strata: the groups are the captions
\* of the stratum in order of first appearance; group1 is groups[0].
TestStratum ==
    /\ phase = "strata" /\ strata # <<>>
    /\ LET b == Head(strata)
           inB == SelectSeq(rows, LAMBDA r : r.bench = b)
           groups == Unique([i \in 1..Len(inB) |-> inB[i].caption])
       IN  tested' = IF GroupsTested(groups)
                     THEN Append(tested, [bench |-> b, first |-> groups[1],
                                          weight |-> Len(inB)])
                     ELSE tested
    /\ strata' = Tail(strata)
    /\ UNCHANGED <<content, unvisited, records, phase, rows>>

\* np.average(u_values, weights=weights) raises ZeroDivisionError when no
\* stratum was tested; nothing catches it.  Otherwise the weighted U and
\* Fisher's combined p are printed.
Combine ==
    /\ phase = "strata" /\ strata = <<>>
    /\ phase' = IF tested = <<>> THEN "crashed" ELSE "done"
    /\ UNCHANGED <<content, unvisited, records, strata, rows, tested>>

Next ==
    \/ \E n \in Names : LoadFile(n)
    \/ StartAnalysis
    \/ TestStratum
    \/ Combine

Spec == Init /\ [][Next]_vars

-----------------------------------------------------------------------------
(* Properties.                                                             *)

\* Spec 6: a run file is named <benchmark>-<method>-<index>; a paired
\* time file has a further "-time" part and is not a run.
MethodOfPart == [rand |-> "Random", fuzz |-> "3phstar"]
IsRunOf(n, b, c) ==
    /\ Len(n) >= 3
    /\ n[Len(n) - 1] \in DOMAIN MethodOfPart
    /\ MethodOfPart[n[Len(n) - 1]] = c
    /\ SubSeq(n, 1, Len(n) - 2) = b

\* The runs of benchmark b by method c that have a valid line.
ValidRuns(b, c) ==
    {n \in Names : IsRunOf(n, b, c) /\ LastValid(content[n]) # <<>>}

Benchmarks == {SubSeq(n, 1, Len(n) - 2) : n \in {m \in Names : Len(m) >= 3}}

\* When the analysis ends, every benchmark with valid runs of both
\* methods has been tested exactly once, with all of those runs as its
\* sample, and nothing else has: file-name inference, the validity scan,
\* the caption filter and the two-group test together select exactly the
\* strata the spec's naming convention defines (time files included).
StrataComplete ==
    phase \in {"done", "crashed"} /\ records # <<>> =>
        /\ {tested[i].bench : i \in DOMAIN tested} =
              {b \in Benchmarks : ValidRuns(b, M1) # {} /\ ValidRuns(b, M2) # {}}
        /\ \A i \in DOMAIN tested :
              tested[i].weight = Cardinality(ValidRuns(tested[i].bench, M1))
                                 + Cardinality(ValidRuns(tested[i].bench, M2))
        /\ \A i, j \in DOMAIN tested : tested[i].bench = tested[j].bench => i = j

\* Spec 7: only a malformed CSV schema may end the script with an
\* uncaught error; a folder of well-formed logs is always analysed.
AnalysisCompletes == phase # "crashed"

=============================================================================
