------------------------- MODULE InterpolationAlign -------------------------
(***************************************************************************)
(* figure4.py: main lists the benchmarks named by the files of            *)
(* out/buggy/coverage/ (get_benchnames) and plots each in sorted order.    *)
(* For one benchmark load_benchmark_data selects the logs                  *)
(* <bench>-Random-<n> and <bench>-3phstar-<n>, reads them in order of n,   *)
(* and plot_benchmark_comparison aligns the runs of each method with       *)
(* process_method_data_efficient: a uniform grid of TimePoints times from  *)
(* 0 to the largest end time, each run linearly interpolated onto it with  *)
(* NaN outside its recorded times, and per grid point the mean and the     *)
(* standard deviation of the runs that give a value; the PDF is saved.     *)
(*                                                                         *)
(* A log read by pd.read_csv is the sequence of its rows [t, c]            *)
(* (SecElapsed, Cover); Iter is not used.  A file is [zero, rows]: zero   *)
(* for a 0-byte file, else the rows pd.read_csv returns.                  *)
(* Numbers are exact rationals [num, den] with den > 0; the standard      *)
(* deviation is represented by its square, the variance, so that no       *)
(* square root is needed (std is equal, or 0, exactly when the variance    *)
(* is).                                                                    *)
(***************************************************************************)
EXTENDS Integers, Sequences, SequencesExt, FiniteSets, Functions, TLC

CONSTANTS
    Files,       \* the entries of out/buggy/coverage/
    FileName,    \* Files -> the name as the sequence of its '-'-separated parts
    IndexVal,    \* the digit strings that may end a name, and int() of each
    SuffixedIndex, \* the last parts "<digits>.<word>", such as "1.csv"
    NameRank,    \* a benchmark name -> its position in sorted() order
    Runs,        \* the logs a non-empty file may hold
    TimePoints   \* process_method_data_efficient's time_points (1000)

ASSUME TimePoints \in Nat /\ TimePoints >= 2

Methods == <<"Random", "3phstar">>
MethodSet == {Methods[i] : i \in 1..2}

VARIABLES
    content,   \* Files -> [zero, rows]: the file
    phase,     \* per benchmark "load", the method being plotted, "save";
               \* then "done" or "crashed"
    bidx,      \* the position in Listed of the benchmark main is at
    toRead,    \* method -> the matched files not read yet
    data,      \* method -> the files read, in the order appended
    curve      \* benchmark -> method -> the per-grid-point [mean, var],
               \* <<>> if not plotted

vars == <<content, phase, bidx, toRead, data, curve>>

-----------------------------------------------------------------------------
(* Exact rational arithmetic.                                              *)

\* Euclid's algorithm on natural numbers.
RECURSIVE Gcd(_, _)
Gcd(a, b) == IF b = 0 THEN a ELSE Gcd(b, a % b)

AbsInt(n) == IF n < 0 THEN -n ELSE n

\* n/d in lowest terms (d > 0).
Rat(n, d) ==
    LET g == Gcd(AbsInt(n), d)
    IN  IF g = 0 THEN [num |-> 0, den |-> 1] ELSE [num |-> n \div g, den |-> d \div g]
QZero == Rat(0, 1)
QAdd(p, q) == Rat(p.num * q.den + q.num * p.den, p.den * q.den)
QSub(p, q) == Rat(p.num * q.den - q.num * p.den, p.den * q.den)
QMul(p, q) == Rat(p.num * q.num, p.den * q.den)
QDivInt(p, k) == Rat(p.num, p.den * k)
QEq(p, q) == p.num * q.den = q.num * p.den
\* The integer a compared with the rational t.
IntLt(a, t) == a * t.den < t.num
IntGt(a, t) == a * t.den > t.num

\* A float that may be NaN.
Defined(v) == [ok |-> TRUE, v |-> v]
NaN == [ok |-> FALSE, v |-> QZero]

-----------------------------------------------------------------------------
(* File selection (get_benchnames, load_files).                            *)

\* re.match(r"^(.+)-(Random|3phstar)-(\d+)(?:\.\w+)?$", filename): an
\* extension is allowed; group(1), the greedy (.+), is all the parts but
\* the last two.
Listable(f) ==
    LET n == FileName[f] IN
    /\ Len(n) >= 3
    /\ n[Len(n) - 1] \in MethodSet
    /\ n[Len(n)] \in DOMAIN IndexVal \cup SuffixedIndex

NameOf(f) == SubSeq(FileName[f], 1, Len(FileName[f]) - 2)

\* sorted(list(benchnames)); every entry of the folder is a file.
Listed == SetToSortSeq({NameOf(f) : f \in {g \in Files : Listable(g)}},
                       LAMBDA a, b : NameRank[a] < NameRank[b])

\* re.match(rf"^{bench}-{method}-(\d+)$", filename)
Matches(f, b, m) ==
    LET n == FileName[f] IN
    /\ Len(n) = Len(b) + 2
    /\ SubSeq(n, 1, Len(b)) = b
    /\ n[Len(n) - 1] = m
    /\ n[Len(n)] \in DOMAIN IndexVal

Index(f) == IndexVal[FileName[f][Len(FileName[f])]]

-----------------------------------------------------------------------------
(* process_method_data_efficient.                                          *)

\* df["SecElapsed"].iloc[-1]: the time of the last row in file order.
EndTime(r) == r[Len(r)].t

\* np.linspace(0, max_end_time, time_points)[k]
GridTime(maxEnd, k) == Rat(k * maxEnd, TimePoints - 1)

\* Fault-injection variant of Interpolate: the interval closed only on
\* the left, so the last recorded time itself gives NaN.
InterpolateOpenEnd(r, t) ==
    LET s == SortSeq(r, LAMBDA a, b : a.t < b.t)
        n == Len(s)
    IN  IF IntGt(s[1].t, t) \/ ~IntLt(s[n].t, t) THEN NaN
        ELSE LET j  == CHOOSE i \in 1..n : ~IntLt(s[i].t, t) /\
                                           \A h \in 1..(i - 1) : IntLt(s[h].t, t)
                 hi == IF j < 2 THEN 2 ELSE j
                 lo == hi - 1
             IN  Defined(QAdd(Rat(s[lo].c, 1),
                              QMul(Rat(s[hi].c - s[lo].c, s[hi].t - s[lo].t),
                                   QSub(t, Rat(s[lo].t, 1)))))

\* df.sort_values("SecElapsed"), then interp1d(times, covers, "linear",
\* bounds_error=False, fill_value=nan) at t: NaN outside [first, last];
\* otherwise idx = searchsorted(times, t) clipped to 1..n-1 and the line
\* through rows idx-1 and idx.  Needs n >= 2.
Interpolate(r, t) ==
    LET s == SortSeq(r, LAMBDA a, b : a.t < b.t)
        n == Len(s)
    IN  IF IntGt(s[1].t, t) \/ IntLt(s[n].t, t) THEN NaN
        ELSE LET j  == CHOOSE i \in 1..n : ~IntLt(s[i].t, t) /\
                                           \A h \in 1..(i - 1) : IntLt(s[h].t, t)
                 hi == IF j < 2 THEN 2 ELSE j
                 lo == hi - 1
             IN  Defined(QAdd(Rat(s[lo].c, 1),
                              QMul(Rat(s[hi].c - s[lo].c, s[hi].t - s[lo].t),
                                   QSub(t, Rat(s[lo].t, 1)))))

\* The mean and variance of the non-NaN values at one grid point:
\* NaN for none, variance 0 for one (`if len(valid_values) > 1`).
PointStat(samples) ==
    LET vals == SelectSeq(samples, LAMBDA x : x.ok)
        n    == Len(vals)
        sum  == FoldLeft(LAMBDA acc, x : QAdd(acc, x.v), QZero, vals)
        sq   == FoldLeft(LAMBDA acc, x : QAdd(acc, QMul(x.v, x.v)), QZero, vals)
        mean == QDivInt(sum, Max({n, 1}))
    IN  IF n = 0 THEN [mean |-> NaN, var |-> NaN]
        ELSE [mean |-> Defined(mean),
              var  |-> IF n > 1 THEN Defined(QSub(QDivInt(sq, n), QMul(mean, mean)))
                       ELSE Defined(QZero)]

\* The aligned curve of a list of runs (each with at least two rows).
Curve(runs) ==
    LET maxEnd == Max({EndTime(runs[i]) : i \in DOMAIN runs})
    IN  [k \in 1..TimePoints |->
            PointStat([i \in DOMAIN runs |->
                          Interpolate(runs[i], GridTime(maxEnd, k - 1))])]

-----------------------------------------------------------------------------

\* What a file may hold.
FileContents == {[zero |-> TRUE, rows |-> <<>>]} \cup [zero : {FALSE}, rows : Runs]

Q == [num : Int, den : Nat \ {0}]
Sample == [ok : BOOLEAN, v : Q]

TypeOK ==
    /\ content \in [Files -> FileContents]
    /\ phase \in MethodSet \cup {"load", "save", "done", "crashed"}
    /\ bidx \in 1..Len(Listed) + 1
    /\ toRead \in [MethodSet -> SUBSET Files]
    /\ data \in [MethodSet -> Seq({f \in Files : ~content[f].zero})]
    /\ curve \in [Range(Listed) -> [MethodSet -> Seq([mean : Sample, var : Sample])]]

Bench == Listed[bidx]

\* load_files for the i-th listed benchmark (none past the end).
Selection(i) ==
    [m \in MethodSet |-> IF i <= Len(Listed) THEN {f \in Files : Matches(f, Listed[i], m)}
                         ELSE {}]

Init ==
    /\ content \in [Files -> FileContents]
    /\ phase = "load" /\ bidx = 1
    /\ toRead = Selection(1)
    /\ data = [m \in MethodSet |-> <<>>]
    /\ curve = [b \in Range(Listed) |-> [m \in MethodSet |-> <<>>]]

\* The method whose files are read next: Random's loop comes first.
Reading(m) ==
    /\ toRead[m] # {}
    /\ m = "3phstar" => toRead["Random"] = {}

\* Fault-injection variant of ReadRun: a file that fails to parse is
\* appended all the same.
ReadRunNoEmptyCheck(m, f) ==
    /\ phase = "load"
    /\ Reading(m) /\ f \in toRead[m]
    /\ \A g \in toRead[m] : Index(f) <= Index(g)
    /\ toRead' = [toRead EXCEPT ![m] = @ \ {f}]
    /\ data' = [data EXCEPT ![m] = Append(@, f)]
    /\ UNCHANGED <<content, phase, bidx, curve>>

\* One iteration of `for i, filename in sorted(files, key=lambda x: x[0])`:
\* the file with the least index next (ties in os.listdir order, any
\* order here).  pd.read_csv raises EmptyDataError on a 0-byte file; the
\* error is printed and the file skipped.
ReadRun(m, f) ==
    /\ phase = "load"
    /\ Reading(m) /\ f \in toRead[m]
    /\ \A g \in toRead[m] : Index(f) <= Index(g)
    /\ toRead' = [toRead EXCEPT ![m] = @ \ {f}]
    /\ data' = IF content[f].zero THEN data
               ELSE [data EXCEPT ![m] = Append(@, f)]
    /\ UNCHANGED <<content, phase, bidx, curve>>

FinishLoad ==
    /\ phase = "load" /\ bidx <= Len(Listed)
    /\ \A m \in MethodSet : toRead[m] = {}
    /\ phase' = Methods[1]
    /\ UNCHANGED <<content, bidx, toRead, data, curve>>

NextPhase(m) == IF m = Methods[1] THEN Methods[2] ELSE "save"

\* The runs read for method m, in data-list order.
RunsOf(m) == [i \in DOMAIN data[m] |-> content[data[m][i]].rows]

\* `else: print("NO ... DATA!")`
SkipMethod(m) ==
    /\ phase = m
    /\ data[m] = <<>>
    /\ phase' = NextPhase(m)
    /\ UNCHANGED <<content, bidx, toRead, data, curve>>

\* A header-only log reads as an empty frame and iloc[-1] raises
\* IndexError; a one-row log makes interp1d raise ValueError.  Neither
\* is caught: the script ends.
CrashOnShortRun(m) ==
    /\ phase = m
    /\ \E i \in DOMAIN data[m] : Len(content[data[m][i]].rows) < 2
    /\ phase' = "crashed"
    /\ UNCHANGED <<content, bidx, toRead, data, curve>>

\* The block `if data[m]:` of plot_benchmark_comparison: the aligned
\* curve of the method is computed and plotted.
PlotMethod(m) ==
    /\ phase = m
    /\ data[m] # <<>>
    /\ \A i \in DOMAIN data[m] : Len(content[data[m][i]].rows) >= 2
    /\ curve' = [curve EXCEPT ![Bench][m] = Curve(RunsOf(m))]
    /\ phase' = NextPhase(m)
    /\ UNCHANGED <<content, bidx, toRead, data>>

\* savefig and close, then main's next iteration: plot_benchmark builds
\* a new benchmark_data and load_files selects the next name's logs.
SavePlot ==
    /\ phase = "save"
    /\ bidx' = bidx + 1 /\ phase' = "load"
    /\ toRead' = Selection(bidx + 1)
    /\ data' = [m \in MethodSet |-> <<>>]
    /\ UNCHANGED <<content, curve>>

\* main's loop is over.
EndMain ==
    /\ phase = "load" /\ bidx = Len(Listed) + 1
    /\ phase' = "done"
    /\ UNCHANGED <<content, bidx, toRead, data, curve>>

Next ==
    \/ \E m \in MethodSet, f \in Files : ReadRun(m, f)
    \/ FinishLoad
    \/ \E m \in MethodSet :
          \/ SkipMethod(m)
          \/ CrashOnShortRun(m)
          \/ PlotMethod(m)
    \/ SavePlot \/ EndMain

Spec == Init /\ [][Next]_vars

-----------------------------------------------------------------------------
(* Properties.                                                             *)

\* Spec 4.2, read independently of the code: the value of a run at time
\* t is the linear interpolation between its recorded samples that
\* neighbour t, and missing when t is outside its recorded times.
RefValue(r, t) ==
    LET rows  == Range(r)
        below == {x \in rows : ~IntGt(x.t, t)}
        above == {x \in rows : ~IntLt(x.t, t)}
    IN  IF below = {} \/ above = {} THEN NaN
        ELSE LET a == CHOOSE x \in below : \A y \in below : y.t <= x.t
                 b == CHOOSE x \in above : \A y \in above : x.t <= y.t
             IN  IF a.t = b.t THEN Defined(Rat(a.c, 1))
                 ELSE Defined(Rat(a.c * (b.t * t.den - t.num) + b.c * (t.num - a.t * t.den),
                                  (b.t - a.t) * t.den))

\* The readable run files of benchmark b and method m, as a set:
\* os.listdir order and the tie order of equal indices play no part.
RunFiles(b, m) == {f \in Files : Matches(f, b, m) /\ ~content[f].zero}

\* Spec 4.2: the mean and the population variance, at the k-th point of
\* the uniform grid up to the largest recorded time, over exactly the
\* runs that provide a value there.
RefStat(b, m, k) ==
    LET F      == RunFiles(b, m)
        maxEnd == Max(UNION {{x.t : x \in Range(content[f].rows)} : f \in F})
        t      == GridTime(maxEnd, k)
        val    == [f \in F |-> RefValue(content[f].rows, t)]
        C      == {f \in F : val[f].ok}
        mean   == QDivInt(FoldFunctionOnSet(LAMBDA x, y : QAdd(x.v, y), QZero, val, C),
                          Cardinality(C))
        dev    == [f \in F |-> QSub(val[f].v, mean)]
    IN  IF C = {} THEN [mean |-> NaN, var |-> NaN]
        ELSE [mean |-> Defined(mean),
              var  |-> Defined(QDivInt(FoldFunctionOnSet(LAMBDA x, y : QAdd(QMul(x, x), y),
                                                        QZero, dev, C),
                                       Cardinality(C)))]

SameSample(x, y) == x.ok = y.ok /\ (x.ok => QEq(x.v, y.v))

\* Every curve figure4 plots is, at every grid point, the mean and the
\* standard deviation of the runs of that method that cover the point,
\* each interpolated between its neighbouring samples: file selection,
\* the index-sorted read order, sort_values, interp1d's NaN fill and the
\* NaN-skipping mean together compute the spec's aligned average,
\* whatever order os.listdir returns the files in.
CurveMatchesReference ==
    \A b \in Range(Listed), m \in MethodSet :
        curve[b][m] # <<>> =>
            \A k \in 1..TimePoints :
                /\ SameSample(curve[b][m][k].mean, RefStat(b, m, k - 1).mean)
                /\ SameSample(curve[b][m][k].var, RefStat(b, m, k - 1).var)

=============================================================================
