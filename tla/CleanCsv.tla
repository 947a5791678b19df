------------------------------ MODULE CleanCsv ------------------------------
(***************************************************************************)
(* clean_csv.clean_csv_files: a batch script that lists a folder, deletes  *)
(* empty files and rewrites every other file in place, keeping the last    *)
(* header line and the well-formed "Iter,Cover,SecElapsed" rows.  Each     *)
(* iteration of its loop over the listed files is one step.  The script   *)
(* may be invoked again on the same folder, up to MaxPasses times.         *)
(* The file system may fail any I/O call.                                  *)
(***************************************************************************)
EXTENDS Integers, Sequences, SequencesExt, FiniteSets, CsvLine, CoverageRate

CONSTANTS
    FileIds,     \* the entries of the folder
    Lines,       \* the lines a log may contain
    MaxLines,    \* the longest file at the start
    MaxPasses    \* how many times the script is run

ASSUME MaxLines \in Nat /\ MaxPasses \in Nat \ {0}

VARIABLES
    fs,        \* FileIds -> [kind, content]: the folder
    running,   \* an invocation of the script is in progress
    pending,   \* entries listed by glob and not yet visited
    passes,    \* invocations started so far
    outcome,   \* FileIds -> what the current invocation did to the entry
    before,    \* FileIds -> content of the entry when last visited
    orig,      \* FileIds -> content before the first invocation
    damaged    \* files whose rewrite was cut short

vars == <<fs, running, pending, passes, outcome, before, orig, damaged>>

Kinds == {"file", "dir", "absent"}
Outcomes == {"none", "skipped", "removed", "failed", "cleaned",
             "writeFailed", "interrupted", "aborted"}

Contents == BoundedSeq(Lines, MaxLines)

-----------------------------------------------------------------------------
(* The line filter of the loop body.                                       *)

\* Fault-injection variant of IsDataLine: SecElapsed parsed with int().
IsDataLineIntSec(l) ==
    /\ CommaCount(l) = 2
    /\ Len(l) = 3
    /\ ParsesInt(l[1]) /\ ParsesInt(l[2]) /\ ParsesInt(l[3])
    /\ ~FloatLeqZero(l[3])

\* A data row kept by the cleaner: exactly two commas, three parts,
\* int(parts[0]), int(parts[1]) and float(parts[2]) succeed, and the
\* `sec_val <= 0` test is false.
IsDataLine(l) ==
    /\ CommaCount(l) = 2
    /\ Len(l) = 3
    /\ ParsesInt(l[1]) /\ ParsesInt(l[2]) /\ ParsesFloat(l[3])
    /\ ~FloatLeqZero(l[3])

\* header = [line] for every header line: the last one wins.
HeaderOf(lines) ==
    LET hs == SelectSeq(lines, IsHeaderLine)
    IN  IF hs = <<>> THEN <<>> ELSE <<Last(hs)>>

\* data_lines: the rows that are not header lines and pass the filter.
DataOf(lines) ==
    SelectSeq(lines, LAMBDA l : ~IsHeaderLine(l) /\ IsDataLine(l))

\* Fault-injection variant of CleanLines: the last data row is not written.
CleanLinesDropLast(lines) ==
    LET d == DataOf(lines) IN HeaderOf(lines) \o SubSeq(d, 1, Len(d) - 1)

\* Fault-injection variant of CleanLines: the header line is also kept
\* among the data lines and so written twice.
CleanLinesHeaderTwice(lines) ==
    HeaderOf(lines) \o SelectSeq(lines, LAMBDA l : IsHeaderLine(l) \/ IsDataLine(l))

\* What the rewrite puts in the file: the header first, then the rows.
CleanLines(lines) == HeaderOf(lines) \o DataOf(lines)

-----------------------------------------------------------------------------

TypeOK ==
    /\ fs \in [FileIds -> [kind : Kinds, content : Contents]]
    /\ running \in BOOLEAN
    /\ pending \subseteq FileIds
    /\ passes \in 0..MaxPasses
    /\ outcome \in [FileIds -> Outcomes]
    /\ before \in [FileIds -> Contents]
    /\ orig \in [FileIds -> Contents]
    /\ damaged \subseteq FileIds

InitEntries ==
    {[kind |-> "file", content |-> c] : c \in Contents}
    \cup {[kind |-> "dir", content |-> <<>>]}

Init ==
    /\ fs \in [FileIds -> InitEntries]
    /\ running = FALSE
    /\ pending = {}
    /\ passes = 0
    /\ outcome = [f \in FileIds |-> "none"]
    /\ before = [f \in FileIds |-> fs[f].content]
    /\ orig = [f \in FileIds |-> fs[f].content]
    /\ damaged = {}

\* The script starts: glob lists the entries of the folder.
StartInvocation ==
    /\ ~running
    /\ passes < MaxPasses
    /\ running' = TRUE
    /\ passes' = passes + 1
    /\ pending' = {f \in FileIds : fs[f].kind # "absent"}
    /\ outcome' = [f \in FileIds |-> "none"]
    /\ UNCHANGED <<fs, before, orig, damaged>>

\* One iteration of the loop visits f and ends with this outcome.
Visit(f, o) ==
    /\ pending' = pending \ {f}
    /\ outcome' = [outcome EXCEPT ![f] = o]
    /\ before' = [before EXCEPT ![f] = fs[f].content]

\* `if not os.path.isfile(file_path): continue`
SkipDirectory(f) ==
    /\ running /\ f \in pending
    /\ fs[f].kind = "dir"
    /\ Visit(f, "skipped")
    /\ UNCHANGED <<fs, running, passes, orig, damaged>>

\* A file of size 0 is deleted.
RemoveEmpty(f) ==
    /\ running /\ f \in pending
    /\ fs[f].kind = "file" /\ fs[f].content = <<>>
    /\ fs' = [fs EXCEPT ![f].kind = "absent"]
    /\ Visit(f, "removed")
    /\ UNCHANGED <<running, passes, orig, damaged>>

\* os.remove raises (e.g. a read-only folder); it is outside the try, so
\* the exception ends the script with the rest of the files unvisited.
RemoveFails(f) ==
    /\ running /\ f \in pending
    /\ fs[f].kind = "file" /\ fs[f].content = <<>>
    /\ running' = FALSE
    /\ Visit(f, "aborted")
    /\ UNCHANGED <<fs, passes, orig, damaged>>

\* Reading, or opening for writing, raises before the file is truncated:
\* the error is printed and the file is left as it was.
ProcessFails(f) ==
    /\ running /\ f \in pending
    /\ fs[f].kind = "file" /\ fs[f].content # <<>>
    /\ Visit(f, "failed")
    /\ UNCHANGED <<fs, running, passes, orig, damaged>>

\* The file is read, filtered and rewritten.
CleanFile(f) ==
    /\ running /\ f \in pending
    /\ fs[f].kind = "file" /\ fs[f].content # <<>>
    /\ fs' = [fs EXCEPT ![f].content = CleanLines(fs[f].content)]
    /\ Visit(f, "cleaned")
    /\ UNCHANGED <<running, passes, orig, damaged>>

\* open(file_path, 'w') has truncated the file and a write raises (disk
\* full, I/O error): the file keeps a strict prefix of the new lines, the
\* error is printed and the loop goes on.
WriteFails(f) ==
    /\ running /\ f \in pending
    /\ fs[f].kind = "file" /\ fs[f].content # <<>>
    /\ LET new == CleanLines(fs[f].content)
       IN  \E k \in 0..(Len(new) - 1) :
              fs' = [fs EXCEPT ![f].content = SubSeq(new, 1, k)]
    /\ damaged' = damaged \cup {f}
    /\ Visit(f, "writeFailed")
    /\ UNCHANGED <<running, passes, orig>>

\* The script is killed (KeyboardInterrupt, which `except Exception` does
\* not catch) after the truncation and before the rewrite of f completes.
Interrupt(f) ==
    /\ running /\ f \in pending
    /\ fs[f].kind = "file" /\ fs[f].content # <<>>
    /\ LET new == CleanLines(fs[f].content)
       IN  \E k \in 0..(Len(new) - 1) :
              fs' = [fs EXCEPT ![f].content = SubSeq(new, 1, k)]
    /\ damaged' = damaged \cup {f}
    /\ running' = FALSE
    /\ outcome' = [outcome EXCEPT ![f] = "interrupted"]
    /\ before' = [before EXCEPT ![f] = fs[f].content]
    /\ UNCHANGED <<pending, passes, orig>>

\* The loop is over; the script prints its message and exits.
FinishInvocation ==
    /\ running /\ pending = {}
    /\ running' = FALSE
    /\ UNCHANGED <<fs, pending, passes, outcome, before, orig, damaged>>

Next ==
    \/ StartInvocation
    \/ FinishInvocation
    \/ \E f \in FileIds :
          \/ SkipDirectory(f)
          \/ RemoveEmpty(f)
          \/ RemoveFails(f)
          \/ ProcessFails(f)
          \/ CleanFile(f)
          \/ WriteFails(f)
          \/ Interrupt(f)

Spec == Init /\ [][Next]_vars

-----------------------------------------------------------------------------
(* Properties.                                                             *)

\* A row the spec (section 4.1) calls valid: int, int, positive real.
SpecValidRow(l) ==
    /\ Len(l) = 3
    /\ ParsesInt(l[1]) /\ ParsesInt(l[2]) /\ FloatGtZero(l[3])

\* Cleaning is idempotent: a file the last invocation rewrote without an
\* error is already clean, so running the script again leaves its lines
\* as they are (whatever header lines, blank lines and partial rows the
\* original held, and however many times it was cleaned before).
CleanedIsFixpoint ==
    \A f \in FileIds :
        outcome[f] = "cleaned" => CleanLines(fs[f].content) = fs[f].content

\* Cleaning does not change what stat_test reads: the last line that the
\* coverage-rate scan of stat_test accepts, and hence the rate
\* Cover/SecElapsed of the run, is the same before and after the rewrite.
\* The two scripts validate rows with different code (`sec_val <= 0`
\* versus `se > 0`), so this holds only if the two agree on every row
\* that can be last.
StatRatePreserved ==
    \A f \in FileIds :
        outcome[f] = "cleaned" => LastValid(fs[f].content) = LastValid(before[f])

\* No valid row is ever lost: across any number of invocations, a file
\* whose rewrite was never cut short still holds exactly the rows of the
\* original that are valid per the spec, in their order; a deleted file
\* held none.
DataPreserved ==
    \A f \in FileIds \ damaged :
        SelectSeq(fs[f].content, SpecValidRow) = SelectSeq(orig[f], SpecValidRow)

\* Spec 4.1 and 8: after cleaning, every line but one leading header is a
\* row "Iter,Cover,SecElapsed" of int, int and a positive real.
CleanedRowsValid ==
    \A f \in FileIds :
        outcome[f] = "cleaned" =>
            \A i \in 1..Len(fs[f].content) :
                LET l == fs[f].content[i]
                IN  IF IsHeaderLine(l) THEN i = 1 ELSE SpecValidRow(l)

\* Spec 4.1 and 5: an I/O error on one file does not stop the others from
\* being processed; every invocation that was not killed visits every
\* entry glob listed.
EveryFileVisited ==
    ~running /\ ~(\E f \in FileIds : outcome[f] = "interrupted") => pending = {}

=============================================================================
