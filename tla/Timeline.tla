------------------------------ MODULE Timeline ------------------------------
(***************************************************************************)
(* The canonical timeline (timeline/__init__.py): spans <<start, end>> of    *)
(* sample indices, half open, and the rounding to displayed milliseconds.    *)
(* SamplesPerMs is 16 in the program.                                        *)
(***************************************************************************)
EXTENDS Integers, FiniteSetsExt, SequencesExt

SamplesPerMs == 16
NoSample == -1

Start(span) == span[1]
End(span) == span[2]
Length(span) == span[2] - span[1]
Overlap(a, b) == Start(a) < End(b) /\ Start(b) < End(a)
Samples(span) == Start(span)..(End(span) - 1)

SmallerOf(a, b) == IF a <= b THEN a ELSE b
LargerOf(a, b) == IF a >= b THEN a ELSE b
Distance(a, b) == IF a >= b THEN a - b ELSE b - a

\* What two spans share, and how many samples a set of spans covers.
Shared(a, b) == LargerOf(0, SmallerOf(End(a), End(b)) - LargerOf(Start(a), Start(b)))
Covered(spans) == Cardinality(UNION {Samples(s) : s \in spans})

\* The spans of the longest runs of a set of samples.
Runs(S) == {<<run[1], run[2] + 1>> : run \in
               {r \in S \X S : r[1] <= r[2] /\ r[1]..r[2] \subseteq S
                               /\ r[1] - 1 \notin S /\ r[2] + 1 \notin S}}

\* format_sample_timestamp rounds half up, at the display only.
DisplayMilliseconds(sample) == (2 * sample + SamplesPerMs) \div (2 * SamplesPerMs)
=============================================================================
