---------------------------- MODULE RangeChecks ----------------------------
(***************************************************************************)
(* The operators of RangeMath against what they are to compute, on every       *)
(* input: the bars of a table, a window, and the bars per chunk.               *)
(***************************************************************************)
EXTENDS RangeMath

VARIABLE input

RangeInit ==
    input \in [table : SUBSET Grid, window : {r \in Grid \X Grid : r[1] <= r[2]}, bars : 0..2]

Table  == RunsOf(SetToSeq(input.table))
Window == input.window

\* Merged ranges come in order and with at least one bar between them.
Canonical(rs) ==
    \A k \in DOMAIN rs : rs[k][1] <= rs[k][2] /\ (k > 1 => rs[k - 1][2] + Interval < rs[k][1])

\* The coverage of a table, its runs merged in whatever order they come, names the bars
\* of the table and no others, and each hole of it separates two ranges.
CoverageIsTable ==
    LET singles == SetToSeq({<<t, t>> : t \in input.table})
    IN /\ MergeCoverage(Table) = Table
       /\ MergeCoverage(singles) = Table
       /\ Canonical(Table) /\ Covered(Table) = input.table

\* What is missing is what the window has and the table has not, bar for bar: nothing
\* at the ends of the window or between two ranges is lost or asked for twice.
MissingIsComplement ==
    /\ Covered(MissingRanges(Table, Window)) = Bars(Window) \ input.table
    /\ Canonical(MissingRanges(Table, Window))

\* Of a request, what a source is asked for and what is left for the next source are
\* all of its bars, and no bar is in both.
SplitIsExact ==
    LET available == IntersectWith(Window, Table)
        left      == SubtractFrom(Window, available)
    IN /\ Covered(available) \cup Covered(left) = Bars(Window)
       /\ Covered(available) \cap Covered(left) = {}
       /\ \A k \in DOMAIN left : left[k][1] <= left[k][2]

\* The chunks of a backfill, read as [start, end), are the range without its end, each
\* bar in one of them.
ChunksTile ==
    LET chunks == Chunks(Window, input.bars)
    IN /\ UNION {HalfOpen(chunks[k]) : k \in DOMAIN chunks} = HalfOpen(Window)
       /\ \A j, k \in DOMAIN chunks : j # k => HalfOpen(chunks[j]) \cap HalfOpen(chunks[k]) = {}

\* The arithmetic on ranges is exact, bar for bar: the coverage read off a table, the
\* ranges of a window it lacks, the split of a request between two sources, and the
\* chunks of a backfill each name the bars they are to name, none lost and none twice.
RangesExact == CoverageIsTable /\ MissingIsComplement /\ SplitIsExact /\ ChunksTile
=============================================================================
