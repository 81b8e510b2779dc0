----------------------------- MODULE RangeMath -----------------------------
(***************************************************************************)
(* The arithmetic on time ranges behind history and the Seamless provider:     *)
(* which bars a store covers, which of a window are missing, what a source has *)
(* of a request and what is left of it, and the chunks a backfill is cut into. *)
(*                                                                         *)
(* A range is a pair of timestamps and a list of ranges a sequence.  Most       *)
(* operators take both ends as included; chunks and the reads of a provider,    *)
(* fetch(start, end), leave out the end.                                       *)
(***************************************************************************)
EXTENDS Integers, Sequences, FiniteSets, FiniteSetsExt, SequencesExt

CONSTANTS
    Interval,       \* seconds per bar
    Horizon         \* timestamps are 0..Horizon

ASSUME RangeConstants == Interval \in Nat \ {0} /\ Horizon \in Nat

Time  == 0..Horizon
Grid  == {t \in Time : t % Interval = 0}

\* The bars of a range with both ends, of a list of such ranges, and of [start, end).
Bars(r)     == {t \in r[1]..r[2] : (t - r[1]) % Interval = 0}
Covered(rs) == UNION {Bars(rs[k]) : k \in DOMAIN rs}
HalfOpen(r) == {t \in r[1]..r[2] - 1 : (t - r[1]) % Interval = 0}

-----------------------------------------------------------------------------
(* Merging *)

Later(a, b)  == IF a > b THEN a ELSE b
Sooner(a, b) == IF a < b THEN a ELSE b

Earlier(a, b) == a[1] < b[1] \/ (a[1] = b[1] /\ a[2] < b[2])

\* sorted: a range is put behind those that do not come after it.
Place(sorted, r) ==
    CHOOSE k \in 1..Len(sorted) + 1 :
        /\ \A i \in 1..k - 1 : ~Earlier(r, sorted[i])
        /\ \A i \in k..Len(sorted) : Earlier(r, sorted[i])

PutInOrder(sorted, r) == InsertAt(sorted, Place(sorted, r), r)
InOrder(rs) == FoldLeft(PutInOrder, <<>>, rs)

\* The next range of a sorted list is joined to the last one when it begins at most gap
\* after its end.
Join(gap, merged, r) ==
    IF merged # <<>> /\ r[1] <= Last(merged)[2] + gap
    THEN [merged EXCEPT ![Len(merged)] = <<@[1], Later(@[2], r[2])>>]
    ELSE Append(merged, r)

MergeWithin(gap, rs) == FoldLeft(LAMBDA merged, r : Join(gap, merged, r), <<>>, InOrder(rs))

\* merge_coverage, and its copies in BackfillState and the history facade.
MergeCoverage(rs) == MergeWithin(Interval, rs)

\* _RangeOperations.merge
MergeRanges(rs) == MergeWithin(0, rs)

\* The ranges of a table's timestamps: a run of bars without a hole is one range.
\* Repeated timestamps cut a run in two.
AddBar(runs, r) ==
    IF runs # <<>> /\ r[1] = Last(runs)[2] + Interval
    THEN [runs EXCEPT ![Len(runs)] = <<@[1], r[2]>>]
    ELSE Append(runs, r)

RunsOf(ts) == FoldLeft(AddBar, <<>>, InOrder([k \in DOMAIN ts |-> <<ts[k], ts[k]>>]))

-----------------------------------------------------------------------------
(* What is missing *)

\* The gap that ends before r, cut at the end of the window.
GapBefore(cursor, r, window) ==
    <<cursor, Sooner(r[1] - Interval, window[2])>>

\* One range of the merged coverage in _compute_missing_ranges_within_window: ranges
\* before the window are skipped, the first one behind it ends the search.
AddGap(acc, r, window) ==
    IF acc.over \/ r[2] < window[1] THEN acc
    ELSE IF r[1] > window[2] THEN [acc EXCEPT !.over = TRUE]
    ELSE LET cursor == Later(acc.cursor, r[2] + Interval)
         IN [gaps |-> IF r[1] > acc.cursor
                      THEN Append(acc.gaps, GapBefore(acc.cursor, r, window)) ELSE acc.gaps,
             cursor |-> cursor, over |-> cursor > window[2]]

\* compute_missing_ranges
MissingRanges(coverage, window) ==
    LET found == FoldLeft(LAMBDA acc, r : AddGap(acc, r, window),
                          [gaps |-> <<>>, cursor |-> window[1], over |-> FALSE],
                          MergeCoverage(coverage))
        gaps == IF found.cursor <= window[2]
                THEN Append(found.gaps, <<found.cursor, window[2]>>) ELSE found.gaps
    IN FoldLeft(LAMBDA kept, g : IF g[1] <= g[2] THEN Append(kept, g) ELSE kept, <<>>, gaps)

-----------------------------------------------------------------------------
(* _RangeOperations: what a source has of a range, and what it leaves *)

\* intersect with one range: overlaps of more than a point.
Overlap(r, c) == <<Later(r[1], c[1]), Sooner(r[2], c[2])>>

AddOverlap(parts, r, c) ==
    IF Overlap(r, c)[1] < Overlap(r, c)[2] THEN Append(parts, Overlap(r, c)) ELSE parts

IntersectWith(r, coverage) ==
    MergeRanges(FoldLeft(LAMBDA parts, c : AddOverlap(parts, r, c), <<>>, coverage))

\* _aligned_first and _aligned_last: the first and last bar of seg in sub.
AlignedFirst(seg, sub) ==
    LET first == Later(seg[1], sub[1])
        rest  == (first - seg[1]) % Interval
    IN IF rest = 0 THEN first ELSE first + Interval - rest

AlignedLast(seg, sub) ==
    LET last == Sooner(seg[2], sub[2]) IN last - ((last - seg[1]) % Interval)

\* The bars of sub are cut out of seg: they overlap, are on one grid, and share a bar.
Cuts(seg, sub) ==
    /\ sub[1] <= sub[2]
    /\ ~(sub[2] < seg[1] \/ sub[1] > seg[2])
    /\ (seg[1] - sub[1]) % Interval = 0
    /\ AlignedFirst(seg, sub) <= seg[2] /\ AlignedFirst(seg, sub) <= sub[2]
    /\ AlignedLast(seg, sub) >= seg[1]
    /\ AlignedFirst(seg, sub) <= AlignedLast(seg, sub)

\* Defect variant of CutOut: the pieces keep the bars at the cut.
CutOutTouching(seg, sub) ==
    IF ~Cuts(seg, sub) THEN <<seg>>
    ELSE (IF AlignedFirst(seg, sub) > seg[1] THEN << <<seg[1], AlignedFirst(seg, sub)>> >> ELSE <<>>)
         \o (IF AlignedLast(seg, sub) < seg[2] THEN << <<AlignedLast(seg, sub), seg[2]>> >> ELSE <<>>)

\* _subtract_segment, for one segment.
CutOut(seg, sub) ==
    IF ~Cuts(seg, sub) THEN <<seg>>
    ELSE (IF AlignedFirst(seg, sub) > seg[1]
          THEN << <<seg[1], AlignedFirst(seg, sub) - Interval>> >> ELSE <<>>)
         \o (IF AlignedLast(seg, sub) < seg[2]
             THEN << <<AlignedLast(seg, sub) + Interval, seg[2]>> >> ELSE <<>>)

\* _subtract_with_interval from one range.
CutAll(segs, sub) == FoldLeft(LAMBDA acc, seg : acc \o CutOut(seg, sub), <<>>, segs)

SubtractFrom(r, subs) == MergeRanges(FoldLeft(CutAll, <<r>>, subs))

-----------------------------------------------------------------------------
(* Backfill chunks and the coverage ratio *)

\* _chunk_backfill_ranges: windows of so many bars, each from the end of the one before.
Chunks(r, bars) ==
    IF r[2] <= r[1] \/ bars = 0 THEN <<r>>
    ELSE LET span == Interval * bars
         IN [k \in 1..((r[2] - r[1] + span - 1) \div span) |->
               <<r[1] + (k - 1) * span, Sooner(r[1] + k * span, r[2])>>]
=============================================================================
