------------------------------- MODULE MCRelay -------------------------------
(* Finite instances of ActivationRelay. *)
EXTENDS ActivationRelay, TLC

CONSTANTS r1, r2

M(r, seq, ver) == [run |-> r, seq |-> seq, ver |-> ver]
TwoRuns == {r1, r2}

\* A gap in the numbers of r1 (its second publication failed) with events of r2
\* behind it; two gaps in one run with a PUT event between them; a gap in both.
GapThenRun == <<M(r1, 1, 1), M(r1, 3, 3), M(r1, 4, 4), M(r2, 1, 5), M(r2, 2, 6)>>
TwoGaps == <<M(r1, 1, 1), M(r1, 3, 2), M(None, 0, 3), M(r1, 4, 4), M(r1, 6, 5), M(r2, 1, 6)>>
GapInBoth == <<M(r1, 1, 1), M(r1, 3, 2), M(r2, 1, 3), M(r2, 3, 4), M(r1, 4, 5), M(r2, 4, 6)>>

\* A message that was published behind its successor, in a gap that closes.
LateFiller == <<M(r1, 1, 1), M(r1, 3, 2), M(r1, 2, 3), M(r1, 4, 4), M(r2, 1, 5)>>

\* Copies that a retry of the producer leaves in the partition: of a message that
\* is in order, and of one behind a gap.
RetryInOrder == <<M(r1, 1, 1), M(r1, 1, 1), M(r1, 2, 2), M(r1, 2, 2), M(r1, 3, 3)>>
RetryInGap == <<M(r1, 1, 1), M(r1, 3, 2), M(r1, 3, 2), M(r1, 4, 3)>>

RelayLogs == {<<>>, GapThenRun, TwoGaps, GapInBoth, LateFiller, RetryInOrder, RetryInGap}

\* Three gaps in one run, the last of which opens when the second is behind.
ThreeGaps == <<M(r1, 1, 1), M(r1, 3, 2), M(r1, 6, 3), M(r2, 1, 4), M(r1, 8, 5)>>
GapsOnly == {ThreeGaps}
=============================================================================
