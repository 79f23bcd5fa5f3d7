----------------------------- MODULE MergeIntervals -----------------------------
(***************************************************************************)
(* MergeIntervals/merge_interval.rs: the union of closed intervals, on a     *)
(* vector of intervals that grows one by one.                                *)
(***************************************************************************)
EXTENDS Integers, Sequences, SequencesExt

CONSTANTS MaxEnd, MaxLen  \* bounds on the numbers and on the length

VARIABLE interval
vars == interval

Intervals == {i \in (0 .. MaxEnd) \X (0 .. MaxEnd) : i[1] <= i[2]}

\* interval.sort(): by beg, then by end.
InOrder(i, j) == i[1] < j[1] \/ (i[1] = j[1] /\ i[2] < j[2])

\* The next interval extends the last one of the result, lies in it or follows it.
Merged(result, i) ==
  IF result # <<>> /\ i[1] <= Last(result)[2]
  THEN [result EXCEPT ![Len(result)] = <<@[1], Max({@[2], i[2]})>>]
  ELSE Append(result, i)
MergeInterval == FoldLeft(Merged, <<>>, SortSeq(interval, InOrder))

Init == interval = <<>>
Push == Len(interval) < MaxLen /\ \E i \in Intervals : interval' = Append(interval, i)
Next == Push

--------------------------------------------------------------------------------
\* The intervals between them cover 2x for each number x, and 2x + 1 for the gap
\* between x and x + 1.
Covered(is) == UNION {2 * i[1] .. 2 * i[2] : i \in ToSet(is)}

\* The result covers what the intervals cover, gaps included, and no two intervals
\* of it touch, nor are they out of order.
UnionExact ==
  /\ Covered(MergeInterval) = Covered(interval)
  /\ \A k \in 1 .. Len(MergeInterval) - 1 : MergeInterval[k][2] < MergeInterval[k + 1][1]
================================================================================
