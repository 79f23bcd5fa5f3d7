------------------------------ MODULE ClosestPair ------------------------------
(***************************************************************************)
(* ClosestPairOfPoints/src/closest_pair.rs: the least distance between two   *)
(* points by divide and conquer, on points that are read one by one.         *)
(* Coordinates are small integers, on which f32 is exact, and a distance is  *)
(* its square.                                                               *)
(***************************************************************************)
EXTENDS Integers, Sequences, SequencesExt

CONSTANTS Points,         \* a set of pairs x, y
          MaxLen, MAX     \* bound on the number of points; more than any distance

VARIABLE points
vars == points

Distance(p, q) == (p[1] - q[1]) * (p[1] - q[1]) + (p[2] - q[2]) * (p[2] - q[2])
Nearest(d, p, q) == Min({d, Distance(p, q)})

\* closest_pair_naive.
ClosestPairNaive(ps) ==
  Min({MAX} \cup UNION {{Distance(ps[i], ps[j]) : j \in i + 1 .. Len(ps)} : i \in DOMAIN ps})

\* merge: by the derived order of the points, which compares x first; of two equal
\* heads the right one goes first.
PointLess(p, q) == p[1] < q[1] \/ (p[1] = q[1] /\ p[2] < q[2])
RECURSIVE MergeSlices(_, _)
MergeSlices(l, r) ==
  CASE l = <<>> -> r
    [] l # <<>> /\ r = <<>> -> l
    [] l # <<>> /\ r # <<>> -> IF PointLess(Head(l), Head(r))
                               THEN <<Head(l)>> \o MergeSlices(Tail(l), r)
                               ELSE <<Head(r)>> \o MergeSlices(l, Tail(r))

\* The strip around x_mid, and the pairs of it that are compared: for each first
\* one up to the first that lies further to the left of it than d_min.
Strip(ps, x_mid, d) == SelectSeq(ps, LAMBDA p : (p[1] - x_mid) * (p[1] - x_mid) <= d)
StripMin(strip, d_min) ==
  LET Row(d, i) ==
        FoldLeft(LAMBDA acc, q :
                   LET dx == strip[i][1] - q[1] IN
                   CASE acc.stop \/ (dx > 0 /\ dx * dx > acc.d) -> [acc EXCEPT !.stop = TRUE]
                     [] OTHER -> [acc EXCEPT !.d = Nearest(@, strip[i], q)],
                 [d |-> d, stop |-> FALSE], SubSeq(strip, i + 1, Len(strip))).d
  IN FoldLeft(Row, d_min, [i \in 1 .. Len(strip) - 1 |-> i])

\* closest_pair_r: the distance, and points_y as it is left.  Slices of one or two
\* points are left unsorted.
RECURSIVE ClosestPairR(_)
ClosestPairR(ps) ==
  CASE Len(ps) = 1 -> [d |-> MAX, points_y |-> ps]
    [] Len(ps) = 2 -> [d |-> Distance(ps[1], ps[2]), points_y |-> ps]
    [] Len(ps) > 2 ->
         LET mid == Len(ps) \div 2
             l == ClosestPairR(SubSeq(ps, 1, mid))
             r == ClosestPairR(SubSeq(ps, mid + 1, Len(ps)))
             merged == MergeSlices(l.points_y, r.points_y)
             d_min == Min({l.d, r.d})
         IN [d |-> StripMin(Strip(merged, ps[mid + 1][1], d_min), d_min), points_y |-> merged]

\* closest_pair: sorted by x, and zero at once when two neighbours are equal.
ClosestPair(ps) ==
  LET points_x == SortSeq(ps, LAMBDA p, q : p[1] < q[1]) IN
  IF \E i \in 1 .. Len(ps) - 1 : points_x[i] = points_x[i + 1] THEN 0
  ELSE ClosestPairR(points_x).d

Init == points = <<>>
Push == Len(points) < MaxLen /\ \E p \in Points : points' = Append(points, p)
Next == Push

--------------------------------------------------------------------------------
\* The two algorithms agree, points on one vertical line and coincident points that
\* the sort by x leaves apart included (the slices then are not merged in order of
\* y, nor in any other of two points of the same x).
ClosestExact == Len(points) > 1 => ClosestPair(points) = ClosestPairNaive(points)
================================================================================
