----------------------------- MODULE SlidingPuzzle -----------------------------
(***************************************************************************)
(* The sliding puzzle of SlidingPuzzle/src and its two solvers, A* and the   *)
(* bidirectional search, one node expanded at a time.  Positions count from  *)
(* 1 here and from 0 in the code, and 0 is the blank.                        *)
(***************************************************************************)
EXTENDS Integers, FiniteSets, SequencesExt, Functions

CONSTANTS N,              \* the side of the board (3 in the code)
          Starts,         \* the boards to solve
          MaxMoves        \* bound of the reference search: the goal is no farther

NAssumption == N \in Nat \ {0, 1}

VARIABLE search           \* solver, start, goal, status and path; the sets, queues and
                          \* maps of the solver that runs

vars == search

Positions == 1 .. N * N
\* Board::from(): the permutations of the tiles, and nothing else.
IsBoard(b) == b \in [Positions -> 0 .. N * N - 1] /\ IsInjective(b)
Boards == {b \in Starts : IsBoard(b)}
Default == [i \in Positions |-> i % (N * N)]
Blank(b) == CHOOSE i \in Positions : b[i] = 0
Row(i) == (i - 1) \div N
Column(i) == (i - 1) % N

\* NEIGHBORS: left, up, right, down.
NEIGHBORS(i) ==
  (IF Column(i) > 0 THEN <<i - 1>> ELSE <<>>) \o (IF Row(i) > 0 THEN <<i - N>> ELSE <<>>)
  \o (IF Column(i) < N - 1 THEN <<i + 1>> ELSE <<>>)
  \o (IF Row(i) < N - 1 THEN <<i + N>> ELSE <<>>)

Moved(b, i) == [b EXCEPT ![Blank(b)] = b[i], ![i] = 0]
Neighbors(b) == LET from == NEIGHBORS(Blank(b)) IN [k \in DOMAIN from |-> Moved(b, from[k])]

\* DISTANCES, and heuristic(): the Manhattan distance of every tile to its place.
Abs(x) == IF x < 0 THEN -x ELSE x
Distance(i, j) == Abs(Row(i) - Row(j)) + Abs(Column(i) - Column(j))
Heuristic(b, goal) ==
  MapThenSumSet(LAMBDA i : Distance(i, CHOOSE j \in Positions : goal[j] = b[i]),
                {i \in Positions : b[i] # 0})

Inversions(b) == Cardinality({p \in Positions \X Positions :
                   p[1] < p[2] /\ b[p[1]] # 0 /\ b[p[2]] # 0 /\ b[p[1]] > b[p[2]]})

\* Mutant: the row of the blank is not counted.
IsSolvable_NoRow(start, goal) == (Inversions(start) + Inversions(goal)) % 2 = 0

IsSolvable(start, goal) ==
  LET Rows(b) == IF N % 2 = 0 THEN Row(Blank(b)) ELSE 0 IN
  (Rows(start) + Inversions(start) + Rows(goal) + Inversions(goal)) % 2 = 0

\* The boards from b back to `end', exclusive, along a map of parents.
RECURSIVE Chain(_, _, _)
Chain(b, end, parents) == IF b = end THEN <<>> ELSE <<b>> \o Chain(parents[b], end, parents)

Extended(f, keys, value) == [k \in DOMAIN f \cup keys |-> IF k \in keys THEN value ELSE f[k]]
Empty == <<>>             \* no entry in a map, or in a queue

--------------------------------------------------------------------------------
(* A*.  open maps a board of the open set to its cost so far.  `ordering' is *)
(* the order the queue goes by: PartialOrd compares cost + heuristic, while  *)
(* the derived Ord compares the costs first.                                 *)

AStarInit(start, goal) ==
  \E ordering \in {"PartialOrd", "Ord"} :
    search = [solver |-> "A*", start |-> start, goal |-> goal, ordering |-> ordering,
              status |-> IF IsSolvable(start, goal) THEN "running" ELSE "none", path |-> Empty,
              open |-> [b \in {start} |-> 0], closed |-> {}, parents |-> Empty]

\* x may be popped before y.
Precedes(x, y) ==
  LET h(b) == Heuristic(b, search.goal)   g(b) == search.open[b] IN
  IF search.ordering = "PartialOrd" THEN g(x) + h(x) <= g(y) + h(y)
  ELSE g(x) < g(y) \/ (g(x) = g(y) /\ h(x) <= h(y))

\* One turn of the loop of solve().  That the open set is never empty here is
\* part of the property below, so the last line of solve() is not reached.
AStarStep ==
  /\ search.solver = "A*" /\ search.status = "running"
  /\ \E x \in {x \in DOMAIN search.open : \A y \in DOMAIN search.open : Precedes(x, y)} :
       IF x = search.goal
       THEN search' = [search EXCEPT !.status = "found",
                         !.path = Reverse(Chain(x, search.start, search.parents))]
       ELSE LET g == search.open[x] + 1
                better == {b \in ToSet(Neighbors(x)) \ search.closed :
                             b \in DOMAIN search.open => g < search.open[b]}
            IN search' = [search EXCEPT
                 !.open    = Restrict(Extended(@, better, g), (DOMAIN @ \cup better) \ {x}),
                 !.parents = Extended(@, better, x),
                 !.closed  = @ \cup {x}]

--------------------------------------------------------------------------------
(* The bidirectional search.  Side 1 searches from the start, side 2 from    *)
(* the goal; each expands a whole level before it is the other's turn.       *)

BidirectionalInit(start, goal) ==
  search = [solver |-> "bidirectional", start |-> start, goal |-> goal,
            status |-> "running", path |-> Empty, side |-> 1,
            queue |-> <<<<start>>, <<goal>>>>, queue2 |-> <<Empty, Empty>>,
            fringe |-> <<{}, {}>>, parents |-> <<Empty, Empty>>]

\* reconstruct_path(): from the start to via, then on to the goal.
Joined(via) == Reverse(Chain(via, search.start, search.parents[1]))
               \o Tail(Append(Chain(via, search.goal, search.parents[2]), search.goal))

Expand ==
  /\ search.solver = "bidirectional" /\ search.status = "running"
  /\ search.queue[search.side] # Empty
  /\ LET s == search.side
         x == Head(search.queue[s])
         new == SelectSeq(Neighbors(x), LAMBDA b : b \notin DOMAIN search.parents[s])
     IN search' = IF x \in search.fringe[3 - s]
                  THEN [search EXCEPT !.status = "found", !.path = Joined(x)]
                  ELSE [search EXCEPT !.queue[s] = Tail(@), !.queue2[s] = @ \o new,
                                      !.fringe[s] = @ \cup ToSet(new) \cup {x},
                                      !.parents[s] = Extended(@, ToSet(new), x)]

\* A level is done: the queues are swapped, and the other side clears its fringe.
EndLevel ==
  /\ search.solver = "bidirectional" /\ search.status = "running"
  /\ LET s == search.side
         swapped == [search EXCEPT !.queue[s] = search.queue2[s], !.queue2[s] = Empty]
     IN /\ search.queue[s] = Empty
        /\ search' = IF s = 2 /\ swapped.queue = <<Empty, Empty>>
                     THEN [swapped EXCEPT !.status = "none"]
                     ELSE [swapped EXCEPT !.side = 3 - s, !.fringe[3 - s] = {}]

Init == \E start \in Boards : AStarInit(start, Default) \/ BidirectionalInit(start, Default)
Next == AStarStep \/ Expand \/ EndLevel
Spec == Init /\ [][Next]_vars

--------------------------------------------------------------------------------
PuzzleTypeOK == /\ IsBoard(search.start) /\ IsBoard(search.goal)
                /\ search.status \in {"running", "found", "none"}

\* Ball(b)[n]: the boards at most n moves away from b.
Ball(b) == LET Grown[n \in Nat] ==
                 IF n = 0 THEN {b}
                 ELSE LET S == Grown[n - 1] IN S \cup UNION {ToSet(Neighbors(x)) : x \in S}
           IN Grown

\* Both solvers return legal moves from the start to the goal, and as few as
\* possible, whichever of the two orderings of Score the queue follows and
\* however it breaks ties; they return None exactly when no moves lead to the
\* goal, which is what is_solvable() tells from the parity: the open set of A* never runs out.
SolutionShortest ==
  LET p == search.path IN
  /\ search.solver = "A*" /\ search.status = "running" => DOMAIN search.open # {}
  /\ search.status = "found" =>
       /\ \A i \in DOMAIN p : p[i] \in ToSet(Neighbors(IF i = 1 THEN search.start ELSE p[i - 1]))
       /\ search.goal = IF p = Empty THEN search.start ELSE Last(p)
       /\ p # Empty => search.goal \notin Ball(search.start)[Len(p) - 1]
  /\ search.status = "none" => search.goal \notin Ball(search.start)[MaxMoves]
================================================================================
