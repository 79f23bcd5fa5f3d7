--------------------------- MODULE BipartiteMatching ---------------------------
(***************************************************************************)
(* BipartiteMatch of BipartiteMatching/src/lib.rs: Kuhn's algorithm, with    *)
(* the right nodes tried in random order and `seen' kept for a whole scan of *)
(* the left nodes.  The calls of kuhn_dfs() are the frames of a stack.       *)
(***************************************************************************)
EXTENDS Integers, FiniteSets, Sequences

CONSTANTS NL, NR          \* n_l and n_r

SizeAssumption == NL \in Nat /\ NR \in Nat

VARIABLE bm               \* graph, l2r, r2l; seen, l (the scan), count and old_count of
                          \* bipartite_match(); stack of kuhn_dfs(), topmost last; done

vars == bm

Left == 1 .. NL
Right == 1 .. NR
None == 0                 \* Option::None

Init ==
  \E graph \in SUBSET (Left \X Right) :
    bm = [graph |-> graph, l2r |-> [l \in Left |-> None], r2l |-> [r \in Right |-> None],
          seen |-> {}, l |-> 1, count |-> 0, old_count |-> 0, stack |-> <<>>, done |-> FALSE]

\* A call kuhn_dfs(l): the right nodes still to try, and the one being tried.
Frame(l) == [l |-> l, todo |-> {r \in Right : <<l, r>> \in bm.graph}, r |-> None]

Top == bm.stack[Len(bm.stack)]
SetTop(f) == [bm.stack EXCEPT ![Len(bm.stack)] = f]

\* bipartite_match() comes to left node l: a matched one is passed over, and
\* kuhn_dfs() returns false at once for one seen.
Scan ==
  /\ ~bm.done /\ bm.stack = <<>> /\ bm.l <= NL
  /\ bm' = IF bm.l2r[bm.l] # None \/ bm.l \in bm.seen
           THEN [bm EXCEPT !.l = @ + 1]
           ELSE [bm EXCEPT !.stack = <<Frame(bm.l)>>, !.seen = @ \cup {bm.l}]

\* The next right node of the shuffled list is free: the search ends, and while
\* it unwinds every frame matches its left node to the right node it was trying.
Augment ==
  \E r \in (IF bm.stack = <<>> THEN {} ELSE Top.todo) :
    /\ bm.r2l[r] = None
    /\ LET stack == SetTop([Top EXCEPT !.r = r])
           matched == {<<stack[i].l, stack[i].r>> : i \in DOMAIN stack}
       IN bm' = [bm EXCEPT
            !.l2r = [l \in Left |-> IF \E p \in matched : p[1] = l
                                    THEN (CHOOSE p \in matched : p[1] = l)[2] ELSE @[l]],
            !.r2l = [q \in Right |-> IF \E p \in matched : p[2] = q
                                     THEN (CHOOSE p \in matched : p[2] = q)[1] ELSE @[q]],
            !.count = @ + 1, !.l = @ + 1, !.stack = <<>>]

\* It is matched: a call for its left node, unless that one has been seen.
Descend ==
  \E r \in (IF bm.stack = <<>> THEN {} ELSE Top.todo) :
    LET old_l == bm.r2l[r]
        stack == SetTop([Top EXCEPT !.todo = @ \ {r}, !.r = r])
    IN /\ old_l # None
       /\ bm' = IF old_l \in bm.seen THEN [bm EXCEPT !.stack = stack]
                ELSE [bm EXCEPT !.stack = Append(stack, Frame(old_l)),
                                !.seen = @ \cup {old_l}]

\* Mutant: the scan moves on whenever a call returns.
Backtrack_MovesOn ==
  /\ bm.stack # <<>> /\ Top.todo = {}
  /\ bm' = [bm EXCEPT !.stack = SubSeq(@, 1, Len(@) - 1), !.l = @ + 1]

\* No right node is left to try: the call returns false.
Backtrack ==
  /\ bm.stack # <<>> /\ Top.todo = {}
  /\ bm' = [bm EXCEPT !.stack = SubSeq(@, 1, Len(@) - 1),
                      !.l = IF Len(bm.stack) = 1 THEN @ + 1 ELSE @]

\* Mutant: one scan only.
NextRound_Once ==
  /\ ~bm.done /\ bm.stack = <<>> /\ bm.l > NL
  /\ bm' = [bm EXCEPT !.done = TRUE]

\* The end of a scan: another one, with `seen' cleared, if the matching has grown.
NextRound ==
  /\ ~bm.done /\ bm.stack = <<>> /\ bm.l > NL
  /\ bm' = IF bm.count = bm.old_count THEN [bm EXCEPT !.done = TRUE]
           ELSE [bm EXCEPT !.l = 1, !.seen = {}, !.old_count = bm.count]

Next == Scan \/ Augment \/ Descend \/ Backtrack \/ NextRound

Spec == Init /\ [][Next]_vars

--------------------------------------------------------------------------------
MatchingTypeOK ==
  /\ bm.l2r \in [Left -> Right \cup {None}] /\ bm.r2l \in [Right -> Left \cup {None}]
  /\ bm.seen \subseteq Left /\ bm.l \in 1 .. NL + 1 /\ bm.done \in BOOLEAN
  /\ bm.count \in Nat /\ bm.old_count \in 0 .. bm.count

\* l2r and r2l stay inverse of each other along edges of the graph, whatever
\* path was rematched, and count is the number of matched nodes on either side
\* (the debug_assert_eq!s at lines 114 and 117).
Mutual ==
  /\ \A l \in Left : bm.l2r[l] # None => /\ <<l, bm.l2r[l]>> \in bm.graph
                                         /\ bm.r2l[bm.l2r[l]] = l
  /\ \A r \in Right : bm.r2l[r] # None => bm.l2r[bm.r2l[r]] = r
  /\ bm.count = Cardinality({l \in Left : bm.l2r[l] # None})

\* The matching returned is a maximum one, in every order of trying the edges,
\* although searches in one scan skip what earlier ones have seen: as many nodes
\* as it has edges cover all edges of the graph (Koenig's theorem).
MatchingMaximum ==
  /\ Mutual
  /\ bm.done => \E L \in SUBSET Left, R \in SUBSET Right :
               /\ Cardinality(L) + Cardinality(R) = bm.count
               /\ \A e \in bm.graph : e[1] \in L \/ e[2] \in R
================================================================================
