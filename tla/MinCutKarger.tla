------------------------------ MODULE MinCutKarger ------------------------------
(***************************************************************************)
(* Karger's contraction algorithm of MinCutKarger/src/lib.rs.  The order of  *)
(* an adjacency list only biases the random choices: remove_all() keeps it   *)
(* here.                                                                     *)
(***************************************************************************)
EXTENDS Integers, Sequences, FiniteSetsExt

CONSTANTS Vertices,       \* a set of integers
          Weights,        \* weights of edges, positive integers
          Trials          \* n_trials

VertexAssumption ==
  IsFiniteSet(Vertices) /\ Vertices \subseteq Nat /\ Cardinality(Vertices) >= 2
WeightAssumption == Weights \subseteq Nat \ {0}

VARIABLE cut              \* input: the weights of the edges of the graph; graph: the
                          \* Graph; trial: its clone; left: trials to go; min_cut_so_far;
                          \* ghost group: the vertices each one of the clone stands for

vars == cut

Pairs == {p \in Vertices \X Vertices : p[1] < p[2]}
None == 0                 \* no edge, and min_cut_so_far before the first trial

\* Graph: edges maps a vertex to its adjacency list, of <<vertex, weight>>.
Default == [edges |-> <<>>, n_vertices |-> 0, n_edges |-> 0]

AddHalfEdge(g, from_vtx, to_vtx, weight) ==
  LET known == from_vtx \in DOMAIN g.edges IN
  [g EXCEPT !.n_vertices = IF known THEN @ ELSE @ + 1,
            !.edges = [v \in DOMAIN @ \cup {from_vtx} |->
                         (IF v \in DOMAIN @ THEN @[v] ELSE <<>>)
                         \o (IF v = from_vtx THEN <<<<to_vtx, weight>>>> ELSE <<>>)]]

AddWeightedEdge(g, from_vtx, to_vtx, weight) ==
  LET h == AddHalfEdge(AddHalfEdge(g, from_vtx, to_vtx, weight), to_vtx, from_vtx, weight)
  IN [h EXCEPT !.n_edges = @ + 1]

\* min_cut_from_lines(): one edge after the other.
Built(input) == FoldSet(LAMBDA p, g : AddWeightedEdge(g, p[1], p[2], input[p]), Default,
                        {p \in Pairs : input[p] # None})

\* Mutant: nothing is removed, so that contracted edges become loops.
Without_Loops(adj, v) == adj

\* remove_all() of the edges to v.
Without(adj, v) ==
  LET kept[i \in 0 .. Len(adj)] ==
        IF i = 0 THEN <<>>
        ELSE IF adj[i][1] = v THEN kept[i - 1] ELSE Append(kept[i - 1], adj[i])
  IN kept[Len(adj)]

\* The halves of edges find_random_edge() may return.
HalfEdges(g) == UNION {{<<v, g.edges[v][i][1]>> : i \in DOMAIN g.edges[v]} : v \in DOMAIN g.edges}

\* contract_edge(): the larger end disappears into the smaller.
Contracted(g, from_vtx, to_vtx) ==
  LET adj_list_to == Without(g.edges[to_vtx], from_vtx)
      n_edges_removed == Len(g.edges[to_vtx]) - Len(adj_list_to)
      Redirected(adj) == [i \in DOMAIN adj |-> IF adj[i][1] = to_vtx THEN <<from_vtx, adj[i][2]>>
                                                                    ELSE adj[i]]
  IN [edges |-> [v \in DOMAIN g.edges \ {to_vtx} |->
                   IF v = from_vtx THEN Without(g.edges[v], to_vtx) \o adj_list_to
                   ELSE IF \E i \in DOMAIN adj_list_to : adj_list_to[i][1] = v
                        THEN Redirected(g.edges[v]) ELSE g.edges[v]],
      n_vertices |-> g.n_vertices - 1,
      n_edges |-> g.n_edges - n_edges_removed]

\* The weight of the edges of an adjacency list that lead to vertices in `to'.
WeightTo(adj, to) ==
  LET sum[i \in 0 .. Len(adj)] ==
        IF i = 0 THEN 0 ELSE sum[i - 1] + IF adj[i][1] \in to THEN adj[i][2] ELSE 0
  IN sum[Len(adj)]

Connected(input) ==
  \A S \in (SUBSET Vertices) \ {{}, Vertices} :
    \E p \in Pairs : input[p] # None /\ (p[1] \in S <=> p[2] \notin S)

Inputs == {input \in [Pairs -> Weights \cup {None}] : Connected(input)}

Single == [v \in Vertices |-> {v}]

Init == cut = [input |-> [p \in Pairs |-> None], graph |-> Default, trial |-> Default,
               left |-> 0, min_cut_so_far |-> None, group |-> Single]

\* A connected graph is read, and min_cut_karger() clones it for the first trial.
Build ==
  /\ cut.graph = Default
  /\ \E input \in Inputs :
          cut' = [cut EXCEPT !.input = input, !.graph = Built(input),
                             !.trial = Built(input), !.left = Trials]

\* One contraction of a trial, of a random edge.
Contract ==
  /\ cut.left > 0 /\ cut.trial.n_vertices > 2
  /\ \E e \in HalfEdges(cut.trial) :
       LET from_vtx == IF e[1] < e[2] THEN e[1] ELSE e[2]
           to_vtx   == IF e[1] < e[2] THEN e[2] ELSE e[1]
       IN cut' = [cut EXCEPT !.trial = Contracted(@, from_vtx, to_vtx),
                             !.group = [cut.group EXCEPT ![from_vtx] = @ \cup cut.group[to_vtx],
                                                         ![to_vtx] = {}]]

\* The end of a trial: the adjacency list of either vertex left weighs the cut.
EndTrial ==
  /\ cut.left > 0 /\ cut.trial.n_vertices = 2
  /\ \E v \in DOMAIN cut.trial.edges :
       LET weight_sum == WeightTo(cut.trial.edges[v], Vertices) IN
       cut' = [cut EXCEPT !.min_cut_so_far = IF @ = None \/ weight_sum < @ THEN weight_sum ELSE @,
                          !.left = @ - 1, !.trial = cut.graph, !.group = Single]

Next == Build \/ Contract \/ EndTrial

Spec == Init /\ [][Next]_vars

--------------------------------------------------------------------------------
CutTypeOK ==
  /\ cut.left \in 0 .. Trials /\ cut.min_cut_so_far \in Nat
  /\ cut.input \in [Pairs -> Weights \cup {None}] /\ cut.group \in [Vertices -> SUBSET Vertices]

SumOver(w, S) == MapThenSumSet(LAMBDA x : w[x], S)

\* The weight of the edges of the input between two sets of vertices.
Between(S, T) == SumOver(cut.input, {p \in Pairs : p \in S \X T \/ p \in T \X S})

\* Through any contractions the clone is the input with groups of vertices
\* merged: between two of its vertices, both adjacency lists hold the edges of
\* the input between their groups and no edge inside one is left, n_edges * 2 is
\* the number of halves (the debug_assert_eq! at line 68) and there is always an
\* edge to choose while more than two vertices are left.
Quotient ==
  LET g == cut.trial IN
  /\ g.n_vertices = Cardinality(DOMAIN g.edges)
  /\ 2 * g.n_edges = SumOver([v \in DOMAIN g.edges |-> Len(g.edges[v])], DOMAIN g.edges)
  /\ \A u, v \in DOMAIN g.edges :
       WeightTo(g.edges[u], {v}) =
         IF u = v THEN 0 ELSE Between(cut.group[u], cut.group[v])
  /\ \A v \in DOMAIN g.edges : g.edges[v] # <<>>

\* What is reported is the weight of a cut of the input, so never less than the
\* minimum: a trial leaves nothing behind in the graph the next one clones.
ReportedIsCut ==
  /\ Quotient
  /\ cut.min_cut_so_far # None =>
    \E S \in (SUBSET Vertices) \ {{}, Vertices} : cut.min_cut_so_far = Between(S, Vertices \ S)
================================================================================
