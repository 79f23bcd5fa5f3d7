---------------------- MODULE StronglyConnectedComponent ----------------------
(***************************************************************************)
(* StronglyConnectedComponent/src: a directed graph that grows edge by edge  *)
(* (graph.rs), and the three algorithms of scc.rs run on it.  A graph maps   *)
(* each node to the targets of its linked list of edges, newest first.       *)
(***************************************************************************)
EXTENDS Integers, Sequences, SequencesExt

CONSTANTS Nodes,          \* 0 .. n_nodes - 1
          MaxEdges        \* bound on the number of edges added

VARIABLE graph
vars == graph

None == -1
NodeOrder == [i \in 1 .. Cardinality(Nodes) |-> i - 1]

NoEdges == [n \in Nodes |-> <<>>]
WithEdge(g, from_node, to_node) == [g EXCEPT ![from_node] = <<to_node>> \o @]
Transpose(g) ==
  LET Turned(acc, n) == FoldLeft(LAMBDA h, m : WithEdge(h, m, n), acc, g[n]) IN
  FoldLeft(Turned, NoEdges, NodeOrder)

\* dfs_r: the nodes visited, and those finished in the order of their post_visitor.
RECURSIVE DfsR(_, _, _)
DfsR(g, node, s) ==
  IF node \in s.visited THEN s
  ELSE LET t == FoldLeft(LAMBDA acc, n : DfsR(g, n, acc),
                         [s EXCEPT !.visited = @ \cup {node}], g[node])
       IN [t EXCEPT !.postorder = Append(@, node)]
Dfs(g) == FoldLeft(LAMBDA s, n : DfsR(g, n, s), [visited |-> {}, postorder |-> <<>>], NodeOrder)

\* The node that represents the component of each node.
Kosaraju(g) ==
  LET Component(acc, n) ==
        LET t == DfsR(g, n, acc.dfs) IN
        [dfs |-> t, scc |-> [m \in Nodes |->
           IF m \in t.visited \ acc.dfs.visited THEN n ELSE acc.scc[m]]]
  IN FoldLeft(Component, [dfs |-> [visited |-> {}, postorder |-> <<>>],
                          scc |-> [m \in Nodes |-> None]],
              Reverse(Dfs(Transpose(g)).postorder)).scc

\* The fields that the contexts of Tarjan and Gabow share, and n's entry into them.
Context == [scc |-> [n \in Nodes |-> None], preorder |-> 0, stack |-> <<>>,
            order |-> [n \in Nodes |-> None]]
Entered(ctx, n) == [ctx EXCEPT !.order[n] = ctx.preorder, !.preorder = @ + 1,
                               !.stack = Append(@, n)]
\* The loop that pops the stack down to n: these nodes are n's component.
Popped(ctx, n) ==
  LET at == CHOOSE i \in DOMAIN ctx.stack : ctx.stack[i] = n
      members == {ctx.stack[i] : i \in at .. Len(ctx.stack)}
  IN [ctx EXCEPT !.stack = SubSeq(@, 1, at - 1),
                 !.scc = [m \in Nodes |-> IF m \in members THEN n ELSE @[m]]]

\* `low' (low_list) is None for a node that is not on the stack.
RECURSIVE TarjanR(_, _)
TarjanR(ctx, n) ==
  LET start == [Entered(ctx, n) EXCEPT !.low[n] = ctx.preorder]
      Edge(acc, m) ==
        LET c == IF acc.ctx.order[m] = None THEN TarjanR(acc.ctx, m) ELSE acc.ctx IN
        [ctx |-> c, lowest |-> IF c.low[m] # None /\ c.low[m] < acc.lowest
                               THEN c.low[m] ELSE acc.lowest]
      end == FoldLeft(Edge, [ctx |-> start, lowest |-> ctx.preorder], graph[n])
  IN IF end.lowest < end.ctx.low[n]
     THEN [end.ctx EXCEPT !.low[n] = end.lowest]
     ELSE LET popped == Popped(end.ctx, n) IN
          [popped EXCEPT !.low = [m \in Nodes |-> IF popped.scc[m] # None THEN None ELSE @[m]]]
Tarjan == FoldLeft(LAMBDA ctx, n : IF ctx.order[n] = None THEN TarjanR(ctx, n) ELSE ctx,
                   Context @@ [low |-> [n \in Nodes |-> None]], NodeOrder).scc

\* `path' is the stack of the nodes that may still be the root of a component.
RECURSIVE Unwound(_, _, _)
Unwound(path, order, m) ==
  IF path # <<>> /\ order[Last(path)] > order[m] THEN Unwound(Front(path), order, m) ELSE path
RECURSIVE GabowR(_, _)
GabowR(ctx, n) ==
  LET start == [Entered(ctx, n) EXCEPT !.path = Append(@, n)]
      Edge(acc, m) ==
        CASE acc.order[m] = None -> GabowR(acc, m)
          [] acc.order[m] # None /\ acc.scc[m] = None ->
               [acc EXCEPT !.path = Unwound(@, acc.order, m)]
          [] OTHER -> acc
      end == FoldLeft(Edge, start, graph[n])
  IN IF end.path # <<>> /\ Last(end.path) = n
     THEN Popped([end EXCEPT !.path = Front(@)], n)
     ELSE end
Gabow == FoldLeft(LAMBDA ctx, n : IF ctx.order[n] = None THEN GabowR(ctx, n) ELSE ctx,
                  Context @@ [path |-> <<>>], NodeOrder).scc

Init == graph = NoEdges
AddEdge ==
  /\ FoldLeft(LAMBDA k, n : k + Len(graph[n]), 0, NodeOrder) < MaxEdges
  /\ \E from_node, to_node \in Nodes : graph' = WithEdge(graph, from_node, to_node)
Next == AddEdge

--------------------------------------------------------------------------------
\* The nodes reachable from a set of nodes, a reference definition.
RECURSIVE Reach(_)
Reach(from) ==
  LET more == from \cup UNION {ToSet(graph[n]) : n \in from} IN
  IF more = from THEN from ELSE Reach(more)

\* scc_list_to_set: the classes of the nodes with the same representative.
SccListToSet(scc) == {{n \in Nodes : scc[n] = x} : x \in Range(scc)}

\* Whatever the edges, and whatever the order in which they were added (it is
\* the order of the visits): each algorithm gives every node a component, and
\* the components are the classes of the nodes that reach each other.
ComponentsAgree ==
  LET reach == [n \in Nodes |-> Reach({n})]
      classes == {{m \in Nodes : m \in reach[n] /\ n \in reach[m]} : n \in Nodes}
  IN \A scc \in {Kosaraju(graph), Tarjan, Gabow} :
       /\ None \notin Range(scc)
       /\ SccListToSet(scc) = classes
================================================================================
