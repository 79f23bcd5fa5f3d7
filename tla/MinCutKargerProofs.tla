-------------------------- MODULE MinCutKargerProofs --------------------------
(***************************************************************************)
(* Proofs about Karger's algorithm, as PlainPrograms runs it, for any number *)
(* of vertices and any weights: what it reports is the weight of a cut.      *)
(*                                                                           *)
(* Adjacency lists are known by sums along them: how many edges lead to a    *)
(* vertex, and how much they weigh.  A sum over a set is the cardinality of  *)
(* a set of places, which has no order.  The input is read edge by edge, by  *)
(* induction over the set of its edges, and each contraction is known by     *)
(* what it does to the sums.                                                 *)
(***************************************************************************)
EXTENDS PlainRecursionProofs

(***************************************************************************)
(* Sums along an adjacency list                                              *)
(***************************************************************************)

\* The edges of adjacency lists, and what may be counted of them: a number for
\* each edge.
Edge == Vertices \X Weights
Counted == [Edge -> Nat]

\* The sums of h along the list adj, and the last one of them.
Along(f, adj, h) == f[0] = 0 /\ \A k \in 1 .. Len(adj) : f[k] = f[k - 1] + h[adj[k]]
Tally(adj, h) == (CHOOSE f : f \in [0 .. Len(adj) -> Nat] /\ Along(f, adj, h))[Len(adj)]

LEMMA Tallied ==
    ASSUME NEW adj \in Seq(Edge), NEW h \in Counted
    PROVE  \E f \in [0 .. Len(adj) -> Nat] : Along(f, adj, h) /\ Tally(adj, h) = f[Len(adj)]
<1> DEFINE P(f) == f \in [0 .. Len(adj) -> Nat] /\ Along(f, adj, h)
<1>1. PICK n \in Nat : n = Len(adj)
  OBVIOUS
<1>2. \A k \in 1 .. n : h[adj[k]] \in Nat
  <2>1. ASSUME NEW k \in 1 .. n PROVE h[adj[k]] \in Nat
    <3>1. adj[k] \in Edge
      BY <1>1
    <3> QED
      BY <3>1 DEF Counted
  <2> QED
    BY <2>1
<1> DEFINE bag == [k \in 0 .. n - 1 |-> h[adj[k + 1]]]
<1>3. \A k \in 0 .. n - 1 : bag[k] \in Nat
  <2>1. \A k \in 0 .. n - 1 : k + 1 \in 1 .. n
    OBVIOUS
  <2> QED
    BY <1>2, <2>1
<1>4. \A k \in 1 .. n : bag[k - 1] = h[adj[k]]
  <2>1. ASSUME NEW k \in 1 .. n PROVE bag[k - 1] = h[adj[k]]
    <3>1. k - 1 \in 0 .. n - 1 /\ (k - 1) + 1 = k
      OBVIOUS
    <3> QED
      BY <3>1
  <2> QED
    BY <2>1
<1> HIDE DEF bag
<1>5. PICK f \in [0 .. n -> Nat] : Sums(f, bag, n)
  BY <1>3, Summed
<1>6. P(f)
  <2>1. Along(f, adj, h)
    BY <1>1, <1>4, <1>5 DEF Sums, Along
  <2> QED
    BY <1>1, <1>5, <2>1
<1>7. P(CHOOSE g : P(g))
  <2> HIDE DEF P
  <2> QED
    BY <1>6
<1> QED
  BY <1>7 DEF Tally

\* The sums are what they are.
LEMMA TallyIs ==
    ASSUME NEW adj \in Seq(Edge), NEW h \in Counted, NEW f, Along(f, adj, h)
    PROVE  Tally(adj, h) = f[Len(adj)]
<1>1. PICK g \in [0 .. Len(adj) -> Nat] : Along(g, adj, h) /\ Tally(adj, h) = g[Len(adj)]
  BY Tallied
<1>2. PICK n \in Nat : n = Len(adj)
  OBVIOUS
<1> DEFINE G == {k \in 0 .. n : f[k] = g[k]}
<1>3. 0 \in G
  BY <1>1 DEF Along
<1>4. ASSUME NEW k \in 1 .. n, k - 1 \in G PROVE k \in G
  BY <1>1, <1>2, <1>4 DEF Along
<1>5. n \in G
  <2> HIDE DEF G
  <2>1. \A k \in 0 .. n : k \in G
    BY <1>3, <1>4, UpTo
  <2> QED
    BY <2>1
<1> QED
  BY <1>1, <1>2, <1>5

LEMMA TallyType ==
    ASSUME NEW adj \in Seq(Edge), NEW h \in Counted PROVE Tally(adj, h) \in Nat
<1>1. PICK f \in [0 .. Len(adj) -> Nat] : Tally(adj, h) = f[Len(adj)]
  BY Tallied
<1> QED
  BY <1>1

LEMMA TallyEmpty == ASSUME NEW h \in Counted PROVE Tally(<<>>, h) = 0
<1>1. PICK a \in Seq(Edge) : a = <<>> /\ Len(a) = 0
  <2>1. <<>> \in Seq(Edge) /\ Len(<<>>) = 0
    OBVIOUS
  <2> QED
    BY <2>1
<1>2. PICK f \in [0 .. Len(a) -> Nat] : Along(f, a, h) /\ Tally(a, h) = f[Len(a)]
  BY Tallied
<1> QED
  BY <1>1, <1>2 DEF Along

LEMMA TallyJoined ==
    ASSUME NEW a \in Seq(Edge), NEW b \in Seq(Edge), NEW h \in Counted
    PROVE  Tally(a \o b, h) = Tally(a, h) + Tally(b, h)
<1>1. PICK m \in Nat, n \in Nat, c \in Seq(Edge) :
        /\ m = Len(a) /\ n = Len(b) /\ c = a \o b
  <2>1. Len(a) \in Nat /\ Len(b) \in Nat
    OBVIOUS
  <2>2. a \o b \in Seq(Edge)
    OBVIOUS
  <2> QED
    BY <2>1, <2>2
<1>2. /\ Len(c) = m + n
      /\ \A k \in 1 .. m : c[k] = a[k]
      /\ \A k \in m + 1 .. m + n : c[k] = b[k - m]
  BY <1>1
<1>3. PICK f \in [0 .. m -> Nat] : Along(f, a, h) /\ Tally(a, h) = f[m]
  BY <1>1, Tallied
<1>4. PICK g \in [0 .. n -> Nat] : Along(g, b, h) /\ Tally(b, h) = g[n]
  BY <1>1, Tallied
<1> DEFINE s == [k \in 0 .. m + n |-> IF k <= m THEN f[k] ELSE f[m] + g[k - m]]
<1>5. s[0] = 0
  BY <1>3 DEF Along
<1>6. ASSUME NEW k \in 1 .. m + n PROVE s[k] = s[k - 1] + h[c[k]]
  <2>1. CASE k <= m
    <3>1. k \in 1 .. m /\ s[k] = f[k] /\ s[k - 1] = f[k - 1]
      BY <2>1
    <3> QED
      BY <1>1, <1>2, <1>3, <3>1 DEF Along
  <2>2. CASE k > m
    <3>1. /\ k - m \in 1 .. n /\ k \in m + 1 .. m + n /\ (k - m) - 1 = k - 1 - m
      BY <2>2
    <3>2. g[k - m] = g[k - 1 - m] + h[c[k]]
      BY <1>1, <1>2, <1>4, <3>1 DEF Along
    <3>3. s[k] = f[m] + g[k - m]
      BY <2>2
    <3>4. s[k - 1] = f[m] + g[k - 1 - m]
      <4>1. CASE k - 1 = m
        <5>1. g[k - 1 - m] = 0 /\ s[k - 1] = f[m] /\ f[m] \in Nat
          BY <1>4, <4>1 DEF Along
        <5> QED
          BY <5>1
      <4>2. CASE k - 1 # m
        BY <2>2, <4>2
      <4> QED
        BY <4>1, <4>2
    <3>5. f[m] \in Nat /\ g[k - 1 - m] \in Nat /\ h[c[k]] \in Nat
      <4>1. k - 1 - m \in 0 .. n
        BY <3>1
      <4>2. c[k] \in Edge
        BY <1>2
      <4> QED
        BY <4>1, <4>2 DEF Counted
    <3>6. PICK p \in Nat, q \in Nat, r \in Nat :
            p = f[m] /\ q = g[k - 1 - m] /\ r = h[c[k]]
      BY <3>5
    <3>7. g[k - m] = q + r
      BY <3>2, <3>6
    <3>8. s[k] = p + (q + r)
      BY <3>3, <3>6, <3>7
    <3>9. s[k - 1] = p + q
      BY <3>4, <3>6
    <3> HIDE DEF s
    <3>10. p + (q + r) = (p + q) + r
      OBVIOUS
    <3> QED
      BY <3>6, <3>8, <3>9, <3>10
  <2> QED
    BY <2>1, <2>2
<1>7. Along(s, c, h)
  BY <1>2, <1>5, <1>6 DEF Along
<1>8. s[m + n] = f[m] + g[n]
  <2>1. CASE n = 0
    <3>1. g[n] = 0 /\ f[m] \in Nat /\ s[m + n] = f[m]
      BY <1>4, <2>1 DEF Along
    <3> QED
      BY <3>1
  <2>2. CASE n # 0
    BY <2>2
  <2> QED
    BY <2>1, <2>2
<1> HIDE DEF s
<1>9. Tally(c, h) = s[m + n]
  BY <1>2, <1>7, TallyIs
<1> QED
  BY <1>1, <1>3, <1>4, <1>8, <1>9

\* Lists whose edges count the same, one by one.
LEMMA TallySame ==
    ASSUME NEW a \in Seq(Edge), NEW b \in Seq(Edge), NEW h \in Counted, NEW g \in Counted,
           Len(a) = Len(b), \A k \in 1 .. Len(a) : h[a[k]] = g[b[k]]
    PROVE  Tally(a, h) = Tally(b, g)
<1>1. PICK f \in [0 .. Len(a) -> Nat] : Along(f, a, h) /\ Tally(a, h) = f[Len(a)]
  BY Tallied
<1>2. Along(f, b, g)
  BY <1>1 DEF Along
<1>3. Tally(b, g) = f[Len(b)]
  BY <1>2, TallyIs
<1> QED
  BY <1>1, <1>3

LEMMA TallyOne ==
    ASSUME NEW e \in Edge, NEW h \in Counted PROVE Tally(<<e>>, h) = h[e]
<1>1. PICK a \in Seq(Edge) : a = <<e>> /\ Len(a) = 1 /\ a[1] = e
  <2>1. <<e>> \in Seq(Edge) /\ Len(<<e>>) = 1 /\ <<e>>[1] = e
    OBVIOUS
  <2> QED
    BY <2>1
<1>2. PICK f \in [0 .. Len(a) -> Nat] : Along(f, a, h) /\ Tally(a, h) = f[Len(a)]
  BY Tallied
<1>3. h[e] \in Nat
  BY DEF Counted
<1>4. f[1] = f[0] + h[a[1]] /\ f[0] = 0
  BY <1>1, <1>2 DEF Along
<1> QED
  BY <1>1, <1>2, <1>3, <1>4

LEMMA TallyAdd ==
    ASSUME NEW a \in Seq(Edge), NEW h \in Counted, NEW g \in Counted, NEW s \in Counted,
           \A e \in Edge : s[e] = h[e] + g[e]
    PROVE  Tally(a, s) = Tally(a, h) + Tally(a, g)
<1>1. PICK f \in [0 .. Len(a) -> Nat] : Along(f, a, h) /\ Tally(a, h) = f[Len(a)]
  BY Tallied
<1>2. PICK d \in [0 .. Len(a) -> Nat] : Along(d, a, g) /\ Tally(a, g) = d[Len(a)]
  BY Tallied
<1> DEFINE t == [k \in 0 .. Len(a) |-> f[k] + d[k]]
<1>3. t[0] = 0
  BY <1>1, <1>2 DEF Along
<1>4. ASSUME NEW k \in 1 .. Len(a) PROVE t[k] = t[k - 1] + s[a[k]]
  <2>1. /\ f[k] = f[k - 1] + h[a[k]] /\ d[k] = d[k - 1] + g[a[k]]
    BY <1>1, <1>2 DEF Along
  <2>2. k \in 0 .. Len(a) /\ k - 1 \in 0 .. Len(a) /\ a[k] \in Edge
    OBVIOUS
  <2>3. s[a[k]] = h[a[k]] + g[a[k]] /\ h[a[k]] \in Nat /\ g[a[k]] \in Nat
    BY <2>2 DEF Counted
  <2>4. f[k - 1] \in Nat /\ d[k - 1] \in Nat
    BY <2>2
  <2>5. t[k] = f[k] + d[k] /\ t[k - 1] = f[k - 1] + d[k - 1]
    BY <2>2
  <2> QED
    BY <2>1, <2>3, <2>4, <2>5
<1>5. t[Len(a)] = f[Len(a)] + d[Len(a)]
  OBVIOUS
<1>6. Along(t, a, s)
  BY <1>3, <1>4 DEF Along
<1> HIDE DEF t
<1>7. Tally(a, s) = t[Len(a)]
  BY <1>6, TallyIs
<1> QED
  BY <1>1, <1>2, <1>5, <1>7

\* Each edge counts, and if none does there is nothing.
LEMMA TallyBounds ==
    ASSUME NEW a \in Seq(Edge), NEW h \in Counted
    PROVE  /\ \A i \in 1 .. Len(a) : h[a[i]] <= Tally(a, h)
           /\ (\A i \in 1 .. Len(a) : h[a[i]] = 0) => Tally(a, h) = 0
<1>1. PICK f \in [0 .. Len(a) -> Nat] : Along(f, a, h) /\ Tally(a, h) = f[Len(a)]
  BY Tallied
<1>2. PICK n \in Nat : n = Len(a)
  OBVIOUS
<1>3. \A k \in 1 .. n : h[a[k]] \in Nat /\ f[k] = f[k - 1] + h[a[k]] /\ f[k - 1] \in Nat
  <2>1. ASSUME NEW k \in 1 .. n
        PROVE  h[a[k]] \in Nat /\ f[k] = f[k - 1] + h[a[k]] /\ f[k - 1] \in Nat
    <3>1. a[k] \in Edge /\ k - 1 \in 0 .. n
      BY <1>2
    <3> QED
      BY <1>1, <1>2, <3>1 DEF Along, Counted
  <2> QED
    BY <2>1
<1>4. ASSUME NEW i \in 1 .. n PROVE h[a[i]] <= f[n]
  <2> DEFINE G == {k \in 0 .. n : k >= i => h[a[i]] <= f[k]}
  <2>1. 0 \in G
    OBVIOUS
  <2>2. ASSUME NEW k \in 1 .. n, k - 1 \in G PROVE k \in G
    <3>1. h[a[k]] \in Nat /\ f[k] = f[k - 1] + h[a[k]] /\ f[k - 1] \in Nat /\ h[a[i]] \in Nat
      BY <1>3
    <3>2. CASE k = i
      BY <3>1, <3>2
    <3>3. CASE k > i
      BY <2>2, <3>1, <3>3
    <3> QED
      BY <3>2, <3>3
  <2>3. n \in G
    <3> HIDE DEF G
    <3>1. \A k \in 0 .. n : k \in G
      BY <2>1, <2>2, UpTo
    <3> QED
      BY <3>1
  <2> QED
    BY <2>3
<1>5. ASSUME \A i \in 1 .. n : h[a[i]] = 0 PROVE f[n] = 0
  <2> DEFINE G == {k \in 0 .. n : f[k] = 0}
  <2>1. 0 \in G
    BY <1>1 DEF Along
  <2>2. ASSUME NEW k \in 1 .. n, k - 1 \in G PROVE k \in G
    BY <1>3, <1>5, <2>2
  <2>3. n \in G
    <3> HIDE DEF G
    <3>1. \A k \in 0 .. n : k \in G
      BY <2>1, <2>2, UpTo
    <3> QED
      BY <3>1
  <2> QED
    BY <2>3
<1> QED
  BY <1>1, <1>2, <1>4, <1>5

\* The length counts every edge once.
LEMMA TallyLength ==
    ASSUME NEW a \in Seq(Edge), NEW h \in Counted, \A e \in Edge : h[e] = 1
    PROVE  Tally(a, h) = Len(a)
<1> DEFINE f == [k \in 0 .. Len(a) |-> k]
<1>1. f[0] = 0
  OBVIOUS
<1>2. ASSUME NEW k \in 1 .. Len(a) PROVE f[k] = f[k - 1] + h[a[k]]
  <2>1. a[k] \in Edge /\ k \in 0 .. Len(a) /\ k - 1 \in 0 .. Len(a)
    OBVIOUS
  <2> QED
    BY <2>1
<1>3. Along(f, a, h) /\ f[Len(a)] = Len(a)
  BY <1>1, <1>2 DEF Along
<1> HIDE DEF f
<1> QED
  BY <1>3, TallyIs

(***************************************************************************)
(* Steps, and what is counted                                                *)
(***************************************************************************)

\* The values f of a number of steps from b, each one a function.
Steps(f, F, b, n) == f[0] = b /\ \A k \in 1 .. n : f[k] = F[k][f[k - 1]]

LEMMA Stepped ==
    ASSUME NEW S, NEW n \in Nat, NEW b \in S,
           NEW F, \A k \in 1 .. n, s \in S : F[k][s] \in S
    PROVE  \E f \in [0 .. n -> S] : Steps(f, F, b, n)
<1> DEFINE Run(m, f) == Steps(f, F, b, m)
           G == {m \in 0 .. n : \E f \in [0 .. m -> S] : Run(m, f)}
<1> USE DEF Steps
<1>1. 0 \in G
  <2> DEFINE f == [k \in 0 .. 0 |-> b]
  <2>1. f \in [0 .. 0 -> S] /\ Run(0, f)
    OBVIOUS
  <2> HIDE DEF f
  <2> QED
    BY <2>1
<1>2. ASSUME NEW m \in 1 .. n, m - 1 \in G
      PROVE  m \in G
  <2>1. PICK f \in [0 .. m - 1 -> S] : Run(m - 1, f)
    BY <1>2
  <2> DEFINE g == [k \in 0 .. m |-> IF k = m THEN F[m][f[m - 1]] ELSE f[k]]
  <2>2. g \in [0 .. m -> S]
    <3>1. f[m - 1] \in S /\ \A k \in 0 .. m - 1 : f[k] \in S
      BY <2>1
    <3>2. F[m][f[m - 1]] \in S
      BY <3>1
    <3>3. \A k \in 0 .. m : k # m => k \in 0 .. m - 1
      OBVIOUS
    <3> QED
      BY <3>1, <3>2, <3>3
  <2>3. g[0] = b
    BY <2>1
  <2>4. ASSUME NEW k \in 1 .. m
        PROVE  g[k] = F[k][g[k - 1]]
    <3>1. g[k - 1] = f[k - 1]
      OBVIOUS
    <3>2. CASE k = m
      BY <3>1, <3>2
    <3>3. CASE k # m
      <4>1. k \in 1 .. m - 1 /\ g[k] = f[k]
        BY <3>3
      <4> QED
        BY <2>1, <3>1, <4>1
    <3> QED
      BY <3>2, <3>3
  <2>5. Run(m, g)
    BY <2>3, <2>4
  <2> HIDE DEF g, Run, Steps
  <2> QED
    BY <2>2, <2>5
<1>3. n \in G
  <2> HIDE DEF G
  <2>1. \A k \in 0 .. n : k \in G
    BY <1>1, <1>2, UpTo
  <2> QED
    BY <2>1
<1> HIDE DEF Steps
<1> QED
  BY <1>3

\* What is counted: the edges to v, each one as much as c says of its weight.
Costs == [Weights -> Nat]
Own == [w \in Weights |-> w]
One == [w \in Weights |-> 1]
To(v, c) == [e \in Edge |-> IF e[1] = v THEN c[e[2]] ELSE 0]
Weigh(to) == [e \in Edge |-> IF e[1] \in to THEN e[2] ELSE 0]

LEMMA CostTypes ==
    /\ Weights \subseteq Nat /\ 0 \notin Weights /\ Vertices \subseteq Nat
    /\ Own \in Costs /\ One \in Costs
    /\ \A v, c : c \in Costs => To(v, c) \in Counted
    /\ \A to : Weigh(to) \in Counted
<1>1. Weights \subseteq Nat /\ 0 \notin Weights /\ Vertices \subseteq Nat
  BY PlainAssumption DEF Cut!WeightAssumption, Cut!VertexAssumption
<1>2. Own \in Costs /\ One \in Costs
  BY <1>1 DEF Own, One, Costs
<1>3. \A e \in Edge : e[2] \in Weights /\ e[2] \in Nat
  BY <1>1 DEF Edge
<1>4. ASSUME NEW v, NEW c \in Costs PROVE To(v, c) \in Counted
  <2>1. \A e \in Edge : c[e[2]] \in Nat
    BY <1>3 DEF Costs
  <2> QED
    BY <2>1 DEF To, Counted
<1>5. ASSUME NEW to PROVE Weigh(to) \in Counted
  BY <1>3 DEF Weigh, Counted
<1> QED
  BY <1>1, <1>2, <1>4, <1>5

LEMMA WeightIs ==
    ASSUME NEW adj \in Seq(Edge), NEW to
    PROVE  Cut!WeightTo(adj, to) = Tally(adj, Weigh(to))
<1> DEFINE h == Weigh(to)
           step(f) == [i \in 0 .. Len(adj) |->
                         IF i = 0 THEN 0
                         ELSE f[i - 1] + IF adj[i][1] \in to THEN adj[i][2] ELSE 0]
           sum == CHOOSE f : f = step(f)
<1>1. Cut!WeightTo(adj, to) = sum[Len(adj)]
  BY DEF Cut!WeightTo
<1>2. h \in Counted
  BY CostTypes
<1>3. \A i \in 1 .. Len(adj) : h[adj[i]] = IF adj[i][1] \in to THEN adj[i][2] ELSE 0
  <2>1. \A i \in 1 .. Len(adj) : adj[i] \in Edge
    OBVIOUS
  <2> QED
    BY <2>1 DEF Weigh
<1> HIDE DEF h
<1>4. PICK f \in [0 .. Len(adj) -> Nat] : Along(f, adj, h)
  BY <1>2, Tallied
<1>5. f = step(f)
  BY <1>3, <1>4 DEF Along
<1>6. sum = step(sum)
  BY <1>5
<1> HIDE DEF sum
<1>7. Along(sum, adj, h)
  <2>1. \A i \in 0 .. Len(adj) :
          sum[i] = IF i = 0 THEN 0 ELSE sum[i - 1] + IF adj[i][1] \in to THEN adj[i][2] ELSE 0
    BY <1>6
  <2>2. sum[0] = 0
    BY <2>1
  <2>3. ASSUME NEW i \in 1 .. Len(adj) PROVE sum[i] = sum[i - 1] + h[adj[i]]
    BY <1>3, <2>1
  <2> QED
    BY <2>2, <2>3 DEF Along
<1>8. Tally(adj, h) = sum[Len(adj)]
  BY <1>2, <1>7, TallyIs
<1> QED
  BY <1>1, <1>8 DEF h

\* The lists that remove_all() leaves of the beginnings of adj.
Leaves(kept, adj, x) ==
    /\ kept[0] = <<>>
    /\ \A i \in 1 .. Len(adj) :
         kept[i] = IF adj[i][1] = x THEN kept[i - 1] ELSE Append(kept[i - 1], adj[i])

LEMMA WithoutIs ==
    ASSUME NEW adj \in Seq(Edge), NEW x
    PROVE  \E kept \in [0 .. Len(adj) -> Seq(Edge)] :
             Leaves(kept, adj, x) /\ Cut!Without(adj, x) = kept[Len(adj)]
<1> DEFINE step(f) == [i \in 0 .. Len(adj) |->
                         IF i = 0 THEN <<>>
                         ELSE IF adj[i][1] = x THEN f[i - 1] ELSE Append(f[i - 1], adj[i])]
           kept == CHOOSE f : f = step(f)
           F == [i \in 1 .. Len(adj) |->
                   [s \in Seq(Edge) |-> IF adj[i][1] = x THEN s ELSE Append(s, adj[i])]]
<1>1. Cut!Without(adj, x) = kept[Len(adj)]
  BY DEF Cut!Without
<1>2. \A k \in 1 .. Len(adj), s \in Seq(Edge) : F[k][s] \in Seq(Edge)
  <2>1. \A i \in 1 .. Len(adj) : adj[i] \in Edge
    OBVIOUS
  <2>2. \A i \in 1 .. Len(adj), s \in Seq(Edge) : Append(s, adj[i]) \in Seq(Edge)
    BY <2>1
  <2> QED
    BY <2>2
<1>3. PICK n \in Nat, b \in Seq(Edge) : n = Len(adj) /\ b = <<>>
  <2>1. Len(adj) \in Nat /\ <<>> \in Seq(Edge)
    OBVIOUS
  <2> QED
    BY <2>1
<1>4. PICK f \in [0 .. n -> Seq(Edge)] : Steps(f, F, b, n)
  <2> HIDE DEF F
  <2>1. \A k \in 1 .. n, s \in Seq(Edge) : F[k][s] \in Seq(Edge)
    BY <1>2, <1>3
  <2> QED
    BY <2>1, Stepped
<1>5. ASSUME NEW i \in 1 .. n
      PROVE  f[i] = IF adj[i][1] = x THEN f[i - 1] ELSE Append(f[i - 1], adj[i])
  <2>1. f[i - 1] \in Seq(Edge)
    <3>1. i - 1 \in 0 .. n
      OBVIOUS
    <3> QED
      BY <3>1
  <2>2. f[i] = F[i][f[i - 1]]
    BY <1>4 DEF Steps
  <2> QED
    BY <1>3, <2>1, <2>2
<1>6. f = step(f)
  <2>1. \A i \in 0 .. n : f[i] = step(f)[i]
    <3>1. ASSUME NEW i \in 0 .. n PROVE f[i] = step(f)[i]
      <4>1. CASE i = 0
        BY <1>3, <1>4, <4>1 DEF Steps
      <4>2. CASE i # 0
        <5>1. i \in 1 .. n /\ i \in 0 .. Len(adj)
          BY <1>3, <4>2
        <5>2. step(f)[i] = IF adj[i][1] = x THEN f[i - 1] ELSE Append(f[i - 1], adj[i])
          BY <4>2, <5>1
        <5>3. f[i] = IF adj[i][1] = x THEN f[i - 1] ELSE Append(f[i - 1], adj[i])
          BY <1>5, <5>1
        <5> QED
          BY <5>2, <5>3, Zenon
      <4> QED
        BY <4>1, <4>2
    <3> QED
      BY <3>1
  <2>2. step(f) = [i \in 0 .. n |-> step(f)[i]]
    BY <1>3
  <2>3. f = [i \in 0 .. n |-> f[i]]
    OBVIOUS
  <2> QED
    BY <2>1, <2>2, <2>3
<1>7. kept = step(kept)
  BY <1>6
<1> HIDE DEF kept, F
<1>8. /\ kept[0] = <<>>
      /\ \A i \in 1 .. n :
           kept[i] = IF adj[i][1] = x THEN kept[i - 1] ELSE Append(kept[i - 1], adj[i])
  <2>1. \A i \in 0 .. n :
          kept[i] = IF i = 0 THEN <<>>
                    ELSE IF adj[i][1] = x THEN kept[i - 1] ELSE Append(kept[i - 1], adj[i])
    BY <1>3, <1>7
  <2> QED
    BY <2>1
<1>9. \A i \in 0 .. n : kept[i] \in Seq(Edge)
  <2> DEFINE G == {i \in 0 .. n : kept[i] \in Seq(Edge)}
  <2>1. 0 \in G
    <3>1. kept[0] = b /\ 0 \in 0 .. n
      BY <1>3, <1>8
    <3>2. kept[0] \in Seq(Edge)
      BY <3>1
    <3> QED
      BY <3>1, <3>2
  <2>2. ASSUME NEW i \in 1 .. n, i - 1 \in G PROVE i \in G
    <3>1. adj[i] \in Edge /\ kept[i - 1] \in Seq(Edge)
      BY <1>3, <2>2
    <3>2. Append(kept[i - 1], adj[i]) \in Seq(Edge)
      BY <3>1
    <3>3. kept[i] = IF adj[i][1] = x THEN kept[i - 1] ELSE Append(kept[i - 1], adj[i])
      BY <1>8
    <3>4. kept[i] \in Seq(Edge)
      BY <3>1, <3>2, <3>3, Zenon
    <3> QED
      BY <3>4
  <2> HIDE DEF G
  <2>3. \A i \in 0 .. n : i \in G
    BY <2>1, <2>2, UpTo
  <2> QED
    BY <2>3 DEF G
<1>10. kept \in [0 .. n -> Seq(Edge)]
  <2>1. kept = [i \in 0 .. n |-> kept[i]]
    BY <1>3, <1>7
  <2> QED
    BY <1>9, <2>1
<1> QED
  BY <1>1, <1>3, <1>8, <1>10 DEF Leaves

Dropped(h, x) == [e \in Edge |-> IF e[1] = x THEN 0 ELSE h[e]]

LEMMA WithoutTally ==
    ASSUME NEW adj \in Seq(Edge), NEW x
    PROVE  /\ Cut!Without(adj, x) \in Seq(Edge)
           /\ \A h \in Counted : Tally(Cut!Without(adj, x), h) = Tally(adj, Dropped(h, x))
<1>1. PICK kept \in [0 .. Len(adj) -> Seq(Edge)] :
        Leaves(kept, adj, x) /\ Cut!Without(adj, x) = kept[Len(adj)]
  BY WithoutIs
<1>2. PICK n \in Nat : n = Len(adj)
  OBVIOUS
<1>3. kept[n] \in Seq(Edge)
  BY <1>2
<1>4. ASSUME NEW h \in Counted
      PROVE  Tally(kept[n], h) = Tally(adj, Dropped(h, x))
  <2>1. Dropped(h, x) \in Counted
    BY DEF Dropped, Counted
  <2>2. PICK f \in [0 .. Len(adj) -> Nat] :
          Along(f, adj, Dropped(h, x)) /\ Tally(adj, Dropped(h, x)) = f[Len(adj)]
    BY <2>1, Tallied
  <2> DEFINE G == {i \in 0 .. n : Tally(kept[i], h) = f[i]}
  <2>3. 0 \in G
    BY <1>1, <2>2, TallyEmpty DEF Leaves, Along
  <2>4. ASSUME NEW i \in 1 .. n, i - 1 \in G PROVE i \in G
    <3>1. PICK e \in Edge : e = adj[i]
      BY <1>2
    <3>2. PICK s \in Seq(Edge) : s = kept[i - 1]
      BY <1>2
    <3>3. f[i] = f[i - 1] + IF e[1] = x THEN 0 ELSE h[e]
      BY <1>2, <2>2, <3>1 DEF Along, Dropped
    <3>4. kept[i] = IF e[1] = x THEN s ELSE Append(s, e)
      BY <1>1, <1>2, <3>1, <3>2 DEF Leaves
    <3>5. Tally(s, h) = f[i - 1] /\ f[i - 1] \in Nat
      BY <1>2, <2>4, <3>2
    <3>6. Tally(Append(s, e), h) = Tally(s, h) + h[e]
      <4>1. Append(s, e) = s \o <<e>> /\ <<e>> \in Seq(Edge)
        OBVIOUS
      <4> QED
        BY <4>1, TallyJoined, TallyOne
    <3>7. Tally(kept[i], h) = f[i]
      <4>1. CASE e[1] = x
        BY <3>3, <3>4, <3>5, <4>1
      <4>2. CASE e[1] # x
        BY <3>3, <3>4, <3>5, <3>6, <4>2
      <4> QED
        BY <4>1, <4>2
    <3> QED
      BY <3>7
  <2>5. n \in G
    <3> HIDE DEF G
    <3>1. \A i \in 0 .. n : i \in G
      BY <2>3, <2>4, UpTo
    <3> QED
      BY <3>1
  <2> QED
    BY <1>2, <2>2, <2>5
<1> QED
  BY <1>1, <1>2, <1>3, <1>4

(***************************************************************************)
(* Removing and redirecting edges                                            *)
(***************************************************************************)

\* remove_all() leaves no edge to x, and every other one.
LEMMA WithoutCounts ==
    ASSUME NEW adj \in Seq(Edge), NEW x, NEW b, b = Cut!Without(adj, x)
    PROVE  /\ b \in Seq(Edge)
           /\ \A v, c : c \in Costs =>
                Tally(b, To(v, c)) = IF v = x THEN 0 ELSE Tally(adj, To(v, c))
           /\ Len(adj) = Len(b) + Tally(adj, To(x, One))
<1>1. b \in Seq(Edge)
  BY WithoutTally
<1>2. ASSUME NEW h \in Counted
      PROVE  Tally(b, h) = Tally(adj, Dropped(h, x)) /\ Dropped(h, x) \in Counted
  BY WithoutTally DEF Dropped, Counted
<1>3. ASSUME NEW v, NEW c \in Costs
      PROVE  Tally(b, To(v, c)) = IF v = x THEN 0 ELSE Tally(adj, To(v, c))
  <2>1. PICK h \in Counted : h = To(v, c)
    BY CostTypes
  <2>2. /\ Tally(b, h) = Tally(adj, Dropped(h, x)) /\ Dropped(h, x) \in Counted
        /\ \A k \in 1 .. Len(adj) : adj[k] \in Edge
    BY <1>2
  <2>3. CASE v = x
    <3>1. \A e \in Edge : Dropped(h, x)[e] = 0
      BY <2>1, <2>3 DEF Dropped, To
    <3>2. Tally(adj, Dropped(h, x)) = 0
      BY <2>2, <3>1, TallyBounds
    <3> QED
      BY <2>1, <2>2, <2>3, <3>2
  <2>4. CASE v # x
    <3>1. \A e \in Edge : Dropped(h, x)[e] = h[e]
      BY <2>1, <2>4 DEF Dropped, To
    <3>2. Tally(adj, Dropped(h, x)) = Tally(adj, h)
      BY <2>2, <3>1, TallySame
    <3> QED
      BY <2>1, <2>2, <2>4, <3>2
  <2> QED
    BY <2>3, <2>4
<1>4. Len(adj) = Len(b) + Tally(adj, To(x, One))
  <2>1. PICK h \in Counted : h = To(x, One)
    BY CostTypes
  <2>2. PICK all \in Counted : \A e \in Edge : all[e] = 1
    <3>1. [e \in Edge |-> 1] \in Counted
      BY DEF Counted
    <3> QED
      BY <3>1
  <2>3. \A e \in Edge : all[e] = Dropped(all, x)[e] + h[e]
    <3>1. \A e \in Edge : e[2] \in Weights
      BY DEF Edge
    <3> QED
      BY <2>1, <2>2, <3>1 DEF Dropped, To, One
  <2>4. Tally(adj, all) = Tally(adj, Dropped(all, x)) + Tally(adj, h)
    BY <1>2, <2>3, TallyAdd
  <2>5. Tally(b, all) = Tally(adj, Dropped(all, x))
    BY <1>2
  <2>6. Tally(adj, all) = Len(adj) /\ Tally(b, all) = Len(b)
    BY <1>1, <2>2, TallyLength
  <2> QED
    BY <2>1, <2>4, <2>5, <2>6
<1> QED
  BY <1>1, <1>3, <1>4

\* An adjacency list in which the edges to `to' lead to `from'.
Redirected(adj, from, to) ==
    [i \in DOMAIN adj |-> IF adj[i][1] = to THEN <<from, adj[i][2]>> ELSE adj[i]]

Redirects(b, adj, from, to) ==
    /\ b \in Seq(Edge) /\ Len(b) = Len(adj)
    /\ \A v, c : c \in Costs =>
         Tally(b, To(v, c)) = CASE v = from -> Tally(adj, To(from, c)) + Tally(adj, To(to, c))
                                [] v = to -> 0
                                [] OTHER -> Tally(adj, To(v, c))

LEMMA RedirectedCounts ==
    ASSUME NEW adj \in Seq(Edge), NEW from \in Vertices, NEW to \in Vertices, from # to,
           NEW b, b = Redirected(adj, from, to)
    PROVE  Redirects(b, adj, from, to)
<1>1. \A i \in 1 .. Len(adj) : adj[i] \in Edge /\ adj[i][1] \in Vertices /\ adj[i][2] \in Weights
  <2>1. \A i \in 1 .. Len(adj) : adj[i] \in Edge
    OBVIOUS
  <2> QED
    BY <2>1 DEF Edge
<1>2. \A i \in 1 .. Len(adj) :
         b[i] = IF adj[i][1] = to THEN <<from, adj[i][2]>> ELSE adj[i]
  <2>1. DOMAIN adj = 1 .. Len(adj)
    OBVIOUS
  <2> QED
    BY <2>1 DEF Redirected
<1>3. \A i \in 1 .. Len(adj) : /\ b[i] \in Edge /\ b[i][2] = adj[i][2]
                              /\ b[i][1] = IF adj[i][1] = to THEN from ELSE adj[i][1]
  <2>1. ASSUME NEW i \in 1 .. Len(adj)
        PROVE  /\ b[i] \in Edge /\ b[i][2] = adj[i][2]
               /\ b[i][1] = IF adj[i][1] = to THEN from ELSE adj[i][1]
    <3>1. CASE adj[i][1] = to
      <4>1. b[i] = <<from, adj[i][2]>> /\ adj[i][2] \in Weights
        BY <1>1, <1>2, <3>1
      <4> QED
        BY <3>1, <4>1 DEF Edge
    <3>2. CASE adj[i][1] # to
      <4>1. b[i] = adj[i] /\ adj[i] \in Edge
        BY <1>1, <1>2, <3>2
      <4> QED
        BY <3>2, <4>1
    <3> QED
      BY <3>1, <3>2
  <2> QED
    BY <2>1
<1>4. b \in Seq(Edge) /\ Len(b) = Len(adj)
  <2>1. b = [i \in 1 .. Len(adj) |-> b[i]]
    BY DEF Redirected
  <2>2. Len(adj) \in Nat
    OBVIOUS
  <2> QED
    BY <1>3, <2>1, <2>2
<1>5. ASSUME NEW v, NEW c \in Costs
      PROVE  Tally(b, To(v, c)) = CASE v = from -> Tally(adj, To(from, c)) + Tally(adj, To(to, c))
                                    [] v = to -> 0
                                    [] OTHER -> Tally(adj, To(v, c))
  <2>1. To(v, c) \in Counted /\ To(from, c) \in Counted /\ To(to, c) \in Counted
    BY CostTypes
  <2>2. \A i \in 1 .. Len(adj) : To(v, c)[b[i]] = IF b[i][1] = v THEN c[adj[i][2]] ELSE 0
    BY <1>3 DEF To
  <2>3. \A i \in 1 .. Len(adj) : \A u :
           To(u, c)[adj[i]] = IF adj[i][1] = u THEN c[adj[i][2]] ELSE 0
    BY <1>1 DEF To
  <2>4. CASE v = from
    <3> DEFINE s == [e \in Edge |-> To(from, c)[e] + To(to, c)[e]]
    <3>1. s \in Counted /\ \A e \in Edge : s[e] = To(from, c)[e] + To(to, c)[e]
      BY <2>1 DEF Counted
    <3> HIDE DEF s
    <3>2. ASSUME NEW i \in 1 .. Len(adj) PROVE s[adj[i]] = To(v, c)[b[i]]
      <4>1. /\ To(v, c)[b[i]] = IF b[i][1] = from THEN c[adj[i][2]] ELSE 0
            /\ To(from, c)[adj[i]] = IF adj[i][1] = from THEN c[adj[i][2]] ELSE 0
            /\ To(to, c)[adj[i]] = IF adj[i][1] = to THEN c[adj[i][2]] ELSE 0
            /\ s[adj[i]] = To(from, c)[adj[i]] + To(to, c)[adj[i]]
        BY <1>1, <2>2, <2>3, <2>4, <3>1
      <4>2. c[adj[i][2]] \in Nat
        BY <1>1 DEF Costs
      <4>3. b[i][1] = from <=> adj[i][1] = from \/ adj[i][1] = to
        BY <1>3
      <4> QED
        BY <4>1, <4>2, <4>3
    <3>3. Tally(adj, s) = Tally(b, To(v, c))
      BY <1>4, <2>1, <3>1, <3>2, TallySame
    <3>4. Tally(adj, s) = Tally(adj, To(from, c)) + Tally(adj, To(to, c))
      BY <2>1, <3>1, TallyAdd
    <3> QED
      BY <2>4, <3>3, <3>4
  <2>5. CASE v = to
    <3>1. \A i \in 1 .. Len(b) : To(v, c)[b[i]] = 0
      BY <1>3, <1>4, <2>2, <2>5
    <3>2. Tally(b, To(v, c)) = 0
      BY <1>4, <2>1, <3>1, TallyBounds
    <3> QED
      BY <2>5, <3>2
  <2>6. CASE v # from /\ v # to
    <3>1. \A i \in 1 .. Len(adj) : To(v, c)[adj[i]] = To(v, c)[b[i]]
      BY <1>3, <2>2, <2>3, <2>6
    <3>2. Tally(adj, To(v, c)) = Tally(b, To(v, c))
      BY <1>4, <2>1, <3>1, TallySame
    <3> QED
      BY <2>6, <3>2
  <2> QED
    BY <2>4, <2>5, <2>6
<1> QED
  BY <1>4, <1>5 DEF Redirects

\* Edges to v there are if, and only if, they are counted.
LEMMA NoneCounted ==
    ASSUME NEW adj \in Seq(Edge), NEW v
    PROVE  /\ (\A i \in 1 .. Len(adj) : adj[i][1] # v) =>
                \A c \in Costs : Tally(adj, To(v, c)) = 0
           /\ Tally(adj, To(v, One)) = 0 => \A i \in 1 .. Len(adj) : adj[i][1] # v
<1>1. \A i \in 1 .. Len(adj) : adj[i] \in Edge /\ adj[i][2] \in Weights
  <2>1. \A i \in 1 .. Len(adj) : adj[i] \in Edge
    OBVIOUS
  <2> QED
    BY <2>1 DEF Edge
<1>2. ASSUME \A i \in 1 .. Len(adj) : adj[i][1] # v, NEW c \in Costs
      PROVE  Tally(adj, To(v, c)) = 0
  <2>1. \A i \in 1 .. Len(adj) : To(v, c)[adj[i]] = 0
    BY <1>1, <1>2 DEF To
  <2> QED
    BY <2>1, CostTypes, TallyBounds
<1>3. ASSUME Tally(adj, To(v, One)) = 0, NEW i \in 1 .. Len(adj), adj[i][1] = v
      PROVE  FALSE
  <2>1. To(v, One)[adj[i]] = 1
    BY <1>1, <1>3 DEF To, One
  <2>2. To(v, One)[adj[i]] <= Tally(adj, To(v, One))
    BY CostTypes, TallyBounds
  <2> QED
    BY <1>3, <2>1, <2>2
<1> QED
  BY <1>2, <1>3

LEMMA WeightCounts ==
    ASSUME NEW adj \in Seq(Edge), NEW v
    PROVE  /\ Cut!WeightTo(adj, {v}) = Tally(adj, To(v, Own))
           /\ (\A i \in 1 .. Len(adj) : adj[i][1] = v) =>
                Cut!WeightTo(adj, Vertices) = Tally(adj, To(v, Own))
<1>1. \A i \in 1 .. Len(adj) : adj[i] \in Edge /\ adj[i][1] \in Vertices /\ adj[i][2] \in Weights
  <2>1. \A i \in 1 .. Len(adj) : adj[i] \in Edge
    OBVIOUS
  <2> QED
    BY <2>1 DEF Edge
<1>2. Weigh({v}) \in Counted /\ Weigh(Vertices) \in Counted /\ To(v, Own) \in Counted
  BY CostTypes
<1>3. \A i \in 1 .. Len(adj) : Weigh({v})[adj[i]] = To(v, Own)[adj[i]]
  BY <1>1 DEF Weigh, To, Own
<1>4. ASSUME \A i \in 1 .. Len(adj) : adj[i][1] = v
      PROVE  Tally(adj, Weigh(Vertices)) = Tally(adj, To(v, Own))
  <2>1. \A i \in 1 .. Len(adj) : Weigh(Vertices)[adj[i]] = To(v, Own)[adj[i]]
    BY <1>1, <1>4 DEF Weigh, To, Own
  <2> QED
    BY <1>2, <2>1, TallySame
<1>5. Tally(adj, Weigh({v})) = Tally(adj, To(v, Own))
  BY <1>2, <1>3, TallySame
<1> QED
  BY <1>4, <1>5, WeightIs

(***************************************************************************)
(* Sums over finite sets                                                     *)
(***************************************************************************)

\* What holds of no element, and of elements if it holds without any one of them,
\* holds of all, with a set G of sets in the place of a predicate.
LEMMA FiniteUpTo ==
    ASSUME NEW S, IsFiniteSet(S), NEW G, {} \in G,
           \A T \in SUBSET S : T # {} /\ (\A x \in T : T \ {x} \in G) => T \in G
    PROVE  \A T \in SUBSET S : T \in G
<1> DEFINE Bad == {n \in Nat : \E T \in SUBSET S : T \notin G /\ Cardinality(T) = n}
<1>1. ASSUME NEW T \in SUBSET S
      PROVE  IsFiniteSet(T) /\ Cardinality(T) \in Nat
  BY FS_Subset, FS_CardinalityType
<1>2. SUFFICES ASSUME Bad # {} PROVE FALSE
  BY <1>1
<1> HIDE DEF Bad
<1>3. PICK n \in Bad : \A y \in Bad : n <= y
  <2>1. Bad \in SUBSET Nat
    BY DEF Bad
  <2> QED
    BY <1>2, <2>1, Least
<1>4. PICK T \in SUBSET S : T \notin G /\ Cardinality(T) = n
  BY <1>3 DEF Bad
<1>5. PICK x \in T : T \ {x} \notin G
  BY <1>4
<1>6. Cardinality(T \ {x}) = n - 1 /\ T \ {x} \in SUBSET S
  BY <1>1, <1>4, FS_RemoveElement
<1>7. Cardinality(T \ {x}) \in Nat /\ n \in Nat
  BY <1>1, <1>4, <1>6
<1>8. n - 1 \in Bad
  BY <1>5, <1>6, <1>7 DEF Bad
<1> QED
  BY <1>3, <1>7, <1>8

\* A sum over a set is the number of these places, which have no order.
Places(w, S) == {p \in S \X Nat : p[2] \in 1 .. w[p[1]]}
Summable(w, S) == IsFiniteSet(S) /\ \A x \in S : w[x] \in Nat

LEMMA PlacesSplit ==
    ASSUME NEW w, NEW S, Summable(w, S)
    PROVE  /\ IsFiniteSet(Places(w, S)) /\ Cardinality(Places(w, S)) \in Nat
           /\ S = {} => Cardinality(Places(w, S)) = 0
           /\ \A x \in S : Cardinality(Places(w, S)) = w[x] + Cardinality(Places(w, S \ {x}))
<1> USE DEF Summable
<1> DEFINE own(x) == {x} \X (1 .. w[x])
<1>1. ASSUME NEW x \in S
      PROVE  IsFiniteSet(own(x)) /\ Cardinality(own(x)) = w[x]
  <2>1. IsFiniteSet(1 .. w[x]) /\ Cardinality(1 .. w[x]) = w[x]
    <3>1. PICK n \in Nat : n = w[x]
      OBVIOUS
    <3>2. IsFiniteSet(1 .. n) /\ Cardinality(1 .. n) = n
      BY FS_Interval
    <3> QED
      BY <3>1, <3>2
  <2>2. IsFiniteSet({x}) /\ Cardinality({x}) = 1
    BY FS_Singleton
  <2>3. Cardinality(own(x)) = 1 * w[x] /\ IsFiniteSet(own(x))
    <3>1. PICK A, B : A = {x} /\ B = 1 .. w[x]
      OBVIOUS
    <3>2. Cardinality(A \X B) = Cardinality(A) * Cardinality(B) /\ IsFiniteSet(A \X B)
      BY <2>1, <2>2, <3>1, FS_Product
    <3> QED
      BY <2>1, <2>2, <3>1, <3>2
  <2> QED
    BY <2>3
<1>2. ASSUME NEW T \in SUBSET S, NEW x \in T
      PROVE  /\ Places(w, T) = own(x) \cup Places(w, T \ {x})
             /\ own(x) \cap Places(w, T \ {x}) = {}
  BY DEF Places
<1> HIDE DEF own
<1> DEFINE G == {T \in SUBSET S : IsFiniteSet(Places(w, T))}
<1>3. {} \in G
  <2>1. Places(w, {}) = {}
    BY DEF Places
  <2> QED
    BY <2>1, FS_EmptySet
<1>4. ASSUME NEW T \in SUBSET S, T # {}, \A x \in T : T \ {x} \in G
      PROVE  T \in G
  <2>1. PICK x \in T : TRUE
    BY <1>4
  <2>2. IsFiniteSet(own(x)) /\ IsFiniteSet(Places(w, T \ {x}))
    BY <1>1, <1>4, <2>1
  <2>3. IsFiniteSet(own(x) \cup Places(w, T \ {x}))
    BY <2>2, FS_Union
  <2> QED
    BY <1>2, <2>3
<1>5. \A T \in SUBSET S : IsFiniteSet(Places(w, T)) /\ Cardinality(Places(w, T)) \in Nat
  <2>1. \A T \in SUBSET S : T \in G
    <3> HIDE DEF G
    <3> QED
      BY <1>3, <1>4, FiniteUpTo
  <2> QED
    BY <2>1, FS_CardinalityType
<1>6. S = {} => Cardinality(Places(w, S)) = 0
  BY FS_EmptySet DEF Places
<1>7. ASSUME NEW x \in S
      PROVE  Cardinality(Places(w, S)) = w[x] + Cardinality(Places(w, S \ {x}))
  <2>1. Cardinality(own(x) \cap Places(w, S \ {x})) = 0
    BY <1>2, FS_EmptySet
  <2>2. PICK A, B : A = own(x) /\ B = Places(w, S \ {x})
    OBVIOUS
  <2>3. /\ IsFiniteSet(A) /\ IsFiniteSet(B) /\ Cardinality(A \cap B) = 0
        /\ Cardinality(A) = w[x] /\ Cardinality(B) \in Nat /\ w[x] \in Nat
    BY <1>1, <1>5, <2>1, <2>2
  <2>4. Cardinality(A \cup B) = Cardinality(A) + Cardinality(B) - Cardinality(A \cap B)
    BY <2>3, FS_Union
  <2>5. Cardinality(A \cup B) = w[x] + Cardinality(B)
    BY <2>3, <2>4
  <2> QED
    BY <1>2, <2>2, <2>5
<1> QED
  BY <1>5, <1>6, <1>7

LEMMA SumIsPlaces ==
    ASSUME NEW w, NEW S, Summable(w, S)
    PROVE  Cut!SumOver(w, S) = Cardinality(Places(w, S))
<1> DEFINE step(f) == [T \in SUBSET S |->
                          IF T = {} THEN 0
                          ELSE LET x == CHOOSE x \in T : TRUE IN w[x] + f[T \ {x}]]
           sum == CHOOSE f : f = step(f)
           g == [T \in SUBSET S |-> Cardinality(Places(w, T))]
<1>1. Cut!SumOver(w, S) = sum[S]
  BY DEF Cut!SumOver, Cut!MapThenSumSet, Cut!MapThenFoldSet
<1>2. \A T \in SUBSET S : Summable(w, T)
  BY FS_Subset DEF Summable
<1>3. g = step(g)
  <2>1. ASSUME NEW T \in SUBSET S
        PROVE  g[T] = step(g)[T]
    <3>1. CASE T = {}
      BY <1>2, <3>1, PlacesSplit
    <3>2. CASE T # {}
      <4> DEFINE x == CHOOSE x \in T : TRUE
      <4>1. x \in T
        BY <3>2
      <4> HIDE DEF x
      <4>2. g[T] = w[x] + g[T \ {x}]
        BY <1>2, <4>1, PlacesSplit
      <4>3. step(g)[T] = w[x] + g[T \ {x}]
        BY <3>2 DEF x
      <4> QED
        BY <4>2, <4>3
    <3> QED
      BY <3>1, <3>2
  <2> QED
    BY <2>1
<1>4. sum = step(sum)
  BY <1>3
<1> HIDE DEF sum
<1> DEFINE G == {T \in SUBSET S : sum[T] = Cardinality(Places(w, T))}
<1>5. {} \in G
  <2>1. sum[{}] = 0
    BY <1>4
  <2> QED
    BY <1>2, <2>1, PlacesSplit
<1>6. ASSUME NEW T \in SUBSET S, T # {}, \A x \in T : T \ {x} \in G
      PROVE  T \in G
  <2> DEFINE x == CHOOSE x \in T : TRUE
  <2>1. x \in T
    BY <1>6
  <2>2. sum[T] = w[x] + sum[T \ {x}]
    <3>1. sum[T] = step(sum)[T]
      BY <1>4
    <3> QED
      BY <3>1, <1>6
  <2> HIDE DEF x
  <2>3. sum[T \ {x}] = Cardinality(Places(w, T \ {x}))
    BY <1>6, <2>1
  <2> QED
    BY <1>2, <2>1, <2>2, <2>3, PlacesSplit
<1>7. S \in G
  <2> HIDE DEF G
  <2>1. \A T \in SUBSET S : T \in G
    <3>1. IsFiniteSet(S)
      BY DEF Summable
    <3> QED
      BY <1>5, <1>6, <3>1, FiniteUpTo
  <2> QED
    BY <2>1
<1> QED
  BY <1>1, <1>7

LEMMA SumFacts ==
    ASSUME NEW w, NEW S, Summable(w, S)
    PROVE  /\ Cut!SumOver(w, S) \in Nat
           /\ S = {} => Cut!SumOver(w, S) = 0
           /\ \A x \in S : Cut!SumOver(w, S) = w[x] + Cut!SumOver(w, S \ {x})
<1>1. \A T \in SUBSET S : Summable(w, T)
  BY FS_Subset DEF Summable
<1>2. \A T \in SUBSET S : Cut!SumOver(w, T) = Cardinality(Places(w, T))
  BY <1>1, SumIsPlaces
<1> QED
  BY <1>2, PlacesSplit

\* Sums agree where the terms do, add up over disjoint sets, and are no less than
\* one of their terms.
LEMMA SumSame ==
    ASSUME NEW w, NEW v, NEW S, Summable(w, S), \A x \in S : w[x] = v[x]
    PROVE  Cut!SumOver(w, S) = Cut!SumOver(v, S)
<1>1. Summable(v, S)
  BY DEF Summable
<1>2. Places(w, S) = Places(v, S)
  BY DEF Places
<1> QED
  BY <1>1, <1>2, SumIsPlaces

LEMMA SumUnion ==
    ASSUME NEW w, NEW S, NEW T, Summable(w, S), Summable(w, T), S \cap T = {}
    PROVE  Cut!SumOver(w, S \cup T) = Cut!SumOver(w, S) + Cut!SumOver(w, T)
<1>1. Summable(w, S \cup T)
  BY FS_Union DEF Summable
<1>2. PICK A, B : A = Places(w, S) /\ B = Places(w, T)
  OBVIOUS
<1>3. Places(w, S \cup T) = A \cup B /\ A \cap B = {}
  BY <1>2 DEF Places
<1>4. /\ IsFiniteSet(A) /\ Cardinality(A) \in Nat
      /\ IsFiniteSet(B) /\ Cardinality(B) \in Nat
  BY <1>2, PlacesSplit
<1>5. Cardinality(A \cap B) = 0
  BY <1>3, FS_EmptySet
<1>6. Cardinality(A \cup B) = Cardinality(A) + Cardinality(B)
  <2>1. Cardinality(A \cup B) = Cardinality(A) + Cardinality(B) - Cardinality(A \cap B)
    BY <1>4, FS_Union
  <2> QED
    BY <1>4, <1>5, <2>1
<1> QED
  BY <1>1, <1>2, <1>3, <1>6, SumIsPlaces

LEMMA SumBounds ==
    ASSUME NEW w, NEW S, Summable(w, S), NEW x \in S
    PROVE  w[x] <= Cut!SumOver(w, S) /\ Cut!SumOver(w, {x}) = w[x]
<1>1. Summable(w, S \ {x}) /\ Summable(w, {x})
  BY FS_Subset, FS_Singleton DEF Summable
<1>2. /\ Cut!SumOver(w, S) = w[x] + Cut!SumOver(w, S \ {x}) /\ Cut!SumOver(w, S \ {x}) \in Nat
      /\ w[x] \in Nat
  BY <1>1, SumFacts DEF Summable
<1>3. Cut!SumOver(w, {x}) = w[x] + Cut!SumOver(w, {x} \ {x}) /\ {x} \ {x} = {}
  BY <1>1, SumFacts
<1>4. Cut!SumOver(w, {}) = 0
  <2>1. Summable(w, {})
    BY FS_EmptySet DEF Summable
  <2> QED
    BY <2>1, SumFacts
<1> QED
  BY <1>2, <1>3, <1>4

LEMMA SumZero ==
    ASSUME NEW w, NEW S, IsFiniteSet(S), \A x \in S : w[x] = 0
    PROVE  Cut!SumOver(w, S) = 0
<1>1. Summable(w, S)
  BY DEF Summable
<1>2. Places(w, S) = {}
  BY DEF Places
<1> QED
  BY <1>1, <1>2, SumIsPlaces, FS_EmptySet

\* Two terms change.
LEMMA SumChange ==
    ASSUME NEW w, NEW v, NEW S, Summable(w, S), Summable(v, S),
           NEW a \in S, NEW b \in S, a # b, \A x \in S \ {a, b} : w[x] = v[x]
    PROVE  Cut!SumOver(w, S) + v[a] + v[b] = Cut!SumOver(v, S) + w[a] + w[b]
<1> DEFINE R == (S \ {a}) \ {b}
<1>1. \A T \in SUBSET S : Summable(w, T) /\ Summable(v, T)
  BY FS_Subset DEF Summable
<1>2. b \in S \ {a}
  OBVIOUS
<1>3. /\ Cut!SumOver(w, S) = w[a] + Cut!SumOver(w, S \ {a})
      /\ Cut!SumOver(v, S) = v[a] + Cut!SumOver(v, S \ {a})
  BY SumFacts
<1>4. /\ Cut!SumOver(w, S \ {a}) = w[b] + Cut!SumOver(w, R)
      /\ Cut!SumOver(v, S \ {a}) = v[b] + Cut!SumOver(v, R)
  BY <1>1, <1>2, SumFacts
<1>5. Cut!SumOver(w, R) = Cut!SumOver(v, R) /\ Cut!SumOver(w, R) \in Nat
  BY <1>1, SumSame, SumFacts
<1>6. w[a] \in Nat /\ w[b] \in Nat /\ v[a] \in Nat /\ v[b] \in Nat
  BY DEF Summable
<1> HIDE DEF R
<1> QED
  BY <1>3, <1>4, <1>5, <1>6

LEMMA CutCardinality == ASSUME NEW S PROVE Cut!Cardinality(S) = Cardinality(S)
BY Zenon DEF Cardinality, Cut!Cardinality

LEMMA VerticesFinite ==
    /\ IsFiniteSet(Vertices) /\ Cardinality(Vertices) >= 2
    /\ \A D \in SUBSET Vertices : IsFiniteSet(D) /\ Cardinality(D) \in Nat
    /\ Cut!Pairs \in SUBSET (Vertices \X Vertices) /\ IsFiniteSet(Cut!Pairs)
<1>1. IsFiniteSet(Vertices) /\ Cardinality(Vertices) >= 2
  <2>1. Cut!IsFiniteSet(Vertices) /\ Cut!Cardinality(Vertices) >= 2
    BY PlainAssumption DEF Cut!VertexAssumption
  <2> QED
    BY <2>1, CutCardinality DEF IsFiniteSet, Cut!IsFiniteSet
<1>2. \A D \in SUBSET Vertices : IsFiniteSet(D) /\ Cardinality(D) \in Nat
  BY <1>1, FS_Subset, FS_CardinalityType
<1>3. Cut!Pairs \in SUBSET (Vertices \X Vertices)
  BY DEF Cut!Pairs
<1>4. IsFiniteSet(Vertices \X Vertices)
  BY <1>1, FS_Product
<1> QED
  BY <1>1, <1>2, <1>3, <1>4, FS_Subset

(***************************************************************************)
(* Graphs: what leads from x to y, and how long the list of x is             *)
(***************************************************************************)
Has(E, x, y, c) == IF x \in DOMAIN E THEN Tally(E[x], To(y, c)) ELSE 0
Lengths(E) == [x \in Vertices |-> IF x \in DOMAIN E THEN Len(E[x]) ELSE 0]

EdgeLists(E) == DOMAIN E \subseteq Vertices /\ E = [x \in DOMAIN E |-> E[x]]
                /\ \A x \in DOMAIN E : E[x] \in Seq(Edge)

\* Each edge is in two lists, and there are no loops.
Paired(E) == /\ EdgeLists(E)
             /\ \A x, y \in Vertices : Has(E, x, y, One) = Has(E, y, x, One)
             /\ \A x \in Vertices : Has(E, x, x, One) = 0

LEMMA HasType ==
    ASSUME NEW E, EdgeLists(E)
    PROVE  /\ \A x, y, c : c \in Costs => Has(E, x, y, c) \in Nat
           /\ Summable(Lengths(E), Vertices)
           /\ \A x, y, c : c \in Costs /\ Has(E, x, y, One) = 0 => Has(E, x, y, c) = 0
<1>1. ASSUME NEW x, NEW y, NEW c \in Costs PROVE Has(E, x, y, c) \in Nat
  <2>1. To(y, c) \in Counted
    BY CostTypes
  <2> QED
    BY <2>1, TallyType DEF Has, EdgeLists
<1>2. Summable(Lengths(E), Vertices)
  <2>1. ASSUME NEW x \in Vertices PROVE Lengths(E)[x] \in Nat
    <3>1. x \in DOMAIN E => Len(E[x]) \in Nat
      <4> HAVE x \in DOMAIN E
      <4>1. E[x] \in Seq(Edge)
        BY DEF EdgeLists
      <4> QED
        BY <4>1
    <3> QED
      BY <3>1 DEF Lengths
  <2> QED
    BY <2>1, VerticesFinite DEF Summable
<1>3. ASSUME NEW x, NEW y, NEW c \in Costs, Has(E, x, y, One) = 0 PROVE Has(E, x, y, c) = 0
  <2>1. CASE x \in DOMAIN E
    <3>1. E[x] \in Seq(Edge) /\ Tally(E[x], To(y, One)) = 0
      BY <1>3, <2>1 DEF EdgeLists, Has
    <3>2. Tally(E[x], To(y, c)) = 0
      BY <3>1, NoneCounted
    <3> QED
      BY <2>1, <3>2 DEF Has
  <2>2. CASE x \notin DOMAIN E
    BY <2>2 DEF Has
  <2> QED
    BY <2>1, <2>2
<1> QED
  BY <1>1, <1>2, <1>3

\* Half an edge more, from u to v.
Grown(E, u, v, c) ==
    [x \in DOMAIN E \cup {u} |-> (IF x \in DOMAIN E THEN E[x] ELSE <<>>)
                                 \o (IF x = u THEN <<<<v, c>>>> ELSE <<>>)]

Grows(F, E, u, v, c) ==
    /\ EdgeLists(F) /\ DOMAIN F = DOMAIN E \cup {u}
    /\ \A x, y, k : k \in Costs =>
         Has(F, x, y, k) = Has(E, x, y, k) + IF x = u /\ y = v THEN k[c] ELSE 0
    /\ \A x \in Vertices : Lengths(F)[x] = Lengths(E)[x] + IF x = u THEN 1 ELSE 0

LEMMA GrownCounts ==
    ASSUME NEW E, EdgeLists(E), NEW u \in Vertices, NEW v \in Vertices, NEW c \in Weights
    PROVE  Grows(Grown(E, u, v, c), E, u, v, c)
<1>0. PICK F : F = Grown(E, u, v, c)
  OBVIOUS
<1>1. DOMAIN F = DOMAIN E \cup {u} /\ DOMAIN F \subseteq Vertices
  BY <1>0 DEF Grown, EdgeLists
<1> DEFINE old(x) == IF x \in DOMAIN E THEN E[x] ELSE <<>>
           more(x) == IF x = u THEN <<<<v, c>>>> ELSE <<>>
<1>2. PICK e \in Edge : e = <<v, c>>
  BY DEF Edge
<1>3. ASSUME NEW x \in DOMAIN F
      PROVE  old(x) \in Seq(Edge) /\ more(x) \in Seq(Edge) /\ F[x] = old(x) \o more(x)
  <2>1. <<>> \in Seq(Edge) /\ <<e>> \in Seq(Edge)
    OBVIOUS
  <2>2. old(x) \in Seq(Edge)
    BY <2>1 DEF EdgeLists
  <2>3. more(x) \in Seq(Edge)
    BY <1>2, <2>1
  <2>4. F[x] = old(x) \o more(x)
    BY <1>0, <1>1 DEF Grown
  <2> QED
    BY <2>2, <2>3, <2>4
<1>4. ASSUME NEW x \in DOMAIN F, NEW h \in Counted
      PROVE  /\ Tally(F[x], h) = (IF x \in DOMAIN E THEN Tally(E[x], h) ELSE 0)
                                + IF x = u THEN h[e] ELSE 0
             /\ F[x] \in Seq(Edge)
             /\ Len(F[x]) = (IF x \in DOMAIN E THEN Len(E[x]) ELSE 0) + IF x = u THEN 1 ELSE 0
  <2>1. PICK a \in Seq(Edge), b \in Seq(Edge) : a = old(x) /\ b = more(x) /\ F[x] = a \o b
    BY <1>3
  <2>2. Tally(F[x], h) = Tally(a, h) + Tally(b, h) /\ F[x] \in Seq(Edge)
    <3>1. Tally(a \o b, h) = Tally(a, h) + Tally(b, h)
      BY TallyJoined
    <3>2. a \o b \in Seq(Edge)
      OBVIOUS
    <3> QED
      BY <2>1, <3>1, <3>2
  <2>3. Tally(a, h) = IF x \in DOMAIN E THEN Tally(E[x], h) ELSE 0
    BY <2>1, TallyEmpty
  <2>4. Tally(b, h) = IF x = u THEN h[e] ELSE 0
    BY <1>2, <2>1, TallyEmpty, TallyOne
  <2>5. Len(F[x]) = Len(a) + Len(b)
    BY <2>1
  <2>6. Len(a) = IF x \in DOMAIN E THEN Len(E[x]) ELSE 0
    <3>1. Len(<<>>) = 0
      OBVIOUS
    <3> QED
      BY <2>1, <3>1
  <2>7. Len(b) = IF x = u THEN 1 ELSE 0
    <3>1. Len(<<>>) = 0 /\ Len(<<e>>) = 1
      OBVIOUS
    <3> QED
      BY <1>2, <2>1, <3>1
  <2> QED
    BY <2>2, <2>3, <2>4, <2>5, <2>6, <2>7
<1>5. EdgeLists(F)
  <2>1. F = [x \in DOMAIN F |-> F[x]]
    BY <1>0 DEF Grown
  <2>2. ASSUME NEW x \in DOMAIN F PROVE F[x] \in Seq(Edge)
    <3>1. PICK h : h \in Counted
      BY CostTypes
    <3> QED
      BY <1>4, <3>1
  <2> QED
    BY <1>1, <2>1, <2>2 DEF EdgeLists
<1>6. ASSUME NEW x, NEW y, NEW k \in Costs
      PROVE  Has(F, x, y, k) = Has(E, x, y, k) + IF x = u /\ y = v THEN k[c] ELSE 0
  <2>1. To(y, k) \in Counted
    BY CostTypes
  <2>2. To(y, k)[e] = IF y = v THEN k[c] ELSE 0
    BY <1>2 DEF To
  <2>3. CASE x \in DOMAIN F
    <3>1. Has(F, x, y, k) = Tally(F[x], To(y, k))
      BY <2>3 DEF Has
    <3>2. Tally(F[x], To(y, k)) = Has(E, x, y, k) + IF x = u THEN To(y, k)[e] ELSE 0
      BY <1>4, <2>1, <2>3 DEF Has
    <3> QED
      BY <2>2, <3>1, <3>2
  <2>4. CASE x \notin DOMAIN F
    BY <1>1, <2>4 DEF Has
  <2> QED
    BY <2>3, <2>4
<1>7. ASSUME NEW x \in Vertices
      PROVE  Lengths(F)[x] = Lengths(E)[x] + IF x = u THEN 1 ELSE 0
  <2>1. CASE x \in DOMAIN F
    <3>1. PICK h : h \in Counted
      BY CostTypes
    <3>2. Len(F[x]) = (IF x \in DOMAIN E THEN Len(E[x]) ELSE 0) + IF x = u THEN 1 ELSE 0
      BY <1>4, <2>1, <3>1
    <3> QED
      BY <2>1, <3>2 DEF Lengths
  <2>2. CASE x \notin DOMAIN F
    <3>1. x \notin DOMAIN E /\ x # u
      BY <1>1, <2>2
    <3>2. Lengths(F)[x] = 0 /\ Lengths(E)[x] = 0
      BY <2>2, <3>1 DEF Lengths
    <3> QED
      BY <3>1, <3>2
  <2> QED
    BY <2>1, <2>2
<1> QED
  BY <1>0, <1>1, <1>5, <1>6, <1>7 DEF Grows

(***************************************************************************)
(* Adding an edge                                                            *)
(***************************************************************************)

\* A graph of the adjacency lists E and n edges.
Graph(g, E, n) ==
    g = [edges |-> E, n_vertices |-> Cardinality(DOMAIN E), n_edges |-> n]
Halved(E, n) == n \in Nat /\ 2 * n = Cut!SumOver(Lengths(E), Vertices)

LEMMA HalfEdgeIs ==
    ASSUME NEW E, EdgeLists(E), NEW n, NEW u \in Vertices, NEW v, NEW c, NEW g, Graph(g, E, n),
           NEW F, F = Grown(E, u, v, c)
    PROVE  Graph(Cut!AddHalfEdge(g, u, v, c), F, n)
<1> DEFINE nv == Cardinality(DOMAIN E)
           old(x) == IF x \in DOMAIN E THEN E[x] ELSE <<>>
           more(x) == IF x = u THEN <<<<v, c>>>> ELSE <<>>
<1>1. g.edges = E /\ g.n_vertices = nv
  BY DEF Graph
<1>2. Cut!AddHalfEdge(g, u, v, c)
        = [[g EXCEPT !.n_vertices = IF u \in DOMAIN E THEN nv ELSE nv + 1] EXCEPT !.edges = F]
  <2>1. F = [x \in DOMAIN E \cup {u} |-> old(x) \o more(x)]
    BY DEF Grown
  <2>2. Cut!AddHalfEdge(g, u, v, c)
          = [g EXCEPT !.n_vertices = IF u \in DOMAIN E THEN nv ELSE nv + 1,
                      !.edges = [x \in DOMAIN E \cup {u} |-> old(x) \o more(x)]]
    BY <1>1, Zenon DEF Cut!AddHalfEdge
  <2> HIDE DEF nv, old, more
  <2> QED
    BY <2>1, <2>2, Zenon
<1>3. Cardinality(DOMAIN F) = IF u \in DOMAIN E THEN nv ELSE nv + 1
  <2>1. DOMAIN F = DOMAIN E \cup {u}
    BY DEF Grown
  <2>2. IsFiniteSet(DOMAIN E)
    BY VerticesFinite DEF EdgeLists
  <2> QED
    BY <2>1, <2>2, FS_AddElement
<1> QED
  BY <1>2, <1>3 DEF Graph

\* The graph h has one more edge.
OneMore(h, F, E, n, u, v, c) ==
    /\ Graph(h, F, n + 1) /\ Paired(F) /\ Halved(F, n + 1)
    /\ DOMAIN F = DOMAIN E \cup {u, v}
    /\ \A x, y \in Vertices :
         Has(F, x, y, Own) = Has(E, x, y, Own)
           + IF (x = u /\ y = v) \/ (x = v /\ y = u) THEN c ELSE 0

\* add_weighted_edge() with two ends that are not the same.
LEMMA EdgeAdded ==
    ASSUME NEW E, Paired(E), NEW n, Halved(E, n),
           NEW u \in Vertices, NEW v \in Vertices, u # v, NEW c \in Weights, NEW g, Graph(g, E, n)
    PROVE  \E F : OneMore(Cut!AddWeightedEdge(g, u, v, c), F, E, n, u, v, c)
<1>1. PICK D : D = Grown(E, u, v, c)
  OBVIOUS
<1>2. PICK F : F = Grown(D, v, u, c)
  OBVIOUS
<1>3. EdgeLists(E)
  BY DEF Paired
<1>4. /\ EdgeLists(D) /\ DOMAIN D = DOMAIN E \cup {u}
      /\ \A x, y, k : k \in Costs =>
           Has(D, x, y, k) = Has(E, x, y, k) + IF x = u /\ y = v THEN k[c] ELSE 0
      /\ \A x \in Vertices : Lengths(D)[x] = Lengths(E)[x] + IF x = u THEN 1 ELSE 0
  <2>1. Grows(D, E, u, v, c)
    BY <1>1, <1>3, GrownCounts
  <2> QED
    BY <2>1 DEF Grows
<1>5. /\ EdgeLists(F) /\ DOMAIN F = DOMAIN D \cup {v}
      /\ \A x, y, k : k \in Costs =>
           Has(F, x, y, k) = Has(D, x, y, k) + IF x = v /\ y = u THEN k[c] ELSE 0
      /\ \A x \in Vertices : Lengths(F)[x] = Lengths(D)[x] + IF x = v THEN 1 ELSE 0
  <2>1. Grows(F, D, v, u, c)
    BY <1>2, <1>4, GrownCounts
  <2> QED
    BY <2>1 DEF Grows
<1>6. Graph(Cut!AddWeightedEdge(g, u, v, c), F, n + 1)
  <2> DEFINE a == Cut!AddHalfEdge(g, u, v, c)
             b == Cut!AddHalfEdge(a, v, u, c)
  <2>1. Graph(a, D, n)
    BY <1>1, <1>3, HalfEdgeIs
  <2>2. Graph(b, F, n)
    BY <1>2, <1>4, <2>1, HalfEdgeIs
  <2>3. Cut!AddWeightedEdge(g, u, v, c) = [b EXCEPT !.n_edges = @ + 1]
    BY DEF Cut!AddWeightedEdge
  <2> HIDE DEF a, b
  <2> QED
    BY <2>2, <2>3 DEF Graph
<1>7. ASSUME NEW x, NEW y, NEW k \in Costs
      PROVE  /\ Has(F, x, y, k) = Has(E, x, y, k)
                  + IF (x = u /\ y = v) \/ (x = v /\ y = u) THEN k[c] ELSE 0
             /\ Has(E, x, y, k) \in Nat /\ k[c] \in Nat
  <2>1. Has(E, x, y, k) \in Nat
    BY <1>3, HasType
  <2>2. k[c] \in Nat
    BY DEF Costs
  <2>3. /\ Has(D, x, y, k) = Has(E, x, y, k) + IF x = u /\ y = v THEN k[c] ELSE 0
        /\ Has(F, x, y, k) = Has(D, x, y, k) + IF x = v /\ y = u THEN k[c] ELSE 0
    BY <1>4, <1>5
  <2> QED
    BY <2>1, <2>2, <2>3
<1>8. Paired(F)
  <2>1. One \in Costs /\ One[c] = 1
    BY CostTypes DEF One
  <2>2. ASSUME NEW x \in Vertices, NEW y \in Vertices
        PROVE  Has(F, x, y, One) = Has(F, y, x, One) /\ Has(F, x, x, One) = 0
    <3>1. Has(E, x, y, One) = Has(E, y, x, One) /\ Has(E, x, x, One) = 0
      BY DEF Paired
    <3>2. Has(F, x, y, One) = Has(E, x, y, One)
                  + IF (x = u /\ y = v) \/ (x = v /\ y = u) THEN 1 ELSE 0
      BY <1>7, <2>1
    <3>3. Has(F, y, x, One) = Has(E, y, x, One)
                  + IF (y = u /\ x = v) \/ (y = v /\ x = u) THEN 1 ELSE 0
      BY <1>7, <2>1
    <3>4. Has(F, x, x, One) = Has(E, x, x, One)
                  + IF (x = u /\ x = v) \/ (x = v /\ x = u) THEN 1 ELSE 0
      BY <1>7, <2>1
    <3> QED
      BY <3>1, <3>2, <3>3, <3>4
  <2> QED
    BY <1>5, <2>2 DEF Paired
<1>9. Halved(F, n + 1)
  <2>1. Summable(Lengths(E), Vertices) /\ Summable(Lengths(F), Vertices)
    BY <1>3, <1>5, HasType
  <2>2. \A x \in Vertices : /\ Lengths(E)[x] \in Nat
                            /\ Lengths(F)[x] = Lengths(E)[x] + IF x \in {u, v} THEN 1 ELSE 0
    BY <1>4, <1>5, <2>1 DEF Summable
  <2>3. \A x \in Vertices \ {u, v} : Lengths(F)[x] = Lengths(E)[x]
    BY <2>2
  <2>4. Cut!SumOver(Lengths(F), Vertices) + Lengths(E)[u] + Lengths(E)[v]
          = Cut!SumOver(Lengths(E), Vertices) + Lengths(F)[u] + Lengths(F)[v]
    BY <2>1, <2>3, SumChange
  <2>5. Lengths(F)[u] = Lengths(E)[u] + 1 /\ Lengths(F)[v] = Lengths(E)[v] + 1
    BY <2>2
  <2>6. Lengths(E)[u] \in Nat /\ Lengths(E)[v] \in Nat
    BY <2>2
  <2>7. n \in Nat /\ 2 * n = Cut!SumOver(Lengths(E), Vertices)
    BY DEF Halved
  <2>8. Cut!SumOver(Lengths(F), Vertices) \in Nat
    BY <2>1, SumFacts
  <2>9. 2 * (n + 1) = Cut!SumOver(Lengths(F), Vertices)
    BY <2>4, <2>5, <2>6, <2>7, <2>8
  <2> QED
    BY <2>7, <2>9 DEF Halved
<1>10. ASSUME NEW x \in Vertices, NEW y \in Vertices
       PROVE  Has(F, x, y, Own) = Has(E, x, y, Own)
                         + IF (x = u /\ y = v) \/ (x = v /\ y = u) THEN c ELSE 0
  BY <1>7, CostTypes DEF Own
<1>11. DOMAIN F = DOMAIN E \cup {u, v}
  BY <1>4, <1>5
<1>12. OneMore(Cut!AddWeightedEdge(g, u, v, c), F, E, n, u, v, c)
  BY <1>6, <1>8, <1>9, <1>10, <1>11 DEF OneMore
<1> QED
  BY <1>12

(***************************************************************************)
(* Reading the input                                                         *)
(***************************************************************************)

\* The pairs of vertices with an edge in the input, and the graphs that reading
\* them builds, one more edge each time, whichever comes next.
Entered(input) == {p \in Cut!Pairs : input[p] # Cut!None}
Added(g, p, input) == Cut!AddWeightedEdge(g, p[1], p[2], input[p])

Builds(f, input) ==
    /\ f[{}] = Cut!Default
    /\ \A T \in SUBSET Entered(input) :
         T # {} => \E p \in T : f[T] = Added(f[T \ {p}], p, input)

LEMMA BuiltIs ==
    ASSUME NEW input
    PROVE  \E f : Builds(f, input) /\ Cut!Built(input) = f[Entered(input)]
<1>1. PICK P : P = Entered(input)
  OBVIOUS
<1> DEFINE step(f) == [T \in SUBSET P |->
                          IF T = {} THEN Cut!Default
                          ELSE LET x == CHOOSE x \in T : TRUE IN Added(f[T \ {x}], x, input)]
           made == CHOOSE f : f = step(f)
<1>2. Cut!Built(input) = made[P]
  BY <1>1 DEF Cut!Built, Cut!FoldSet, Cut!MapThenFoldSet, Added, Entered
<1>3. ASSUME NEW f, NEW T \in SUBSET P, T # {}
      PROVE  \E x \in T : x = (CHOOSE y \in T : TRUE) /\ step(f)[T] = Added(f[T \ {x}], x, input)
  <2> DEFINE x == CHOOSE y \in T : TRUE
  <2>1. x \in T
    BY <1>3
  <2>2. step(f)[T] = Added(f[T \ {x}], x, input)
    BY <1>3
  <2> HIDE DEF x, step
  <2>3. x = (CHOOSE y \in T : TRUE)
    BY DEF x
  <2> QED
    BY <2>1, <2>2, <2>3
<1>4. \A f : step(f)[{}] = Cut!Default /\ DOMAIN step(f) = SUBSET P
             /\ step(f) = [T \in SUBSET P |-> step(f)[T]]
  OBVIOUS
<1>5. IsFiniteSet(P) /\ \A T \in SUBSET P : IsFiniteSet(T) /\ Cardinality(T) \in Nat
  BY <1>1, VerticesFinite, FS_Subset, FS_CardinalityType DEF Entered
<1>6. PICK n \in Nat : n = Cardinality(P)
  BY <1>5
<1> DEFINE Upto(k, f) == \A T \in SUBSET P : Cardinality(T) <= k => f[T] = step(f)[T]
           G == {k \in 0 .. n : \E f : f = step(f) \/ Upto(k, f)}
<1> HIDE DEF step
<1>7. 0 \in G
  <2>1. PICK f : f = [T \in SUBSET P |-> Cut!Default]
    OBVIOUS
  <2>2. ASSUME NEW T \in SUBSET P, Cardinality(T) <= 0
        PROVE  f[T] = step(f)[T]
    <3>1. T = {}
      <4>1. Cardinality(T) = 0
        BY <1>5, <2>2
      <4> QED
        BY <1>5, <4>1, FS_EmptySet
    <3> QED
      BY <1>4, <2>1, <3>1
  <2> QED
    BY <2>2
<1>8. ASSUME NEW k \in 1 .. n, k - 1 \in G
      PROVE  k \in G
  <2>1. PICK f : f = step(f) \/ Upto(k - 1, f)
    BY <1>8
  <2>2. CASE f = step(f)
    BY <2>2
  <2>3. CASE Upto(k - 1, f)
    <3>1. PICK g : g = step(f)
      OBVIOUS
    <3>2. ASSUME NEW T \in SUBSET P, Cardinality(T) <= k
          PROVE  g[T] = step(g)[T]
      <4>1. CASE T = {}
        BY <1>4, <3>1, <4>1
      <4>2. CASE T # {}
        <5>1. PICK x \in T : x = (CHOOSE y \in T : TRUE)
                             /\ step(f)[T] = Added(f[T \ {x}], x, input)
          BY <1>3, <4>2
        <5>2. step(g)[T] = Added(g[T \ {x}], x, input)
          BY <1>3, <4>2, <5>1
        <5>3. Cardinality(T \ {x}) = Cardinality(T) - 1 /\ T \ {x} \in SUBSET P
          BY <1>5, FS_RemoveElement
        <5>4. Cardinality(T \ {x}) <= k - 1
          BY <1>5, <3>2, <5>3
        <5>5. f[T \ {x}] = g[T \ {x}]
          BY <2>3, <3>1, <5>3, <5>4
        <5> QED
          BY <3>1, <5>1, <5>2, <5>5
      <4> QED
        BY <4>1, <4>2
    <3> QED
      BY <3>2
  <2> QED
    BY <2>1, <2>2, <2>3
<1>9. \E f : f = step(f)
  <2>1. n \in G
    <3> HIDE DEF G
    <3>1. \A k \in 0 .. n : k \in G
      BY <1>7, <1>8, UpTo
    <3> QED
      BY <3>1
  <2>2. PICK f : f = step(f) \/ Upto(n, f)
    BY <2>1
  <2>3. ASSUME Upto(n, f)
        PROVE  step(f) = step(step(f))
    <3>1. PICK g : g = step(f)
      OBVIOUS
    <3>2. ASSUME NEW T \in SUBSET P
          PROVE  g[T] = step(g)[T]
      <4>1. CASE T = {}
        BY <1>4, <3>1, <4>1
      <4>2. CASE T # {}
        <5>1. PICK x \in T : x = (CHOOSE y \in T : TRUE)
                             /\ step(f)[T] = Added(f[T \ {x}], x, input)
          BY <1>3, <4>2
        <5>2. step(g)[T] = Added(g[T \ {x}], x, input)
          BY <1>3, <4>2, <5>1
        <5>3. T \ {x} \in SUBSET P /\ Cardinality(T \ {x}) <= n
          BY <1>5, <1>6, FS_Subset
        <5>4. f[T \ {x}] = g[T \ {x}]
          BY <2>3, <3>1, <5>3
        <5> QED
          BY <3>1, <5>1, <5>2, <5>4
      <4> QED
        BY <4>1, <4>2
    <3>3. step(g) = [T \in SUBSET P |-> step(g)[T]] /\ g = [T \in SUBSET P |-> g[T]]
      BY <1>4, <3>1
    <3>4. step(g) = g
      BY <3>2, <3>3
    <3> QED
      BY <3>1, <3>4
  <2> QED
    BY <2>2, <2>3
<1>10. made = step(made)
  BY <1>9
<1> HIDE DEF made
<1>11. made[{}] = Cut!Default
  BY <1>4, <1>10
<1>12. ASSUME NEW T \in SUBSET P, T # {}
       PROVE  \E p \in T : made[T] = Added(made[T \ {p}], p, input)
  <2>1. PICK x \in T : step(made)[T] = Added(made[T \ {x}], x, input)
    BY <1>3, <1>12
  <2> QED
    BY <1>10, <2>1
<1> QED
  BY <1>1, <1>2, <1>11, <1>12 DEF Builds

\* The graph g of the edges in T.
Weight(x, y, input, T) == IF <<x, y>> \in T THEN input[<<x, y>>]
                          ELSE IF <<y, x>> \in T THEN input[<<y, x>>] ELSE 0
Read(g, E, n, input, T) ==
    /\ Graph(g, E, n) /\ Paired(E) /\ Halved(E, n)
    /\ DOMAIN E = {x \in Vertices : \E p \in T : x = p[1] \/ x = p[2]}
    /\ \A x, y \in Vertices : Has(E, x, y, Own) = Weight(x, y, input, T)

LEMMA InputTypes ==
    ASSUME NEW input \in Cut!Inputs
    PROVE  /\ Summable(input, Cut!Pairs)
           /\ \A p \in Cut!Pairs : input[p] \in Nat
           /\ \A p \in Cut!Pairs \ Entered(input) : input[p] = 0
           /\ \A p \in Entered(input) : /\ p \in Cut!Pairs /\ p[1] \in Vertices /\ p[2] \in Vertices
                                        /\ p = <<p[1], p[2]>> /\ p[1] < p[2] /\ input[p] \in Weights
<1>1. \A p \in Cut!Pairs : input[p] \in Weights \cup {0}
  BY DEF Cut!Inputs, Cut!None
<1>2. ASSUME NEW p \in Cut!Pairs PROVE input[p] \in Nat
  <2>1. Weights \subseteq Nat
    BY CostTypes
  <2>2. Weights \cup {0} \subseteq Nat
    BY <2>1
  <2>3. input[p] \in Weights \cup {0}
    BY <1>1
  <2> QED
    BY <2>2, <2>3, Zenon
<1>3. \A p \in Cut!Pairs \ Entered(input) : input[p] = 0
  BY DEF Entered, Cut!None
<1>4. ASSUME NEW p \in Entered(input)
      PROVE  /\ p \in Cut!Pairs /\ p[1] \in Vertices /\ p[2] \in Vertices
             /\ p = <<p[1], p[2]>> /\ p[1] < p[2] /\ input[p] \in Weights
  BY <1>1 DEF Entered, Cut!None, Cut!Pairs
<1> QED
  BY <1>2, <1>3, <1>4, VerticesFinite DEF Summable

LEMMA ReadNothing == ASSUME NEW input PROVE Read(Cut!Default, <<>>, 0, input, {})
<1>1. PICK E : E = [x \in {} |-> <<>>]
  OBVIOUS
<1>2. E = <<>> /\ DOMAIN E = {}
  BY <1>1
<1>3. Cardinality(DOMAIN E) = 0
  BY <1>2, FS_EmptySet
<1>4. Graph(Cut!Default, E, 0)
  BY <1>2, <1>3 DEF Graph, Cut!Default
<1>5. \A x, y, c : Has(E, x, y, c) = 0
  BY <1>2 DEF Has
<1>6. EdgeLists(E)
  BY <1>1, <1>2 DEF EdgeLists
<1>7. Halved(E, 0)
  <2>1. \A x \in Vertices : Lengths(E)[x] = 0
    BY <1>2 DEF Lengths
  <2>2. Cut!SumOver(Lengths(E), Vertices) = 0
    BY <2>1, VerticesFinite, SumZero
  <2> QED
    BY <2>2 DEF Halved
<1> QED
  BY <1>2, <1>4, <1>5, <1>6, <1>7 DEF Read, Paired, Weight

LEMMA ReadOneMore ==
    ASSUME NEW input \in Cut!Inputs, NEW T \in SUBSET Entered(input), NEW p \in T,
           NEW g, NEW E, NEW n, Read(g, E, n, input, T \ {p})
    PROVE  \E F : Read(Added(g, p, input), F, n + 1, input, T)
<1> DEFINE u == p[1]
           v == p[2]
           c == input[p]
<1>1. u \in Vertices /\ v \in Vertices /\ p = <<u, v>> /\ u < v /\ c \in Weights
  BY InputTypes
<1>2. u \in Nat /\ v \in Nat /\ u # v
  BY <1>1, CostTypes
<1>3. Graph(g, E, n) /\ Paired(E) /\ Halved(E, n)
  BY DEF Read
<1>4. PICK F : /\ Graph(Cut!AddWeightedEdge(g, u, v, c), F, n + 1)
               /\ Paired(F) /\ Halved(F, n + 1)
               /\ DOMAIN F = DOMAIN E \cup {u, v}
               /\ \A x, y \in Vertices :
                    Has(F, x, y, Own) = Has(E, x, y, Own)
                      + IF (x = u /\ y = v) \/ (x = v /\ y = u) THEN c ELSE 0
  <2> HIDE DEF u, v, c
  <2>1. PICK F : OneMore(Cut!AddWeightedEdge(g, u, v, c), F, E, n, u, v, c)
    BY <1>1, <1>2, <1>3, EdgeAdded
  <2> QED
    BY <2>1 DEF OneMore
<1>5. DOMAIN F = {x \in Vertices : \E q \in T : x = q[1] \/ x = q[2]}
  <2>1. DOMAIN E = {x \in Vertices : \E q \in T \ {p} : x = q[1] \/ x = q[2]}
    BY DEF Read
  <2> QED
    BY <1>1, <1>4, <2>1
<1>6. ASSUME NEW x \in Vertices, NEW y \in Vertices
      PROVE  Has(F, x, y, Own) = Weight(x, y, input, T)
  <2>1. Has(E, x, y, Own) = Weight(x, y, input, T \ {p})
    BY DEF Read
  <2>2. \A q \in T : q[1] < q[2]
    BY InputTypes
  <2>3. <<v, u>> \notin T
    BY <1>1, <1>2, <2>2
  <2>4. Has(E, x, y, Own) \in Nat
    BY <1>3, HasType, CostTypes DEF Paired
  <2>5. CASE x = u /\ y = v
    <3>1. Weight(x, y, input, T) = c /\ Weight(x, y, input, T \ {p}) = 0
      BY <1>1, <2>3, <2>5 DEF Weight
    <3>2. Has(F, x, y, Own) = 0 + c
      BY <1>4, <2>1, <2>5, <3>1
    <3> QED
      BY <1>1, <3>1, <3>2, CostTypes
  <2>6. CASE x = v /\ y = u
    <3>1. Weight(x, y, input, T) = c /\ Weight(x, y, input, T \ {p}) = 0
      BY <1>1, <2>3, <2>6 DEF Weight
    <3>2. Has(F, x, y, Own) = 0 + c
      BY <1>4, <2>1, <2>6, <3>1
    <3> QED
      BY <1>1, <3>1, <3>2, CostTypes
  <2>7. CASE ~(x = u /\ y = v) /\ ~(x = v /\ y = u)
    <3>1. <<x, y>> # p /\ <<y, x>> # p
      BY <1>1, <2>7
    <3>2. Weight(x, y, input, T) = Weight(x, y, input, T \ {p})
      BY <3>1 DEF Weight
    <3>3. Has(F, x, y, Own) = Has(E, x, y, Own) + 0
      BY <1>4, <2>7
    <3> QED
      BY <2>1, <2>4, <3>2, <3>3
  <2> QED
    BY <2>5, <2>6, <2>7
<1>7. Read(Added(g, p, input), F, n + 1, input, T)
  BY <1>4, <1>5, <1>6 DEF Read, Added
<1> QED
  BY <1>7

LEMMA AllRead ==
    ASSUME NEW input \in Cut!Inputs
    PROVE  \E E, n : Read(Cut!Built(input), E, n, input, Entered(input))
<1> DEFINE P == Entered(input)
<1>1. PICK f : Builds(f, input) /\ Cut!Built(input) = f[P]
  BY BuiltIs
<1> DEFINE G == {T \in SUBSET P : \E E, n : Read(f[T], E, n, input, T)}
<1>2. {} \in G
  BY <1>1, ReadNothing DEF Builds
<1>3. ASSUME NEW T \in SUBSET P, T # {}, \A p \in T : T \ {p} \in G
      PROVE  T \in G
  <2>1. PICK p \in T : f[T] = Added(f[T \ {p}], p, input)
    BY <1>1, <1>3 DEF Builds
  <2>2. PICK E, n : Read(f[T \ {p}], E, n, input, T \ {p})
    BY <1>3
  <2>3. PICK F : Read(Added(f[T \ {p}], p, input), F, n + 1, input, T)
    BY <2>2, ReadOneMore
  <2> QED
    BY <2>1, <2>3
<1>4. IsFiniteSet(P)
  BY VerticesFinite, FS_Subset DEF Entered
<1>5. P \in G
  <2> HIDE DEF G
  <2>1. \A T \in SUBSET P : T \in G
    BY <1>2, <1>3, <1>4, FiniteUpTo
  <2> QED
    BY <2>1
<1> QED
  BY <1>1, <1>5

(***************************************************************************)
(* Groups of vertices                                                        *)
(***************************************************************************)

\* The pairs of vertices, one in each of two sets.
Across(S, T) == {p \in Cut!Pairs : p \in S \X T \/ p \in T \X S}

\* The vertices D stand for disjoint groups of vertices, all of them together.
Grouped(group, D) ==
    /\ group = [x \in Vertices |-> group[x]]
    /\ \A x \in Vertices : group[x] \subseteq Vertices /\ (group[x] # {} <=> x \in D)
    /\ \A x, y \in Vertices : x # y => group[x] \cap group[y] = {}
    /\ \A z \in Vertices : \E x \in D : z \in group[x]

\* The graph is the input with groups of vertices merged, two at least.
Merged(E, group, input) ==
    /\ Paired(E) /\ Grouped(group, DOMAIN E) /\ Cardinality(DOMAIN E) >= 2
    /\ \A x, y \in Vertices : x # y =>
         Has(E, x, y, Own) = Cut!SumOver(input, Across(group[x], group[y]))
Stands(g, group, input) ==
    \E E, n : Graph(g, E, n) /\ Halved(E, n) /\ Merged(E, group, input)

LEMMA AcrossFacts ==
    ASSUME NEW input \in Cut!Inputs, NEW S, NEW T
    PROVE  /\ Summable(input, Across(S, T)) /\ Across(S, T) = Across(T, S)
           /\ Across(S, T) \subseteq Cut!Pairs
<1>1. Across(S, T) \subseteq Cut!Pairs /\ Across(S, T) = Across(T, S)
  BY DEF Across
<1>2. Summable(input, Cut!Pairs)
  BY InputTypes
<1> QED
  BY <1>1, <1>2, FS_Subset DEF Summable

LEMMA AcrossSingle ==
    ASSUME NEW input \in Cut!Inputs, NEW x \in Vertices, NEW y \in Vertices, x < y
    PROVE  Cut!SumOver(input, Across({x}, {y})) = Weight(x, y, input, Entered(input))
<1>1. x \in Nat /\ y \in Nat
  BY CostTypes
<1>2. PICK p : p = <<x, y>>
  OBVIOUS
<1>3. p \in Cut!Pairs /\ Across({x}, {y}) = {p}
  <2>1. p \in Cut!Pairs
    BY <1>2 DEF Cut!Pairs
  <2>2. \A q \in Cut!Pairs : q = <<q[1], q[2]>> /\ q[1] < q[2]
    BY DEF Cut!Pairs
  <2>3. ASSUME NEW q \in Across({x}, {y}) PROVE q = p
    <3>1. q \in Cut!Pairs /\ (q \in {x} \X {y} \/ q \in {y} \X {x})
      BY DEF Across
    <3>2. q[1] < q[2] /\ q = <<q[1], q[2]>>
      BY <2>2, <3>1
    <3> QED
      BY <1>1, <1>2, <3>1, <3>2
  <2>4. p \in Across({x}, {y})
    BY <1>2, <2>1 DEF Across
  <2> QED
    BY <2>1, <2>3, <2>4
<1>4. Cut!SumOver(input, {p}) = input[p]
  BY <1>3, InputTypes, SumBounds
<1>5. <<y, x>> \notin Entered(input)
  BY <1>1 DEF Entered, Cut!Pairs
<1>6. input[p] = Weight(x, y, input, Entered(input))
  BY <1>2, <1>3, <1>5, InputTypes DEF Weight
<1> QED
  BY <1>3, <1>4, <1>6

LEMMA BuiltStands ==
    ASSUME NEW input \in Cut!Inputs
    PROVE  Stands(Cut!Built(input), Cut!Single, input)
<1>1. PICK E, n : Read(Cut!Built(input), E, n, input, Entered(input))
  BY AllRead
<1>2. Graph(Cut!Built(input), E, n) /\ Paired(E) /\ Halved(E, n)
  BY <1>1 DEF Read
<1>3. DOMAIN E = Vertices
  <2>1. DOMAIN E \subseteq Vertices
    BY <1>1 DEF Read
  <2>2. ASSUME NEW x \in Vertices PROVE x \in DOMAIN E
    <3>1. {x} \in (SUBSET Vertices) \ {{}, Vertices}
      <4>1. Vertices # {x}
        <5>1. Cardinality({x}) = 1
          BY FS_Singleton
        <5> QED
          BY <5>1, VerticesFinite
      <4> QED
        BY <4>1
    <3>2. PICK p \in Cut!Pairs : input[p] # Cut!None /\ (p[1] \in {x} <=> p[2] \notin {x})
      BY <3>1 DEF Cut!Inputs, Cut!Connected
    <3>3. p \in Entered(input)
      BY <3>2 DEF Entered
    <3>4. x = p[1] \/ x = p[2]
      BY <3>2
    <3> QED
      BY <1>1, <3>3, <3>4 DEF Read
  <2> QED
    BY <2>1, <2>2
<1>4. ASSUME NEW x \in Vertices, NEW y \in Vertices, x # y
      PROVE  Has(E, x, y, Own) = Cut!SumOver(input, Across({x}, {y}))
  <2>1. Has(E, x, y, Own) = Weight(x, y, input, Entered(input))
    BY <1>1 DEF Read
  <2>2. x \in Nat /\ y \in Nat
    BY CostTypes
  <2>3. CASE x < y
    BY <2>1, <2>3, AcrossSingle
  <2>4. CASE y < x
    <3>1. Weight(x, y, input, Entered(input)) = Weight(y, x, input, Entered(input))
      <4>1. \A p \in Entered(input) : p \in Cut!Pairs
        BY DEF Entered
      <4>2. <<x, y>> \notin Entered(input)
        BY <2>2, <2>4, <4>1 DEF Cut!Pairs
      <4> QED
        BY <4>2 DEF Weight
    <3>2. Across({x}, {y}) = Across({y}, {x})
      BY AcrossFacts
    <3>3. Cut!SumOver(input, Across({y}, {x})) = Weight(y, x, input, Entered(input))
      BY <2>4, AcrossSingle
    <3> QED
      BY <2>1, <3>1, <3>2, <3>3
  <2> QED
    BY <1>4, <2>2, <2>3, <2>4
<1>5. Grouped(Cut!Single, Vertices)
  BY DEF Grouped, Cut!Single
<1>6. \A x \in Vertices : Cut!Single[x] = {x}
  BY DEF Cut!Single
<1>7. Merged(E, Cut!Single, input)
  <2>1. Cardinality(DOMAIN E) >= 2
    BY <1>3, VerticesFinite
  <2>2. ASSUME NEW x \in Vertices, NEW y \in Vertices, x # y
        PROVE  Has(E, x, y, Own) = Cut!SumOver(input, Across(Cut!Single[x], Cut!Single[y]))
    BY <1>4, <1>6, <2>2
  <2> QED
    BY <1>2, <1>3, <1>5, <2>1, <2>2 DEF Merged
<1> QED
  BY <1>2, <1>7 DEF Stands

(***************************************************************************)
(* Contracting an edge                                                       *)
(***************************************************************************)

\* What leads from where to where once `to' is part of `from'.
Met(E, from, to, x, y, c) ==
    IF x = to \/ y = to \/ (x = from /\ y = from) THEN 0
    ELSE IF x = from THEN Has(E, from, y, c) + Has(E, to, y, c)
    ELSE IF y = from THEN Has(E, x, from, c) + Has(E, x, to, c)
    ELSE Has(E, x, y, c)

\* The adjacency lists F that contract_edge() makes of E.
Meets(F, E, from, to) ==
    /\ EdgeLists(F) /\ DOMAIN F = DOMAIN E \ {to}
    /\ \A x, y, c : x \in Vertices /\ y \in Vertices /\ c \in Costs =>
         Has(F, x, y, c) = Met(E, from, to, x, y, c)
    /\ Lengths(F)[from] + 2 * Has(E, from, to, One) = Lengths(E)[from] + Lengths(E)[to]
    /\ \A x \in Vertices \ {from, to} : Lengths(F)[x] = Lengths(E)[x]

LEMMA ContractedIs ==
    ASSUME NEW E, Paired(E), NEW n, NEW g, Graph(g, E, n),
           NEW from \in DOMAIN E, NEW to \in DOMAIN E, from # to
    PROVE  \E F : /\ Meets(F, E, from, to)
                  /\ Cut!Contracted(g, from, to)
                       = [edges |-> F, n_vertices |-> Cardinality(DOMAIN E) - 1,
                          n_edges |-> n - Has(E, from, to, One)]
<1>1. EdgeLists(E) /\ from \in Vertices /\ to \in Vertices
  BY DEF Paired, EdgeLists
<1>2. g.edges = E /\ g.n_vertices = Cardinality(DOMAIN E) /\ g.n_edges = n
  BY DEF Graph
<1>3. PICK L : L = Cut!Without(E[to], from)
  OBVIOUS
<1>4. PICK A : A = Cut!Without(E[from], to)
  OBVIOUS
<1> DEFINE Joins(x) == \E i \in DOMAIN L : L[i][1] = x
<1>5. PICK F : F = [x \in DOMAIN E \ {to} |->
                      IF x = from THEN A \o L
                      ELSE IF Joins(x) THEN Redirected(E[x], from, to) ELSE E[x]]
  OBVIOUS
<1>6. Cut!Contracted(g, from, to)
        = [edges |-> F, n_vertices |-> Cardinality(DOMAIN E) - 1,
           n_edges |-> n - (Len(E[to]) - Len(L))]
  BY <1>2, <1>3, <1>4, <1>5 DEF Cut!Contracted, Redirected
<1>7. E[to] \in Seq(Edge) /\ E[from] \in Seq(Edge)
  BY <1>1 DEF EdgeLists
<1>8. /\ L \in Seq(Edge)
      /\ \A y, c : c \in Costs =>
           Tally(L, To(y, c)) = IF y = from THEN 0 ELSE Has(E, to, y, c)
      /\ Len(E[to]) = Len(L) + Has(E, to, from, One)
  <2>1. /\ L \in Seq(Edge)
        /\ \A y, c : c \in Costs =>
             Tally(L, To(y, c)) = IF y = from THEN 0 ELSE Tally(E[to], To(y, c))
        /\ Len(E[to]) = Len(L) + Tally(E[to], To(from, One))
    BY <1>3, <1>7, WithoutCounts
  <2>2. \A y, c : Has(E, to, y, c) = Tally(E[to], To(y, c))
    BY DEF Has
  <2> QED
    BY <2>1, <2>2
<1>9. /\ A \in Seq(Edge)
      /\ \A y, c : c \in Costs =>
           Tally(A, To(y, c)) = IF y = to THEN 0 ELSE Has(E, from, y, c)
      /\ Len(E[from]) = Len(A) + Has(E, from, to, One)
  <2>1. /\ A \in Seq(Edge)
        /\ \A y, c : c \in Costs =>
             Tally(A, To(y, c)) = IF y = to THEN 0 ELSE Tally(E[from], To(y, c))
        /\ Len(E[from]) = Len(A) + Tally(E[from], To(to, One))
    BY <1>4, <1>7, WithoutCounts
  <2>2. \A y, c : Has(E, from, y, c) = Tally(E[from], To(y, c))
    BY DEF Has
  <2> QED
    BY <2>1, <2>2
<1>10. /\ Has(E, to, from, One) = Has(E, from, to, One) /\ Has(E, from, to, One) \in Nat
       /\ Len(L) \in Nat /\ Len(A) \in Nat
  BY <1>1, <1>8, <1>9, CostTypes, HasType DEF Paired
<1>11. Cut!Contracted(g, from, to)
         = [edges |-> F, n_vertices |-> Cardinality(DOMAIN E) - 1,
            n_edges |-> n - Has(E, from, to, One)]
  BY <1>6, <1>8, <1>10
<1>12. DOMAIN F = DOMAIN E \ {to} /\ F = [x \in DOMAIN F |-> F[x]] /\ DOMAIN F \subseteq Vertices
  BY <1>1, <1>5 DEF EdgeLists
<1>13. ASSUME NEW c \in Costs, NEW y
       PROVE  To(y, c) \in Counted /\ \A x : Has(E, x, y, c) \in Nat
  BY <1>1, CostTypes, HasType
<1>14. /\ F[from] \in Seq(Edge) /\ Len(F[from]) = Len(A) + Len(L)
       /\ \A y, c : c \in Costs => Tally(F[from], To(y, c)) = Tally(A, To(y, c)) + Tally(L, To(y, c))
  <2>1. F[from] = A \o L
    BY <1>5
  <2>2. A \o L \in Seq(Edge) /\ Len(A \o L) = Len(A) + Len(L)
    BY <1>8, <1>9
  <2>3. ASSUME NEW y, NEW c \in Costs
        PROVE  Tally(A \o L, To(y, c)) = Tally(A, To(y, c)) + Tally(L, To(y, c))
    BY <1>8, <1>9, <1>13, TallyJoined
  <2> QED
    BY <2>1, <2>2, <2>3
<1>15. ASSUME NEW x \in DOMAIN E \ {from, to}
       PROVE  /\ F[x] \in Seq(Edge) /\ Len(F[x]) = Len(E[x])
              /\ \A y, c : y \in Vertices /\ c \in Costs =>
                   Tally(F[x], To(y, c)) = Met(E, from, to, x, y, c)
  <2>1. E[x] \in Seq(Edge) /\ x \in Vertices
    BY <1>1 DEF EdgeLists
  <2>2. \A y, c : Has(E, x, y, c) = Tally(E[x], To(y, c))
    BY DEF Has
  <2>3. CASE Joins(x)
    <3>1. PICK b : b = Redirected(E[x], from, to)
      OBVIOUS
    <3>2. F[x] = b
      BY <1>5, <2>3, <3>1
    <3>3. /\ b \in Seq(Edge) /\ Len(b) = Len(E[x])
          /\ \A v, c : c \in Costs =>
               Tally(b, To(v, c)) = CASE v = from -> Tally(E[x], To(from, c)) + Tally(E[x], To(to, c))
                                      [] v = to -> 0
                                      [] OTHER -> Tally(E[x], To(v, c))
      <4>1. Redirects(b, E[x], from, to)
        BY <1>1, <2>1, <3>1, RedirectedCounts
      <4> QED
        BY <4>1 DEF Redirects
    <3>4. ASSUME NEW y \in Vertices, NEW c \in Costs
          PROVE  Tally(b, To(y, c)) = Met(E, from, to, x, y, c)
      BY <2>2, <3>3 DEF Met
    <3> QED
      BY <3>2, <3>3, <3>4
  <2>4. CASE ~Joins(x)
    <3>1. F[x] = E[x]
      BY <1>5, <2>4
    <3>2. \A i \in 1 .. Len(L) : L[i][1] # x
      BY <1>8, <2>4
    <3>3. Tally(L, To(x, One)) = 0
      BY <1>8, <3>2, CostTypes, NoneCounted
    <3>4. Has(E, to, x, One) = 0
      BY <1>8, <3>3, CostTypes
    <3>5. Has(E, x, to, One) = 0
      BY <1>1, <2>1, <3>4 DEF Paired
    <3>6. ASSUME NEW y \in Vertices, NEW c \in Costs
          PROVE  Tally(E[x], To(y, c)) = Met(E, from, to, x, y, c)
      <4>1. Has(E, x, to, c) = 0
        BY <1>1, <3>5, HasType
      <4>2. Has(E, x, from, c) \in Nat
        BY <1>13
      <4> QED
        BY <2>2, <4>1, <4>2 DEF Met
    <3> QED
      BY <2>1, <3>1, <3>6
  <2> QED
    BY <2>3, <2>4
<1>16. EdgeLists(F)
  BY <1>12, <1>14, <1>15 DEF EdgeLists
<1>17. ASSUME NEW x \in Vertices, NEW y \in Vertices, NEW c \in Costs
       PROVE  Has(F, x, y, c) = Met(E, from, to, x, y, c)
  <2>1. Has(E, from, from, c) = 0 /\ Has(E, to, to, c) = 0
    <3>1. Has(E, from, from, One) = 0 /\ Has(E, to, to, One) = 0
      BY <1>1 DEF Paired
    <3> QED
      BY <1>1, <3>1, HasType
  <2>2. CASE x = from
    <3>1. Has(F, x, y, c) = Tally(A, To(y, c)) + Tally(L, To(y, c))
      BY <1>12, <1>14, <2>2 DEF Has
    <3>2. /\ Tally(A, To(y, c)) = IF y = to THEN 0 ELSE Has(E, from, y, c)
          /\ Tally(L, To(y, c)) = IF y = from THEN 0 ELSE Has(E, to, y, c)
      BY <1>8, <1>9
    <3>3. Has(E, from, y, c) \in Nat /\ Has(E, to, y, c) \in Nat
      BY <1>13
    <3> QED
      BY <2>1, <2>2, <3>1, <3>2, <3>3 DEF Met
  <2>3. CASE x # from /\ x \in DOMAIN F
    <3>1. Has(F, x, y, c) = Tally(F[x], To(y, c)) /\ x \in DOMAIN E \ {from, to}
      BY <1>12, <2>3 DEF Has
    <3> QED
      BY <1>15, <3>1
  <2>4. CASE x # from /\ x \notin DOMAIN F
    <3>1. Has(F, x, y, c) = 0
      BY <2>4 DEF Has
    <3>2. CASE x = to
      BY <3>1, <3>2 DEF Met
    <3>3. CASE x # to
      <4>1. x \notin DOMAIN E
        BY <1>12, <2>4, <3>3
      <4>2. \A v : Has(E, x, v, c) = 0
        BY <4>1 DEF Has
      <4> QED
        BY <2>4, <3>1, <3>3, <4>2 DEF Met
    <3> QED
      BY <3>2, <3>3
  <2> QED
    BY <2>2, <2>3, <2>4
<1>18. Lengths(F)[from] + 2 * Has(E, from, to, One) = Lengths(E)[from] + Lengths(E)[to]
  <2>1. Lengths(F)[from] = Len(A) + Len(L)
    BY <1>1, <1>12, <1>14 DEF Lengths
  <2>2. Lengths(E)[from] = Len(E[from]) /\ Lengths(E)[to] = Len(E[to])
    BY <1>1 DEF Lengths
  <2> QED
    BY <1>8, <1>9, <1>10, <2>1, <2>2
<1>19. ASSUME NEW x \in Vertices \ {from, to} PROVE Lengths(F)[x] = Lengths(E)[x]
  <2>1. x \in DOMAIN F <=> x \in DOMAIN E
    BY <1>12
  <2> QED
    BY <1>15, <2>1 DEF Lengths
<1>20. Meets(F, E, from, to)
  BY <1>12, <1>16, <1>17, <1>18, <1>19 DEF Meets
<1> QED
  BY <1>11, <1>20

\* Half an edge that find_random_edge() finds leads from one vertex to another.
LEMMA EdgeFound ==
    ASSUME NEW E, Paired(E), NEW n, NEW g, Graph(g, E, n), NEW e \in Cut!HalfEdges(g)
    PROVE  e[1] \in DOMAIN E /\ e[2] \in DOMAIN E /\ e[1] # e[2]
<1>1. g.edges = E
  BY DEF Graph
<1>2. PICK x \in DOMAIN E : \E i \in DOMAIN E[x] : e = <<x, E[x][i][1]>>
  BY <1>1 DEF Cut!HalfEdges
<1>3. PICK i \in DOMAIN E[x] : e = <<x, E[x][i][1]>>
  BY <1>2
<1> DEFINE y == E[x][i][1]
<1>4. E[x] \in Seq(Edge) /\ x \in Vertices
  BY DEF Paired, EdgeLists
<1>5. i \in 1 .. Len(E[x])
  BY <1>4
<1>6. y \in Vertices
  <2>1. E[x][i] \in Edge
    BY <1>4, <1>5
  <2> QED
    BY <2>1 DEF Edge
<1>7. Has(E, x, y, One) # 0
  <2>1. Tally(E[x], To(y, One)) = 0 => FALSE
    BY <1>4, <1>5, NoneCounted
  <2> QED
    BY <2>1 DEF Has
<1>8. Has(E, x, x, One) = 0 /\ Has(E, y, x, One) = Has(E, x, y, One)
  BY <1>4, <1>6 DEF Paired
<1>9. x # y /\ y \in DOMAIN E
  BY <1>7, <1>8 DEF Has
<1> QED
  BY <1>2, <1>3, <1>9

\* The edges to two disjoint groups.
LEMMA AcrossUnion ==
    ASSUME NEW input \in Cut!Inputs, NEW S, NEW T, NEW U,
           S \cap T = {}, S \cap U = {}, T \cap U = {}
    PROVE  Cut!SumOver(input, Across(S \cup T, U))
             = Cut!SumOver(input, Across(S, U)) + Cut!SumOver(input, Across(T, U))
<1>1. Across(S \cup T, U) = Across(S, U) \cup Across(T, U)
  BY DEF Across
<1>2. Across(S, U) \cap Across(T, U) = {}
  <2>1. ASSUME NEW p \in Across(S, U), p \in Across(T, U) PROVE FALSE
    <3>1. PICK x, y : p = <<x, y>>
      BY DEF Across, Cut!Pairs
    <3>2. (x \in S /\ y \in U) \/ (x \in U /\ y \in S)
      BY <3>1 DEF Across
    <3>3. (x \in T /\ y \in U) \/ (x \in U /\ y \in T)
      BY <2>1, <3>1 DEF Across
    <3> QED
      BY <3>2, <3>3
  <2> QED
    BY <2>1
<1>3. Summable(input, Across(S, U)) /\ Summable(input, Across(T, U))
  BY AcrossFacts
<1> QED
  BY <1>1, <1>2, <1>3, SumUnion

LEMMA ContractedStands ==
    ASSUME NEW input \in Cut!Inputs, NEW group, NEW g, NEW E, NEW n,
           Graph(g, E, n), Halved(E, n), Merged(E, group, input),
           Cardinality(DOMAIN E) > 2,
           NEW from \in DOMAIN E, NEW to \in DOMAIN E, from # to,
           NEW joined, joined = [group EXCEPT ![from] = @ \cup group[to], ![to] = {}]
    PROVE  Stands(Cut!Contracted(g, from, to), joined, input)
<1>1. Paired(E) /\ Grouped(group, DOMAIN E) /\ EdgeLists(E)
  BY DEF Merged, Paired
<1>2. DOMAIN E \subseteq Vertices /\ from \in Vertices /\ to \in Vertices
  BY <1>1 DEF EdgeLists
<1>3. PICK F : /\ Meets(F, E, from, to)
               /\ Cut!Contracted(g, from, to)
                    = [edges |-> F, n_vertices |-> Cardinality(DOMAIN E) - 1,
                       n_edges |-> n - Has(E, from, to, One)]
  BY <1>1, ContractedIs
<1>4. /\ EdgeLists(F) /\ DOMAIN F = DOMAIN E \ {to}
      /\ \A x, y, c : x \in Vertices /\ y \in Vertices /\ c \in Costs =>
           Has(F, x, y, c) = Met(E, from, to, x, y, c)
  BY <1>3 DEF Meets
<1>5. Cardinality(DOMAIN F) = Cardinality(DOMAIN E) - 1 /\ Cardinality(DOMAIN F) >= 2
  <2>1. IsFiniteSet(DOMAIN E) /\ Cardinality(DOMAIN E) \in Nat
    BY <1>2, VerticesFinite
  <2>2. Cardinality(DOMAIN E \ {to}) = Cardinality(DOMAIN E) - 1
    BY <2>1, FS_RemoveElement
  <2> QED
    BY <1>4, <2>1, <2>2
<1> DEFINE m == n - Has(E, from, to, One)
<1>6. Graph(Cut!Contracted(g, from, to), F, m)
  BY <1>3, <1>5 DEF Graph
<1>7. Halved(F, m)
  <2>1. Summable(Lengths(E), Vertices) /\ Summable(Lengths(F), Vertices)
    BY <1>1, <1>4, HasType
  <2>2. /\ Lengths(F)[from] + 2 * Has(E, from, to, One) = Lengths(E)[from] + Lengths(E)[to]
        /\ \A x \in Vertices \ {from, to} : Lengths(F)[x] = Lengths(E)[x]
    BY <1>3 DEF Meets
  <2>3. Lengths(F)[to] = 0
    BY <1>2, <1>4 DEF Lengths
  <2>4. Cut!SumOver(Lengths(F), Vertices) + Lengths(E)[from] + Lengths(E)[to]
          = Cut!SumOver(Lengths(E), Vertices) + Lengths(F)[from] + Lengths(F)[to]
    BY <1>2, <2>1, <2>2, SumChange
  <2>5. /\ Lengths(F)[from] \in Nat /\ Lengths(E)[from] \in Nat /\ Lengths(E)[to] \in Nat
        /\ Cut!SumOver(Lengths(F), Vertices) \in Nat /\ Cut!SumOver(Lengths(E), Vertices) \in Nat
        /\ Has(E, from, to, One) \in Nat
    BY <1>1, <1>2, <2>1, SumFacts, HasType, CostTypes DEF Summable
  <2>6. n \in Nat /\ 2 * n = Cut!SumOver(Lengths(E), Vertices)
    BY DEF Halved
  <2>7. 2 * m = Cut!SumOver(Lengths(F), Vertices) /\ m \in Nat
    BY <2>2, <2>3, <2>4, <2>5, <2>6
  <2> QED
    BY <2>7 DEF Halved
<1>8. Paired(F)
  <2>1. ASSUME NEW x \in Vertices, NEW y \in Vertices
        PROVE  Has(F, x, y, One) = Has(F, y, x, One) /\ Has(F, x, x, One) = 0
    <3>1. /\ Has(F, x, y, One) = Met(E, from, to, x, y, One)
          /\ Has(F, y, x, One) = Met(E, from, to, y, x, One)
          /\ Has(F, x, x, One) = Met(E, from, to, x, x, One)
      BY <1>4, CostTypes
    <3>2. \A v, w \in Vertices : Has(E, v, w, One) = Has(E, w, v, One) /\ Has(E, v, v, One) = 0
      BY <1>1 DEF Paired
    <3> QED
      BY <1>2, <3>1, <3>2 DEF Met
  <2> QED
    BY <1>4, <2>1 DEF Paired
<1>9. /\ joined = [x \in Vertices |-> joined[x]]
      /\ \A x \in Vertices : joined[x] = IF x = to THEN {}
                                         ELSE IF x = from THEN group[from] \cup group[to]
                                         ELSE group[x]
  <2>1. group = [x \in Vertices |-> group[x]]
    BY <1>1 DEF Grouped
  <2> QED
    BY <1>2, <2>1
<1>10. /\ \A x \in Vertices : group[x] \subseteq Vertices /\ (group[x] # {} <=> x \in DOMAIN E)
       /\ \A x, y \in Vertices : x # y => group[x] \cap group[y] = {}
       /\ \A z \in Vertices : \E x \in DOMAIN E : z \in group[x]
  BY <1>1 DEF Grouped
<1>11. Grouped(joined, DOMAIN F)
  <2>1. \A x \in Vertices : joined[x] \subseteq Vertices /\ (joined[x] # {} <=> x \in DOMAIN F)
    <3> TAKE x \in Vertices
    <3>1. /\ group[x] \subseteq Vertices /\ group[from] \subseteq Vertices
          /\ group[to] \subseteq Vertices /\ group[from] # {}
          /\ group[x] # {} <=> x \in DOMAIN E
      BY <1>2, <1>10
    <3>2. joined[x] = IF x = to THEN {}
                      ELSE IF x = from THEN group[from] \cup group[to] ELSE group[x]
      BY <1>9
    <3>3. x \in DOMAIN F <=> x \in DOMAIN E /\ x # to
      BY <1>4
    <3>4. CASE x = to
      <4>1. joined[x] = {}
        BY <3>2, <3>4
      <4> QED
        BY <3>3, <3>4, <4>1
    <3>5. CASE x = from
      <4>1. joined[x] = group[from] \cup group[to]
        BY <3>2, <3>5
      <4>2. x \in DOMAIN F
        BY <3>3, <3>5
      <4> QED
        BY <3>1, <4>1, <4>2
    <3>6. CASE x # to /\ x # from
      <4>1. joined[x] = group[x]
        BY <3>2, <3>6
      <4> QED
        BY <3>1, <3>3, <3>6, <4>1
    <3> QED
      BY <3>4, <3>5, <3>6
  <2>2. ASSUME NEW x \in Vertices, NEW y \in Vertices, x # y
        PROVE  joined[x] \cap joined[y] = {}
    <3>1. /\ group[x] \cap group[y] = {}
          /\ x # from => group[x] \cap group[from] = {}
          /\ x # to => group[x] \cap group[to] = {}
          /\ y # from => group[y] \cap group[from] = {}
          /\ y # to => group[y] \cap group[to] = {}
      BY <1>2, <1>10, <2>2
    <3> QED
      BY <1>9, <2>2, <3>1
  <2>3. ASSUME NEW z \in Vertices PROVE \E x \in DOMAIN F : z \in joined[x]
    <3>1. PICK x \in DOMAIN E : z \in group[x]
      BY <1>10
    <3>2. CASE x = to
      <4>1. from \in DOMAIN F /\ joined[from] = group[from] \cup group[to]
        BY <1>2, <1>4, <1>9
      <4> QED
        BY <3>1, <3>2, <4>1
    <3>3. CASE x # to
      <4>1. x \in DOMAIN F /\ group[x] \subseteq joined[x]
        BY <1>2, <1>4, <1>9, <3>1, <3>3
      <4> QED
        BY <3>1, <4>1
    <3> QED
      BY <3>2, <3>3
  <2> QED
    BY <1>9, <2>1, <2>2, <2>3 DEF Grouped
<1> DEFINE sum(x, y) == Cut!SumOver(input, Across(group[x], group[y]))
<1>12. \A x, y \in Vertices : x # y => Has(E, x, y, Own) = sum(x, y)
  BY DEF Merged
<1>13. ASSUME NEW x \in Vertices \ {from, to}
       PROVE  Cut!SumOver(input, Across(joined[from], joined[x])) = sum(from, x) + sum(to, x)
  <2>1. joined[from] = group[from] \cup group[to] /\ joined[x] = group[x]
    BY <1>2, <1>9
  <2>2. /\ group[from] \cap group[to] = {}
        /\ group[from] \cap group[x] = {} /\ group[to] \cap group[x] = {}
    BY <1>2, <1>10
  <2>3. PICK S, T, U : S = group[from] /\ T = group[to] /\ U = group[x]
    OBVIOUS
  <2>4. Cut!SumOver(input, Across(S \cup T, U))
             = Cut!SumOver(input, Across(S, U)) + Cut!SumOver(input, Across(T, U))
    BY <2>2, <2>3, AcrossUnion
  <2> QED
    BY <2>1, <2>3, <2>4
<1>14. ASSUME NEW x \in Vertices, NEW y \in Vertices, x # y
       PROVE  Has(F, x, y, Own) = Cut!SumOver(input, Across(joined[x], joined[y]))
  <2>1. Has(F, x, y, Own) = Met(E, from, to, x, y, Own)
    BY <1>4, CostTypes
  <2>2. CASE x = to \/ y = to
    <3>1. joined[x] = {} \/ joined[y] = {}
      BY <1>9, <2>2
    <3>2. Across(joined[x], joined[y]) = {}
      BY <3>1 DEF Across
    <3>3. Cut!SumOver(input, {}) = 0
      BY FS_EmptySet, SumZero
    <3> QED
      BY <2>1, <2>2, <3>2, <3>3 DEF Met
  <2>3. CASE x = from /\ y # to
    <3>1. Has(F, x, y, Own) = Has(E, from, y, Own) + Has(E, to, y, Own)
      BY <1>14, <2>1, <2>3 DEF Met
    <3>2. Has(E, from, y, Own) = sum(from, y) /\ Has(E, to, y, Own) = sum(to, y)
      BY <1>2, <1>12, <1>14, <2>3
    <3> QED
      BY <1>13, <1>14, <2>3, <3>1, <3>2
  <2>4. CASE y = from /\ x # to
    <3>1. Has(F, x, y, Own) = Has(E, x, from, Own) + Has(E, x, to, Own)
      BY <1>2, <1>14, <2>1, <2>4 DEF Met
    <3>2. Has(E, x, from, Own) = sum(x, from) /\ Has(E, x, to, Own) = sum(x, to)
      BY <1>2, <1>12, <1>14, <2>4
    <3>3. sum(x, from) = sum(from, x) /\ sum(x, to) = sum(to, x)
          /\ Across(joined[x], joined[y]) = Across(joined[y], joined[x])
      BY AcrossFacts
    <3> QED
      BY <1>13, <1>14, <2>4, <3>1, <3>2, <3>3
  <2>5. CASE x \notin {from, to} /\ y \notin {from, to}
    <3>1. joined[x] = group[x] /\ joined[y] = group[y]
      BY <1>9, <2>5
    <3> QED
      BY <1>12, <1>14, <2>1, <2>5, <3>1 DEF Met
  <2> QED
    BY <2>2, <2>3, <2>4, <2>5
<1>15. Merged(F, joined, input)
  BY <1>5, <1>8, <1>11, <1>14 DEF Merged
<1> HIDE DEF m
<1> QED
  BY <1>6, <1>7, <1>15 DEF Stands

(***************************************************************************)
(* What a graph of groups answers                                            *)
(***************************************************************************)

IsCut(w, input) ==
    \E S \in (SUBSET Vertices) \ {{}, Vertices} :
      w = Cut!SumOver(input, Across(S, Vertices \ S))

\* Two groups, neither of them empty or everything.
LEMMA GroupsProper ==
    ASSUME NEW input, NEW E, NEW group, Merged(E, group, input), NEW x \in DOMAIN E
    PROVE  group[x] \in (SUBSET Vertices) \ {{}, Vertices}
<1>1. Grouped(group, DOMAIN E) /\ DOMAIN E \subseteq Vertices /\ Cardinality(DOMAIN E) >= 2
  BY DEF Merged, Paired, EdgeLists
<1>2. PICK y \in DOMAIN E : y # x
  <2>1. DOMAIN E # {x}
    <3>1. Cardinality({x}) = 1
      BY FS_Singleton
    <3> QED
      BY <1>1, <3>1
  <2> QED
    BY <2>1
<1>3. /\ group[x] \subseteq Vertices /\ group[x] # {}
      /\ group[y] \subseteq Vertices /\ group[y] # {} /\ group[x] \cap group[y] = {}
  BY <1>1, <1>2 DEF Grouped
<1> QED
  BY <1>3

\* The graph is connected: there is always an edge left to choose.
LEMMA NeverAlone ==
    ASSUME NEW input \in Cut!Inputs, NEW E, NEW group, Merged(E, group, input), NEW x \in DOMAIN E
    PROVE  E[x] # <<>>
<1>1. Grouped(group, DOMAIN E) /\ DOMAIN E \subseteq Vertices /\ EdgeLists(E)
  BY DEF Merged, Paired, EdgeLists
<1>2. group[x] \in (SUBSET Vertices) \ {{}, Vertices}
  BY GroupsProper
<1>3. PICK p \in Cut!Pairs : input[p] # Cut!None /\ (p[1] \in group[x] <=> p[2] \notin group[x])
  BY <1>2 DEF Cut!Inputs, Cut!Connected
<1>4. p \in Entered(input)
  BY <1>3 DEF Entered
<1>5. p[1] \in Vertices /\ p[2] \in Vertices /\ p = <<p[1], p[2]>> /\ input[p] \in Weights
  BY <1>4, InputTypes
<1>6. PICK y \in DOMAIN E : /\ y # x
                            /\ p \in Across(group[x], group[y])
  <2>1. PICK z \in Vertices : /\ z \notin group[x]
                              /\ \A T : z \in T => p \in group[x] \X T \/ p \in T \X group[x]
    <3>1. CASE p[1] \in group[x]
      BY <1>3, <1>5, <3>1
    <3>2. CASE p[1] \notin group[x]
      BY <1>3, <1>5, <3>2
    <3> QED
      BY <3>1, <3>2
  <2>2. PICK y \in DOMAIN E : z \in group[y]
    BY <1>1 DEF Grouped
  <2> QED
    BY <2>1, <2>2 DEF Across
<1>7. Summable(input, Across(group[x], group[y]))
  BY AcrossFacts
<1>8. input[p] <= Cut!SumOver(input, Across(group[x], group[y]))
      /\ Cut!SumOver(input, Across(group[x], group[y])) \in Nat
  BY <1>6, <1>7, SumBounds, SumFacts
<1>9. Has(E, x, y, Own) = Cut!SumOver(input, Across(group[x], group[y]))
  BY <1>1, <1>6 DEF Merged
<1>10. input[p] \in Nat /\ input[p] # 0
  BY <1>5, CostTypes
<1>11. Tally(E[x], To(y, Own)) # 0
  BY <1>8, <1>9, <1>10 DEF Has
<1> QED
  BY <1>11, TallyEmpty, CostTypes

\* The adjacency list of either vertex left weighs a cut.
LEMMA TwoLeft ==
    ASSUME NEW input \in Cut!Inputs, NEW g, NEW group, Stands(g, group, input),
           g.n_vertices = 2, NEW x \in DOMAIN g.edges
    PROVE  /\ IsCut(Cut!WeightTo(g.edges[x], Vertices), input)
           /\ Cut!WeightTo(g.edges[x], Vertices) \in Nat
<1>1. PICK E, n : Graph(g, E, n) /\ Halved(E, n) /\ Merged(E, group, input)
  BY DEF Stands
<1>2. g.edges = E /\ Cardinality(DOMAIN E) = 2
  BY <1>1 DEF Graph
<1>3. Paired(E) /\ Grouped(group, DOMAIN E) /\ DOMAIN E \subseteq Vertices /\ EdgeLists(E)
  BY <1>1 DEF Merged, Paired, EdgeLists
<1>4. PICK y \in DOMAIN E : y # x /\ DOMAIN E = {x, y}
  <2>1. IsFiniteSet(DOMAIN E) /\ x \in DOMAIN E
    BY <1>2, <1>3, VerticesFinite
  <2>2. Cardinality(DOMAIN E \ {x}) = 1 /\ IsFiniteSet(DOMAIN E \ {x})
    BY <1>2, <2>1, FS_RemoveElement
  <2>3. PICK y : DOMAIN E \ {x} = {y}
    BY <2>2, FS_Singleton
  <2> QED
    BY <2>1, <2>3
<1>5. ASSUME NEW i \in 1 .. Len(E[x])
      PROVE  E[x][i][1] = y
  <2>1. PICK e : e = <<x, E[x][i][1]>>
    OBVIOUS
  <2>2. E[x] \in Seq(Edge)
    BY <1>2, <1>3 DEF EdgeLists
  <2>3. i \in DOMAIN E[x]
    BY <2>2
  <2>4. e \in Cut!HalfEdges(g)
    BY <1>2, <2>1, <2>3 DEF Cut!HalfEdges
  <2>5. e[1] \in DOMAIN E /\ e[2] \in DOMAIN E /\ e[1] # e[2]
    BY <1>1, <1>3, <2>4, EdgeFound
  <2> QED
    BY <1>4, <2>1, <2>5
<1>6. Cut!WeightTo(E[x], Vertices) = Has(E, x, y, Own) /\ Has(E, x, y, Own) \in Nat
  <2>1. E[x] \in Seq(Edge)
    BY <1>2, <1>3 DEF EdgeLists
  <2>2. Cut!WeightTo(E[x], Vertices) = Tally(E[x], To(y, Own))
    BY <1>5, <2>1, WeightCounts
  <2> QED
    BY <1>2, <1>3, <2>2, HasType, CostTypes DEF Has
<1>7. group[y] = Vertices \ group[x]
  <2>1. /\ \A v \in Vertices : group[v] \subseteq Vertices
        /\ group[x] \cap group[y] = {}
        /\ \A z \in Vertices : \E v \in DOMAIN E : z \in group[v]
    BY <1>2, <1>3, <1>4 DEF Grouped
  <2>2. \A z \in Vertices : z \in group[x] \/ z \in group[y]
    BY <1>4, <2>1
  <2>3. x \in Vertices /\ y \in Vertices
    BY <1>2, <1>3, <1>4
  <2> QED
    BY <2>1, <2>2, <2>3
<1>8. Has(E, x, y, Own) = Cut!SumOver(input, Across(group[x], group[y]))
  BY <1>1, <1>2, <1>3, <1>4 DEF Merged
<1>9. group[x] \in (SUBSET Vertices) \ {{}, Vertices}
  BY <1>1, <1>2, GroupsProper
<1> QED
  BY <1>2, <1>6, <1>7, <1>8, <1>9 DEF IsCut

LEMMA LengthsSum ==
    ASSUME NEW E, EdgeLists(E), NEW n, Halved(E, n)
    PROVE  2 * n = Cut!SumOver([x \in DOMAIN E |-> Len(E[x])], DOMAIN E)
<1> DEFINE D == DOMAIN E
           w == [x \in D |-> Len(E[x])]
<1>1. D \subseteq Vertices /\ Summable(Lengths(E), Vertices)
  BY HasType DEF EdgeLists
<1>2. Summable(Lengths(E), D) /\ Summable(Lengths(E), Vertices \ D)
  BY <1>1, VerticesFinite DEF Summable
<1>3. Cut!SumOver(Lengths(E), D \cup (Vertices \ D))
        = Cut!SumOver(Lengths(E), D) + Cut!SumOver(Lengths(E), Vertices \ D)
  <2>1. D \cap (Vertices \ D) = {}
    OBVIOUS
  <2> HIDE DEF D
  <2> QED
    BY <1>2, <2>1, SumUnion
<1>4. Cut!SumOver(Lengths(E), Vertices \ D) = 0
  <2>1. \A x \in Vertices \ D : Lengths(E)[x] = 0
    BY DEF Lengths
  <2> QED
    BY <1>2, <2>1, SumZero DEF Summable
<1>5. Cut!SumOver(Lengths(E), D) = Cut!SumOver(w, D)
  <2>1. \A x \in D : Lengths(E)[x] = w[x]
    BY <1>1 DEF Lengths
  <2> HIDE DEF D, w
  <2> QED
    BY <1>2, <2>1, SumSame
<1>6. D \cup (Vertices \ D) = Vertices
  BY <1>1
<1>7. Cut!SumOver(Lengths(E), D) \in Nat
  BY <1>2, SumFacts
<1> HIDE DEF D, w
<1>8. 2 * n = Cut!SumOver(w, D)
  <2>1. Cut!SumOver(Lengths(E), D \cup (Vertices \ D)) = Cut!SumOver(Lengths(E), Vertices)
    BY <1>6, Zenon
  <2>2. 2 * n = Cut!SumOver(Lengths(E), Vertices)
    BY DEF Halved
  <2> QED
    BY <1>3, <1>4, <1>5, <1>7, <2>1, <2>2
<1> QED
  BY <1>8 DEF D, w

LEMMA StandsQuotient ==
    ASSUME state.input \in Cut!Inputs, Stands(state.trial, state.group, state.input)
    PROVE  Cut!Quotient
<1> DEFINE g == state.trial
           group == state.group
           input == state.input
<1>1. PICK E, n : Graph(g, E, n) /\ Halved(E, n) /\ Merged(E, group, input)
  BY DEF Stands
<1>2. g.edges = E /\ g.n_vertices = Cardinality(DOMAIN E) /\ g.n_edges = n
  BY <1>1 DEF Graph
<1>3. Paired(E) /\ EdgeLists(E) /\ DOMAIN E \subseteq Vertices
  BY <1>1 DEF Merged, Paired, EdgeLists
<1>4. g.n_vertices = Cut!Cardinality(DOMAIN E)
  BY <1>2, CutCardinality
<1>5. 2 * n = Cut!SumOver([x \in DOMAIN E |-> Len(E[x])], DOMAIN E)
  BY <1>1, <1>3, LengthsSum
<1>6. ASSUME NEW x \in DOMAIN E, NEW y \in DOMAIN E
      PROVE  Cut!WeightTo(E[x], {y}) = IF x = y THEN 0 ELSE Cut!Between(group[x], group[y])
  <2>1. E[x] \in Seq(Edge) /\ x \in Vertices /\ y \in Vertices
    BY <1>3 DEF EdgeLists
  <2>2. Cut!WeightTo(E[x], {y}) = Has(E, x, y, Own)
    BY <2>1, WeightCounts DEF Has
  <2>3. CASE x = y
    <3>1. Has(E, x, x, One) = 0
      BY <1>3, <2>1 DEF Paired
    <3>2. Has(E, x, x, Own) = 0
      BY <1>3, <3>1, HasType, CostTypes
    <3> QED
      BY <2>2, <2>3, <3>2
  <2>4. CASE x # y
    <3>1. Has(E, x, y, Own) = Cut!SumOver(input, Across(group[x], group[y]))
      BY <1>1, <2>1, <2>4 DEF Merged
    <3>2. Cut!Between(group[x], group[y]) = Cut!SumOver(input, Across(group[x], group[y]))
      BY DEF Cut!Between, Across
    <3> QED
      BY <2>2, <2>4, <3>1, <3>2
  <2> QED
    BY <2>3, <2>4
<1>7. \A x \in DOMAIN E : E[x] # <<>>
  BY <1>1, NeverAlone
<1> HIDE DEF g, group, input
<1>8. /\ g.n_vertices = Cut!Cardinality(DOMAIN g.edges)
      /\ 2 * g.n_edges = Cut!SumOver([x \in DOMAIN g.edges |-> Len(g.edges[x])], DOMAIN g.edges)
      /\ \A x, y \in DOMAIN g.edges :
           Cut!WeightTo(g.edges[x], {y}) = IF x = y THEN 0 ELSE Cut!Between(group[x], group[y])
      /\ \A x \in DOMAIN g.edges : g.edges[x] # <<>>
  BY <1>2, <1>4, <1>5, <1>6, <1>7
<1> QED
  BY <1>8 DEF Cut!Quotient, g, group

(***************************************************************************)
(* The inductive invariant                                                   *)
(***************************************************************************)

\* Before the graph is read, and once it is.
Reads(input, graph, trial, left, min, group) ==
    \/ /\ graph = Cut!Default /\ trial = Cut!Default /\ left = 0
       /\ min = Cut!None /\ group = Cut!Single
    \/ /\ input \in Cut!Inputs
       /\ Stands(graph, Cut!Single, input) /\ Stands(trial, group, input)
       /\ min \in Nat /\ (min # Cut!None => IsCut(min, input))

CutInv ==
    \E input, graph, trial, left, min, group :
      /\ state = [input |-> input, graph |-> graph, trial |-> trial, left |-> left,
                  min_cut_so_far |-> min, group |-> group]
      /\ Reads(input, graph, trial, left, min, group)

LEMMA CutInit == ASSUME Cut!Init PROVE CutInv
BY DEF CutInv, Cut!Init, Reads

LEMMA StandsRead ==
    ASSUME NEW g, NEW group, NEW input, Stands(g, group, input) PROVE g # Cut!Default
<1>1. PICK E, n : Graph(g, E, n) /\ Merged(E, group, input)
  BY DEF Stands
<1>2. g.n_vertices >= 2
  BY <1>1 DEF Graph, Merged
<1> QED
  BY <1>2 DEF Cut!Default

LEMMA CutStep == ASSUME CutInv, Cut!Next PROVE CutInv'
<1>1. PICK input, graph, trial, left, min, group :
        /\ state = [input |-> input, graph |-> graph, trial |-> trial, left |-> left,
                    min_cut_so_far |-> min, group |-> group]
        /\ Reads(input, graph, trial, left, min, group)
  BY DEF CutInv
<1>2. /\ state.input = input /\ state.graph = graph /\ state.trial = trial
      /\ state.left = left /\ state.min_cut_so_far = min /\ state.group = group
  BY <1>1
<1>3. CASE Cut!Build
  <2>1. PICK i \in Cut!Inputs :
          state' = [state EXCEPT !.input = i, !.graph = Cut!Built(i),
                                 !.trial = Cut!Built(i), !.left = Trials]
    BY <1>3 DEF Cut!Build
  <2>2. graph = Cut!Default
    BY <1>2, <1>3 DEF Cut!Build
  <2>3. min = Cut!None /\ group = Cut!Single
    BY <1>1, <2>2, StandsRead DEF Reads
  <2>4. state' = [input |-> i, graph |-> Cut!Built(i), trial |-> Cut!Built(i),
                  left |-> Trials, min_cut_so_far |-> min, group |-> group]
    BY <1>1, <2>1
  <2>5. Stands(Cut!Built(i), Cut!Single, i)
    BY BuiltStands
  <2>6. Reads(i, Cut!Built(i), Cut!Built(i), Trials, min, group)
    BY <2>3, <2>5 DEF Reads, Cut!None
  <2> QED
    BY <2>4, <2>6 DEF CutInv
<1>4. CASE left > 0 /\ (Cut!Contract \/ Cut!EndTrial)
  <2>1. /\ input \in Cut!Inputs
        /\ Stands(graph, Cut!Single, input) /\ Stands(trial, group, input)
        /\ min \in Nat /\ (min # Cut!None => IsCut(min, input))
    <3>1. left # 0
      BY <1>4
    <3> QED
      BY <1>1, <3>1 DEF Reads
  <2>2. CASE Cut!Contract
    <3>1. PICK E, n : Graph(trial, E, n) /\ Halved(E, n) /\ Merged(E, group, input)
      BY <2>1 DEF Stands
    <3>2. Cardinality(DOMAIN E) > 2
      BY <1>2, <2>2, <3>1 DEF Cut!Contract, Graph
    <3> DEFINE low(e) == IF e[1] < e[2] THEN e[1] ELSE e[2]
               high(e) == IF e[1] < e[2] THEN e[2] ELSE e[1]
    <3>3. PICK e \in Cut!HalfEdges(trial) :
            state' = [state EXCEPT !.trial = Cut!Contracted(trial, low(e), high(e)),
                                   !.group = [group EXCEPT ![low(e)] = @ \cup group[high(e)],
                                                           ![high(e)] = {}]]
      <4>1. PICK e \in Cut!HalfEdges(state.trial) :
              state' = [state EXCEPT
                          !.trial = Cut!Contracted(state.trial, low(e), high(e)),
                          !.group = [state.group EXCEPT
                                       ![low(e)] = @ \cup state.group[high(e)],
                                       ![high(e)] = {}]]
        BY <2>2, Zenon DEF Cut!Contract
      <4> HIDE DEF low, high
      <4> QED
        BY <1>2, <4>1, Zenon
    <3>4. e[1] \in DOMAIN E /\ e[2] \in DOMAIN E /\ e[1] # e[2]
      BY <3>1, EdgeFound DEF Merged
    <3>5. PICK from \in DOMAIN E, to \in DOMAIN E :
            from = low(e) /\ to = high(e) /\ from # to
      BY <3>4
    <3> HIDE DEF low, high
    <3>6. PICK joined : joined = [group EXCEPT ![from] = @ \cup group[to], ![to] = {}]
      OBVIOUS
    <3>7. PICK met : met = Cut!Contracted(trial, from, to)
      OBVIOUS
    <3>8. Stands(met, joined, input)
      BY <2>1, <3>1, <3>2, <3>5, <3>6, <3>7, ContractedStands
    <3>9. state' = [input |-> input, graph |-> graph, trial |-> met, left |-> left,
                    min_cut_so_far |-> min, group |-> joined]
      <4>1. state' = [state EXCEPT !.trial = met, !.group = joined]
        BY <3>3, <3>5, <3>6, <3>7
      <4> QED
        BY <1>1, <4>1
    <3>10. Reads(input, graph, met, left, min, joined)
      BY <2>1, <3>8 DEF Reads
    <3> QED
      BY <3>9, <3>10 DEF CutInv
  <2>3. CASE Cut!EndTrial
    <3>1. trial.n_vertices = 2
      BY <1>2, <2>3 DEF Cut!EndTrial
    <3>2. PICK v \in DOMAIN trial.edges :
            LET sum == Cut!WeightTo(trial.edges[v], Vertices) IN
            state' = [state EXCEPT
                        !.min_cut_so_far = IF @ = Cut!None \/ sum < @ THEN sum ELSE @,
                        !.left = @ - 1, !.trial = graph, !.group = Cut!Single]
      BY <1>2, <2>3 DEF Cut!EndTrial
    <3>3. PICK sum : sum = Cut!WeightTo(trial.edges[v], Vertices)
      OBVIOUS
    <3>4. IsCut(sum, input) /\ sum \in Nat
      BY <2>1, <3>1, <3>3, TwoLeft
    <3>5. PICK best : best = IF min = Cut!None \/ sum < min THEN sum ELSE min
      OBVIOUS
    <3>6. state' = [input |-> input, graph |-> graph, trial |-> graph, left |-> left - 1,
                    min_cut_so_far |-> best, group |-> Cut!Single]
      BY <1>1, <3>2, <3>3, <3>5
    <3>7. best \in Nat /\ (best # Cut!None => IsCut(best, input))
      BY <2>1, <3>4, <3>5
    <3>8. Reads(input, graph, graph, left - 1, best, Cut!Single)
      BY <2>1, <3>7 DEF Reads
    <3> QED
      BY <3>6, <3>8 DEF CutInv
  <2> QED
    BY <1>4, <2>2, <2>3
<1> QED
  BY <1>2, <1>3, <1>4 DEF Cut!Next, Cut!Contract, Cut!EndTrial

LEMMA CutAnswers == ASSUME CutInv PROVE Cut!ReportedIsCut
<1>1. PICK input, graph, trial, left, min, group :
        /\ state = [input |-> input, graph |-> graph, trial |-> trial, left |-> left,
                    min_cut_so_far |-> min, group |-> group]
        /\ Reads(input, graph, trial, left, min, group)
  BY DEF CutInv
<1>2. /\ state.input = input /\ state.trial = trial
      /\ state.min_cut_so_far = min /\ state.group = group
  BY <1>1
<1>3. CASE trial = Cut!Default /\ min = Cut!None
  <2>1. DOMAIN trial.edges = {} /\ trial.n_vertices = 0 /\ trial.n_edges = 0
    BY <1>3 DEF Cut!Default
  <2>2. Cut!Cardinality({}) = 0
    BY FS_EmptySet, CutCardinality
  <2>3. \A w : Cut!SumOver(w, {}) = 0
    BY FS_EmptySet, SumZero
  <2>4. Cut!Quotient
    BY <1>2, <2>1, <2>2, <2>3 DEF Cut!Quotient
  <2> QED
    BY <1>2, <1>3, <2>4 DEF Cut!ReportedIsCut
<1>4. CASE /\ input \in Cut!Inputs /\ Stands(trial, group, input)
           /\ (min # Cut!None => IsCut(min, input))
  <2>1. Cut!Quotient
    BY <1>2, <1>4, StandsQuotient
  <2>2. min # Cut!None => \E S \in (SUBSET Vertices) \ {{}, Vertices} :
                            min = Cut!Between(S, Vertices \ S)
    BY <1>2, <1>4 DEF IsCut, Cut!Between, Across
  <2> QED
    BY <1>2, <2>1, <2>2 DEF Cut!ReportedIsCut
<1> QED
  BY <1>1, <1>3, <1>4 DEF Reads

THEOREM CutsAreReported == PlainSpec => []ReportedIsCut
<1> DEFINE Inv == program = "cut" => CutInv
<1>1. PlainInit => Inv
  BY CutInit DEF PlainInit
<1>2. Inv /\ [PlainNext]_plainVars => Inv'
  <2> SUFFICES ASSUME Inv, [PlainNext]_plainVars, program' = "cut" PROVE CutInv'
    OBVIOUS
  <2>1. CASE PlainNext
    <3>1. program = "cut" /\ Cut!Next
      BY <2>1 DEF PlainNext
    <3> QED
      BY <3>1, CutStep
  <2>2. CASE UNCHANGED plainVars
    BY <2>2 DEF plainVars, CutInv
  <2> QED
    BY <2>1, <2>2
<1>3. Inv => ReportedIsCut
  BY CutAnswers DEF ReportedIsCut
<1> QED
  BY <1>1, <1>2, <1>3, PTL DEF PlainSpec
================================================================================
