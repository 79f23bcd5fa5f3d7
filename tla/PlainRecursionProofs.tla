-------------------------- MODULE PlainRecursionProofs --------------------------
(***************************************************************************)
(* Proofs about the programs of PlainPrograms whose loops and sums are       *)
(* recursive functions: the disjoint sets and the running medians.           *)
(***************************************************************************)
EXTENDS PlainProgramsProofs

(***************************************************************************)
(* Counting up to a number, with a set of numbers in the place of a          *)
(* predicate                                                                 *)
(***************************************************************************)

LEMMA UpTo ==
    ASSUME NEW n \in Nat, NEW G, 0 \in G, \A k \in 1 .. n : k - 1 \in G => k \in G
    PROVE  \A k \in 0 .. n : k \in G
<1> DEFINE Bad == {k \in 0 .. n : k \notin G}
<1> SUFFICES ASSUME Bad # {} PROVE FALSE
  OBVIOUS
<1>1. PICK k \in Bad : \A y \in Bad : k <= y
  <2>1. Bad \in SUBSET Nat
    OBVIOUS
  <2> HIDE DEF Bad
  <2> QED
    BY <2>1, Least
<1>2. k \in 1 .. n /\ k \notin G
  BY <1>1
<1>3. k - 1 \in Bad
  BY <1>2
<1> QED
  BY <1>1, <1>2, <1>3

\* The values f of applying F to b up to n times.
Iterates(f, F, b, n) == f[0] = b /\ \A k \in 1 .. n : f[k] = F[f[k - 1]]

\* A function can be applied n times.
LEMMA Iterated ==
    ASSUME NEW S, NEW F \in [S -> S], NEW b \in S, NEW n \in Nat
    PROVE  \E f \in [0 .. n -> S] : Iterates(f, F, b, n)
<1> DEFINE Run(m, f) == Iterates(f, F, b, m)
           G == {m \in 0 .. n : \E f \in [0 .. m -> S] : Run(m, f)}
<1> USE DEF Iterates
<1>1. 0 \in G
  <2> DEFINE f == [k \in 0 .. 0 |-> b]
  <2>1. f \in [0 .. 0 -> S] /\ Run(0, f)
    OBVIOUS
  <2> HIDE DEF f
  <2> QED
    BY <2>1
<1>2. ASSUME NEW m \in 1 .. n, m - 1 \in G
      PROVE  m \in G
  <2>1. PICK f \in [0 .. m - 1 -> S] : Run(m - 1, f)
    BY <1>2
  <2> DEFINE g == [k \in 0 .. m |-> IF k = m THEN F[f[m - 1]] ELSE f[k]]
  <2>2. g \in [0 .. m -> S]
    <3>1. f[m - 1] \in S /\ \A k \in 0 .. m - 1 : f[k] \in S
      BY <2>1
    <3>2. F[f[m - 1]] \in S
      BY <3>1
    <3>3. \A k \in 0 .. m : k # m => k \in 0 .. m - 1
      OBVIOUS
    <3> QED
      BY <3>1, <3>2, <3>3
  <2>3. g[0] = b
    BY <2>1
  <2>4. ASSUME NEW k \in 1 .. m
        PROVE  g[k] = F[g[k - 1]]
    <3>1. g[k - 1] = f[k - 1]
      OBVIOUS
    <3>2. CASE k = m
      BY <3>1, <3>2
    <3>3. CASE k # m
      <4>1. k \in 1 .. m - 1 /\ g[k] = f[k]
        BY <3>3
      <4> QED
        BY <2>1, <3>1, <4>1
    <3> QED
      BY <3>2, <3>3
  <2> HIDE DEF g
  <2> QED
    BY <2>2, <2>3, <2>4
<1>3. n \in G
  <2> HIDE DEF G
  <2>1. \A k \in 0 .. n : k \in G
    BY <1>1, <1>2, UpTo
  <2> QED
    BY <2>1
<1> HIDE DEF Iterates
<1> QED
  BY <1>3

LEMMA SetsCardinality ==
    ASSUME NEW S PROVE Sets!Cardinality(S) = Cardinality(S)
BY Zenon DEF Cardinality, Sets!Cardinality

(***************************************************************************)
(* The inductive invariant of the disjoint sets                              *)
(***************************************************************************)

Id == [Elements -> Elements]
Bound == Cardinality(Elements)

SetsTyped == /\ state \in [id : Id, rank : [Elements -> Nat], partition : SUBSET (SUBSET Elements)]

\* Two elements of the same class of p.
Together(p, a, b) == \A c \in p : a \in c <=> b \in c

Partitioned(p) ==
    /\ \A a \in Elements : \E c \in p : a \in c
    /\ \A c, d \in p : \A a \in Elements : a \in c /\ a \in d => c = d

\* The links of id stay within a class and lead to higher ranks.
Climbing(id, rank, p) ==
    \A a \in Elements : /\ Together(p, a, id[a])
                        /\ id[a] # a => rank[a] < rank[id[a]]

\* A class has one root.
OneRoot(id, p) ==
    \A c \in p : \A a, b \in c : id[a] = a /\ id[b] = b => a = b

\* Ranks are low.
Low(id, rank, p) ==
    \A c \in p : \A a \in c : /\ rank[a] < Cardinality(c)
                              /\ id[a] = a => Sets!PowerOfTwo[rank[a]] <= Cardinality(c)

SetsInv ==
    /\ SetsTyped
    /\ Partitioned(state.partition)
    /\ Climbing(state.id, state.rank, state.partition)
    /\ OneRoot(state.id, state.partition)
    /\ Low(state.id, state.rank, state.partition)

(***************************************************************************)
(* find                                                                      *)
(***************************************************************************)

\* The same roots, before and after paths are halved.
SameRoots(id, new) == \A a \in Elements : new[a] = a <=> id[a] = a

LEMMA ElementsFinite == /\ IsFiniteSet(Elements) /\ Bound \in Nat
                        /\ \A c \in SUBSET Elements : /\ IsFiniteSet(c) /\ Cardinality(c) \in 0 .. Bound
<1>1. IsFiniteSet(Elements)
  <2>1. Sets!IsFiniteSet(Elements)
    BY PlainAssumption DEF Sets!ElementsAssumption
  <2> QED
    BY <2>1, Zenon DEF Sets!IsFiniteSet, IsFiniteSet
<1> QED
  BY <1>1, FS_Subset, FS_CardinalityType DEF Bound

\* One turn of the loop keeps the roots and what the links say, and climbs.
LEMMA HalvedClimbs ==
    ASSUME NEW rank \in [Elements -> Nat], NEW p \in SUBSET (SUBSET Elements),
           NEW w, w.root \in Elements, w.id \in Id, Climbing(w.id, rank, p),
           NEW new, new = Sets!Halved(w)
    PROVE  /\ new.root \in Elements /\ new.id \in Id
           /\ Climbing(new.id, rank, p) /\ SameRoots(w.id, new.id)
           /\ Together(p, w.root, new.root)
           /\ w.id[w.root] = w.root => new.root = w.root
           /\ w.id[w.root] # w.root => rank[w.root] < rank[new.root]
<1> DEFINE id == w.id
           a == w.root
           top == id[id[a]]
<1>1. CASE id[a] = a
  <2>1. new = w
    BY <1>1 DEF Sets!Halved
  <2> QED
    BY <1>1, <2>1 DEF SameRoots, Together
<1>2. CASE id[a] # a
  <2>1. new.root = top /\ new.id = [id EXCEPT ![a] = top]
    <3>1. new = [root |-> top, id |-> [id EXCEPT ![a] = top]]
      BY <1>2 DEF Sets!Halved
    <3> HIDE DEF top, id, a
    <3> QED
      BY ONLY <3>1
  <2> HIDE DEF id, a
  <2>2. id[a] \in Elements /\ top \in Elements
    BY DEF Id, id, a
  <2>3. Together(p, a, id[a]) /\ Together(p, id[a], top) /\ Together(p, a, top)
    BY <2>2 DEF Climbing, Together, id, a
  <2>4. rank[a] < rank[top]
    <3>1. rank[a] < rank[id[a]] /\ (id[a] # top => rank[id[a]] < rank[top])
      BY <1>2, <2>2 DEF Climbing, id, a
    <3>2. rank[a] \in Nat /\ rank[id[a]] \in Nat /\ rank[top] \in Nat
      BY <2>2 DEF a
    <3> HIDE DEF top
    <3> QED
      BY <3>1, <3>2
  <2>5. top # a
    <3>1. rank[a] \in Nat
      BY DEF a
    <3> HIDE DEF top
    <3> QED
      BY <2>4, <3>1
  <2> HIDE DEF top
  <2>6. /\ [id EXCEPT ![a] = top] \in Id
        /\ \A b \in Elements : [id EXCEPT ![a] = top][b] = IF b = a THEN top ELSE id[b]
    BY <2>2 DEF Id, id
  <2>7. Climbing(new.id, rank, p)
    BY <2>1, <2>3, <2>4, <2>6 DEF Climbing, id
  <2>8. SameRoots(w.id, new.id)
    BY <1>2, <2>1, <2>5, <2>6 DEF SameRoots, id
  <2> QED
    BY <1>2, <2>1, <2>2, <2>3, <2>4, <2>6, <2>7, <2>8 DEF id, a
<1> QED
  BY <1>1, <1>2

Walks == [root : Elements, id : Id]

LEMMA HalvedTyped == ASSUME NEW w \in Walks PROVE Sets!Halved(w) \in Walks
<1>1. w.root \in Elements /\ w.id \in Id
  BY DEF Walks
<1>2. w.id[w.id[w.root]] \in Elements
  BY <1>1 DEF Id
<1>3. [w.id EXCEPT ![w.root] = w.id[w.id[w.root]]] \in Id
  BY <1>1, <1>2 DEF Id
<1> QED
  BY <1>1, <1>2, <1>3 DEF Sets!Halved, Walks

\* The loop of find, turn by turn.
LEMMA FindWalks ==
    ASSUME NEW id \in Id, NEW a \in Elements
    PROVE  \E walk \in [0 .. Bound -> Walks] :
              /\ walk[0] = [root |-> a, id |-> id]
              /\ \A k \in 1 .. Bound : walk[k] = Sets!Halved(walk[k - 1])
              /\ Sets!Find(id, a) = walk[Bound]
<1> DEFINE b == [root |-> a, id |-> id]
           n == Sets!Cardinality(Elements)
           step(f) == [turn \in 0 .. n |-> IF turn = 0 THEN b ELSE Sets!Halved(f[turn - 1])]
           walk == CHOOSE f : f = step(f)
<1>1. n = Bound /\ n \in Nat
  BY SetsCardinality, ElementsFinite DEF Bound
<1>2. Sets!Find(id, a) = walk[n]
  BY DEF Sets!Find
<1> HIDE DEF n
<1>3. \E f \in [0 .. n -> Walks] : f = step(f)
  <2> DEFINE F == [w \in Walks |-> Sets!Halved(w)]
  <2>1. F \in [Walks -> Walks] /\ b \in Walks
    BY HalvedTyped DEF Walks
  <2>2. \A w \in Walks : F[w] = Sets!Halved(w)
    OBVIOUS
  <2> HIDE DEF F, b
  <2>3. PICK f \in [0 .. n -> Walks] : Iterates(f, F, b, n)
    BY <1>1, <2>1, Iterated
  <2>4. \A k \in 0 .. n : f[k] = IF k = 0 THEN b ELSE Sets!Halved(f[k - 1])
    <3> TAKE k \in 0 .. n
    <3>1. k # 0 => k \in 1 .. n /\ k - 1 \in 0 .. n
      BY <1>1
    <3> QED
      BY <2>2, <2>3, <3>1 DEF Iterates
  <2>5. f = step(f)
    BY <2>3, <2>4
  <2> QED
    BY <2>5
<1>4. walk = step(walk)
  BY <1>3
<1> HIDE DEF walk
<1>5. walk[0] = b /\ \A k \in 1 .. n : walk[k] = Sets!Halved(walk[k - 1])
  BY <1>1, <1>4
<1>6. \A k \in 0 .. n : walk[k] \in Walks
  <2> DEFINE G == {k \in 0 .. n : walk[k] \in Walks}
  <2>1. 0 \in G
    BY <1>1, <1>5 DEF Walks
  <2>2. \A k \in 1 .. n : k - 1 \in G => k \in G
    BY <1>5, HalvedTyped
  <2> HIDE DEF G
  <2>3. \A k \in 0 .. n : k \in G
    BY <1>1, <2>1, <2>2, UpTo
  <2> QED
    BY <2>3 DEF G
<1>7. walk \in [0 .. n -> Walks]
  <2> HIDE DEF step
  <2>1. DOMAIN walk = 0 .. n
    BY <1>4 DEF step
  <2>2. walk = [k \in 0 .. n |-> walk[k]]
    BY <1>4 DEF step
  <2> QED
    BY <1>6, <2>2
<1> QED
  BY <1>1, <1>2, <1>5, <1>7

\* find ends at the root of the class of a and keeps the roots: as long as it has
\* not arrived, each turn leads to a higher rank, and ranks are less than the
\* number of elements.
LEMMA FindClimbs ==
    ASSUME NEW rank \in [Elements -> Nat], NEW p \in SUBSET (SUBSET Elements),
           NEW id \in Id, NEW a \in Elements, Climbing(id, rank, p),
           \A b \in Elements : rank[b] < Bound
    PROVE  /\ Sets!Find(id, a).root \in Elements /\ Sets!Find(id, a).id \in Id
           /\ Climbing(Sets!Find(id, a).id, rank, p) /\ SameRoots(id, Sets!Find(id, a).id)
           /\ Together(p, a, Sets!Find(id, a).root)
           /\ id[Sets!Find(id, a).root] = Sets!Find(id, a).root
<1>1. PICK walk \in [0 .. Bound -> Walks] :
        /\ walk[0] = [root |-> a, id |-> id]
        /\ \A k \in 1 .. Bound : walk[k] = Sets!Halved(walk[k - 1])
        /\ Sets!Find(id, a) = walk[Bound]
  BY FindWalks
<1> DEFINE Good(w) == /\ Climbing(w.id, rank, p) /\ SameRoots(id, w.id)
                      /\ Together(p, a, w.root)
           G == {k \in 0 .. Bound : /\ Good(walk[k])
                                    /\ id[walk[k].root] = walk[k].root \/ rank[walk[k].root] >= k}
<1>2. \A k \in 0 .. Bound : walk[k].root \in Elements /\ walk[k].id \in Id
  BY DEF Walks
<1>3. 0 \in G
  <2>1. walk[0].root = a /\ walk[0].id = id /\ 0 \in 0 .. Bound
    BY <1>1, ElementsFinite
  <2>2. Good(walk[0])
    BY <2>1 DEF SameRoots, Together
  <2>3. rank[a] >= 0
    OBVIOUS
  <2> QED
    BY <2>1, <2>2, <2>3
<1>4. ASSUME NEW k \in 1 .. Bound, k - 1 \in G
      PROVE  k \in G
  <2> DEFINE v == walk[k - 1]
             w == walk[k]
  <2>1. /\ k - 1 \in 0 .. Bound /\ k \in 0 .. Bound /\ w = Sets!Halved(v)
        /\ v.root \in Elements /\ v.id \in Id
        /\ w.root \in Elements /\ w.id \in Id
    BY <1>1, <1>2, ElementsFinite
  <2>2. Good(v) /\ (id[v.root] = v.root \/ rank[v.root] >= k - 1)
    BY <1>4
  <2> HIDE DEF v, w
  <2>4. /\ Climbing(w.id, rank, p) /\ SameRoots(v.id, w.id) /\ Together(p, v.root, w.root)
        /\ v.id[v.root] = v.root => w.root = v.root
        /\ v.id[v.root] # v.root => rank[v.root] < rank[w.root]
    <3>1. Climbing(v.id, rank, p)
      BY <2>2
    <3> HIDE DEF Good
    <3> QED
      BY <2>1, <3>1, HalvedClimbs
  <2>5. Good(w)
    BY <2>2, <2>4 DEF SameRoots, Together
  <2>6. v.id[v.root] = v.root <=> id[v.root] = v.root
    BY <2>1, <2>2 DEF SameRoots
  <2>7. id[w.root] = w.root \/ rank[w.root] >= k
    <3>1. rank[v.root] \in Nat /\ rank[w.root] \in Nat /\ k \in Nat
      BY <2>1
    <3> QED
      BY <2>2, <2>4, <2>6, <3>1
  <2> QED
    BY <2>1, <2>5, <2>7 DEF w
<1>5. Bound \in G
  <2> HIDE DEF G
  <2>1. \A k \in 0 .. Bound : k \in G
    BY <1>3, <1>4, ElementsFinite, UpTo
  <2> QED
    BY <2>1, ElementsFinite
<1> DEFINE f == Sets!Find(id, a)
<1>6. f.root \in Elements /\ f.id \in Id /\ Good(f) /\ (id[f.root] = f.root \/ rank[f.root] >= Bound)
  <2>1. f = walk[Bound] /\ Bound \in 0 .. Bound
    BY <1>1, ElementsFinite
  <2> HIDE DEF f
  <2> QED
    BY <1>2, <1>5, <2>1
<1>7. id[f.root] = f.root
  <2>1. rank[f.root] \in Nat /\ rank[f.root] < Bound /\ Bound \in Nat
    BY <1>6, ElementsFinite
  <2> QED
    BY <1>6, <2>1
<1> QED
  BY <1>6, <1>7

(***************************************************************************)
(* The powers of two, and the invariant at first                             *)
(***************************************************************************)

LEMMA Powers ==
    /\ 0 \in 0 .. Bound /\ Sets!PowerOfTwo[0] = 1
    /\ \A r \in 1 .. Bound : Sets!PowerOfTwo[r] = 2 * Sets!PowerOfTwo[r - 1]
    /\ \A r \in 0 .. Bound : Sets!PowerOfTwo[r] \in Nat
<1> DEFINE n == Sets!Cardinality(Elements)
           step(f) == [r \in 0 .. n |-> IF r = 0 THEN 1 ELSE 2 * f[r - 1]]
           power == CHOOSE f : f = step(f)
<1>1. n = Bound /\ n \in Nat
  BY SetsCardinality, ElementsFinite DEF Bound
<1>2. Sets!PowerOfTwo = power
  BY DEF Sets!PowerOfTwo
<1> HIDE DEF n
<1>3. \E f \in [0 .. n -> Nat] : f = step(f)
  <2> DEFINE F == [x \in Nat |-> 2 * x]
  <2>1. F \in [Nat -> Nat] /\ \A x \in Nat : F[x] = 2 * x
    OBVIOUS
  <2> HIDE DEF F
  <2>2. PICK f \in [0 .. n -> Nat] : Iterates(f, F, 1, n)
    BY <1>1, <2>1, Iterated
  <2>3. \A r \in 0 .. n : f[r] = IF r = 0 THEN 1 ELSE 2 * f[r - 1]
    <3> TAKE r \in 0 .. n
    <3>1. r # 0 => r \in 1 .. n /\ r - 1 \in 0 .. n /\ f[r - 1] \in Nat
      BY <1>1
    <3> QED
      BY <2>1, <2>2, <3>1 DEF Iterates
  <2>4. f = step(f)
    BY <2>3
  <2> QED
    BY <2>4
<1>4. power = step(power)
  BY <1>3
<1> HIDE DEF power
<1>5. power[0] = 1 /\ \A r \in 1 .. n : power[r] = 2 * power[r - 1]
  BY <1>1, <1>4
<1> DEFINE G == {r \in 0 .. n : power[r] \in Nat}
<1>6. 0 \in G /\ \A r \in 1 .. n : r - 1 \in G => r \in G
  BY <1>1, <1>5
<1>7. \A r \in 0 .. n : r \in G
  <2> HIDE DEF G
  <2> QED
    BY <1>1, <1>6, UpTo
<1> QED
  BY <1>1, <1>2, <1>5, <1>7

\* At first each element is a class of its own.
LEMMA SetsInitial == ASSUME Sets!Init PROVE SetsInv
<1>1. /\ state = [id |-> [a \in Elements |-> a], rank |-> [a \in Elements |-> 0],
                  partition |-> {{a} : a \in Elements}]
  BY DEF Sets!Init
<1> DEFINE id == state.id
           rank == state.rank
           p == state.partition
<1>2. /\ id \in Id /\ rank \in [Elements -> Nat] /\ p \in SUBSET (SUBSET Elements)
      /\ \A a \in Elements : id[a] = a /\ rank[a] = 0
      /\ p = {{a} : a \in Elements}
  BY <1>1 DEF Id
<1>3. SetsTyped
  BY <1>1, <1>2 DEF SetsTyped
<1> HIDE DEF id, rank, p
<1>4. Partitioned(p)
  BY <1>2 DEF Partitioned
<1>5. Climbing(id, rank, p)
  BY <1>2 DEF Climbing, Together
<1>6. OneRoot(id, p)
  BY <1>2 DEF OneRoot
<1>7. Low(id, rank, p)
  <2>1. ASSUME NEW c \in p, NEW a \in c
        PROVE  rank[a] < Cardinality(c) /\ Sets!PowerOfTwo[rank[a]] <= Cardinality(c)
    <3>1. c = {a} /\ a \in Elements
      BY <1>2
    <3>2. Cardinality(c) = 1 /\ rank[a] = 0
      BY <1>2, <3>1, FS_Singleton
    <3> QED
      BY <3>2, Powers
  <2> QED
    BY <2>1 DEF Low
<1> QED
  BY <1>3, <1>4, <1>5, <1>6, <1>7 DEF SetsInv, id, rank, p

\* What find does to the invariant, when it has found the root f.root of a.
LEMMA FindKeeps ==
    ASSUME NEW rank \in [Elements -> Nat], NEW p \in SUBSET (SUBSET Elements),
           NEW id \in Id, NEW a \in Elements,
           Partitioned(p), Climbing(id, rank, p), OneRoot(id, p), Low(id, rank, p),
           NEW f, f = Sets!Find(id, a)
    PROVE  /\ f.root \in Elements /\ f.id \in Id /\ SameRoots(id, f.id)
           /\ Climbing(f.id, rank, p) /\ OneRoot(f.id, p) /\ Low(f.id, rank, p)
           /\ Together(p, a, f.root) /\ id[f.root] = f.root /\ f.id[f.root] = f.root
<1>1. \A b \in Elements : rank[b] < Bound
  <2> TAKE b \in Elements
  <2>1. PICK c \in p : b \in c
    BY DEF Partitioned
  <2>2. rank[b] < Cardinality(c) /\ Cardinality(c) \in 0 .. Bound
    BY <2>1, ElementsFinite DEF Low
  <2>3. rank[b] \in Nat /\ Bound \in Nat
    BY ElementsFinite
  <2> QED
    BY <2>2, <2>3
<1>2. /\ f.root \in Elements /\ f.id \in Id /\ Climbing(f.id, rank, p) /\ SameRoots(id, f.id)
      /\ Together(p, a, f.root) /\ id[f.root] = f.root
  BY <1>1, FindClimbs
<1>3. \A c \in p : \A b \in c : b \in Elements
  OBVIOUS
<1>4. OneRoot(f.id, p) /\ Low(f.id, rank, p) /\ f.id[f.root] = f.root
  BY <1>2, <1>3 DEF OneRoot, Low, SameRoots
<1> QED
  BY <1>2, <1>4

(***************************************************************************)
(* merge                                                                     *)
(***************************************************************************)

\* Two classes become one.
LEMMA JoinedIs ==
    ASSUME NEW p \in SUBSET (SUBSET Elements), Partitioned(p),
           NEW a \in Elements, NEW b \in Elements, NEW c \in p, NEW d \in p, a \in c, b \in d
    PROVE  Sets!Joined(p, a, b) = (p \ {c, d}) \cup {c \cup d}
<1>1. {e \in p : a \in e \/ b \in e} = {c, d}
  BY DEF Partitioned
<1>2. UNION {c, d} = c \cup d
  OBVIOUS
<1> QED
  BY <1>1, <1>2 DEF Sets!Joined

\* The rank of j when i is linked to it.
Raised(rank, i, j) ==
    [rank EXCEPT ![j] = IF rank[i] + 1 > rank[j] THEN rank[i] + 1 ELSE rank[j]]

\* The root i of the class c is linked to the root j of the class d, whose rank is
\* not lower.
Links(id, rank, p, c, d, i, j, new, up, q) ==
    /\ id[i] = i /\ id[j] = j /\ c # d /\ rank[i] <= rank[j]
    /\ new = [id EXCEPT ![i] = j] /\ up = Raised(rank, i, j)
    /\ q = (p \ {c, d}) \cup {c \cup d}

LEMMA LinkKeeps ==
    ASSUME NEW rank \in [Elements -> Nat], NEW p \in SUBSET (SUBSET Elements), NEW id \in Id,
           Partitioned(p), Climbing(id, rank, p), OneRoot(id, p), Low(id, rank, p),
           NEW c \in p, NEW d \in p, NEW i \in c, NEW j \in d,
           NEW new, NEW up, NEW q, Links(id, rank, p, c, d, i, j, new, up, q)
    PROVE  /\ new \in Id /\ up \in [Elements -> Nat] /\ q \in SUBSET (SUBSET Elements)
           /\ Partitioned(q) /\ Climbing(new, up, q) /\ OneRoot(new, q) /\ Low(new, up, q)
<1> DEFINE top == IF rank[i] + 1 > rank[j] THEN rank[i] + 1 ELSE rank[j]
<1> USE DEF Links
<1>1. /\ i \in Elements /\ j \in Elements /\ i # j /\ i \notin d /\ j \notin c
      /\ rank[i] \in Nat /\ rank[j] \in Nat
      /\ \A e \in p : i \in e => e = c
      /\ \A e \in p : j \in e => e = d
  BY DEF Partitioned
<1>2. top \in Nat /\ rank[i] < top /\ rank[j] <= top
  BY <1>1
<1>3. /\ new \in Id /\ \A x \in Elements : new[x] = IF x = i THEN j ELSE id[x]
      /\ up \in [Elements -> Nat] /\ \A x \in Elements : up[x] = IF x = j THEN top ELSE rank[x]
  BY <1>1, <1>2 DEF Id, Raised
<1> HIDE DEF top
<1>4. q \in SUBSET (SUBSET Elements) /\ \A e \in q : e = c \cup d \/ (e \in p /\ e # c /\ e # d)
  OBVIOUS
<1>5. Partitioned(q)
  <2>1. ASSUME NEW x \in Elements
        PROVE  \E e \in q : x \in e
    <3>1. PICK e \in p : x \in e
      BY DEF Partitioned
    <3>2. e \in q \/ (x \in c \cup d /\ c \cup d \in q)
      BY <3>1
    <3> QED
      BY <3>1, <3>2
  <2>2. ASSUME NEW e \in q, NEW f \in q, NEW x \in Elements, x \in e, x \in f
        PROVE  e = f
    BY <1>4, <2>2 DEF Partitioned
  <2> QED
    BY <2>1, <2>2 DEF Partitioned
<1>6. ASSUME NEW x \in Elements, NEW y \in Elements, Together(p, x, y)
      PROVE  Together(q, x, y)
  BY <1>4, <1>6 DEF Together
<1>7. Climbing(new, up, q)
  <2> SUFFICES ASSUME NEW x \in Elements
               PROVE  Together(q, x, new[x]) /\ (new[x] # x => up[x] < up[new[x]])
    BY DEF Climbing
  <2>1. CASE x = i
    <3>1. Together(q, i, j)
      BY <1>1, <1>4 DEF Together
    <3> QED
      BY <1>1, <1>2, <1>3, <2>1, <3>1
  <2>2. CASE x # i
    <3>1. new[x] = id[x] /\ id[x] \in Elements /\ Together(p, x, id[x])
      BY <1>3, <2>2 DEF Climbing, Id
    <3>2. id[x] # x => x # j /\ rank[x] < rank[id[x]] /\ rank[id[x]] <= up[id[x]] /\ up[x] = rank[x]
      BY <1>2, <1>3, <3>1 DEF Climbing
    <3>3. rank[x] \in Nat /\ rank[id[x]] \in Nat /\ up[id[x]] \in Nat
      BY <1>3, <3>1
    <3>4. id[x] # x => up[x] < up[id[x]]
      BY <3>2, <3>3
    <3> QED
      BY <1>6, <3>1, <3>4
  <2> QED
    BY <2>1, <2>2
\* The only root of the class joined is j.
<1>8. ASSUME NEW x \in c \cup d, new[x] = x
      PROVE  x = j
  <2>1. x \in Elements /\ x # i /\ id[x] = x
    BY <1>1, <1>3, <1>8
  <2> QED
    BY <1>8, <2>1 DEF OneRoot
<1>9. OneRoot(new, q)
  <2> SUFFICES ASSUME NEW e \in q, NEW x \in e, NEW y \in e, new[x] = x, new[y] = y
               PROVE  x = y
    BY DEF OneRoot
  <2>1. CASE e = c \cup d
    BY <1>8, <2>1
  <2>2. CASE e \in p /\ e # c /\ e # d
    <3>1. x # i /\ y # i /\ x \in Elements /\ y \in Elements
      BY <1>1, <2>2
    <3>2. id[x] = x /\ id[y] = y
      BY <1>3, <3>1
    <3> QED
      BY <2>2, <3>2 DEF OneRoot
  <2> QED
    BY <1>4, <2>1, <2>2
<1>10. /\ Cardinality(c \cup d) = Cardinality(c) + Cardinality(d)
       /\ Cardinality(c) \in 1 .. Bound /\ Cardinality(d) \in 1 .. Bound
  <2>1. /\ IsFiniteSet(c) /\ IsFiniteSet(d)
        /\ Cardinality(c) \in 0 .. Bound /\ Cardinality(d) \in 0 .. Bound
    BY ElementsFinite
  <2>2. c \cap d = {}
    BY DEF Partitioned
  <2>3. Cardinality(c \cap d) = 0
    BY <2>2, FS_EmptySet
  <2>4. Cardinality(c \cup d) = Cardinality(c) + Cardinality(d) - 0
    BY <2>1, <2>3, FS_Union
  <2>5. Cardinality(c) # 0 /\ Cardinality(d) # 0
    BY <2>1, FS_EmptySet
  <2> QED
    BY <2>1, <2>4, <2>5
<1>11. /\ rank[i] < Cardinality(c) /\ Sets!PowerOfTwo[rank[i]] <= Cardinality(c)
       /\ rank[j] < Cardinality(d) /\ Sets!PowerOfTwo[rank[j]] <= Cardinality(d)
  BY DEF Low
<1>12. top < Cardinality(c \cup d) /\ Sets!PowerOfTwo[top] <= Cardinality(c \cup d)
  <2> DEFINE m == Cardinality(c)
             n == Cardinality(d)
  <2>1. /\ m \in 1 .. Bound /\ n \in 1 .. Bound /\ Cardinality(c \cup d) = m + n
        /\ rank[i] < m /\ Sets!PowerOfTwo[rank[i]] <= m
        /\ rank[j] < n /\ Sets!PowerOfTwo[rank[j]] <= n
        /\ Bound \in Nat
    BY <1>10, <1>11, ElementsFinite
  <2> HIDE DEF m, n
  <2>2. CASE rank[i] + 1 > rank[j]
    <3>1. rank[j] = rank[i] /\ top = rank[i] + 1 /\ top \in 1 .. Bound /\ top - 1 = rank[i]
      BY <1>1, <2>1, <2>2 DEF top
    <3>2. Sets!PowerOfTwo[top] = 2 * Sets!PowerOfTwo[rank[i]] /\ Sets!PowerOfTwo[rank[i]] \in Nat
      <4>1. rank[i] \in 0 .. Bound
        BY <1>1, <2>1
      <4> QED
        BY <3>1, <4>1, Powers
    <3> QED
      BY <1>1, <2>1, <3>1, <3>2
  <2>3. CASE ~(rank[i] + 1 > rank[j])
    <3>1. top = rank[j]
      BY <2>3 DEF top
    <3>2. Sets!PowerOfTwo[rank[j]] \in Nat
      BY <1>1, <2>1, Powers
    <3> QED
      BY <1>1, <2>1, <3>1, <3>2
  <2> QED
    BY <2>2, <2>3
<1>13. Low(new, up, q)
  <2> SUFFICES ASSUME NEW e \in q, NEW x \in e
               PROVE  /\ up[x] < Cardinality(e)
                      /\ new[x] = x => Sets!PowerOfTwo[up[x]] <= Cardinality(e)
    BY DEF Low
  <2>1. CASE e \in p /\ e # c /\ e # d
    <3>1. x # i /\ x # j /\ x \in Elements
      BY <1>1, <2>1
    <3>2. up[x] = rank[x] /\ new[x] = id[x]
      BY <1>3, <3>1
    <3> QED
      BY <2>1, <3>2 DEF Low
  <2>2. CASE e = c \cup d /\ x = j
    BY <1>1, <1>3, <1>12, <2>2
  <2>3. CASE e = c \cup d /\ x # j
    <3>1. new[x] # x
      BY <1>8, <2>3
    <3>2. x \in Elements /\ up[x] = rank[x] /\ rank[x] \in Nat
      BY <1>3, <1>4, <2>3
    <3>3. rank[x] < Cardinality(c) \/ rank[x] < Cardinality(d)
      BY <2>3 DEF Low
    <3>4. up[x] < Cardinality(e)
      BY <1>10, <2>3, <3>2, <3>3
    <3> QED
      BY <3>1, <3>4
  <2> QED
    BY <1>4, <2>1, <2>2, <2>3
<1> QED
  BY <1>3, <1>4, <1>5, <1>7, <1>9, <1>13

\* The two finds of an operation: the roots of a and of b, and the invariant again.
LEMMA FindBothKeeps ==
    ASSUME SetsInv, NEW a \in Elements, NEW b \in Elements,
           NEW r, r = Sets!FindBoth(a, b)
    PROVE  LET p == state.partition IN
           /\ r.i \in Elements /\ r.j \in Elements /\ r.id \in Id
           /\ Climbing(r.id, state.rank, p) /\ OneRoot(r.id, p) /\ Low(r.id, state.rank, p)
           /\ Together(p, a, r.i) /\ r.id[r.i] = r.i
           /\ Together(p, b, r.j) /\ r.id[r.j] = r.j
<1> DEFINE p == state.partition
           rank == state.rank
           first == Sets!Find(state.id, a)
           second == Sets!Find(first.id, b)
<1>1. /\ state.id \in Id /\ rank \in [Elements -> Nat] /\ p \in SUBSET (SUBSET Elements)
      /\ Partitioned(p) /\ Climbing(state.id, rank, p) /\ OneRoot(state.id, p)
      /\ Low(state.id, rank, p)
  BY DEF SetsInv, SetsTyped
<1>2. r.i = first.root /\ r.j = second.root /\ r.id = second.id
  BY DEF Sets!FindBoth
<1> HIDE DEF p, rank, first, second
<1>3. /\ first.root \in Elements /\ first.id \in Id
      /\ Climbing(first.id, rank, p) /\ OneRoot(first.id, p) /\ Low(first.id, rank, p)
      /\ Together(p, a, first.root) /\ first.id[first.root] = first.root
  BY <1>1, FindKeeps DEF first
<1>4. /\ second.root \in Elements /\ second.id \in Id /\ SameRoots(first.id, second.id)
      /\ Climbing(second.id, rank, p) /\ OneRoot(second.id, p) /\ Low(second.id, rank, p)
      /\ Together(p, b, second.root) /\ second.id[second.root] = second.root
  BY <1>1, <1>3, FindKeeps DEF second
<1>5. second.id[first.root] = first.root
  BY <1>3, <1>4 DEF SameRoots
<1>6. /\ r.i \in Elements /\ r.j \in Elements /\ r.id \in Id
      /\ Climbing(r.id, rank, p) /\ OneRoot(r.id, p) /\ Low(r.id, rank, p)
      /\ Together(p, a, r.i) /\ r.id[r.i] = r.i
      /\ Together(p, b, r.j) /\ r.id[r.j] = r.j
  BY <1>2, <1>3, <1>4, <1>5
<1> QED
  BY <1>6 DEF p, rank

\* Classes that have an element each in common with two roots.
LEMMA ClassesOf ==
    ASSUME SetsInv, NEW a \in Elements, NEW b \in Elements, NEW r, r = Sets!FindBoth(a, b)
    PROVE  \E c, d \in state.partition :
              /\ a \in c /\ r.i \in c /\ b \in d /\ r.j \in d
              /\ r.i = r.j <=> c = d
<1> DEFINE p == state.partition
<1>1. /\ r.i \in Elements /\ r.j \in Elements /\ OneRoot(r.id, p) /\ Partitioned(p)
      /\ Together(p, a, r.i) /\ r.id[r.i] = r.i
      /\ Together(p, b, r.j) /\ r.id[r.j] = r.j
  BY FindBothKeeps DEF SetsInv
<1>2. PICK c \in p : a \in c
  BY <1>1 DEF Partitioned
<1>3. PICK d \in p : b \in d
  BY <1>1 DEF Partitioned
<1>4. r.i \in c /\ r.j \in d
  BY <1>1, <1>2, <1>3 DEF Together
<1>5. c = d => r.i = r.j
  BY <1>1, <1>4 DEF OneRoot
<1>6. r.i = r.j => c = d
  BY <1>1, <1>4 DEF Partitioned
<1> QED
  BY <1>2, <1>3, <1>4, <1>5, <1>6

\* A step that links the root i of a class to the root j of another one.
LEMMA LinkedKeeps ==
    ASSUME NEW rank \in [Elements -> Nat], NEW p \in SUBSET (SUBSET Elements), NEW id \in Id,
           Partitioned(p), Climbing(id, rank, p), OneRoot(id, p), Low(id, rank, p),
           NEW c \in p, NEW d \in p, NEW i \in c, NEW j \in d,
           NEW new, NEW up, NEW q, Links(id, rank, p, c, d, i, j, new, up, q),
           state' = [id |-> new, rank |-> up, partition |-> q]
    PROVE  SetsInv'
<1>1. /\ new \in Id /\ up \in [Elements -> Nat] /\ q \in SUBSET (SUBSET Elements)
      /\ Partitioned(q) /\ Climbing(new, up, q) /\ OneRoot(new, q) /\ Low(new, up, q)
  BY LinkKeeps
<1>2. state'.id = new /\ state'.rank = up /\ state'.partition = q
  OBVIOUS
<1>3. state' \in [id : Id, rank : [Elements -> Nat], partition : SUBSET (SUBSET Elements)]
  BY <1>1
<1> QED
  BY <1>1, <1>2, <1>3 DEF SetsInv, SetsTyped

\* What Linked and merge make of the three parts of the state.
LEMMA LinkedIs ==
    ASSUME NEW id, NEW rank \in [Elements -> Nat], NEW p,
           state = [id |-> id, rank |-> rank, partition |-> p],
           NEW roots, NEW i \in Elements, NEW j \in Elements,
           NEW new, new = [roots.id EXCEPT ![i] = j], NEW up, up = Raised(rank, i, j)
    PROVE  Sets!Linked(roots, i, j) = [id |-> new, rank |-> up, partition |-> p]
<1> DEFINE k == IF rank[i] + 1 > rank[j] THEN rank[i] + 1 ELSE rank[j]
<1>1. Sets!Linked(roots, i, j) =
        [state EXCEPT !.id = new,
                      !.rank[j] = IF state.rank[i] + 1 > @ THEN state.rank[i] + 1 ELSE @]
  BY Zenon DEF Sets!Linked
<1>2. state.rank = rank
  OBVIOUS
<1>3. Sets!Linked(roots, i, j) =
        [state EXCEPT !.id = new,
                      !.rank[j] = IF rank[i] + 1 > @ THEN rank[i] + 1 ELSE @]
  BY <1>1, <1>2, Zenon
<1>4. Sets!Linked(roots, i, j) = [state EXCEPT !.id = new, !.rank = [rank EXCEPT ![j] = k]]
  BY <1>2, <1>3, Zenon
<1>5. up = [rank EXCEPT ![j] = k]
  BY Zenon DEF Raised
<1>6. Sets!Linked(roots, i, j) = [state EXCEPT !.id = new, !.rank = up]
  BY <1>4, <1>5, Zenon
<1>7. [state EXCEPT !.id = new, !.rank = up] = [id |-> new, rank |-> up, partition |-> p]
  <2>1. PICK t : t = [state EXCEPT !.id = new]
    OBVIOUS
  <2>2. t = [id |-> new, rank |-> rank, partition |-> p]
    BY <2>1
  <2>3. [t EXCEPT !.rank = up] = [id |-> new, rank |-> up, partition |-> p]
    BY <2>2
  <2> QED
    BY <2>1, <2>3, Zenon
<1> QED
  BY <1>6, <1>7, Zenon

LEMMA MergeIs ==
    ASSUME NEW id, NEW rank \in [Elements -> Nat], NEW p,
           state = [id |-> id, rank |-> rank, partition |-> p],
           NEW a \in Elements, NEW b \in Elements, Sets!Merge(a, b),
           NEW r, r = Sets!FindBoth(a, b), r.i \in Elements, r.j \in Elements
    PROVE  LET q == Sets!Joined(p, a, b)
               linked == CASE r.i = r.j -> [id |-> r.id, rank |-> rank, partition |-> p]
                           [] r.i # r.j /\ rank[r.i] > rank[r.j] -> Sets!Linked(r, r.j, r.i)
                           [] r.i # r.j /\ rank[r.i] <= rank[r.j] -> Sets!Linked(r, r.i, r.j)
           IN  state' = [linked EXCEPT !.partition = Sets!Joined(@, a, b)]
<1>1. state.rank = rank /\ [state EXCEPT !.id = r.id] = [id |-> r.id, rank |-> rank, partition |-> p]
  OBVIOUS
<1> QED
  BY <1>1, Zenon DEF Sets!Merge

LEMMA MergeKeeps ==
    ASSUME SetsInv, NEW a \in Elements, NEW b \in Elements, Sets!Merge(a, b)
    PROVE  SetsInv'
<1>1. PICK id, rank, p : id = state.id /\ rank = state.rank /\ p = state.partition
  OBVIOUS
<1>2. PICK r : r = Sets!FindBoth(a, b)
  OBVIOUS
<1>3. /\ id \in Id /\ rank \in [Elements -> Nat] /\ p \in SUBSET (SUBSET Elements)
      /\ Partitioned(p) /\ state = [id |-> id, rank |-> rank, partition |-> p]
  BY <1>1 DEF SetsInv, SetsTyped
<1>4. /\ r.i \in Elements /\ r.j \in Elements /\ r.id \in Id
      /\ Climbing(r.id, rank, p) /\ OneRoot(r.id, p) /\ Low(r.id, rank, p)
      /\ r.id[r.i] = r.i /\ r.id[r.j] = r.j
  BY <1>1, <1>2, FindBothKeeps
<1>5. PICK c \in p, d \in p :
         /\ a \in c /\ r.i \in c /\ b \in d /\ r.j \in d
         /\ r.i = r.j <=> c = d
  BY <1>1, <1>2, ClassesOf
<1>6. PICK q : q = (p \ {c, d}) \cup {c \cup d}
  OBVIOUS
<1>7. Sets!Joined(p, a, b) = q
  BY <1>3, <1>5, <1>6, JoinedIs
<1>8. PICK id1, i, j : id1 = r.id /\ i = r.i /\ j = r.j
  OBVIOUS
<1>9. state' = LET linked == CASE i = j -> [id |-> id1, rank |-> rank, partition |-> p]
                               [] i # j /\ rank[i] > rank[j] -> Sets!Linked(r, j, i)
                               [] i # j /\ rank[i] <= rank[j] -> Sets!Linked(r, i, j)
               IN  [linked EXCEPT !.partition = Sets!Joined(@, a, b)]
  BY <1>2, <1>3, <1>4, <1>8, MergeIs
<1>10. CASE i = j
  <2>1. q = p
    BY <1>5, <1>6, <1>8, <1>10
  <2>2. state' = [id |-> id1, rank |-> rank, partition |-> q]
    BY <1>7, <1>9, <1>10
  <2>3. state'.id = id1 /\ state'.rank = rank /\ state'.partition = p
    BY <2>1, <2>2
  <2>4. state' \in [id : Id, rank : [Elements -> Nat], partition : SUBSET (SUBSET Elements)]
    BY <1>3, <1>4, <1>8, <2>1, <2>2
  <2> QED
    BY <1>3, <1>4, <1>8, <2>3, <2>4 DEF SetsInv, SetsTyped
<1>11. CASE i # j /\ rank[i] > rank[j]
  <2>1. state' = [Sets!Linked(r, j, i) EXCEPT !.partition = Sets!Joined(@, a, b)]
    <3>1. ~ (rank[i] <= rank[j])
      BY <1>3, <1>4, <1>8, <1>11
    <3> QED
      BY <1>9, <1>11, <3>1
  <2>2. PICK new, up : new = [id1 EXCEPT ![j] = i] /\ up = Raised(rank, j, i)
    OBVIOUS
  <2>3. Sets!Linked(r, j, i) = [id |-> new, rank |-> up, partition |-> p]
    BY <1>3, <1>4, <1>8, <2>2, LinkedIs
  <2>4. state' = [id |-> new, rank |-> up, partition |-> q]
    BY <1>7, <2>1, <2>3
  <2>5. rank[j] <= rank[i] /\ c # d /\ q = (p \ {d, c}) \cup {d \cup c}
    BY <1>3, <1>4, <1>5, <1>6, <1>8, <1>11
  <2>6. i \in c /\ j \in d /\ id1[i] = i /\ id1[j] = j
    BY <1>4, <1>5, <1>8
  <2>7. id1 \in Id /\ Climbing(id1, rank, p) /\ OneRoot(id1, p) /\ Low(id1, rank, p)
    BY <1>4, <1>8
  <2> QED
    BY <1>3, <1>5, <2>2, <2>4, <2>5, <2>6, <2>7, LinkedKeeps DEF Links
<1>12. CASE i # j /\ rank[i] <= rank[j]
  <2>1. ~ (rank[i] > rank[j])
    BY <1>3, <1>4, <1>8, <1>12
  <2>2. state' = [Sets!Linked(r, i, j) EXCEPT !.partition = Sets!Joined(@, a, b)]
    BY <1>9, <1>12, <2>1
  <2>3. PICK new, up : new = [id1 EXCEPT ![i] = j] /\ up = Raised(rank, i, j)
    OBVIOUS
  <2>4. Sets!Linked(r, i, j) = [id |-> new, rank |-> up, partition |-> p]
    BY <1>3, <1>4, <1>8, <2>3, LinkedIs
  <2>5. state' = [id |-> new, rank |-> up, partition |-> q]
    BY <1>7, <2>2, <2>4
  <2>6. i \in c /\ j \in d /\ id1[i] = i /\ id1[j] = j /\ c # d
    BY <1>4, <1>5, <1>8, <1>12
  <2>7. id1 \in Id /\ Climbing(id1, rank, p) /\ OneRoot(id1, p) /\ Low(id1, rank, p)
    BY <1>4, <1>8
  <2> QED
    BY <1>3, <1>5, <1>6, <1>12, <2>3, <2>5, <2>6, <2>7, LinkedKeeps DEF Links
<1>13. rank[i] > rank[j] \/ rank[i] <= rank[j]
  BY <1>3, <1>4, <1>8
<1> QED
  BY <1>10, <1>11, <1>12, <1>13

\* A test only halves paths.
LEMMA ConnectedKeeps ==
    ASSUME SetsInv, NEW a \in Elements, NEW b \in Elements, Sets!Connected(a, b)
    PROVE  SetsInv'
<1>1. PICK id, rank, p : id = state.id /\ rank = state.rank /\ p = state.partition
  OBVIOUS
<1>2. PICK r : r = Sets!FindBoth(a, b)
  OBVIOUS
<1>3. /\ rank \in [Elements -> Nat] /\ p \in SUBSET (SUBSET Elements)
      /\ Partitioned(p) /\ state = [id |-> id, rank |-> rank, partition |-> p]
  BY <1>1 DEF SetsInv, SetsTyped
<1>4. r.id \in Id /\ Climbing(r.id, rank, p) /\ OneRoot(r.id, p) /\ Low(r.id, rank, p)
  BY <1>1, <1>2, FindBothKeeps
<1>5. PICK new : new = r.id
  OBVIOUS
<1>6. state' = [state EXCEPT !.id = new]
  BY <1>2, <1>5, Zenon DEF Sets!Connected
<1>7. state' = [id |-> new, rank |-> rank, partition |-> p]
  BY <1>3, <1>6
<1>8. state'.id = new /\ state'.rank = rank /\ state'.partition = p
  BY <1>7
<1>9. state' \in [id : Id, rank : [Elements -> Nat], partition : SUBSET (SUBSET Elements)]
  BY <1>3, <1>4, <1>5, <1>7
<1> QED
  BY <1>3, <1>4, <1>5, <1>8, <1>9 DEF SetsInv, SetsTyped

LEMMA SetsStep == ASSUME SetsInv, [Sets!Next]_state PROVE SetsInv'
<1>1. ASSUME NEW a \in Elements, NEW b \in Elements, Sets!Merge(a, b) \/ Sets!Connected(a, b)
      PROVE  SetsInv'
  BY <1>1, MergeKeeps, ConnectedKeeps
<1>2. CASE Sets!Next
  BY <1>1, <1>2 DEF Sets!Next
<1>3. CASE UNCHANGED state
  BY <1>3 DEF SetsInv, SetsTyped
<1> QED
  BY <1>2, <1>3

(***************************************************************************)
(* The answers                                                               *)
(***************************************************************************)

LEMMA SetsAnswers == ASSUME SetsInv PROVE Sets!PartitionExact
<1>1. PICK id, rank, p : id = state.id /\ rank = state.rank /\ p = state.partition
  OBVIOUS
<1>2. /\ id \in Id /\ rank \in [Elements -> Nat] /\ p \in SUBSET (SUBSET Elements)
      /\ Partitioned(p) /\ Climbing(id, rank, p) /\ OneRoot(id, p) /\ Low(id, rank, p)
  BY <1>1 DEF SetsInv, SetsTyped
<1> DEFINE root(a) == Sets!Find(id, a).root
<1>3. \A a \in Elements : root(a) \in Elements /\ id[root(a)] = root(a) /\ Together(p, a, root(a))
  BY <1>2, FindKeeps
<1> HIDE DEF root
<1>4. ASSUME NEW a \in Elements, NEW b \in Elements
      PROVE  root(a) = root(b) <=> \E c \in p : {a, b} \subseteq c
  <2>1. PICK c \in p : a \in c
    BY <1>2 DEF Partitioned
  <2>2. root(a) \in c
    BY <1>3, <2>1 DEF Together
  <2>3. ASSUME root(a) = root(b)
        PROVE  {a, b} \subseteq c
    BY <1>3, <2>1, <2>2, <2>3 DEF Together
  <2>4. ASSUME NEW d \in p, {a, b} \subseteq d
        PROVE  root(a) = root(b)
    <3>1. root(a) \in d /\ root(b) \in d
      BY <1>3, <2>4 DEF Together
    <3> QED
      BY <1>2, <1>3, <3>1 DEF OneRoot
  <2> QED
    BY <2>1, <2>3, <2>4
<1>5. ASSUME NEW a \in Elements, id[a] # a
      PROVE  rank[a] < rank[id[a]]
  BY <1>2, <1>5 DEF Climbing
<1>6. ASSUME NEW c \in p, NEW a \in c
      PROVE  Sets!PowerOfTwo[rank[root(a)]] <= Sets!Cardinality(c)
  <2>1. a \in Elements
    BY <1>2
  <2>2. root(a) \in c /\ id[root(a)] = root(a)
    BY <1>3, <2>1 DEF Together
  <2> QED
    BY <1>2, <2>2, SetsCardinality DEF Low
<1> QED
  BY <1>1, <1>3, <1>4, <1>5, <1>6 DEF root, Sets!PartitionExact

\* However merges and tests follow on one another and halve paths, find ends at a
\* root, and the roots are equal exactly for elements that merges have joined; ranks
\* rise towards the root, and a root of rank r has 2^r elements in its class.
THEOREM RootsTellClasses == PlainSpec => []ClassesAgree
<1> DEFINE Inv == program = "sets" => SetsInv
<1>1. PlainInit => Inv
  BY SetsInitial DEF PlainInit
<1>2. Inv /\ [PlainNext]_plainVars => Inv'
  <2> SUFFICES ASSUME Inv, [PlainNext]_plainVars, program' = "sets" PROVE SetsInv'
    OBVIOUS
  <2>1. program = "sets" /\ [Sets!Next]_state
    BY DEF PlainNext, plainVars
  <2> QED
    BY <2>1, SetsStep
<1>3. Inv => ClassesAgree
  BY SetsAnswers DEF ClassesAgree
<1> QED
  BY <1>1, <1>2, <1>3, PTL DEF PlainSpec

-----------------------------------------------------------------------------

(***************************************************************************)
(* Running medians: bags and the numbers of values in them                   *)
(***************************************************************************)

Bags == [Median!Value -> Nat]

LEMMA Ranges == /\ ValueRange \in Nat /\ ValueRange > 0 /\ Median!Value = 0 .. ValueRange - 1
                /\ \A bag \in Bags, x \in Median!Value : bag[x] \in Nat
BY PlainAssumption DEF Median!RangeAssumption, Median!Value, Bags

LEMMA MedianCardinality ==
    ASSUME NEW S PROVE Median!Cardinality(S) = Cardinality(S)
BY Zenon DEF Cardinality, Median!Cardinality

\* The sums f of bag up to n.
Sums(f, bag, n) == f[0] = 0 /\ \A k \in 1 .. n : f[k] = f[k - 1] + bag[k - 1]

LEMMA Summed ==
    ASSUME NEW n \in Nat, NEW bag, \A k \in 0 .. n - 1 : bag[k] \in Nat
    PROVE  \E f \in [0 .. n -> Nat] : Sums(f, bag, n)
<1> DEFINE Run(m, f) == Sums(f, bag, m)
           G == {m \in 0 .. n : \E f \in [0 .. m -> Nat] : Run(m, f)}
<1> USE DEF Sums
<1>1. 0 \in G
  <2> DEFINE f == [k \in 0 .. 0 |-> 0]
  <2>1. f \in [0 .. 0 -> Nat] /\ Run(0, f)
    OBVIOUS
  <2> HIDE DEF f
  <2> QED
    BY <2>1
<1>2. ASSUME NEW m \in 1 .. n, m - 1 \in G
      PROVE  m \in G
  <2>1. PICK f \in [0 .. m - 1 -> Nat] : Run(m - 1, f)
    BY <1>2
  <2> DEFINE g == [k \in 0 .. m |-> IF k = m THEN f[m - 1] + bag[m - 1] ELSE f[k]]
  <2>2. g \in [0 .. m -> Nat]
    <3>1. f[m - 1] \in Nat /\ \A k \in 0 .. m - 1 : f[k] \in Nat
      BY <2>1
    <3>2. f[m - 1] + bag[m - 1] \in Nat
      BY <3>1
    <3>3. \A k \in 0 .. m : k # m => k \in 0 .. m - 1
      OBVIOUS
    <3> QED
      BY <3>1, <3>2, <3>3
  <2>3. g[0] = 0
    BY <2>1
  <2>4. ASSUME NEW k \in 1 .. m
        PROVE  g[k] = g[k - 1] + bag[k - 1]
    <3>1. g[k - 1] = f[k - 1]
      OBVIOUS
    <3>2. CASE k = m
      BY <3>1, <3>2
    <3>3. CASE k # m
      <4>1. k \in 1 .. m - 1 /\ g[k] = f[k]
        BY <3>3
      <4> QED
        BY <2>1, <3>1, <4>1
    <3> QED
      BY <3>2, <3>3
  <2> HIDE DEF g
  <2>5. Run(m, g)
    BY <2>3, <2>4
  <2> HIDE DEF Sums
  <2> QED
    BY <2>2, <2>5
<1>3. n \in G
  <2> HIDE DEF G
  <2>1. \A k \in 0 .. n : k \in G
    BY <1>1, <1>2, UpTo
  <2> QED
    BY <2>1
<1> HIDE DEF Sums
<1> QED
  BY <1>3

\* The numbers of values below each value.
LEMMA Sizes ==
    ASSUME NEW bag \in Bags
    PROVE  /\ Median!SizeBelow(bag, 0) = 0
           /\ \A k \in 1 .. ValueRange :
                Median!SizeBelow(bag, k) = Median!SizeBelow(bag, k - 1) + bag[k - 1]
           /\ \A k \in 0 .. ValueRange : Median!SizeBelow(bag, k) \in Nat
<1> DEFINE step(f) == [k \in 0 .. ValueRange |-> IF k = 0 THEN 0 ELSE f[k - 1] + bag[k - 1]]
           size == CHOOSE f : f = step(f)
<1>1. \A n : Median!SizeBelow(bag, n) = size[n]
  BY DEF Median!SizeBelow
<1>2. \A k \in 0 .. ValueRange - 1 : bag[k] \in Nat
  BY Ranges
<1>3. \E f \in [0 .. ValueRange -> Nat] : f = step(f)
  <2>1. PICK f \in [0 .. ValueRange -> Nat] : Sums(f, bag, ValueRange)
    BY <1>2, Ranges, Summed
  <2>2. \A k \in 0 .. ValueRange : f[k] = IF k = 0 THEN 0 ELSE f[k - 1] + bag[k - 1]
    BY <2>1 DEF Sums
  <2>3. f = step(f)
    BY <2>2
  <2> QED
    BY <2>3
<1>4. size = step(size)
  BY <1>3
<1> HIDE DEF size
<1>5. size[0] = 0 /\ \A k \in 1 .. ValueRange : size[k] = size[k - 1] + bag[k - 1]
  BY <1>4, Ranges
<1> DEFINE G == {k \in 0 .. ValueRange : size[k] \in Nat}
<1>6. 0 \in G /\ \A k \in 1 .. ValueRange : k - 1 \in G => k \in G
  BY <1>2, <1>5, Ranges
<1>7. \A k \in 0 .. ValueRange : k \in G
  <2> HIDE DEF G
  <2> QED
    BY <1>6, Ranges, UpTo
<1> QED
  BY <1>1, <1>5, <1>7

LEMMA SizesRise ==
    ASSUME NEW bag \in Bags, NEW j \in 0 .. ValueRange, NEW k \in 0 .. ValueRange, j <= k
    PROVE  Median!SizeBelow(bag, j) <= Median!SizeBelow(bag, k)
<1> DEFINE Size(n) == Median!SizeBelow(bag, n)
           G == {n \in 0 .. ValueRange : j <= n => Size(j) <= Size(n)}
<1>1. /\ \A n \in 0 .. ValueRange : Size(n) \in Nat
      /\ \A n \in 1 .. ValueRange : Size(n) = Size(n - 1) + bag[n - 1]
      /\ \A n \in 1 .. ValueRange : bag[n - 1] \in Nat
  BY Sizes, Ranges
<1> HIDE DEF Size
<1>2. 0 \in G
  BY <1>1, Ranges
<1>3. ASSUME NEW n \in 1 .. ValueRange, n - 1 \in G PROVE n \in G
  BY <1>1, <1>3
<1>4. \A n \in 0 .. ValueRange : n \in G
  <2> HIDE DEF G
  <2> QED
    BY <1>2, <1>3, Ranges, UpTo
<1> QED
  BY <1>4 DEF Size

\* Two bags together.
LEMMA SizesAdd ==
    ASSUME NEW a \in Bags, NEW b \in Bags, NEW c \in Bags,
           \A x \in Median!Value : a[x] + b[x] = c[x]
    PROVE  \A k \in 0 .. ValueRange :
             Median!SizeBelow(a, k) + Median!SizeBelow(b, k) = Median!SizeBelow(c, k)
<1> DEFINE Size(bag, n) == Median!SizeBelow(bag, n)
           G == {n \in 0 .. ValueRange : Size(a, n) + Size(b, n) = Size(c, n)}
<1>1. ASSUME NEW bag \in Bags
      PROVE  /\ \A n \in 0 .. ValueRange : Size(bag, n) \in Nat
             /\ \A n \in 1 .. ValueRange : Size(bag, n) = Size(bag, n - 1) + bag[n - 1]
             /\ \A n \in 1 .. ValueRange : bag[n - 1] \in Nat
             /\ Size(bag, 0) = 0
  BY Sizes, Ranges
<1>2. \A n \in 1 .. ValueRange : a[n - 1] + b[n - 1] = c[n - 1]
  BY Ranges
<1> HIDE DEF Size
<1>3. 0 \in G
  BY <1>1, Ranges
<1>4. ASSUME NEW n \in 1 .. ValueRange, n - 1 \in G PROVE n \in G
  BY <1>1, <1>2, <1>4
<1>5. \A n \in 0 .. ValueRange : n \in G
  <2> HIDE DEF G
  <2> QED
    BY <1>3, <1>4, Ranges, UpTo
<1> QED
  BY <1>5 DEF Size

\* A value more.
LEMMA SizesPushed ==
    ASSUME NEW bag \in Bags, NEW x \in Median!Value, NEW new, new = Median!Pushed(bag, x)
    PROVE  /\ new \in Bags
           /\ \A y \in Median!Value : new[y] = bag[y] + IF y = x THEN 1 ELSE 0
           /\ \A k \in 0 .. ValueRange :
                Median!SizeBelow(new, k) = Median!SizeBelow(bag, k) + IF x < k THEN 1 ELSE 0
<1>1. bag[x] \in Nat
  BY Ranges
<1>2. /\ new \in Bags
      /\ \A y \in Median!Value : new[y] = bag[y] + IF y = x THEN 1 ELSE 0
  <2>1. new = [bag EXCEPT ![x] = bag[x] + 1]
    BY DEF Median!Pushed
  <2>2. new \in Bags
    BY <1>1, <2>1 DEF Bags
  <2>3. \A y \in Median!Value : bag[y] \in Nat
    BY Ranges
  <2> QED
    BY <1>1, <2>1, <2>2, <2>3 DEF Bags
<1> DEFINE Size(b, n) == Median!SizeBelow(b, n)
           G == {n \in 0 .. ValueRange : Size(new, n) = Size(bag, n) + IF x < n THEN 1 ELSE 0}
<1>3. ASSUME NEW b \in Bags
      PROVE  /\ \A n \in 0 .. ValueRange : Size(b, n) \in Nat
             /\ \A n \in 1 .. ValueRange : Size(b, n) = Size(b, n - 1) + b[n - 1]
             /\ \A n \in 1 .. ValueRange : b[n - 1] \in Nat
             /\ Size(b, 0) = 0
  BY Sizes, Ranges
<1>4. /\ \A n \in 1 .. ValueRange : new[n - 1] = bag[n - 1] + IF n - 1 = x THEN 1 ELSE 0
      /\ x \in Nat
  BY <1>2, Ranges
<1> HIDE DEF Size
<1>5. 0 \in G
  BY <1>2, <1>3, <1>4, Ranges
<1>6. ASSUME NEW n \in 1 .. ValueRange, n - 1 \in G PROVE n \in G
  BY <1>2, <1>3, <1>4, <1>6
<1>7. \A n \in 0 .. ValueRange : n \in G
  <2> HIDE DEF G
  <2> QED
    BY <1>5, <1>6, Ranges, UpTo
<1> QED
  BY <1>2, <1>7 DEF Size

\* A value less.
LEMMA SizesPopped ==
    ASSUME NEW bag \in Bags, NEW x \in Median!Value, bag[x] > 0,
           NEW new, new = Median!Popped(bag, x)
    PROVE  /\ new \in Bags
           /\ \A y \in Median!Value : new[y] = bag[y] - IF y = x THEN 1 ELSE 0
           /\ \A k \in 0 .. ValueRange :
                Median!SizeBelow(new, k) = Median!SizeBelow(bag, k) - IF x < k THEN 1 ELSE 0
<1>1. bag[x] \in Nat /\ bag[x] - 1 \in Nat
  BY Ranges
<1>2. new = [bag EXCEPT ![x] = bag[x] - 1]
  BY DEF Median!Popped
<1>3. new \in Bags
  BY <1>1, <1>2 DEF Bags
<1>4. \A y \in Median!Value : bag[y] \in Nat /\ new[y] \in Nat
  BY <1>3, Ranges
<1>5. \A y \in Median!Value : new[y] = bag[y] - IF y = x THEN 1 ELSE 0
  BY <1>1, <1>2, <1>4 DEF Bags
<1>6. bag = Median!Pushed(new, x)
  <2>1. Median!Pushed(new, x) = [y \in Median!Value |-> IF y = x THEN new[x] + 1 ELSE new[y]]
    BY <1>3 DEF Median!Pushed, Bags
  <2>2. \A y \in Median!Value : bag[y] = IF y = x THEN new[x] + 1 ELSE new[y]
    BY <1>1, <1>4, <1>5
  <2>3. bag = [y \in Median!Value |-> bag[y]]
    BY DEF Bags
  <2> QED
    BY <2>1, <2>2, <2>3
<1>7. \A k \in 0 .. ValueRange :
        Median!SizeBelow(bag, k) = Median!SizeBelow(new, k) + IF x < k THEN 1 ELSE 0
  BY <1>3, <1>6, SizesPushed
<1>8. \A k \in 0 .. ValueRange : Median!SizeBelow(new, k) \in Nat /\ Median!SizeBelow(bag, k) \in Nat
  BY <1>3, Sizes
<1>9. \A k \in 0 .. ValueRange :
        Median!SizeBelow(new, k) = Median!SizeBelow(bag, k) - IF x < k THEN 1 ELSE 0
  BY <1>7, <1>8
<1> QED
  BY <1>3, <1>5, <1>9

\* Bags that have no value from k on, or below it.
LEMMA SizesTop ==
    ASSUME NEW bag \in Bags, NEW k \in 0 .. ValueRange,
           \A y \in Median!Value : y >= k => bag[y] = 0
    PROVE  Median!Size(bag) = Median!SizeBelow(bag, k)
<1> DEFINE Size(n) == Median!SizeBelow(bag, n)
           G == {n \in 0 .. ValueRange : k <= n => Size(n) = Size(k)}
<1>1. /\ \A n \in 0 .. ValueRange : Size(n) \in Nat
      /\ \A n \in 1 .. ValueRange : Size(n) = Size(n - 1) + bag[n - 1]
      /\ \A n \in 1 .. ValueRange : n - 1 >= k => bag[n - 1] = 0
  BY Sizes, Ranges
<1> HIDE DEF Size
<1>2. 0 \in G
  BY <1>1, Ranges
<1>3. ASSUME NEW n \in 1 .. ValueRange, n - 1 \in G PROVE n \in G
  BY <1>1, <1>3
<1>4. \A n \in 0 .. ValueRange : n \in G
  <2> HIDE DEF G
  <2> QED
    BY <1>2, <1>3, Ranges, UpTo
<1>5. Size(ValueRange) = Size(k)
  BY <1>4, Ranges
<1> QED
  BY <1>5 DEF Size, Median!Size

LEMMA SizesBottom ==
    ASSUME NEW bag \in Bags, NEW k \in 0 .. ValueRange,
           \A y \in Median!Value : y < k => bag[y] = 0
    PROVE  Median!SizeBelow(bag, k) = 0
<1> DEFINE Size(n) == Median!SizeBelow(bag, n)
           G == {n \in 0 .. ValueRange : n <= k => Size(n) = 0}
<1>1. /\ Size(0) = 0
      /\ \A n \in 1 .. ValueRange : Size(n) = Size(n - 1) + bag[n - 1]
      /\ \A n \in 1 .. ValueRange : n - 1 < k => bag[n - 1] = 0
  BY Sizes, Ranges
<1> HIDE DEF Size
<1>2. 0 \in G
  BY <1>1, Ranges
<1>3. ASSUME NEW n \in 1 .. ValueRange, n - 1 \in G PROVE n \in G
  BY <1>1, <1>3
<1>4. \A n \in 0 .. ValueRange : n \in G
  <2> HIDE DEF G
  <2> QED
    BY <1>2, <1>3, Ranges, UpTo
<1> QED
  BY <1>4 DEF Size

\* The values at the two ends of a bag that is not empty.
LEMMA Peeks ==
    ASSUME NEW bag \in Bags, Median!Size(bag) > 0
    PROVE  /\ Median!MaxPeek(bag) \in Median!Value /\ bag[Median!MaxPeek(bag)] > 0
           /\ \A y \in Median!Value : bag[y] > 0 => y <= Median!MaxPeek(bag)
           /\ Median!MinPeek(bag) \in Median!Value /\ bag[Median!MinPeek(bag)] > 0
           /\ \A y \in Median!Value : bag[y] > 0 => y >= Median!MinPeek(bag)
<1>1. \A y \in Median!Value : bag[y] \in Nat
  BY Ranges
<1>2. PICK z \in Median!Value : bag[z] > 0
  <2>1. CASE \A y \in Median!Value : bag[y] = 0
    <3>1. Median!SizeBelow(bag, ValueRange) = 0
      BY <2>1, Ranges, SizesBottom
    <3> QED
      BY <3>1 DEF Median!Size
  <2> QED
    BY <1>1, <2>1
<1>3. \E x \in Median!Value : bag[x] > 0 /\ \A y \in Median!Value : y < x => bag[y] = 0
  <2> DEFINE T == {y \in Median!Value : bag[y] > 0}
  <2>1. T \in SUBSET Nat /\ T # {}
    BY <1>2, Ranges
  <2>2. PICK x \in T : \A y \in T : x <= y
    <3> HIDE DEF T
    <3> QED
      BY <2>1, Least
  <2>3. \A y \in Median!Value : y < x => bag[y] = 0
    <3> TAKE y \in Median!Value
    <3>1. y \in Nat /\ x \in Nat /\ bag[y] \in Nat
      BY <1>1, <2>1, Ranges
    <3> QED
      BY <2>2, <3>1
  <2> QED
    BY <2>2, <2>3
<1>4. \E x \in Median!Value : bag[x] > 0 /\ \A y \in Median!Value : y > x => bag[y] = 0
  <2> DEFINE T == {y \in 0 .. ValueRange : \A u \in Median!Value : u >= y => bag[u] = 0}
  <2>1. T \in SUBSET Nat /\ ValueRange \in T
    BY Ranges
  <2>2. PICK t \in T : \A y \in T : t <= y
    <3> HIDE DEF T
    <3> QED
      BY <2>1, Least
  <2>3. z < t /\ t - 1 \in Median!Value /\ t - 1 \in 0 .. ValueRange /\ t - 1 \notin T
    BY <1>2, <2>2, Ranges
  <2>4. PICK u \in Median!Value : u >= t - 1 /\ bag[u] # 0
    BY <2>3
  <2>5. u = t - 1
    BY <2>2, <2>4, Ranges
  <2>6. bag[t - 1] > 0
    BY <1>1, <2>4, <2>5
  <2>7. \A y \in Median!Value : y > t - 1 => bag[y] = 0
    BY <2>2, Ranges
  <2> QED
    BY <2>3, <2>6, <2>7
<1> DEFINE high == Median!MaxPeek(bag)
           low == Median!MinPeek(bag)
<1>5. high \in Median!Value /\ bag[high] > 0 /\ \A y \in Median!Value : y > high => bag[y] = 0
  BY <1>4 DEF Median!MaxPeek
<1>6. low \in Median!Value /\ bag[low] > 0 /\ \A y \in Median!Value : y < low => bag[y] = 0
  BY <1>3 DEF Median!MinPeek
<1> HIDE DEF high, low
<1>7. \A y \in Median!Value : bag[y] > 0 => y <= high
  BY <1>1, <1>5, Ranges
<1>8. \A y \in Median!Value : bag[y] > 0 => y >= low
  BY <1>1, <1>6, Ranges
<1> QED
  BY <1>5, <1>6, <1>7, <1>8 DEF high, low

\* Value number half of a bag, counted from 0.
IsMedian(bag, half, m) ==
    /\ m \in Median!Value
    /\ Median!SizeBelow(bag, m) <= half /\ half < Median!SizeBelow(bag, m + 1)

LEMMA OneMedian ==
    ASSUME NEW bag \in Bags, NEW half \in Nat, NEW x, NEW y,
           IsMedian(bag, half, x), IsMedian(bag, half, y)
    PROVE  x = y
<1>1. ASSUME NEW a, NEW b, IsMedian(bag, half, a), IsMedian(bag, half, b)
      PROVE  ~ a < b
  <2>1. /\ a \in Nat /\ b \in Nat /\ a + 1 \in 0 .. ValueRange /\ b \in 0 .. ValueRange
    BY <1>1, Ranges DEF IsMedian
  <2>2. Median!SizeBelow(bag, a + 1) \in Nat /\ Median!SizeBelow(bag, b) \in Nat
    BY <2>1, Sizes
  <2>3. half < Median!SizeBelow(bag, a + 1) /\ Median!SizeBelow(bag, b) <= half
    BY <1>1 DEF IsMedian
  <2>4. a < b => Median!SizeBelow(bag, a + 1) <= Median!SizeBelow(bag, b)
    BY <2>1, SizesRise
  <2> QED
    BY <2>1, <2>2, <2>3, <2>4
<1>2. x \in Nat /\ y \in Nat
  BY Ranges DEF IsMedian
<1> QED
  BY <1>1, <1>2

(***************************************************************************)
(* Running medians: the sorted vector                                        *)
(***************************************************************************)

Sorted(v) == \A i, j \in 1 .. Len(v) : i <= j => v[i] <= v[j]

\* The places of x in v, and the places of what is below x.
At(v, x) == {i \in 1 .. Len(v) : v[i] = x}
Below(v, x) == {i \in 1 .. Len(v) : v[i] < x}

LEMMA PlacesFinite ==
    ASSUME NEW v \in Seq(Median!Value), NEW x
    PROVE  /\ IsFiniteSet(At(v, x)) /\ IsFiniteSet(Below(v, x))
           /\ Cardinality(At(v, x)) \in Nat /\ Cardinality(Below(v, x)) \in Nat
<1>1. Len(v) \in Nat
  OBVIOUS
<1>2. IsFiniteSet(1 .. Len(v))
  BY <1>1, FS_Interval
<1>3. At(v, x) \in SUBSET (1 .. Len(v)) /\ Below(v, x) \in SUBSET (1 .. Len(v))
  BY DEF At, Below
<1> QED
  BY <1>2, <1>3, FS_Subset, FS_CardinalityType

\* In a sorted vector what is below x comes first.
LEMMA BelowFirst ==
    ASSUME NEW v \in Seq(Median!Value), Sorted(v), NEW x \in Int
    PROVE  Cardinality(Below(v, x)) \in 0 .. Len(v) /\ Below(v, x) = 1 .. Cardinality(Below(v, x))
<1>1. /\ Len(v) \in Nat /\ \A i \in 1 .. Len(v) : v[i] \in Int
  BY Ranges
<1> DEFINE T == {i \in 1 .. Len(v) + 1 : i \notin Below(v, x)}
<1>2. T \in SUBSET Nat /\ Len(v) + 1 \in T
  BY <1>1 DEF Below
<1>3. PICK m \in T : \A y \in T : m <= y
  <2> HIDE DEF T
  <2> QED
    BY <1>2, Least
<1>4. Below(v, x) = 1 .. m - 1
  <2>1. \A i \in 1 .. m - 1 : i \in Below(v, x)
    BY <1>1, <1>3
  <2>2. ASSUME NEW i \in Below(v, x)
        PROVE  i \in 1 .. m - 1
    <3>1. i \in 1 .. Len(v) /\ v[i] < x
      BY DEF Below
    <3>2. CASE m <= i
      <4>1. m \in 1 .. Len(v) /\ ~ (v[m] < x)
        BY <1>1, <1>3, <3>1, <3>2 DEF Below
      <4>2. v[m] <= v[i]
        BY <3>1, <3>2, <4>1 DEF Sorted
      <4> QED
        BY <1>1, <3>1, <4>1, <4>2
    <3> QED
      BY <1>1, <1>3, <3>1, <3>2
  <2> QED
    BY <2>1, <2>2
<1>5. Cardinality(1 .. m - 1) = m - 1
  BY <1>1, <1>3, FS_Interval
<1> QED
  BY <1>1, <1>3, <1>4, <1>5

\* binary_search finds a place after which x keeps the vector sorted.
LEMMA PositionsFit ==
    ASSUME NEW v \in Seq(Median!Value), Sorted(v), NEW x \in Median!Value,
           NEW i \in Median!Positions(v, x)
    PROVE  /\ i \in 0 .. Len(v)
           /\ \A k \in 1 .. Len(v) : /\ k <= i => v[k] <= x
                                     /\ k > i => x <= v[k]
<1>1. Len(v) \in Nat /\ \A k \in 1 .. Len(v) : v[k] \in Int
  BY Ranges
<1>2. x \in Int
  BY Ranges
<1>3. DOMAIN v = 1 .. Len(v)
  OBVIOUS
<1>4. CASE {k \in DOMAIN v : v[k] = x} # {}
  <2>1. i \in 1 .. Len(v) /\ v[i] = x
    BY <1>3, <1>4 DEF Median!Positions
  <2> QED
    BY <1>1, <2>1 DEF Sorted
<1>5. CASE {k \in DOMAIN v : v[k] = x} = {}
  <2>1. {k \in DOMAIN v : v[k] < x} = Below(v, x)
    BY <1>3 DEF Below
  <2>2. i = Median!Cardinality({k \in DOMAIN v : v[k] < x})
    BY <1>5 DEF Median!Positions
  <2>3. i = Cardinality(Below(v, x))
    BY <2>1, <2>2, MedianCardinality
  <2>4. i \in 0 .. Len(v) /\ Below(v, x) = 1 .. i
    BY <1>2, <2>3, BelowFirst
  <2>5. \A k \in 1 .. Len(v) : k <= i <=> v[k] < x
    BY <1>1, <2>4 DEF Below
  <2>6. \A k \in 1 .. Len(v) : v[k] < x \/ x <= v[k]
    BY <1>1, <1>2
  <2> QED
    BY <1>1, <1>2, <2>4, <2>5, <2>6
<1> QED
  BY <1>4, <1>5

\* What insert makes of the vector.
Inserts(v, i, x, w) ==
    \A k \in 1 .. Len(v) + 1 :
      w[k] = IF k <= i THEN v[k] ELSE IF k = i + 1 THEN x ELSE v[k - 1]

LEMMA Inserted ==
    ASSUME NEW v \in Seq(Median!Value), NEW x \in Median!Value, NEW i \in 0 .. Len(v),
           NEW w, w = Median!InsertAfter(v, i, x)
    PROVE  w \in Seq(Median!Value) /\ Len(w) = Len(v) + 1 /\ Inserts(v, i, x, w)
<1>1. Len(v) \in Nat
  OBVIOUS
<1> DEFINE a == SubSeq(v, 1, i)
           b == SubSeq(v, i + 1, Len(v))
<1>2. /\ a \in Seq(Median!Value) /\ Len(a) = i /\ \A k \in 1 .. i : a[k] = v[k]
  <2>1. \A k \in 1 .. i : v[k] \in Median!Value
    BY <1>1
  <2> QED
    BY <1>1, <2>1
<1>3. /\ b \in Seq(Median!Value) /\ Len(b) = Len(v) - i /\ \A k \in 1 .. Len(v) - i : b[k] = v[k + i]
  <2>1. \A k \in i + 1 .. Len(v) : v[k] \in Median!Value
    BY <1>1
  <2>2. Len(b) = Len(v) - i
    BY <1>1
  <2> QED
    BY <1>1, <2>1, <2>2
<1>4. w = a \o <<x>> \o b
  BY DEF Median!InsertAfter
<1> HIDE DEF a, b
<1>5. PICK c : c = a \o <<x>>
  OBVIOUS
<1>6. /\ c \in Seq(Median!Value) /\ Len(c) = i + 1
      /\ \A k \in 1 .. i + 1 : c[k] = IF k <= i THEN v[k] ELSE x
  BY <1>1, <1>2, <1>5
<1>7. w = c \o b
  BY <1>4, <1>5
<1>8. w \in Seq(Median!Value) /\ Len(w) = Len(v) + 1
  <2>1. w \in Seq(Median!Value)
    BY <1>3, <1>6, <1>7
  <2>2. Len(w) = Len(c) + Len(b)
    <3>1. c \in Seq(Median!Value) /\ b \in Seq(Median!Value)
      BY <1>3, <1>6
    <3> QED
      BY ONLY <1>7, <3>1
  <2> QED
    BY <1>1, <1>3, <1>6, <2>1, <2>2
<1>9. ASSUME NEW k \in 1 .. Len(v) + 1
      PROVE  w[k] = IF k <= i THEN v[k] ELSE IF k = i + 1 THEN x ELSE v[k - 1]
  <2>1. CASE k <= i + 1
    <3>1. w[k] = c[k]
      BY <1>1, <1>3, <1>6, <1>7, <2>1
    <3> QED
      BY <1>1, <1>6, <2>1, <3>1
  <2>2. CASE k > i + 1
    <3>1. w[k] = b[k - (i + 1)]
      BY <1>1, <1>3, <1>6, <1>7, <2>2
    <3>2. k - (i + 1) \in 1 .. Len(v) - i /\ (k - (i + 1)) + i = k - 1
      BY <1>1, <2>2
    <3> QED
      BY <1>1, <1>3, <2>2, <3>1, <3>2
  <2> QED
    BY <1>1, <2>1, <2>2
<1> QED
  BY <1>8, <1>9 DEF Inserts

\* The vector stays sorted, and has one x more.
LEMMA InsertKeeps ==
    ASSUME NEW v \in Seq(Median!Value), Sorted(v), NEW x \in Median!Value,
           NEW i \in Median!Positions(v, x), NEW w, w = Median!InsertAfter(v, i, x)
    PROVE  /\ w \in Seq(Median!Value) /\ Len(w) = Len(v) + 1 /\ Sorted(w)
           /\ \A y \in Median!Value :
                Cardinality(At(w, y)) = Cardinality(At(v, y)) + IF y = x THEN 1 ELSE 0
<1>1. /\ Len(v) \in Nat /\ \A k \in 1 .. Len(v) : v[k] \in Int
      /\ x \in Int
  BY Ranges
<1>2. /\ i \in 0 .. Len(v)
      /\ \A k \in 1 .. Len(v) : k <= i => v[k] <= x
      /\ \A k \in 1 .. Len(v) : k > i => x <= v[k]
  BY PositionsFit
<1>3. /\ w \in Seq(Median!Value) /\ Len(w) = Len(v) + 1
      /\ \A k \in 1 .. Len(v) + 1 :
           w[k] = IF k <= i THEN v[k] ELSE IF k = i + 1 THEN x ELSE v[k - 1]
  <2>1. i \in 0 .. Len(v)
    BY <1>2
  <2>2. w \in Seq(Median!Value) /\ Len(w) = Len(v) + 1 /\ Inserts(v, i, x, w)
    BY <2>1, Inserted
  <2> QED
    BY <2>2 DEF Inserts
<1>4. ASSUME NEW j \in 1 .. Len(w), NEW k \in 1 .. Len(w), j <= k
      PROVE  w[j] <= w[k]
  <2>1. CASE k <= i
    <3>1. /\ j \in 1 .. Len(v) /\ k \in 1 .. Len(v)
          /\ w[j] = v[j] /\ w[k] = v[k]
      BY <1>1, <1>2, <1>3, <1>4, <2>1
    <3>2. v[j] <= v[k]
      BY <1>4, <3>1 DEF Sorted
    <3> QED
      BY <3>1, <3>2
  <2>2. CASE k = i + 1
    <3>1. w[k] = x
      <4>1. k \in 1 .. Len(v) + 1 /\ i \in Nat /\ ~(k <= i)
        BY <1>1, <1>2, <1>3, <2>2
      <4> QED
        BY <1>3, <2>2, <4>1
    <3>2. CASE j = k
      BY <1>1, <3>1, <3>2
    <3>3. CASE j # k
      <4>1. j \in 1 .. Len(v) /\ j <= i
        <5>1. j \in 1 .. i + 1 /\ j # i + 1 /\ i \in Nat /\ i <= Len(v)
          BY <1>1, <1>2, <1>4, <2>2, <3>3
        <5> QED
          BY <1>1, <5>1
      <4>2. w[j] = v[j] /\ v[j] <= x
        BY <1>1, <1>2, <1>3, <4>1
      <4> QED
        BY <3>1, <4>2
    <3> QED
      BY <3>2, <3>3
  <2>3. CASE k > i + 1
    <3>1. k - 1 \in 1 .. Len(v) /\ k - 1 > i /\ w[k] = v[k - 1]
      BY <1>1, <1>2, <1>3, <2>3
    <3>2. CASE j <= i
      <4>1. j \in 1 .. Len(v) /\ j <= k - 1 /\ w[j] = v[j]
        BY <1>1, <1>2, <1>3, <2>3, <3>2
      <4> QED
        BY <3>1, <4>1 DEF Sorted
    <3>3. CASE j = i + 1
      <4>1. w[j] = x
        BY <1>1, <1>2, <1>3, <3>3
      <4> QED
        BY <1>2, <3>1, <4>1
    <3>4. CASE j > i + 1
      <4>1. j - 1 \in 1 .. Len(v) /\ j - 1 <= k - 1 /\ w[j] = v[j - 1]
        BY <1>1, <1>2, <1>3, <1>4, <3>4
      <4> QED
        BY <3>1, <4>1 DEF Sorted
    <3> QED
      BY <1>1, <1>2, <1>3, <3>2, <3>3, <3>4
  <2> QED
    BY <1>1, <1>2, <1>3, <2>1, <2>2, <2>3
<1>5. ASSUME NEW y \in Median!Value
      PROVE  Cardinality(At(w, y)) = Cardinality(At(v, y)) + IF y = x THEN 1 ELSE 0
  <2> DEFINE S == At(v, y)
             T == At(w, y) \ {i + 1}
             f == [k \in S |-> IF k <= i THEN k ELSE k + 1]
  <2>1. \A k \in S : k \in 1 .. Len(v) /\ v[k] = y /\ f[k] = IF k <= i THEN k ELSE k + 1
    BY DEF At
  <2>2. \A t : t \in T <=> t \in 1 .. Len(v) + 1 /\ t # i + 1 /\ w[t] = y
    BY <1>3 DEF At
  <2>3. ASSUME NEW k \in S
        PROVE  f[k] \in T
    <3>1. /\ f[k] \in 1 .. Len(v) + 1 /\ f[k] # i + 1
          /\ f[k] = IF k <= i THEN k ELSE k + 1
      BY <1>1, <1>2, <2>1
    <3>2. w[f[k]] = v[k]
      BY <1>1, <1>2, <1>3, <2>1, <3>1
    <3> QED
      BY <2>1, <2>2, <3>1, <3>2
  <2>4. \A k, m \in S : f[k] = f[m] => k = m
    BY <1>1, <1>2, <2>1
  <2>5. ASSUME NEW t \in T
        PROVE  \E k \in S : f[k] = t
    <3>1. t \in 1 .. Len(v) + 1 /\ t # i + 1 /\ w[t] = y
      BY <2>2
    <3>2. CASE t <= i
      <4>1. t \in 1 .. Len(v) /\ v[t] = y
        BY <1>1, <1>2, <1>3, <3>1, <3>2
      <4>2. t \in S
        BY <4>1 DEF At
      <4> QED
        BY <2>1, <3>2, <4>2
    <3>3. CASE t > i + 1
      <4>1. t - 1 \in 1 .. Len(v) /\ v[t - 1] = y
        BY <1>1, <1>2, <1>3, <3>1, <3>3
      <4>2. t - 1 \in S
        BY <4>1 DEF At
      <4>3. f[t - 1] = t
        BY <1>1, <1>2, <2>1, <3>1, <3>3, <4>2
      <4> QED
        BY <4>2, <4>3
    <3> QED
      BY <1>1, <1>2, <3>1, <3>2, <3>3
  <2>6. f \in [S -> T]
    BY <2>3
  <2>7. IsFiniteSet(S) /\ Cardinality(S) \in Nat
    BY PlacesFinite
  <2>8. IsFiniteSet(T) /\ Cardinality(T) = Cardinality(S)
    <3> HIDE DEF S, T, f
    <3> QED
      BY <2>4, <2>5, <2>6, <2>7, SameNumber
  <2>9. w[i + 1] = x /\ i + 1 \in 1 .. Len(w)
    BY <1>1, <1>2, <1>3
  <2>10. CASE y = x
    <3>1. At(w, y) = T \cup {i + 1} /\ i + 1 \notin T
      BY <2>9, <2>10 DEF At
    <3> HIDE DEF S, T
    <3>2. Cardinality(T \cup {i + 1}) = Cardinality(T) + 1
      BY <2>8, <3>1, FS_AddElement
    <3> QED
      BY <2>8, <2>10, <3>1, <3>2 DEF S
  <2>11. CASE y # x
    <3>1. At(w, y) = T
      BY <2>9, <2>11 DEF At
    <3> HIDE DEF T
    <3> QED
      BY <2>7, <2>8, <2>11, <3>1
  <2> QED
    BY <2>10, <2>11
<1> QED
  BY <1>3, <1>4, <1>5 DEF Sorted

\* The values of a bag below k are as many as those of the vector it counts.
LEMMA BelowCounted ==
    ASSUME NEW v \in Seq(Median!Value), NEW bag \in Bags,
           \A x \in Median!Value : bag[x] = Cardinality(At(v, x))
    PROVE  \A k \in 0 .. ValueRange : Median!SizeBelow(bag, k) = Cardinality(Below(v, k))
<1> DEFINE Size(n) == Median!SizeBelow(bag, n)
           G == {n \in 0 .. ValueRange : Size(n) = Cardinality(Below(v, n))}
<1>1. /\ Size(0) = 0
      /\ \A n \in 1 .. ValueRange : Size(n) = Size(n - 1) + bag[n - 1]
      /\ \A n \in 1 .. ValueRange : n - 1 \in Median!Value
  BY Sizes, Ranges
<1> HIDE DEF Size
<1>2. Len(v) \in Nat /\ \A i \in 1 .. Len(v) : v[i] \in Nat
  BY Ranges
<1>3. 0 \in G
  <2>1. Below(v, 0) = {}
    BY <1>2 DEF Below
  <2>2. Cardinality({}) = 0
    BY FS_EmptySet
  <2>3. 0 \in 0 .. ValueRange
    BY Ranges
  <2> QED
    BY <1>1, <2>1, <2>2, <2>3
<1>4. ASSUME NEW n \in 1 .. ValueRange, n - 1 \in G
      PROVE  n \in G
  <2>1. /\ Below(v, n) = Below(v, n - 1) \cup At(v, n - 1)
        /\ Below(v, n - 1) \cap At(v, n - 1) = {}
    BY <1>2 DEF Below, At
  <2>2. /\ IsFiniteSet(Below(v, n - 1)) /\ Cardinality(Below(v, n - 1)) \in Nat
        /\ IsFiniteSet(At(v, n - 1)) /\ Cardinality(At(v, n - 1)) \in Nat
    BY PlacesFinite
  <2>3. Cardinality(Below(v, n)) =
          Cardinality(Below(v, n - 1)) + Cardinality(At(v, n - 1)) - Cardinality({})
    BY <2>1, <2>2, FS_Union
  <2>4. Cardinality({}) = 0
    BY FS_EmptySet
  <2>5. Size(n) = Cardinality(Below(v, n - 1)) + Cardinality(At(v, n - 1))
    BY <1>1, <1>4
  <2> QED
    BY <2>2, <2>3, <2>4, <2>5
<1>5. \A n \in 0 .. ValueRange : n \in G
  <2> HIDE DEF G
  <2> QED
    BY <1>3, <1>4, Ranges, UpTo
<1> QED
  BY <1>5 DEF Size

\* The middle one of the sorted values is the median.
LEMMA MiddleIsMedian ==
    ASSUME NEW v \in Seq(Median!Value), Sorted(v), Len(v) > 0, NEW bag \in Bags,
           \A x \in Median!Value : bag[x] = Cardinality(At(v, x)),
           NEW half, half = (Len(v) - 1) \div 2
    PROVE  /\ half \in Nat /\ half < Len(v)
           /\ IsMedian(bag, half, v[half + 1])
           /\ Cardinality(Below(v, v[half + 1])) <= half
           /\ half < Cardinality(Below(v, v[half + 1] + 1))
<1> DEFINE m == v[half + 1]
<1>1. /\ Len(v) \in Nat /\ half \in Nat /\ half + 1 \in 1 .. Len(v)
      /\ \A i \in 1 .. Len(v) : v[i] \in Nat /\ v[i] \in Median!Value
  BY Ranges
<1>2. m \in Median!Value /\ m \in Nat /\ m \in 0 .. ValueRange /\ m + 1 \in 0 .. ValueRange
  BY <1>1, Ranges
<1> HIDE DEF m
<1>3. Cardinality(Below(v, m)) <= half
  <2>1. /\ Cardinality(Below(v, m)) \in 0 .. Len(v)
        /\ Below(v, m) = 1 .. Cardinality(Below(v, m))
    BY <1>2, BelowFirst
  <2>2. half + 1 \notin Below(v, m)
    BY <1>1 DEF Below, m
  <2> QED
    BY <1>1, <2>1, <2>2
<1>4. half < Cardinality(Below(v, m + 1))
  <2>1. /\ Cardinality(Below(v, m + 1)) \in 0 .. Len(v)
        /\ Below(v, m + 1) = 1 .. Cardinality(Below(v, m + 1))
    BY <1>2, BelowFirst
  <2>2. half + 1 \in Below(v, m + 1)
    BY <1>1 DEF Below, m
  <2> QED
    BY <1>1, <2>1, <2>2
<1>5. IsMedian(bag, half, m)
  BY <1>2, <1>3, <1>4, BelowCounted DEF IsMedian
<1> QED
  BY <1>1, <1>3, <1>4, <1>5 DEF m

(***************************************************************************)
(* Running medians: the buckets                                              *)
(***************************************************************************)

\* Where the loop stands at bucket m, and where it goes from there.
Spot(bag, m) == [m_i |-> m, sum_m |-> Median!SizeBelow(bag, m)]
Toward(m, goal) == IF m < goal THEN m + 1 ELSE IF m > goal THEN m - 1 ELSE goal

LEMMA TurnMoves ==
    ASSUME NEW bag \in Bags, NEW half \in Nat, NEW goal, IsMedian(bag, half, goal),
           NEW m \in Median!Value
    PROVE  Median!Turned(bag, half, Spot(bag, m)) = Spot(bag, Toward(m, goal))
<1> DEFINE Size(n) == Median!SizeBelow(bag, n)
<1>1. /\ m \in Nat /\ goal \in Nat /\ m \in 0 .. ValueRange /\ m + 1 \in 0 .. ValueRange
      /\ goal \in 0 .. ValueRange /\ goal + 1 \in 0 .. ValueRange
      /\ m > goal => m - 1 \in 0 .. ValueRange
      /\ ValueRange \in Nat
  BY Ranges DEF IsMedian
<1>2. \A n \in 0 .. ValueRange : Size(n) \in Nat
  BY Sizes
<1>3. \A n \in 1 .. ValueRange : Size(n) = Size(n - 1) + bag[n - 1]
  BY Sizes
<1>4. Size(goal) <= half /\ half < Size(goal + 1)
  BY DEF IsMedian
<1>5. bag[m] \in Nat
  BY Ranges
<1>6. Size(m + 1) = Size(m) + bag[m]
  BY <1>1, <1>3
<1>7. m < goal => Size(m + 1) <= Size(goal)
  BY <1>1, SizesRise
<1>8. goal < m => Size(goal + 1) <= Size(m)
  BY <1>1, SizesRise
<1>9. /\ goal < m <=> half < Size(m)
      /\ m < goal <=> Size(m) + bag[m] < half + 1
  <2> HIDE DEF Size
  <2>1. Size(m) \in Nat /\ Size(goal) \in Nat /\ Size(goal + 1) \in Nat /\ Size(m + 1) \in Nat
    BY <1>1, <1>2
  <2>2. CASE m < goal
    <3>1. Size(m) <= half /\ Size(m) + bag[m] < half + 1
      BY <1>4, <1>5, <1>6, <1>7, <2>1, <2>2
    <3> QED
      BY <1>1, <2>1, <2>2, <3>1
  <2>3. CASE goal < m
    <3>1. half < Size(m) /\ ~ (Size(m) + bag[m] < half + 1)
      BY <1>4, <1>5, <1>8, <2>1, <2>3
    <3> QED
      BY <1>1, <2>3, <3>1
  <2>4. CASE m = goal
    <3>1. ~ (half < Size(m)) /\ ~ (Size(m) + bag[m] < half + 1)
      BY <1>4, <1>5, <1>6, <2>1, <2>4
    <3> QED
      BY <1>1, <2>4, <3>1
  <2> QED
    BY <1>1, <2>2, <2>3, <2>4
<1>10. PICK at : at = Spot(bag, m)
  OBVIOUS
<1>11. at.m_i = m /\ at.sum_m = Size(m)
  BY <1>10 DEF Spot
<1>12. CASE goal < m
  <2>1. Median!Turned(bag, half, at) = [m_i |-> m - 1, sum_m |-> Size(m) - bag[m - 1]]
    <3>1. half < at.sum_m /\ ~ (at.sum_m + bag[at.m_i] < half + 1)
      BY <1>1, <1>9, <1>11, <1>12
    <3>2. Median!Turned(bag, half, at) =
            [m_i |-> at.m_i - 1, sum_m |-> at.sum_m - bag[at.m_i - 1]]
      BY <3>1 DEF Median!Turned
    <3> QED
      BY <1>11, <3>2
  <2>2. Size(m) - bag[m - 1] = Size(m - 1)
    <3>1. m \in 1 .. ValueRange /\ m - 1 \in Median!Value
      BY <1>1, <1>12, Ranges
    <3>2. bag[m - 1] \in Nat
      BY <3>1, Ranges
    <3> HIDE DEF Size
    <3> QED
      BY <1>1, <1>2, <1>3, <3>1, <3>2, <1>12
  <2>3. Toward(m, goal) = m - 1
    BY <1>1, <1>12 DEF Toward
  <2> QED
    BY <1>10, <2>1, <2>2, <2>3 DEF Spot
<1>13. CASE m < goal
  <2>1. ~ (half < at.sum_m) /\ at.sum_m + bag[at.m_i] < half + 1
    BY <1>1, <1>9, <1>11, <1>13
  <2>2. Median!Turned(bag, half, at) = [m_i |-> at.m_i + 1, sum_m |-> at.sum_m + bag[at.m_i]]
    BY <2>1 DEF Median!Turned
  <2>3. Toward(m, goal) = m + 1
    BY <1>13 DEF Toward
  <2>4. Median!Turned(bag, half, at) = [m_i |-> m + 1, sum_m |-> Size(m + 1)]
    BY <1>6, <1>11, <2>2
  <2> QED
    BY <1>10, <2>3, <2>4 DEF Spot
<1>14. CASE m = goal
  <2>1. ~ (half < at.sum_m) /\ ~ (at.sum_m + bag[at.m_i] < half + 1)
    BY <1>1, <1>9, <1>11, <1>14
  <2>2. Median!Turned(bag, half, at) = at
    BY <2>1 DEF Median!Turned
  <2>3. Toward(m, goal) = m
    BY <1>1, <1>14 DEF Toward
  <2> QED
    BY <1>10, <2>2, <2>3
<1> QED
  BY <1>1, <1>12, <1>13, <1>14

\* The place of the loop after some turns.
After(m, goal, turn) ==
    IF m <= goal THEN IF m + turn <= goal THEN m + turn ELSE goal
                 ELSE IF m - turn >= goal THEN m - turn ELSE goal

\* The loop ends at the median, from wherever it starts.
LEMMA Settles ==
    ASSUME NEW bag \in Bags, NEW half \in Nat, NEW goal, IsMedian(bag, half, goal),
           NEW m \in Median!Value
    PROVE  Median!Settled(bag, half, Spot(bag, m)) = Spot(bag, goal)
<1> DEFINE at == Spot(bag, m)
           place(k) == After(m, goal, k)
           step(f) == [turn \in 0 .. ValueRange |->
                         IF turn = 0 THEN at ELSE Median!Turned(bag, half, f[turn - 1])]
           loop == CHOOSE f : f = step(f)
           f == [turn \in 0 .. ValueRange |-> Spot(bag, place(turn))]
<1>1. Median!Settled(bag, half, at) = loop[ValueRange]
  BY DEF Median!Settled
<1>2. m \in 0 .. ValueRange - 1 /\ goal \in 0 .. ValueRange - 1 /\ ValueRange \in Nat
  BY Ranges DEF IsMedian
<1>3. /\ place(0) = m /\ place(ValueRange) = goal
      /\ \A k \in 0 .. ValueRange : place(k) \in 0 .. ValueRange - 1
      /\ \A k \in 1 .. ValueRange : place(k) = Toward(place(k - 1), goal)
  BY <1>2 DEF After, Toward
<1> HIDE DEF place
<1>4. \A k \in 1 .. ValueRange :
        Median!Turned(bag, half, Spot(bag, place(k - 1))) = Spot(bag, place(k))
  <2> TAKE k \in 1 .. ValueRange
  <2>1. place(k - 1) \in Median!Value
    BY <1>2, <1>3, Ranges
  <2> QED
    BY <1>3, <2>1, TurnMoves
<1>5. f = step(f)
  <2>1. ASSUME NEW turn \in 0 .. ValueRange
        PROVE  f[turn] = IF turn = 0 THEN at ELSE Median!Turned(bag, half, f[turn - 1])
    <3>1. CASE turn = 0
      BY <1>3, <3>1
    <3>2. CASE turn # 0
      <4>1. turn \in 1 .. ValueRange /\ turn - 1 \in 0 .. ValueRange
        BY <1>2, <3>2
      <4>2. f[turn - 1] = Spot(bag, place(turn - 1))
        BY <4>1
      <4> QED
        BY <1>4, <3>2, <4>1, <4>2
    <3> QED
      BY <3>1, <3>2
  <2> QED
    BY <2>1
<1>6. loop = step(loop)
  <2> HIDE DEF f
  <2> QED
    BY <1>5
<1> HIDE DEF loop
<1>7. /\ loop[0] = at
      /\ \A k \in 1 .. ValueRange : loop[k] = Median!Turned(bag, half, loop[k - 1])
  BY <1>2, <1>6
<1> DEFINE G == {k \in 0 .. ValueRange : loop[k] = Spot(bag, place(k))}
<1>8. 0 \in G
  BY <1>2, <1>3, <1>7
<1>9. ASSUME NEW k \in 1 .. ValueRange, k - 1 \in G PROVE k \in G
  BY <1>4, <1>7, <1>9
<1>10. \A k \in 0 .. ValueRange : k \in G
  <2> HIDE DEF G
  <2> QED
    BY <1>2, <1>8, <1>9, UpTo
<1> QED
  BY <1>1, <1>2, <1>3, <1>10

(***************************************************************************)
(* Running medians: the heaps                                                *)
(***************************************************************************)

\* No value of the one bag is above one of the other, and together they are c.
Parted(a, b) == \A x, y \in Median!Value : a[x] > 0 /\ b[y] > 0 => x <= y
Makes(a, b, c) == \A x \in Median!Value : a[x] + b[x] = c[x]

LEMMA SizeType == ASSUME NEW bag \in Bags PROVE Median!Size(bag) \in Nat
BY Sizes, Ranges DEF Median!Size

LEMMA SizePushed ==
    ASSUME NEW bag \in Bags, NEW x \in Median!Value
    PROVE  /\ Median!Pushed(bag, x) \in Bags
           /\ Median!Size(Median!Pushed(bag, x)) = Median!Size(bag) + 1
           /\ \A y \in Median!Value :
                Median!Pushed(bag, x)[y] = bag[y] + IF y = x THEN 1 ELSE 0
<1>1. ValueRange \in 0 .. ValueRange /\ x < ValueRange
  BY Ranges
<1> QED
  BY <1>1, SizesPushed DEF Median!Size

LEMMA SizePopped ==
    ASSUME NEW bag \in Bags, NEW x \in Median!Value, bag[x] > 0
    PROVE  /\ Median!Popped(bag, x) \in Bags
           /\ Median!Size(Median!Popped(bag, x)) = Median!Size(bag) - 1
           /\ \A y \in Median!Value :
                Median!Popped(bag, x)[y] = bag[y] - IF y = x THEN 1 ELSE 0
<1>1. ValueRange \in 0 .. ValueRange /\ x < ValueRange
  BY Ranges
<1> QED
  BY <1>1, SizesPopped DEF Median!Size

LEMMA EmptyBag ==
    ASSUME NEW bag \in Bags, Median!Size(bag) = 0, NEW x \in Median!Value
    PROVE  bag[x] = 0
<1>1. /\ x + 1 \in 1 .. ValueRange /\ x + 1 \in 0 .. ValueRange /\ ValueRange \in 0 .. ValueRange
      /\ x \in 0 .. ValueRange /\ x + 1 <= ValueRange /\ (x + 1) - 1 = x /\ bag[x] \in Nat
  BY Ranges
<1>2. Median!SizeBelow(bag, x + 1) <= Median!SizeBelow(bag, ValueRange)
  BY <1>1, SizesRise
<1>3. /\ Median!SizeBelow(bag, x + 1) = Median!SizeBelow(bag, x) + bag[x]
      /\ Median!SizeBelow(bag, x) \in Nat
  BY <1>1, Sizes
<1> QED
  BY <1>1, <1>2, <1>3 DEF Median!Size

\* A value goes to one of the heaps.
LEMMA PlacedKeeps ==
    ASSUME NEW a \in Bags, NEW b \in Bags, NEW c \in Bags, Parted(a, b), Makes(a, b, c),
           Median!Size(a) - Median!Size(b) \in {0, 1}, NEW x \in Median!Value
    PROVE  \E a1, b1 \in Bags :
             /\ Median!Placed(a, b, x) = <<a1, b1>>
             /\ Parted(a1, b1) /\ Makes(a1, b1, Median!Pushed(c, x))
             /\ Median!Size(a1) - Median!Size(b1) \in -1 .. 2
<1>1. /\ \A y \in Median!Value : a[y] \in Nat /\ b[y] \in Nat /\ c[y] \in Nat
      /\ \A y \in Median!Value : y \in Nat
      /\ Median!Size(a) \in Nat /\ Median!Size(b) \in Nat
  BY Ranges, SizeType
<1>2. CASE Median!Size(a) = 0 \/ x < Median!MaxPeek(a)
  <2>1. PICK a1 : a1 = Median!Pushed(a, x)
    OBVIOUS
  <2>2. Median!Placed(a, b, x) = <<a1, b>>
    BY <1>2, <2>1 DEF Median!Placed
  <2>3. /\ a1 \in Bags /\ Median!Size(a1) = Median!Size(a) + 1
        /\ \A y \in Median!Value : a1[y] = a[y] + IF y = x THEN 1 ELSE 0
    BY <2>1, SizePushed
  <2>4. ASSUME NEW y \in Median!Value, b[y] > 0
        PROVE  x <= y
    <3>1. Median!Size(b) # 0
      BY <1>1, <2>4, EmptyBag
    <3>2. Median!Size(a) > 0
      BY <1>1, <3>1
    <3>3. /\ Median!MaxPeek(a) \in Median!Value /\ a[Median!MaxPeek(a)] > 0
          /\ x < Median!MaxPeek(a)
      BY <1>2, <3>2, Peeks
    <3>4. Median!MaxPeek(a) <= y
      BY <2>4, <3>3 DEF Parted
    <3> QED
      BY <1>1, <3>3, <3>4
  <2>5. Parted(a1, b)
    BY <1>1, <2>3, <2>4 DEF Parted
  <2>6. Makes(a1, b, Median!Pushed(c, x))
    <3>1. \A y \in Median!Value : Median!Pushed(c, x)[y] = c[y] + IF y = x THEN 1 ELSE 0
      BY SizePushed
    <3> QED
      BY <1>1, <2>3, <3>1 DEF Makes
  <2> QED
    BY <1>1, <2>2, <2>3, <2>5, <2>6
<1>3. CASE ~ (Median!Size(a) = 0 \/ x < Median!MaxPeek(a))
  <2>1. PICK b1 : b1 = Median!Pushed(b, x)
    OBVIOUS
  <2>2. Median!Placed(a, b, x) = <<a, b1>>
    BY <1>3, <2>1 DEF Median!Placed
  <2>3. /\ b1 \in Bags /\ Median!Size(b1) = Median!Size(b) + 1
        /\ \A y \in Median!Value : b1[y] = b[y] + IF y = x THEN 1 ELSE 0
    BY <2>1, SizePushed
  <2>4. Median!Size(a) > 0 /\ ~ (x < Median!MaxPeek(a))
    BY <1>1, <1>3
  <2>5. /\ Median!MaxPeek(a) \in Median!Value
        /\ \A y \in Median!Value : a[y] > 0 => y <= Median!MaxPeek(a)
    BY <2>4, Peeks
  <2>6. \A y \in Median!Value : a[y] > 0 => y <= x
    BY <1>1, <2>4, <2>5
  <2>7. Parted(a, b1)
    BY <1>1, <2>3, <2>6 DEF Parted
  <2>8. Makes(a, b1, Median!Pushed(c, x))
    <3>1. \A y \in Median!Value : Median!Pushed(c, x)[y] = c[y] + IF y = x THEN 1 ELSE 0
      BY SizePushed
    <3> QED
      BY <1>1, <2>3, <3>1 DEF Makes
  <2> QED
    BY <1>1, <2>2, <2>3, <2>7, <2>8
<1> QED
  BY <1>2, <1>3

\* A value may move to the other heap.
LEMMA RebalancedKeeps ==
    ASSUME NEW a \in Bags, NEW b \in Bags, NEW c \in Bags, Parted(a, b), Makes(a, b, c),
           Median!Size(a) - Median!Size(b) \in -1 .. 2
    PROVE  \E a1, b1 \in Bags :
             /\ Median!Rebalanced(a, b) = <<a1, b1>>
             /\ Parted(a1, b1) /\ Makes(a1, b1, c)
             /\ Median!Size(a1) - Median!Size(b1) \in {0, 1}
<1>1. /\ \A y \in Median!Value : a[y] \in Nat /\ b[y] \in Nat /\ c[y] \in Nat
      /\ \A y \in Median!Value : y \in Nat
      /\ Median!Size(a) \in Nat /\ Median!Size(b) \in Nat
  BY Ranges, SizeType
<1>2. CASE Median!Size(a) > Median!Size(b) + 1
  <2>1. PICK x : x = Median!MaxPeek(a)
    OBVIOUS
  <2>2. PICK a1, b1 : a1 = Median!Popped(a, x) /\ b1 = Median!Pushed(b, x)
    OBVIOUS
  <2>3. Median!Rebalanced(a, b) = <<a1, b1>>
    <3>1. ~ (Median!Size(a) < Median!Size(b))
      BY <1>1, <1>2
    <3> QED
      BY <1>2, <2>1, <2>2, <3>1 DEF Median!Rebalanced
  <2>4. /\ x \in Median!Value /\ a[x] > 0
        /\ \A y \in Median!Value : a[y] > 0 => y <= x
    BY <1>1, <1>2, <2>1, Peeks
  <2>5. /\ a1 \in Bags /\ Median!Size(a1) = Median!Size(a) - 1
        /\ \A y \in Median!Value : a1[y] = a[y] - IF y = x THEN 1 ELSE 0
    BY <2>2, <2>4, SizePopped
  <2>6. /\ b1 \in Bags /\ Median!Size(b1) = Median!Size(b) + 1
        /\ \A y \in Median!Value : b1[y] = b[y] + IF y = x THEN 1 ELSE 0
    BY <2>2, <2>4, SizePushed
  <2>7. Parted(a1, b1)
    BY <1>1, <2>4, <2>5, <2>6 DEF Parted
  <2>8. Makes(a1, b1, c)
    BY <1>1, <2>5, <2>6 DEF Makes
  <2> QED
    BY <1>1, <1>2, <2>3, <2>5, <2>6, <2>7, <2>8
<1>3. CASE Median!Size(a) < Median!Size(b)
  <2>1. PICK x : x = Median!MinPeek(b)
    OBVIOUS
  <2>2. PICK a1, b1 : a1 = Median!Pushed(a, x) /\ b1 = Median!Popped(b, x)
    OBVIOUS
  <2>3. Median!Rebalanced(a, b) = <<a1, b1>>
    <3>1. ~ (Median!Size(a) > Median!Size(b) + 1)
      BY <1>1, <1>3
    <3> QED
      BY <1>3, <2>1, <2>2, <3>1 DEF Median!Rebalanced
  <2>4. /\ x \in Median!Value /\ b[x] > 0
        /\ \A y \in Median!Value : b[y] > 0 => y >= x
    BY <1>1, <1>3, <2>1, Peeks
  <2>5. /\ b1 \in Bags /\ Median!Size(b1) = Median!Size(b) - 1
        /\ \A y \in Median!Value : b1[y] = b[y] - IF y = x THEN 1 ELSE 0
    BY <2>2, <2>4, SizePopped
  <2>6. /\ a1 \in Bags /\ Median!Size(a1) = Median!Size(a) + 1
        /\ \A y \in Median!Value : a1[y] = a[y] + IF y = x THEN 1 ELSE 0
    BY <2>2, <2>4, SizePushed
  <2>7. Parted(a1, b1)
    BY <1>1, <2>4, <2>5, <2>6 DEF Parted
  <2>8. Makes(a1, b1, c)
    BY <1>1, <2>5, <2>6 DEF Makes
  <2> QED
    BY <1>1, <1>3, <2>3, <2>5, <2>6, <2>7, <2>8
<1>4. CASE ~ (Median!Size(a) > Median!Size(b) + 1) /\ ~ (Median!Size(a) < Median!Size(b))
  <2>1. Median!Rebalanced(a, b) = <<a, b>>
    BY <1>4 DEF Median!Rebalanced
  <2> QED
    BY <1>1, <1>4, <2>1
<1> QED
  BY <1>2, <1>3, <1>4

\* The top of the first heap is the median.
LEMMA PeekIsMedian ==
    ASSUME NEW a \in Bags, NEW b \in Bags, NEW c \in Bags, Parted(a, b), Makes(a, b, c),
           Median!Size(a) - Median!Size(b) \in {0, 1}, Median!Size(c) > 0,
           NEW half, half = (Median!Size(c) - 1) \div 2
    PROVE  IsMedian(c, half, Median!MaxPeek(a))
<1>1. /\ Median!Size(a) \in Nat /\ Median!Size(b) \in Nat /\ Median!Size(c) \in Nat
      /\ ValueRange \in 0 .. ValueRange
  BY Ranges, SizeType
<1>2. ASSUME NEW k \in 0 .. ValueRange
      PROVE  /\ Median!SizeBelow(a, k) + Median!SizeBelow(b, k) = Median!SizeBelow(c, k)
             /\ Median!SizeBelow(a, k) \in Nat /\ Median!SizeBelow(b, k) \in Nat
             /\ Median!SizeBelow(c, k) \in Nat
  BY SizesAdd, Sizes DEF Makes
<1>3. Median!Size(a) + Median!Size(b) = Median!Size(c)
  BY <1>1, <1>2 DEF Median!Size
<1>4. Median!Size(a) > 0 /\ half + 1 = Median!Size(a)
  <2>1. PICK p, q : p = Median!Size(a) /\ q = Median!Size(b)
    OBVIOUS
  <2>2. p \in Nat /\ q \in Nat /\ p - q \in {0, 1} /\ p + q > 0 /\ half = (p + q - 1) \div 2
    BY <1>1, <1>3, <2>1
  <2>3. CASE p = q
    BY <2>1, <2>2, <2>3
  <2>4. CASE p = q + 1
    BY <2>1, <2>2, <2>4
  <2> QED
    BY <2>2, <2>3, <2>4
<1>5. PICK x : x = Median!MaxPeek(a)
  OBVIOUS
<1>6. x \in Median!Value /\ a[x] > 0 /\ \A y \in Median!Value : a[y] > 0 => y <= x
  BY <1>4, <1>5, Peeks
<1>7. /\ x \in 0 .. ValueRange /\ x + 1 \in 0 .. ValueRange /\ x + 1 \in 1 .. ValueRange
      /\ (x + 1) - 1 = x /\ a[x] \in Nat
      /\ \A y \in Median!Value : y \in Nat /\ a[y] \in Nat /\ b[y] \in Nat
  BY <1>6, Ranges
<1>8. Median!SizeBelow(b, x) = 0
  <2>1. \A y \in Median!Value : y < x => b[y] = 0
    BY <1>6, <1>7 DEF Parted
  <2> QED
    BY <1>7, <2>1, SizesBottom
<1>9. Median!SizeBelow(a, x + 1) = Median!Size(a)
  <2>1. \A y \in Median!Value : y >= x + 1 => a[y] = 0
    BY <1>6, <1>7
  <2> QED
    BY <1>7, <2>1, SizesTop
<1>10. Median!SizeBelow(a, x + 1) = Median!SizeBelow(a, x) + a[x]
  BY <1>7, Sizes
<1>11. Median!SizeBelow(c, x) <= half
  BY <1>1, <1>2, <1>4, <1>6, <1>7, <1>8, <1>9, <1>10
<1>12. half < Median!SizeBelow(c, x + 1)
  BY <1>1, <1>2, <1>4, <1>7, <1>9
<1> QED
  BY <1>5, <1>6, <1>11, <1>12 DEF IsMedian

(***************************************************************************)
(* Running medians: the invariant                                            *)
(***************************************************************************)

\* m is the lower median of v.
Middle(v, m) ==
    /\ m \in Median!Value
    /\ Cardinality(Below(v, m)) <= (Len(v) - 1) \div 2
    /\ (Len(v) - 1) \div 2 < Cardinality(Below(v, m + 1))

Counts(v, bag) == \A x \in Median!Value : bag[x] = Cardinality(At(v, x))

MedianFits(v, a, b, c, m_i, sum_m, results) ==
    /\ v \in Seq(Median!Value) /\ a \in Bags /\ b \in Bags /\ c \in Bags
    /\ Sorted(v) /\ Counts(v, c)
    /\ Parted(a, b) /\ Makes(a, b, c) /\ Median!Size(a) - Median!Size(b) \in {0, 1}
    /\ m_i \in Median!Value /\ sum_m = Median!SizeBelow(c, m_i)
    /\ Len(v) > 0 => \E m : results = <<m, m, m>> /\ Middle(v, m)

MedianInv == MedianFits(state.v, state.max_heap, state.min_heap, state.buckets,
                        state.m_i, state.sum_m, state.results)

LEMMA MedianInitial == ASSUME Median!Init PROVE MedianInv
<1>1. PICK zero : zero = Median!Zero
  OBVIOUS
<1>2. zero \in Bags /\ \A x \in Median!Value : zero[x] = 0
  BY <1>1 DEF Bags, Median!Zero
<1>3. state = [v |-> <<>>, max_heap |-> zero, min_heap |-> zero,
               buckets |-> zero, m_i |-> 0, sum_m |-> 0, results |-> <<>>]
  BY <1>1 DEF Median!Init
<1>4. /\ state.v = <<>> /\ state.max_heap = zero /\ state.min_heap = zero
      /\ state.buckets = zero /\ state.m_i = 0 /\ state.sum_m = 0
  BY <1>3
<1>5. 0 \in Median!Value /\ Median!SizeBelow(zero, 0) = 0 /\ Median!Size(zero) \in Nat
  BY <1>2, Ranges, Sizes, SizeType
<1>6. \A x : At(<<>>, x) = {}
  BY DEF At
<1>7. Cardinality({}) = 0
  BY FS_EmptySet
<1>8. Counts(<<>>, zero)
  BY <1>2, <1>6, <1>7 DEF Counts
<1>9. Parted(zero, zero) /\ Makes(zero, zero, zero) /\ Sorted(<<>>)
  BY <1>2 DEF Parted, Makes, Sorted
<1>10. Len(<<>>) = 0 /\ <<>> \in Seq(Median!Value)
  OBVIOUS
<1>11. Median!Size(zero) - Median!Size(zero) \in {0, 1}
  BY <1>5
<1> QED
  BY <1>2, <1>4, <1>5, <1>8, <1>9, <1>10, <1>11 DEF MedianInv, MedianFits

\* All values are counted.
LEMMA CountedAll ==
    ASSUME NEW v \in Seq(Median!Value), NEW bag \in Bags, Counts(v, bag)
    PROVE  Median!Size(bag) = Len(v)
<1>1. Len(v) \in Nat /\ ValueRange \in 0 .. ValueRange
  BY Ranges
<1>2. Median!SizeBelow(bag, ValueRange) = Cardinality(Below(v, ValueRange))
  BY <1>1, BelowCounted DEF Counts
<1>3. Below(v, ValueRange) = 1 .. Len(v)
  <2>1. \A i \in 1 .. Len(v) : v[i] < ValueRange
    BY Ranges
  <2> QED
    BY <2>1 DEF Below
<1>4. Cardinality(1 .. Len(v)) = Len(v)
  <2>1. PICK n \in Nat : n = Len(v)
    BY <1>1
  <2>2. Cardinality(1 .. n) = IF 1 > n THEN 0 ELSE n - 1 + 1
    BY FS_Interval
  <2> QED
    BY <2>1, <2>2
<1> QED
  BY <1>2, <1>3, <1>4 DEF Median!Size

\* The three answers after a value.
LEMMA FeedAnswers ==
    ASSUME NEW w \in Seq(Median!Value), Sorted(w), Len(w) > 0,
           NEW a \in Bags, NEW b \in Bags, NEW c \in Bags, Counts(w, c),
           Parted(a, b), Makes(a, b, c), Median!Size(a) - Median!Size(b) \in {0, 1},
           NEW m_i \in Median!Value, NEW half, half = (Len(w) - 1) \div 2,
           NEW m, m = w[half + 1]
    PROVE  /\ Middle(w, m) /\ Median!MaxPeek(a) = m
           /\ Median!Settled(c, half, Spot(c, m_i)) = Spot(c, m)
<1>1. /\ half \in Nat /\ IsMedian(c, half, m)
      /\ Cardinality(Below(w, m)) <= half /\ half < Cardinality(Below(w, m + 1))
  BY MiddleIsMedian DEF Counts
<1>2. Middle(w, m)
  BY <1>1 DEF Middle, IsMedian
<1>3. Median!Size(c) = Len(w)
  BY CountedAll
<1>4. IsMedian(c, half, Median!MaxPeek(a))
  BY <1>3, PeekIsMedian
<1>5. Median!MaxPeek(a) = m
  BY <1>1, <1>4, OneMedian
<1>6. Median!Settled(c, half, Spot(c, m_i)) = Spot(c, m)
  BY <1>1, Settles
<1> QED
  BY <1>2, <1>5, <1>6

LEMMA FeedKeeps ==
    ASSUME MedianInv, NEW x \in Median!Value, Median!Feed(x)
    PROVE  MedianInv'
<1>1. PICK v, a, b, c, m_i, sum_m, results :
        /\ v = state.v /\ a = state.max_heap /\ b = state.min_heap /\ c = state.buckets
        /\ m_i = state.m_i /\ sum_m = state.sum_m /\ results = state.results
  OBVIOUS
<1>2. MedianFits(v, a, b, c, m_i, sum_m, results)
  BY <1>1 DEF MedianInv
<1>3. PICK i \in Median!Positions(v, x) :
        LET w == Median!InsertAfter(v, i, x)
            placed == Median!Placed(a, b, x)
            heaps == Median!Rebalanced(placed[1], placed[2])
            buckets == Median!Pushed(c, x)
            half_i == (Len(w) - 1) \div 2
            at == [m_i |-> m_i, sum_m |-> sum_m + IF x < m_i THEN 1 ELSE 0]
            settled == Median!Settled(buckets, half_i, at)
        IN state' = [v |-> w, max_heap |-> heaps[1], min_heap |-> heaps[2],
                     buckets |-> buckets, m_i |-> settled.m_i, sum_m |-> settled.sum_m,
                     results |-> <<w[half_i + 1], Median!MaxPeek(heaps[1]), settled.m_i>>]
  BY <1>1, Zenon DEF Median!Feed
<1>4. PICK w, d : w = Median!InsertAfter(v, i, x) /\ d = Median!Pushed(c, x)
  OBVIOUS
<1>5. /\ w \in Seq(Median!Value) /\ Len(w) = Len(v) + 1 /\ Sorted(w)
      /\ \A y \in Median!Value :
           Cardinality(At(w, y)) = Cardinality(At(v, y)) + IF y = x THEN 1 ELSE 0
  BY <1>2, <1>4, InsertKeeps DEF MedianFits
<1>6. /\ d \in Bags
      /\ \A y \in Median!Value : d[y] = c[y] + IF y = x THEN 1 ELSE 0
      /\ \A k \in 0 .. ValueRange :
           Median!SizeBelow(d, k) = Median!SizeBelow(c, k) + IF x < k THEN 1 ELSE 0
  <2>1. c \in Bags
    BY <1>2 DEF MedianFits
  <2>2. /\ \A y \in Median!Value : d[y] = c[y] + IF y = x THEN 1 ELSE 0
        /\ d \in Bags
    BY <1>4, <2>1, SizesPushed
  <2>3. \A k \in 0 .. ValueRange :
          Median!SizeBelow(d, k) = Median!SizeBelow(c, k) + IF x < k THEN 1 ELSE 0
    BY <1>4, <2>1, SizesPushed
  <2> QED
    BY <2>2, <2>3
<1>7. Counts(w, d)
  <2>1. ASSUME NEW y \in Median!Value PROVE d[y] = Cardinality(At(w, y))
    <3>1. c[y] = Cardinality(At(v, y))
      BY <1>2 DEF MedianFits, Counts
    <3> QED
      BY <1>5, <1>6, <3>1
  <2> QED
    BY <2>1 DEF Counts
<1>8. PICK a1 \in Bags, b1 \in Bags :
        /\ Median!Placed(a, b, x) = <<a1, b1>>
        /\ Parted(a1, b1) /\ Makes(a1, b1, d)
        /\ Median!Size(a1) - Median!Size(b1) \in -1 .. 2
  BY <1>2, <1>4, PlacedKeeps DEF MedianFits
<1>9. PICK a2 \in Bags, b2 \in Bags :
        /\ Median!Rebalanced(a1, b1) = <<a2, b2>>
        /\ Parted(a2, b2) /\ Makes(a2, b2, d)
        /\ Median!Size(a2) - Median!Size(b2) \in {0, 1}
  BY <1>6, <1>8, RebalancedKeeps
<1>10. PICK half : half = (Len(w) - 1) \div 2
  OBVIOUS
<1>11. PICK m : m = w[half + 1]
  OBVIOUS
<1>12. PICK at, settled :
         /\ at = [m_i |-> m_i, sum_m |-> sum_m + IF x < m_i THEN 1 ELSE 0]
         /\ settled = Median!Settled(d, half, at)
  OBVIOUS
<1>13. at = Spot(d, m_i)
  <2>1. m_i \in 0 .. ValueRange /\ sum_m = Median!SizeBelow(c, m_i)
    BY <1>2, Ranges DEF MedianFits
  <2> QED
    BY <1>6, <1>12, <2>1 DEF Spot
<1>14. Len(v) \in Nat /\ Len(w) > 0 /\ m_i \in Median!Value
  BY <1>2, <1>5 DEF MedianFits
<1>15. Middle(w, m) /\ Median!MaxPeek(a2) = m /\ settled = Spot(d, m)
  BY <1>5, <1>6, <1>7, <1>9, <1>10, <1>11, <1>12, <1>13, <1>14, FeedAnswers
<1>16. settled.m_i = m /\ settled.sum_m = Median!SizeBelow(d, m)
  BY <1>15 DEF Spot
<1>17. state' = LET placed == Median!Placed(a, b, x)
                    heaps == Median!Rebalanced(placed[1], placed[2])
                IN [v |-> w, max_heap |-> heaps[1], min_heap |-> heaps[2],
                    buckets |-> d, m_i |-> settled.m_i, sum_m |-> settled.sum_m,
                    results |-> <<w[half + 1], Median!MaxPeek(heaps[1]), settled.m_i>>]
  BY <1>3, <1>4, <1>10, <1>12, Zenon
<1>18. PICK sum : sum = Median!SizeBelow(d, m)
  OBVIOUS
<1>19. state' = [v |-> w, max_heap |-> a2, min_heap |-> b2, buckets |-> d,
                 m_i |-> m, sum_m |-> sum, results |-> <<m, m, m>>]
  <2>1. PICK heaps : heaps = <<a2, b2>>
    OBVIOUS
  <2>2. <<a1, b1>>[1] = a1 /\ <<a1, b1>>[2] = b1 /\ heaps[1] = a2 /\ heaps[2] = b2
    BY <2>1
  <2>3. Median!Rebalanced(Median!Placed(a, b, x)[1], Median!Placed(a, b, x)[2]) = heaps
    BY <1>8, <1>9, <2>1, <2>2, Zenon
  <2>4. state' = [v |-> w, max_heap |-> heaps[1], min_heap |-> heaps[2],
                  buckets |-> d, m_i |-> settled.m_i, sum_m |-> settled.sum_m,
                  results |-> <<w[half + 1], Median!MaxPeek(heaps[1]), settled.m_i>>]
    BY <1>17, <2>3, Zenon
  <2> QED
    BY <1>11, <1>15, <1>16, <1>18, <2>2, <2>4, Zenon
<1>20. /\ state'.v = w /\ state'.max_heap = a2 /\ state'.min_heap = b2 /\ state'.buckets = d
       /\ state'.m_i = m /\ state'.sum_m = sum /\ state'.results = <<m, m, m>>
  BY ONLY <1>19
<1>21. m \in Median!Value
  BY <1>15 DEF Middle
<1>22. MedianFits(w, a2, b2, d, m, sum, <<m, m, m>>)
  BY <1>5, <1>6, <1>7, <1>9, <1>15, <1>18, <1>21 DEF MedianFits
<1> QED
  BY <1>20, <1>22 DEF MedianInv

LEMMA MedianStep == ASSUME MedianInv, [Median!Next]_state PROVE MedianInv'
<1>1. CASE Median!Next
  BY <1>1, FeedKeeps DEF Median!Next
<1>2. CASE UNCHANGED state
  BY <1>2 DEF MedianInv
<1> QED
  BY <1>1, <1>2

LEMMA MedianAnswers == ASSUME MedianInv PROVE Median!MediansAgree
<1>1. PICK v, a, b, c, m_i, sum_m, results :
        /\ v = state.v /\ a = state.max_heap /\ b = state.min_heap /\ c = state.buckets
        /\ m_i = state.m_i /\ sum_m = state.sum_m /\ results = state.results
  OBVIOUS
<1>2. MedianFits(v, a, b, c, m_i, sum_m, results)
  BY <1>1 DEF MedianInv
<1>3. DOMAIN v = 1 .. Len(v) /\ \A i \in 1 .. Len(v) : v[i] \in Nat
  BY <1>2, Ranges DEF MedianFits
<1>4. \A x : Median!Cardinality({i \in DOMAIN v : v[i] = x}) = Cardinality(At(v, x))
  BY <1>3, MedianCardinality DEF At
<1>5. Median!Balanced
  <2>1. Median!Size(a) - Median!Size(b) \in {0, 1} /\ sum_m = Median!SizeBelow(c, m_i)
    BY <1>2 DEF MedianFits
  <2>2. \A x, y \in Median!Value : a[x] > 0 /\ b[y] > 0 => x <= y
    BY <1>2 DEF MedianFits, Parted
  <2>3. \A x \in Median!Value : /\ c[x] = Median!Cardinality({i \in DOMAIN v : v[i] = x})
                                /\ a[x] + b[x] = c[x]
    BY <1>2, <1>4 DEF MedianFits, Counts, Makes
  <2> QED
    BY <1>1, <2>1, <2>2, <2>3 DEF Median!Balanced
<1>6. ASSUME Len(v) > 0
      PROVE  \E m \in Median!Value :
               /\ Median!Cardinality({i \in 1 .. Len(v) : v[i] < m}) <= (Len(v) - 1) \div 2
               /\ Median!Cardinality({i \in 1 .. Len(v) : v[i] <= m}) > (Len(v) - 1) \div 2
               /\ results = <<m, m, m>>
  <2>1. PICK m : results = <<m, m, m>> /\ Middle(v, m)
    BY <1>2, <1>6 DEF MedianFits
  <2>2. m \in Median!Value /\ m \in Nat
    BY <2>1, Ranges DEF Middle
  <2>3. Median!Cardinality({i \in 1 .. Len(v) : v[i] < m}) = Cardinality(Below(v, m))
    BY MedianCardinality DEF Below
  <2>4. Median!Cardinality({i \in 1 .. Len(v) : v[i] <= m}) = Cardinality(Below(v, m + 1))
    <3>1. {i \in 1 .. Len(v) : v[i] <= m} = Below(v, m + 1)
      BY <1>3, <2>2 DEF Below
    <3> QED
      BY <3>1, MedianCardinality
  <2>5. /\ Cardinality(Below(v, m)) \in Nat /\ Cardinality(Below(v, m + 1)) \in Nat
        /\ (Len(v) - 1) \div 2 \in Int
    BY <1>2, PlacesFinite DEF MedianFits
  <2> QED
    BY <2>1, <2>2, <2>3, <2>4, <2>5 DEF Middle
<1> QED
  BY <1>1, <1>5, <1>6 DEF Median!MediansAgree

\* Whatever is fed in whatever order, the sorted vector, the two heaps and the buckets
\* answer the lower median of what has been fed, with heaps whose sizes stay within
\* one of each other.
THEOREM MediansAllAgree == PlainSpec => []MediansAgree
<1> DEFINE Inv == program = "median" => MedianInv
<1>1. PlainInit => Inv
  BY MedianInitial DEF PlainInit
<1>2. Inv /\ [PlainNext]_plainVars => Inv'
  <2> SUFFICES ASSUME Inv, [PlainNext]_plainVars, program' = "median" PROVE MedianInv'
    OBVIOUS
  <2>1. program = "median" /\ [Median!Next]_state
    BY DEF PlainNext, plainVars
  <2> QED
    BY <2>1, MedianStep
<1>3. Inv => MediansAgree
  BY MedianAnswers DEF MediansAgree
<1> QED
  BY <1>1, <1>2, <1>3, PTL DEF PlainSpec

=============================================================================
