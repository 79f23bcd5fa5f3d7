------------------------------ MODULE DisjointSet ------------------------------
(***************************************************************************)
(* DisjointSet/disjointSet.cc: union by rank and find with path compression, *)
(* beside the partition they keep.                                           *)
(***************************************************************************)
EXTENDS Integers, FiniteSets

CONSTANT Elements         \* 0 .. n - 1

VARIABLE sets             \* id, rank, and the partition
vars == sets

ElementsAssumption == IsFiniteSet(Elements)

\* One turn of the loop of find: a node that is no root is linked to its
\* grandparent, where the loop goes on.
Halved(walk) ==
  LET grandparent == walk.id[walk.id[walk.root]] IN
  IF walk.root = walk.id[walk.root] THEN walk
  ELSE [root |-> grandparent, id |-> [walk.id EXCEPT ![walk.root] = grandparent]]

\* find: the root of a, and id after the loop, which takes fewer turns than there
\* are elements (a turn at a root changes nothing).
Find(id, a) ==
  LET walk[turn \in 0 .. Cardinality(Elements)] ==
        IF turn = 0 THEN [root |-> a, id |-> id] ELSE Halved(walk[turn - 1])
  IN walk[Cardinality(Elements)]

\* The two finds of a merge or of a test, one after the other.
FindBoth(a, b) ==
  LET first == Find(sets.id, a)
      second == Find(first.id, b)
  IN [i |-> first.root, j |-> second.root, id |-> second.id]

Init == sets = [id |-> [a \in Elements |-> a], rank |-> [a \in Elements |-> 0],
                partition |-> {{a} : a \in Elements}]

\* Mutant: the rank of j is set, not raised.
Linked_SetRank(roots, i, j) ==
  [sets EXCEPT !.id = [roots.id EXCEPT ![i] = j], !.rank[j] = sets.rank[i] + 1]

\* The root of the lower rank is linked to the other one.
Linked(roots, i, j) ==
  [sets EXCEPT !.id = [roots.id EXCEPT ![i] = j],
               !.rank[j] = IF sets.rank[i] + 1 > @ THEN sets.rank[i] + 1 ELSE @]
Joined(partition, a, b) ==
  LET both == {c \in partition : a \in c \/ b \in c} IN (partition \ both) \cup {UNION both}
Merge(a, b) ==
  LET roots == FindBoth(a, b)
      linked == CASE roots.i = roots.j -> [sets EXCEPT !.id = roots.id]
                  [] roots.i # roots.j /\ sets.rank[roots.i] > sets.rank[roots.j] ->
                       Linked(roots, roots.j, roots.i)
                  [] roots.i # roots.j /\ sets.rank[roots.i] <= sets.rank[roots.j] ->
                       Linked(roots, roots.i, roots.j)
  IN sets' = [linked EXCEPT !.partition = Joined(@, a, b)]
Connected(a, b) == sets' = [sets EXCEPT !.id = FindBoth(a, b).id]

Next == \E a, b \in Elements : Merge(a, b) \/ Connected(a, b)

--------------------------------------------------------------------------------
PowerOfTwo[r \in 0 .. Cardinality(Elements)] == IF r = 0 THEN 1 ELSE 2 * PowerOfTwo[r - 1]

\* Whatever paths were compressed: find ends at a root, and the roots tell the
\* classes of the partition apart; ranks rise towards the root (so that find
\* ends), and a root of rank r has 2^r elements at least below it (so that it
\* ends soon).
PartitionExact ==
  /\ \A a \in Elements : sets.id[Find(sets.id, a).root] = Find(sets.id, a).root
  /\ \A a, b \in Elements :
       Find(sets.id, a).root = Find(sets.id, b).root
         <=> \E c \in sets.partition : {a, b} \subseteq c
  /\ \A a \in Elements : sets.id[a] # a => sets.rank[a] < sets.rank[sets.id[a]]
  /\ \A c \in sets.partition : \A a \in c :
       PowerOfTwo[sets.rank[Find(sets.id, a).root]] <= Cardinality(c)
================================================================================
