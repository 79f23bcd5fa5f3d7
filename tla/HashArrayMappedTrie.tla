-------------------------- MODULE HashArrayMappedTrie --------------------------
(***************************************************************************)
(* Hamt of HashArrayMappedTrie/src/hamt.rs, in a release build (without its  *)
(* debug_assert!s).  A hash key is the sequence of its 5-bit digits, the     *)
(* digit of the root first; remove() is unimplemented!() in the code.        *)
(***************************************************************************)
EXTENDS Integers, FiniteSets, SequencesExt

CONSTANTS Keys, Values,
          Hash,           \* [Keys -> Seq(Nat)]: the digits of hash(key)
          MaxDepth        \* bound: no insertion goes below this depth

HashAssumption == \A k \in Keys : Len(Hash[k]) = MaxDepth

VARIABLE hamt             \* root and count; ghosts: dict, the set of the value stored
                          \* last under each key, and hidden, the keys gone astray

vars == hamt

Null == [type |-> "null"]
Leaf(k, v) == [type |-> "leaf", key |-> k, value |-> v]
Node(bits, entries) == [type |-> "node", bits |-> bits, entries |-> entries]

\* The place of digit d among the entries of a node (entry_index, from 1).
EntryIndex(node, d) == Cardinality({b \in node.bits : b < d}) + 1

RECURSIVE GetIn(_, _, _), Put(_, _, _, _), Displaced(_, _, _), Leaves(_)

\* get(): the set of the value found.
GetIn(entry, k, depth) ==
  CASE entry.type = "null" -> {}
    [] entry.type = "leaf" -> IF entry.key = k THEN {entry.value} ELSE {}
    [] OTHER -> LET d == Hash[k][depth] IN
                IF d \in entry.bits THEN GetIn(entry.entries[EntryIndex(entry, d)], k, depth + 1)
                                    ELSE {}

\* Mutant: the leaf met on the way always comes first.
Split_Unordered(leaf, k, v, depth) ==
  Node({Hash[leaf.key][depth], Hash[k][depth]}, <<leaf, Leaf(k, v)>>)

\* The node that replaces a leaf: a new leaf of an equal digit goes before it.
Split(leaf, k, v, depth) ==
  LET d == Hash[k][depth]   old == Hash[leaf.key][depth] IN
  Node({old, d}, IF old < d THEN <<leaf, Leaf(k, v)>> ELSE <<Leaf(k, v), leaf>>)

\* get_or_insert_entry(): a node with an entry for digit d.
GetOrInsertEntry(node, d) ==
  IF d \in node.bits THEN node
  ELSE Node(node.bits \cup {d}, InsertAt(node.entries, EntryIndex(node, d), Null))

\* insert(): a leaf met on the way becomes a node of two leaves even when both
\* have the same digit there.
Put(entry, k, v, depth) ==
  CASE entry.type = "null" -> Leaf(k, v)
    [] entry.type = "leaf" -> IF entry.key = k THEN Leaf(k, v) ELSE Split(entry, k, v, depth)
    [] OTHER ->
         LET d == Hash[k][depth] IN
         [GetOrInsertEntry(entry, d) EXCEPT
            !.entries[EntryIndex(entry, d)] = Put(@, k, v, depth + 1)]

\* The leaf, if any, that the insertion of k turns into a node.
Displaced(entry, k, depth) ==
  CASE entry.type = "null" -> <<>>
    [] entry.type = "leaf" -> IF entry.key = k THEN <<>> ELSE <<entry.key, depth>>
    [] OTHER -> LET d == Hash[k][depth] IN
                IF d \in entry.bits THEN Displaced(entry.entries[EntryIndex(entry, d)], k, depth + 1)
                                    ELSE <<>>

Leaves(entry) ==
  CASE entry.type = "null" -> 0
    [] entry.type = "leaf" -> 1
    [] OTHER -> FoldLeft(LAMBDA n, e : n + Leaves(e), 0, entry.entries)

Get(k) == GetIn(hamt.root, k, 1)

Init == hamt = [root |-> Null, count |-> 0, dict |-> [k \in Keys |-> {}], hidden |-> {}]

Insert(k, v) ==
  LET split == Displaced(hamt.root, k, 1) IN
  /\ split # <<>> => split[2] <= MaxDepth
  /\ hamt' = [root   |-> Put(hamt.root, k, v, 1),
              count  |-> hamt.count + (IF Get(k) = {} THEN 1 ELSE 0),
              dict   |-> [hamt.dict EXCEPT ![k] = {v}],
              hidden |-> (hamt.hidden \ {k})
                         \cup {x \in Keys : split # <<>> /\ x = split[1]
                                            /\ Hash[x][split[2]] = Hash[k][split[2]]}]

Next == \E k \in Keys, v \in Values : Insert(k, v)

Spec == Init /\ [][Next]_vars

--------------------------------------------------------------------------------
\* A key inserted is found with its last value, unless a later insertion met its
\* leaf and shared one more digit with it: then, and only then, the key is gone
\* (its leaf stays in the trie, out of reach of every bitmap, and counts in len()).
TrieFaithful ==
  /\ \A k \in Keys : Get(k) = IF k \in hamt.hidden THEN {} ELSE hamt.dict[k]
  /\ hamt.count = Leaves(hamt.root)

TrieTypeOK ==
  /\ hamt.root.type \in {"null", "leaf", "node"} /\ hamt.count \in Nat
  /\ hamt.dict \in [Keys -> SUBSET Values] /\ hamt.hidden \subseteq Keys
================================================================================
