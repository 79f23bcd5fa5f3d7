------------------------------ MODULE TwoThreeTree ------------------------------
(***************************************************************************)
(* TwoThreeTree of TwoThreeTree/src/lib.rs: a search tree whose nodes have   *)
(* one value and two children or two values and three.  Insertion returns    *)
(* the new node, or a value pushed up between two nodes (InsRes).            *)
(***************************************************************************)
EXTENDS Integers, FiniteSets, Sequences

CONSTANT Elements         \* the values inserted, a set of integers

VARIABLE tree             \* root; ghost: elements, the values inserted so far

vars == tree

Leaf == [values |-> <<>>, kids |-> <<>>]
Two(v, l, r) == [values |-> <<v>>, kids |-> <<l, r>>]
Three(lv, rv, l, m, r) == [values |-> <<lv, rv>>, kids |-> <<l, m, r>>]
New2(v) == Two(v, Leaf, Leaf)

AreChildrenLeaves(node) == \A i \in DOMAIN node.kids : node.kids[i] = Leaf

\* Mutant: the two nodes are swapped.
Pushed_Swapped(v, l, r) == <<v, r, l>>

\* InsRes: Consumed(node) and Pushed(value, left, right).
Consumed(node) == <<node>>
Pushed(v, l, r) == <<v, l, r>>
IsPushed(res) == Len(res) = 3

\* A value that reaches a node without grandchildren: it finds room beside the
\* value there, or the middle one of three is pushed up.
IntoLast(node, x) ==
  LET l == node.values[1]   r == node.values[2] IN
  CASE node = Leaf -> Consumed(New2(x))
    [] Len(node.values) = 1 ->
         Consumed(CASE x = l -> New2(l)
                    [] x < l -> Three(x, l, Leaf, Leaf, Leaf)
                    [] OTHER -> Three(l, x, Leaf, Leaf, Leaf))
    [] OTHER -> CASE x \in {l, r} -> Consumed(node)
                  [] x < l        -> Pushed(l, New2(x), New2(r))
                  [] x > r        -> Pushed(r, New2(l), New2(x))
                  [] OTHER        -> Pushed(x, New2(l), New2(r))

RECURSIVE Insertion(_, _)

\* Two { .. } with children: a value pushed up makes it a Three.
IntoTwo(v, left, right, x) ==
  CASE x = v -> Two(v, left, right)
    [] x < v -> LET res == Insertion(left, x) IN
                IF IsPushed(res) THEN Three(res[1], v, res[2], res[3], right)
                                 ELSE Two(v, res[1], right)
    [] OTHER -> LET res == Insertion(right, x) IN
                IF IsPushed(res) THEN Three(v, res[1], left, res[2], res[3])
                                 ELSE Two(v, left, res[1])

\* Three { .. } with children: a value pushed up splits it in two.
IntoThree(l_value, r_value, left, middle, right, x) ==
  CASE x \in {l_value, r_value} -> Consumed(Three(l_value, r_value, left, middle, right))
    [] x < l_value ->
         LET res == Insertion(left, x) IN
         IF IsPushed(res) THEN Pushed(l_value, Two(res[1], res[2], res[3]), Two(r_value, middle, right))
                          ELSE Consumed(Three(l_value, r_value, res[1], middle, right))
    [] x > r_value ->
         LET res == Insertion(right, x) IN
         IF IsPushed(res) THEN Pushed(r_value, Two(l_value, left, middle), Two(res[1], res[2], res[3]))
                          ELSE Consumed(Three(l_value, r_value, left, middle, res[1]))
    [] OTHER ->
         LET res == Insertion(middle, x) IN
         IF IsPushed(res) THEN Pushed(res[1], Two(l_value, left, res[2]), Two(r_value, res[3], right))
                          ELSE Consumed(Three(l_value, r_value, left, res[1], right))

Insertion(node, x) ==
  CASE AreChildrenLeaves(node) -> IntoLast(node, x)
    [] Len(node.values) = 1 -> Consumed(IntoTwo(node.values[1], node.kids[1], node.kids[2], x))
    [] OTHER -> IntoThree(node.values[1], node.values[2],
                          node.kids[1], node.kids[2], node.kids[3], x)

\* height(): the code panics when the children's heights differ (here, -1).
RECURSIVE HeightOf(_)
HeightOf(node) ==
  IF node = Leaf THEN 0
  ELSE LET heights == {HeightOf(node.kids[i]) : i \in DOMAIN node.kids} IN
       IF Cardinality(heights) = 1 /\ -1 \notin heights THEN 1 + CHOOSE h \in heights : TRUE
                                                        ELSE -1

\* count()
RECURSIVE CountOf(_)
CountOf(node) ==
  IF node = Leaf THEN 0
  ELSE CountOf(node.kids[1]) + CountOf(node.kids[Len(node.kids)]) + 1
       + (IF Len(node.kids) = 3 THEN CountOf(node.kids[2]) + 1 ELSE 0)

\* contains(): the loop, from node cur.
RECURSIVE ContainsIn(_, _)
ContainsIn(cur, x) ==
  CASE cur = Leaf -> FALSE
    [] \E i \in DOMAIN cur.values : cur.values[i] = x -> TRUE
    [] OTHER -> ContainsIn(cur.kids[1 + Cardinality({i \in DOMAIN cur.values : cur.values[i] < x})], x)

Init == tree = [root |-> Leaf, elements |-> {}]

Insert(x) ==
  LET res == Insertion(tree.root, x) IN
  tree' = [root |-> IF IsPushed(res) THEN Two(res[1], res[2], res[3]) ELSE res[1],
           elements |-> tree.elements \cup {x}]

Next == \E x \in Elements : Insert(x)

Spec == Init /\ [][Next]_vars

--------------------------------------------------------------------------------
TreeTypeOK == tree.elements \subseteq Elements /\ DOMAIN tree.root = {"values", "kids"}

\* All leaves are at the same depth, in every order of insertions: height()
\* never panics, and a tree of height h holds at least 2^h - 1 values.
Balanced ==
  LET h == HeightOf(tree.root) IN h >= 0 /\ CountOf(tree.root) >= 2 ^ h - 1

\* The tree holds what was inserted, once each, and stays balanced: contains()
\* finds every value by the path the splits have left it on and no other, and
\* count() counts it once.
TreeIsSet ==
  /\ Balanced
  /\ \A x \in Elements : ContainsIn(tree.root, x) <=> x \in tree.elements
  /\ CountOf(tree.root) = Cardinality(tree.elements)
================================================================================
