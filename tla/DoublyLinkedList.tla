---------------------------- MODULE DoublyLinkedList ----------------------------
(***************************************************************************)
(* DoublyLinkedList of DoublyLinkedList/doublyLinkedList.rs: nodes owned     *)
(* along `next', raw pointers along `prev' and `tail'.  A node is its        *)
(* address, and the element it carries, which never changes, is left out.    *)
(***************************************************************************)
EXTENDS Integers, Sequences

CONSTANTS Addr, Nil       \* the addresses a Box may get; no address

NilAssumption == Nil \notin Addr

VARIABLE list             \* length, head, tail; next and prev of the nodes;
                          \* ret, the node the last pop returned; ghosts: order, the
                          \* nodes in order, and expected, what it should return

vars == list

Link == Addr \cup {Nil}

Init == list = [length |-> 0, head |-> Nil, tail |-> Nil,
                next |-> [a \in Addr |-> Nil], prev |-> [a \in Addr |-> Nil],
                order |-> <<>>, ret |-> Nil, expected |-> Nil]

Live == {list.order[i] : i \in DOMAIN list.order}

\* push_back() of a new node at address a: emptiness is read off the length.
PushBack(a) ==
  /\ a \notin Live
  /\ LET t == list.tail IN
     list' = [list EXCEPT
       !.length = @ + 1, !.tail = a,
       !.head   = IF list.length = 0 THEN a ELSE @,
       !.prev   = [@ EXCEPT ![a] = IF list.length = 0 THEN Nil ELSE t],
       !.next   = [x \in Addr |-> IF x = a THEN Nil
                                  ELSE IF list.length # 0 /\ x = t THEN a ELSE @[x]],
       !.order  = Append(@, a)]

\* push_front() of a new node at address a: emptiness is read off the head.
PushFront(a) ==
  /\ a \notin Live
  /\ LET h == list.head IN
     list' = [list EXCEPT
       !.length = @ + 1, !.head = a,
       !.tail   = IF h = Nil THEN a ELSE @,
       !.prev   = [x \in Addr |-> IF x = a THEN Nil ELSE IF x = h THEN a ELSE @[x]],
       !.next   = [@ EXCEPT ![a] = h],
       !.order  = <<a>> \o @]

\* pop_back(): the node returned is the one its predecessor owns, or the head.
PopBack ==
  /\ list.length # 0 /\ list.tail # Nil
  /\ LET p == list.prev[list.tail] IN
     list' = [list EXCEPT
       !.length = @ - 1, !.tail = p,
       !.head   = IF p = Nil THEN Nil ELSE @,
       !.next   = [x \in Addr |-> IF x = p THEN Nil ELSE @[x]],
       !.ret    = IF p = Nil THEN list.head ELSE list.next[p],
       !.order  = SubSeq(@, 1, Len(@) - 1),
       !.expected = list.order[Len(list.order)]]

\* Mutant: the new head keeps its raw pointer to the node popped.
PopFront_Dangling ==
  /\ list.length # 0 /\ list.head # Nil
  /\ LET h == list.next[list.head] IN
     list' = [list EXCEPT
       !.length = @ - 1, !.head = h, !.tail = IF h = Nil THEN Nil ELSE @,
       !.next = [@ EXCEPT ![list.head] = Nil], !.ret = list.head,
       !.order = Tail(@), !.expected = list.order[1]]

\* pop_front(): the head, with its `next' taken.
PopFront ==
  /\ list.length # 0 /\ list.head # Nil
  /\ LET h == list.next[list.head] IN
     list' = [list EXCEPT
       !.length = @ - 1, !.head = h,
       !.tail   = IF h = Nil THEN Nil ELSE @,
       !.prev   = [x \in Addr |-> IF x = h THEN Nil ELSE @[x]],
       !.next   = [@ EXCEPT ![list.head] = Nil],
       !.ret    = list.head,
       !.order  = Tail(@),
       !.expected = list.order[1]]

Next == (\E a \in Addr : PushBack(a) \/ PushFront(a)) \/ PopBack \/ PopFront

Spec == Init /\ [][Next]_vars

--------------------------------------------------------------------------------
ListTypeOK ==
  /\ list.length \in Nat /\ list.order \in Seq(Addr)
  /\ {list.head, list.tail, list.ret, list.expected} \subseteq Link
  /\ list.next \in [Addr -> Link] /\ list.prev \in [Addr -> Link]

\* After any sequence of pushes and pops at both ends, the owned links and the
\* raw ones describe the same list, which is the deque the caller expects: no
\* raw pointer leads to a node that was popped, the length and the head agree on
\* emptiness, and every pop returned the node at its end.
ListIsDeque ==
  LET n == Len(list.order)
      At(i) == IF i \in 1 .. n THEN list.order[i] ELSE Nil
  IN /\ list.length = n /\ list.head = At(1) /\ list.tail = At(n)
     /\ \A i \in 1 .. n : /\ list.next[At(i)] = At(i + 1) /\ list.prev[At(i)] = At(i - 1)
                          /\ \A j \in 1 .. n : At(i) = At(j) => i = j
     /\ list.ret = list.expected
================================================================================
