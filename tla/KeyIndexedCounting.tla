--------------------------- MODULE KeyIndexedCounting ---------------------------
(***************************************************************************)
(* KeyIndexedCounting/src/lib.rs: counting_sort of a vector that grows       *)
(* element by element.  An element is the key it quantizes to and an         *)
(* identity, by which equal keys can be told apart.                          *)
(***************************************************************************)
EXTENDS Integers, Sequences, SequencesExt

CONSTANTS MaxKey,         \* max_quantized_value
          MaxLen          \* bound on the length of the vector

MaxKeyAssumption == MaxKey \in Nat

VARIABLE xs
vars == xs

Key == 0 .. MaxKey

\* cnt: the number of each key, then of the keys up to each.
Counts(v) == [q \in Key |-> Cardinality({i \in DOMAIN v : v[i].key = q})]
Accumulated(cnt) ==
  FoldLeft(LAMBDA c, i : [c EXCEPT ![i] = @ + c[i - 1]], cnt, [i \in 1 .. MaxKey |-> i])

\* Each element, the last one first, goes to the place its key's count names.
Placed(v) ==
  FoldLeft(LAMBDA acc, x : [aux |-> acc.aux @@ (acc.cnt[x.key] :> x),
                            cnt |-> [acc.cnt EXCEPT ![x.key] = @ - 1]],
           [aux |-> <<>>, cnt |-> Accumulated(Counts(v))], Reverse(v))
CountingSort(v) == Placed(v).aux

Init == xs = <<>>
Push == Len(xs) < MaxLen /\ \E q \in Key : xs' = Append(xs, [key |-> q, id |-> Len(xs)])
Next == Push

--------------------------------------------------------------------------------
\* The result fills every place of the uninitialised vector (aux is set_len before
\* it is written) with the elements of xs, in the order of the keys, and equal
\* keys keep their order.
CountingStable ==
  LET sorted == CountingSort(xs) IN
  /\ DOMAIN sorted = DOMAIN xs /\ Range(sorted) = Range(xs)
  /\ \A i, j \in DOMAIN sorted : i < j =>
       \/ sorted[i].key < sorted[j].key
       \/ sorted[i].key = sorted[j].key /\ sorted[i].id < sorted[j].id
================================================================================
