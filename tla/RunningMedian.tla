----------------------------- MODULE RunningMedian -----------------------------
(***************************************************************************)
(* The three running medians of RunningMedian/src/lib.rs fed the same        *)
(* values, one at a time: binary insertion in a sorted vector, a max-heap    *)
(* and a min-heap (a heap is the bag of its values), and buckets of counts.  *)
(***************************************************************************)
EXTENDS Integers, FiniteSets, Sequences

CONSTANTS ValueRange,     \* value_range: the values are 0 .. ValueRange - 1
          MaxLen          \* bound on the number of values fed

RangeAssumption == ValueRange \in Nat \ {0}

VARIABLE median           \* v; max_heap and min_heap; buckets, m_i, sum_m; and the
                          \* results: what each algorithm answered last

vars == median

Value == 0 .. ValueRange - 1
Zero == [x \in Value |-> 0]

\* The number of values below n in a bag, and in all, and the values at its two
\* ends (peek()).
SizeBelow(bag, n) ==
  LET size[k \in 0 .. ValueRange] == IF k = 0 THEN 0 ELSE size[k - 1] + bag[k - 1] IN size[n]
Size(bag) == SizeBelow(bag, ValueRange)
MaxPeek(bag) == CHOOSE x \in Value : bag[x] > 0 /\ \A y \in Value : y > x => bag[y] = 0
\* Mutant: values are pushed on the second heap without RevOrd.
MinPeek_NotReversed(bag) == MaxPeek(bag)
MinPeek(bag) == CHOOSE x \in Value : bag[x] > 0 /\ \A y \in Value : y < x => bag[y] = 0
Pushed(bag, x) == [bag EXCEPT ![x] = @ + 1]
Popped(bag, x) == [bag EXCEPT ![x] = @ - 1]

\* running_median_insertion: binary_search may find any of the equal values.
InsertAfter(v, i, x) == SubSeq(v, 1, i) \o <<x>> \o SubSeq(v, i + 1, Len(v))
Positions(v, x) ==
  LET found == {i \in DOMAIN v : v[i] = x} IN
  IF found # {} THEN found ELSE {Cardinality({i \in DOMAIN v : v[i] < x})}

\* running_median_two_heaps: the value goes to one heap, and one value moves if
\* the sizes then differ by too much.
Placed(max_heap, min_heap, x) ==
  IF Size(max_heap) = 0 \/ x < MaxPeek(max_heap) THEN <<Pushed(max_heap, x), min_heap>>
                                                 ELSE <<max_heap, Pushed(min_heap, x)>>
Rebalanced(max_heap, min_heap) ==
  CASE Size(max_heap) > Size(min_heap) + 1 ->
         LET x == MaxPeek(max_heap) IN <<Popped(max_heap, x), Pushed(min_heap, x)>>
    [] Size(max_heap) < Size(min_heap) ->
         LET x == MinPeek(min_heap) IN <<Pushed(max_heap, x), Popped(min_heap, x)>>
    [] OTHER -> <<max_heap, min_heap>>

\* running_median_quantized: a turn of the loop that moves bucket m_i, with sum_m
\* values in the buckets below it, until value number half_i is in the bucket; and
\* the loop, which takes fewer turns than there are buckets (a turn past its end
\* changes nothing).
Turned(buckets, half_i, at) ==
  CASE half_i < at.sum_m ->
         [m_i |-> at.m_i - 1, sum_m |-> at.sum_m - buckets[at.m_i - 1]]
    [] at.sum_m + buckets[at.m_i] < half_i + 1 ->
         [m_i |-> at.m_i + 1, sum_m |-> at.sum_m + buckets[at.m_i]]
    [] OTHER -> at
Settled(buckets, half_i, at) ==
  LET loop[turn \in 0 .. ValueRange] ==
        IF turn = 0 THEN at ELSE Turned(buckets, half_i, loop[turn - 1])
  IN loop[ValueRange]

Init == median = [v |-> <<>>, max_heap |-> Zero, min_heap |-> Zero,
                  buckets |-> Zero, m_i |-> 0, sum_m |-> 0, results |-> <<>>]

Feed(x) ==
  /\ Len(median.v) < MaxLen
  /\ \E i \in Positions(median.v, x) :
       LET v == InsertAfter(median.v, i, x)
           placed == Placed(median.max_heap, median.min_heap, x)
           heaps == Rebalanced(placed[1], placed[2])
           buckets == Pushed(median.buckets, x)
           half_i == (Len(v) - 1) \div 2
           at == [m_i |-> median.m_i,
                  sum_m |-> median.sum_m + IF x < median.m_i THEN 1 ELSE 0]
           settled == Settled(buckets, half_i, at)
       IN median' = [v |-> v, max_heap |-> heaps[1], min_heap |-> heaps[2],
                     buckets |-> buckets, m_i |-> settled.m_i, sum_m |-> settled.sum_m,
                     results |-> <<v[half_i + 1], MaxPeek(heaps[1]), settled.m_i>>]

Next == \E x \in Value : Feed(x)

Spec == Init /\ [][Next]_vars

--------------------------------------------------------------------------------
MedianTypeOK ==
  /\ median.v \in Seq(Value) /\ Len(median.v) <= MaxLen
  /\ \A f \in {"max_heap", "min_heap", "buckets"} : median[f] \in [Value -> Nat]
  /\ median.m_i \in Value /\ median.sum_m \in Nat

\* What the next answer rests on: the heaps hold the values on either side of
\* the median, their sizes at most one apart with the max-heap never behind (the
\* debug_assert_eq!s at lines 58 and 62), and sum_m counts the values below m_i.
Balanced ==
  /\ Size(median.max_heap) - Size(median.min_heap) \in {0, 1}
  /\ \A x, y \in Value : median.max_heap[x] > 0 /\ median.min_heap[y] > 0 => x <= y
  /\ \A x \in Value : /\ median.buckets[x] = Cardinality({i \in DOMAIN median.v : median.v[i] = x})
                      /\ median.max_heap[x] + median.min_heap[x] = median.buckets[x]
  /\ median.sum_m = SizeBelow(median.buckets, median.m_i)

\* The three algorithms answer the lower median of the values fed so far, after
\* every value and in every order.  (The repository's prop_two_heaps compares
\* the first algorithm with itself, so it cannot tell.)
MediansAgree ==
  LET n == Len(median.v)   half == (n - 1) \div 2 IN
  /\ Balanced
  /\ n > 0 => \E m \in Value :
    /\ Cardinality({i \in 1 .. n : median.v[i] < m}) <= half
    /\ Cardinality({i \in 1 .. n : median.v[i] <= m}) > half
    /\ median.results = <<m, m, m>>
================================================================================
