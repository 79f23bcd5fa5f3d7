---------------------------- MODULE OddEvenMergeSort ----------------------------
(***************************************************************************)
(* OddEvenMergeSort/src: Batcher's sort by shuffling and as a network        *)
(* (batcher_odd_even_merge_sort.rs), and the perfect shuffle with an         *)
(* auxiliary array and in place (perfect_shuffle.rs), on a vector that grows *)
(* element by element.  Positions start from 0, as in the code.              *)
(***************************************************************************)
EXTENDS Integers, Sequences, SequencesExt

CONSTANT MaxLen           \* bound on the length of the vector

VARIABLE vector           \* of zeros and ones: by the 0-1 principle a fixed network that
                          \* sorts these sorts everything
vars == vector

Lower(a) == SubSeq(a, 1, Len(a) \div 2)
Upper(a) == SubSeq(a, Len(a) \div 2 + 1, Len(a))
Swapped(a, i, j) == [a EXCEPT ![i + 1] = a[j + 1], ![j + 1] = a[i + 1]]
CompareAndSwap(a, i, j) == IF a[i + 1] > a[j + 1] THEN Swapped(a, i, j) ELSE a
\* The positions from first, one step apart, below end.
StepBy(first, end, step) ==
  [k \in 1 .. (IF end <= first THEN 0 ELSE (end - first - 1) \div step + 1) |-> first + (k - 1) * step]

Shuffle(a) ==
  LET m == Len(a) \div 2 IN
  [i \in 1 .. Len(a) |-> IF i % 2 = 1 THEN a[i \div 2 + 1] ELSE a[m + i \div 2]]
Unshuffle(a) ==
  LET m == Len(a) \div 2 IN
  [i \in 1 .. Len(a) |-> IF i <= m THEN a[2 * i - 1] ELSE a[2 * (i - m)]]

\* Each second element of the lower half changes places with one of the upper half.
SwapHalves(a) ==
  FoldLeft(LAMBDA b, i : Swapped(b, i + 1, i + Len(a) \div 2), a, StepBy(0, Len(a) \div 2, 2))
RECURSIVE ShuffleInPlace(_)
ShuffleInPlace(a) ==
  SwapHalves(IF Len(a) >= 8 THEN ShuffleInPlace(Lower(a)) \o ShuffleInPlace(Upper(a)) ELSE a)
RECURSIVE UnshuffleInPlace(_)
UnshuffleInPlace(a) ==
  LET b == SwapHalves(a) IN
  IF Len(a) >= 8 THEN UnshuffleInPlace(Lower(b)) \o UnshuffleInPlace(Upper(b)) ELSE b

\* odd_even_merge_top_down; on a vector of one element it does not return.  The
\* pairs of the last pass are disjoint.
\* Mutant: the last pass starts from position 0.
LastPass_FromZero(a) ==
  [i \in 1 .. Len(a) |-> IF i % 2 = 1 THEN Min({a[i], a[i + 1]}) ELSE Max({a[i - 1], a[i]})]
LastPass(a) ==
  [i \in 1 .. Len(a) |-> CASE i \in {1, Len(a)} -> a[i]
                          [] i \notin {1, Len(a)} /\ i % 2 = 0 -> Min({a[i], a[i + 1]})
                          [] i \notin {1, Len(a)} /\ i % 2 = 1 -> Max({a[i - 1], a[i]})]
RECURSIVE MergeTopDown(_)
MergeTopDown(a) ==
  IF Len(a) = 2 THEN CompareAndSwap(a, 0, 1)
  ELSE LET b == Unshuffle(MergeTopDown(Lower(a)) \o MergeTopDown(Upper(a)))
       IN LastPass(Shuffle(MergeTopDown(Lower(b)) \o MergeTopDown(Upper(b))))

\* odd_even_merge2: the network, as the sequence of its comparators.
RECURSIVE MergeNetwork(_, _, _)
MergeNetwork(start, end, offset) ==
  LET step == 2 * offset IN
  IF step < end - start
  THEN MergeNetwork(start, end - offset, step) \o MergeNetwork(start + offset, end, step)
       \o LET firsts == StepBy(start + offset, end - offset, step)
          IN [k \in DOMAIN firsts |-> <<firsts[k], firsts[k] + offset>>]
  ELSE <<<<start, start + offset>>>>
RECURSIVE SortingNetwork(_, _)
SortingNetwork(start, end) ==
  LET mid == start + (end - start + 1) \div 2 IN
  IF start = end THEN <<>>
  ELSE SortingNetwork(start, mid - 1) \o SortingNetwork(mid, end) \o MergeNetwork(start, end, 1)
Merge2(a) == FoldLeft(LAMBDA b, c : CompareAndSwap(b, c[1], c[2]), a, SortingNetwork(0, Len(a) - 1))

Init == vector = <<>>
Push == Len(vector) < MaxLen /\ \E x \in {0, 1} : vector' = Append(vector, x)
Next == Push

--------------------------------------------------------------------------------
SortedZerosOnes(a) ==
  LET zeros == Cardinality({i \in DOMAIN a : a[i] = 0}) IN
  [i \in DOMAIN a |-> IF i <= zeros THEN 0 ELSE 1]

\* On every length the code accepts, a power of two: the in-place program sorts, and
\* on those above 1, where it returns, so does the top-down one; there both
\* shuffles are the one permutation, and unshuffling undoes it.  (The shuffles
\* are compared on the positions, 0-1 values would hide a difference.)
NetworksSort ==
  Len(vector) \in {2 ^ e : e \in 0 .. MaxLen} =>
    LET places == [i \in DOMAIN vector |-> i] IN
    /\ Merge2(vector) = SortedZerosOnes(vector)
    /\ Len(vector) > 1 =>
         /\ MergeTopDown(vector) = SortedZerosOnes(vector)
         /\ Unshuffle(Shuffle(places)) = places
         /\ Shuffle(places) = ShuffleInPlace(places)
         /\ Unshuffle(places) = UnshuffleInPlace(places)
================================================================================
