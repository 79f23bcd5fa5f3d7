------------------------------- MODULE ShellSort -------------------------------
(***************************************************************************)
(* ShellSort/src/shell_sort.rs: insertion sorts of every h-th element, for   *)
(* the gaps h of Knuth's sequence from the largest one down, on a vector of  *)
(* zeros and ones that grows element by element.                             *)
(***************************************************************************)
EXTENDS Integers, Sequences, SequencesExt

CONSTANT MaxLen           \* bound on the length of the vector

VARIABLE vector
vars == vector

\* hs: gaps are added while nine times the last one is less than the length.
RECURSIVE Gaps(_, _)
Gaps(st, len) == IF st * 9 >= len THEN <<>> ELSE <<st * 3 + 1>> \o Gaps(st * 3 + 1, len)

\* The element at i moves back by steps of h past the larger ones.
Inserted(a, h, i) ==
  LET stops == {j \in 1 .. i : /\ (i - j) % h = 0
                               /\ j <= h \/ a[i] >= a[j - h]}
      j == Max(stops)
  IN [k \in DOMAIN a |-> CASE k = j -> a[i]
                           [] k \in j + 1 .. i /\ (i - k) % h = 0 -> a[k - h]
                           [] OTHER -> a[k]]
HSorted(a, h) == FoldLeft(LAMBDA b, i : Inserted(b, h, i), a,
                          [n \in 1 .. Max({0, Len(a) - h}) |-> h + n])
ShellSorted(a) == FoldLeft(HSorted, a, Reverse(Gaps(0, Len(a))))

Init == vector = <<>>
Push == Len(vector) < MaxLen /\ \E x \in {0, 1} : vector' = Append(vector, x)
Next == Push

--------------------------------------------------------------------------------
\* The result is the sorted vector: an element lost or left in two places by the
\* moves out of the vector (take_at) would show in the number of zeros.
ShellSorts ==
  LET zeros == Cardinality({i \in DOMAIN vector : vector[i] = 0}) IN
  ShellSorted(vector) = [i \in DOMAIN vector |-> IF i <= zeros THEN 0 ELSE 1]
================================================================================
