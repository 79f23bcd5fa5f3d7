------------------------ MODULE BurrowsWheelerTransform ------------------------
(***************************************************************************)
(* BurrowsWheelerTransform/src: the transform and its inverse (lib.rs) of a  *)
(* text that grows letter by letter, and the order of the cyclic words they  *)
(* rest on (wrap_str.rs).  Positions start from 0, as in the code.           *)
(***************************************************************************)
EXTENDS Integers, Sequences, SequencesExt

CONSTANTS Letters,        \* a set of numbers
          MaxLen          \* bound on the length of the text

VARIABLE text
vars == text

\* WrapStr: a word read from start_index on, for ever.
WrapStr(s, start_index) == [s |-> s, start_index |-> start_index]
At(w, i) == w.s[((w.start_index + i) % Len(w.s)) + 1]

\* cmp: -1, 0 or 1 by the first difference among so many letters.
Compared(u, v) ==
  LET max_l == Max({Len(u.s), Len(v.s)})
      min_l == Min({Len(u.s), Len(v.s)})
  IN IF max_l % min_l = 0 THEN max_l ELSE max_l + min_l - (max_l % min_l)
FirstDifference(u, v, n) ==
  LET different == {i \in 0 .. n - 1 : At(u, i) # At(v, i)} IN
  CASE different = {} -> 0
    [] different # {} /\ At(u, Min(different)) < At(v, Min(different)) -> -1
    [] different # {} /\ At(u, Min(different)) > At(v, Min(different)) -> 1
Cmp(u, v) == FirstDifference(u, v, Compared(u, v))

\* A stable sort of the numbers of S is the order of those that come before each.
Sorted(S, Before(_, _)) ==
  LET place == [i \in S |-> Cardinality({j \in S : Before(j, i)})] IN
  [p \in 1 .. Cardinality(S) |-> CHOOSE i \in S : place[i] = p - 1]

\* burrows_wheeler: the last letters of the sorted rotations, and the text's place.
BurrowsWheeler(s) ==
  LET Before(j, i) == LET c == Cmp(WrapStr(s, j), WrapStr(s, i)) IN c < 0 \/ (c = 0 /\ j < i)
      rotated == Sorted(0 .. Len(s) - 1, Before)
  IN [result |-> [p \in 1 .. Len(s) |-> At(WrapStr(s, rotated[p]), Len(s) - 1)],
      start_idx |-> (CHOOSE p \in 1 .. Len(s) : rotated[p] = 0) - 1]

\* inv_burrows_wheeler: from the last letter back, through the stable sort.
\* Mutant: equal letters change places in the sort.
IndexMap_Unstable(s) ==
  [i \in 1 .. Len(s) |->
     Cardinality({j \in 1 .. Len(s) : s[j] < s[i] \/ (s[j] = s[i] /\ j > i)})]
IndexMap(s) ==
  [i \in 1 .. Len(s) |->
     Cardinality({j \in 1 .. Len(s) : s[j] < s[i] \/ (s[j] = s[i] /\ j < i)})]
InvBurrowsWheeler(s, start_index) ==
  LET at[k \in 0 .. Len(s)] == IF k = 0 THEN start_index ELSE IndexMap(s)[at[k - 1] + 1]
  IN [i \in 1 .. Len(s) |-> s[at[Len(s) - i] + 1]]

Init == text = <<>>
Push == Len(text) < MaxLen /\ \E ch \in Letters : text' = Append(text, ch)
Next == Push

--------------------------------------------------------------------------------
\* The inverse gives every text back, periodic ones too (their equal rotations are
\* kept in the order of the sort on both sides).
TransformInverts ==
  text # <<>> => LET bw == BurrowsWheeler(text) IN
                 InvBurrowsWheeler(bw.result, bw.start_idx) = text

\* cmp is the order of the two words repeated for ever, on each cut of the text in
\* two words where the longer leaves the shorter one's greatest common divisor
\* with it over (as with equal lengths, the only use of cmp in lib.rs).  With
\* lengths 3 and 5 it may answer Equal too early: two words have to agree on the
\* sum of their lengths less their greatest common divisor.
CmpExact ==
  \A n \in 1 .. Len(text) - 1 :
    LET u == WrapStr(SubSeq(text, 1, n), 0)
        v == WrapStr(SubSeq(text, n + 1, Len(text)), 0)
        max_l == Max({Len(u.s), Len(v.s)})
        min_l == Min({Len(u.s), Len(v.s)})
    IN min_l % Max({1, max_l % min_l}) = 0 =>
         Cmp(u, v) = FirstDifference(u, v, max_l * min_l)

CyclicOrder == TransformInverts /\ CmpExact
================================================================================
