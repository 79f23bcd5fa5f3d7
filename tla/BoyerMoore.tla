------------------------------ MODULE BoyerMoore ------------------------------
(***************************************************************************)
(* BoyerMoore/bm.rs: the tables computed from a pattern, and the search for  *)
(* it in a text, here a text that grows byte by byte.  The indices of the    *)
(* tables and of the search start from 0, as in the code.                    *)
(***************************************************************************)
EXTENDS Integers, Sequences, SequencesExt

CONSTANTS Letters,        \* the bytes of the patterns
          Others,         \* bytes that only texts have
          MaxPattern, MaxText     \* bounds on the two lengths

VARIABLE bm               \* the pattern p and the text s
vars == bm

None == -1
At(seq, i) == seq[i + 1]

\* The length of the longest common suffix of p[..j_end] and p.
CommonSuffix(p, j_end) ==
  CHOOSE l \in 0 .. j_end :
    /\ \A d \in 1 .. l : At(p, j_end - d) = At(p, Len(p) - d)
    /\ l < j_end => At(p, j_end - l - 1) # At(p, Len(p) - l - 1)

\* The table good_suffix: Partial where p[..j_end] as a whole is a suffix of p, on
\* entries still empty; Complete, on any entry, where only an end of it is.
NoMatch == [case |-> "NoMatch", at |-> 0]
Marked(p, table, j_end) ==
  LET n == Len(p)
      l == CommonSuffix(p, j_end)
  IN [k \in 0 .. n - 1 |->
        CASE l = j_end /\ k <= n - j_end /\ table[k].case = "NoMatch" ->
               [case |-> "Partial", at |-> j_end]
          [] l < j_end /\ k >= n - l /\ table[k].case # "Complete" ->
               [case |-> "Complete", at |-> j_end]
          [] OTHER -> table[k]]
GoodSuffix(p) ==
  FoldLeft(LAMBDA table, d : Marked(p, table, Len(p) - d),
           [k \in 0 .. Len(p) - 1 |-> NoMatch], [d \in 1 .. Len(p) - 1 |-> d])

\* How far a mismatch at j moves the pattern, by the byte of the text and by the
\* entry of the table at j.
\* Mutant: the occurrences are searched from the left.
BadCharShift_First(p, ch, j) ==
  LET bad_char == {i \in 0 .. Len(p) - 1 : At(p, i) = ch}
      before == {i \in bad_char : i < j}
  IN CASE bad_char = {} -> Len(p)
       [] bad_char # {} /\ before # {} -> j - Min(before)
       [] bad_char # {} /\ before = {} -> 0
BadCharShift(p, ch, j) ==
  LET bad_char == {i \in 0 .. Len(p) - 1 : At(p, i) = ch}
      before == {i \in bad_char : i < j}
  IN CASE bad_char = {} -> Len(p)
       [] bad_char # {} /\ before # {} -> j - Max(before)
       [] bad_char # {} /\ before = {} -> 0
GoodSuffixShift(p, j) == IF j + 1 = Len(p) THEN 0 ELSE Len(p) - GoodSuffix(p)[j].at

\* match_str, from the alignment of the pattern with position i on.
RECURSIVE MatchFrom(_, _, _)
MatchFrom(p, s, i) ==
  IF i + Len(p) > Len(s) THEN None
  ELSE LET wrong == {j \in 0 .. Len(p) - 1 : At(s, i + j) # At(p, j)}
           j == Max(wrong)
       IN IF wrong = {} THEN i
          ELSE MatchFrom(p, s, i + Max({1, BadCharShift(p, At(s, i + j), j), GoodSuffixShift(p, j)}))

MatchStr == MatchFrom(bm.p, bm.s, 0)

Init == \E p \in BoundedSeq(Letters, MaxPattern) \ {<<>>} : bm = [p |-> p, s |-> <<>>]
ReadByte == /\ Len(bm.s) < MaxText
            /\ \E ch \in Letters \cup Others : bm' = [bm EXCEPT !.s = Append(@, ch)]
Next == ReadByte
Spec == Init /\ [][Next]_vars

--------------------------------------------------------------------------------
FirstOccurrence(p, s) ==
  LET starts == {i \in 0 .. Len(s) - Len(p) : SubSeq(s, i + 1, i + Len(p)) = p} IN
  IF starts = {} THEN None ELSE Min(starts)

\* "Boyer-Moore string search algorithm" (bm.rs:1), "skips as long as the
\* pattern" (bm.rs:164): the search finds the first occurrence of the pattern.
\* It does not: after a mismatch at j only j + 1 places may be skipped for a byte
\* the pattern lacks, and the other table is read at j instead of j + 1.
FindsFirst == MatchStr = FirstOccurrence(bm.p, bm.s)

\* What holds of the search: a position it reports is an occurrence, and it finds
\* the first one whenever the last byte of the pattern occurs only there (no
\* shift then moves over an occurrence).
FindsOccurrence ==
  /\ MatchStr # None => SubSeq(bm.s, MatchStr + 1, MatchStr + Len(bm.p)) = bm.p
  /\ (\A i \in 1 .. Len(bm.p) - 1 : bm.p[i] # Last(bm.p)) => FindsFirst
================================================================================
