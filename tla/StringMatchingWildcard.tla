------------------------ MODULE StringMatchingWildcard ------------------------
(***************************************************************************)
(* StringMatchingWildcard/match_wildcard.rs: matching a text with a pattern  *)
(* of letters, ANY and MANY, which comes back to the last MANY only.         *)
(***************************************************************************)
EXTENDS Integers, Sequences, SequencesExt

CONSTANTS Letters, MaxPattern, MaxText     \* bounds on the two lengths

VARIABLE wildcard         \* the pattern p and the text s
vars == wildcard

ANY == "?"
MANY == "*"

\* The loop, at s_i in the text and p_i in the pattern; a failure goes on at s_k
\* and p_k, which are the end of the text and 0 until a MANY is met.
RECURSIVE MatchFrom(_, _, _, _, _, _)
MatchFrom(s, p, s_i, p_i, s_k, p_k) ==
  IF s_i = Len(s) THEN \A i \in p_i + 1 .. Len(p) : p[i] = MANY
  ELSE LET next == IF p_i < Len(p) THEN p[p_i + 1] ELSE "end" IN
       CASE next = MANY -> MatchFrom(s, p, s_i, p_i + 1, s_i + 1, p_i)
         [] next \in {ANY, s[s_i + 1]} -> MatchFrom(s, p, s_i + 1, p_i + 1, s_k, p_k)
         [] OTHER -> MatchFrom(s, p, s_k, p_k, s_k, p_k)
MatchWildcard(s, p) == MatchFrom(s, p, 0, 0, Len(s), 0)

Init == \E p \in BoundedSeq(Letters \cup {ANY, MANY}, MaxPattern) : wildcard = [p |-> p, s |-> <<>>]
ReadByte == /\ Len(wildcard.s) < MaxText
            /\ \E ch \in Letters : wildcard' = [wildcard EXCEPT !.s = Append(@, ch)]
Next == ReadByte

--------------------------------------------------------------------------------
\* What it is for a text to match a pattern, a reference definition.
RECURSIVE Matches(_, _)
Matches(s, p) ==
  CASE p = <<>> -> s = <<>>
    [] p # <<>> /\ Head(p) = MANY -> \E i \in 0 .. Len(s) : Matches(SubSeq(s, i + 1, Len(s)), Tail(p))
    [] p # <<>> /\ Head(p) # MANY ->
         s # <<>> /\ Head(p) \in {ANY, Head(s)} /\ Matches(Tail(s), Tail(p))

\* Coming back to the last MANY only never misses a match, and never finds one
\* too many; but the empty pattern matches every text (a first failure goes on
\* at the end of the text and of the pattern).
MatchesWildcard ==
  MatchWildcard(wildcard.s, wildcard.p) <=> wildcard.p = <<>> \/ Matches(wildcard.s, wildcard.p)
================================================================================
