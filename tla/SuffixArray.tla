------------------------------ MODULE SuffixArray ------------------------------
(***************************************************************************)
(* SuffixArray/src: the sorted suffixes of a text (suffix_array.rs), the     *)
(* search for a keyword in its context (kwic.rs) and the longest repeated    *)
(* substring (lib.rs), on a text that grows character by character.  A       *)
(* character is its code units in UTF-16; indices start from 0.              *)
(***************************************************************************)
EXTENDS Integers, Sequences, SequencesExt

CONSTANTS High, Low,      \* the surrogates: code units that only come in pairs
          Chars,          \* sequences of one code unit, or of a High and a Low one
          MaxLen, MaxQuery,     \* bounds on the code units of a text and of a query
          UsizeMax

VARIABLE text
vars == text

Suffix(i) == SubSeq(text, i + 1, Len(text))
CommonPrefixLen(a, b) == CHOOSE l \in 0 .. Min({Len(a), Len(b)}) :
                           /\ SubSeq(a, 1, l) = SubSeq(b, 1, l)
                           /\ l < Min({Len(a), Len(b)}) => a[l + 1] # b[l + 1]
Less(a, b) == LET l == CommonPrefixLen(a, b) IN
              l < Len(b) /\ (l < Len(a) => a[l + 1] < b[l + 1])

\* The suffixes after the sort, each by its original_index: no two are equal.
SortedSuffixes ==
  [p \in 1 .. Len(text) |->
     CHOOSE i \in 0 .. Len(text) - 1 :
       Cardinality({j \in 0 .. Len(text) - 1 : Less(Suffix(j), Suffix(i))}) = p - 1]
\* rank: where the binary search finds the query, or where it would belong.
Rank(query) == Cardinality({i \in 0 .. Len(text) - 1 : Less(Suffix(i), query)})

\* keyword_in_context: the slices from..to around each suffix that starts with the
\* query, up to the first that does not.  The end of a slice is only held within
\* the text where the sum overflows: one that runs past it is a panic.
Slice(from, query, context_len) ==
  LET to == Min({from + Len(query), Len(text)}) IN
  [from |-> Max({0, from - context_len}),
   to |-> IF to + context_len > UsizeMax THEN Len(text) ELSE to + context_len]
Hits(query) ==
  LET sa == SortedSuffixes
      Hit(i) == CommonPrefixLen(query, Suffix(sa[i])) = Len(query)
      from == Rank(query) + 1
      past == {i \in from .. Len(text) : ~Hit(i)} \cup {Len(text) + 1}
  IN SubSeq(sa, from, Min(past) - 1)
Found(query, context_len) ==
  [h \in DOMAIN Hits(query) |-> Slice(Hits(query)[h], query, context_len)]
Panics(found) == \E h \in DOMAIN found : found[h].to > Len(text)

\* longest_repeated_substring: the last one of the longest common prefixes of
\* neighbours; half a surrogate pair at an end makes from_utf16().unwrap() panic.
None == <<-1>>
LongestRepeated ==
  LET sa == SortedSuffixes
      lcp == [p \in 2 .. Len(text) |-> CommonPrefixLen(Suffix(sa[p - 1]), Suffix(sa[p]))]
      longest == {p \in DOMAIN lcp : \A q \in DOMAIN lcp : lcp[q] <= lcp[p]}
  IN IF longest = {} THEN None ELSE SubSeq(Suffix(sa[Max(longest)]), 1, lcp[Max(longest)])
IllFormed(units) == units # <<>> /\ (Head(units) \in Low \/ Last(units) \in High)

Init == text = <<>>
Push == \E ch \in Chars : Len(text) + Len(ch) <= MaxLen /\ text' = text \o ch
Next == Push

--------------------------------------------------------------------------------
Occurs(query, i) == i + Len(query) <= Len(text) /\ SubSeq(text, i + 1, i + Len(query)) = query

\* Each occurrence of the keyword is found once, and the program panics exactly
\* when one of them has less text after it than the context asked for, unless
\* the context is so long that the sum overflows.
KeywordInContext ==
  \A query \in BoundedSeq(UNION {ToSet(ch) : ch \in Chars}, MaxQuery) :
    LET at == {i \in 0 .. Len(text) - 1 : Occurs(query, i)} IN
    /\ Len(Hits(query)) = Cardinality(at) /\ ToSet(Hits(query)) = at
    /\ \A c \in {0, 1, MaxLen, UsizeMax} :
         LET found == Found(query, c) IN
         /\ Panics(found) <=> \E i \in at : LET to == i + Len(query) IN
                                            to + c > Len(text) /\ to + c <= UsizeMax
         /\ ~Panics(found) => \A h \in DOMAIN found :
              found[h] = [from |-> Max({0, Hits(query)[h] - c}),
                          to |-> Min({Len(text), Hits(query)[h] + Len(query) + c})]

\* The result is a longest substring with two occurrences, and it ends in half a
\* surrogate pair only if two different characters of the text share that half.
LongestTwice ==
  LET longest == LongestRepeated
      Twice(u) == \E i, j \in 0 .. Len(text) : i # j /\ Occurs(u, i) /\ Occurs(u, j)
      pairs == {ch \in Chars : Len(ch) = 2 /\ \E i \in 0 .. Len(text) : Occurs(ch, i)}
  IN IF Len(text) < 2 THEN longest = None
     ELSE /\ Twice(longest)
          /\ \A i \in 0 .. Len(text) - Len(longest) - 1 :
               ~Twice(SubSeq(text, i + 1, i + Len(longest) + 1))
          /\ IllFormed(longest) =>
               \E c, d \in pairs : c # d /\ (c[1] = d[1] \/ c[2] = d[2])
================================================================================
