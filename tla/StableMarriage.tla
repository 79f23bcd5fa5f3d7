----------------------------- MODULE StableMarriage -----------------------------
(***************************************************************************)
(* StableMarriage/StableMarriage.cs: men propose until none is free; one     *)
(* iteration of the loop is one step.                                        *)
(***************************************************************************)
EXTENDS Integers, Sequences, FiniteSets

CONSTANTS N,              \* men and women are 0 .. N - 1
          MenPrefer,      \* the lists of preferences tried: of each man, women in order
          WomenRank       \* the ranks tried: of each woman, the rank of each man

\* A list has every woman once, and a woman ranks no two men alike.
PreferencesAssumption ==
  /\ N \in Nat
  /\ \A prefer \in MenPrefer, m \in 0 .. N - 1 :
       /\ prefer[m] \in [1 .. N -> 0 .. N - 1]
       /\ \A w \in 0 .. N - 1 : \E i \in 1 .. N : prefer[m][i] = w
       /\ \A i, j \in 1 .. N : prefer[m][i] = prefer[m][j] => i = j
  /\ \A rank \in WomenRank :
       /\ rank \in [0 .. N - 1 -> [0 .. N - 1 -> Int]]
       /\ \A w, l, m \in 0 .. N - 1 : rank[w][l] = rank[w][m] => l = m

VARIABLE engaged          \* mPrefer, wRanks, mFree, wFree and wMatches
vars == engaged

People == 0 .. N - 1
Init == \E mPrefer \in MenPrefer, wRanks \in WomenRank :
          engaged = [mPrefer |-> mPrefer, wRanks |-> wRanks, mFree |-> People,
                     wFree |-> People, wMatches |-> [w \in People |-> 0]]

\* Woman w takes man m if she is free, or prefers him to the man she is engaged to.
Accepts(w, m) == \/ w \in engaged.wFree
                 \/ engaged.wRanks[w][m] < engaged.wRanks[w][engaged.wMatches[w]]

\* A free man (the first one of a hash set: any) asks from the head of his list on,
\* those who refused him before as well; if all refuse, the loop goes on for ever.
Propose ==
  \E m \in engaged.mFree :
    LET list == engaged.mPrefer[m]
        willing == {i \in 1 .. N : Accepts(list[i], m)}
        w == list[CHOOSE i \in willing : \A j \in willing : i <= j]
    IN engaged' = IF willing = {} THEN engaged
                  ELSE [engaged EXCEPT
                          !.mFree = (@ \ {m}) \cup
                                    (IF w \in engaged.wFree THEN {} ELSE {engaged.wMatches[w]}),
                          !.wFree = @ \ {w}, !.wMatches[w] = m]
Next == Propose

Spec == Init /\ [][Next]_vars

--------------------------------------------------------------------------------
Pairs == [w \in People \ engaged.wFree |-> engaged.wMatches[w]]
Rank(m, w) == CHOOSE i \in 1 .. N : engaged.mPrefer[m][i] = w
Stable(match) ==      \* match[w] is the husband of w
  ~\E w, v \in People : /\ Rank(match[v], w) < Rank(match[v], v)
                        /\ engaged.wRanks[w][match[v]] < engaged.wRanks[w][match[w]]

\* Some woman accepts every free man, the engaged are the men that are not free,
\* and at the end the matching is stable and no man has a better wife in any other
\* stable matching, whatever the order in which the hash set gives the men.
MarriagesStable ==
  /\ \A m \in engaged.mFree : \E w \in People : Accepts(w, m)
  /\ {Pairs[w] : w \in DOMAIN Pairs} = People \ engaged.mFree
  /\ Cardinality(DOMAIN Pairs) = N - Cardinality(engaged.mFree)
  /\ engaged.mFree = {} =>
       /\ Stable(engaged.wMatches)
       /\ \A other \in {f \in [People -> People] : {f[w] : w \in People} = People} :
            Stable(other) => \A w, v \in People :
              engaged.wMatches[w] = other[v] => Rank(other[v], w) <= Rank(other[v], v)
================================================================================
