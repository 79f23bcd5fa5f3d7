-------------------------- MODULE SequentialPrograms --------------------------
(***************************************************************************)
(* The sequential programs of the repository, model-checked together: a      *)
(* behaviour picks one of them and takes its steps only.  The containers and *)
(* the searches keep a state of their own; the other programs compute from   *)
(* an input that grows step by step.  The modules of a single variable share *)
(* `state'.                                                                  *)
(***************************************************************************)
EXTENDS CuckooHashing, PlainPrograms

\* Values of the constants: two hash functions; all preferences of three men, and
\* women of one opinion or of two.
TwoHashes == {[k \in Keys |-> k], [k \in Keys |-> 0]}
Lists == {f \in [1 .. 3 -> 0 .. 2] : {f[i] : i \in 1 .. 3} = 0 .. 2}
AllLists == [0 .. 2 -> Lists]
Opinions == {<<0, 1, 2>>, <<2, 0, 1>>}
TwoOpinions == {[w \in 0 .. 2 |-> [m \in 0 .. 2 |-> r[w][m + 1]]] : r \in [0 .. 2 -> Opinions]}

\* Two keys with the same hash, and others that share two, one or no digits with them.
TrieHash == <<<<1, 0, 1>>, <<1, 0, 1>>, <<1, 2, 0>>, <<0, 0, 0>>, <<2, 0, 1>>>>
Trie == INSTANCE HashArrayMappedTrie WITH
          hamt <- state, Keys <- 1 .. 5, Values <- {1, 2}, Hash <- TrieHash, MaxDepth <- 3

Tree == INSTANCE TwoThreeTree WITH tree <- state, Elements <- 1 .. 9

\* All boards of side 2, and boards of side 3 two, four, five and six moves from the goal.
Puzzle2 == INSTANCE SlidingPuzzle WITH
             search <- state, N <- 2, Starts <- [1 .. 4 -> 0 .. 3], MaxMoves <- 6
Starts3 == {<<1, 2, 3, 4, 0, 5, 7, 8, 6>>, <<0, 1, 2, 4, 5, 3, 7, 8, 6>>,
            <<1, 0, 2, 4, 6, 3, 7, 5, 8>>, <<1, 2, 0, 4, 8, 3, 7, 6, 5>>}
Puzzle3 == INSTANCE SlidingPuzzle WITH
             search <- state, N <- 3, Starts <- Starts3, MaxMoves <- 8

Components == INSTANCE StronglyConnectedComponent WITH
                graph <- state, Nodes <- 0 .. 3, MaxEdges <- 4
\* Sharing in a field of eight bytes, and the tables of the field of 256.
Shamir == INSTANCE ShamirSecretSharing WITH
            shamir <- state, Bits <- 3, Remainder <- {0, 1}, MaxN <- 3
Rijndael == INSTANCE ShamirSecretSharing WITH
              shamir <- state, Bits <- 8, Remainder <- {0, 1, 3, 4}, MaxN <- 1
Search == INSTANCE BoyerMoore WITH
            bm <- state, Letters <- {"a", "b"}, Others <- {"c"}, MaxPattern <- 4, MaxText <- 6
Wildcard == INSTANCE StringMatchingWildcard WITH
              wildcard <- state, Letters <- {"a", "b"}, MaxPattern <- 4, MaxText <- 5
Succinct == INSTANCE SuccinctTrie WITH
              trie <- state, Width <- 3, Letters <- {"a", "b"}, MaxDepth <- 3
Logarithm == INSTANCE BabyStepGiantStep WITH
               bsgs <- state, Width <- 8, MaxP <- 18, Moduli <- {1, 100, 128, 129, 255}
Network == INSTANCE OddEvenMergeSort WITH vector <- state, MaxLen <- 8
Counting == INSTANCE KeyIndexedCounting WITH xs <- state, MaxKey <- 2, MaxLen <- 5
Transform == INSTANCE BurrowsWheelerTransform WITH
               text <- state, Letters <- {0, 1}, MaxLen <- 8
Check == INSTANCE CyclicRedundancyCheck WITH
           data <- state, ByteBits <- 2, WordBits <- 4, Poly <- {0, 1}, MaxLen <- 4
\* Two characters of one code unit, and two of a surrogate pair with the same half.
Suffixes == INSTANCE SuffixArray WITH
              text <- state, High <- {2}, Low <- {3, 4}, MaxLen <- 6, MaxQuery <- 2,
              Chars <- {<<0>>, <<1>>, <<2, 3>>, <<2, 4>>}, UsizeMax <- 16
\* Ten elements are the fewest that have a gap larger than one.
Shell == INSTANCE ShellSort WITH vector <- state, MaxLen <- 11
Intervals == INSTANCE MergeIntervals WITH interval <- state, MaxEnd <- 4, MaxLen <- 3
Plane == {<<0, 0>>, <<2, 0>>, <<2, 1>>, <<3, 1>>, <<4, 0>>, <<4, 1>>}
Pair == INSTANCE ClosestPair WITH points <- state, Points <- Plane, MaxLen <- 5, MAX <- 100

ASSUME ParametersAssumption ==
  /\ CapAssumption /\ HashesAssumption
  /\ Trie!HashAssumption
  /\ Puzzle2!NAssumption /\ Puzzle3!NAssumption /\ Counting!MaxKeyAssumption
  /\ Check!WidthAssumption /\ Check!PolyAssumption

allVars == <<program, state, vars>>
Unused == <<>>

\* The map of a behaviour in which another program runs stays empty.
NoMap == Init /\ \A t \in 0 .. 1 : seeds[t] = CHOOSE h \in Hashes : TRUE

AllInit ==
  \/ program = "cuckoo" /\ Init /\ state = Unused
  \/ /\ NoMap
     /\ \/ PlainInit
        \/ program = "trie" /\ Trie!Init
        \/ program = "tree" /\ Tree!Init
        \/ program = "puzzle2" /\ Puzzle2!Init
        \/ program = "puzzle3" /\ Puzzle3!Init
        \/ program = "components" /\ Components!Init
        \/ program = "shamir" /\ Shamir!Init
        \/ program = "rijndael" /\ Rijndael!Init
        \/ program = "search" /\ Search!Init
        \/ program = "wildcard" /\ Wildcard!Init
        \/ program = "succinct" /\ Succinct!Init
        \/ program = "logarithm" /\ Logarithm!Init
        \/ program = "network" /\ Network!Init
        \/ program = "counting" /\ Counting!Init
        \/ program = "transform" /\ Transform!Init
        \/ program = "check" /\ Check!Init
        \/ program = "suffixes" /\ Suffixes!Init
        \/ program = "shell" /\ Shell!Init
        \/ program = "intervals" /\ Intervals!Init
        \/ program = "pair" /\ Pair!Init

AllNext ==
  /\ UNCHANGED program
  /\ \/ program = "cuckoo" /\ Next /\ UNCHANGED state
     \/ /\ UNCHANGED vars
        /\ \/ PlainNext
           \/ program = "trie" /\ Trie!Next
           \/ program = "tree" /\ Tree!Next
           \/ program = "puzzle2" /\ Puzzle2!Next
           \/ program = "puzzle3" /\ Puzzle3!Next
           \/ program = "components" /\ Components!Next
           \/ program = "shamir" /\ Shamir!Next
           \/ program = "rijndael" /\ Rijndael!Next
           \/ program = "search" /\ Search!Next
           \/ program = "wildcard" /\ Wildcard!Next
           \/ program = "succinct" /\ Succinct!Next
           \/ program = "logarithm" /\ Logarithm!Next
           \/ program = "network" /\ Network!Next
           \/ program = "counting" /\ Counting!Next
           \/ program = "transform" /\ Transform!Next
           \/ program = "check" /\ Check!Next
           \/ program = "suffixes" /\ Suffixes!Next
           \/ program = "shell" /\ Shell!Next
           \/ program = "intervals" /\ Intervals!Next
           \/ program = "pair" /\ Pair!Next

AllSpec == AllInit /\ [][AllNext]_allVars

--------------------------------------------------------------------------------
\* The type invariants of the modules.
TypeOK ==
  CASE program = "cuckoo"   -> CuckooTypeOK
    [] program = "trie"     -> Trie!TrieTypeOK
    [] program = "tree"     -> Tree!TreeTypeOK
    [] program = "list"     -> List!ListTypeOK
    [] program = "median"   -> Median!MedianTypeOK
    [] program = "cut"      -> Cut!CutTypeOK
    [] program = "matching" -> Matching!MatchingTypeOK
    [] program = "puzzle2"  -> Puzzle2!PuzzleTypeOK
    [] program = "puzzle3"  -> Puzzle3!PuzzleTypeOK
    [] program = "serial"   -> Serial!SerialTypeOK
    [] OTHER -> TRUE

\* Hash array mapped trie: the right answer but under keys lost to a shared digit.
\* Succinct trie: the encoding holds exactly the words that end in a leaf.
TriesFaithful == /\ program = "trie" => Trie!TrieFaithful
                 /\ program = "succinct" => Succinct!EncodingExact
\* 2-3 tree: balanced, and the set of what was inserted.
TreeIsSet == program = "tree" => Tree!TreeIsSet
\* Sliding puzzle: the shortest solution, or none when there is none.
\* Strongly connected components: three algorithms, the classes of the graph.
SearchesExact == /\ program = "puzzle2" => Puzzle2!SolutionShortest
                 /\ program = "puzzle3" => Puzzle3!SolutionShortest
                 /\ program = "components" => Components!ComponentsAgree
\* Shamir's secret sharing: k different shares give the secret, and k - 1 never do.
SecretShared == /\ program = "shamir" => Shamir!SecretShared
                /\ program = "rijndael" => Rijndael!SecretShared
\* Text searches: Boyer and Moore's reports occurrences only, and the first one for
\* some patterns; the one with wildcards is right but for the empty pattern; the
\* one for a keyword in its context finds it everywhere, or runs past the text.
TextFound == /\ program = "search" => Search!FindsOccurrence
             /\ program = "wildcard" => Wildcard!MatchesWildcard
             /\ program = "suffixes" => Suffixes!KeywordInContext /\ Suffixes!LongestTwice
\* Discrete logarithms: the least one, with no overflow in the modular product.
LogarithmLeast == program = "logarithm" => Logarithm!LogarithmLeast
\* Vectors: the sorting networks and the shell sort sort, the counting sort is stable,
\* merged intervals are the same union, and the closest pair is the naive one.
VectorsRight == /\ program = "network" => Network!NetworksSort
                /\ program = "counting" => Counting!CountingStable
                /\ program = "shell" => Shell!ShellSorts
                /\ program = "intervals" => Intervals!UnionExact
                /\ program = "pair" => Pair!ClosestExact
\* Texts and data that come back: the Burrows-Wheeler transform inverts, and the
\* three checksums agree.
InverseAgrees == /\ program = "transform" => Transform!CyclicOrder
                 /\ program = "check" => Check!ChecksAgree /\ Check!CheckDetects
================================================================================
