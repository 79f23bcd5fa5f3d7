----------------------------- MODULE PlainPrograms -----------------------------
(***************************************************************************)
(* The sequential programs that keep a state and need no recursion, but for  *)
(* CuckooHashing: a behaviour picks one of them and takes its steps only.    *)
(* They share `state'.                                                       *)
(***************************************************************************)
EXTENDS Integers, Sequences, FiniteSets

CONSTANTS MID,                               \* of SerialNumber
          QueueValues, Capacity,             \* of CircularQueue
          Addr, Nil,                         \* of DoublyLinkedList
          Elements,                          \* of DisjointSet
          ValueRange, MaxFed,                \* of RunningMedian
          Vertices, Weights, Trials,         \* of MinCutKarger
          NL, NR,                            \* of BipartiteMatching
          N, MenPrefer, WomenRank            \* of StableMarriage

VARIABLES program,        \* the program that runs
          state           \* its state

Serial == INSTANCE SerialNumber WITH serial <- state
Queue == INSTANCE CircularQueue WITH queue <- state, Values <- QueueValues
List == INSTANCE DoublyLinkedList WITH list <- state
Sets == INSTANCE DisjointSet WITH sets <- state
Median == INSTANCE RunningMedian WITH median <- state, MaxLen <- MaxFed
Cut == INSTANCE MinCutKarger WITH cut <- state
Matching == INSTANCE BipartiteMatching WITH bm <- state
Marriage == INSTANCE StableMarriage WITH engaged <- state

ASSUME PlainAssumption ==
  /\ Serial!MidAssumption /\ Queue!CapacityAssumption /\ List!NilAssumption
  /\ Sets!ElementsAssumption /\ Median!RangeAssumption
  /\ Cut!VertexAssumption /\ Cut!WeightAssumption
  /\ Matching!SizeAssumption /\ Marriage!PreferencesAssumption

plainVars == <<program, state>>

PlainInit ==
  \/ program = "serial" /\ Serial!Init
  \/ program = "queue" /\ Queue!Init
  \/ program = "list" /\ List!Init
  \/ program = "sets" /\ Sets!Init
  \/ program = "median" /\ Median!Init
  \/ program = "cut" /\ Cut!Init
  \/ program = "matching" /\ Matching!Init
  \/ program = "marriage" /\ Marriage!Init

PlainNext ==
  /\ UNCHANGED program
  /\ \/ program = "serial" /\ Serial!Next
     \/ program = "queue" /\ Queue!Next
     \/ program = "list" /\ List!Next
     \/ program = "sets" /\ Sets!Next
     \/ program = "median" /\ Median!Next
     \/ program = "cut" /\ Cut!Next
     \/ program = "matching" /\ Matching!Next
     \/ program = "marriage" /\ Marriage!Next

PlainSpec == PlainInit /\ [][PlainNext]_plainVars

--------------------------------------------------------------------------------
\* Serial numbers: the distance covered is recovered across the wrap-around.
DistanceRecovered == program = "serial" => Serial!DistanceRecovered
\* Doubly linked list: both directions of links are the deque expected.  Circular
\* queue: values come out as they went in, and none is refused before it is full.
QueuesExact == /\ program = "list" => List!ListIsDeque
               /\ program = "queue" => Queue!QueueExact
\* Disjoint sets: the classes of what was merged, in trees of low rank.
ClassesAgree == program = "sets" => Sets!PartitionExact
\* Running median: three algorithms, one answer, on balanced heaps.
MediansAgree == program = "median" => Median!MediansAgree
\* Karger's algorithm: what is reported is a cut of the graph read.
ReportedIsCut == program = "cut" => Cut!ReportedIsCut
\* Kuhn's algorithm: a matching throughout, and a maximum one at the end.  Stable
\* marriage: stable, and the best one for the men.
MatchingsBest == /\ program = "matching" => Matching!MatchingMaximum
                 /\ program = "marriage" => Marriage!MarriagesStable
================================================================================
