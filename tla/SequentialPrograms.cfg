\* Every sequential program over all short sequences of its operations or inputs.
SPECIFICATION AllSpec
CONSTANTS
  \* CuckooHashing
  Keys = {0, 1, 2}
  Values = {1, 2}
  Cap = 3
  Hashes <- TwoHashes
  \* SerialNumber, CircularQueue, DoublyLinkedList, DisjointSet
  MID = 8
  QueueValues = {1, 2}
  Capacity = 3
  Addr = {1, 2, 3, 4}
  Nil = 0
  Elements = {0, 1, 2, 3, 4}
  \* RunningMedian
  ValueRange = 4
  MaxFed = 6
  \* MinCutKarger
  Vertices = {1, 2, 3, 4}
  Weights = {1, 2}
  Trials = 2
  \* BipartiteMatching, StableMarriage
  NL = 3
  NR = 3
  N = 3
  MenPrefer <- AllLists
  WomenRank <- TwoOpinions
INVARIANT TypeOK
INVARIANT Home
INVARIANT UndoRestores
INVARIANT Faithful
INVARIANT TriesFaithful
INVARIANT TreeIsSet
INVARIANT QueuesExact
INVARIANT MediansAgree
INVARIANT ReportedIsCut
INVARIANT MatchingsBest
INVARIANT SearchesExact
INVARIANT ClassesAgree
INVARIANT SecretShared
INVARIANT TextFound
INVARIANT LogarithmLeast
INVARIANT DistanceRecovered
INVARIANT VectorsRight
INVARIANT InverseAgrees
\* Bounded programs end: a solved puzzle, a computed cut, a full tree, a longest input.
CHECK_DEADLOCK FALSE
