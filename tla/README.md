# TrivialSolutions in TLA+

TLA+ specifications of the programs of this repository, the TLC runs that check
them on small instances and the proofs that TLAPS checks for every instance.
The repository is a collection of about 125 independent programs, most of them
one algorithm in one file.  Three concurrent or distributed ones and twenty-six
sequential ones are modelled; what follows says how, what is known about them,
and why the others are left out.

## Inventory

Three programs have several actors, and their correctness depends on the order
of steps that no test controls.  They are the core of this project.

| Program | State | Operations | How its parts interact | Hard behaviour | Correct when |
|---|---|---|---|---|---|
| `PetersonLock/peterson_lock.rs` | `interested[2]`, `victim`, an unprotected counter | `lock`, `unlock` (by the guard's drop), the two loops of `main` | two threads, shared atomics, `join` | interleaving of single accesses; memory orderings weaker than sequential consistency | one holder, no starvation, no lost increment |
| `LockfreeStack/src` | `top`, linked nodes, the global `PAUSE_COUNT`, a thread-local garbage queue | `push`, `pop`, `Pause::new`/`drop`, `add`, `delete`, the queue's `drop` | threads share the stack and the count; each frees what it popped | use after free, ABA, reuse of addresses, a spin at thread exit, orderings | linearizable, every popped node freed once and never while in use |
| `Raft/src` | per server: term, vote, log, commit index, role, timers; dispatcher: one queue per sender and a count | `tick`, `handle_message` with four handlers, `handle_client_command`, `restart` | a single-threaded simulator draws events; servers exchange messages through the dispatcher | crashes that lose everything, repeated, dropped and overtaking messages, index arithmetic on `usize` | safe elections and logs, no message lost by the dispatcher |

`Raft/src/lib.rs` calls itself "VERY BUGGY", so the questions to ask of it are
which guarantees it has all the same, and where exactly it leaves those its
comments claim.

The other programs are sequential.  Those with state between calls can reach a
wrong state through a long sequence of legal calls; the searches and algorithms
can be wrong on an input nobody tried.  The ones written in Rust are modelled
except where they are about floating point, probability or input and output, or
are puzzles of one function; three short ones in other languages are modelled
because their state is subtle.

| Kind | Programs | Hard behaviour | Correct when |
|---|---|---|---|
| Containers | `CuckooHashing`, `HashArrayMappedTrie`, `TwoThreeTree`, `DoublyLinkedList`, `CircularQueue`, `DisjointSet`, `RunningMedian`, `SuccinctTrie` | displacement, undo and rehash; keys whose hashes agree; raw pointers back; wrap-around; heaps that must stay balanced; encodings that cross bytes | the operations answer as an abstract map, set, deque, queue, partition or sorted sequence does |
| Searches on graphs | `BipartiteMatching`, `StableMarriage`, `MinCutKarger`, `SlidingPuzzle`, `StronglyConnectedComponent` | random or arbitrary choices, state kept from one search to the next, orders with ties | the result is the best or the reference one, whatever the choices |
| Texts | `BoyerMoore`, `StringMatchingWildcard`, `SuffixArray`, `BurrowsWheelerTransform` | shifts that may skip a match, periodic texts, ends of slices | occurrences are found, transforms invert |
| Numbers and codes | `ShamirSecretSharing`, `BabyStepGiantStep`, `SerialNumber`, `CyclicRedundancyCheck` | arithmetic modulo a word, finite fields, wrap-around | agreement with the definition, up to the bound where a word overflows |
| Vectors | `OddEvenMergeSort`, `ShellSort`, `KeyIndexedCounting`, `MergeIntervals`, `ClosestPairOfPoints` | indices and gaps, ties, coincident points | agreement with the definition |

`PROJECT.json` lists all programs under `components`, and the hazards at their
lines under `hazards`.

## Modules

| Module | What it is |
|---|---|
| `FifoLock` | abstract: a first-come first-served lock |
| `PetersonLock` | the lock and `main`, one access to shared memory a step, sequentially consistent; implements `FifoLock` |
| `PetersonLockRA` | the same program under the memory orderings it asks for; implements the safety of `FifoLock` |
| `PetersonLockProofs`, `PetersonLockRAProofs` | proofs about the two |
| `AtomicStack` | abstract: a stack whose operations take effect at one instant between call and return |
| `LockfreeStack` | stack, `Pause` and garbage queues, one access to shared memory a step; implements `AtomicStack` |
| `LockfreeStackRelaxed` | extends it by the reorderings that the `Relaxed` increment and decrement of `PAUSE_COUNT` allow |
| `LockfreeStackProofs` | proofs about `LockfreeStack`: memory, and that it implements `AtomicStack` |
| `Raft` | simulator, servers and dispatcher, one event of `Simulator::run` a step |
| `RaftProofs` | proofs about `Raft`: types, elections, terms of entries and messages, the dispatcher's count |
| one module per sequential program | its state, its operations and what it promises (below) |
| `CuckooHashingProofs` | proofs about `CuckooHashing` |
| `PlainPrograms` | eight sequential programs proved about together: a behaviour picks one of them and takes its steps |
| `PlainProgramsProofs` | proofs about `PlainPrograms`: serial numbers, queues and matchings |
| `PlainRecursionProofs` | extends them: disjoint sets and running medians, whose loops are recursive functions |
| `MinCutKargerProofs` | extends them: Karger's algorithm, whose weights are sums |
| `SequentialPrograms` | all sequential programs for TLC: extends `CuckooHashing` and `PlainPrograms`, instantiates the others; a behaviour picks one program and takes its steps |

Each `.cfg` instantiates a module for TLC.  `SequentialPrograms` is the MC module of
all sequential programs: with its `.cfg` it gives the constants their values, checks
the assumptions on them, and joins properties of the same kind into one invariant.
`PlainPrograms` is apart from it because a module that reaches a recursive operator
can hold no proof: its constants stay parameters, and its theorems speak of the
same properties that the run checks.

### PetersonLock

`pc[t]` says which access thread `t` makes next.  The `while` condition is two
actions, `LoadInterested` and `LoadVictim`, because `&&` evaluates its operands
one after the other.  `ReadCounter` and `WriteCounter` are the body of the loop,
`Unlock` is the drop of the guard, and `Finish` of thread 1 waits for thread 0 as
`join` does.  The refinement to `FifoLock` takes the swap of `victim` as the
moment of queueing: with both threads in the queue the victim is the last one.

`PetersonLockRA` keeps the history of writes of each location and, for each
thread, a *view*: the oldest write of each location it may still read.  A
`Release` store carries the view of its thread, an `Acquire` load takes it over,
a swap reads the last write, a `Relaxed` access moves the view of its own
location only.  This is the release-acquire model in which loads are not
performed early; a read of the counter that races with a write returns any
value the view allows.  `Fifo` maps it to `FifoLock` as `PetersonLock` does: a
thread queues when it swaps `victim`, the last write of which says who is last.

### LockfreeStack

Node addresses come from a finite set and are reused as soon as they are freed,
so that ABA can happen.  Local computation is merged with the neighbouring
access; so is what a thread does to memory nobody else knows (the link of a new
node in `PushLoad`, the value moved out of a popped node in `Take`).  `Resume` is
the drop of the `Pause` on each of the three ways out of its block.  `DeleteOne`
frees one node; `Exit`, `ExitWait` and `DeleteOne` are the destructor of the
thread-local queue, which exists only if the thread ever used it.  A thread ends
after `MaxOps` operations.

`Linearizable` maps the state to `AtomicStack`: the stack is the chain of
values from `top`, and an operation has had its effect once its
compare-and-swap succeeded or, for a pop, once it read a null `top`.

`LockfreeStackRelaxed` splits `Pause` and `Resume` from their neighbours: the load of
`top` may come before the increment (`LoadEarly`, `PauseLate`), and the decrement may
come before the read of `next` or the exchange (`ResumeEarly`, `NextLate`, `CASLate`).

### Raft

One action is one event.  `Tick` is `tick` of all servers with one time;
`FetchMessage`, `DuplicateMessage` and `DropMessage` take the front message of
any queue that is not empty, which is what the random index of `random_queue`
amounts to; `HandleMessage` is `apply_state`, the step to a later term and one
of four handlers.  `ServerCrash` is `restart`, which forgets everything.  A panic
(an index out of bounds or, in a debug build, an underflow) sets `panicked` and
ends the program; in a release build `usize` wraps at `UsizeMax`.  An
`Option<usize>` is a number, `None` being 0 and `Some(i)` being `i + 1`, which
keeps the order of the Rust type.  Left out is what no code reads:
`votes_responded`, `match_indices`, `leader_id` and `candidate_id`.

### Sequential programs

A program with state has one action per operation, or per turn of its loops
where something can be seen between two turns; a program that computes from an
input has one action that extends the input, and its functions are operators.
Fields of a struct keep their names.  Ghost fields, which no code reads, hold
what the caller expects.

| Module | How it corresponds to the code |
|---|---|
| `CuckooHashing` | `Displace` is one turn of `cuckoo_impl`; `Cuckoo`, `Undo` and `Placed` the two attempts of `cuckoo`; `StartRehash`, `RehashNext`, `RehashFailed` the rehash in place; `call` holds the locals.  A seed is the hash function it selects.  Ghosts: `dict`, the map; `tainted`, the keys spoilt by `insert` or `get_mut` |
| `HashArrayMappedTrie` | `Put` is the loop of `insert` with `GetOrInsertEntry`; a hash is its digits.  The `debug_assert!` at `hamt.rs:69` compares the digit and not its place with the number of entries, so a debug build may stop there; the release build is modelled |
| `TwoThreeTree` | `Insertion` is `Node::insert`, which returns `Consumed` or `Pushed`; `Insert` makes the new root |
| `DoublyLinkedList` | `next` owns, `prev` and `tail` are raw pointers; addresses are reused once freed |
| `RunningMedian` | `Feed` gives one value to the three algorithms; a heap is a bag with `peek`; `Turned` is a turn of the loop over the buckets, `Settled` the loop |
| `CircularQueue` | `head`, `tail` and an array one place longer than the capacity; `Length` with Haskell's `rem` |
| `DisjointSet` | `Halved` is a turn of the loop of `find`, which halves the paths it walks, `Find` the loop; `Merge` links by rank; `Connected` is two `Find`s |
| `StableMarriage` | `Propose` is one turn of the loop, by any free man |
| `MinCutKarger` | `Build` copies the graph, `Contract` merges the ends of any edge, `EndTrial` keeps the minimum |
| `BipartiteMatching` | `stack` is the recursion of `kuhn_dfs`, tried in any order of right vertices as after the shuffle; `Scan` and `NextRound` are the two loops |
| `SlidingPuzzle` | `AStarStep` expands one board, with either order of `Score`; `Expand` one board of a level of the bidirectional search, `EndLevel` swaps the sides |
| `StronglyConnectedComponent` | the three algorithms as recursive operators over the order of edges, which `add_edge` builds |
| `ShamirSecretSharing` | tables `exp` and `log` are built step by step; a byte is the set of its bits; `ShareSecret` picks any polynomial, `GiveShare` hands in any share |
| `BoyerMoore`, `StringMatchingWildcard` | the search for a pattern in a text that grows |
| `SuffixArray` | suffix array, `keyword_in_context` and the longest repeated substring; a text of code units, where surrogate pairs take two |
| `BurrowsWheelerTransform` | the transform, its inverse and `WrapStr::cmp` |
| `SuccinctTrie` | `EncodeNode` writes one node of the queue, `Freeze` flushes; `RankOf`, `SelectOf`, `ContainsKey` read the bits |
| `BabyStepGiantStep` | `ReadLine` chooses the input; `MulMod`, `ExpMod`, `BsgsPrime` on words that wrap at `2 ^ Width` |
| `SerialNumber` | `Advance` is `sn_add`; the caller remembers the distance covered |
| `CyclicRedundancyCheck` | division bit by bit, and the two tables; a word is the set of its bits |
| `OddEvenMergeSort`, `ShellSort` | the sorts, on zeros and ones |
| `KeyIndexedCounting`, `MergeIntervals`, `ClosestPair` | the functions, on a vector that grows; distances are squared and coordinates integers |

## Runs

| Run | Bounds | Shows |
|---|---|---|
| `peterson` | `N = 3` | mutual exclusion, exact counter, no starvation, refinement of `FifoLock` with its fairness |
| `peterson_ra` | `N = 3` | mutual exclusion and first come, first served (the refinement of `FifoLock`'s safety) under the orderings of the code; when a stale counter is possible at all |
| `peterson_ra_lost` | `N = 2` | **violated**: the assertion at the end of `main` |
| `stack` | 2 threads, 3 nodes, 2 values, 3 operations each | no use after free, no ABA, one owner per node, nothing left behind, linearizability, all threads end |
| `stack_relaxed` | 2 threads | **violated**: "This dereference is safe" |
| `raft_election` | 3 servers, debug, two elections, 1 crash, empty logs | what it takes to get a leader; a stuck cluster stays stuck through the next election |
| `raft_replication` | 2 servers, release, logs of 2, 3 crashes, 1 repetition | types through wrap-around and truncation, the count of the dispatcher, the order of terms |
| `raft_vote` | 3 servers | **violated**: a vote granted is recorded |
| `raft_commit` | 2 servers | **violated**: what is committed is in the log |
| `raft_log_matching` | 2 servers, 2 commands | **violated**: log matching |
| `sequential` | below | what each sequential program guarantees |
| `boyer_moore` | patterns of 4, texts of 6, letters a, b, c | **violated**: the first occurrence is found |

Why the bounds are enough.  The lock has two threads in the code as well; three
rounds let a thread pass the other one, come back and pass it again.  A use
after free or an ABA takes one thread inside `pop` and another one that pops,
frees and pushes the address again: two threads, three operations and fewer
nodes than pushes.  An election of three servers needs a quorum of two, hence one
crash.  The second tick of `raft_election` is a timeout of servers whose votes are already
spent, and after a crash the cluster is stuck again once that server has timed out;
logs stay empty there, so that none is a reason to refuse a vote.  Any number of
elections, crashes and repetitions is left to `StaysStuck` and `LeaderTakesCrashes`.
Two servers are the smallest cluster that replicates; there a log of two entries reaches the commit position and
three crashes reach a mismatch, a truncation and a wrapped index.  `MaxTime` and
the length of a tick bound the number of elections, `MaxLog` what clients ask,
`MaxCrashes` and `MaxDuplicates` what the environment does; the code has none of
these limits.

The bounds of `sequential`, program by program, and what each is there for:

| Program | Bounds | So that |
|---|---|---|
| cuckoo | 3 keys, 2 values, tables of 3, two hash functions | cycles, undo, failed rehash and a second one happen, without bound on the calls |
| trie | 5 keys, digits to depth 3 | two keys agree fully, others in two, one or no digits |
| tree | 9 elements | three levels, and splits that reach the root |
| list, queue | 4 addresses; capacity 3 | any length of history: the state space is finite without a bound on the calls |
| median | values 0 to 3, 6 of them | both heaps and the bucket move in both directions |
| sets | 5 elements, any merges | ranks 0 to 2 |
| matching, marriage | 3 and 3; all lists of the men, two opinions of the women | every graph; augmenting paths through two others; every order of proposals |
| cut | 4 vertices, weights 1 and 2, 2 trials | every connected graph |
| puzzle | all boards of side 2, four boards of side 3 | solvable and unsolvable; levels on both sides |
| components | 4 vertices, 4 edges | every order of adding them |
| shamir | field of 8 with n up to 3; tables of the field of 256 | any k shares of n; the field laws for the real field |
| search, wildcard | patterns of 4, texts of 6 and 5 | repeated suffixes, and stars between letters |
| suffixes, transform | texts of 6 and 8 | overlapping repeats, equal rotations; lengths 3 and 5 in `cmp` |
| succinct | bytes of 3 bits, words of 3 letters | nodes whose bits begin, fill and cross bytes |
| logarithm | words of 8 bits, moduli to 18, and 100 to 255 in `mul_mod` | moduli whose square does and does not fit |
| serial, check | 16 numbers; bytes of 2 bits, words of 4 | every pair; every datum of four bytes |
| network, shell | 8 and 11 zeros and ones | four lengths of the network; ten is the least length with a gap above 1 |
| counting, intervals, pair | 5 keys; 3 intervals; 5 of 6 points | ties, nesting, equal coordinates and coincident points |

The 0-1 principle (a network that sorts all vectors of zeros and ones sorts all
vectors) makes the run of `OddEvenMergeSort` complete for its lengths; for
`ShellSort` it holds because each pass sorts the values that are a gap apart, which
commutes with every monotone map of the values.

Fairness.  `PetersonLock` and `LockfreeStack` assume that the operating system
runs every thread (weak fairness of each thread's next step); `yield_now` is
given no effect.  Each thread of the stack performs finitely many operations,
as in the test of the crate; with threads that push for ever a single `push`
may fail for ever, and `AllExit` is not claimed.  `Raft` has no fairness: its
events are random and one of them is a crash.

`CHECK_DEADLOCK FALSE` appears where the program really ends: the threads exit,
or the bound on time and a panic stop the simulator, the puzzle is solved, or
the input has its longest length.  The sequential programs have no fairness and
no liveness: nothing in them waits.

## What the code does not do as its comments say

* `peterson_lock.rs:47` loads `victim` with `Relaxed`.  A thread let in by the
  other one becoming the victim has not synchronised with the unlock before and
  may read an old counter: `assert_eq!(n, N * 2)` can fail.  The same run shows
  that mutual exclusion itself holds, and that leaving the loop through
  `interested` is safe.
* `garbage_queue.rs:8` increments `PAUSE_COUNT` with `Relaxed`.  The load of `top`
  may come first, and the node may be freed in between.
* `server.rs:267` grants a vote and does not set `voted_for`.
* `server.rs:249` takes a next index for a commit index, one too far, at a
  position counted in log entries.  `apply_state` then panics.
* `server.rs:278` counts a vote of an earlier term.  Two leaders of one term
  follow, and logs that differ at the same index and term.

* `bm.rs:166` skips the whole pattern on a letter that is not in it, wherever the
  mismatch was, and `bm.rs:182` reads the other table one place off.  The search
  misses occurrences.  Its run also shows that what it reports is an occurrence,
  and that it is right when the last letter of the pattern occurs only there.

Other limits of the code have no comment that denies them.  The properties say
exactly where they lie:

* `CuckooHashing`: `insert` of a key that was displaced to the second table stores
  it again, so `remove` brings the old value back, and `get_mut` does not compare keys
  (`Faithful` speaks of the other keys).
* `HashArrayMappedTrie`: a key is lost when a later one meets its leaf and has the same
  next digit; `len` still counts it (`TriesFaithful`).
* `SuccinctTrie`: a word that is a prefix of another one is lost, and the empty trie
  contains the empty word (`TriesFaithful`).
* `CircularQueue`: `length` is negative once the tail alone has wrapped around
  (`QueuesExact`).
* `SuffixArray`: `keyword_in_context` slices past the end of the text when the context
  is longer than what follows; the longest repeated substring may end in half a
  surrogate pair, and the `unwrap` panics (`TextFound`).
* `StringMatchingWildcard`: the empty pattern matches every text (`TextFound`).
* `ShamirSecretSharing`: a share that comes in twice divides by zero; k - 1 shares,
  if reconstruction is forced, give any byte but the secret, because the polynomial is
  monic (`SecretShared`).
* `BabyStepGiantStep`: products wrap around when the square of the modulus does not
  fit in a word (`LogarithmLeast`).
* `BurrowsWheelerTransform`: `WrapStr::cmp` may say `Equal` of unequal words of lengths 3
  and 5; the transform compares equal lengths only (`InverseAgrees`).
* `ClosestPairOfPoints`: the slices are merged in the order of x, not of y, so the
  loop over the strip does not stop early; the result is right (`VectorsRight`).
* `OddEvenMergeSort`: `odd_even_merge_top_down` does not return for one element.
* `CyclicRedundancyCheck`: the comment at `crc.rs:45` calls the reversed polynomial
  "MSBit-first".
* `RunningMedian`: `prop_two_heaps` compares the first algorithm with itself, and
  `prop_quantized` passes a range that excludes the value 255.
* `SlidingPuzzle`: the blank of `Board::default` is position 8 whatever `N`.

## Proofs

All proofs hold for every value of the constants, under the `ASSUME`s of the
modules (`N \in Nat`; finitely many threads and nodes; a positive number of servers,
natural timeouts and ticks, either build, any bounds) or, for `CuckooHashing`, under
`CapAssumption` and `HashesAssumption` as hypotheses of the theorems: at least two slots a
table, and seeds that select a slot for every key.  TLC evaluates all of them.

`PetersonLockProofs`.  `MutualExclusionHolds` and `CounterIsExact` rest on an
inductive invariant: `interested` is set exactly while a thread is between its
store and its release; while one thread holds the lock the other one, if it has
swapped, is the victim and only waits; a thread that waits with nobody else past
the swap is the victim;
the counter is the sum of the rounds and of the increments done but
not yet unlocked, and the holder's `old_cnt` is the counter.  `CounterExact`
alone is not inductive: it says nothing until the end.  `RefinesFifoLock` maps
every step to a step of `FifoLock` or a stutter.

`RaftProofs`.  `TypeCorrect` goes through every handler.  The lemmas it needs say
that a sorted `next_indices` has a value at each position (`KthType`), for which
an upper bound and a least element of a set of numbers are found by way of a
minimal counterexample (`Bounded`, `LeastNat`), since the induction theorems of the
library take a predicate.  `LeaderTakesCrashes` (there is no leader unless all but one server
of a quorum have crashed) and `StaysStuck` (a cluster without a leader or a
vote to give gets none until a crash) rest on `ElectionInv`: until the first
timeout nothing is sent (`Quiet`); after it, who has not crashed has voted for
itself (`VoteSpent`); a queue holds a granted vote only if its sender crashed
(`QueueSound`); and a candidate's votes are its own and those of crashed servers
(`VotesFromCrashed`).  Neither statement is inductive alone: a leader is made by
messages that were sent before.  `Handled` is what all handlers have in common
for an election, so that each handler is looked at once and the invariants argue
from `Handled`.

`RaftProofs`, on terms.  `EntriesBounded` (no entry of a log or a message is of a later
term than the server it is with) and `SentInOrder` (what a server sent waits in the
order of its terms) rest on `TermsInv`: `ElectionInv` for the types and the quiet start,
the two properties themselves, and `OfficeTerm`, that a candidate or leader has left
term 0.  The two need each other: a handler copies entries from a message, whose
term bounds them, into the log of a server, which has just taken that term over, and
a leader sends them on under its own.  A crash puts the term back to 0, and with it
the log and the queue.  `TermsHandled` says what all handlers do to terms, once for
each handler, and `TermsMove` argues from it.  `DispatcherCounts` needs the number of
messages as a sum over the queues, which the dispatcher keeps by increments; the sum is
shown to be the cardinality of the set of places in the queues (`SumIsPlaces`), which have
no order, by a minimal counterexample among the sets of servers (`ServerInduction`).

`PetersonLockRAProofs`.  With views a thread can read an old value, so what it has read
says nothing by itself.  `RAInv` says which writes a thread can still read: its own
interest is up to date (`Entered`); the last write of `victim` carries the interest of
who wrote it (`LastVictim`); so the second of two threads to swap has acquired the
interest of the first, and can leave the loop only through `victim`, which the swap keeps
at itself (`VictimWaits`).  That gives mutual exclusion.  For the counter, `Synchronised`
says that every 0 of `interested` a thread can read is either in its view with the last
counter or carries it, hence `ReadingFalseSynchronises`; and `Invited` says that a
thread that left the loop otherwise owes it to the other thread, which is queued
behind it, hence `StaleIsInvited`.  Nothing stronger holds: the run `peterson_ra_lost` shows
the stale counter.  `RefinesFifoLockRA`: the stale counter does not disturb the order, because the
swap reads the last write of `victim`; a thread leaves the loop only at the head of the queue of
those who swapped.

`LockfreeStackProofs`.  `StackInv` is the types, that `PAUSE_COUNT` is the number of threads
that hold a `Pause`, and that for some sequence of nodes `b[1]` to `b[d]`, bottom first:
they are linked from `top` to null without repetition (`Shape`); each allocated node is on
the stack, or in one place of one garbage queue, or new or popped in the hands of one
thread (`Ownership`); a node that a thread inside `pop` follows is on the stack, or was popped by a thread that
is not deleting, and the links read are still those of the nodes (`Pointers`);
and nodes have their values (`Values`).  `NoUseAfterFree` alone is not inductive, because
it looks only at the next access: that nobody frees the node follows from the
place it is in, from the `Pause` counted, and from the garbage queue having been looked at
when the count was one.  The chain of links is a recursive function of the stack; giving
the sequence of nodes as a witness and stepping it by hand replaces induction (`Walk`,
`Down`).  The threads and the nodes are assumed finite (`FiniteAssumption`), as in any
program, because the count is a cardinality.

`StackIsLinearizable`, in the same module: with that witness the mapped stack is the
sequence of values of the nodes, and every step is a step of `AtomicStack` or a stutter.
A successful exchange is the atomic push or pop, which needs `NoABA`; the read of a null
`top` is the empty pop; the steps after a pop keep the value it will return.

`CuckooHashingProofs`.  `CuckooInv` holds for any keys, capacity and set of hash functions.
The *contents* are the slots of both tables, the entry in hand and the entry set aside
while a rehash runs; a displacement swaps two of these places, which changes neither
what is stored (`Exact`) nor how many entries there are (`Counted`).  `MapIsFaithful` follows when no call is
under way, and fails for a key once `insert` or `get_mut` has spoilt it, as above.
`GivingUpRestores` needs the history of a call: `Reversible` says there is a *trail* of
positions from the start of the first attempt to its end, each one turn of
`cuckoo_impl` after the one before, and that the second attempt stands at the mirror place of that
trail.  One turn is its own inverse with the tables exchanged, so the second attempt
comes back to the start.  `VacancyLeft` (the `unreachable!()` of `find_vacancy` is not reached)
follows from `Counted`, because `n_elements` is at most the number of slots and one entry
is in hand.

`PlainProgramsProofs`, `PlainRecursionProofs` and `MinCutKargerProofs`, under `PlainAssumption` (capacity and sizes natural
numbers; `Nil` is no address; finitely many elements of the disjoint sets; a positive range of
values for the medians; a graph of finitely many vertices, two at least, and positive weights (lines
give every edge the weight 1); a man's list names every woman once, and a woman ranks no two men alike):

* `SerialDistance`: the new number is the old one plus the distance, less at most one turn
  (`SerialInv`).
* `QueuesInOrder`: for the circular queue, `QueueInv` says that the values expected lie in the
  array from `head` on, wrapped around; for the list, `ListInv` says that `next` and `prev`
  follow the sequence of addresses `order`, without repetition.
* `MatchingsBestOfAll`, for marriages: each man not free has one woman (`Couples`), none
  before her on his list would have him (`NoneBetter`), and no woman is engaged to a man she
  likes better than her husband in any stable matching (`Pessimal`).  The last part
  is what makes the men's optimality inductive: each proposal refused in favour of
  another one would otherwise have to be followed back through earlier ones.
* `MatchingsBestOfAll`, for Kuhn's algorithm: the stack of `kuhn_dfs` is an alternating path
  (`AlternatingPath`), so that an augmentation keeps the matching mutual (`PathTurned`);
  while a scan finds nothing, every edge of a node seen leads to a node seen or is
  still to be tried (`Explored`); nodes passed are matched or seen (`Scanned`).  At the end
  every unmatched left node has been seen, so the left nodes not seen and the right
  nodes matched to seen ones are as many as the matching and cover every edge (`Koenig`),
  and no matching is larger than a cover.
* `RootsTellClasses`: `SetsInv` says that classes part the elements (`Partitioned`), that a link
  stays in its class and leads to a higher rank (`Climbing`), that a class has one root (`OneRoot`), and that ranks are less than the size of the
  class, a root of rank r having 2^r elements in its class (`Low`).  That is why `Find` ends at
  a root: a turn that is not at a root moves to a higher rank, and no rank reaches the
  number of elements, which bounds the turns.
* `MediansAllAgree`: `MedianInv` says that the vector is sorted (`Sorted`), that the buckets
  count it (`Counts`), that the heaps part it at the median (`Parted`, `Makes`), and that `sum_m`
  counts the values below the bucket.  All three answers have at most half of the values below
  them and more than half up to them (`IsMedian`), and there is one such value (`OneMedian`).  The loop over the buckets
  is shown to settle by the sequence of its positions, given explicitly (`Settles`).
* `CutsAreReported`: `CutInv` says that the graph read and the clone `Stand` for the input: for
  adjacency lists in which each edge is in two lists and none is a loop (`Paired`), with `n_edges`
  half their length together (`Halved`), the vertices left stand for disjoint groups of vertices
  (`Grouped`), and between two of them the lists weigh what the input has between their groups (`Merged`).
  `Quotient` alone is not inductive: that a contraction may leave the list of a vertex as it is
  needs the edge counted in both lists, and the graph cloned has to be known as well as the clone.
  `Meets` says what a contraction does to the numbers and weights of edges between any two vertices; the
  order of a list never enters, because a list is known by sums along it (`Tally`).

The loops of the disjoint sets and the medians are recursive functions over the number of turns,
and those over adjacency lists go along the list.
A recursive function is a `CHOOSE`, which has its defining equation once some function has it;
that function is exhibited.  What is then said of every turn is proved for the set of the numbers of which
it holds: a set that has 0 and, with a number, its successor has every number (`UpTo`).  This needs no
predicate as a parameter, which is what the provers cannot instantiate.

The inductive invariants were model-checked before they were proved.

What stays with TLC, and why:

* Liveness and `ENABLED`, which the prover does not do: `StarvationFree`, `AllExit`, the
  fairness of `ImplementsFifoLock` (its safety is `RefinesFifoLock`).
* What rests on recursive operators, in a module that can hold no proof:
  `TriesFaithful`, `TreeIsSet`, `SearchesExact`, `LogarithmLeast`, and the parts of `TextFound` and `VectorsRight` about `BoyerMoore`,
  `StringMatchingWildcard`, `OddEvenMergeSort`, `ShellSort` and `ClosestPair`.
* What is an induction over the length of an input, which the provers cannot instantiate:
  `SecretShared` (tables and polynomials of any field), `InverseAgrees` (any text, any datum),
  and the rest of `TextFound` and `VectorsRight`.
* Not proved yet, and within reach: the types of the programs of `PlainPrograms` as a part of `TypeOK`.
* What is violated (`peterson_ra_lost`, `stack_relaxed`, the three of `Raft`, `boyer_moore`): TLC's
  counterexamples are the result.

## Not modelled

* Floating point, which TLA+ does not have: the numerical programs, the geometry
  (`RayTracer`, `ConvexHull`), the quantization of `f32` in `KeyIndexedCounting`, the
  rounding in `ClosestPairOfPoints`, the square root and logarithm of
  `BabyStepGiantStep` and `MinCutKarger` beyond their integer values.
* Probability: `ReservoirSampling`, `HyperLogLog`, `MonteCarloTreeSearch`, the chance that
  Karger's algorithm finds the minimum, the secrecy of a share.
* Number theory in large fields: `EllipticCurve`, `RingSignature`, `TimeLockPuzzle`.
* Puzzles of one function each (`MISC`, the small combinatorial programs, dynamic
  programming), where a test over short inputs does the same as TLC.
* Programs in Haskell, F#, Julia, Clojure and C++ beyond the three above.  `PairingHeap`,
  `SplayTree`, `FenwickTree`, `SegmentTree`, `DancingLinks` and `LossyCounting` would be next.
* Input and output, printing, and the tests' generators.
* Of `LockfreeStack`: a value with a destructor, and nodes left on a stack that is
  dropped.  An unbounded garbage queue takes an unbounded run.

## Plan

Left to prove, in this order:

1. The types of the programs of `PlainPrograms`, from the invariants there are.
2. `KeyIndexedCounting` and `MergeIntervals`, if their folds can be put as cardinalities.
3. In `Raft`, what holds of logs for all crashes: that a message never promises an entry its
   sender did not have.
