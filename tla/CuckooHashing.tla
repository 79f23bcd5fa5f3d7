----------------------------- MODULE CuckooHashing -----------------------------
(***************************************************************************)
(* CuckooHashMap of CuckooHashing/src/lib.rs: two tables, every key at its  *)
(* slot of one of them.  An insertion is modelled one displacement at a     *)
(* time, with the attempt that puts everything back and the rehash in place.*)
(* A seed is represented by the hash function it selects: distinct seeds    *)
(* may well select the same one.                                            *)
(***************************************************************************)
EXTENDS Integers, FiniteSets

CONSTANTS Keys, Values,
          Cap,            \* capacity: the length of each table
          Hashes          \* the functions [Keys -> 0..Cap - 1] a seed may select

CapAssumption == Cap \in Nat \ {0, 1}
HashesAssumption == Hashes # {} /\ Hashes \subseteq [Keys -> 0 .. Cap - 1]

VARIABLES seeds, tables, n_elements,
          call,           \* the locals of the insertion in progress
          dict,           \* ghost: the set of the value stored last under a key, or {}
          tainted         \* ghost: keys whose entry another call has spoilt

vars == <<seeds, tables, n_elements, call, dict, tainted>>

None == <<>>                                  \* Option::None; Some(kv) is <<key, value>>
Entry == {None} \cup (Keys \X Values)
Slots == 0 .. Cap - 1

\* cycle_threshold: the ceiling of log2 of the capacity, which is the number of
\* powers of two below it.
Threshold == Cardinality({n \in 0 .. Cap : 2 ^ n < Cap})

IsAt(k, t) == LET e == tables[t][seeds[t][k]] IN e # None /\ e[1] = k
Occupied == {p \in (0 .. 1) \X Slots : tables[p[1]][p[2]] # None}
\* get(): the set of the value found, the first table first.
Lookup(k) == {tables[t][seeds[t][k]][2] :
                t \in {u \in 0 .. 1 : IsAt(k, u) /\ (u = 1 => ~IsAt(k, 0))}}

Idle == [mode |-> "idle", hand |-> None, t |-> 0, n_loops |-> 0,
         cursor |-> 0, pending |-> None, saved |-> <<>>]

Init ==
  /\ seeds \in [0 .. 1 -> Hashes]
  /\ tables = [t \in 0 .. 1 |-> [i \in Slots |-> None]]
  /\ n_elements = 0
  /\ call = Idle
  /\ dict = [k \in Keys |-> {}]
  /\ tainted = {}

\* cuckoo() called with kv: its first cuckoo_impl() starts at the first table.
Cuckoo(kv) == [Idle EXCEPT !.mode = "insert", !.hand = kv, !.n_loops = Threshold,
                           !.saved = <<kv, tables>>]

\* insert(): only the first table is searched for the key.  A map with
\* n_elements = 2 * Cap panics instead.
Insert(k, v) ==
  /\ call.mode = "idle" /\ n_elements < 2 * Cap
  /\ IF IsAt(k, 0)
     THEN /\ tables' = [tables EXCEPT ![0][seeds[0][k]] = <<k, v>>]
          /\ UNCHANGED <<n_elements, call, tainted>>
     ELSE /\ n_elements' = n_elements + 1
          /\ call' = Cuckoo(<<k, v>>)
          /\ tainted' = IF IsAt(k, 1) THEN tainted \cup {k} ELSE tainted
          /\ UNCHANGED tables
  /\ dict' = [dict EXCEPT ![k] = {v}]
  /\ UNCHANGED seeds

\* One turn of the loop of cuckoo_impl(): the entry in hand takes its slot and
\* the one it displaces is next, in the other table.
Displace ==
  /\ call.hand # None /\ call.n_loops > 0
  /\ LET i == seeds[call.t][call.hand[1]]
         old == tables[call.t][i]
     IN /\ tables' = [tables EXCEPT ![call.t][i] = call.hand]
        /\ call' = [call EXCEPT !.hand = old, !.n_loops = @ - 1,
                                !.t = IF old = None THEN @ ELSE 1 - @]
  /\ UNCHANGED <<seeds, n_elements, dict, tainted>>

\* insert() returns: an attempt of cuckoo() found a free slot.
Placed ==
  /\ call.mode \in {"insert", "undo"} /\ call.hand = None
  /\ call' = Idle
  /\ UNCHANGED <<seeds, tables, n_elements, dict, tainted>>

\* Mutant: the second attempt starts at the table the first one stopped at.
Undo_SameTable ==
  /\ call.mode = "insert" /\ call.hand # None /\ call.n_loops = 0
  /\ call' = [call EXCEPT !.mode = "undo", !.n_loops = Threshold]
  /\ UNCHANGED <<seeds, tables, n_elements, dict, tainted>>

\* cuckoo(): the first attempt reached the threshold, the second runs it backwards.
Undo ==
  /\ call.mode = "insert" /\ call.hand # None /\ call.n_loops = 0
  /\ call' = [call EXCEPT !.mode = "undo", !.t = 1 - @, !.n_loops = Threshold]
  /\ UNCHANGED <<seeds, tables, n_elements, dict, tainted>>

Reseed == seeds' \in [0 .. 1 -> Hashes]

\* Mutant: the entry cuckoo() gave back is forgotten.
StartRehash_Lost ==
  /\ call.mode = "undo" /\ call.hand # None /\ call.n_loops = 0
  /\ Reseed
  /\ call' = [Idle EXCEPT !.mode = "rehash"]
  /\ UNCHANGED <<tables, n_elements, dict, tainted>>

\* insert() calls rehash() with the entry cuckoo() gave back set aside.
StartRehash ==
  /\ call.mode = "undo" /\ call.hand # None /\ call.n_loops = 0
  /\ Reseed
  /\ call' = [Idle EXCEPT !.mode = "rehash", !.pending = call.hand]
  /\ UNCHANGED <<tables, n_elements, dict, tainted>>

\* Mutant: only the first table is scanned.
Misplaced_FirstTable(c) == c < Cap /\ tables[0][c] # None /\ seeds[0][tables[0][c][1]] # c

\* Position c of the scan of rehash_impl() is slot c % Cap of table c \div Cap.
Misplaced(c) == LET e == tables[c \div Cap][c % Cap]
                IN e # None /\ seeds[c \div Cap][e[1]] # c % Cap

\* rehash_impl(): take out the next misplaced entry, and place it again with as
\* many displacements as there are elements; at the end, insert() tries again.
RehashNext ==
  /\ call.mode = "rehash" /\ call.hand = None
  /\ \/ \E c \in call.cursor .. 2 * Cap - 1 :
          /\ Misplaced(c) /\ \A b \in call.cursor .. c - 1 : ~Misplaced(b)
          /\ tables' = [tables EXCEPT ![c \div Cap][c % Cap] = None]
          /\ call' = [call EXCEPT !.hand = tables[c \div Cap][c % Cap], !.t = c \div Cap,
                                  !.n_loops = n_elements, !.cursor = c + 1]
     \/ /\ \A c \in call.cursor .. 2 * Cap - 1 : ~Misplaced(c)
        /\ call' = Cuckoo(call.pending)
        /\ UNCHANGED tables
  /\ UNCHANGED <<seeds, n_elements, dict, tainted>>

\* rehash_impl() fails: the entry in hand goes to the first vacancy, and
\* rehash() starts again with other seeds.
RehashFailed ==
  /\ call.mode = "rehash" /\ call.hand # None /\ call.n_loops = 0
  /\ \E c \in 0 .. 2 * Cap - 1 :
       /\ tables[c \div Cap][c % Cap] = None
       /\ \A b \in 0 .. c - 1 : tables[b \div Cap][b % Cap] # None
       /\ tables' = [tables EXCEPT ![c \div Cap][c % Cap] = call.hand]
  /\ Reseed
  /\ call' = [call EXCEPT !.hand = None, !.cursor = 0]
  /\ UNCHANGED <<n_elements, dict, tainted>>

\* get_mut() and a write through what it returns: the entry at either slot of
\* the key, whatever its own key is.
GetMut(k, v) ==
  /\ call.mode = "idle"
  /\ \E t \in 0 .. 1 :
       LET i == seeds[t][k] IN
       /\ tables[t][i] # None /\ (t = 1 => tables[0][seeds[0][k]] = None)
       /\ tables' = [tables EXCEPT ![t][i][2] = v]
       /\ tainted' = IF tables[t][i][1] = k THEN tainted
                     ELSE tainted \cup {tables[t][i][1]} \cup {x \in {k} : dict[k] # {}}
  /\ dict' = [dict EXCEPT ![k] = IF @ = {} THEN {} ELSE {v}]
  /\ UNCHANGED <<seeds, n_elements, call>>

\* remove(): the first copy found goes, and only that one.
Remove(k) ==
  /\ call.mode = "idle"
  /\ \E t \in 0 .. 1 :
       /\ IsAt(k, t) /\ (t = 1 => ~IsAt(k, 0))
       /\ tables' = [tables EXCEPT ![t][seeds[t][k]] = None]
       /\ tainted' = IF t = 0 /\ IsAt(k, 1) THEN tainted ELSE tainted \ {k}
  /\ n_elements' = n_elements - 1
  /\ dict' = [dict EXCEPT ![k] = {}]
  /\ UNCHANGED <<seeds, call>>

Next ==
  \/ \E k \in Keys, v \in Values : Insert(k, v) \/ GetMut(k, v)
  \/ \E k \in Keys : Remove(k)
  \/ Displace \/ Placed \/ Undo \/ StartRehash \/ RehashNext \/ RehashFailed

Spec == Init /\ [][Next]_vars

--------------------------------------------------------------------------------
CuckooTypeOK ==
  /\ seeds \in [0 .. 1 -> Hashes]
  /\ tables \in [0 .. 1 -> [Slots -> Entry]]
  /\ n_elements \in 0 .. 2 * Cap
  /\ call.mode \in {"idle", "insert", "undo", "rehash"}
  /\ call.hand \in Entry /\ call.pending \in Entry
  /\ call.t \in 0 .. 1 /\ call.n_loops \in 0 .. 2 * Cap /\ call.cursor \in 0 .. 2 * Cap
  /\ dict \in [Keys -> SUBSET Values] /\ tainted \subseteq Keys

\* Every entry sits in the slot its hash selects, except those a rehash has not
\* reached yet: displacing entries to the other table during the scan never
\* leaves one behind the scan in a wrong slot.
Home ==
  \A t \in 0 .. 1, i \in Slots :
    /\ tables[t][i] # None
    /\ call.mode = "rehash" => t * Cap + i < call.cursor
    => seeds[t][tables[t][i][1]] = i

\* When cuckoo() gives up, its second pass has put every entry back, and gives
\* back the entry it was passed (the comments at lines 121 and 130): it never
\* stops half way at a free slot.
UndoRestores ==
  call.mode = "undo" /\ call.n_loops = 0 => <<call.hand, tables>> = call.saved

\* No entry is lost or doubled by displacements, undo, failed rehashes and
\* retries, so a vacancy is always left for find_vacancy(); and between calls
\* the map answers what was stored last under every key, except under those a
\* call spoilt: an insert() while the entry was in the second table, or a
\* get_mut() of another key with a slot in common.
Faithful ==
  /\ n_elements = Cardinality(Occupied)
                  + Cardinality({f \in {"hand", "pending"} : call[f] # None})
  /\ call.mode = "idle" => \A k \in Keys \ tainted : Lookup(k) = dict[k]
================================================================================
