------------------------- MODULE CuckooHashingProofs -------------------------
(***************************************************************************)
(* Proofs about CuckooHashing for any keys and values, any capacity and    *)
(* any hash functions the seeds may select: every entry is at home, an     *)
(* attempt given up puts everything back, and the map answers what was     *)
(* stored last, whatever displacements and rehashes an insertion took.     *)
(***************************************************************************)
EXTENDS CuckooHashing, FiniteSetTheorems, TLAPS

(***************************************************************************)
(* The contents of the map: what is in the slots of the tables, in hand,   *)
(* and set aside by insert() while rehash() runs.  Displacing an entry, and *)
(* every other step within a call, swaps the contents of two places.       *)
(***************************************************************************)

InHand == <<2, 0>>
Aside == <<3, 0>>
Place == ((0 .. 1) \X Slots) \cup {InHand, Aside}

ContentsOf(tb, hand, pending) ==
    [p \in Place |-> IF p = InHand THEN hand
                     ELSE IF p = Aside THEN pending ELSE tb[p[1]][p[2]]]

Contents == ContentsOf(tables, call.hand, call.pending)

Filled(c) == {p \in Place : c[p] # None}

Has(e, k) == e # None /\ e[1] = k

\* Under a key no call has spoilt there is one entry, with the value stored
\* last, or none.
ExactFor(c, d, k) ==
    /\ \A p \in Place : Has(c[p], k) =>
         d[k] = {c[p][2]} /\ \A q \in Place : Has(c[q], k) => q = p
    /\ d[k] # {} => \E p \in Place : Has(c[p], k)

Swapped(c, e, p, q) ==
    /\ e \in [Place -> Entry] /\ p \in Place /\ q \in Place
    /\ e[p] = c[q] /\ e[q] = c[p]
    /\ \A r \in Place : r # p /\ r # q => e[r] = c[r]

Tables == [0 .. 1 -> [Slots -> Entry]]

\* No place is two places, and the contents are entries.
LEMMA Places ==
    /\ InHand \in Place /\ Aside \in Place /\ InHand # Aside
    /\ \A t \in 0 .. 1, i \in Slots : /\ <<t, i>> \in Place
                                     /\ <<t, i>> # InHand /\ <<t, i>> # Aside
    /\ \A p \in Place : p = InHand \/ p = Aside \/ \E t \in 0 .. 1, i \in Slots : p = <<t, i>>
    /\ \A t, u \in 0 .. 1, i, j \in Slots : <<t, i>> = <<u, j>> <=> t = u /\ i = j
  BY DEF InHand, Aside, Place

LEMMA ContentsAt ==
    ASSUME NEW tb \in Tables, NEW hand \in Entry, NEW pending \in Entry
    PROVE  LET c == ContentsOf(tb, hand, pending) IN
           /\ c \in [Place -> Entry] /\ c[InHand] = hand /\ c[Aside] = pending
           /\ \A t \in 0 .. 1, i \in Slots : c[<<t, i>>] = tb[t][i]
<1> DEFINE c == ContentsOf(tb, hand, pending)
<1>1. c[InHand] = hand /\ c[Aside] = pending
  BY Places DEF ContentsOf
<1>2. ASSUME NEW t \in 0 .. 1, NEW i \in Slots PROVE c[<<t, i>>] = tb[t][i]
  BY Places DEF ContentsOf
<1>3. ASSUME NEW p \in Place PROVE c[p] \in Entry
  <2>1. CASE p = InHand \/ p = Aside
    BY <1>1, <2>1
  <2>2. ASSUME NEW t \in 0 .. 1, NEW i \in Slots, p = <<t, i>> PROVE c[p] \in Entry
    BY <1>2, <2>2 DEF Tables
  <2> QED
    BY <2>1, <2>2, Places
<1>4. c \in [Place -> Entry]
  BY <1>3 DEF ContentsOf
<1> QED
  BY <1>1, <1>2, <1>4

\* The places are finitely many.
LEMMA PlacesFinite ==
    ASSUME CapAssumption, NEW c
    PROVE  /\ IsFiniteSet(Filled(c)) /\ Cardinality(Filled(c)) \in Nat
           /\ IsFiniteSet((0 .. 1) \X Slots) /\ Cardinality((0 .. 1) \X Slots) = 2 * Cap
<1>1. IsFiniteSet(0 .. 1) /\ Cardinality(0 .. 1) = 2
  <2>1. 0 \in Int /\ 1 \in Int
    OBVIOUS
  <2>2. IsFiniteSet(0 .. 1) /\ Cardinality(0 .. 1) = IF 0 > 1 THEN 0 ELSE 1 - 0 + 1
    BY <2>1, FS_Interval
  <2> QED
    BY <2>2
<1>2. IsFiniteSet(Slots) /\ Cardinality(Slots) = Cap
  BY FS_Interval DEF Slots, CapAssumption
<1>3. IsFiniteSet((0 .. 1) \X Slots) /\ Cardinality((0 .. 1) \X Slots) = 2 * Cap
  BY <1>1, <1>2, FS_Product
<1>4. IsFiniteSet({InHand, Aside})
  <2>1. IsFiniteSet({InHand}) /\ IsFiniteSet({Aside})
    BY FS_Singleton
  <2>2. {InHand, Aside} = {InHand} \cup {Aside}
    OBVIOUS
  <2> QED
    BY <2>1, <2>2, FS_Union
<1>5. IsFiniteSet(Place)
  BY <1>3, <1>4, FS_Union DEF Place
<1>6. Filled(c) \in SUBSET Place
  BY DEF Filled
<1>7. IsFiniteSet(Filled(c)) /\ Cardinality(Filled(c)) \in Nat
  BY <1>5, <1>6, FS_Subset, FS_CardinalityType
<1> QED
  BY <1>3, <1>7

\* A swap loses nothing and doubles nothing.
LEMMA SwapKeeps ==
    ASSUME CapAssumption, NEW c \in [Place -> Entry], NEW e, NEW p, NEW q,
           Swapped(c, e, p, q)
    PROVE  /\ Cardinality(Filled(e)) = Cardinality(Filled(c))
           /\ \A d, k : ExactFor(c, d, k) => ExactFor(e, d, k)
<1>1. /\ e \in [Place -> Entry] /\ p \in Place /\ q \in Place
      /\ e[p] = c[q] /\ e[q] = c[p]
      /\ \A r \in Place : r # p /\ r # q => e[r] = c[r]
  BY DEF Swapped
<1>2. ASSUME NEW d, NEW k, ExactFor(c, d, k) PROVE ExactFor(e, d, k)
  <2> DEFINE Other(r) == IF r = p THEN q ELSE IF r = q THEN p ELSE r
  <2>1. \A r \in Place : Other(r) \in Place /\ e[r] = c[Other(r)] /\ c[r] = e[Other(r)]
    BY <1>1
  <2>2. \A r, s \in Place : Other(r) = Other(s) => r = s
    OBVIOUS
  <2> HIDE DEF Other
  <2> QED
    BY <1>2, <2>1, <2>2 DEF ExactFor
<1>3. Cardinality(Filled(e)) = Cardinality(Filled(c))
  <2>1. IsFiniteSet(Filled(c)) /\ IsFiniteSet(Filled(e))
        /\ Cardinality(Filled(c)) \in Nat /\ Cardinality(Filled(e)) \in Nat
    BY PlacesFinite
  <2>2. CASE (c[p] = None) <=> (c[q] = None)
    <3>1. Filled(e) = Filled(c)
      BY <1>1, <2>2 DEF Filled
    <3> QED
      BY <3>1
  <2>3. ASSUME NEW a \in Place, NEW b \in Place, c[a] # None, c[b] = None,
               e[a] = None, e[b] # None,
               \A r \in Place : r # a /\ r # b => e[r] = c[r]
        PROVE  Cardinality(Filled(e)) = Cardinality(Filled(c))
    <3>1. Filled(c) \ {a} = Filled(e) \ {b} /\ a \in Filled(c) /\ b \in Filled(e)
      BY <2>3 DEF Filled
    <3>2. Cardinality(Filled(c) \ {a}) = Cardinality(Filled(c)) - 1
      BY <2>1, <3>1, FS_RemoveElement
    <3>3. Cardinality(Filled(e) \ {b}) = Cardinality(Filled(e)) - 1
      BY <2>1, <3>1, FS_RemoveElement
    <3> QED
      BY <2>1, <3>1, <3>2, <3>3
  <2>4. CASE c[p] # None /\ c[q] = None
    BY <1>1, <2>3, <2>4
  <2>5. CASE c[p] = None /\ c[q] # None
    BY <1>1, <2>3, <2>5
  <2> QED
    BY <2>2, <2>4, <2>5
<1> QED
  BY <1>2, <1>3

(***************************************************************************)
(* The inductive invariant                                                 *)
(***************************************************************************)

Call == [mode : {"idle", "insert", "undo", "rehash"}, hand : Entry, t : 0 .. 1,
         n_loops : 0 .. 2 * Cap, cursor : 0 .. 2 * Cap, pending : Entry,
         saved : {<<>>} \cup (Entry \X Tables)]

Typed == CuckooTypeOK /\ call \in Call

\* What an insertion holds beside the tables: an entry is set aside while
\* rehash() runs, and only then.
Modes ==
    /\ call.mode = "idle" => call.hand = None
    /\ call.mode = "rehash" <=> call.pending # None

AllHome(tb) == \A t \in 0 .. 1, i \in Slots :
    tb[t][i] # None => seeds[t][tb[t][i][1]] = i

Position == [hand : Entry, tables : Tables, t : 0 .. 1]

\* One turn of the loop of cuckoo_impl() from x to y.
Turn(x, y) ==
    LET i == seeds[x.t][x.hand[1]] IN
    /\ x.hand # None
    /\ y.hand = x.tables[x.t][i]
    /\ y.tables = [x.tables EXCEPT ![x.t][i] = x.hand]
    /\ y.t = IF y.hand = None THEN x.t ELSE 1 - x.t

\* The positions an attempt has gone through in n turns.
Trail(H, n) == \A j \in 0 .. n - 1 : Turn(H[j], H[j + 1]) /\ AllHome(H[j].tables)

\* The first attempt is at the end of its trail, and the second one, which
\* goes the same way back, still on it, with the other table next.
Attempt(H) ==
    /\ call.saved = <<H[0].hand, H[0].tables>>
    /\ call.n_loops <= Threshold
    /\ call.mode = "insert" =>
         /\ Trail(H, Threshold - call.n_loops)
         /\ H[Threshold - call.n_loops] = [hand |-> call.hand, tables |-> tables, t |-> call.t]
    /\ call.mode = "undo" =>
         /\ Trail(H, Threshold)
         /\ \A j \in 0 .. Threshold : H[j].hand # None
         /\ H[call.n_loops] = [hand |-> call.hand, tables |-> tables, t |-> 1 - call.t]

Reversible == call.mode \in {"insert", "undo"} => \E H \in [Nat -> Position] : Attempt(H)

Exact == \A k \in Keys \ tainted : ExactFor(Contents, dict, k)

Counted == n_elements = Cardinality(Filled(Contents))

CuckooInv == Typed /\ Modes /\ Home /\ Reversible /\ Exact /\ Counted

-----------------------------------------------------------------------------

LEMMA ThresholdType == ASSUME CapAssumption PROVE Threshold \in 0 .. 2 * Cap
<1> DEFINE S == {n \in 0 .. Cap : 2 ^ n < Cap}
<1>1. Cap \in Nat /\ Cap >= 2
  BY DEF CapAssumption
<1>2. IsFiniteSet(0 .. Cap) /\ Cardinality(0 .. Cap) = Cap + 1
  BY <1>1, FS_Interval
<1>3. S \in SUBSET (0 .. Cap)
  OBVIOUS
<1>4. Threshold = Cardinality(S)
  BY DEF Threshold
<1> HIDE DEF S
<1>5. Cardinality(S) \in Nat /\ Cardinality(S) <= Cap + 1
  BY <1>2, <1>3, FS_Subset, FS_CardinalityType
<1> QED
  BY <1>1, <1>4, <1>5

\* An entry is none or a key with its value.
LEMMA Entries ==
    /\ None \in Entry
    /\ \A k \in Keys, v \in Values : /\ <<k, v>> \in Entry /\ <<k, v>> # None
                                    /\ <<k, v>>[1] = k /\ <<k, v>>[2] = v
    /\ \A e \in Entry : e # None => e[1] \in Keys /\ e[2] \in Values /\ e = <<e[1], e[2]>>
  BY DEF Entry, None

\* Both seeds select a slot for every key.
LEMMA Selects ==
    ASSUME HashesAssumption, CapAssumption, NEW sd \in [0 .. 1 -> Hashes]
    PROVE  \A t \in 0 .. 1, k \in Keys : sd[t][k] \in Slots
  BY DEF HashesAssumption, Slots

\* Writing entry e to slot i of table t.
Written(tb, new, t, i, e) ==
    /\ new \in Tables /\ new[t][i] = e
    /\ \A u \in 0 .. 1, j \in Slots : ~(u = t /\ j = i) => new[u][j] = tb[u][j]

LEMMA SetSlot ==
    ASSUME NEW tb \in Tables, NEW t \in 0 .. 1, NEW i \in Slots, NEW e \in Entry
    PROVE  Written(tb, [tb EXCEPT ![t][i] = e], t, i, e)
  BY DEF Tables, Written

\* Position c of the scan in rehash_impl().
LEMMA Scan ==
    ASSUME CapAssumption
    PROVE  /\ \A c \in 0 .. 2 * Cap - 1 :
                c \div Cap \in 0 .. 1 /\ c % Cap \in Slots
           /\ \A t \in 0 .. 1, i \in Slots :
                /\ t * Cap + i \in 0 .. 2 * Cap - 1
                /\ (t * Cap + i) \div Cap = t /\ (t * Cap + i) % Cap = i
<1>1. Cap \in Nat /\ Cap >= 2
  BY DEF CapAssumption
<1>2. ASSUME NEW c \in 0 .. 2 * Cap - 1
      PROVE  /\ c < Cap => c \div Cap = 0 /\ c % Cap = c
             /\ c >= Cap => c \div Cap = 1 /\ c % Cap = c - Cap
  <2>1. CASE c < Cap
    BY <1>1, <2>1
  <2>2. CASE c >= Cap
    BY <1>1, <2>2
  <2> QED
    BY <2>1, <2>2, <1>1
<1>3. ASSUME NEW c \in 0 .. 2 * Cap - 1
      PROVE  c \div Cap \in 0 .. 1 /\ c % Cap \in Slots
  <2>1. CASE c < Cap
    BY <1>1, <1>2, <2>1 DEF Slots
  <2>2. CASE c >= Cap
    <3>1. c \div Cap = 1 /\ c % Cap = c - Cap
      BY <1>2, <2>2
    <3>2. c - Cap \in Slots
      BY <1>1, <2>2 DEF Slots
    <3> QED
      BY <3>1, <3>2
  <2> QED
    BY <1>1, <2>1, <2>2
<1>4. ASSUME NEW t \in 0 .. 1, NEW i \in Slots
      PROVE  /\ t * Cap + i \in 0 .. 2 * Cap - 1
             /\ (t * Cap + i) \div Cap = t /\ (t * Cap + i) % Cap = i
  <2>1. t = 0 => t * Cap + i = i
    BY <1>1 DEF Slots
  <2>2. t = 1 => t * Cap + i = Cap + i
    BY <1>1 DEF Slots
  <2>3. i \in 0 .. Cap - 1
    BY DEF Slots
  <2> QED
    BY <1>1, <1>2, <2>1, <2>2, <2>3
<1> QED
  BY <1>3, <1>4

-----------------------------------------------------------------------------

\* What the parts of the invariant say, with the slots in play.
LEMMA Now ==
    ASSUME CapAssumption, HashesAssumption, Typed
    PROVE  /\ seeds \in [0 .. 1 -> Hashes] /\ tables \in Tables /\ call \in Call
           /\ n_elements \in 0 .. 2 * Cap
           /\ dict \in [Keys -> SUBSET Values] /\ tainted \subseteq Keys
           /\ call.hand \in Entry /\ call.pending \in Entry /\ call.t \in 0 .. 1
           /\ call.n_loops \in 0 .. 2 * Cap /\ call.cursor \in 0 .. 2 * Cap
           /\ Cap \in Nat /\ Cap >= 2
           /\ \A t \in 0 .. 1, k \in Keys : seeds[t][k] \in Slots
           /\ call.hand # None => call.hand[1] \in Keys
                                  /\ seeds[call.t][call.hand[1]] \in Slots
           /\ \A t \in 0 .. 1, i \in Slots : tables[t][i] \in Entry
<1>1. /\ seeds \in [0 .. 1 -> Hashes] /\ tables \in Tables /\ call \in Call
      /\ n_elements \in 0 .. 2 * Cap
      /\ dict \in [Keys -> SUBSET Values] /\ tainted \subseteq Keys
  BY DEF Typed, CuckooTypeOK, Tables
<1>2. /\ call.hand \in Entry /\ call.pending \in Entry /\ call.t \in 0 .. 1
      /\ call.n_loops \in 0 .. 2 * Cap /\ call.cursor \in 0 .. 2 * Cap
  BY <1>1 DEF Call
<1>3. \A t \in 0 .. 1, k \in Keys : seeds[t][k] \in Slots
  BY <1>1, Selects
<1>4. call.hand # None => call.hand[1] \in Keys /\ seeds[call.t][call.hand[1]] \in Slots
  BY <1>2, <1>3, Entries
<1>5. \A t \in 0 .. 1, i \in Slots : tables[t][i] \in Entry
  BY <1>1 DEF Tables
<1> QED
  BY <1>1, <1>2, <1>3, <1>4, <1>5 DEF CapAssumption

\* Typed, from the parts that change.
LEMMA TypedAgain ==
    ASSUME seeds' \in [0 .. 1 -> Hashes], tables' \in Tables, n_elements' \in 0 .. 2 * Cap,
           call' \in Call, dict' \in [Keys -> SUBSET Values], tainted' \subseteq Keys
    PROVE  Typed'
<1>1. /\ call'.mode \in {"idle", "insert", "undo", "rehash"}
      /\ call'.hand \in Entry /\ call'.pending \in Entry /\ call'.t \in 0 .. 1
      /\ call'.n_loops \in 0 .. 2 * Cap /\ call'.cursor \in 0 .. 2 * Cap
  BY DEF Call
<1> QED
  BY <1>1 DEF Typed, CuckooTypeOK, Tables

\* A step within a call swaps two places, or none.
LEMMA Inner ==
    ASSUME CapAssumption, Exact, Counted, UNCHANGED <<n_elements, dict, tainted>>,
           Contents \in [Place -> Entry],
           \/ Contents' = Contents
           \/ \E p, q \in Place : Swapped(Contents, Contents', p, q)
    PROVE  Exact' /\ Counted'
<1>1. /\ Cardinality(Filled(Contents')) = Cardinality(Filled(Contents))
      /\ \A d, k : ExactFor(Contents, d, k) => ExactFor(Contents', d, k)
  BY SwapKeeps
<1>2. Counted'
  BY <1>1 DEF Counted
<1>3. Exact'
  BY <1>1 DEF Exact
<1> QED
  BY <1>2, <1>3

\* The contents before and after a step.
LEMMA ContentsNow ==
    ASSUME CapAssumption, HashesAssumption, Typed, Typed'
    PROVE  /\ Contents \in [Place -> Entry]
           /\ Contents[InHand] = call.hand /\ Contents[Aside] = call.pending
           /\ \A t \in 0 .. 1, i \in Slots : Contents[<<t, i>>] = tables[t][i]
           /\ Contents' \in [Place -> Entry]
           /\ Contents'[InHand] = call'.hand /\ Contents'[Aside] = call'.pending
           /\ \A t \in 0 .. 1, i \in Slots : Contents'[<<t, i>>] = tables'[t][i]
<1>1. /\ tables \in Tables /\ call.hand \in Entry /\ call.pending \in Entry
  BY DEF Typed, CuckooTypeOK, Tables
<1>2. /\ tables' \in Tables /\ call'.hand \in Entry /\ call'.pending \in Entry
  BY DEF Typed, CuckooTypeOK, Tables
<1>3. /\ Contents = ContentsOf(tables, call.hand, call.pending)
      /\ Contents' = ContentsOf(tables', call'.hand, call'.pending)
  BY DEF Contents
<1> HIDE DEF Contents
<1>4. /\ Contents \in [Place -> Entry]
      /\ Contents[InHand] = call.hand /\ Contents[Aside] = call.pending
      /\ \A t \in 0 .. 1, i \in Slots : Contents[<<t, i>>] = tables[t][i]
  BY <1>1, <1>3, ContentsAt
<1>5. /\ Contents' \in [Place -> Entry]
      /\ Contents'[InHand] = call'.hand /\ Contents'[Aside] = call'.pending
      /\ \A t \in 0 .. 1, i \in Slots : Contents'[<<t, i>>] = tables'[t][i]
  BY <1>2, <1>3, ContentsAt
<1> QED
  BY <1>4, <1>5

\* A slot and the hand are swapped.
LEMMA SlotSwapped ==
    ASSUME CapAssumption, HashesAssumption, Typed, Typed', NEW t \in 0 .. 1, NEW i \in Slots,
           tables' = [tables EXCEPT ![t][i] = call.hand], call'.hand = tables[t][i],
           call'.pending = call.pending
    PROVE  \E p, q \in Place : Swapped(Contents, Contents', p, q)
<1>1. tables \in Tables /\ call.hand \in Entry
  BY Now
<1>2. tables'[t][i] = call.hand
      /\ \A u \in 0 .. 1, j \in Slots : ~(u = t /\ j = i) => tables'[u][j] = tables[u][j]
  BY <1>1, SetSlot DEF Written
<1>3. Contents'[<<t, i>>] = Contents[InHand] /\ Contents'[InHand] = Contents[<<t, i>>]
  BY <1>2, ContentsNow
<1>4. ASSUME NEW r \in Place, r # <<t, i>>, r # InHand
      PROVE  Contents'[r] = Contents[r]
  <2>1. CASE r = Aside
    BY <2>1, ContentsNow
  <2>2. ASSUME NEW u \in 0 .. 1, NEW j \in Slots, r = <<u, j>> PROVE Contents'[r] = Contents[r]
    BY <1>2, <1>4, <2>2, ContentsNow
  <2> QED
    BY <1>4, <2>1, <2>2, Places
<1>5. Swapped(Contents, Contents', <<t, i>>, InHand)
  BY <1>3, <1>4, Places, ContentsNow DEF Swapped
<1> QED
  BY <1>5, Places

\* The hand and what is set aside are swapped.
LEMMA HandSwapped ==
    ASSUME CapAssumption, HashesAssumption, Typed, Typed', tables' = tables,
           call'.hand = call.pending, call'.pending = call.hand
    PROVE  \E p, q \in Place : Swapped(Contents, Contents', p, q)
<1>1. Contents'[InHand] = Contents[Aside] /\ Contents'[Aside] = Contents[InHand]
  BY ContentsNow
<1>2. ASSUME NEW r \in Place, r # InHand, r # Aside PROVE Contents'[r] = Contents[r]
  BY <1>2, Places, ContentsNow
<1>3. Swapped(Contents, Contents', InHand, Aside)
  BY <1>1, <1>2, Places, ContentsNow DEF Swapped
<1> QED
  BY <1>3, Places

-----------------------------------------------------------------------------

\* One turn of the loop of the first attempt makes its trail longer.
LEMMA DisplaceForth ==
    ASSUME CapAssumption, HashesAssumption, CuckooInv, Typed', Displace, call.mode = "insert"
    PROVE  \E H \in [Nat -> Position] : Attempt(H)'
<1> DEFINE t == call.t
           i == seeds[t][call.hand[1]]
           new == [hand |-> tables[t][i], tables |-> [tables EXCEPT ![t][i] = call.hand],
                   t |-> IF tables[t][i] = None THEN t ELSE 1 - t]
<1>1. /\ Typed /\ Home /\ Threshold \in 0 .. 2 * Cap
      /\ tables \in Tables /\ call \in Call /\ t \in 0 .. 1 /\ i \in Slots
      /\ call.hand \in Entry /\ call.hand # None /\ call.n_loops > 0 /\ call.n_loops \in Nat
  BY Now, ThresholdType DEF CuckooInv, Displace
<1>2. /\ tables' = [tables EXCEPT ![t][i] = call.hand]
      /\ call' = [call EXCEPT !.hand = tables[t][i], !.n_loops = @ - 1,
                              !.t = IF tables[t][i] = None THEN @ ELSE 1 - @]
      /\ seeds' = seeds
  BY DEF Displace
<1>3. PICK H \in [Nat -> Position] : Attempt(H)
  BY DEF CuckooInv, Reversible
<1>4. /\ call.saved = <<H[0].hand, H[0].tables>> /\ call.n_loops <= Threshold
      /\ Trail(H, Threshold - call.n_loops)
      /\ H[Threshold - call.n_loops] = [hand |-> call.hand, tables |-> tables, t |-> t]
  BY <1>3 DEF Attempt
<1>5. PICK n \in Nat : /\ n + 1 = Threshold - (call.n_loops - 1)
                       /\ Trail(H, n)
                       /\ H[n] = [hand |-> call.hand, tables |-> tables, t |-> t]
  <2>1. Threshold - call.n_loops \in Nat
        /\ (Threshold - call.n_loops) + 1 = Threshold - (call.n_loops - 1)
    BY <1>1, <1>4
  <2> QED
    BY <1>4, <2>1
<1>6. new \in Position
  BY <1>1, SetSlot DEF Written, Position, Tables
<1>7. Turn(H[n], new)
  BY <1>1, <1>5 DEF Turn
<1>8. AllHome(H[n].tables)
  BY <1>1, <1>5 DEF AllHome, Home
<1>9. /\ call'.hand = new.hand /\ tables' = new.tables /\ call'.t = new.t
      /\ call'.n_loops = call.n_loops - 1 /\ call'.saved = call.saved /\ call'.mode = "insert"
  BY <1>1, <1>2 DEF Call
<1> HIDE DEF new, i, t
<1>10. PICK G \in [Nat -> Position] : G[n + 1] = new /\ \A j \in 0 .. n : G[j] = H[j]
  <2> DEFINE F == [j \in Nat |-> IF j = n + 1 THEN new ELSE H[j]]
  <2>1. F \in [Nat -> Position]
    BY <1>6
  <2>2. F[n + 1] = new /\ \A j \in 0 .. n : F[j] = H[j]
    OBVIOUS
  <2> HIDE DEF F
  <2> QED
    BY <2>1, <2>2
<1>11. G[0] = H[0]
  BY <1>10
<1>12. Trail(G, n + 1)
  <2>1. ASSUME NEW j \in 0 .. n PROVE Turn(G[j], G[j + 1]) /\ AllHome(G[j].tables)
    <3>1. CASE j = n
      BY <1>7, <1>8, <1>10, <3>1
    <3>2. CASE j # n
      <4>1. j \in 0 .. n - 1 /\ j + 1 \in 0 .. n
        BY <3>2
      <4> QED
        BY <1>5, <1>10, <4>1 DEF Trail
    <3> QED
      BY <3>1, <3>2
  <2>2. (n + 1) - 1 = n
    OBVIOUS
  <2> QED
    BY <2>1, <2>2 DEF Trail
<1>13. Trail(G, n + 1)'
  BY <1>2, <1>12 DEF Trail, Turn, AllHome
<1>14. new = [hand |-> call'.hand, tables |-> tables', t |-> call'.t]
  BY <1>9 DEF new
<1>15. Threshold - call'.n_loops = n + 1 /\ call'.n_loops <= Threshold
  BY <1>1, <1>4, <1>5, <1>9
<1>16. Attempt(G)'
  BY <1>4, <1>9, <1>10, <1>11, <1>13, <1>14, <1>15 DEF Attempt
<1> QED
  BY <1>16

\* One turn of the second attempt takes it one position back: the entry in
\* hand goes where it was displaced from, and displaces what displaced it.
LEMMA DisplaceBack ==
    ASSUME CapAssumption, HashesAssumption, CuckooInv, Typed', Displace, call.mode = "undo"
    PROVE  \E H \in [Nat -> Position] : Attempt(H)'
<1> DEFINE t == call.t
           i == seeds[t][call.hand[1]]
           n == call.n_loops - 1
<1>1. /\ Threshold \in 0 .. 2 * Cap
      /\ tables \in Tables /\ call \in Call /\ t \in 0 .. 1 /\ i \in Slots
      /\ call.hand \in Entry /\ call.hand # None /\ call.n_loops > 0 /\ call.n_loops \in Nat
  BY Now, ThresholdType DEF CuckooInv, Displace
<1>2. /\ tables' = [tables EXCEPT ![t][i] = call.hand]
      /\ call' = [call EXCEPT !.hand = tables[t][i], !.n_loops = @ - 1,
                              !.t = IF tables[t][i] = None THEN @ ELSE 1 - @]
      /\ seeds' = seeds
  BY DEF Displace
<1>3. PICK H \in [Nat -> Position] : Attempt(H)
  BY DEF CuckooInv, Reversible
<1>4. /\ call.saved = <<H[0].hand, H[0].tables>> /\ call.n_loops <= Threshold
      /\ Trail(H, Threshold) /\ \A j \in 0 .. Threshold : H[j].hand # None
      /\ H[call.n_loops] = [hand |-> call.hand, tables |-> tables, t |-> 1 - call.t]
  BY <1>3 DEF Attempt
<1>5. n \in 0 .. Threshold - 1 /\ n + 1 = call.n_loops /\ n \in Nat /\ n \in 0 .. Threshold
  BY <1>1, <1>4
<1> DEFINE x == H[n]
           k == seeds[x.t][x.hand[1]]
<1>6. x \in Position /\ x.tables \in Tables /\ x.t \in 0 .. 1 /\ x.hand \in Entry
      /\ x.hand # None
  BY <1>4, <1>5 DEF Position
<1>7. k \in Slots
  <2>1. x.hand[1] \in Keys
    BY <1>6, Entries
  <2> QED
    BY <1>6, <2>1, Now DEF CuckooInv
<1>8. /\ call.hand = x.tables[x.t][k] /\ tables = [x.tables EXCEPT ![x.t][k] = x.hand]
      /\ 1 - t = IF call.hand = None THEN x.t ELSE 1 - x.t
      /\ AllHome(x.tables)
  <2>1. Turn(x, H[n + 1]) /\ AllHome(x.tables)
    BY <1>4, <1>5 DEF Trail
  <2>2. H[n + 1] = [hand |-> call.hand, tables |-> tables, t |-> 1 - t]
    BY <1>4, <1>5
  <2> HIDE DEF x, t, n
  <2> QED
    BY <2>1, <2>2 DEF Turn
<1> HIDE DEF x
<1>9. t = x.t /\ i = k
  <2> HIDE DEF t
  <2>1. 1 - t = 1 - x.t
    BY <1>1, <1>8
  <2>2. t = x.t
    BY <1>1, <1>6, <2>1
  <2>3. seeds[x.t][x.tables[x.t][k][1]] = k
    BY <1>1, <1>6, <1>7, <1>8 DEF AllHome
  <2> QED
    BY <1>8, <2>2, <2>3
<1> HIDE DEF i, k, t
<1>10. tables[t][i] = x.hand
  BY <1>6, <1>7, <1>8, <1>9, SetSlot DEF Written
<1>11. tables' = x.tables
  <2>1. x.tables \in [0 .. 1 -> [Slots -> Entry]]
    BY <1>6 DEF Tables
  <2> QED
    BY <1>2, <1>6, <1>7, <1>8, <1>9, <2>1
<1>12. /\ call'.hand = x.hand /\ call'.t = 1 - t /\ call'.n_loops = n
       /\ call'.saved = call.saved /\ call'.mode = "undo"
  BY <1>1, <1>2, <1>6, <1>10 DEF Call, t
<1>13. 1 - (1 - t) = x.t
  BY <1>6, <1>9
<1>14. x = [hand |-> call'.hand, tables |-> tables', t |-> 1 - call'.t]
  BY <1>6, <1>11, <1>12, <1>13 DEF Position
<1>15. Trail(H, Threshold)'
  BY <1>2, <1>4 DEF Trail, Turn, AllHome
<1> HIDE DEF n
<1>16. n <= Threshold
  BY <1>1, <1>5
<1>17. Attempt(H)'
  BY <1>4, <1>12, <1>14, <1>15, <1>16 DEF Attempt, x
<1> QED
  BY <1>17

LEMMA DisplaceStep ==
    ASSUME CapAssumption, HashesAssumption, CuckooInv, Displace
    PROVE  CuckooInv'
<1> DEFINE t == call.t
           i == seeds[t][call.hand[1]]
<1>1. /\ Typed /\ Modes /\ Home /\ Reversible /\ Exact /\ Counted
      /\ seeds \in [0 .. 1 -> Hashes] /\ tables \in Tables /\ call \in Call
      /\ n_elements \in 0 .. 2 * Cap
      /\ dict \in [Keys -> SUBSET Values] /\ tainted \subseteq Keys
      /\ call.hand \in Entry /\ t \in 0 .. 1 /\ i \in Slots /\ tables[t][i] \in Entry
      /\ call.n_loops \in 0 .. 2 * Cap /\ call.n_loops > 0 /\ call.hand # None /\ Cap \in Nat
  BY Now DEF CuckooInv, Displace
<1>2. /\ tables' = [tables EXCEPT ![t][i] = call.hand]
      /\ call' = [call EXCEPT !.hand = tables[t][i], !.n_loops = @ - 1,
                              !.t = IF tables[t][i] = None THEN @ ELSE 1 - @]
      /\ UNCHANGED <<seeds, n_elements, dict, tainted>>
  BY DEF Displace
<1> HIDE DEF t, i
<1>3. /\ tables' \in Tables /\ tables'[t][i] = call.hand
      /\ \A u \in 0 .. 1, j \in Slots : ~(u = t /\ j = i) => tables'[u][j] = tables[u][j]
  <2>1. Written(tables, tables', t, i, call.hand)
    BY <1>1, <1>2, SetSlot
  <2> QED
    BY <2>1 DEF Written
<1>4. call' \in Call
  <2>1. call.n_loops - 1 \in 0 .. 2 * Cap /\ (1 - t) \in 0 .. 1
    BY <1>1
  <2> QED
    BY <1>1, <1>2, <2>1 DEF Call, t
<1>5. Typed'
  BY <1>1, <1>2, <1>3, <1>4, TypedAgain
<1>6. /\ call'.mode = call.mode /\ call'.pending = call.pending /\ call'.cursor = call.cursor
      /\ call'.hand = tables[t][i]
  BY <1>1, <1>2 DEF Call
<1>7. Modes'
  BY <1>1, <1>6 DEF Modes
<1>8. Home'
  <2>1. seeds[t][call.hand[1]] = i
    BY DEF i, t
  <2> QED
    BY <1>1, <1>2, <1>3, <1>6, <2>1 DEF Home
<1>9. Reversible'
  BY <1>5, <1>6, DisplaceForth, DisplaceBack DEF Reversible
<1>10. Exact' /\ Counted'
  <2>1. Contents \in [Place -> Entry]
    BY <1>1, <1>5, ContentsNow
  <2>2. \E p, q \in Place : Swapped(Contents, Contents', p, q)
    BY <1>1, <1>2, <1>5, <1>6, SlotSwapped
  <2> QED
    BY <1>1, <1>2, <2>1, <2>2, Inner
<1> QED
  BY <1>5, <1>7, <1>8, <1>9, <1>10 DEF CuckooInv

-----------------------------------------------------------------------------

\* The first position of an attempt is one on a trail without turns.
LEMMA AttemptStarts ==
    ASSUME CapAssumption, NEW kv \in Entry, NEW tb \in Tables, tables' = tb,
           call' = [Idle EXCEPT !.mode = "insert", !.hand = kv, !.n_loops = Threshold,
                                !.saved = <<kv, tb>>]
    PROVE  \E H \in [Nat -> Position] : Attempt(H)'
<1> DEFINE x == [hand |-> kv, tables |-> tables', t |-> 0]
<1>1. /\ call'.hand = kv /\ call'.t = 0 /\ call'.n_loops = Threshold
      /\ call'.saved = <<kv, tables'>> /\ call'.mode = "insert"
  BY DEF Idle
<1>2. x \in Position
  BY DEF Position
<1> HIDE DEF x
<1>3. PICK H \in [Nat -> Position] : H[0] = x
  <2> DEFINE F == [j \in Nat |-> x]
  <2>1. F \in [Nat -> Position] /\ F[0] = x
    BY <1>2
  <2> QED
    BY <2>1
<1>4. Threshold - Threshold = 0 /\ Threshold <= Threshold
  BY ThresholdType, CapAssumption DEF CapAssumption
<1>5. Trail(H, 0)'
  BY DEF Trail
<1>6. H[0] = [hand |-> call'.hand, tables |-> tables', t |-> call'.t]
      /\ H[0].hand = kv /\ H[0].tables = tables'
  BY <1>1, <1>3 DEF x
<1>7. Attempt(H)'
  BY <1>1, <1>4, <1>5, <1>6 DEF Attempt
<1> QED
  BY <1>7

LEMMA PlacedStep ==
    ASSUME CapAssumption, HashesAssumption, CuckooInv, Placed
    PROVE  CuckooInv'
<1>1. /\ Typed /\ Modes /\ Home /\ Exact /\ Counted
      /\ call.mode \in {"insert", "undo"} /\ call.hand = None /\ call.pending = None
      /\ call' = Idle /\ UNCHANGED <<seeds, tables, n_elements, dict, tainted>>
  BY DEF CuckooInv, Placed, Modes
<1>2. Idle \in Call
  BY Now, Entries, <1>1 DEF Idle, Call
<1>3. Typed'
  BY <1>1, <1>2, Now, TypedAgain
<1>4. call'.mode = "idle" /\ call'.hand = None /\ call'.pending = None
  BY <1>1 DEF Idle
<1>5. Modes' /\ Reversible'
  BY <1>4 DEF Modes, Reversible
<1>6. Home'
  BY <1>1, <1>4 DEF Home
<1>7. Contents' = Contents
  BY <1>1, <1>4 DEF Contents
<1>8. Exact' /\ Counted'
  BY <1>1, <1>3, <1>7, ContentsNow, Inner
<1> QED
  BY <1>3, <1>5, <1>6, <1>8 DEF CuckooInv

LEMMA UndoStep ==
    ASSUME CapAssumption, HashesAssumption, CuckooInv, Undo
    PROVE  CuckooInv'
<1>1. /\ Typed /\ Modes /\ Home /\ Exact /\ Counted
      /\ call.mode = "insert" /\ call.hand # None /\ call.n_loops = 0
      /\ call' = [call EXCEPT !.mode = "undo", !.t = 1 - @, !.n_loops = Threshold]
      /\ UNCHANGED <<seeds, tables, n_elements, dict, tainted>>
  BY DEF CuckooInv, Undo
<1>2. call \in Call /\ call.t \in 0 .. 1 /\ Threshold \in 0 .. 2 * Cap
  BY <1>1, Now, ThresholdType
<1>3. call' \in Call
  <2>1. 1 - call.t \in 0 .. 1
    BY <1>2
  <2> QED
    BY <1>1, <1>2, <2>1 DEF Call
<1>4. Typed'
  BY <1>1, <1>3, Now, TypedAgain
<1>5. /\ call'.mode = "undo" /\ call'.hand = call.hand /\ call'.pending = call.pending
      /\ call'.t = 1 - call.t /\ call'.n_loops = Threshold /\ call'.saved = call.saved
  BY <1>1, <1>2 DEF Call
<1>6. Modes'
  BY <1>1, <1>5 DEF Modes
<1>7. Home'
  BY <1>1, <1>5 DEF Home
<1>8. Contents' = Contents
  BY <1>1, <1>5 DEF Contents
<1>9. Exact' /\ Counted'
  BY <1>1, <1>4, <1>8, ContentsNow, Inner
<1>10. Reversible'
  <2>1. PICK H \in [Nat -> Position] : Attempt(H)
    BY <1>1 DEF CuckooInv, Reversible
  <2>2. Threshold - call.n_loops = Threshold /\ 1 - (1 - call.t) = call.t
        /\ Threshold <= Threshold
    BY <1>1, <1>2
  <2>3. /\ call.saved = <<H[0].hand, H[0].tables>> /\ Trail(H, Threshold)
        /\ H[Threshold] = [hand |-> call.hand, tables |-> tables, t |-> call.t]
    BY <1>1, <2>1, <2>2 DEF Attempt
  <2>4. ASSUME NEW j \in 0 .. Threshold PROVE H[j].hand # None
    <3>1. CASE j = Threshold
      BY <1>1, <2>3, <3>1
    <3>2. CASE j # Threshold
      <4>1. j \in 0 .. Threshold - 1
        BY <1>2, <3>2
      <4> QED
        BY <2>3, <4>1 DEF Trail, Turn
    <3> QED
      BY <3>1, <3>2
  <2>5. Trail(H, Threshold)'
    <3>1. Threshold' = Threshold
      BY DEF Threshold
    <3>2. \A tb : AllHome(tb)' <=> AllHome(tb)
      BY <1>1 DEF AllHome
    <3>3. \A x, y : Turn(x, y)' <=> Turn(x, y)
      BY <1>1 DEF Turn
    <3> QED
      BY <2>3, <3>1, <3>2, <3>3 DEF Trail
  <2>6. H[Threshold] = [hand |-> call'.hand, tables |-> tables', t |-> 1 - call'.t]
    BY <1>1, <1>5, <2>2, <2>3
  <2>7. Attempt(H)'
    BY <1>5, <2>2, <2>3, <2>4, <2>5, <2>6 DEF Attempt
  <2> QED
    BY <2>7 DEF Reversible
<1> QED
  BY <1>4, <1>6, <1>7, <1>9, <1>10 DEF CuckooInv

LEMMA StartRehashStep ==
    ASSUME CapAssumption, HashesAssumption, CuckooInv, StartRehash
    PROVE  CuckooInv'
<1>1. /\ Typed /\ Modes /\ Exact /\ Counted
      /\ call.mode = "undo" /\ call.hand # None /\ call.pending = None
      /\ seeds' \in [0 .. 1 -> Hashes]
      /\ call' = [Idle EXCEPT !.mode = "rehash", !.pending = call.hand]
      /\ UNCHANGED <<tables, n_elements, dict, tainted>>
  BY DEF CuckooInv, StartRehash, Modes, Reseed
<1>2. call' \in Call
  <2>1. call.hand \in Entry /\ 0 \in 0 .. 2 * Cap /\ None \in Entry
    BY <1>1, Now, Entries
  <2>2. call' = [mode |-> "rehash", hand |-> None, t |-> 0, n_loops |-> 0, cursor |-> 0,
                 pending |-> call.hand, saved |-> <<>>]
    BY <1>1 DEF Idle
  <2> QED
    BY <2>1, <2>2 DEF Call
<1>3. Typed'
  BY <1>1, <1>2, Now, TypedAgain
<1>4. /\ call'.mode = "rehash" /\ call'.hand = None /\ call'.pending = call.hand
      /\ call'.cursor = 0
  BY <1>1 DEF Idle
<1>5. Modes' /\ Reversible'
  BY <1>1, <1>4 DEF Modes, Reversible
<1>6. Home'
  <2>1. \A t \in 0 .. 1, i \in Slots : ~(t * Cap + i < 0)
    BY Scan
  <2> QED
    BY <1>4, <2>1 DEF Home
<1>7. Exact' /\ Counted'
  <2>1. \E p, q \in Place : Swapped(Contents, Contents', p, q)
    BY <1>1, <1>3, <1>4, HandSwapped
  <2> QED
    BY <1>1, <1>3, <2>1, ContentsNow, Inner
<1> QED
  BY <1>3, <1>5, <1>6, <1>7 DEF CuckooInv

LEMMA RehashFailedStep ==
    ASSUME CapAssumption, HashesAssumption, CuckooInv, RehashFailed
    PROVE  CuckooInv'
<1>1. /\ Typed /\ Modes /\ Exact /\ Counted
      /\ call.mode = "rehash" /\ seeds' \in [0 .. 1 -> Hashes]
      /\ call' = [call EXCEPT !.hand = None, !.cursor = 0]
      /\ UNCHANGED <<n_elements, dict, tainted>>
  BY DEF CuckooInv, RehashFailed, Reseed
<1>2. PICK c \in 0 .. 2 * Cap - 1 :
         /\ tables[c \div Cap][c % Cap] = None
         /\ tables' = [tables EXCEPT ![c \div Cap][c % Cap] = call.hand]
  BY DEF RehashFailed
<1>3. PICK t \in 0 .. 1, i \in Slots : t = c \div Cap /\ i = c % Cap
  BY Scan
<1>4. tables[t][i] = None /\ tables' = [tables EXCEPT ![t][i] = call.hand]
  BY <1>2, <1>3
<1>5. /\ tables \in Tables /\ call \in Call /\ call.hand \in Entry
      /\ n_elements \in 0 .. 2 * Cap /\ Cap \in Nat
      /\ dict \in [Keys -> SUBSET Values] /\ tainted \subseteq Keys
  BY <1>1, Now
<1>6. tables' \in Tables
  BY <1>4, <1>5, SetSlot DEF Written
<1>7. call' \in Call
  <2>1. 0 \in 0 .. 2 * Cap /\ None \in Entry
    BY <1>5, Entries
  <2> QED
    BY <1>1, <1>5, <2>1 DEF Call
<1>8. Typed'
  BY <1>1, <1>5, <1>6, <1>7, TypedAgain
<1>9. /\ call'.mode = "rehash" /\ call'.hand = None /\ call'.pending = call.pending
      /\ call'.cursor = 0
  BY <1>1, <1>5 DEF Call
<1>10. Modes' /\ Reversible'
  BY <1>1, <1>9 DEF Modes, Reversible
<1>11. Home'
  <2>1. \A u \in 0 .. 1, j \in Slots : ~(u * Cap + j < 0)
    BY Scan
  <2> QED
    BY <1>9, <2>1 DEF Home
<1>12. Exact' /\ Counted'
  <2>1. \E p, q \in Place : Swapped(Contents, Contents', p, q)
    BY <1>1, <1>4, <1>8, <1>9, SlotSwapped
  <2> QED
    BY <1>1, <1>8, <2>1, ContentsNow, Inner
<1> QED
  BY <1>8, <1>10, <1>11, <1>12 DEF CuckooInv

\* The scan takes out an entry, or has found all entries at home.
LEMMA RehashNextStep ==
    ASSUME CapAssumption, HashesAssumption, CuckooInv, RehashNext
    PROVE  CuckooInv'
<1>1. /\ Typed /\ Modes /\ Home /\ Exact /\ Counted
      /\ call.mode = "rehash" /\ call.hand = None /\ call.pending # None
      /\ UNCHANGED <<seeds, n_elements, dict, tainted>>
  BY DEF CuckooInv, RehashNext, Modes
<1>2. /\ tables \in Tables /\ call \in Call /\ call.hand \in Entry /\ call.pending \in Entry
      /\ n_elements \in 0 .. 2 * Cap /\ Cap \in Nat /\ call.cursor \in 0 .. 2 * Cap
      /\ dict \in [Keys -> SUBSET Values] /\ tainted \subseteq Keys
      /\ seeds \in [0 .. 1 -> Hashes]
      /\ \A t \in 0 .. 1, i \in Slots : tables[t][i] \in Entry
  BY <1>1, Now
<1>3. ASSUME NEW c \in call.cursor .. 2 * Cap - 1,
             \A b \in call.cursor .. c - 1 : ~Misplaced(b),
             tables' = [tables EXCEPT ![c \div Cap][c % Cap] = None],
             call' = [call EXCEPT !.hand = tables[c \div Cap][c % Cap], !.t = c \div Cap,
                                  !.n_loops = n_elements, !.cursor = c + 1]
      PROVE  CuckooInv'
  <2>1. c \in 0 .. 2 * Cap - 1 /\ c + 1 \in 0 .. 2 * Cap /\ c \in Nat
    BY <1>2
  <2>2. PICK t \in 0 .. 1, i \in Slots : t = c \div Cap /\ i = c % Cap
    BY <2>1, Scan
  <2>3. /\ tables' = [tables EXCEPT ![t][i] = call.hand]
        /\ call' = [call EXCEPT !.hand = tables[t][i], !.t = t, !.n_loops = n_elements,
                                !.cursor = c + 1]
    BY <1>1, <1>3, <2>2
  <2>4. /\ tables' \in Tables /\ tables'[t][i] = None
        /\ \A u \in 0 .. 1, j \in Slots : ~(u = t /\ j = i) => tables'[u][j] = tables[u][j]
    <3>1. Written(tables, tables', t, i, call.hand)
      BY <1>2, <2>3, SetSlot
    <3> QED
      BY <1>1, <3>1 DEF Written
  <2>5. call' \in Call
    BY <1>2, <2>1, <2>3 DEF Call
  <2>6. Typed'
    BY <1>1, <1>2, <2>4, <2>5, TypedAgain
  <2>7. /\ call'.mode = "rehash" /\ call'.hand = tables[t][i] /\ call'.pending = call.pending
        /\ call'.cursor = c + 1
    BY <1>1, <1>2, <2>3 DEF Call
  <2>8. Modes' /\ Reversible'
    BY <1>1, <2>7 DEF Modes, Reversible
  <2>9. Home'
    <3>1. ASSUME NEW u \in 0 .. 1, NEW j \in Slots, u * Cap + j < c + 1, ~(u = t /\ j = i),
                 tables[u][j] # None
          PROVE  seeds[u][tables[u][j][1]] = j
      <4> DEFINE b == u * Cap + j
      <4>1. b \in 0 .. 2 * Cap - 1 /\ b \div Cap = u /\ b % Cap = j
        BY Scan
      <4>2. CASE b < call.cursor
        BY <1>1, <3>1, <4>2 DEF Home
      <4>3. CASE b = c
        BY <2>2, <3>1, <4>1, <4>3
      <4>4. CASE ~(b < call.cursor) /\ b # c
        <5>1. b < c + 1
          BY <3>1
        <5> HIDE DEF b
        <5>2. b \in call.cursor .. c - 1
          BY <1>2, <2>1, <4>1, <4>4, <5>1
        <5> QED
          BY <1>3, <3>1, <4>1, <5>2 DEF Misplaced
      <4> QED
        BY <4>2, <4>3, <4>4
    <3> QED
      BY <1>1, <2>4, <2>7, <3>1 DEF Home
  <2>10. Exact' /\ Counted'
    <3>1. \E p, q \in Place : Swapped(Contents, Contents', p, q)
      BY <1>1, <2>3, <2>6, <2>7, SlotSwapped
    <3> QED
      BY <1>1, <2>6, <3>1, ContentsNow, Inner
  <2> QED
    BY <2>6, <2>8, <2>9, <2>10 DEF CuckooInv
<1>4. ASSUME \A c \in call.cursor .. 2 * Cap - 1 : ~Misplaced(c),
             call' = Cuckoo(call.pending), tables' = tables
      PROVE  CuckooInv'
  <2>1. call' = [Idle EXCEPT !.mode = "insert", !.hand = call.pending, !.n_loops = Threshold,
                             !.saved = <<call.pending, tables>>]
    BY <1>4 DEF Cuckoo
  <2>2. call' \in Call
    <3>1. Threshold \in 0 .. 2 * Cap /\ 0 \in 0 .. 2 * Cap /\ None \in Entry
      BY <1>2, ThresholdType, Entries
    <3>2. call' = [mode |-> "insert", hand |-> call.pending, t |-> 0, n_loops |-> Threshold,
                   cursor |-> 0, pending |-> None, saved |-> <<call.pending, tables>>]
      BY <2>1 DEF Idle
    <3> QED
      BY <1>2, <3>1, <3>2 DEF Call
  <2>3. Typed'
    BY <1>1, <1>2, <1>4, <2>2, TypedAgain
  <2>4. call'.mode = "insert" /\ call'.hand = call.pending /\ call'.pending = None
    BY <2>1 DEF Idle
  <2>5. Modes'
    BY <2>4 DEF Modes
  <2>6. Reversible'
    <3>1. \E H \in [Nat -> Position] : Attempt(H)'
      BY <1>2, <1>4, <2>1, AttemptStarts
    <3> QED
      BY <3>1 DEF Reversible
  <2>7. Home'
    <3>1. ASSUME NEW u \in 0 .. 1, NEW j \in Slots, tables[u][j] # None
          PROVE  seeds[u][tables[u][j][1]] = j
      <4> DEFINE b == u * Cap + j
      <4>1. b \in 0 .. 2 * Cap - 1 /\ b \div Cap = u /\ b % Cap = j
        BY Scan
      <4>2. CASE b < call.cursor
        BY <1>1, <3>1, <4>2 DEF Home
      <4>3. CASE ~(b < call.cursor)
        <5> HIDE DEF b
        <5>1. b \in call.cursor .. 2 * Cap - 1
          BY <1>2, <4>1, <4>3
        <5> QED
          BY <1>4, <3>1, <4>1, <5>1 DEF Misplaced
      <4> QED
        BY <4>2, <4>3
    <3> QED
      BY <1>1, <1>4, <3>1 DEF Home
  <2>8. Exact' /\ Counted'
    <3>1. \E p, q \in Place : Swapped(Contents, Contents', p, q)
      BY <1>1, <1>4, <2>3, <2>4, HandSwapped
    <3> QED
      BY <1>1, <2>3, <3>1, ContentsNow, Inner
  <2> QED
    BY <2>3, <2>5, <2>6, <2>7, <2>8 DEF CuckooInv
<1> QED
  BY <1>3, <1>4 DEF RehashNext

-----------------------------------------------------------------------------

\* One place is filled, emptied or written over.
LEMMA OnePlace ==
    ASSUME CapAssumption, NEW c, NEW e, NEW p \in Place,
           \A r \in Place : r # p => e[r] = c[r]
    PROVE  Cardinality(Filled(e)) = Cardinality(Filled(c)) +
               (IF c[p] = None /\ e[p] # None THEN 1
                ELSE IF c[p] # None /\ e[p] = None THEN -1 ELSE 0)
<1>1. IsFiniteSet(Filled(c)) /\ IsFiniteSet(Filled(e))
      /\ Cardinality(Filled(c)) \in Nat /\ Cardinality(Filled(e)) \in Nat
  BY PlacesFinite
<1>2. CASE (c[p] = None) <=> (e[p] = None)
  <2>1. Filled(e) = Filled(c)
    BY <1>2 DEF Filled
  <2> QED
    BY <1>1, <1>2, <2>1
<1>3. CASE c[p] = None /\ e[p] # None
  <2>1. Filled(c) = Filled(e) \ {p} /\ p \in Filled(e)
    BY <1>3 DEF Filled
  <2>2. Cardinality(Filled(e) \ {p}) = Cardinality(Filled(e)) - 1
    BY <1>1, <2>1, FS_RemoveElement
  <2> QED
    BY <1>1, <1>3, <2>1, <2>2
<1>4. CASE c[p] # None /\ e[p] = None
  <2>1. Filled(e) = Filled(c) \ {p} /\ p \in Filled(c)
    BY <1>4 DEF Filled
  <2>2. Cardinality(Filled(c) \ {p}) = Cardinality(Filled(c)) - 1
    BY <1>1, <2>1, FS_RemoveElement
  <2> QED
    BY <1>1, <1>4, <2>1, <2>2
<1> QED
  BY <1>2, <1>3, <1>4

\* Between calls, an entry is in a slot that its key selects.
LEMMA WhereKeysAre ==
    ASSUME CapAssumption, HashesAssumption, CuckooInv, call.mode = "idle"
    PROVE  /\ Contents \in [Place -> Entry]
           /\ call.hand = None /\ call.pending = None
           /\ Contents[InHand] = None /\ Contents[Aside] = None
           /\ \A t \in 0 .. 1, i \in Slots : Contents[<<t, i>>] = tables[t][i]
           /\ \A t \in 0 .. 1, k \in Keys :
                IsAt(k, t) <=> Has(Contents[<<t, seeds[t][k]>>], k)
           /\ \A k \in Keys, p \in Place : Has(Contents[p], k) =>
                \E t \in 0 .. 1 : p = <<t, seeds[t][k]>> /\ IsAt(k, t)
<1>1. Typed /\ Modes /\ Home
  BY DEF CuckooInv
<1>2. call.hand = None /\ call.pending = None
  BY <1>1 DEF Modes
<1>3. tables \in Tables /\ call.hand \in Entry /\ call.pending \in Entry
      /\ \A t \in 0 .. 1, k \in Keys : seeds[t][k] \in Slots
  BY <1>1, Now
<1>4. /\ Contents \in [Place -> Entry]
      /\ Contents[InHand] = None /\ Contents[Aside] = None
      /\ \A t \in 0 .. 1, i \in Slots : Contents[<<t, i>>] = tables[t][i]
  BY <1>2, <1>3, ContentsAt DEF Contents
<1>5. \A t \in 0 .. 1, k \in Keys : IsAt(k, t) <=> Has(Contents[<<t, seeds[t][k]>>], k)
  BY <1>3, <1>4 DEF IsAt, Has
<1>6. ASSUME NEW k \in Keys, NEW p \in Place, Has(Contents[p], k)
      PROVE  \E t \in 0 .. 1 : p = <<t, seeds[t][k]>> /\ IsAt(k, t)
  <2>1. p # InHand /\ p # Aside
    BY <1>4, <1>6 DEF Has
  <2>2. PICK t \in 0 .. 1, i \in Slots : p = <<t, i>>
    BY <2>1, Places
  <2>3. tables[t][i] # None /\ tables[t][i][1] = k
    BY <1>4, <1>6, <2>2 DEF Has
  <2>4. seeds[t][k] = i
    BY <1>1, <2>3 DEF Home
  <2> QED
    BY <1>5, <1>6, <2>2, <2>4
<1> QED
  BY <1>2, <1>4, <1>5, <1>6

\* A call that writes over an entry, empties its slot, or neither: what it
\* does to one slot, one key and one entry.
LEMMA SlotWritten ==
    ASSUME CapAssumption, HashesAssumption, CuckooInv, call.mode = "idle",
           NEW t \in 0 .. 1, NEW i \in Slots, NEW e \in Entry, tables[t][i] # None,
           e # None => e[1] = tables[t][i][1],
           tables' = [tables EXCEPT ![t][i] = e], UNCHANGED <<seeds, call>>,
           n_elements' = IF e = None THEN n_elements - 1 ELSE n_elements,
           dict' \in [Keys -> SUBSET Values], tainted' \subseteq Keys
    PROVE  /\ Typed' /\ Modes' /\ Home' /\ Reversible' /\ Counted'
           /\ Contents'[<<t, i>>] = e
           /\ \A r \in Place : r # <<t, i>> => Contents'[r] = Contents[r]
<1>1. /\ Typed /\ Modes /\ Home /\ Counted /\ tables \in Tables /\ call \in Call
      /\ n_elements \in 0 .. 2 * Cap /\ seeds \in [0 .. 1 -> Hashes] /\ Cap \in Nat
  BY Now DEF CuckooInv
<1>2. /\ tables' \in Tables /\ tables'[t][i] = e
      /\ \A u \in 0 .. 1, j \in Slots : ~(u = t /\ j = i) => tables'[u][j] = tables[u][j]
  <2>1. Written(tables, tables', t, i, e)
    BY <1>1, SetSlot
  <2> QED
    BY <2>1 DEF Written
<1>3. /\ Contents \in [Place -> Entry]
      /\ \A u \in 0 .. 1, j \in Slots : Contents[<<u, j>>] = tables[u][j]
  BY WhereKeysAre
<1>4. n_elements # 0
  <2>1. IsFiniteSet(Filled(Contents)) /\ Cardinality(Filled(Contents)) \in Nat
    BY PlacesFinite
  <2>2. <<t, i>> \in Filled(Contents)
    BY <1>3, Places DEF Filled
  <2>3. Cardinality(Filled(Contents)) # 0
    BY <2>1, <2>2, FS_EmptySet
  <2> QED
    BY <1>1, <2>3 DEF Counted
<1>5. n_elements' \in 0 .. 2 * Cap
  BY <1>1, <1>4
<1>6. Typed'
  BY <1>1, <1>2, <1>5, TypedAgain
<1>7. Modes' /\ Reversible'
  BY <1>1 DEF Modes, Reversible
<1>8. Home'
  <2>1. seeds[t][tables[t][i][1]] = i
    BY <1>1 DEF Home
  <2> QED
    BY <1>1, <1>2, <2>1 DEF Home
<1>9. /\ Contents'[<<t, i>>] = e
      /\ \A r \in Place : r # <<t, i>> => Contents'[r] = Contents[r]
  <2>1. Contents'[<<t, i>>] = e
    BY <1>1, <1>2, <1>6, ContentsNow
  <2>2. ASSUME NEW r \in Place, r # <<t, i>> PROVE Contents'[r] = Contents[r]
    <3>1. CASE r = InHand \/ r = Aside
      BY <1>1, <1>6, <3>1, ContentsNow
    <3>2. ASSUME NEW u \in 0 .. 1, NEW j \in Slots, r = <<u, j>>
          PROVE  Contents'[r] = Contents[r]
      BY <1>1, <1>2, <1>6, <2>2, <3>2, ContentsNow
    <3> QED
      BY <3>1, <3>2, Places
  <2> QED
    BY <2>1, <2>2
<1>10. Counted'
  <2>1. <<t, i>> \in Place /\ Contents[<<t, i>>] # None
    BY <1>3, Places
  <2>2. Cardinality(Filled(Contents')) = Cardinality(Filled(Contents)) +
            (IF e = None THEN -1 ELSE 0)
    BY <1>9, <2>1, OnePlace
  <2>3. n_elements = Cardinality(Filled(Contents)) /\ n_elements \in Nat
    BY <1>1 DEF Counted
  <2> QED
    BY <2>2, <2>3 DEF Counted
<1> QED
  BY <1>6, <1>7, <1>8, <1>9, <1>10

\* remove() takes away the one entry of an unspoilt key, and clears a spoilt
\* one when it takes its last entry.
LEMMA RemoveStep ==
    ASSUME CapAssumption, HashesAssumption, CuckooInv, NEW k \in Keys, Remove(k)
    PROVE  CuckooInv'
<1>1. PICK t \in 0 .. 1 :
        /\ IsAt(k, t) /\ (t = 1 => ~IsAt(k, 0))
        /\ tables' = [tables EXCEPT ![t][seeds[t][k]] = None]
        /\ tainted' = IF t = 0 /\ IsAt(k, 1) THEN tainted ELSE tainted \ {k}
  BY DEF Remove
<1>2. /\ call.mode = "idle" /\ n_elements' = n_elements - 1
      /\ dict' = [dict EXCEPT ![k] = {}] /\ UNCHANGED <<seeds, call>>
  BY DEF Remove
<1>3. /\ Typed /\ Exact /\ dict \in [Keys -> SUBSET Values] /\ tainted \subseteq Keys
      /\ seeds[t][k] \in Slots
  BY Now DEF CuckooInv
<1> DEFINE p == <<t, seeds[t][k]>>
<1>4. /\ Typed' /\ Modes' /\ Home' /\ Reversible' /\ Counted'
      /\ Contents'[p] = None
      /\ \A r \in Place : r # p => Contents'[r] = Contents[r]
  <2>1. tables[t][seeds[t][k]] # None
    BY <1>1 DEF IsAt
  <2>2. dict' \in [Keys -> SUBSET Values] /\ tainted' \subseteq Keys
    BY <1>1, <1>2, <1>3
  <2> DEFINE i == seeds[t][k]
             e == None
  <2>3. /\ i \in Slots /\ e \in Entry /\ tables[t][i] # None /\ e = None
        /\ tables' = [tables EXCEPT ![t][i] = e] /\ p = <<t, i>>
    BY <1>1, <1>3, <2>1, Entries
  <2>4. n_elements' = IF e = None THEN n_elements - 1 ELSE n_elements
    BY <1>2
  <2> HIDE DEF i, e, p
  <2>5. /\ Typed' /\ Modes' /\ Home' /\ Reversible' /\ Counted'
        /\ Contents'[<<t, i>>] = e
        /\ \A r \in Place : r # <<t, i>> => Contents'[r] = Contents[r]
    BY <1>2, <2>2, <2>3, <2>4, SlotWritten
  <2> QED
    BY <2>3, <2>5
<1>5. p \in Place /\ Has(Contents[p], k)
  BY <1>1, <1>2, <1>3, WhereKeysAre, Places
<1> HIDE DEF p
<1>6. ASSUME NEW x \in Keys \ tainted', x # k PROVE ExactFor(Contents', dict', x)
  <2>1. ExactFor(Contents, dict, x) /\ dict'[x] = dict[x]
    BY <1>1, <1>2, <1>3, <1>6 DEF Exact
  <2>2. \A r \in Place : Has(Contents'[r], x) <=> Has(Contents[r], x)
    BY <1>4, <1>5, <1>6 DEF Has
  <2>3. \A r \in Place : Has(Contents[r], x) => Contents'[r] = Contents[r]
    BY <1>4, <1>5, <1>6 DEF Has
  <2> QED
    BY <2>1, <2>2, <2>3 DEF ExactFor
<1>7. ASSUME k \notin tainted' PROVE ExactFor(Contents', dict', k)
  <2>1. dict'[k] = {}
    BY <1>2, <1>3
  <2>2. ASSUME NEW r \in Place, Has(Contents'[r], k) PROVE FALSE
    <3>1. r # p /\ Has(Contents[r], k)
      BY <1>4, <2>2 DEF Has
    <3>2. PICK u \in 0 .. 1 : r = <<u, seeds[u][k]>> /\ IsAt(k, u)
      BY <1>2, <3>1, WhereKeysAre
    <3>3. u # t
      BY <3>1, <3>2 DEF p
    <3>4. t = 0 /\ IsAt(k, 1)
      BY <1>1, <3>2, <3>3
    <3>5. ExactFor(Contents, dict, k)
      BY <1>1, <1>3, <1>7, <3>4 DEF Exact
    <3> QED
      BY <1>5, <3>1, <3>5 DEF ExactFor
  <2> QED
    BY <2>1, <2>2 DEF ExactFor
<1>8. Exact'
  BY <1>6, <1>7 DEF Exact
<1> QED
  BY <1>4, <1>8 DEF CuckooInv

\* get_mut() and a write: exact for every key that this does not spoil.
LEMMA GetMutStep ==
    ASSUME CapAssumption, HashesAssumption, CuckooInv, NEW k \in Keys, NEW v \in Values,
           GetMut(k, v)
    PROVE  CuckooInv'
<1>1. PICK t \in 0 .. 1 :
        LET i == seeds[t][k] IN
        /\ tables[t][i] # None
        /\ tables' = [tables EXCEPT ![t][i][2] = v]
        /\ tainted' = IF tables[t][i][1] = k THEN tainted
                      ELSE tainted \cup {tables[t][i][1]} \cup {x \in {k} : dict[k] # {}}
  BY DEF GetMut
<1> DEFINE i == seeds[t][k]
           key == tables[t][i][1]
           e == <<key, v>>
           p == <<t, i>>
<1>2. /\ call.mode = "idle" /\ dict' = [dict EXCEPT ![k] = IF @ = {} THEN {} ELSE {v}]
      /\ UNCHANGED <<seeds, n_elements, call>>
  BY DEF GetMut
<1>3. /\ Typed /\ Exact /\ dict \in [Keys -> SUBSET Values] /\ tainted \subseteq Keys
      /\ i \in Slots /\ tables[t][i] \in Entry /\ tables \in Tables
  BY Now DEF CuckooInv
<1>4. /\ key \in Keys /\ tables[t][i][2] \in Values /\ tables[t][i] = <<key, tables[t][i][2]>>
      /\ e \in Entry /\ e # None /\ e[1] = key /\ e[2] = v
  BY <1>1, <1>3, Entries
<1>5. tables' = [tables EXCEPT ![t][i] = e]
  <2>1. [tables[t][i] EXCEPT ![2] = v] = e
    BY <1>4
  <2>2. tables' = [tables EXCEPT ![t][i] = [tables[t][i] EXCEPT ![2] = v]]
    BY <1>1
  <2> QED
    BY <2>1, <2>2
<1>6. dict' \in [Keys -> SUBSET Values] /\ tainted' \subseteq Keys
  <2>1. (IF dict[k] = {} THEN {} ELSE {v}) \in SUBSET Values
    OBVIOUS
  <2> QED
    BY <1>1, <1>2, <1>3, <1>4, <2>1
<1>7. tables[t][i] # None
  BY <1>1
<1>8. /\ key = k => tainted' = tainted
      /\ key # k => tainted' = tainted \cup {key} \cup {x \in {k} : dict[k] # {}}
  BY <1>1
<1>9. p \in Place /\ Contents[p] = tables[t][i] /\ Contents[p] # None /\ Contents[p][1] = key
  BY <1>2, <1>3, <1>7, WhereKeysAre, Places
<1> HIDE DEF i, key, e, p
<1>10. /\ Typed' /\ Modes' /\ Home' /\ Reversible' /\ Counted'
       /\ Contents'[p] = e
       /\ \A r \in Place : r # p => Contents'[r] = Contents[r]
  BY <1>2, <1>3, <1>4, <1>5, <1>6, <1>7, SlotWritten DEF p, key
<1>11. ASSUME NEW x \in Keys \ tainted' PROVE ExactFor(Contents', dict', x)
  <2>1. ExactFor(Contents, dict, x)
    BY <1>3, <1>8, <1>11 DEF Exact
  <2>2. \A r \in Place : Has(Contents'[r], x) <=> Has(Contents[r], x)
    BY <1>4, <1>9, <1>10 DEF Has
  <2>3. CASE x # key
    <3>1. dict'[x] = dict[x]
      <4>1. x = k => dict[k] = {}
        BY <1>8, <1>11, <2>3
      <4> QED
        BY <1>2, <1>3, <4>1
    <3>2. \A r \in Place : Has(Contents[r], x) => Contents'[r] = Contents[r]
      BY <1>9, <1>10, <2>3 DEF Has
    <3> QED
      BY <2>1, <2>2, <3>1, <3>2 DEF ExactFor
  <2>4. CASE x = key
    <3>1. key = k
      BY <1>8, <1>11, <2>4
    <3>2. Has(Contents[p], x)
      BY <1>9, <2>4 DEF Has
    <3>3. dict[x] # {} /\ \A r \in Place : Has(Contents[r], x) => r = p
      BY <1>9, <2>1, <3>2 DEF ExactFor
    <3>4. dict'[x] = {v}
      BY <1>2, <1>3, <2>4, <3>1, <3>3
    <3> QED
      BY <1>4, <1>9, <1>10, <2>2, <3>2, <3>3, <3>4 DEF ExactFor
  <2> QED
    BY <2>3, <2>4
<1>12. Exact'
  BY <1>11 DEF Exact
<1> QED
  BY <1>10, <1>12 DEF CuckooInv

\* insert() over an entry in the first table.
LEMMA InsertOver ==
    ASSUME CapAssumption, HashesAssumption, CuckooInv, NEW k \in Keys, NEW v \in Values,
           Insert(k, v), IsAt(k, 0)
    PROVE  CuckooInv'
<1> DEFINE i == seeds[0][k]
           e == <<k, v>>
           p == <<0, i>>
<1>1. /\ call.mode = "idle" /\ tables' = [tables EXCEPT ![0][i] = e]
      /\ dict' = [dict EXCEPT ![k] = {v}]
      /\ UNCHANGED <<seeds, n_elements, call, tainted>>
  BY DEF Insert
<1>2. /\ Typed /\ Exact /\ dict \in [Keys -> SUBSET Values] /\ tainted \subseteq Keys
      /\ 0 \in 0 .. 1 /\ i \in Slots /\ tables[0][i] # None /\ tables[0][i][1] = k
  BY Now DEF CuckooInv, IsAt
<1>3. e \in Entry /\ e # None /\ e[1] = k /\ e[2] = v
  BY Entries
<1>4. p \in Place /\ Has(Contents[p], k)
  BY <1>1, <1>2, WhereKeysAre, Places DEF Has
<1>5. dict' \in [Keys -> SUBSET Values]
  BY <1>1, <1>2
<1> HIDE DEF i, e
<1>6. n_elements' = IF e = None THEN n_elements - 1 ELSE n_elements
  BY <1>1, <1>3
<1>7. /\ Typed' /\ Modes' /\ Home' /\ Reversible' /\ Counted'
      /\ Contents'[p] = e
      /\ \A r \in Place : r # p => Contents'[r] = Contents[r]
  <2> DEFINE t == 0
  <2>1. /\ t \in 0 .. 1 /\ i \in Slots /\ e \in Entry /\ p = <<t, i>>
        /\ tables' = [tables EXCEPT ![t][i] = e]
    BY <1>1, <1>2, <1>3 DEF i
  <2>2. tables[t][i] # None /\ (e # None => e[1] = tables[t][i][1])
    BY <1>2, <1>3 DEF i
  <2>3. call.mode = "idle" /\ UNCHANGED <<seeds, call>> /\ tainted' \subseteq Keys
    BY <1>1, <1>2
  <2> HIDE DEF t, p
  <2> QED
    BY <1>5, <1>6, <2>1, <2>2, <2>3, SlotWritten
<1> HIDE DEF p
<1>8. ASSUME NEW x \in Keys \ tainted' PROVE ExactFor(Contents', dict', x)
  <2>1. ExactFor(Contents, dict, x)
    BY <1>1, <1>2, <1>8 DEF Exact
  <2>2. \A r \in Place : Has(Contents'[r], x) <=> Has(Contents[r], x)
    BY <1>3, <1>4, <1>7 DEF Has
  <2>3. CASE x # k
    <3>1. dict'[x] = dict[x]
      BY <1>1, <1>2, <2>3
    <3>2. \A r \in Place : Has(Contents[r], x) => Contents'[r] = Contents[r]
      BY <1>4, <1>7, <2>3 DEF Has
    <3> QED
      BY <2>1, <2>2, <3>1, <3>2 DEF ExactFor
  <2>4. CASE x = k
    <3>1. \A r \in Place : Has(Contents[r], x) => r = p
      BY <1>4, <2>1, <2>4 DEF ExactFor
    <3>2. dict'[x] = {v}
      BY <1>1, <1>2, <2>4
    <3> QED
      BY <1>3, <1>4, <1>7, <2>2, <2>4, <3>1, <3>2 DEF ExactFor
  <2> QED
    BY <2>3, <2>4
<1>9. Exact'
  BY <1>8 DEF Exact
<1> QED
  BY <1>7, <1>9 DEF CuckooInv

\* insert() of a key that is not in the first table; in the second it spoils it.
LEMMA InsertNew ==
    ASSUME CapAssumption, HashesAssumption, CuckooInv, NEW k \in Keys, NEW v \in Values,
           Insert(k, v), ~IsAt(k, 0)
    PROVE  CuckooInv'
<1> DEFINE e == <<k, v>>
<1>1. /\ call.mode = "idle" /\ n_elements < 2 * Cap
      /\ n_elements' = n_elements + 1 /\ call' = Cuckoo(e)
      /\ tainted' = IF IsAt(k, 1) THEN tainted \cup {k} ELSE tainted
      /\ dict' = [dict EXCEPT ![k] = {v}]
      /\ UNCHANGED <<seeds, tables>>
  BY DEF Insert
<1>2. e \in Entry /\ e # None /\ e[1] = k /\ e[2] = v
  BY Entries
<1> HIDE DEF e
<1>3. /\ Typed /\ Home /\ Exact /\ Counted /\ tables \in Tables
      /\ n_elements \in 0 .. 2 * Cap /\ seeds \in [0 .. 1 -> Hashes] /\ Cap \in Nat
      /\ dict \in [Keys -> SUBSET Values] /\ tainted \subseteq Keys
  BY Now DEF CuckooInv
<1>4. call' = [Idle EXCEPT !.mode = "insert", !.hand = e, !.n_loops = Threshold,
                           !.saved = <<e, tables>>]
  BY <1>1 DEF Cuckoo
<1>5. call' = [mode |-> "insert", hand |-> e, t |-> 0, n_loops |-> Threshold,
               cursor |-> 0, pending |-> None, saved |-> <<e, tables>>]
  BY <1>4 DEF Idle
<1>6. call' \in Call
  <2>1. Threshold \in 0 .. 2 * Cap /\ 0 \in 0 .. 2 * Cap /\ None \in Entry
    BY <1>3, ThresholdType, Entries
  <2> QED
    BY <1>2, <1>3, <1>5, <2>1 DEF Call
<1>7. Typed'
  <2>1. n_elements' \in 0 .. 2 * Cap
    BY <1>1, <1>3
  <2>2. dict' \in [Keys -> SUBSET Values] /\ tainted' \subseteq Keys
    BY <1>1, <1>3
  <2> QED
    BY <1>1, <1>3, <1>6, <2>1, <2>2, TypedAgain
<1>8. call'.mode = "insert" /\ call'.hand = e /\ call'.pending = None
  BY <1>5
<1>9. Modes'
  BY <1>8 DEF Modes
<1>10. Home'
  BY <1>1, <1>3, <1>8 DEF Home
<1>11. Reversible'
  <2>1. \E H \in [Nat -> Position] : Attempt(H)'
    BY <1>1, <1>2, <1>3, <1>4, AttemptStarts
  <2> QED
    BY <2>1 DEF Reversible
<1>12. /\ Contents[InHand] = None /\ Contents'[InHand] = e /\ InHand \in Place
       /\ \A r \in Place : r # InHand => Contents'[r] = Contents[r]
  <2>1. Contents[InHand] = None /\ Contents[Aside] = None
    BY <1>1, WhereKeysAre
  <2>2. ASSUME NEW r \in Place, r # InHand PROVE Contents'[r] = Contents[r]
    <3>1. CASE r = Aside
      BY <1>3, <1>7, <1>8, <2>1, <3>1, ContentsNow
    <3>2. ASSUME NEW t \in 0 .. 1, NEW i \in Slots, r = <<t, i>>
          PROVE  Contents'[r] = Contents[r]
      BY <1>1, <1>3, <1>7, <3>2, ContentsNow
    <3> QED
      BY <2>2, <3>1, <3>2, Places
  <2>3. Contents'[InHand] = e
    BY <1>3, <1>7, <1>8, ContentsNow
  <2> QED
    BY <2>1, <2>2, <2>3, Places
<1>13. Counted'
  <2>1. Cardinality(Filled(Contents')) = Cardinality(Filled(Contents)) + 1
    BY <1>2, <1>12, OnePlace
  <2> QED
    BY <1>1, <1>3, <2>1 DEF Counted
<1>14. ASSUME NEW x \in Keys \ tainted' PROVE ExactFor(Contents', dict', x)
  <2>1. ExactFor(Contents, dict, x)
    BY <1>1, <1>3, <1>14 DEF Exact
  <2>2. CASE x # k
    <3>1. dict'[x] = dict[x]
      BY <1>1, <1>3, <2>2
    <3>2. \A r \in Place : Has(Contents'[r], x) <=> Has(Contents[r], x)
      BY <1>2, <1>12, <2>2 DEF Has
    <3>3. \A r \in Place : Has(Contents[r], x) => Contents'[r] = Contents[r]
      BY <1>12 DEF Has
    <3> QED
      BY <2>1, <3>1, <3>2, <3>3 DEF ExactFor
  <2>3. CASE x = k
    <3>1. ~IsAt(k, 1)
      BY <1>1, <1>14, <2>3
    <3>2. \A r \in Place : ~Has(Contents[r], k)
      <4> SUFFICES ASSUME NEW r \in Place, Has(Contents[r], k) PROVE FALSE
        OBVIOUS
      <4>1. PICK t \in 0 .. 1 : IsAt(k, t)
        BY <1>1, WhereKeysAre
      <4> QED
        BY <3>1, <4>1
    <3>3. \A r \in Place : Has(Contents'[r], k) => r = InHand
      BY <1>12, <3>2 DEF Has
    <3>4. Has(Contents'[InHand], k) /\ dict'[k] = {v} /\ Contents'[InHand][2] = v
      BY <1>1, <1>2, <1>3, <1>12 DEF Has
    <3> QED
      BY <1>12, <2>3, <3>3, <3>4 DEF ExactFor
  <2> QED
    BY <2>2, <2>3
<1>15. Exact'
  BY <1>14 DEF Exact
<1> QED
  BY <1>7, <1>9, <1>10, <1>11, <1>13, <1>15 DEF CuckooInv

-----------------------------------------------------------------------------

LEMMA CuckooInit ==
    ASSUME CapAssumption, HashesAssumption, Init
    PROVE  CuckooInv
<1>1. /\ seeds \in [0 .. 1 -> Hashes] /\ n_elements = 0 /\ call = Idle
      /\ tables = [t \in 0 .. 1 |-> [i \in Slots |-> None]]
      /\ dict = [k \in Keys |-> {}] /\ tainted = {}
  BY DEF Init
<1>2. tables \in Tables /\ \A t \in 0 .. 1, i \in Slots : tables[t][i] = None
  BY <1>1, Entries DEF Tables
<1>3. Idle \in Call /\ Cap \in Nat /\ 0 \in 0 .. 2 * Cap
  <2>1. 0 \in 0 .. 2 * Cap /\ Cap \in Nat
    BY DEF CapAssumption
  <2> QED
    BY <2>1, Entries DEF Idle, Call
<1>4. call.mode = "idle" /\ call.hand = None /\ call.pending = None
  BY <1>1 DEF Idle
<1>5. Typed
  <2>1. /\ call.mode \in {"idle", "insert", "undo", "rehash"}
        /\ call.hand \in Entry /\ call.pending \in Entry /\ call.t \in 0 .. 1
        /\ call.n_loops \in 0 .. 2 * Cap /\ call.cursor \in 0 .. 2 * Cap
    BY <1>1, <1>3 DEF Call
  <2>2. dict \in [Keys -> SUBSET Values] /\ tainted \subseteq Keys /\ n_elements \in 0 .. 2 * Cap
    BY <1>1, <1>3
  <2> QED
    BY <1>1, <1>2, <1>3, <2>1, <2>2 DEF Typed, CuckooTypeOK, Tables
<1>6. Modes /\ Reversible /\ Home
  BY <1>2, <1>4 DEF Modes, Reversible, Home
<1>7. \A r \in Place : Contents[r] = None
  <2>1. Contents[InHand] = None /\ Contents[Aside] = None
        /\ \A t \in 0 .. 1, i \in Slots : Contents[<<t, i>>] = None
    <3>1. Contents = ContentsOf(tables, None, None)
      BY <1>4 DEF Contents
    <3>2. None \in Entry /\ tables \in Tables
      BY <1>2, Entries
    <3> HIDE DEF Contents
    <3>3. /\ Contents[InHand] = None /\ Contents[Aside] = None
          /\ \A t \in 0 .. 1, i \in Slots : Contents[<<t, i>>] = tables[t][i]
      BY <3>1, <3>2, ContentsAt
    <3> QED
      BY <1>2, <3>3
  <2> QED
    BY <2>1, Places
<1>8. Exact
  BY <1>1, <1>7 DEF Exact, ExactFor, Has
<1>9. Counted
  <2>1. Filled(Contents) = {}
    BY <1>7 DEF Filled
  <2> QED
    BY <1>1, <2>1, FS_EmptySet DEF Counted
<1> QED
  BY <1>5, <1>6, <1>8, <1>9 DEF CuckooInv

LEMMA CuckooNext ==
    ASSUME CapAssumption, HashesAssumption, CuckooInv, [Next]_vars
    PROVE  CuckooInv'
<1>1. CASE UNCHANGED vars
  <2>1. UNCHANGED <<seeds, tables, n_elements, call, dict, tainted>>
    BY <1>1 DEF vars
  <2>2. Typed' /\ Modes' /\ Home'
    BY <2>1 DEF CuckooInv, Typed, CuckooTypeOK, Modes, Home
  <2>3. ASSUME NEW H \in [Nat -> Position], Attempt(H) PROVE Attempt(H)'
    <3>1. Threshold' = Threshold
      BY DEF Threshold
    <3>2. \A n : Trail(H, n)' = Trail(H, n)
      BY <2>1 DEF Trail, AllHome, Turn
    <3> QED
      BY <2>1, <2>3, <3>1, <3>2 DEF Attempt
  <2>4. Reversible'
    BY <2>1, <2>3 DEF CuckooInv, Reversible
  <2>5. Contents' = Contents
    BY <2>1 DEF Contents
  <2>6. Exact' /\ Counted'
    BY <2>1, <2>5 DEF CuckooInv, Exact, Counted
  <2> QED
    BY <2>2, <2>4, <2>6 DEF CuckooInv
<1>2. ASSUME NEW k \in Keys, NEW v \in Values, Insert(k, v) PROVE CuckooInv'
  BY <1>2, InsertOver, InsertNew
<1>3. ASSUME NEW k \in Keys, NEW v \in Values, GetMut(k, v) PROVE CuckooInv'
  BY <1>3, GetMutStep
<1>4. ASSUME NEW k \in Keys, Remove(k) PROVE CuckooInv'
  BY <1>4, RemoveStep
<1>5. CASE Displace \/ Placed \/ Undo \/ StartRehash \/ RehashNext \/ RehashFailed
  BY <1>5, DisplaceStep, PlacedStep, UndoStep, StartRehashStep, RehashNextStep, RehashFailedStep
<1> QED
  BY <1>1, <1>2, <1>3, <1>4, <1>5 DEF Next

LEMMA CuckooCorrect ==
    ASSUME CapAssumption, HashesAssumption PROVE Spec => []CuckooInv
<1>1. Init => CuckooInv
  BY CuckooInit
<1>2. CuckooInv /\ [Next]_vars => CuckooInv'
  BY CuckooNext
<1> QED
  BY <1>1, <1>2, PTL DEF Spec

\* The variables have their types; with them, n_elements never falls below 0
\* nor exceeds the slots of both tables.
THEOREM TypeCorrect ==
    ASSUME CapAssumption, HashesAssumption PROVE Spec => []CuckooTypeOK
<1>1. CuckooInv => CuckooTypeOK
  BY DEF CuckooInv, Typed
<1> QED
  BY <1>1, CuckooCorrect, PTL

\* Every entry is where its hash says, in a slot the scan of a rehash has
\* passed or, when none runs, in any.
THEOREM EntriesAtHome ==
    ASSUME CapAssumption, HashesAssumption PROVE Spec => []Home
<1>1. CuckooInv => Home
  BY DEF CuckooInv
<1> QED
  BY <1>1, CuckooCorrect, PTL

\* The comments at lines 121 and 130: an insertion given up hands back the
\* entry it was passed and leaves the tables as they were.
THEOREM GivingUpRestores ==
    ASSUME CapAssumption, HashesAssumption PROVE Spec => []UndoRestores
<1>1. CuckooInv => UndoRestores
  <2> SUFFICES ASSUME CuckooInv, call.mode = "undo", call.n_loops = 0
               PROVE  <<call.hand, tables>> = call.saved
    BY DEF UndoRestores
  <2>1. PICK H \in [Nat -> Position] : Attempt(H)
    BY DEF CuckooInv, Reversible
  <2>2. /\ H[0] = [hand |-> call.hand, tables |-> tables, t |-> 1 - call.t]
        /\ call.saved = <<H[0].hand, H[0].tables>>
    BY <2>1 DEF Attempt
  <2> QED
    BY <2>2
<1> QED
  BY <1>1, CuckooCorrect, PTL

\* No entry is lost or doubled within a call, and between calls get() answers
\* what was stored last under every key that no call has spoilt.
THEOREM MapIsFaithful ==
    ASSUME CapAssumption, HashesAssumption PROVE Spec => []Faithful
<1>1. CuckooInv => Faithful
  <2> SUFFICES ASSUME CuckooInv PROVE Faithful
    OBVIOUS
  <2>1. Typed /\ Exact /\ Counted
    BY DEF CuckooInv
  <2> DEFINE held == {f \in {"hand", "pending"} : call[f] # None}
             h == IF call.hand # None THEN {InHand} ELSE {}
             a == IF call.pending # None THEN {Aside} ELSE {}
  <2>2. Contents \in [Place -> Entry] /\ Contents[InHand] = call.hand
        /\ Contents[Aside] = call.pending
        /\ \A t \in 0 .. 1, i \in Slots : Contents[<<t, i>>] = tables[t][i]
    BY <2>1, Now, ContentsAt DEF Contents
  <2>3. Filled(Contents) = Occupied \cup (h \cup a)
    <3>1. ASSUME NEW p \in Place PROVE p \in Filled(Contents) <=> p \in Occupied \cup (h \cup a)
      <4>1. CASE p = InHand
        BY <2>2, <4>1, Places DEF Filled, Occupied
      <4>2. CASE p = Aside
        BY <2>2, <4>2, Places DEF Filled, Occupied
      <4>3. ASSUME NEW t \in 0 .. 1, NEW i \in Slots, p = <<t, i>>
            PROVE  p \in Filled(Contents) <=> p \in Occupied \cup (h \cup a)
        <5>1. p \in Occupied <=> tables[t][i] # None
          BY <4>3 DEF Occupied
        <5> QED
          BY <2>2, <4>3, <5>1, Places DEF Filled
      <4> QED
        BY <4>1, <4>2, <4>3, Places
    <3>2. Filled(Contents) \subseteq Place /\ Occupied \cup (h \cup a) \subseteq Place
      BY Places DEF Filled, Occupied, Place
    <3> HIDE DEF h, a
    <3> QED
      BY <3>1, <3>2
  <2>4. Occupied \cap (h \cup a) = {} /\ IsFiniteSet(Occupied) /\ Cardinality(Occupied) \in Nat
    <3>1. Occupied \in SUBSET ((0 .. 1) \X Slots)
      BY DEF Occupied
    <3>2. InHand \notin Occupied /\ Aside \notin Occupied
      BY DEF InHand, Aside, Occupied
    <3> QED
      BY <3>1, <3>2, PlacesFinite, FS_Subset, FS_CardinalityType
  <2>5. IsFiniteSet(h \cup a) /\ Cardinality(h \cup a) = Cardinality(held)
    <3>1. call \in Call
      BY <2>1 DEF Typed
    <3>2. call["hand"] = call.hand /\ call["pending"] = call.pending
      OBVIOUS
    <3>3. CASE call.hand # None /\ call.pending # None
      <4>1. h \cup a = {InHand, Aside} /\ held = {"hand", "pending"}
        BY <3>3
      <4>2. ASSUME NEW x, NEW y, x # y
            PROVE  IsFiniteSet({x, y}) /\ Cardinality({x, y}) = 2
        <5>1. IsFiniteSet({x}) /\ Cardinality({x}) = 1
          BY FS_Singleton
        <5>2. y \notin {x} /\ {x, y} = {x} \cup {y}
          BY <4>2
        <5>3. IsFiniteSet({x} \cup {y}) /\ Cardinality({x} \cup {y}) = 1 + 1
          BY <5>1, <5>2, FS_AddElement
        <5> QED
          BY <5>2, <5>3
      <4>3. InHand # Aside /\ "hand" # "pending"
        BY Places
      <4> HIDE DEF h, a, held
      <4> QED
        BY <4>1, <4>2, <4>3
    <3>4. CASE call.hand # None /\ call.pending = None
      <4>1. h \cup a = {InHand} /\ held = {"hand"}
        BY <3>4
      <4> HIDE DEF h, a, held
      <4>2. IsFiniteSet({InHand}) /\ Cardinality({InHand}) = 1 /\ Cardinality({"hand"}) = 1
        BY FS_Singleton
      <4> QED
        BY <4>1, <4>2
    <3>5. CASE call.hand = None /\ call.pending # None
      <4>1. h \cup a = {Aside} /\ held = {"pending"}
        BY <3>5
      <4> HIDE DEF h, a, held
      <4>2. IsFiniteSet({Aside}) /\ Cardinality({Aside}) = 1 /\ Cardinality({"pending"}) = 1
        BY FS_Singleton
      <4> QED
        BY <4>1, <4>2
    <3>6. CASE call.hand = None /\ call.pending = None
      <4>1. h \cup a = {} /\ held = {}
        BY <3>6
      <4> QED
        BY <4>1, FS_EmptySet
    <3> QED
      BY <3>3, <3>4, <3>5, <3>6
  <2> HIDE DEF h, a
  <2>6. Cardinality(Occupied \cap (h \cup a)) = 0 /\ Cardinality(h \cup a) \in Nat
    BY <2>4, <2>5, FS_EmptySet, FS_CardinalityType
  <2>7. Cardinality(Occupied \cup (h \cup a)) =
            Cardinality(Occupied) + Cardinality(h \cup a) - 0
    BY <2>4, <2>5, <2>6, FS_Union
  <2>8. n_elements = Cardinality(Occupied) + Cardinality(held)
    BY <2>1, <2>3, <2>4, <2>5, <2>6, <2>7 DEF Counted
  <2>9. ASSUME call.mode = "idle", NEW k \in Keys \ tainted PROVE Lookup(k) = dict[k]
    <3>1. ExactFor(Contents, dict, k) /\ \A t \in 0 .. 1 : seeds[t][k] \in Slots
      BY <2>1, <2>9, Now DEF Exact
    <3>2. CASE dict[k] = {}
      <4>1. ASSUME NEW t \in 0 .. 1 PROVE ~IsAt(k, t)
        <5> SUFFICES ASSUME IsAt(k, t) PROVE FALSE
          OBVIOUS
        <5>1. <<t, seeds[t][k]>> \in Place
          BY <3>1, Places
        <5>2. Has(Contents[<<t, seeds[t][k]>>], k)
          BY <2>9, WhereKeysAre
        <5>3. dict[k] = {Contents[<<t, seeds[t][k]>>][2]}
          BY <3>1, <5>1, <5>2 DEF ExactFor
        <5> QED
          BY <3>2, <5>3
      <4> QED
        BY <3>2, <4>1 DEF Lookup
    <3>3. CASE dict[k] # {}
      <4>1. PICK p \in Place : Has(Contents[p], k)
        BY <3>1, <3>3 DEF ExactFor
      <4>2. PICK t \in 0 .. 1 : p = <<t, seeds[t][k]>> /\ IsAt(k, t)
        BY <2>9, <4>1, WhereKeysAre
      <4>3. dict[k] = {Contents[p][2]} /\ Contents[p] = tables[t][seeds[t][k]]
        BY <2>2, <3>1, <4>1, <4>2 DEF ExactFor
      <4>4. ASSUME NEW u \in 0 .. 1, IsAt(k, u) PROVE u = t
        <5>1. Has(Contents[<<u, seeds[u][k]>>], k) /\ <<u, seeds[u][k]>> \in Place
          BY <2>9, <3>1, <4>4, WhereKeysAre, Places
        <5>2. <<u, seeds[u][k]>> = p
          BY <3>1, <4>1, <5>1 DEF ExactFor
        <5> QED
          BY <3>1, <4>2, <5>2, Places
      <4>5. {u \in 0 .. 1 : IsAt(k, u) /\ (u = 1 => ~IsAt(k, 0))} = {t}
        BY <4>2, <4>4
      <4> QED
        BY <4>3, <4>5 DEF Lookup
    <3> QED
      BY <3>2, <3>3
  <2> QED
    BY <2>8, <2>9 DEF Faithful
<1> QED
  BY <1>1, CuckooCorrect, PTL

\* rehash() that gives up has a slot to put the entry in hand: the
\* unreachable!() of find_vacancy() is not reached.
THEOREM VacancyLeft ==
    ASSUME CapAssumption, HashesAssumption
    PROVE  Spec => [](call.mode = "rehash" /\ call.hand # None =>
                        \E t \in 0 .. 1, i \in Slots : tables[t][i] = None)
<1>1. CuckooInv => (call.mode = "rehash" /\ call.hand # None =>
                      \E t \in 0 .. 1, i \in Slots : tables[t][i] = None)
  <2> SUFFICES ASSUME CuckooInv, call.hand # None,
                      \A t \in 0 .. 1, i \in Slots : tables[t][i] # None
               PROVE  call.mode # "rehash"
    OBVIOUS
  <2>1. Typed /\ Modes /\ Counted /\ n_elements \in 0 .. 2 * Cap /\ Cap \in Nat
    BY Now DEF CuckooInv
  <2>2. Contents[InHand] = call.hand /\ Contents[Aside] = call.pending
        /\ \A t \in 0 .. 1, i \in Slots : Contents[<<t, i>>] = tables[t][i]
    BY <2>1, Now, ContentsAt DEF Contents
  <2> DEFINE S == (0 .. 1) \X Slots
  <2>3. S \cup {InHand} \in SUBSET Filled(Contents)
    <3>1. \A p \in S : \E t \in 0 .. 1, i \in Slots : p = <<t, i>>
      OBVIOUS
    <3>2. S \cup {InHand} \subseteq Place
      BY Places DEF Place
    <3> HIDE DEF S
    <3> QED
      BY <2>2, <3>1, <3>2 DEF Filled
  <2>4. IsFiniteSet(S) /\ Cardinality(S) = 2 * Cap /\ IsFiniteSet(Filled(Contents))
    BY PlacesFinite
  <2>5. InHand \notin S
    BY DEF InHand
  <2> HIDE DEF S
  <2>6. IsFiniteSet(S \cup {InHand}) /\ Cardinality(S \cup {InHand}) = 2 * Cap + 1
    BY <2>4, <2>5, FS_AddElement
  <2>7. Cardinality(S \cup {InHand}) <= Cardinality(Filled(Contents))
    BY <2>3, <2>4, FS_Subset
  <2> QED
    BY <2>1, <2>6, <2>7 DEF Counted
<1> QED
  BY <1>1, CuckooCorrect, PTL

=============================================================================
