------------------------- MODULE PlainProgramsProofs -------------------------
(***************************************************************************)
(* Proofs about PlainPrograms: serial numbers of any width, a circular     *)
(* queue of any capacity, a doubly linked list over any addresses, stable  *)
(* marriages of any number of people with any preferences, and maximum     *)
(* matchings of any bipartite graph.                                       *)
(***************************************************************************)
EXTENDS PlainPrograms, FiniteSetTheorems, NaturalsInduction, WellFoundedInduction, TLAPS

-----------------------------------------------------------------------------

\* Serial numbers: the new number is the old one and the distance, less at most
\* one turn round all the numbers.
SerialInv ==
    /\ Serial!SerialTypeOK
    /\ state.old + state.distance \in {state.new, state.new + 2 * MID}

LEMMA WrapsOnce ==
    ASSUME MID \in Nat \ {0}, NEW x \in Int, -2 * MID < x, x < 4 * MID
    PROVE  /\ x < 0 => Serial!Wrapping(x) = x + 2 * MID
           /\ 0 <= x /\ x < 2 * MID => Serial!Wrapping(x) = x
           /\ 2 * MID <= x => Serial!Wrapping(x) = x - 2 * MID
<1> DEFINE T == 2 * MID
<1>1. T \in Int /\ T > 0 /\ Serial!Wrapping(x) = x % T /\ -T < x /\ x < 2 * T
  BY DEF Serial!Wrapping
<1> HIDE DEF T
<1>2. CASE x < 0
  <2>1. x % T = x + T
    BY <1>1, <1>2
  <2> QED
    BY <1>1, <1>2, <2>1 DEF T
<1>3. CASE 0 <= x /\ x < T
  <2>1. x % T = x
    BY <1>1, <1>3
  <2> QED
    BY <1>1, <1>3, <2>1 DEF T
<1>4. CASE T <= x
  <2>1. x % T = x - T
    BY <1>1, <1>4
  <2> QED
    BY <1>1, <1>4, <2>1 DEF T
<1> QED
  BY <1>1, <1>2, <1>3, <1>4 DEF T

LEMMA SerialInitial ==
    ASSUME MID \in Nat \ {0}, Serial!Init PROVE SerialInv
<1>1. PICK s \in 0 .. 2 * MID - 1 : state = [old |-> s, new |-> s, distance |-> 0]
  BY DEF Serial!Init, Serial!Number
<1> QED
  BY <1>1 DEF SerialInv, Serial!SerialTypeOK, Serial!Number

LEMMA SerialAdvance ==
    ASSUME MID \in Nat \ {0}, SerialInv, Serial!Next PROVE SerialInv'
<1>1. PICK n \in 0 .. 2 * MID - 1 :
        /\ Serial!SnAdd(state.new, n) # -1
        /\ state.distance + n <= 2 * MID
        /\ state' = [state EXCEPT !.new = Serial!SnAdd(state.new, n),
                                  !.distance = state.distance + n]
  BY DEF Serial!Next, Serial!Advance, Serial!Number, Serial!None
<1>2. /\ state \in [old : 0 .. 2 * MID - 1, new : 0 .. 2 * MID - 1, distance : 0 .. 2 * MID]
      /\ state.old + state.distance \in {state.new, state.new + 2 * MID}
  BY DEF SerialInv, Serial!SerialTypeOK, Serial!Number
<1> DEFINE s == state.new + n
           new == Serial!SnAdd(state.new, n)
<1>3. n < MID /\ new = Serial!Wrapping(s)
  BY <1>1 DEF Serial!SnAdd, Serial!None
<1>4. s \in 0 .. 3 * MID - 1
  BY <1>2, <1>3
<1>5. new = IF s < 2 * MID THEN s ELSE s - 2 * MID
  <2> HIDE DEF new, s
  <2> QED
    BY <1>3, <1>4, WrapsOnce
<1> HIDE DEF new
<1>6. new \in 0 .. 2 * MID - 1 /\ s \in {new, new + 2 * MID}
  BY <1>4, <1>5
<1>7. state' = [old |-> state.old, new |-> new, distance |-> state.distance + n]
  BY <1>1, <1>2 DEF new
<1>8. state.distance + n \in 0 .. 2 * MID
  BY <1>1, <1>2
<1>9. Serial!SerialTypeOK'
  BY <1>2, <1>6, <1>7, <1>8 DEF Serial!SerialTypeOK, Serial!Number
<1>10. state'.old + state'.distance \in {state'.new, state'.new + 2 * MID}
  <2>1. state.old + (state.distance + n) \in {new, new + 2 * MID}
    BY <1>2, <1>6, <1>8
  <2> QED
    BY <1>7, <2>1
<1> QED
  BY <1>9, <1>10 DEF SerialInv

LEMMA SerialRecovered ==
    ASSUME MID \in Nat \ {0}, SerialInv PROVE Serial!DistanceRecovered
<1> DEFINE o == state.old
           n == state.new
           d == state.distance
<1>1. /\ o \in 0 .. 2 * MID - 1 /\ n \in 0 .. 2 * MID - 1 /\ d \in 0 .. 2 * MID
      /\ o + d \in {n, n + 2 * MID}
  BY DEF SerialInv, Serial!SerialTypeOK, Serial!Number
<1> HIDE DEF o, n, d
<1>2. Serial!SnCmp(o, n) =
        CASE d \in {0, 2 * MID} -> "Equal"
          [] d \in 1 .. MID - 1 -> "Less"
          [] d = MID -> "Undefined"
          [] d \in MID + 1 .. 2 * MID - 1 -> "Greater"
  BY <1>1 DEF Serial!SnCmp
<1>3. Serial!SnSub(n, o) = CASE d \in 0 .. MID - 1 -> d
                             [] d \in MID .. 2 * MID - 1 -> -1
                             [] d = 2 * MID -> 0
  BY <1>1, WrapsOnce DEF Serial!SnSub, Serial!SnCmp, Serial!None
<1> QED
  BY <1>2, <1>3 DEF o, n, d, Serial!DistanceRecovered, Serial!None

LEMMA SerialStep ==
    ASSUME MID \in Nat \ {0}, SerialInv, [Serial!Next]_state PROVE SerialInv'
<1>1. CASE Serial!Next
  BY <1>1, SerialAdvance
<1>2. CASE UNCHANGED state
  BY <1>2 DEF SerialInv, Serial!SerialTypeOK
<1> QED
  BY <1>1, <1>2

\* Whatever additions of less than half the numbers led from the old number to the
\* new one, comparing them and subtracting the old one gives the distance covered,
\* across the wrap-around, up to half the numbers, and refuses beyond.
THEOREM SerialDistance == PlainSpec => []DistanceRecovered
<1> DEFINE Inv == program = "serial" => SerialInv
<1>1. MID \in Nat \ {0}
  BY PlainAssumption DEF Serial!MidAssumption
<1>2. PlainInit => Inv
  BY <1>1, SerialInitial DEF PlainInit
<1>3. Inv /\ [PlainNext]_plainVars => Inv'
  <2> SUFFICES ASSUME Inv, [PlainNext]_plainVars, program' = "serial" PROVE SerialInv'
    OBVIOUS
  <2>1. program = "serial" /\ [Serial!Next]_state
    BY DEF PlainNext, plainVars
  <2> QED
    BY <1>1, <2>1, SerialStep
<1>4. Inv => DistanceRecovered
  BY <1>1, SerialRecovered DEF DistanceRecovered
<1> QED
  BY <1>2, <1>3, <1>4, PTL DEF PlainSpec

-----------------------------------------------------------------------------

\* The k-th value held sits k - 1 places after the head, round the array.
PlaceOf(h, k) == (h + k - 1) % Queue!ArrLen

\* Circular queue: the tail is as far from the head as there are values held,
\* which fill the places from the head to the tail.
Bounded ==
    /\ state \in [array : [0 .. Capacity -> QueueValues \cup {-1}],
                  head : 0 .. Capacity, tail : 0 .. Capacity, held : Seq(QueueValues),
                  taken : [value : QueueValues \cup {-1}, expected : QueueValues \cup {-1}]]
    /\ Len(state.held) <= Capacity
    /\ state.head + Len(state.held) \in {state.tail, state.tail + Queue!ArrLen}
Filled ==
    \A k \in 1 .. Len(state.held) : state.array[PlaceOf(state.head, k)] = state.held[k]
QueueInv == Bounded /\ Filled /\ state.taken.value = state.taken.expected

LEMMA Round ==
    ASSUME Capacity \in Nat, NEW x \in Nat, x < 2 * Queue!ArrLen
    PROVE  x % Queue!ArrLen = IF x < Queue!ArrLen THEN x ELSE x - Queue!ArrLen
<1> DEFINE n == Queue!ArrLen
<1>1. n \in Nat /\ n > 0
  BY DEF Queue!ArrLen
<1> HIDE DEF n
<1>2. CASE x < n
  BY <1>1, <1>2 DEF n
<1>3. CASE n <= x /\ x < 2 * n
  <2>1. x % n = x - n
    BY <1>1, <1>3
  <2> QED
    BY <1>1, <1>3, <2>1 DEF n
<1> QED
  BY <1>1, <1>2, <1>3 DEF n

LEMMA PlaceAt ==
    ASSUME Capacity \in Nat, NEW h \in 0 .. Capacity, NEW k \in 1 .. Capacity + 1
    PROVE  PlaceOf(h, k) = IF h + k - 1 <= Capacity THEN h + k - 1 ELSE h + k - 2 - Capacity
<1> DEFINE x == h + k - 1
<1>1. x \in Nat /\ x < 2 * Queue!ArrLen /\ PlaceOf(h, k) = x % Queue!ArrLen
  BY DEF Queue!ArrLen, PlaceOf
<1> HIDE DEF x
<1>2. PlaceOf(h, k) = IF x < Queue!ArrLen THEN x ELSE x - Queue!ArrLen
  BY <1>1, Round
<1> QED
  BY <1>2 DEF Queue!ArrLen, x

LEMMA NextPlace ==
    ASSUME Capacity \in Nat, NEW h \in 0 .. Capacity
    PROVE  Queue!WrapInc(h) = IF h = Capacity THEN 0 ELSE h + 1
<1> DEFINE x == h + 1
<1>1. x \in Nat /\ x < 2 * Queue!ArrLen /\ Queue!WrapInc(h) = x % Queue!ArrLen
  BY DEF Queue!ArrLen, Queue!WrapInc
<1> HIDE DEF x
<1>2. Queue!WrapInc(h) = IF x < Queue!ArrLen THEN x ELSE x - Queue!ArrLen
  BY <1>1, Round
<1> QED
  BY <1>2 DEF Queue!ArrLen, x

LEMMA QueueInitial ==
    ASSUME Capacity \in Nat, Queue!Init PROVE QueueInv
<1>1. state = [array |-> [i \in 0 .. Capacity |-> -1], head |-> 0, tail |-> 0,
               held |-> <<>>, taken |-> [value |-> -1, expected |-> -1]]
  BY DEF Queue!Init, Queue!Unset
<1>2. Len(<<>>) = 0 /\ <<>> \in Seq(QueueValues)
  OBVIOUS
<1> QED
  BY <1>1, <1>2 DEF QueueInv, Bounded, Filled

LEMMA QueueEnqueue ==
    ASSUME Capacity \in Nat, QueueInv, NEW x \in QueueValues, Queue!Enqueue(x) PROVE QueueInv'
<1> DEFINE a == state.array
           h == state.head
           t == state.tail
           s == state.held
           n == Len(s)
           r == Append(s, x)
<1>1. /\ a \in [0 .. Capacity -> QueueValues \cup {-1}]
      /\ h \in 0 .. Capacity /\ t \in 0 .. Capacity
      /\ s \in Seq(QueueValues) /\ n <= Capacity /\ n \in Nat
      /\ h + n \in {t, t + (Capacity + 1)}
      /\ \A k \in 1 .. n : a[PlaceOf(h, k)] = s[k]
      /\ state.taken \in [value : QueueValues \cup {-1}, expected : QueueValues \cup {-1}]
      /\ state.taken.value = state.taken.expected
  BY DEF QueueInv, Bounded, Filled, Queue!ArrLen
<1>2. /\ h # Queue!WrapInc(t)
      /\ state' = [array |-> [a EXCEPT ![t] = x], head |-> h, tail |-> Queue!WrapInc(t),
                   held |-> r, taken |-> state.taken]
  <2>1. /\ h # Queue!WrapInc(t)
        /\ state' = [state EXCEPT !.array[t] = x, !.tail = Queue!WrapInc(t), !.held = r]
    BY DEF Queue!Enqueue, Queue!IsFull
  <2> HIDE DEF r
  <2> QED
    BY <2>1 DEF QueueInv, Bounded
<1>3. r \in Seq(QueueValues) /\ Len(r) = n + 1 /\ r[n + 1] = x /\ \A k \in 1 .. n : r[k] = s[k]
  BY <1>1
<1> HIDE DEF a, h, t, s, n, r
<1>4. Queue!WrapInc(t) = IF t = Capacity THEN 0 ELSE t + 1
  BY <1>1, NextPlace
<1>5. n + 1 <= Capacity /\ h + (n + 1) \in {Queue!WrapInc(t), Queue!WrapInc(t) + (Capacity + 1)}
      /\ Queue!WrapInc(t) \in 0 .. Capacity
  <2> DEFINE w == Queue!WrapInc(t)
  <2>1. h # w /\ w = IF t = Capacity THEN 0 ELSE t + 1
    BY <1>2, <1>4
  <2> HIDE DEF w
  <2>2. w \in 0 .. Capacity
    BY <1>1, <2>1
  <2>3. n + 1 <= Capacity
    BY <1>1, <2>1
  <2>4. h + (n + 1) \in {w, w + (Capacity + 1)}
    <3>1. CASE t = Capacity
      BY <1>1, <2>1, <2>3, <3>1
    <3>2. CASE t # Capacity
      BY <1>1, <2>1, <3>2
    <3> QED
      BY <3>1, <3>2
  <2> QED
    BY <2>2, <2>3, <2>4 DEF w
<1>6. [a EXCEPT ![t] = x] \in [0 .. Capacity -> QueueValues \cup {-1}]
  BY <1>1
<1>7. Bounded'
  BY <1>1, <1>2, <1>3, <1>5, <1>6 DEF Bounded, Queue!ArrLen
<1>8. ASSUME NEW k \in 1 .. n + 1 PROVE [a EXCEPT ![t] = x][PlaceOf(h, k)] = r[k]
  <2>1. PlaceOf(h, k) = IF h + k - 1 <= Capacity THEN h + k - 1 ELSE h + k - 2 - Capacity
    <3>1. k \in 1 .. Capacity + 1
      BY <1>1, <1>5
    <3> QED
      BY <1>1, <3>1, PlaceAt
  <2>2. PlaceOf(h, k) \in 0 .. Capacity /\ (PlaceOf(h, k) = t <=> k = n + 1)
    BY <1>1, <1>5, <2>1
  <2>3. CASE k = n + 1
    BY <1>1, <1>3, <2>2, <2>3
  <2>4. CASE k # n + 1
    <3>1. k \in 1 .. n
      BY <1>1, <2>4
    <3> QED
      BY <1>1, <1>3, <2>2, <2>4, <3>1
  <2> QED
    BY <2>3, <2>4
<1>9. Filled'
  BY <1>2, <1>3, <1>8 DEF Filled, PlaceOf, Queue!ArrLen
<1> QED
  BY <1>1, <1>2, <1>7, <1>9 DEF QueueInv

LEMMA QueueDequeue ==
    ASSUME Capacity \in Nat, QueueInv, Queue!Dequeue PROVE QueueInv'
<1> DEFINE a == state.array
           h == state.head
           t == state.tail
           s == state.held
           n == Len(s)
           r == Tail(s)
           v == a[h]
           e == Head(s)
<1>1. /\ a \in [0 .. Capacity -> QueueValues \cup {-1}]
      /\ h \in 0 .. Capacity /\ t \in 0 .. Capacity
      /\ s \in Seq(QueueValues) /\ n <= Capacity /\ n \in Nat
      /\ h + n \in {t, t + (Capacity + 1)}
      /\ \A k \in 1 .. n : a[PlaceOf(h, k)] = s[k]
  BY DEF QueueInv, Bounded, Filled, Queue!ArrLen
<1>2. /\ h # t
      /\ state' = [array |-> a, head |-> Queue!WrapInc(h), tail |-> t,
                   held |-> r, taken |-> [value |-> v, expected |-> e]]
  <2>1. /\ h # t
        /\ state' = [state EXCEPT !.head = Queue!WrapInc(h), !.held = r,
                                  !.taken = [value |-> v, expected |-> e]]
    BY DEF Queue!Dequeue, Queue!IsEmpty
  <2> HIDE DEF r, v, e
  <2> QED
    BY <2>1 DEF QueueInv, Bounded
<1>3. n # 0
  BY <1>1, <1>2
<1>4. /\ r \in Seq(QueueValues) /\ Len(r) = n - 1 /\ \A k \in 1 .. n - 1 : r[k] = s[k + 1]
      /\ e = s[1] /\ e \in QueueValues
  <2>1. s # <<>>
    BY <1>3
  <2> QED
    BY <1>1, <1>3, <2>1
<1> HIDE DEF a, h, t, s, n, r, e
<1>5. Queue!WrapInc(h) = IF h = Capacity THEN 0 ELSE h + 1
  BY <1>1, NextPlace
<1>6. /\ Queue!WrapInc(h) \in 0 .. Capacity /\ n - 1 \in Nat /\ n - 1 <= Capacity
      /\ Queue!WrapInc(h) + (n - 1) \in {t, t + (Capacity + 1)}
  BY <1>1, <1>3, <1>5
<1>7. v = e
  <2>1. PlaceOf(h, 1) = h
    BY <1>1, PlaceAt
  <2> QED
    BY <1>1, <1>3, <1>4, <2>1 DEF v
<1> HIDE DEF v
<1>8. Bounded'
  BY <1>1, <1>2, <1>4, <1>6, <1>7 DEF Bounded, Queue!ArrLen
<1>9. ASSUME NEW k \in 1 .. n - 1 PROVE a[PlaceOf(Queue!WrapInc(h), k)] = r[k]
  <2>1. /\ k + 1 \in 1 .. n /\ k \in 1 .. Capacity + 1 /\ k + 1 \in 1 .. Capacity + 1
    BY <1>1, <1>3
  <2>2. PlaceOf(h, k + 1) = IF h + (k + 1) - 1 <= Capacity THEN h + (k + 1) - 1
                            ELSE h + (k + 1) - 2 - Capacity
    BY <1>1, <2>1, PlaceAt
  <2>3. PlaceOf(Queue!WrapInc(h), k) = IF Queue!WrapInc(h) + k - 1 <= Capacity
                                       THEN Queue!WrapInc(h) + k - 1
                                       ELSE Queue!WrapInc(h) + k - 2 - Capacity
    BY <1>6, <2>1, PlaceAt
  <2>4. PlaceOf(Queue!WrapInc(h), k) = PlaceOf(h, k + 1)
    BY <1>1, <1>5, <2>1, <2>2, <2>3
  <2> QED
    BY <1>1, <1>4, <2>1, <2>4
<1>10. Filled'
  BY <1>2, <1>4, <1>9 DEF Filled, PlaceOf, Queue!ArrLen
<1> QED
  BY <1>2, <1>7, <1>8, <1>10 DEF QueueInv

LEMMA QueueAnswers ==
    ASSUME Capacity \in Nat, QueueInv PROVE Queue!QueueExact
<1> DEFINE h == state.head
           t == state.tail
           n == Len(state.held)
<1>1. /\ h \in 0 .. Capacity /\ t \in 0 .. Capacity /\ n <= Capacity /\ n \in Nat
      /\ h + n \in {t, t + (Capacity + 1)} /\ state.held \in Seq(QueueValues)
  BY DEF QueueInv, Bounded, Queue!ArrLen
<1>2. state.held = <<>> <=> n = 0
  BY <1>1
<1> HIDE DEF h, t, n
<1>3. Queue!IsEmpty <=> state.held = <<>>
  BY <1>1, <1>2 DEF Queue!IsEmpty, h, t
<1>4. Queue!IsFull <=> n = Capacity
  <2>1. Queue!WrapInc(t) = IF t = Capacity THEN 0 ELSE t + 1
    BY <1>1, NextPlace
  <2>2. Queue!IsFull <=> h = Queue!WrapInc(t)
    BY DEF Queue!IsFull, h, t
  <2> QED
    BY <1>1, <2>1, <2>2
<1>5. \A k \in 1 .. n : state.array[(h + k - 1) % Queue!ArrLen] = state.held[k]
  BY DEF QueueInv, Filled, PlaceOf, h, n
<1>6. Queue!Length = IF h <= t THEN n ELSE n - Queue!ArrLen
  <2>1. Queue!Length = IF t - h >= 0 THEN (t - h) % Queue!ArrLen
                       ELSE -((-(t - h)) % Queue!ArrLen)
    BY DEF Queue!Length, Queue!Rem, h, t
  <2>2. CASE h <= t
    <3>1. t - h \in Nat /\ t - h < Queue!ArrLen /\ t - h < 2 * Queue!ArrLen
      BY <1>1, <2>2 DEF Queue!ArrLen
    <3>2. (t - h) % Queue!ArrLen = t - h
      BY <3>1, Round
    <3> QED
      BY <1>1, <2>1, <2>2, <3>1, <3>2
  <2>3. CASE h > t
    <3>1. -(t - h) \in Nat /\ -(t - h) < Queue!ArrLen /\ -(t - h) < 2 * Queue!ArrLen
      BY <1>1, <2>3 DEF Queue!ArrLen
    <3>2. (-(t - h)) % Queue!ArrLen = -(t - h)
      BY <3>1, Round
    <3>3. Queue!Length = t - h
      BY <1>1, <2>1, <2>3, <3>2
    <3> QED
      BY <1>1, <2>3, <3>3 DEF Queue!ArrLen
  <2> QED
    BY <1>1, <2>2, <2>3
<1>7. state.taken.value = state.taken.expected
  BY DEF QueueInv
<1> QED
  BY <1>3, <1>4, <1>5, <1>6, <1>7 DEF Queue!QueueExact, h, t, n

LEMMA QueueStep ==
    ASSUME Capacity \in Nat, QueueInv, [Queue!Next]_state PROVE QueueInv'
<1>1. CASE Queue!Next
  BY <1>1, QueueEnqueue, QueueDequeue DEF Queue!Next
<1>2. CASE UNCHANGED state
  BY <1>2 DEF QueueInv, Bounded, Filled, PlaceOf, Queue!ArrLen
<1> QED
  BY <1>1, <1>2

-----------------------------------------------------------------------------

\* The i-th node of a list, or none.
NodeAt(s, i) == IF i \in 1 .. Len(s) THEN s[i] ELSE Nil

\* Doubly linked list: both links of every node lead to its neighbours in the
\* deque that the caller expects.
Linked(next, prev, s) ==
    \A i \in 1 .. Len(s) : next[s[i]] = NodeAt(s, i + 1) /\ prev[s[i]] = NodeAt(s, i - 1)
Distinct(s) == \A i, j \in 1 .. Len(s) : s[i] = s[j] => i = j
Fields ==
    state \in [length : Nat, head : Addr \cup {Nil}, tail : Addr \cup {Nil},
               next : [Addr -> Addr \cup {Nil}], prev : [Addr -> Addr \cup {Nil}],
               order : Seq(Addr), ret : Addr \cup {Nil}, expected : Addr \cup {Nil}]
Ends ==
    /\ state.length = Len(state.order)
    /\ state.head = NodeAt(state.order, 1) /\ state.tail = NodeAt(state.order, Len(state.order))
    /\ state.ret = state.expected
ListInv == Fields /\ Ends /\ Linked(state.next, state.prev, state.order) /\ Distinct(state.order)

\* The list that a step leads to.
LEMMA ListAgain ==
    ASSUME NEW head \in Addr \cup {Nil}, NEW tail \in Addr \cup {Nil},
           NEW next \in [Addr -> Addr \cup {Nil}], NEW prev \in [Addr -> Addr \cup {Nil}],
           NEW s \in Seq(Addr), NEW ret \in Addr \cup {Nil},
           head = NodeAt(s, 1), tail = NodeAt(s, Len(s)), Linked(next, prev, s), Distinct(s),
           state' = [length |-> Len(s), head |-> head, tail |-> tail, next |-> next,
                     prev |-> prev, order |-> s, ret |-> ret, expected |-> ret]
    PROVE  ListInv'
<1>1. Len(s) \in Nat
  OBVIOUS
<1>2. Fields'
  BY <1>1 DEF Fields
<1>3. Ends'
  BY DEF Ends, NodeAt
<1>4. state'.next = next /\ state'.prev = prev /\ state'.order = s
  OBVIOUS
<1>5. Linked(state.next, state.prev, state.order)' /\ Distinct(state.order)'
  BY <1>4 DEF Linked, Distinct, NodeAt
<1> QED
  BY <1>2, <1>3, <1>5 DEF ListInv

\* What the invariant says of the list before a step.
LEMMA ListNow ==
    ASSUME ListInv, Nil \notin Addr
    PROVE  LET s == state.order IN
           /\ s \in Seq(Addr) /\ Len(s) \in Nat /\ state.length = Len(s)
           /\ \A i \in 1 .. Len(s) : s[i] \in Addr
           /\ state.head = NodeAt(s, 1) /\ state.tail = NodeAt(s, Len(s))
           /\ state.head \in Addr \cup {Nil} /\ state.tail \in Addr \cup {Nil}
           /\ state.next \in [Addr -> Addr \cup {Nil}] /\ state.prev \in [Addr -> Addr \cup {Nil}]
           /\ state.ret \in Addr \cup {Nil} /\ state.ret = state.expected
           /\ state = [length |-> state.length, head |-> state.head, tail |-> state.tail,
                       next |-> state.next, prev |-> state.prev, order |-> state.order,
                       ret |-> state.ret, expected |-> state.expected]
           /\ Linked(state.next, state.prev, s) /\ Distinct(s)
<1>1. state.order \in Seq(Addr)
  BY DEF ListInv, Fields
<1>2. Len(state.order) \in Nat /\ \A i \in 1 .. Len(state.order) : state.order[i] \in Addr
  BY <1>1
<1> QED
  BY <1>1, <1>2 DEF ListInv, Fields, Ends

LEMMA ListInitial ==
    ASSUME Nil \notin Addr, List!Init PROVE ListInv
<1>1. state = [length |-> 0, head |-> Nil, tail |-> Nil,
               next |-> [a \in Addr |-> Nil], prev |-> [a \in Addr |-> Nil],
               order |-> <<>>, ret |-> Nil, expected |-> Nil]
  BY DEF List!Init
<1>2. <<>> \in Seq(Addr) /\ Len(<<>>) = 0
  OBVIOUS
<1> QED
  BY <1>1, <1>2 DEF ListInv, Fields, Ends, Linked, Distinct, NodeAt

LEMMA ListPushBack ==
    ASSUME Nil \notin Addr, ListInv, NEW a \in Addr, List!PushBack(a) PROVE ListInv'
<1> DEFINE s == state.order
           n == Len(s)
           t == state.tail
           r == Append(s, a)
           head == IF n = 0 THEN a ELSE state.head
           prev == [state.prev EXCEPT ![a] = IF n = 0 THEN Nil ELSE t]
           next == [x \in Addr |-> IF x = a THEN Nil
                                   ELSE IF n # 0 /\ x = t THEN a ELSE state.next[x]]
<1>1. /\ s \in Seq(Addr) /\ n \in Nat /\ \A i \in 1 .. n : s[i] \in Addr
      /\ state.head = NodeAt(s, 1) /\ t = NodeAt(s, n) /\ state.length = n
      /\ state.head \in Addr \cup {Nil} /\ t \in Addr \cup {Nil}
      /\ state.next \in [Addr -> Addr \cup {Nil}] /\ state.prev \in [Addr -> Addr \cup {Nil}]
      /\ state.ret \in Addr \cup {Nil} /\ state.ret = state.expected
      /\ Linked(state.next, state.prev, s) /\ Distinct(s)
  BY ListNow
<1>2. \A i \in 1 .. n : s[i] # a
  <2>1. a \notin List!Live
    BY DEF List!PushBack
  <2>2. DOMAIN s = 1 .. n
    BY <1>1
  <2> QED
    BY <2>1, <2>2 DEF List!Live
<1>3. state' = [length |-> n + 1, head |-> head, tail |-> a, next |-> next, prev |-> prev,
                order |-> r, ret |-> state.ret, expected |-> state.ret]
  <2>1. state' = [state EXCEPT !.length = n + 1, !.tail = a, !.head = head, !.prev = prev,
                               !.next = next, !.order = r]
    BY <1>1 DEF List!PushBack
  <2> HIDE DEF n, head, prev, next, r
  <2> QED
    BY <1>1, <2>1, ListNow
<1>4. /\ r \in Seq(Addr) /\ Len(r) = n + 1 /\ r[n + 1] = a /\ \A i \in 1 .. n : r[i] = s[i]
  BY <1>1
<1>5. next \in [Addr -> Addr \cup {Nil}] /\ prev \in [Addr -> Addr \cup {Nil}]
      /\ head \in Addr \cup {Nil}
  BY <1>1
<1>6. /\ next[a] = Nil /\ (n # 0 => next[s[n]] = a) /\ prev[a] = NodeAt(s, n)
      /\ \A i \in 1 .. n : prev[s[i]] = state.prev[s[i]]
      /\ \A i \in 1 .. n - 1 : next[s[i]] = state.next[s[i]]
  BY <1>1, <1>2 DEF Distinct, NodeAt
<1>7. head = NodeAt(r, 1)
  BY <1>1, <1>4 DEF NodeAt
<1> HIDE DEF s, n, t, r, head, prev, next
<1>8. a = NodeAt(r, Len(r))
  BY <1>1, <1>4 DEF NodeAt
<1>9. Distinct(r)
  <2> SUFFICES ASSUME NEW i \in 1 .. n + 1, NEW j \in 1 .. n + 1, r[i] = r[j] PROVE i = j
    BY <1>4 DEF Distinct
  <2>1. \A k, l \in 1 .. n : s[k] = s[l] => k = l
    BY <1>1 DEF Distinct, n
  <2>2. (i = n + 1 \/ i \in 1 .. n) /\ (j = n + 1 \/ j \in 1 .. n)
    BY <1>1
  <2> QED
    BY <1>2, <1>4, <2>1, <2>2
<1>10. Linked(next, prev, r)
  <2> SUFFICES ASSUME NEW i \in 1 .. n + 1
               PROVE  next[r[i]] = NodeAt(r, i + 1) /\ prev[r[i]] = NodeAt(r, i - 1)
    BY <1>4 DEF Linked
  <2>1. CASE i = n + 1
    <3>1. next[a] = NodeAt(r, i + 1)
      BY <1>1, <1>4, <1>6, <2>1 DEF NodeAt
    <3>2. prev[a] = NodeAt(r, i - 1)
      <4>1. i - 1 = n
        BY <1>1, <2>1
      <4>2. NodeAt(r, n) = NodeAt(s, n)
        BY <1>1, <1>4 DEF NodeAt, n
      <4> QED
        BY <1>6, <4>1, <4>2
    <3> QED
      BY <1>4, <2>1, <3>1, <3>2
  <2>2. CASE i \in 1 .. n
    <3>1. r[i] = s[i] /\ state.next[s[i]] = NodeAt(s, i + 1) /\ state.prev[s[i]] = NodeAt(s, i - 1)
      BY <1>1, <1>4, <2>2 DEF Linked, n
    <3>2. NodeAt(s, i - 1) = NodeAt(r, i - 1)
      BY <1>1, <1>4, <2>2 DEF NodeAt, n
    <3>3. i # n => NodeAt(s, i + 1) = NodeAt(r, i + 1)
      BY <1>1, <1>4, <2>2 DEF NodeAt, n
    <3>4. i = n => NodeAt(r, i + 1) = a
      BY <1>1, <1>4 DEF NodeAt
    <3> QED
      BY <1>1, <1>6, <2>2, <3>1, <3>2, <3>3, <3>4
  <2> QED
    BY <1>1, <2>1, <2>2
<1> QED
  BY <1>1, <1>3, <1>4, <1>5, <1>7, <1>8, <1>9, <1>10, ListAgain

LEMMA ListPushFront ==
    ASSUME Nil \notin Addr, ListInv, NEW a \in Addr, List!PushFront(a) PROVE ListInv'
<1> DEFINE s == state.order
           n == Len(s)
           h == state.head
           r == <<a>> \o s
           tail == IF h = Nil THEN a ELSE state.tail
           prev == [x \in Addr |-> IF x = a THEN Nil ELSE IF x = h THEN a ELSE state.prev[x]]
           next == [state.next EXCEPT ![a] = h]
<1>1. /\ s \in Seq(Addr) /\ n \in Nat /\ \A i \in 1 .. n : s[i] \in Addr
      /\ h = NodeAt(s, 1) /\ state.tail = NodeAt(s, n) /\ state.length = n
      /\ h \in Addr \cup {Nil} /\ state.tail \in Addr \cup {Nil}
      /\ state.next \in [Addr -> Addr \cup {Nil}] /\ state.prev \in [Addr -> Addr \cup {Nil}]
      /\ state.ret \in Addr \cup {Nil} /\ state.ret = state.expected
      /\ Linked(state.next, state.prev, s) /\ Distinct(s)
  BY ListNow
<1>2. \A i \in 1 .. n : s[i] # a
  <2>1. a \notin List!Live
    BY DEF List!PushFront
  <2>2. DOMAIN s = 1 .. n
    BY <1>1
  <2> QED
    BY <2>1, <2>2 DEF List!Live
<1>3. state' = [length |-> n + 1, head |-> a, tail |-> tail, next |-> next, prev |-> prev,
                order |-> r, ret |-> state.ret, expected |-> state.ret]
  <2>1. state' = [state EXCEPT !.length = n + 1, !.head = a, !.tail = tail, !.prev = prev,
                               !.next = next, !.order = r]
    BY <1>1 DEF List!PushFront
  <2> HIDE DEF n, tail, prev, next, r
  <2> QED
    BY <1>1, <2>1, ListNow
<1>4. /\ r \in Seq(Addr) /\ Len(r) = n + 1 /\ r[1] = a /\ \A i \in 1 .. n : r[i + 1] = s[i]
  BY <1>1
<1>5. next \in [Addr -> Addr \cup {Nil}] /\ prev \in [Addr -> Addr \cup {Nil}]
      /\ tail \in Addr \cup {Nil}
  BY <1>1
<1>6. /\ prev[a] = Nil /\ (n # 0 => prev[s[1]] = a) /\ next[a] = NodeAt(s, 1)
      /\ \A i \in 1 .. n : next[s[i]] = state.next[s[i]]
      /\ \A i \in 2 .. n : prev[s[i]] = state.prev[s[i]]
  BY <1>1, <1>2 DEF Distinct, NodeAt
<1>7. tail = NodeAt(r, Len(r))
  <2>1. n = 0 <=> h = Nil
    BY <1>1 DEF NodeAt
  <2> HIDE DEF s, n, r, h
  <2>2. CASE n = 0
    BY <1>4, <2>1, <2>2 DEF NodeAt
  <2>3. CASE n # 0
    <3>1. n \in 1 .. n /\ r[n + 1] = s[n] /\ n + 1 \in 1 .. n + 1
      BY <1>1, <1>4, <2>3
    <3>2. NodeAt(s, n) = s[n]
      BY <3>1 DEF NodeAt, n
    <3> QED
      BY <1>1, <1>4, <2>1, <2>3, <3>1, <3>2 DEF NodeAt
  <2> QED
    BY <2>2, <2>3
<1> HIDE DEF s, n, h, r, tail, prev, next
<1>8. a = NodeAt(r, 1)
  BY <1>1, <1>4 DEF NodeAt
<1>9. \A i \in 1 .. n + 1 : i # 1 => i - 1 \in 1 .. n /\ r[i] = s[i - 1]
  <2> SUFFICES ASSUME NEW i \in 1 .. n + 1, i # 1 PROVE i - 1 \in 1 .. n /\ r[i] = s[i - 1]
    OBVIOUS
  <2>1. i - 1 \in 1 .. n /\ (i - 1) + 1 = i
    BY <1>1
  <2> QED
    BY <1>4, <2>1
<1>10. Distinct(r)
  <2> SUFFICES ASSUME NEW i \in 1 .. n + 1, NEW j \in 1 .. n + 1, r[i] = r[j] PROVE i = j
    BY <1>4 DEF Distinct
  <2>1. \A k, l \in 1 .. n : s[k] = s[l] => k = l
    BY <1>1 DEF Distinct, n
  <2>2. CASE i = 1 \/ j = 1
    BY <1>2, <1>4, <1>9, <2>2
  <2>3. CASE i # 1 /\ j # 1
    <3>1. i - 1 \in 1 .. n /\ j - 1 \in 1 .. n /\ s[i - 1] = s[j - 1]
      BY <1>9, <2>3
    <3>2. i - 1 = j - 1
      BY <2>1, <3>1
    <3> QED
      BY <1>1, <3>2
  <2> QED
    BY <2>2, <2>3
<1>11. Linked(next, prev, r)
  <2> SUFFICES ASSUME NEW i \in 1 .. n + 1
               PROVE  next[r[i]] = NodeAt(r, i + 1) /\ prev[r[i]] = NodeAt(r, i - 1)
    BY <1>4 DEF Linked
  <2>1. \A k \in 0 .. n : NodeAt(r, k + 2) = NodeAt(s, k + 1)
    <3> SUFFICES ASSUME NEW k \in 0 .. n PROVE NodeAt(r, k + 2) = NodeAt(s, k + 1)
      OBVIOUS
    <3>1. k # n => k + 1 \in 1 .. n /\ r[k + 2] = s[k + 1]
      BY <1>1, <1>4
    <3> QED
      BY <1>1, <1>4, <3>1 DEF NodeAt, n
  <2>2. CASE i = 1
    BY <1>1, <1>4, <1>6, <2>1, <2>2 DEF NodeAt
  <2>3. CASE i # 1
    <3> DEFINE k == i - 1
    <3>1. k \in 1 .. n /\ r[i] = s[k] /\ i + 1 = k + 2 /\ k \in Int /\ i = k + 1
      BY <1>1, <1>9, <2>3
    <3> HIDE DEF k
    <3>2. state.next[s[k]] = NodeAt(s, k + 1) /\ state.prev[s[k]] = NodeAt(s, k - 1)
      BY <1>1, <3>1 DEF Linked, n
    <3>3. next[r[i]] = NodeAt(r, i + 1)
      BY <1>1, <1>6, <2>1, <3>1, <3>2
    <3>4. NodeAt(r, k) = IF k = 1 THEN a ELSE s[k - 1]
      BY <1>1, <1>4, <1>9, <3>1 DEF NodeAt
    <3>5. k # 1 => NodeAt(s, k - 1) = s[k - 1]
      BY <1>1, <3>1 DEF NodeAt, n
    <3>6. prev[r[i]] = NodeAt(r, k)
      BY <1>1, <1>6, <3>1, <3>2, <3>4, <3>5
    <3> QED
      BY <3>1, <3>3, <3>6
  <2> QED
    BY <2>2, <2>3
<1> QED
  BY <1>1, <1>3, <1>4, <1>5, <1>7, <1>8, <1>10, <1>11, ListAgain

LEMMA ListPopBack ==
    ASSUME Nil \notin Addr, ListInv, List!PopBack PROVE ListInv'
<1> DEFINE s == state.order
           n == Len(s)
           p == state.prev[state.tail]
           r == SubSeq(s, 1, n - 1)
           head == IF p = Nil THEN Nil ELSE state.head
           ret == IF p = Nil THEN state.head ELSE state.next[p]
           next == [x \in Addr |-> IF x = p THEN Nil ELSE state.next[x]]
<1>1. /\ s \in Seq(Addr) /\ n \in Nat /\ \A i \in 1 .. n : s[i] \in Addr
      /\ state.head = NodeAt(s, 1) /\ state.tail = NodeAt(s, n) /\ state.length = n
      /\ state.next \in [Addr -> Addr \cup {Nil}] /\ state.prev \in [Addr -> Addr \cup {Nil}]
      /\ Linked(state.next, state.prev, s) /\ Distinct(s)
  BY ListNow
<1>2. n \in Nat /\ n # 0 /\ n \in 1 .. n /\ 1 \in 1 .. n
  BY <1>1 DEF List!PopBack
<1>3. state' = [length |-> n - 1, head |-> head, tail |-> p, next |-> next, prev |-> state.prev,
                order |-> r, ret |-> ret, expected |-> s[n]]
  <2>1. state' = [state EXCEPT !.length = n - 1, !.tail = p, !.head = head, !.next = next,
                               !.ret = ret, !.order = r, !.expected = s[n]]
    BY <1>1 DEF List!PopBack
  <2> HIDE DEF n, head, ret, next, r, p
  <2> QED
    BY <1>1, <2>1, ListNow
<1>4. /\ r \in Seq(Addr) /\ Len(r) = n - 1 /\ \A i \in 1 .. n - 1 : r[i] = s[i]
  BY <1>1, <1>2
<1>5. state.tail = s[n] /\ state.head = s[1] /\ p = NodeAt(s, n - 1) /\ s[n] \in Addr
  BY <1>1, <1>2 DEF NodeAt, Linked
<1> HIDE DEF p, r
<1>6. /\ p = IF n = 1 THEN Nil ELSE s[n - 1]
      /\ n # 1 => n - 1 \in 1 .. n /\ s[n - 1] \in Addr /\ state.next[s[n - 1]] = s[n]
  <2>1. CASE n = 1
    BY <1>5, <2>1 DEF NodeAt
  <2>2. CASE n # 1
    <3>1. n - 1 \in 1 .. n /\ (n - 1) + 1 = n
      <4> HIDE DEF n
      <4> QED
        BY <1>2, <2>2
    <3>2. s[n - 1] \in Addr /\ state.next[s[n - 1]] = NodeAt(s, n) /\ p = s[n - 1]
      BY <1>1, <1>5, <3>1 DEF Linked, NodeAt
    <3> QED
      BY <1>2, <2>2, <3>1, <3>2 DEF NodeAt
  <2> QED
    BY <2>1, <2>2
<1>7. n = 1 <=> p = Nil
  BY <1>6
<1>8. ret = s[n] /\ ret \in Addr \cup {Nil} /\ head \in Addr \cup {Nil}
      /\ head = (IF n = 1 THEN Nil ELSE s[1]) /\ p \in Addr \cup {Nil}
      /\ next \in [Addr -> Addr \cup {Nil}]
  BY <1>1, <1>2, <1>5, <1>6, <1>7
<1>9. \A i \in 1 .. n - 1 : next[s[i]] = IF i = n - 1 THEN Nil ELSE state.next[s[i]]
  <2> SUFFICES ASSUME NEW i \in 1 .. n - 1
               PROVE  next[s[i]] = IF i = n - 1 THEN Nil ELSE state.next[s[i]]
    OBVIOUS
  <2>1. s[i] \in Addr /\ i \in 1 .. n /\ n # 1
    BY <1>1
  <2>2. s[i] = s[n - 1] => i = n - 1
    BY <1>1, <1>6, <2>1 DEF Distinct
  <2> QED
    BY <1>6, <2>1, <2>2
<1> HIDE DEF head, ret, next
<1>10. p = NodeAt(r, Len(r)) /\ head = NodeAt(r, 1)
  <2>1. CASE n = 1
    BY <1>4, <1>6, <1>8, <2>1 DEF NodeAt
  <2>2. CASE n # 1
    <3>1. n - 1 \in 1 .. n - 1 /\ 1 \in 1 .. n - 1
      <4> HIDE DEF n
      <4> QED
        BY <1>2, <2>2
    <3> QED
      BY <1>4, <1>6, <1>8, <2>2, <3>1 DEF NodeAt
  <2> QED
    BY <2>1, <2>2
<1>11. Distinct(r)
  <2>1. \A i, j \in 1 .. n : s[i] = s[j] => i = j
    BY <1>1 DEF Distinct
  <2>2. \A i \in 1 .. n - 1 : i \in 1 .. n
    BY <1>1
  <2> QED
    BY <1>4, <2>1, <2>2 DEF Distinct
<1>12. Linked(next, state.prev, r)
  <2> SUFFICES ASSUME NEW i \in 1 .. n - 1
               PROVE  next[r[i]] = NodeAt(r, i + 1) /\ state.prev[r[i]] = NodeAt(r, i - 1)
    BY <1>4 DEF Linked
  <2>1. /\ state.next[s[i]] = NodeAt(s, i + 1) /\ state.prev[s[i]] = NodeAt(s, i - 1)
        /\ r[i] = s[i]
    BY <1>1, <1>4 DEF Linked
  <2>2. NodeAt(s, i - 1) = NodeAt(r, i - 1)
    BY <1>1, <1>4 DEF NodeAt
  <2>3. i # n - 1 => NodeAt(s, i + 1) = NodeAt(r, i + 1)
    BY <1>1, <1>4 DEF NodeAt
  <2>4. i = n - 1 => NodeAt(r, i + 1) = Nil
    BY <1>1, <1>4 DEF NodeAt
  <2> QED
    BY <1>9, <2>1, <2>2, <2>3, <2>4
<1> HIDE DEF n, s
<1> QED
  BY <1>1, <1>3, <1>4, <1>8, <1>10, <1>11, <1>12, ListAgain

LEMMA ListPopFront ==
    ASSUME Nil \notin Addr, ListInv, List!PopFront PROVE ListInv'
<1> DEFINE s == state.order
           n == Len(s)
           h == state.next[state.head]
           r == Tail(s)
           tail == IF h = Nil THEN Nil ELSE state.tail
           prev == [x \in Addr |-> IF x = h THEN Nil ELSE state.prev[x]]
           next == [state.next EXCEPT ![state.head] = Nil]
<1>1. /\ s \in Seq(Addr) /\ n \in Nat /\ \A i \in 1 .. n : s[i] \in Addr
      /\ state.head = NodeAt(s, 1) /\ state.tail = NodeAt(s, n) /\ state.length = n
      /\ state.next \in [Addr -> Addr \cup {Nil}] /\ state.prev \in [Addr -> Addr \cup {Nil}]
      /\ Linked(state.next, state.prev, s) /\ Distinct(s)
  BY ListNow
<1>2. n \in Nat /\ n # 0 /\ n \in 1 .. n /\ 1 \in 1 .. n
  BY <1>1 DEF List!PopFront
<1>3. state' = [length |-> n - 1, head |-> h, tail |-> tail, next |-> next, prev |-> prev,
                order |-> r, ret |-> state.head, expected |-> s[1]]
  <2>1. state' = [state EXCEPT !.length = n - 1, !.head = h, !.tail = tail, !.prev = prev,
                               !.next = next, !.ret = state.head, !.order = r,
                               !.expected = s[1]]
    BY <1>1 DEF List!PopFront
  <2> HIDE DEF n, h, tail, prev, next, r
  <2> QED
    BY <1>1, <2>1, ListNow
<1>4. /\ r \in Seq(Addr) /\ Len(r) = n - 1 /\ \A i \in 1 .. n - 1 : r[i] = s[i + 1]
  <2>1. s # <<>>
    BY <1>2
  <2> QED
    BY <1>1, <1>2, <2>1
<1>5. state.head = s[1] /\ state.tail = s[n] /\ s[1] \in Addr /\ s[n] \in Addr
  BY <1>1, <1>2 DEF NodeAt
<1>6. h = NodeAt(s, 2)
  BY <1>1, <1>2, <1>5 DEF Linked
<1> HIDE DEF h, r
<1>7. /\ h = (IF n = 1 THEN Nil ELSE s[2]) /\ (n # 1 => s[2] \in Addr)
      /\ (n = 1 <=> h = Nil) /\ h \in Addr \cup {Nil}
  <2>1. CASE n = 1
    BY <1>6, <2>1 DEF NodeAt
  <2>2. CASE n # 1
    <3>1. 2 \in 1 .. n
      <4> HIDE DEF n
      <4> QED
        BY <1>2, <2>2
    <3> QED
      BY <1>1, <1>6, <2>2, <3>1 DEF NodeAt
  <2> QED
    BY <2>1, <2>2
<1>8. /\ tail = (IF n = 1 THEN Nil ELSE s[n]) /\ tail \in Addr \cup {Nil}
      /\ next \in [Addr -> Addr \cup {Nil}] /\ prev \in [Addr -> Addr \cup {Nil}]
  BY <1>1, <1>5, <1>7
<1>9. \A i \in 2 .. n : /\ next[s[i]] = state.next[s[i]]
                        /\ prev[s[i]] = IF i = 2 THEN Nil ELSE state.prev[s[i]]
  <2> SUFFICES ASSUME NEW i \in 2 .. n
               PROVE  /\ next[s[i]] = state.next[s[i]]
                      /\ prev[s[i]] = IF i = 2 THEN Nil ELSE state.prev[s[i]]
    OBVIOUS
  <2>1. i \in 1 .. n /\ s[i] \in Addr /\ n # 1 /\ 2 \in 1 .. n
    BY <1>1
  <2>2. s[i] # s[1] /\ (s[i] = s[2] => i = 2)
    BY <1>1, <1>2, <2>1 DEF Distinct
  <2> QED
    BY <1>1, <1>5, <1>7, <2>1, <2>2
<1> HIDE DEF tail, next, prev
<1>10. \A k \in 1 .. n : NodeAt(r, k) = NodeAt(s, k + 1)
  <2> SUFFICES ASSUME NEW k \in 1 .. n PROVE NodeAt(r, k) = NodeAt(s, k + 1)
    OBVIOUS
  <2>1. CASE k = n
    BY <1>1, <1>4, <2>1 DEF NodeAt
  <2>2. CASE k # n
    <3>1. k \in 1 .. n - 1 /\ k + 1 \in 1 .. n
      BY <1>1, <2>2
    <3> QED
      BY <1>4, <3>1 DEF NodeAt
  <2> QED
    BY <2>1, <2>2
<1>11. h = NodeAt(r, 1) /\ tail = NodeAt(r, Len(r))
  <2>1. h = NodeAt(r, 1)
    BY <1>2, <1>6, <1>10
  <2>2. CASE n = 1
    <3>1. Len(r) = 0 /\ tail = Nil
      BY <1>4, <1>8, <2>2
    <3> QED
      BY <2>1, <3>1 DEF NodeAt
  <2>3. CASE n # 1
    <3>1. n - 1 \in 1 .. n /\ (n - 1) + 1 = n
      <4> HIDE DEF n
      <4> QED
        BY <1>2, <2>3
    <3>2. NodeAt(r, n - 1) = NodeAt(s, n)
      BY <1>10, <3>1
    <3> QED
      BY <1>2, <1>4, <1>8, <2>1, <2>3, <3>2 DEF NodeAt
  <2> QED
    BY <2>1, <2>2, <2>3
<1>12. Distinct(r)
  <2> SUFFICES ASSUME NEW i \in 1 .. n - 1, NEW j \in 1 .. n - 1, r[i] = r[j] PROVE i = j
    BY <1>4 DEF Distinct
  <2>1. \A k, l \in 1 .. n : s[k] = s[l] => k = l
    BY <1>1 DEF Distinct
  <2>2. i + 1 \in 1 .. n /\ j + 1 \in 1 .. n /\ s[i + 1] = s[j + 1]
    BY <1>1, <1>4
  <2>3. i + 1 = j + 1
    BY <2>1, <2>2
  <2> QED
    BY <1>1, <2>3
<1>13. Linked(next, prev, r)
  <2> SUFFICES ASSUME NEW i \in 1 .. n - 1
               PROVE  next[r[i]] = NodeAt(r, i + 1) /\ prev[r[i]] = NodeAt(r, i - 1)
    BY <1>4 DEF Linked
  <2> DEFINE k == i + 1
  <2>1. k \in 2 .. n /\ k \in 1 .. n /\ r[i] = s[k] /\ i \in Int
    BY <1>1, <1>4
  <2> HIDE DEF k
  <2>2. state.next[s[k]] = NodeAt(s, k + 1) /\ state.prev[s[k]] = NodeAt(s, k - 1)
    BY <1>1, <2>1 DEF Linked
  <2>3. next[r[i]] = NodeAt(r, k)
    BY <1>9, <1>10, <2>1, <2>2
  <2>4. prev[r[i]] = NodeAt(r, i - 1)
    <3>1. CASE i = 1
      <4>1. k = 2 /\ i - 1 = 0
        BY <3>1 DEF k
      <4>2. NodeAt(r, 0) = Nil
        BY <1>1, <1>4 DEF NodeAt
      <4> QED
        BY <1>9, <2>1, <4>1, <4>2
    <3>2. CASE i # 1
      <4>1. k # 2 /\ k - 1 = (i - 1) + 1 /\ i - 1 \in 1 .. n
        BY <1>1, <2>1, <3>2 DEF k
      <4>2. NodeAt(r, i - 1) = NodeAt(s, k - 1)
        BY <1>10, <4>1
      <4> QED
        BY <1>9, <2>1, <2>2, <4>1, <4>2
    <3> QED
      BY <3>1, <3>2
  <2> QED
    BY <2>3, <2>4 DEF k
<1> HIDE DEF n, s
<1>14. state.head \in Addr \cup {Nil} /\ s[1] = state.head
  BY <1>5
<1> QED
  BY <1>1, <1>3, <1>4, <1>7, <1>8, <1>11, <1>12, <1>13, <1>14, ListAgain

LEMMA ListStep ==
    ASSUME Nil \notin Addr, ListInv, [List!Next]_state PROVE ListInv'
<1>1. CASE List!Next
  BY <1>1, ListPushBack, ListPushFront, ListPopBack, ListPopFront DEF List!Next
<1>2. CASE UNCHANGED state
  BY <1>2 DEF ListInv, Fields, Ends, Linked, Distinct, NodeAt
<1> QED
  BY <1>1, <1>2

LEMMA ListAnswers ==
    ASSUME Nil \notin Addr, ListInv PROVE List!ListTypeOK /\ List!ListIsDeque
<1>1. List!ListTypeOK
  BY DEF ListInv, Fields, List!ListTypeOK, List!Link
<1> DEFINE s == state.order
           n == Len(s)
           At(i) == IF i \in 1 .. n THEN s[i] ELSE Nil
<1>2. /\ state.length = n /\ state.head = At(1) /\ state.tail = At(n)
      /\ state.ret = state.expected
  BY DEF ListInv, Ends, NodeAt
<1>3. \A i \in 1 .. n : state.next[At(i)] = At(i + 1) /\ state.prev[At(i)] = At(i - 1)
  BY DEF ListInv, Linked, NodeAt
<1>4. \A i, j \in 1 .. n : At(i) = At(j) => i = j
  BY DEF ListInv, Distinct
<1>5. List!ListIsDeque
  <2> HIDE DEF n, s
  <2>1. /\ state.length = n /\ state.head = At(1) /\ state.tail = At(n)
        /\ \A i \in 1 .. n : /\ state.next[At(i)] = At(i + 1) /\ state.prev[At(i)] = At(i - 1)
                             /\ \A j \in 1 .. n : At(i) = At(j) => i = j
        /\ state.ret = state.expected
    <3> HIDE DEF At
    <3> QED
      BY <1>2, <1>3, <1>4
  <2> QED
    BY <2>1 DEF List!ListIsDeque, n, s
<1> QED
  BY <1>1, <1>5

\* Circular queue, however often head and tail went round the array: values come out
\* in the order in which they went in, exactly the value beyond the capacity is
\* refused, and length is the number of values held, or falls short of it by the
\* length of the array while only the tail has wrapped around.
\* Doubly linked list, after any pushes and pops at both ends: the owned links and
\* the raw ones describe the deque that the caller expects, no raw pointer leads to a
\* node that was popped, and every pop returned the node at its end.
THEOREM QueuesInOrder == PlainSpec => []QueuesExact
<1> DEFINE Inv == /\ program = "queue" => QueueInv
                  /\ program = "list" => ListInv
<1>1. Capacity \in Nat /\ Nil \notin Addr
  BY PlainAssumption DEF Queue!CapacityAssumption, List!NilAssumption
<1>2. PlainInit => Inv
  BY <1>1, QueueInitial, ListInitial DEF PlainInit
<1>3. Inv /\ [PlainNext]_plainVars => Inv'
  <2> SUFFICES ASSUME Inv, [PlainNext]_plainVars PROVE Inv'
    OBVIOUS
  <2>1. ASSUME program' = "queue" PROVE QueueInv'
    <3>1. program = "queue" /\ [Queue!Next]_state
      BY <2>1 DEF PlainNext, plainVars
    <3> QED
      BY <1>1, <3>1, QueueStep
  <2>2. ASSUME program' = "list" PROVE ListInv'
    <3>1. program = "list" /\ [List!Next]_state
      BY <2>2 DEF PlainNext, plainVars
    <3> QED
      BY <1>1, <3>1, ListStep
  <2> QED
    BY <2>1, <2>2
<1>4. Inv => QueuesExact
  BY <1>1, QueueAnswers, ListAnswers DEF QueuesExact
<1> QED
  BY <1>2, <1>3, <1>4, PTL DEF PlainSpec

-----------------------------------------------------------------------------

\* The instances count alike.
LEMMA SameCardinality ==
    ASSUME NEW S
    PROVE  Marriage!Cardinality(S) = Cardinality(S) /\ Matching!Cardinality(S) = Cardinality(S)
BY Zenon DEF Cardinality, Marriage!Cardinality, Matching!Cardinality

\* The same set of people, seen through a map that is one to one and onto.
LEMMA SameNumber ==
    ASSUME NEW S, NEW T, IsFiniteSet(S), NEW f \in [S -> T],
           \A x, y \in S : f[x] = f[y] => x = y, \A t \in T : \E x \in S : f[x] = t
    PROVE  IsFiniteSet(T) /\ Cardinality(T) = Cardinality(S)
<1>1. f \in Surjection(S, T)
  BY DEF Surjection
<1>2. f \in Injection(S, T)
  BY DEF Injection, IsInjective
<1> QED
  BY <1>1, <1>2, FS_Surjection

\* A set of natural numbers that is not empty has a least element.
LEMMA Least == ASSUME NEW T \in SUBSET Nat, T # {}
               PROVE  \E x \in T : \A y \in T : x <= y
<1> DEFINE Less == OpToRel(<, Nat)
<1>1. PICK x \in T : \A y \in T : ~ (<<y, x>> \in Less)
  <2>1. IsWellFoundedOn(Less, Nat)
    BY NatLessThanWellFounded
  <2> HIDE DEF Less
  <2> QED
    BY <2>1, WFMin
<1>2. \A y \in T : ~(y < x)
  BY <1>1 DEF OpToRel
<1> QED
  BY <1>2

-----------------------------------------------------------------------------

\* Stable marriage: the types of what it keeps.
MarriageTyped ==
    state \in [mPrefer : MenPrefer, wRanks : WomenRank, mFree : SUBSET Marriage!People,
               wFree : SUBSET Marriage!People, wMatches : [Marriage!People -> Marriage!People]]

\* Each man who is not free is engaged to one woman.
Couples ==
    /\ \A w, v \in Marriage!People \ state.wFree :
         state.wMatches[w] = state.wMatches[v] => w = v
    /\ \A m \in Marriage!People :
         m \notin state.mFree <=> \E w \in Marriage!People \ state.wFree : state.wMatches[w] = m

\* No woman before his fiancee on a man's list would have him.
NoneBetter ==
    \A w \in Marriage!People \ state.wFree, i, j \in 1 .. N :
      LET m == state.wMatches[w]
      IN state.mPrefer[m][j] = w /\ i < j => ~Marriage!Accepts(state.mPrefer[m][i], m)

\* No woman is engaged to a man she prefers to her husband in a stable matching.
StableMatching(f) ==
    /\ f \in [Marriage!People -> Marriage!People]
    /\ \A m \in Marriage!People : \E w \in Marriage!People : f[w] = m
    /\ Marriage!Stable(f)
Pessimal ==
    \A f \in [Marriage!People -> Marriage!People] : StableMatching(f) =>
      \A w \in Marriage!People \ state.wFree :
        state.wRanks[w][f[w]] <= state.wRanks[w][state.wMatches[w]]

MarriageInv == MarriageTyped /\ Couples /\ NoneBetter /\ Pessimal

\* The lists and the ranks of the instance at hand.
Preferring(prefer, rank) ==
    /\ N \in Nat
    /\ \A m \in Marriage!People :
         /\ prefer[m] \in [1 .. N -> Marriage!People]
         /\ \A w \in Marriage!People : \E i \in 1 .. N : prefer[m][i] = w
         /\ \A i, j \in 1 .. N : prefer[m][i] = prefer[m][j] => i = j
    /\ rank \in [Marriage!People -> [Marriage!People -> Int]]
    /\ \A w, l, m \in Marriage!People : rank[w][l] = rank[w][m] => l = m

LEMMA PreferencesNow ==
    ASSUME Marriage!PreferencesAssumption, MarriageTyped
    PROVE  Preferring(state.mPrefer, state.wRanks)
<1>1. state.mPrefer \in MenPrefer /\ state.wRanks \in WomenRank
  BY DEF MarriageTyped
<1> QED
  BY <1>1 DEF Marriage!PreferencesAssumption, Preferring, Marriage!People

\* Rank(m, w) is the place of w on the list of m.
LEMMA RankIs ==
    ASSUME Marriage!PreferencesAssumption, MarriageTyped,
           NEW m \in Marriage!People, NEW w \in Marriage!People
    PROVE  /\ Marriage!Rank(m, w) \in 1 .. N
           /\ state.mPrefer[m][Marriage!Rank(m, w)] = w
           /\ \A i \in 1 .. N : state.mPrefer[m][i] = w => i = Marriage!Rank(m, w)
<1>1. /\ \E i \in 1 .. N : state.mPrefer[m][i] = w
      /\ \A i, j \in 1 .. N : state.mPrefer[m][i] = state.mPrefer[m][j] => i = j
  BY PreferencesNow DEF Preferring
<1>2. Marriage!Rank(m, w) \in 1 .. N /\ state.mPrefer[m][Marriage!Rank(m, w)] = w
  BY <1>1 DEF Marriage!Rank
<1> QED
  BY <1>1, <1>2

\* As many women are engaged as men are not free.
LEMMA AsMany ==
    ASSUME Marriage!PreferencesAssumption, MarriageTyped, Couples
    PROVE  /\ IsFiniteSet(Marriage!People) /\ Cardinality(Marriage!People) = N
           /\ Cardinality(Marriage!People \ state.wFree)
                = N - Cardinality(state.mFree)
           /\ Cardinality(state.mFree) \in Nat
           /\ state.mFree = {} <=> state.wFree = {}
<1> DEFINE P == Marriage!People
           W == P \ state.wFree
           M == P \ state.mFree
           f == [w \in W |-> state.wMatches[w]]
<1>1. N \in Nat /\ P = 0 .. N - 1
  BY DEF Marriage!PreferencesAssumption, Marriage!People
<1>2. IsFiniteSet(P) /\ Cardinality(P) = N
  BY <1>1, FS_Interval
<1>3. /\ state.mFree \in SUBSET P /\ state.wFree \in SUBSET P
      /\ state.wMatches \in [P -> P]
  BY DEF MarriageTyped
<1>4. /\ \A w, v \in W : state.wMatches[w] = state.wMatches[v] => w = v
      /\ \A m \in P : m \notin state.mFree <=> \E w \in W : state.wMatches[w] = m
  BY DEF Couples
<1> HIDE DEF P
<1>5. IsFiniteSet(W) /\ IsFiniteSet(state.mFree) /\ IsFiniteSet(state.wFree)
      /\ Cardinality(W) = N - Cardinality(state.wFree)
      /\ Cardinality(M) = N - Cardinality(state.mFree)
      /\ Cardinality(state.mFree) \in Nat /\ Cardinality(state.wFree) \in Nat
  <2>1. P \cap state.wFree = state.wFree /\ P \cap state.mFree = state.mFree
    BY <1>3
  <2>2. IsFiniteSet(state.mFree) /\ IsFiniteSet(state.wFree)
    BY <1>2, <1>3, FS_Subset
  <2>3. IsFiniteSet(W) /\ Cardinality(W) = Cardinality(P) - Cardinality(state.wFree)
    <3>1. IsFiniteSet(P \ state.wFree) /\
          Cardinality(P \ state.wFree) = Cardinality(P) - Cardinality(P \cap state.wFree)
      BY <1>2, FS_Difference
    <3> QED
      BY <2>1, <3>1
  <2>4. Cardinality(M) = Cardinality(P) - Cardinality(state.mFree)
    <3>1. Cardinality(P \ state.mFree) = Cardinality(P) - Cardinality(P \cap state.mFree)
      BY <1>2, FS_Difference
    <3> QED
      BY <2>1, <3>1
  <2>5. Cardinality(state.mFree) \in Nat /\ Cardinality(state.wFree) \in Nat
    BY <2>2, FS_CardinalityType
  <2> HIDE DEF W, M
  <2> QED
    BY <1>2, <2>2, <2>3, <2>4, <2>5
<1>6. f \in [W -> M]
  BY <1>3, <1>4
<1>7. Cardinality(M) = Cardinality(W)
  <2>1. /\ \A w, v \in W : f[w] = f[v] => w = v
        /\ \A m \in M : \E w \in W : f[w] = m
    BY <1>4
  <2> HIDE DEF f, W, M
  <2> QED
    BY <1>5, <1>6, <2>1, SameNumber
<1>8. Cardinality(state.mFree) = Cardinality(state.wFree)
  BY <1>1, <1>5, <1>7
<1>9. state.mFree = {} <=> state.wFree = {}
  BY <1>5, <1>8, FS_EmptySet
<1> QED
  BY <1>2, <1>5, <1>7, <1>9 DEF P

\* Who would not have a man is engaged, and to one she likes no less.
LEMMA Refuses ==
    ASSUME Marriage!PreferencesAssumption, MarriageTyped,
           NEW v \in Marriage!People, NEW m \in Marriage!People
    PROVE  ~Marriage!Accepts(v, m) <=>
             /\ v \notin state.wFree
             /\ state.wRanks[v][state.wMatches[v]] <= state.wRanks[v][m]
<1>1. state.wMatches[v] \in Marriage!People
  BY DEF MarriageTyped
<1>2. state.wRanks[v][m] \in Int /\ state.wRanks[v][state.wMatches[v]] \in Int
  <2>1. state.wRanks \in [Marriage!People -> [Marriage!People -> Int]]
    BY PreferencesNow DEF Preferring
  <2> QED
    BY <1>1, <2>1
<1> QED
  BY <1>2 DEF Marriage!Accepts

\* While a man is free, a woman is, and she would have him.
LEMMA SomeoneWilling ==
    ASSUME Marriage!PreferencesAssumption, MarriageTyped, Couples, NEW m \in state.mFree
    PROVE  \E w \in Marriage!People : Marriage!Accepts(w, m)
<1>1. PICK w \in state.wFree : TRUE
  BY AsMany
<1>2. w \in Marriage!People
  BY DEF MarriageTyped
<1> QED
  BY <1>2 DEF Marriage!Accepts

\* A step engages a free man to the first woman on his list who would have him.
Engages(m, w) ==
    /\ Marriage!Accepts(w, m)
    /\ \E j \in 1 .. N : /\ state.mPrefer[m][j] = w
                         /\ \A i \in 1 .. j - 1 : ~Marriage!Accepts(state.mPrefer[m][i], m)
    /\ state' = [mPrefer |-> state.mPrefer, wRanks |-> state.wRanks,
                 mFree |-> (state.mFree \ {m})
                             \cup (IF w \in state.wFree THEN {} ELSE {state.wMatches[w]}),
                 wFree |-> state.wFree \ {w},
                 wMatches |-> [state.wMatches EXCEPT ![w] = m]]

LEMMA FirstWilling ==
    ASSUME Marriage!PreferencesAssumption, MarriageTyped, Couples, Marriage!Next
    PROVE  \E m \in state.mFree, w \in Marriage!People : Engages(m, w)
<1>1. PICK m \in state.mFree :
        LET list == state.mPrefer[m]
            willing == {i \in 1 .. N : Marriage!Accepts(list[i], m)}
            w == list[CHOOSE i \in willing : \A j \in willing : i <= j]
        IN state' = IF willing = {} THEN state
                    ELSE [state EXCEPT
                            !.mFree = (state.mFree \ {m}) \cup
                                      (IF w \in state.wFree THEN {} ELSE {state.wMatches[w]}),
                            !.wFree = state.wFree \ {w}, !.wMatches[w] = m]
  BY DEF Marriage!Next, Marriage!Propose
<1> DEFINE list == state.mPrefer[m]
           willing == {i \in 1 .. N : Marriage!Accepts(list[i], m)}
           j == CHOOSE i \in willing : \A k \in willing : i <= k
           w == list[j]
<1>2. /\ m \in Marriage!People /\ N \in Nat
      /\ \A v \in Marriage!People : \E i \in 1 .. N : list[i] = v
      /\ \A i \in 1 .. N : list[i] \in Marriage!People
  BY PreferencesNow DEF MarriageTyped, Preferring
<1>3. willing # {} /\ willing \in SUBSET Nat
  BY <1>2, SomeoneWilling
<1>4. j \in willing /\ \A k \in willing : j <= k
  <2> HIDE DEF willing
  <2> QED
    BY <1>3, Least
<1>5. state' = [state EXCEPT
                  !.mFree = (state.mFree \ {m}) \cup
                            (IF w \in state.wFree THEN {} ELSE {state.wMatches[w]}),
                  !.wFree = state.wFree \ {w}, !.wMatches[w] = m]
  BY <1>1, <1>3
<1> HIDE DEF j
<1>6. j \in 1 .. N /\ w \in Marriage!People /\ Marriage!Accepts(w, m)
  BY <1>2, <1>4
<1>7. \A i \in 1 .. j - 1 : ~Marriage!Accepts(list[i], m)
  <2> SUFFICES ASSUME NEW i \in 1 .. j - 1, Marriage!Accepts(list[i], m) PROVE FALSE
    OBVIOUS
  <2>1. i \in 1 .. N /\ ~(j <= i)
    BY <1>2, <1>6
  <2> QED
    BY <1>4, <2>1
<1> HIDE DEF w
<1>8. state' = [mPrefer |-> state.mPrefer, wRanks |-> state.wRanks,
                mFree |-> (state.mFree \ {m})
                            \cup (IF w \in state.wFree THEN {} ELSE {state.wMatches[w]}),
                wFree |-> state.wFree \ {w},
                wMatches |-> [state.wMatches EXCEPT ![w] = m]]
  BY <1>5 DEF MarriageTyped
<1>9. Engages(m, w)
  BY <1>6, <1>7, <1>8 DEF Engages, w
<1> QED
  BY <1>6, <1>9

LEMMA MarriageInitial ==
    ASSUME Marriage!PreferencesAssumption, Marriage!Init PROVE MarriageInv
<1>1. PICK mPrefer \in MenPrefer, wRanks \in WomenRank :
        state = [mPrefer |-> mPrefer, wRanks |-> wRanks, mFree |-> Marriage!People,
                 wFree |-> Marriage!People, wMatches |-> [w \in Marriage!People |-> 0]]
  BY DEF Marriage!Init
<1>2. \A w \in Marriage!People : 0 \in Marriage!People
  BY DEF Marriage!People, Marriage!PreferencesAssumption
<1>3. MarriageTyped
  BY <1>1, <1>2 DEF MarriageTyped
<1>4. state.wFree = Marriage!People /\ state.mFree = Marriage!People
  BY <1>1
<1> QED
  BY <1>3, <1>4 DEF MarriageInv, Couples, NoneBetter, Pessimal

\* An engagement breaks no type and leaves each engaged man one fiancee.
LEMMA EngageCouples ==
    ASSUME Marriage!PreferencesAssumption, MarriageInv,
           NEW m \in state.mFree, NEW w \in Marriage!People, Engages(m, w)
    PROVE  MarriageTyped' /\ Couples'
<1> DEFINE P == Marriage!People
           mf == state.mFree
           wf == state.wFree
           match == state.wMatches
           left == IF w \in wf THEN {} ELSE {match[w]}
           mf2 == (mf \ {m}) \cup left
           wf2 == wf \ {w}
           match2 == [match EXCEPT ![w] = m]
<1>1. /\ mf \subseteq P /\ wf \subseteq P /\ match \in [P -> P] /\ m \in P
      /\ state.mPrefer \in MenPrefer /\ state.wRanks \in WomenRank
  BY DEF MarriageInv, MarriageTyped
<1>2. /\ \A u, v \in P \ wf : match[u] = match[v] => u = v
      /\ \A x \in P : x \notin mf <=> \E v \in P \ wf : match[v] = x
  BY DEF MarriageInv, Couples
<1>3. state' = [mPrefer |-> state.mPrefer, wRanks |-> state.wRanks, mFree |-> mf2,
                wFree |-> wf2, wMatches |-> match2]
  BY DEF Engages
<1> HIDE DEF mf2, wf2, match2
<1>4. mf2 \subseteq P /\ wf2 \subseteq P /\ match2 \in [P -> P]
  BY <1>1 DEF mf2, wf2, match2
<1>5. MarriageTyped'
  BY <1>1, <1>3, <1>4 DEF MarriageTyped, Marriage!People
<1> HIDE DEF P, mf, wf, match
<1>6. w \in P /\ m \in mf
  BY DEF P, mf
<1>7. /\ match2[w] = m
      /\ \A v \in P \ {w} : match2[v] = match[v]
      /\ \A v \in P : v \notin wf2 <=> v = w \/ v \notin wf
      /\ \A v \in P \ wf : match[v] # m
  BY <1>1, <1>2, <1>6 DEF match2, wf2
<1>8. \A u, v \in P \ wf2 : match2[u] = match2[v] => u = v
  BY <1>2, <1>6, <1>7
<1>9. ASSUME NEW x \in P PROVE x \notin mf2 <=> \E v \in P \ wf2 : match2[v] = x
  <2>1. CASE x = m
    <3>1. x \notin mf2
      BY <1>6, <1>7, <2>1 DEF mf2
    <3> QED
      BY <1>6, <1>7, <2>1, <3>1
  <2>2. CASE x # m /\ w \notin wf /\ x = match[w]
    <3>1. x \in mf2
      BY <2>2 DEF mf2
    <3>2. \A v \in P \ wf2 : match2[v] # x
      BY <1>2, <1>6, <1>7, <2>2
    <3> QED
      BY <3>1, <3>2
  <2>3. CASE x # m /\ ~(w \notin wf /\ x = match[w])
    <3>1. x \in mf2 <=> x \in mf
      BY <2>3 DEF mf2
    <3>2. (\E v \in P \ wf2 : match2[v] = x) <=> \E v \in P \ wf : match[v] = x
      BY <1>6, <1>7, <2>3
    <3> QED
      BY <1>2, <3>1, <3>2
  <2> QED
    BY <2>1, <2>2, <2>3
<1>10. Couples'
  BY <1>3, <1>8, <1>9 DEF Couples, P, Marriage!People
<1> QED
  BY <1>5, <1>10

\* Whoever refused a man goes on refusing him.
LEMMA RefusesStill ==
    ASSUME Marriage!PreferencesAssumption, MarriageInv,
           NEW m \in state.mFree, NEW w \in Marriage!People, Engages(m, w),
           NEW v \in Marriage!People, NEW x \in Marriage!People, ~Marriage!Accepts(v, x)
    PROVE  ~Marriage!Accepts(v, x)'
<1> DEFINE P == Marriage!People
           rank == state.wRanks
           match == state.wMatches
<1>1. MarriageTyped /\ MarriageTyped'
  BY EngageCouples DEF MarriageInv
<1>2. /\ match \in [P -> P] /\ m \in P
      /\ \A u, y \in P : rank[u][y] \in Int
  <2>1. rank \in [P -> [P -> Int]]
    BY <1>1, PreferencesNow DEF Preferring
  <2>2. match \in [P -> P] /\ m \in P
    BY <1>1 DEF MarriageTyped
  <2> HIDE DEF P, rank
  <2> QED
    BY <2>1, <2>2
<1>3. /\ state'.wFree = state.wFree \ {w} /\ state'.wRanks = rank
      /\ state'.wMatches = [match EXCEPT ![w] = m]
  BY DEF Engages
<1>4. v \notin state.wFree /\ rank[v][match[v]] <= rank[v][x]
  BY <1>1, Refuses
<1>5. v = w => rank[v][m] < rank[v][match[v]]
  BY <1>4 DEF Engages, Marriage!Accepts
<1>6. v \notin state'.wFree /\ rank[v][state'.wMatches[v]] <= rank[v][x]
  <2>1. CASE v = w
    <3>1. state'.wMatches[v] = m
      BY <1>2, <1>3, <2>1
    <3>2. rank[v][m] \in Int /\ rank[v][match[v]] \in Int /\ rank[v][x] \in Int
      BY <1>2
    <3> QED
      BY <1>3, <1>4, <1>5, <2>1, <3>1, <3>2
  <2>2. CASE v # w
    BY <1>2, <1>3, <1>4, <2>2
  <2> QED
    BY <2>1, <2>2
<1>7. rank[v][state'.wMatches[v]] \in Int /\ rank[v][x] \in Int
  BY <1>1, <1>2 DEF MarriageTyped, Marriage!People
<1> QED
  BY <1>3, <1>6, <1>7 DEF Marriage!Accepts

LEMMA EngageNoneBetter ==
    ASSUME Marriage!PreferencesAssumption, MarriageInv,
           NEW m \in state.mFree, NEW w \in Marriage!People, Engages(m, w)
    PROVE  NoneBetter'
<1>1. /\ state'.mPrefer = state.mPrefer /\ state'.wFree = state.wFree \ {w}
      /\ state'.wMatches = [state.wMatches EXCEPT ![w] = m]
      /\ MarriageTyped
      /\ state.wMatches \in [Marriage!People -> Marriage!People] /\ m \in Marriage!People
  BY DEF Engages, MarriageInv, MarriageTyped
<1>2. \A x \in Marriage!People :
        /\ state.mPrefer[x] \in [1 .. N -> Marriage!People]
        /\ \A i, j \in 1 .. N : state.mPrefer[x][i] = state.mPrefer[x][j] => i = j
  BY <1>1, PreferencesNow DEF Preferring
<1> SUFFICES ASSUME NEW v \in Marriage!People \ state'.wFree, NEW i \in 1 .. N, NEW j \in 1 .. N,
                    NEW x, x = state'.wMatches[v], state.mPrefer[x][j] = v, i < j,
                    NEW u, u = state.mPrefer[x][i]
             PROVE  ~Marriage!Accepts(u, x)'
  <2>1. Marriage!People' = Marriage!People
    BY DEF Marriage!People
  <2>2. state'.mPrefer = state.mPrefer
    BY <1>1
  <2> QED
    BY <2>1, <2>2 DEF NoneBetter, Marriage!Accepts
<1>3. x \in Marriage!People /\ u \in Marriage!People
  <2>1. x \in Marriage!People
    BY <1>1
  <2> QED
    BY <1>2, <2>1
<1>4. ~Marriage!Accepts(u, x)
  <2>1. CASE v = w
    <3>1. x = m
      BY <1>1, <2>1
    <3>2. PICK k \in 1 .. N :
            /\ state.mPrefer[m][k] = w
            /\ \A l \in 1 .. k - 1 : ~Marriage!Accepts(state.mPrefer[m][l], m)
      BY DEF Engages
    <3>3. k = j
      BY <1>1, <1>2, <2>1, <3>1, <3>2
    <3>4. i \in 1 .. k - 1
      BY <3>3
    <3> QED
      BY <3>1, <3>2, <3>4
  <2>2. CASE v # w
    <3>1. v \in Marriage!People \ state.wFree /\ x = state.wMatches[v]
      BY <1>1, <2>2
    <3> QED
      BY <3>1 DEF MarriageInv, NoneBetter
  <2> QED
    BY <2>1, <2>2
<1> QED
  BY <1>3, <1>4, RefusesStill

\* What a stable matching of the same preferences says of m and the women u and w,
\* when w comes first on the list of m: w likes her husband at least as well as m.
LEMMA StableSays ==
    ASSUME Marriage!PreferencesAssumption, MarriageTyped,
           NEW f \in [Marriage!People -> Marriage!People], Marriage!Stable(f),
           NEW w \in Marriage!People, NEW u \in Marriage!People,
           Marriage!Rank(f[u], w) < Marriage!Rank(f[u], u)
    PROVE  state.wRanks[w][f[w]] <= state.wRanks[w][f[u]]
<1>1. state.wRanks \in [Marriage!People -> [Marriage!People -> Int]]
  BY PreferencesNow DEF Preferring
<1>2. state.wRanks[w][f[w]] \in Int /\ state.wRanks[w][f[u]] \in Int
  BY <1>1
<1>3. ~(state.wRanks[w][f[u]] < state.wRanks[w][f[w]])
  BY DEF Marriage!Stable
<1> QED
  BY <1>2, <1>3

\* If a woman is engaged to a man she prefers to her husband f[w] of a stable matching
\* then the wife of that man in it comes first on his list, and she would have him
\* still, having only men she likes no better.
LEMMA EngagePessimal ==
    ASSUME Marriage!PreferencesAssumption, MarriageInv,
           NEW m \in state.mFree, NEW w \in Marriage!People, Engages(m, w)
    PROVE  Pessimal'
<1> DEFINE P == Marriage!People
           rank == state.wRanks
           match == state.wMatches
<1>1. /\ state'.mPrefer = state.mPrefer /\ state'.wFree = state.wFree \ {w}
      /\ state'.wMatches = [match EXCEPT ![w] = m] /\ state'.wRanks = rank
      /\ MarriageTyped /\ match \in [P -> P] /\ m \in P
  BY DEF Engages, MarriageInv, MarriageTyped
<1>2. rank \in [P -> [P -> Int]] /\ \A v, x, y \in P : rank[v][x] = rank[v][y] => x = y
  BY <1>1, PreferencesNow DEF Preferring
<1> SUFFICES ASSUME NEW f \in [P -> P], StableMatching(f)', NEW v \in P \ state'.wFree
             PROVE  rank[v][f[v]] <= rank[v][state'.wMatches[v]]
  BY <1>1 DEF Pessimal, Marriage!People
<1>3. StableMatching(f)
  <2>1. \A x, y \in P : Marriage!Rank(x, y)' = Marriage!Rank(x, y)
    BY <1>1 DEF Marriage!Rank
  <2>2. Marriage!Stable(f)'
    BY DEF StableMatching
  <2>3. Marriage!Stable(f)
    BY <1>1, <2>1, <2>2 DEF Marriage!Stable, Marriage!People
  <2>4. \A x \in P : \E y \in P : f[y] = x
    BY DEF StableMatching, Marriage!People
  <2> QED
    BY <2>3, <2>4 DEF StableMatching
<1>4. \A y \in P \ state.wFree : rank[y][f[y]] <= rank[y][match[y]]
  BY <1>3 DEF MarriageInv, Pessimal
<1>5. CASE v # w
  BY <1>1, <1>4, <1>5
<1>6. CASE v = w
  <2>1. state'.wMatches[v] = m
    BY <1>1, <1>6
  <2>2. PICK u \in P : f[u] = m
    BY <1>1, <1>3 DEF StableMatching
  <2>3. rank[w][f[w]] \in Int /\ rank[w][m] \in Int
    BY <1>1, <1>2
  <2>4. CASE u = w
    BY <1>6, <2>1, <2>2, <2>3, <2>4
  <2>5. CASE u # w
    <3>1. Marriage!Accepts(u, m)
      <4> SUFFICES ASSUME ~Marriage!Accepts(u, m) PROVE FALSE
        OBVIOUS
      <4>1. u \notin state.wFree /\ rank[u][match[u]] <= rank[u][m]
        BY <1>1, Refuses
      <4>2. rank[u][m] <= rank[u][match[u]]
        BY <1>4, <2>2, <4>1
      <4>3. match[u] = m
        <5>1. match[u] \in P /\ rank[u][m] \in Int /\ rank[u][match[u]] \in Int
          BY <1>1, <1>2
        <5>2. rank[u][match[u]] = rank[u][m]
          BY <4>1, <4>2, <5>1
        <5> QED
          BY <1>1, <1>2, <5>1, <5>2
      <4> QED
        BY <1>1, <4>1, <4>3 DEF MarriageInv, Couples
    <3>2. Marriage!Rank(m, w) < Marriage!Rank(m, u)
      <4> DEFINE k == Marriage!Rank(m, u)
                 l == Marriage!Rank(m, w)
      <4>1. /\ k \in 1 .. N /\ l \in 1 .. N /\ state.mPrefer[m][k] = u
            /\ \A i \in 1 .. N : state.mPrefer[m][i] = w => i = l
        BY <1>1, RankIs
      <4>2. PICK j \in 1 .. N : /\ state.mPrefer[m][j] = w
                                /\ \A i \in 1 .. j - 1 : ~Marriage!Accepts(state.mPrefer[m][i], m)
        BY DEF Engages
      <4> HIDE DEF k, l
      <4>3. j = l
        BY <4>1, <4>2
      <4>4. k \notin 1 .. j - 1
        BY <3>1, <4>1, <4>2
      <4>5. k # j
        BY <2>5, <4>1, <4>2
      <4> QED
        BY <4>1, <4>3, <4>4, <4>5 DEF k, l
    <3>3. rank[w][f[w]] <= rank[w][f[u]]
      BY <1>1, <1>3, <2>2, <3>2, StableSays DEF StableMatching
    <3> QED
      BY <1>6, <2>1, <2>2, <3>3
  <2> QED
    BY <2>4, <2>5
<1> QED
  BY <1>5, <1>6

LEMMA MarriageStep ==
    ASSUME Marriage!PreferencesAssumption, MarriageInv, [Marriage!Next]_state
    PROVE  MarriageInv'
<1>1. CASE Marriage!Next
  <2>1. PICK m \in state.mFree, w \in Marriage!People : Engages(m, w)
    BY <1>1, FirstWilling DEF MarriageInv
  <2> QED
    BY <2>1, EngageCouples, EngageNoneBetter, EngagePessimal DEF MarriageInv
<1>2. CASE UNCHANGED state
  <2>1. Marriage!People' = Marriage!People
    BY DEF Marriage!People
  <2>2. MarriageTyped' /\ Couples'
    BY <1>2, <2>1 DEF MarriageInv, MarriageTyped, Couples
  <2>3. \A w, m : Marriage!Accepts(w, m)' <=> Marriage!Accepts(w, m)
    BY <1>2 DEF Marriage!Accepts, Marriage!Rank
  <2>4. NoneBetter'
    BY <1>2, <2>1, <2>3 DEF MarriageInv, NoneBetter
  <2>5. \A f : StableMatching(f)' <=> StableMatching(f)
    BY <1>2, <2>1 DEF StableMatching, Marriage!Stable, Marriage!Rank
  <2>6. Pessimal'
    BY <1>2, <2>1, <2>5 DEF MarriageInv, Pessimal
  <2> QED
    BY <2>2, <2>4, <2>6 DEF MarriageInv
<1> QED
  BY <1>1, <1>2

\* When no man is free, no man and woman prefer each other to their spouses.
LEMMA EndStable ==
    ASSUME Marriage!PreferencesAssumption, MarriageInv, state.mFree = {}
    PROVE  Marriage!Stable(state.wMatches)
<1>1. MarriageTyped /\ state.wFree = {}
  BY AsMany DEF MarriageInv
<1> SUFFICES ASSUME NEW w \in Marriage!People, NEW v \in Marriage!People,
                    Marriage!Rank(state.wMatches[v], w) < Marriage!Rank(state.wMatches[v], v)
             PROVE  ~(state.wRanks[w][state.wMatches[v]] < state.wRanks[w][state.wMatches[w]])
  BY DEF Marriage!Stable
<1> DEFINE m == state.wMatches[v]
           i == Marriage!Rank(m, w)
           j == Marriage!Rank(m, v)
<1>2. m \in Marriage!People
  BY <1>1 DEF MarriageTyped
<1>3. /\ i \in 1 .. N /\ j \in 1 .. N
      /\ state.mPrefer[m][i] = w /\ state.mPrefer[m][j] = v
  BY <1>1, <1>2, RankIs
<1>4. ~Marriage!Accepts(w, m)
  <2>1. i < j /\ v \in Marriage!People \ state.wFree
    BY <1>1
  <2> HIDE DEF i, j
  <2> QED
    BY <1>3, <2>1 DEF MarriageInv, NoneBetter
<1> QED
  BY <1>4 DEF Marriage!Accepts

\* When no man is free, every man has the best wife of all stable matchings.
LEMMA EndBest ==
    ASSUME Marriage!PreferencesAssumption, MarriageInv, state.mFree = {},
           NEW f, StableMatching(f), NEW w \in Marriage!People, NEW v \in Marriage!People,
           state.wMatches[w] = f[v]
    PROVE  Marriage!Rank(f[v], w) <= Marriage!Rank(f[v], v)
<1> DEFINE m == f[v]
           i == Marriage!Rank(m, v)
           j == Marriage!Rank(m, w)
           match == state.wMatches
           rank == state.wRanks
<1>1. /\ MarriageTyped /\ state.wFree = {} /\ match \in [Marriage!People -> Marriage!People]
      /\ m \in Marriage!People
  BY AsMany DEF MarriageInv, MarriageTyped, StableMatching
<1>2. /\ i \in 1 .. N /\ j \in 1 .. N
      /\ state.mPrefer[m][i] = v /\ state.mPrefer[m][j] = w
  BY <1>1, RankIs
<1> SUFFICES ASSUME i < j PROVE FALSE
  <2> HIDE DEF i, j
  <2> QED
    BY <1>2 DEF i, j
<1>3. ~Marriage!Accepts(v, m)
  <2>1. match[w] = m /\ w \in Marriage!People \ state.wFree
    BY <1>1
  <2> HIDE DEF i, j, m
  <2> QED
    BY <1>2, <2>1 DEF MarriageInv, NoneBetter
<1>4. rank[v][match[v]] <= rank[v][m]
  BY <1>1, <1>3, Refuses
<1>5. rank[v][m] <= rank[v][match[v]]
  BY <1>1 DEF MarriageInv, Pessimal, StableMatching
<1>6. match[v] = m
  <2>1. /\ rank \in [Marriage!People -> [Marriage!People -> Int]]
        /\ \A y, x, z \in Marriage!People : rank[y][x] = rank[y][z] => x = z
    BY <1>1, PreferencesNow DEF Preferring
  <2>2. match[v] \in Marriage!People
    BY <1>1
  <2>3. rank[v][match[v]] = rank[v][m]
    <3>1. rank[v][match[v]] \in Int /\ rank[v][m] \in Int
      BY <1>1, <2>1, <2>2
    <3> HIDE DEF m, match, rank
    <3> QED
      BY <1>4, <1>5, <3>1
  <2> QED
    BY <1>1, <2>1, <2>2, <2>3
<1>7. v = w
  BY <1>1, <1>6 DEF MarriageInv, Couples
<1> QED
  BY <1>2, <1>7

LEMMA MarriageAnswers ==
    ASSUME Marriage!PreferencesAssumption, MarriageInv PROVE Marriage!MarriagesStable
<1>1. \A m \in state.mFree : \E w \in Marriage!People : Marriage!Accepts(w, m)
  BY SomeoneWilling DEF MarriageInv
<1>2. DOMAIN Marriage!Pairs = Marriage!People \ state.wFree
  BY DEF Marriage!Pairs
<1>3. {Marriage!Pairs[w] : w \in DOMAIN Marriage!Pairs} = Marriage!People \ state.mFree
  <2>1. \A w \in Marriage!People \ state.wFree :
          Marriage!Pairs[w] = state.wMatches[w] /\ state.wMatches[w] \in Marriage!People
    BY DEF Marriage!Pairs, MarriageInv, MarriageTyped
  <2>2. \A m \in Marriage!People :
          m \notin state.mFree <=> \E w \in Marriage!People \ state.wFree : state.wMatches[w] = m
    BY DEF MarriageInv, Couples
  <2> QED
    BY <1>2, <2>1, <2>2
<1>4. Cardinality(DOMAIN Marriage!Pairs) = N - Cardinality(state.mFree)
  BY <1>2, AsMany DEF MarriageInv
<1>5. ASSUME state.mFree = {}
      PROVE  /\ Marriage!Stable(state.wMatches)
             /\ \A f \in {g \in [Marriage!People -> Marriage!People] :
                         {g[w] : w \in Marriage!People} = Marriage!People} :
                  Marriage!Stable(f) => \A w, v \in Marriage!People :
                    state.wMatches[w] = f[v] => Marriage!Rank(f[v], w) <= Marriage!Rank(f[v], v)
  <2>1. ASSUME NEW f \in [Marriage!People -> Marriage!People],
               {f[w] : w \in Marriage!People} = Marriage!People, Marriage!Stable(f)
        PROVE  StableMatching(f)
    BY <2>1 DEF StableMatching
  <2> QED
    BY <1>5, <2>1, EndStable, EndBest
<1> QED
  BY <1>1, <1>3, <1>4, <1>5, SameCardinality DEF Marriage!MarriagesStable

-----------------------------------------------------------------------------

\* Kuhn's algorithm: the calls of kuhn_dfs(), and the types of what it keeps.
Frames == [l : Matching!Left, todo : SUBSET Matching!Right, r : Matching!Right \cup {Matching!None}]
MatchingTyped ==
    state \in [graph : SUBSET (Matching!Left \X Matching!Right),
               l2r : [Matching!Left -> Matching!Right \cup {Matching!None}],
               r2l : [Matching!Right -> Matching!Left \cup {Matching!None}],
               seen : SUBSET Matching!Left, l : 1 .. NL + 1, count : Nat, old_count : Nat,
               stack : Seq(Frames), done : BOOLEAN]

\* The frames are an alternating path: each has left along an edge of the graph for a
\* right node matched to the left node of the next frame, and the first left node,
\* which is the one scanned, is unmatched.
AlternatingPath ==
    /\ \A i, j \in 1 .. Len(state.stack) : state.stack[i].l = state.stack[j].l => i = j
    /\ \A i \in 1 .. Len(state.stack) :
         /\ state.stack[i].l \in state.seen
         /\ \A r \in state.stack[i].todo : <<state.stack[i].l, r>> \in state.graph
    /\ \A i \in 1 .. Len(state.stack) - 1 :
         /\ <<state.stack[i].l, state.stack[i].r>> \in state.graph
         /\ state.r2l[state.stack[i].r] = state.stack[i + 1].l
    /\ state.stack # <<>> => /\ state.l <= NL /\ state.stack[1].l = state.l
                             /\ state.l2r[state.l] = Matching!None

\* While a scan has found nothing, every edge of a node seen leads to a right node
\* matched to a node seen, or is still to be tried.
Explored ==
    state.count = state.old_count =>
      \A e \in state.graph :
        e[1] \in state.seen => \/ state.r2l[e[2]] \in state.seen
                               \/ \E i \in 1 .. Len(state.stack) :
                                    state.stack[i].l = e[1] /\ e[2] \in state.stack[i].todo

\* What the scan has passed is matched or seen; the end comes after a whole scan.
Scanned ==
    /\ \A l \in Matching!Left :
         l < state.l => state.l2r[l] # Matching!None \/ l \in state.seen
    /\ state.old_count <= state.count
    /\ state.done => state.stack = <<>> /\ state.l > NL /\ state.count = state.old_count

MatchingInv ==
    MatchingTyped /\ Matching!Mutual /\ AlternatingPath /\ Explored /\ Scanned

LEMMA MatchingInitial ==
    ASSUME Matching!SizeAssumption, Matching!Init PROVE MatchingInv
<1>1. PICK graph \in SUBSET (Matching!Left \X Matching!Right) :
        state = [graph |-> graph, l2r |-> [l \in Matching!Left |-> Matching!None],
                 r2l |-> [r \in Matching!Right |-> Matching!None],
                 seen |-> {}, l |-> 1, count |-> 0, old_count |-> 0, stack |-> <<>>,
                 done |-> FALSE]
  BY DEF Matching!Init
<1>2. MatchingTyped
  <2>1. 1 \in 1 .. NL + 1
    BY DEF Matching!SizeAssumption
  <2> QED
    BY <1>1, <2>1 DEF MatchingTyped
<1>3. Matching!Mutual
  <2>1. {l \in Matching!Left : state.l2r[l] # Matching!None} = {}
    BY <1>1
  <2>2. state.count = Matching!Cardinality({l \in Matching!Left : state.l2r[l] # Matching!None})
    BY <1>1, <2>1, FS_EmptySet, SameCardinality
  <2> QED
    BY <1>1, <2>2 DEF Matching!Mutual
<1>4. state.stack = <<>> /\ Len(state.stack) = 0 /\ state.seen = {}
  BY <1>1
<1>5. AlternatingPath /\ Explored
  BY <1>4 DEF AlternatingPath, Explored
<1>6. Scanned
  BY <1>1 DEF Scanned, Matching!Left
<1> QED
  BY <1>2, <1>3, <1>5, <1>6 DEF MatchingInv

\* The types, field by field.
LEMMA MatchingNow ==
    ASSUME MatchingTyped
    PROVE  /\ state.graph \subseteq Matching!Left \X Matching!Right
           /\ state.l2r \in [Matching!Left -> Matching!Right \cup {Matching!None}]
           /\ state.r2l \in [Matching!Right -> Matching!Left \cup {Matching!None}]
           /\ state.seen \subseteq Matching!Left /\ state.l \in 1 .. NL + 1
           /\ state.count \in Nat /\ state.old_count \in Nat /\ state.done \in BOOLEAN
           /\ state.stack \in Seq(Frames)
           /\ Len(state.stack) \in Nat
           /\ \A i \in 1 .. Len(state.stack) :
                state.stack[i] \in Frames
<1>1. state.stack \in Seq(Frames)
  BY DEF MatchingTyped
<1>2. /\ Len(state.stack) \in Nat
      /\ \A i \in 1 .. Len(state.stack) :
           state.stack[i] \in Frames
  BY <1>1
<1> QED
  BY <1>1, <1>2 DEF MatchingTyped

\* The scan passes over a left node that is matched or seen.
LEMMA ScanPasses ==
    ASSUME Matching!SizeAssumption, MatchingInv, state.stack = <<>>, ~state.done, state.l <= NL,
           state.l2r[state.l] # Matching!None \/ state.l \in state.seen,
           state' = [state EXCEPT !.l = state.l + 1]
    PROVE  MatchingInv'
<1>1. /\ state'.graph = state.graph /\ state'.l2r = state.l2r /\ state'.r2l = state.r2l
      /\ state'.seen = state.seen /\ state'.count = state.count
      /\ state'.old_count = state.old_count /\ state'.stack = state.stack
      /\ state'.done = state.done /\ state'.l = state.l + 1
  BY DEF MatchingInv, MatchingTyped
<1>2. state.l + 1 \in 1 .. NL + 1 /\ state.l \in 1 .. NL
  BY MatchingNow DEF MatchingInv, Matching!SizeAssumption
<1>3. MatchingTyped'
  BY <1>2 DEF MatchingInv, MatchingTyped, Matching!Left, Matching!Right, Matching!None, Frames
<1>4. Matching!Mutual'
  BY <1>1 DEF MatchingInv, Matching!Mutual, Matching!Left, Matching!Right, Matching!None
<1>5. AlternatingPath' /\ Explored'
  <2>1. Len(state.stack) = 0
    OBVIOUS
  <2> QED
    BY <1>1, <2>1 DEF MatchingInv, AlternatingPath, Explored
<1>6. Scanned'
  <2>1. \A l \in Matching!Left : l < state.l + 1 => l < state.l \/ l = state.l
    BY <1>2 DEF Matching!Left
  <2>2. \A l \in Matching!Left :
          l < state.l + 1 => state.l2r[l] # Matching!None \/ l \in state.seen
    BY <2>1 DEF MatchingInv, Scanned
  <2>3. state.old_count <= state.count
    BY DEF MatchingInv, Scanned
  <2> QED
    BY <1>1, <2>2, <2>3 DEF Scanned, Matching!Left, Matching!None
<1> QED
  BY <1>3, <1>4, <1>5, <1>6 DEF MatchingInv

\* The neighbours of a left node, still to be tried.
Neighbours(l) == {r \in Matching!Right : <<l, r>> \in state.graph}

LEMMA FrameIs ==
    ASSUME NEW l \in Matching!Left
    PROVE  /\ Matching!Frame(l) = [l |-> l, todo |-> Neighbours(l), r |-> Matching!None]
           /\ Matching!Frame(l) \in Frames
  BY DEF Matching!Frame, Neighbours, Frames

\* A search starts at an unmatched left node not seen before.
LEMMA ScanSearches ==
    ASSUME Matching!SizeAssumption, MatchingInv, state.stack = <<>>, ~state.done, state.l <= NL,
           state.l2r[state.l] = Matching!None, state.l \notin state.seen,
           state' = [state EXCEPT !.stack = <<Matching!Frame(state.l)>>,
                                  !.seen = state.seen \cup {state.l}]
    PROVE  MatchingInv'
<1> DEFINE f == Matching!Frame(state.l)
           s == <<f>>
<1>1. state.l \in Matching!Left
  BY MatchingNow DEF MatchingInv, Matching!Left
<1>2. f = [l |-> state.l, todo |-> Neighbours(state.l), r |-> Matching!None]
      /\ f \in Frames
  BY <1>1, FrameIs
<1> HIDE DEF f
<1>3. Len(s) = 1 /\ s[1] = f /\ s # <<>>
      /\ s \in Seq(Frames)
  BY <1>2
<1>4. state' = [state EXCEPT !.stack = s, !.seen = state.seen \cup {state.l}]
  BY DEF f
<1> HIDE DEF s
<1>5. /\ state'.graph = state.graph /\ state'.l2r = state.l2r /\ state'.r2l = state.r2l
      /\ state'.seen = state.seen \cup {state.l} /\ state'.count = state.count
      /\ state'.old_count = state.old_count /\ state'.stack = s
      /\ state'.done = state.done /\ state'.l = state.l
  BY <1>4 DEF MatchingInv, MatchingTyped
<1>6. MatchingTyped'
  <2>1. state.seen \cup {state.l} \in SUBSET Matching!Left
    BY <1>1, MatchingNow DEF MatchingInv
  <2> QED
    BY <1>3, <1>4, <2>1 DEF MatchingInv, MatchingTyped, Matching!Left, Matching!Right,
                            Matching!None, Frames
<1>7. Matching!Mutual'
  BY <1>5 DEF MatchingInv, Matching!Mutual, Matching!Left, Matching!Right, Matching!None
<1>8. AlternatingPath'
  <2>1. \A i \in 1 .. Len(s) : i = 1
    BY <1>3
  <2>2. \A r \in f.todo : <<f.l, r>> \in state.graph
    BY <1>2 DEF Neighbours
  <2>3. \A i \in 1 .. Len(s) - 1 : FALSE
    BY <1>3
  <2>4. f.l = state.l
    BY <1>2
  <2> QED
    BY <1>3, <1>5, <2>1, <2>2, <2>3, <2>4 DEF AlternatingPath, Matching!None
<1>9. Explored'
  <2> SUFFICES ASSUME state.count = state.old_count, NEW e \in state.graph,
                      e[1] \in state.seen \cup {state.l}
               PROVE  \/ state.r2l[e[2]] \in state.seen \cup {state.l}
                      \/ \E i \in 1 .. Len(s) : s[i].l = e[1] /\ e[2] \in s[i].todo
    BY <1>5 DEF Explored
  <2>1. CASE e[1] \in state.seen
    <3>1. Len(state.stack) = 0
      OBVIOUS
    <3> QED
      BY <2>1, <3>1 DEF MatchingInv, Explored
  <2>2. CASE e[1] = state.l
    <3>1. e = <<e[1], e[2]>> /\ e[2] \in Matching!Right
      BY MatchingNow DEF MatchingInv
    <3>2. f.l = e[1] /\ e[2] \in f.todo
      BY <1>2, <2>2, <3>1 DEF Neighbours
    <3>3. 1 \in 1 .. Len(s)
      BY <1>3
    <3> QED
      BY <1>3, <3>2, <3>3
  <2> QED
    BY <2>1, <2>2
<1>10. Scanned'
  BY <1>5 DEF MatchingInv, Scanned, Matching!Left, Matching!None
<1> QED
  BY <1>6, <1>7, <1>8, <1>9, <1>10 DEF MatchingInv

\* The topmost frame, which exists while a search runs.
LEMMA TopIs ==
    ASSUME MatchingInv, state.stack # <<>>
    PROVE  LET n == Len(state.stack)
           IN /\ n \in Nat /\ n # 0 /\ n \in 1 .. n
              /\ Matching!Top = state.stack[n] /\ Matching!Top \in Frames
              /\ Matching!Top.l \in Matching!Left /\ Matching!Top.todo \subseteq Matching!Right
              /\ \A r \in Matching!Top.todo : <<Matching!Top.l, r>> \in state.graph
<1> DEFINE n == Len(state.stack)
<1>1. state.stack \in Seq(Frames)
  BY MatchingNow DEF MatchingInv
<1>2. n \in Nat /\ n # 0 /\ n \in 1 .. n
  BY <1>1
<1>3. Matching!Top = state.stack[n] /\ Matching!Top \in Frames
  BY <1>1, <1>2 DEF Matching!Top
<1>4. Matching!Top.l \in Matching!Left /\ Matching!Top.todo \subseteq Matching!Right
  BY <1>3 DEF Frames
<1>5. \A r \in Matching!Top.todo : <<Matching!Top.l, r>> \in state.graph
  BY <1>2, <1>3 DEF MatchingInv, AlternatingPath
<1> QED
  BY <1>2, <1>3, <1>4, <1>5

\* The topmost frame tries r: the other frames stay.
LEMMA TopTries ==
    ASSUME MatchingInv, state.stack # <<>>,
           NEW r \in Matching!Right, NEW T \in SUBSET Matching!Right
    PROVE  LET n == Len(state.stack)
               s == Matching!SetTop([l |-> Matching!Top.l, todo |-> T, r |-> r])
           IN /\ s \in Seq(Frames) /\ Len(s) = n /\ s # <<>>
              /\ \A i \in 1 .. n : i # n => s[i] = state.stack[i]
              /\ s[n] = [l |-> Matching!Top.l, todo |-> T, r |-> r]
<1> DEFINE n == Len(state.stack)
           t == [l |-> Matching!Top.l, todo |-> T, r |-> r]
           s == Matching!SetTop(t)
<1>1. state.stack \in Seq(Frames) /\ n \in Nat /\ n \in 1 .. n
  BY MatchingNow, TopIs DEF MatchingInv
<1>2. t \in Frames
  BY TopIs DEF Frames
<1> HIDE DEF t
<1>3. s = [state.stack EXCEPT ![n] = t]
  BY DEF Matching!SetTop
<1>4. s \in Seq(Frames) /\ Len(s) = n /\ s # <<>>
      /\ (\A i \in 1 .. n : i # n => s[i] = state.stack[i]) /\ s[n] = t
  BY <1>1, <1>2, <1>3
<1> QED
  BY <1>4 DEF t

\* A search goes on: the frames s keep the path, and `seen' may have gained nodes.
LEMMA SearchGoesOn ==
    ASSUME Matching!SizeAssumption, MatchingInv, state.stack # <<>>,
           NEW seen \in SUBSET Matching!Left, state.seen \subseteq seen,
           NEW s \in Seq(Frames), s # <<>>, s[1].l = state.stack[1].l,
           \A i, j \in 1 .. Len(s) : s[i].l = s[j].l => i = j,
           \A i \in 1 .. Len(s) : /\ s[i].l \in seen
                                  /\ \A r \in s[i].todo : <<s[i].l, r>> \in state.graph,
           \A i \in 1 .. Len(s) - 1 : /\ <<s[i].l, s[i].r>> \in state.graph
                                      /\ state.r2l[s[i].r] = s[i + 1].l,
           state.count = state.old_count =>
             \A e \in state.graph :
               e[1] \in seen => \/ state.r2l[e[2]] \in seen
                                \/ \E i \in 1 .. Len(s) : s[i].l = e[1] /\ e[2] \in s[i].todo,
           state' = [state EXCEPT !.stack = s, !.seen = seen]
    PROVE  MatchingInv'
<1>1. /\ state'.graph = state.graph /\ state'.l2r = state.l2r /\ state'.r2l = state.r2l
      /\ state'.seen = seen /\ state'.count = state.count
      /\ state'.old_count = state.old_count /\ state'.stack = s
      /\ state'.done = state.done /\ state'.l = state.l
  BY DEF MatchingInv, MatchingTyped
<1>2. MatchingTyped'
  BY DEF MatchingInv, MatchingTyped, Matching!Left, Matching!Right, Matching!None, Frames
<1>3. Matching!Mutual'
  BY <1>1 DEF MatchingInv, Matching!Mutual, Matching!Left, Matching!Right, Matching!None
<1>4. AlternatingPath'
  BY <1>1 DEF MatchingInv, AlternatingPath, Matching!None
<1>5. Explored'
  BY <1>1 DEF Explored
<1>6. Scanned'
  BY <1>1 DEF MatchingInv, Scanned, Matching!Left, Matching!None
<1> QED
  BY <1>2, <1>3, <1>4, <1>5, <1>6 DEF MatchingInv

\* The right node tried is matched to a left node seen before: the next one is tried.
LEMMA DescendSeen ==
    ASSUME Matching!SizeAssumption, MatchingInv, state.stack # <<>>,
           NEW r \in Matching!Top.todo, state.r2l[r] \in state.seen,
           state' = [state EXCEPT !.stack = Matching!SetTop(
                       [l |-> Matching!Top.l, todo |-> Matching!Top.todo \ {r}, r |-> r])]
    PROVE  MatchingInv'
<1> DEFINE n == Len(state.stack)
           T == Matching!Top.todo \ {r}
           t == [l |-> Matching!Top.l, todo |-> T, r |-> r]
           s == Matching!SetTop(t)
<1>1. /\ n \in Nat /\ n # 0 /\ n \in 1 .. n /\ 1 \in 1 .. n
      /\ Matching!Top = state.stack[n] /\ r \in Matching!Right /\ T \in SUBSET Matching!Right
      /\ \A q \in T : <<Matching!Top.l, q>> \in state.graph
  BY TopIs
<1>2. /\ s \in Seq(Frames) /\ Len(s) = n /\ s # <<>>
      /\ \A i \in 1 .. n : i # n => s[i] = state.stack[i]
      /\ s[n] = t
  <2> HIDE DEF T
  <2> QED
    BY <1>1, TopTries
<1>3. t.l = state.stack[n].l /\ t.todo = state.stack[n].todo \ {r}
  BY <1>1
<1>4. \A i \in 1 .. n : s[i].l = state.stack[i].l /\ s[i].todo \subseteq state.stack[i].todo
  <2> HIDE DEF s, t
  <2> QED
    BY <1>2, <1>3
<1>5. state' = [state EXCEPT !.stack = s, !.seen = state.seen]
  <2> HIDE DEF s
  <2>1. state' = [state EXCEPT !.stack = s]
    BY DEF s
  <2> QED
    BY <2>1 DEF MatchingInv, MatchingTyped
<1> HIDE DEF s, t, n
<1>6. \A i, j \in 1 .. n : s[i].l = s[j].l => i = j
  BY <1>4 DEF MatchingInv, AlternatingPath, n
<1>7. \A i \in 1 .. n : /\ s[i].l \in state.seen
                        /\ \A q \in s[i].todo : <<s[i].l, q>> \in state.graph
  BY <1>4 DEF MatchingInv, AlternatingPath, n
<1>8. ASSUME NEW i \in 1 .. n - 1
      PROVE  /\ <<s[i].l, s[i].r>> \in state.graph
             /\ state.r2l[s[i].r] = s[i + 1].l
  <2>1. i \in 1 .. n /\ i + 1 \in 1 .. n /\ i # n
    BY <1>1
  <2>2. s[i] = state.stack[i] /\ s[i + 1].l = state.stack[i + 1].l
    BY <1>2, <1>4, <2>1
  <2> QED
    BY <2>2 DEF MatchingInv, AlternatingPath, n
<1>9. ASSUME state.count = state.old_count, NEW e \in state.graph, e[1] \in state.seen
      PROVE  \/ state.r2l[e[2]] \in state.seen
             \/ \E i \in 1 .. n : s[i].l = e[1] /\ e[2] \in s[i].todo
  <2>1. CASE state.r2l[e[2]] \in state.seen
    BY <2>1
  <2>2. CASE state.r2l[e[2]] \notin state.seen
    <3>1. PICK i \in 1 .. n : state.stack[i].l = e[1] /\ e[2] \in state.stack[i].todo
      BY <1>9, <2>2 DEF MatchingInv, Explored, n
    <3>2. e[2] # r
      BY <2>2
    <3>3. e[2] \in s[i].todo
      BY <1>2, <1>3, <3>1, <3>2
    <3> QED
      BY <1>4, <3>1, <3>3
  <2> QED
    BY <2>1, <2>2
<1>10. state.seen \in SUBSET Matching!Left /\ s[1].l = state.stack[1].l
  BY <1>1, <1>4, MatchingNow DEF MatchingInv
<1> QED
  BY <1>2, <1>5, <1>6, <1>7, <1>8, <1>9, <1>10, SearchGoesOn

\* The right node tried is matched to a left node not seen: the search goes on there.
LEMMA DescendFurther ==
    ASSUME Matching!SizeAssumption, MatchingInv, state.stack # <<>>,
           NEW r \in Matching!Top.todo, NEW l, l = state.r2l[r], l # Matching!None,
           l \notin state.seen,
           state' = [state EXCEPT
                       !.stack = Append(Matching!SetTop([l |-> Matching!Top.l,
                                          todo |-> Matching!Top.todo \ {r}, r |-> r]),
                                        Matching!Frame(l)),
                       !.seen = state.seen \cup {l}]
    PROVE  MatchingInv'
<1> DEFINE n == Len(state.stack)
           T == Matching!Top.todo \ {r}
           t == [l |-> Matching!Top.l, todo |-> T, r |-> r]
           p == Matching!SetTop(t)
           f == Matching!Frame(l)
           s == Append(p, f)
           seen == state.seen \cup {l}
<1>1. /\ n \in Nat /\ n # 0 /\ n \in 1 .. n /\ 1 \in 1 .. n
      /\ Matching!Top = state.stack[n] /\ r \in Matching!Right /\ T \in SUBSET Matching!Right
      /\ \A q \in T : <<Matching!Top.l, q>> \in state.graph
      /\ <<Matching!Top.l, r>> \in state.graph
  BY TopIs
<1>2. /\ p \in Seq(Frames) /\ Len(p) = n /\ p # <<>>
      /\ \A i \in 1 .. n : i # n => p[i] = state.stack[i]
      /\ p[n] = t
  <2> HIDE DEF T
  <2> QED
    BY <1>1, TopTries
<1>3. l \in Matching!Left
  BY <1>1, MatchingNow DEF MatchingInv
<1>4. f \in Frames /\ f = [l |-> l, todo |-> Neighbours(l), r |-> Matching!None]
  BY <1>3, FrameIs
<1>5. t.l = state.stack[n].l /\ t.todo = state.stack[n].todo \ {r} /\ t.r = r
  BY <1>1
<1>6. state' = [state EXCEPT !.stack = s, !.seen = seen]
  OBVIOUS
<1> HIDE DEF t, n, p, f
<1>7. /\ s \in Seq(Frames) /\ Len(s) = n + 1 /\ s # <<>> /\ s[n + 1] = f
      /\ \A i \in 1 .. n : s[i] = p[i]
  BY <1>1, <1>2, <1>4
<1> HIDE DEF s
<1>8. \A i \in 1 .. n : s[i].l = state.stack[i].l /\ s[i].todo \subseteq state.stack[i].todo
  BY <1>1, <1>2, <1>5, <1>7
<1>9. \A i \in 1 .. n + 1 : i = n + 1 \/ i \in 1 .. n
  BY <1>1
<1>10. /\ \A i, j \in 1 .. n : state.stack[i].l = state.stack[j].l => i = j
       /\ \A i \in 1 .. n : /\ state.stack[i].l \in state.seen
                            /\ \A q \in state.stack[i].todo : <<state.stack[i].l, q>> \in state.graph
       /\ \A i \in 1 .. n - 1 : /\ <<state.stack[i].l, state.stack[i].r>> \in state.graph
                                /\ state.r2l[state.stack[i].r] = state.stack[i + 1].l
  BY DEF MatchingInv, AlternatingPath, n
<1>11. f.l = l /\ f.todo = Neighbours(l)
  BY <1>4
<1>12. \A i, j \in 1 .. n + 1 : s[i].l = s[j].l => i = j
  BY <1>7, <1>8, <1>9, <1>10, <1>11
<1>13. \A i \in 1 .. n + 1 : /\ s[i].l \in seen
                             /\ \A q \in s[i].todo : <<s[i].l, q>> \in state.graph
  BY <1>7, <1>8, <1>9, <1>10, <1>11 DEF Neighbours
<1>14. ASSUME NEW i \in 1 .. (n + 1) - 1
       PROVE  /\ <<s[i].l, s[i].r>> \in state.graph
              /\ state.r2l[s[i].r] = s[i + 1].l
  <2>1. i \in 1 .. n
    BY <1>1
  <2>2. CASE i = n
    BY <1>1, <1>2, <1>5, <1>7, <1>11, <2>2
  <2>3. CASE i # n
    <3>1. i \in 1 .. n - 1 /\ i + 1 \in 1 .. n
      BY <1>1, <2>1, <2>3
    <3>2. s[i] = state.stack[i] /\ s[i + 1].l = state.stack[i + 1].l
      BY <1>2, <1>7, <1>8, <2>1, <2>3, <3>1
    <3> QED
      BY <1>10, <3>1, <3>2
  <2> QED
    BY <2>2, <2>3
<1>15. ASSUME state.count = state.old_count, NEW e \in state.graph, e[1] \in seen
       PROVE  \/ state.r2l[e[2]] \in seen
              \/ \E i \in 1 .. n + 1 : s[i].l = e[1] /\ e[2] \in s[i].todo
  <2>1. CASE state.r2l[e[2]] \in seen
    BY <2>1
  <2>2. CASE state.r2l[e[2]] \notin seen /\ e[1] = l
    <3>1. e = <<e[1], e[2]>> /\ e[2] \in Matching!Right
      BY MatchingNow DEF MatchingInv
    <3>2. n + 1 \in 1 .. n + 1
      BY <1>1
    <3> QED
      BY <1>7, <1>11, <2>2, <3>1, <3>2 DEF Neighbours
  <2>3. CASE state.r2l[e[2]] \notin seen /\ e[1] # l
    <3>1. PICK i \in 1 .. n : state.stack[i].l = e[1] /\ e[2] \in state.stack[i].todo
      BY <1>15, <2>3 DEF MatchingInv, Explored, n
    <3>2. e[2] # r
      BY <2>3
    <3>3. e[2] \in s[i].todo
      BY <1>2, <1>5, <1>7, <3>1, <3>2
    <3>4. i \in 1 .. n + 1
      BY <1>1
    <3> QED
      BY <1>8, <3>1, <3>3, <3>4
  <2> QED
    BY <2>1, <2>2, <2>3
<1>16. seen \in SUBSET Matching!Left /\ state.seen \subseteq seen /\ s[1].l = state.stack[1].l
  BY <1>1, <1>3, <1>8, MatchingNow DEF MatchingInv
<1> HIDE DEF seen
<1>17. \A i \in 1 .. Len(s) - 1 : /\ <<s[i].l, s[i].r>> \in state.graph
                                  /\ state.r2l[s[i].r] = s[i + 1].l
  BY <1>7, <1>14
<1>18. /\ \A i, j \in 1 .. Len(s) : s[i].l = s[j].l => i = j
       /\ \A i \in 1 .. Len(s) : /\ s[i].l \in seen
                                  /\ \A q \in s[i].todo : <<s[i].l, q>> \in state.graph
       /\ state.count = state.old_count =>
            \A e \in state.graph :
              e[1] \in seen => \/ state.r2l[e[2]] \in seen
                               \/ \E i \in 1 .. Len(s) : s[i].l = e[1] /\ e[2] \in s[i].todo
  BY <1>7, <1>12, <1>13, <1>15
<1> QED
  BY <1>6, <1>7, <1>16, <1>17, <1>18, SearchGoesOn

\* A call returns false: its frame, with nothing left to try, goes.
LEMMA BacktrackKeeps ==
    ASSUME Matching!SizeAssumption, MatchingInv, Matching!Backtrack PROVE MatchingInv'
<1> DEFINE n == Len(state.stack)
           s == SubSeq(state.stack, 1, n - 1)
<1>1. /\ state.stack # <<>> /\ Matching!Top.todo = {}
      /\ state' = [state EXCEPT !.stack = s, !.l = IF n = 1 THEN state.l + 1 ELSE state.l]
  BY DEF Matching!Backtrack
<1>2. /\ n \in Nat /\ n # 0 /\ n \in 1 .. n /\ 1 \in 1 .. n /\ Matching!Top = state.stack[n]
      /\ state.stack \in Seq(Frames)
  BY <1>1, TopIs, MatchingNow DEF MatchingInv
<1>3. s \in Seq(Frames) /\ Len(s) = n - 1 /\ \A i \in 1 .. n - 1 : s[i] = state.stack[i]
  BY <1>2
<1>4. ASSUME NEW e \in state.graph, state.count = state.old_count, e[1] \in state.seen
      PROVE  \/ state.r2l[e[2]] \in state.seen
             \/ \E i \in 1 .. n - 1 : s[i].l = e[1] /\ e[2] \in s[i].todo
  <2>1. CASE state.r2l[e[2]] \in state.seen
    BY <2>1
  <2>2. CASE state.r2l[e[2]] \notin state.seen
    <3>1. PICK i \in 1 .. n : state.stack[i].l = e[1] /\ e[2] \in state.stack[i].todo
      BY <1>4, <2>2 DEF MatchingInv, Explored
    <3>2. i # n
      BY <1>1, <1>2, <3>1
    <3>3. i \in 1 .. n - 1
      BY <1>2, <3>2
    <3> QED
      BY <1>3, <3>1, <3>3
  <2> QED
    BY <2>1, <2>2
<1> HIDE DEF n, s
<1>5. CASE n = 1
  <2>1. s = <<>> /\ Len(s) = 0
    BY <1>3, <1>5
  <2>2. /\ state'.graph = state.graph /\ state'.l2r = state.l2r /\ state'.r2l = state.r2l
        /\ state'.seen = state.seen /\ state'.count = state.count
        /\ state'.old_count = state.old_count /\ state'.stack = s
        /\ state'.done = state.done /\ state'.l = state.l + 1
        /\ state' = [state EXCEPT !.stack = s, !.l = state.l + 1]
    BY <1>1, <1>5 DEF MatchingInv, MatchingTyped
  <2>3. /\ state.l \in 1 .. NL /\ state.l + 1 \in 1 .. NL + 1 /\ state.l \in state.seen
        /\ ~state.done
    <3>1. state.l <= NL /\ state.stack[1].l = state.l /\ state.stack[1].l \in state.seen
      BY <1>1, <1>2 DEF MatchingInv, AlternatingPath, n
    <3>2. state.l \in 1 .. NL + 1
      BY MatchingNow DEF MatchingInv
    <3>3. ~state.done
      BY <1>1 DEF MatchingInv, Scanned
    <3> QED
      BY <3>1, <3>2, <3>3 DEF Matching!SizeAssumption
  <2>4. MatchingTyped'
    BY <1>3, <2>2, <2>3 DEF MatchingInv, MatchingTyped, Matching!Left, Matching!Right,
                            Matching!None, Frames
  <2>5. Matching!Mutual'
    BY <2>2 DEF MatchingInv, Matching!Mutual, Matching!Left, Matching!Right, Matching!None
  <2>6. AlternatingPath'
    BY <2>1, <2>2 DEF AlternatingPath
  <2>7. Explored'
    <3>1. \A i \in 1 .. n - 1 : FALSE
      BY <1>5
    <3> QED
      BY <1>4, <2>2, <3>1 DEF Explored
  <2>8. Scanned'
    <3>1. \A l \in Matching!Left : l < state.l + 1 => l < state.l \/ l = state.l
      BY <2>3 DEF Matching!Left
    <3>2. \A l \in Matching!Left :
            l < state.l + 1 => state.l2r[l] # Matching!None \/ l \in state.seen
      BY <2>3, <3>1 DEF MatchingInv, Scanned
    <3>3. state.old_count <= state.count
      BY DEF MatchingInv, Scanned
    <3> QED
      BY <2>2, <2>3, <3>2, <3>3 DEF Scanned, Matching!Left, Matching!None
  <2> QED
    BY <2>4, <2>5, <2>6, <2>7, <2>8 DEF MatchingInv
<1>6. CASE n # 1
  <2>1. 1 \in 1 .. n - 1 /\ \A i \in 1 .. n - 1 : i \in 1 .. n
    BY <1>2, <1>6
  <2>2. s # <<>> /\ s[1] = state.stack[1]
    BY <1>3, <2>1
  <2>3. state' = [state EXCEPT !.stack = s, !.seen = state.seen]
    BY <1>1, <1>6 DEF MatchingInv, MatchingTyped
  <2>4. /\ \A i, j \in 1 .. n - 1 : s[i].l = s[j].l => i = j
        /\ \A i \in 1 .. n - 1 : /\ s[i].l \in state.seen
                                 /\ \A r \in s[i].todo : <<s[i].l, r>> \in state.graph
    BY <1>3, <2>1 DEF MatchingInv, AlternatingPath, n
  <2>5. ASSUME NEW i \in 1 .. (n - 1) - 1
        PROVE  <<s[i].l, s[i].r>> \in state.graph /\ state.r2l[s[i].r] = s[i + 1].l
    <3>1. i \in 1 .. n - 1 /\ i + 1 \in 1 .. n - 1
      BY <1>2
    <3>2. s[i] = state.stack[i] /\ s[i + 1] = state.stack[i + 1]
      BY <1>3, <3>1
    <3> QED
      BY <3>1, <3>2 DEF MatchingInv, AlternatingPath, n
  <2>6. state.seen \in SUBSET Matching!Left
    BY MatchingNow DEF MatchingInv
  <2>7. /\ \A i, j \in 1 .. Len(s) : s[i].l = s[j].l => i = j
        /\ \A i \in 1 .. Len(s) : /\ s[i].l \in state.seen
                                  /\ \A r \in s[i].todo : <<s[i].l, r>> \in state.graph
        /\ state.count = state.old_count =>
             \A e \in state.graph :
               e[1] \in state.seen => \/ state.r2l[e[2]] \in state.seen
                                      \/ \E i \in 1 .. Len(s) :
                                           s[i].l = e[1] /\ e[2] \in s[i].todo
    BY <1>3, <1>4, <2>4
  <2>8. \A i \in 1 .. Len(s) - 1 : <<s[i].l, s[i].r>> \in state.graph
                                   /\ state.r2l[s[i].r] = s[i + 1].l
    BY <1>3, <2>5
  <2>9. s[1].l = state.stack[1].l
    BY <2>2
  <2> QED
    BY <1>1, <1>3, <2>2, <2>3, <2>6, <2>7, <2>8, <2>9, SearchGoesOn
<1> QED
  BY <1>5, <1>6

\* The end of a scan.
LEMMA NextRoundKeeps ==
    ASSUME Matching!SizeAssumption, MatchingInv, Matching!NextRound PROVE MatchingInv'
<1>1. /\ ~state.done /\ state.stack = <<>> /\ Len(state.stack) = 0 /\ state.l > NL
  BY DEF Matching!NextRound
<1>2. CASE state.count = state.old_count
  <2>1. state' = [state EXCEPT !.done = TRUE]
    BY <1>2 DEF Matching!NextRound
  <2>2. /\ state'.graph = state.graph /\ state'.l2r = state.l2r /\ state'.r2l = state.r2l
        /\ state'.seen = state.seen /\ state'.count = state.count
        /\ state'.old_count = state.old_count /\ state'.stack = state.stack
        /\ state'.l = state.l
    BY <2>1 DEF MatchingInv, MatchingTyped
  <2>3. MatchingTyped'
    BY <2>1 DEF MatchingInv, MatchingTyped, Matching!Left, Matching!Right, Matching!None, Frames
  <2>4. Matching!Mutual'
    BY <2>2 DEF MatchingInv, Matching!Mutual, Matching!Left, Matching!Right, Matching!None
  <2>5. AlternatingPath' /\ Explored'
    BY <1>1, <2>2 DEF MatchingInv, AlternatingPath, Explored
  <2>6. Scanned'
    BY <1>1, <1>2, <2>2 DEF MatchingInv, Scanned, Matching!Left, Matching!None
  <2> QED
    BY <2>3, <2>4, <2>5, <2>6 DEF MatchingInv
<1>3. CASE state.count # state.old_count
  <2>1. state' = [state EXCEPT !.l = 1, !.seen = {}, !.old_count = state.count]
    BY <1>3 DEF Matching!NextRound
  <2>2. /\ state'.graph = state.graph /\ state'.l2r = state.l2r /\ state'.r2l = state.r2l
        /\ state'.seen = {} /\ state'.count = state.count
        /\ state'.old_count = state.count /\ state'.stack = state.stack
        /\ state'.l = 1 /\ state'.done = state.done /\ state.count \in Nat
    BY <2>1 DEF MatchingInv, MatchingTyped
  <2>3. MatchingTyped'
    <3>1. 1 \in 1 .. NL + 1
      BY DEF Matching!SizeAssumption
    <3> QED
      BY <2>1, <3>1 DEF MatchingInv, MatchingTyped, Matching!Left, Matching!Right,
                        Matching!None, Frames
  <2>4. Matching!Mutual'
    BY <2>2 DEF MatchingInv, Matching!Mutual, Matching!Left, Matching!Right, Matching!None
  <2>5. AlternatingPath' /\ Explored'
    BY <1>1, <2>2 DEF MatchingInv, AlternatingPath, Explored
  <2>6. Scanned'
    BY <1>1, <2>2 DEF Scanned, Matching!Left
  <2> QED
    BY <2>3, <2>4, <2>5, <2>6 DEF MatchingInv
<1> QED
  BY <1>2, <1>3

\* The path that a search found, and what matching along it makes of l2r and r2l.
Path(s, r) ==
    /\ s \in Seq(Frames) /\ s # <<>> /\ r \in Matching!Right /\ state.r2l[r] = Matching!None
    /\ \A i, j \in 1 .. Len(s) : s[i].l = s[j].l => i = j
    /\ \A i \in 1 .. Len(s) - 1 : state.r2l[s[i].r] = s[i + 1].l
    /\ \A i \in 1 .. Len(s) : <<s[i].l, s[i].r>> \in state.graph
    /\ s[Len(s)].r = r
    /\ s[1].l = state.l /\ state.l2r[state.l] = Matching!None
Turned(s, l2r, r2l) ==
    /\ l2r \in [Matching!Left -> Matching!Right \cup {Matching!None}]
    /\ r2l \in [Matching!Right -> Matching!Left \cup {Matching!None}]
    /\ \A i \in 1 .. Len(s) : l2r[s[i].l] = s[i].r /\ r2l[s[i].r] = s[i].l
    /\ \A l \in Matching!Left : (\A i \in 1 .. Len(s) : s[i].l # l) => l2r[l] = state.l2r[l]
    /\ \A r \in Matching!Right : (\A i \in 1 .. Len(s) : s[i].r # r) => r2l[r] = state.r2l[r]

LEMMA PathEnds ==
    ASSUME MatchingInv, NEW s, NEW r, Path(s, r)
    PROVE  /\ Len(s) \in Nat /\ 1 \in 1 .. Len(s) /\ Len(s) \in 1 .. Len(s)
           /\ \A i \in 1 .. Len(s) : s[i].l \in Matching!Left /\ s[i].r \in Matching!Right
           /\ \A i, j \in 1 .. Len(s) : s[i].r = s[j].r => i = j
<1> DEFINE n == Len(s)
<1>1. n \in Nat /\ 1 \in 1 .. n /\ n \in 1 .. n /\ \A i \in 1 .. n : s[i] \in Frames
  BY DEF Path
<1>2. \A i \in 1 .. n : s[i].l \in Matching!Left /\ s[i].r \in Matching!Right
  BY MatchingNow DEF MatchingInv, Path
<1>3. ASSUME NEW i \in 1 .. n, NEW j \in 1 .. n, s[i].r = s[j].r PROVE i = j
  <2>1. \A k \in 1 .. n : k # n => k \in 1 .. n - 1 /\ k + 1 \in 1 .. n
    BY <1>1
  <2>2. \A k \in 1 .. n : k # n => state.r2l[s[k].r] = s[k + 1].l
    BY <2>1 DEF Path
  <2>3. \A k \in 1 .. n : k # n => state.r2l[s[k].r] # Matching!None
    <3>1. \A l \in Matching!Left : l # Matching!None
      BY DEF Matching!Left, Matching!None
    <3>2. ASSUME NEW k \in 1 .. n, k # n PROVE state.r2l[s[k].r] # Matching!None
      <4>1. k + 1 \in 1 .. n /\ state.r2l[s[k].r] = s[k + 1].l
        BY <2>1, <2>2, <3>2
      <4> HIDE DEF n
      <4>2. s[k + 1].l \in Matching!Left
        BY ONLY <1>2, <4>1
      <4> QED
        BY ONLY <3>1, <4>1, <4>2
    <3> QED
      BY <3>2
  <2>4. state.r2l[s[n].r] = Matching!None
    BY DEF Path
  <2>5. CASE i = n \/ j = n
    BY <1>3, <2>3, <2>4, <2>5
  <2>6. CASE i # n /\ j # n
    <3>1. s[i + 1].l = s[j + 1].l /\ i + 1 \in 1 .. n /\ j + 1 \in 1 .. n
      BY <1>3, <2>1, <2>2, <2>6
    <3>2. i + 1 = j + 1
      BY <3>1 DEF Path
    <3> QED
      BY <3>2
  <2> QED
    BY <2>5, <2>6
<1> QED
  BY <1>1, <1>2, <1>3

LEMMA PathTurned ==
    ASSUME MatchingInv, NEW s, NEW r, Path(s, r), NEW matched,
           matched = {<<s[i].l, s[i].r>> : i \in 1 .. Len(s)}
    PROVE  Turned(s,
             [l \in Matching!Left |-> IF \E p \in matched : p[1] = l
                                      THEN (CHOOSE p \in matched : p[1] = l)[2]
                                      ELSE state.l2r[l]],
             [q \in Matching!Right |-> IF \E p \in matched : p[2] = q
                                       THEN (CHOOSE p \in matched : p[2] = q)[1]
                                       ELSE state.r2l[q]])
<1> DEFINE n == Len(s)
           l2r == [l \in Matching!Left |-> IF \E p \in matched : p[1] = l
                                           THEN (CHOOSE p \in matched : p[1] = l)[2]
                                           ELSE state.l2r[l]]
           r2l == [q \in Matching!Right |-> IF \E p \in matched : p[2] = q
                                            THEN (CHOOSE p \in matched : p[2] = q)[1]
                                            ELSE state.r2l[q]]
<1>1. /\ \A i \in 1 .. n : s[i].l \in Matching!Left /\ s[i].r \in Matching!Right
      /\ \A i, j \in 1 .. n : s[i].l = s[j].l => i = j
      /\ \A i, j \in 1 .. n : s[i].r = s[j].r => i = j
  BY PathEnds DEF Path
<1>2. /\ \A i \in 1 .. n : <<s[i].l, s[i].r>> \in matched
      /\ \A p \in matched : \E i \in 1 .. n : p = <<s[i].l, s[i].r>>
  OBVIOUS
<1>3. /\ state.l2r \in [Matching!Left -> Matching!Right \cup {Matching!None}]
      /\ state.r2l \in [Matching!Right -> Matching!Left \cup {Matching!None}]
  BY MatchingNow DEF MatchingInv
<1> HIDE DEF n
<1>4. ASSUME NEW i \in 1 .. n PROVE l2r[s[i].l] = s[i].r /\ r2l[s[i].r] = s[i].l
  <2> DEFINE a == CHOOSE p \in matched : p[1] = s[i].l
             b == CHOOSE p \in matched : p[2] = s[i].r
  <2>1. a \in matched /\ a[1] = s[i].l
    <3>1. \E p \in matched : p[1] = s[i].l
      BY <1>2
    <3> QED
      BY ONLY <3>1
  <2>2. b \in matched /\ b[2] = s[i].r
    <3>1. \E p \in matched : p[2] = s[i].r
      BY <1>2
    <3> QED
      BY ONLY <3>1
  <2>3. l2r[s[i].l] = a[2] /\ r2l[s[i].r] = b[1]
    BY <1>1, <1>2
  <2> HIDE DEF a, b
  <2>4. a[2] = s[i].r
    BY <1>1, <1>2, <2>1
  <2>5. b[1] = s[i].l
    BY <1>1, <1>2, <2>2
  <2> QED
    BY <2>3, <2>4, <2>5
<1>5. ASSUME NEW l \in Matching!Left, \A i \in 1 .. n : s[i].l # l PROVE l2r[l] = state.l2r[l]
  BY <1>2, <1>5
<1>6. ASSUME NEW q \in Matching!Right, \A i \in 1 .. n : s[i].r # q PROVE r2l[q] = state.r2l[q]
  BY <1>2, <1>6
<1>7. ASSUME NEW l \in Matching!Left PROVE l2r[l] \in Matching!Right \cup {Matching!None}
  <2>1. CASE \A i \in 1 .. n : s[i].l # l
    BY <1>3, <1>5, <2>1
  <2>2. ASSUME NEW i \in 1 .. n, s[i].l = l PROVE l2r[l] \in Matching!Right
    <3>1. l2r[s[i].l] = s[i].r /\ s[i].r \in Matching!Right
      BY <1>1, <1>4
    <3> QED
      BY ONLY <2>2, <3>1
  <2> QED
    BY <2>1, <2>2
<1>8. ASSUME NEW q \in Matching!Right PROVE r2l[q] \in Matching!Left \cup {Matching!None}
  <2>1. CASE \A i \in 1 .. n : s[i].r # q
    BY <1>3, <1>6, <2>1
  <2>2. ASSUME NEW i \in 1 .. n, s[i].r = q PROVE r2l[q] \in Matching!Left
    <3>1. r2l[s[i].r] = s[i].l /\ s[i].l \in Matching!Left
      BY <1>1, <1>4
    <3> QED
      BY ONLY <2>2, <3>1
  <2> QED
    BY <2>1, <2>2
<1>9. /\ l2r \in [Matching!Left -> Matching!Right \cup {Matching!None}]
      /\ r2l \in [Matching!Right -> Matching!Left \cup {Matching!None}]
  BY <1>7, <1>8
<1> HIDE DEF l2r, r2l
<1>10. Turned(s, l2r, r2l)
  BY <1>4, <1>5, <1>6, <1>9 DEF Turned, n
<1> QED
  BY <1>10 DEF l2r, r2l

\* Turned along the path, the matching is one again, and has one edge more.
LEMMA TurnedMatches ==
    ASSUME Matching!SizeAssumption, MatchingInv, state.l \in Matching!Left,
           NEW s, NEW r, Path(s, r),
           NEW l2r, NEW r2l, Turned(s, l2r, r2l)
    PROVE  /\ \A l \in Matching!Left : l2r[l] # Matching!None =>
                <<l, l2r[l]>> \in state.graph /\ r2l[l2r[l]] = l
           /\ \A q \in Matching!Right : r2l[q] # Matching!None => l2r[r2l[q]] = q
           /\ \A l \in Matching!Left :
                l2r[l] # Matching!None <=> l = state.l \/ state.l2r[l] # Matching!None
<1> DEFINE n == Len(s)
<1>1. /\ n \in Nat /\ 1 \in 1 .. n /\ n \in 1 .. n
      /\ \A i \in 1 .. n : s[i].l \in Matching!Left /\ s[i].r \in Matching!Right
      /\ \A i, j \in 1 .. n : s[i].r = s[j].r => i = j
  BY PathEnds
<1>2. /\ \A i, j \in 1 .. n : s[i].l = s[j].l => i = j
      /\ \A i \in 1 .. n - 1 : state.r2l[s[i].r] = s[i + 1].l
      /\ \A i \in 1 .. n : <<s[i].l, s[i].r>> \in state.graph
      /\ s[n].r = r /\ state.r2l[r] = Matching!None
      /\ s[1].l = state.l /\ state.l2r[state.l] = Matching!None
  BY DEF Path
<1>3. /\ \A i \in 1 .. n : l2r[s[i].l] = s[i].r /\ r2l[s[i].r] = s[i].l
      /\ \A l \in Matching!Left : (\A i \in 1 .. n : s[i].l # l) => l2r[l] = state.l2r[l]
      /\ \A q \in Matching!Right : (\A i \in 1 .. n : s[i].r # q) => r2l[q] = state.r2l[q]
      /\ l2r \in [Matching!Left -> Matching!Right \cup {Matching!None}]
      /\ r2l \in [Matching!Right -> Matching!Left \cup {Matching!None}]
  BY DEF Turned
<1>4. /\ \A l \in Matching!Left : state.l2r[l] # Matching!None =>
           <<l, state.l2r[l]>> \in state.graph /\ state.r2l[state.l2r[l]] = l
      /\ \A q \in Matching!Right : state.r2l[q] # Matching!None => state.l2r[state.r2l[q]] = q
  BY DEF MatchingInv, Matching!Mutual
<1>5. Matching!None \notin Matching!Left /\ Matching!None \notin Matching!Right
  BY DEF Matching!None, Matching!Left, Matching!Right
<1> HIDE DEF n
<1>6. \A i \in 1 .. n : i # 1 => /\ state.l2r[s[i].l] # Matching!None
                                 /\ \E j \in 1 .. n : state.l2r[s[i].l] = s[j].r
  <2> SUFFICES ASSUME NEW i \in 1 .. n, i # 1
               PROVE  \E j \in 1 .. n : state.l2r[s[i].l] = s[j].r
    BY <1>1, <1>5
  <2>1. i - 1 \in 1 .. n /\ i - 1 \in 1 .. n - 1 /\ (i - 1) + 1 = i
    BY <1>1
  <2>2. state.r2l[s[i - 1].r] = s[i].l
    BY <1>2, <2>1
  <2>3. state.l2r[s[i].l] = s[i - 1].r
    BY <1>1, <1>4, <1>5, <2>1, <2>2
  <2> QED
    BY <2>1, <2>3
<1>7. \A i \in 1 .. n : \/ state.r2l[s[i].r] = Matching!None
                        \/ \E j \in 1 .. n : state.r2l[s[i].r] = s[j].l
  <2> SUFFICES ASSUME NEW i \in 1 .. n, i # n
               PROVE  \E j \in 1 .. n : state.r2l[s[i].r] = s[j].l
    BY <1>2
  <2>1. i \in 1 .. n - 1 /\ i + 1 \in 1 .. n
    BY <1>1
  <2> QED
    BY <1>2, <2>1
<1>8. \A l \in Matching!Left : l2r[l] # Matching!None =>
        <<l, l2r[l]>> \in state.graph /\ r2l[l2r[l]] = l
  <2> SUFFICES ASSUME NEW l \in Matching!Left, l2r[l] # Matching!None
               PROVE  <<l, l2r[l]>> \in state.graph /\ r2l[l2r[l]] = l
    OBVIOUS
  <2>1. CASE \E i \in 1 .. n : s[i].l = l
    BY <1>2, <1>3, <2>1
  <2>2. CASE \A i \in 1 .. n : s[i].l # l
    <3>1. l2r[l] = state.l2r[l] /\ l2r[l] \in Matching!Right
      BY <1>3, <2>2
    <3>2. <<l, l2r[l]>> \in state.graph /\ state.r2l[l2r[l]] = l
      BY <1>4, <3>1
    <3>3. \A i \in 1 .. n : s[i].r # l2r[l]
      BY <1>5, <1>7, <2>2, <3>2
    <3> QED
      BY <1>3, <3>1, <3>2, <3>3
  <2> QED
    BY <2>1, <2>2
<1>9. \A q \in Matching!Right : r2l[q] # Matching!None => l2r[r2l[q]] = q
  <2> SUFFICES ASSUME NEW q \in Matching!Right, r2l[q] # Matching!None PROVE l2r[r2l[q]] = q
    OBVIOUS
  <2>1. CASE \E i \in 1 .. n : s[i].r = q
    BY <1>3, <2>1
  <2>2. CASE \A i \in 1 .. n : s[i].r # q
    <3>1. r2l[q] = state.r2l[q] /\ r2l[q] \in Matching!Left
      BY <1>3, <2>2
    <3>2. state.l2r[r2l[q]] = q
      BY <1>4, <3>1
    <3>3. \A i \in 1 .. n : s[i].l # r2l[q]
      <4> SUFFICES ASSUME NEW i \in 1 .. n, s[i].l = r2l[q] PROVE FALSE
        OBVIOUS
      <4>1. state.l2r[s[i].l] = q
        BY <3>2
      <4>2. i # 1
        BY <1>2, <1>5, <4>1
      <4> QED
        BY <1>6, <2>2, <4>1, <4>2
    <3> QED
      BY <1>3, <3>1, <3>2, <3>3
  <2> QED
    BY <2>1, <2>2
<1>10. \A l \in Matching!Left :
         l2r[l] # Matching!None <=> l = state.l \/ state.l2r[l] # Matching!None
  <2> SUFFICES ASSUME NEW l \in Matching!Left
               PROVE  l2r[l] # Matching!None <=> l = state.l \/ state.l2r[l] # Matching!None
    OBVIOUS
  <2>1. CASE \A i \in 1 .. n : s[i].l # l
    BY <1>1, <1>2, <1>3, <2>1
  <2>2. ASSUME NEW i \in 1 .. n, s[i].l = l
        PROVE  l2r[l] # Matching!None <=> l = state.l \/ state.l2r[l] # Matching!None
    <3>1. l2r[l] # Matching!None
      BY <1>1, <1>3, <1>5, <2>2
    <3>2. l = state.l \/ state.l2r[l] # Matching!None
      BY <1>2, <1>6, <2>2
    <3> QED
      BY <3>1, <3>2
  <2> QED
    BY <2>1, <2>2
<1> QED
  BY <1>8, <1>9, <1>10

\* What the search does with its frames s.
Turns(s) ==
    LET matched == {<<s[i].l, s[i].r>> : i \in DOMAIN s}
    IN state' = [state EXCEPT
         !.l2r = [l \in Matching!Left |-> IF \E p \in matched : p[1] = l
                                          THEN (CHOOSE p \in matched : p[1] = l)[2]
                                          ELSE state.l2r[l]],
         !.r2l = [q \in Matching!Right |-> IF \E p \in matched : p[2] = q
                                           THEN (CHOOSE p \in matched : p[2] = q)[1]
                                           ELSE state.r2l[q]],
         !.count = state.count + 1, !.l = state.l + 1, !.stack = <<>>]

\* The right node tried is free: the matching is turned along the path.
LEMMA AugmentKeeps ==
    ASSUME Matching!SizeAssumption, MatchingInv, Matching!Augment PROVE MatchingInv'
<1>1. state.stack # <<>>
  BY DEF Matching!Augment
<1>2. PICK r \in Matching!Top.todo :
        state.r2l[r] = Matching!None /\ Turns(Matching!SetTop([Matching!Top EXCEPT !.r = r]))
  BY <1>1 DEF Matching!Augment, Turns
<1> DEFINE n == Len(state.stack)
           T == Matching!Top.todo
           s == Matching!SetTop([l |-> Matching!Top.l, todo |-> T, r |-> r])
           matched == {<<s[i].l, s[i].r>> : i \in 1 .. Len(s)}
           l2r == [l \in Matching!Left |-> IF \E p \in matched : p[1] = l
                                           THEN (CHOOSE p \in matched : p[1] = l)[2]
                                           ELSE state.l2r[l]]
           r2l == [q \in Matching!Right |-> IF \E p \in matched : p[2] = q
                                            THEN (CHOOSE p \in matched : p[2] = q)[1]
                                            ELSE state.r2l[q]]
<1>3. /\ n \in Nat /\ n # 0 /\ n \in 1 .. n /\ 1 \in 1 .. n
      /\ Matching!Top = state.stack[n] /\ Matching!Top \in Frames
      /\ r \in Matching!Right /\ T \in SUBSET Matching!Right
      /\ <<Matching!Top.l, r>> \in state.graph
  BY <1>1, TopIs
<1>4. /\ s \in Seq(Frames) /\ Len(s) = n /\ s # <<>>
      /\ \A i \in 1 .. n : i # n => s[i] = state.stack[i]
      /\ s[n] = [l |-> Matching!Top.l, todo |-> T, r |-> r]
  <2> HIDE DEF T
  <2> QED
    BY <1>1, <1>3, TopTries
<1>5. [Matching!Top EXCEPT !.r = r] = [l |-> Matching!Top.l, todo |-> T, r |-> r]
  BY <1>3 DEF Frames
<1>6. s[n].l = state.stack[n].l /\ s[n].r = r
  BY <1>3, <1>4
<1>7. DOMAIN s = 1 .. Len(s)
  <2> HIDE DEF s
  <2> QED
    BY <1>4
<1> HIDE DEF T
<1>8. Turns(s)
  BY <1>2, <1>5
<1>9. state' = [state EXCEPT !.l2r = l2r, !.r2l = r2l, !.count = state.count + 1,
                             !.l = state.l + 1, !.stack = <<>>]
  <2> HIDE DEF s
  <2> QED
    BY <1>7, <1>8 DEF Turns
<1> HIDE DEF s, n
<1>10. \A i \in 1 .. n : s[i].l = state.stack[i].l
  BY <1>4, <1>6
<1>11. /\ \A i, j \in 1 .. n : state.stack[i].l = state.stack[j].l => i = j
       /\ \A i \in 1 .. n - 1 : /\ <<state.stack[i].l, state.stack[i].r>> \in state.graph
                                /\ state.r2l[state.stack[i].r] = state.stack[i + 1].l
       /\ state.l <= NL /\ state.stack[1].l = state.l /\ state.l2r[state.l] = Matching!None
  BY <1>1 DEF MatchingInv, AlternatingPath, n
<1>12. Path(s, r)
  <2>1. \A i \in 1 .. n - 1 : i \in 1 .. n /\ i # n /\ i + 1 \in 1 .. n
    BY <1>3
  <2>2. \A i \in 1 .. n - 1 : state.r2l[s[i].r] = s[i + 1].l /\ <<s[i].l, s[i].r>> \in state.graph
    BY <1>4, <1>10, <1>11, <2>1
  <2>3. <<s[n].l, s[n].r>> \in state.graph
    BY <1>3, <1>6
  <2>4. \A i \in 1 .. n : i = n \/ i \in 1 .. n - 1
    BY <1>3
  <2>5. \A i, j \in 1 .. n : s[i].l = s[j].l => i = j
    BY <1>10, <1>11
  <2> QED
    BY <1>2, <1>3, <1>4, <1>6, <1>10, <1>11, <2>2, <2>3, <2>4, <2>5 DEF Path
<1>13. Turned(s, l2r, r2l)
  <2> HIDE DEF matched
  <2> QED
    BY <1>12, PathTurned DEF matched
<1> HIDE DEF l2r, r2l
<1>14. state.l \in Matching!Left /\ state.l \in 1 .. NL /\ state.l + 1 \in 1 .. NL + 1
  BY <1>11, MatchingNow DEF MatchingInv, Matching!Left, Matching!SizeAssumption
<1>15. /\ state'.graph = state.graph /\ state'.l2r = l2r /\ state'.r2l = r2l
       /\ state'.seen = state.seen /\ state'.count = state.count + 1
       /\ state'.old_count = state.old_count /\ state'.stack = <<>>
       /\ state'.done = state.done /\ state'.l = state.l + 1
  BY <1>9 DEF MatchingInv, MatchingTyped
<1>16. /\ state.count \in Nat /\ state.old_count \in Nat /\ state.old_count <= state.count
       /\ ~state.done
  BY <1>1, MatchingNow DEF MatchingInv, Scanned
<1>17. MatchingTyped'
  <2>1. /\ l2r \in [Matching!Left -> Matching!Right \cup {Matching!None}]
        /\ r2l \in [Matching!Right -> Matching!Left \cup {Matching!None}]
    BY <1>13 DEF Turned
  <2>2. <<>> \in Seq(Frames) /\ state.count + 1 \in Nat
    BY <1>16
  <2> QED
    BY <1>9, <1>14, <2>1, <2>2 DEF MatchingInv, MatchingTyped, Matching!Left, Matching!Right,
                                   Matching!None, Frames
<1>18. /\ \A l \in Matching!Left : l2r[l] # Matching!None =>
            <<l, l2r[l]>> \in state.graph /\ r2l[l2r[l]] = l
       /\ \A q \in Matching!Right : r2l[q] # Matching!None => l2r[r2l[q]] = q
       /\ \A l \in Matching!Left :
            l2r[l] # Matching!None <=> l = state.l \/ state.l2r[l] # Matching!None
  BY <1>12, <1>13, <1>14, TurnedMatches
<1>19. state.count + 1 = Matching!Cardinality({l \in Matching!Left : l2r[l] # Matching!None})
  <2> DEFINE A == {l \in Matching!Left : state.l2r[l] # Matching!None}
             B == {l \in Matching!Left : l2r[l] # Matching!None}
  <2>1. B = A \cup {state.l} /\ state.l \notin A
    BY <1>11, <1>14, <1>18
  <2>2. IsFiniteSet(A)
    <3>1. IsFiniteSet(Matching!Left)
      BY FS_Interval DEF Matching!Left, Matching!SizeAssumption
    <3> QED
      BY <3>1, FS_Subset
  <2>3. state.count = Cardinality(A)
    BY SameCardinality DEF MatchingInv, Matching!Mutual
  <2> HIDE DEF A, B
  <2>4. Cardinality(B) = Cardinality(A) + 1
    BY <2>1, <2>2, FS_AddElement
  <2> QED
    BY <2>3, <2>4, SameCardinality DEF B
<1>20. Matching!Mutual'
  BY <1>15, <1>18, <1>19 DEF Matching!Mutual, Matching!Left, Matching!Right, Matching!None
<1>21. AlternatingPath' /\ Explored'
  <2>1. state.count + 1 # state.old_count
    BY <1>16
  <2>2. Len(<<>>) = 0
    OBVIOUS
  <2> QED
    BY <1>15, <2>1, <2>2 DEF AlternatingPath, Explored
<1>22. Scanned'
  <2>1. \A l \in Matching!Left : l < state.l + 1 => l < state.l \/ l = state.l
    BY <1>14 DEF Matching!Left
  <2>2. \A l \in Matching!Left :
          l < state.l + 1 => l2r[l] # Matching!None \/ l \in state.seen
    BY <1>18, <2>1 DEF MatchingInv, Scanned
  <2>3. state.old_count <= state.count + 1
    BY <1>16
  <2> QED
    BY <1>15, <1>16, <2>2, <2>3 DEF Scanned, Matching!Left, Matching!None
<1> QED
  BY <1>17, <1>20, <1>21, <1>22 DEF MatchingInv

\* A frame that has left for r.
LEMMA FrameTried ==
    ASSUME NEW f \in Frames, NEW r
    PROVE  [f EXCEPT !.todo = @ \ {r}, !.r = r] = [l |-> f.l, todo |-> f.todo \ {r}, r |-> r]
<1> SUFFICES ASSUME NEW g, g = [f EXCEPT !.todo = @ \ {r}, !.r = r]
             PROVE  g = [l |-> f.l, todo |-> f.todo \ {r}, r |-> r]
  OBVIOUS
<1> QED
  BY DEF Frames

LEMMA MatchingStep ==
    ASSUME Matching!SizeAssumption, MatchingInv, [Matching!Next]_state PROVE MatchingInv'
<1>1. CASE Matching!Scan
  <2>1. ~state.done /\ state.stack = <<>> /\ state.l <= NL
    BY <1>1 DEF Matching!Scan
  <2>2. CASE state.l2r[state.l] # Matching!None \/ state.l \in state.seen
    <3>1. state' = [state EXCEPT !.l = state.l + 1]
      BY <1>1, <2>2 DEF Matching!Scan
    <3> QED
      BY <2>1, <2>2, <3>1, ScanPasses
  <2>3. CASE ~(state.l2r[state.l] # Matching!None \/ state.l \in state.seen)
    <3>1. state' = [state EXCEPT !.stack = <<Matching!Frame(state.l)>>,
                                 !.seen = state.seen \cup {state.l}]
      BY <1>1, <2>3 DEF Matching!Scan
    <3> QED
      BY <2>1, <2>3, <3>1, ScanSearches
  <2> QED
    BY <2>2, <2>3
<1>2. CASE Matching!Descend
  <2>1. state.stack # <<>>
    BY <1>2 DEF Matching!Descend
  <2>2. PICK r \in Matching!Top.todo :
          /\ state.r2l[r] # Matching!None
          /\ state' = LET s == Matching!SetTop([Matching!Top EXCEPT !.todo = @ \ {r}, !.r = r])
                      IN IF state.r2l[r] \in state.seen THEN [state EXCEPT !.stack = s]
                         ELSE [state EXCEPT !.stack = Append(s, Matching!Frame(state.r2l[r])),
                                            !.seen = @ \cup {state.r2l[r]}]
    BY <1>2, <2>1 DEF Matching!Descend
  <2> DEFINE t == [l |-> Matching!Top.l, todo |-> Matching!Top.todo \ {r}, r |-> r]
  <2>3. [Matching!Top EXCEPT !.todo = @ \ {r}, !.r = r] = t
    BY <2>1, TopIs, FrameTried
  <2>4. CASE state.r2l[r] \in state.seen
    <3>1. state' = [state EXCEPT !.stack = Matching!SetTop(t)]
      <4> HIDE DEF t
      <4> QED
        BY <2>2, <2>3, <2>4
    <3> QED
      BY <2>1, <2>4, <3>1, DescendSeen
  <2>5. CASE state.r2l[r] \notin state.seen
    <3>1. state' = [state EXCEPT !.stack = Append(Matching!SetTop(t),
                                                  Matching!Frame(state.r2l[r])),
                                 !.seen = state.seen \cup {state.r2l[r]}]
      <4> HIDE DEF t
      <4> QED
        BY <2>2, <2>3, <2>5
    <3> QED
      BY <2>1, <2>2, <2>5, <3>1, DescendFurther
  <2> QED
    BY <2>4, <2>5
<1>3. CASE UNCHANGED state
  BY <1>3 DEF MatchingInv, MatchingTyped, Matching!Mutual, AlternatingPath, Explored, Scanned,
              Frames, Matching!Left, Matching!Right, Matching!None
<1> QED
  BY <1>1, <1>2, <1>3, AugmentKeeps, BacktrackKeeps, NextRoundKeeps DEF Matching!Next

\* Koenig's theorem: at the end every unmatched left node has been seen, so that the
\* left nodes not seen and the right nodes matched to nodes seen cover all edges, and
\* each of them is on an edge of its own of the matching.
LEMMA Koenig ==
    ASSUME Matching!SizeAssumption, MatchingInv, state.done
    PROVE  \E L \in SUBSET Matching!Left, R \in SUBSET Matching!Right :
             /\ Cardinality(L) + Cardinality(R) = state.count
             /\ \A e \in state.graph : e[1] \in L \/ e[2] \in R
<1> DEFINE L == Matching!Left \ state.seen
           R == {r \in Matching!Right : state.r2l[r] \in state.seen}
           A == {l \in Matching!Left : state.l2r[l] # Matching!None}
           B == A \cap state.seen
           f == [l \in B |-> state.l2r[l]]
<1>1. state.stack = <<>> /\ Len(state.stack) = 0 /\ state.l > NL /\ state.count = state.old_count
  BY DEF MatchingInv, Scanned
<1>2. /\ \A e \in state.graph : e[1] \in Matching!Left /\ e[2] \in Matching!Right
      /\ state.l2r \in [Matching!Left -> Matching!Right \cup {Matching!None}]
      /\ state.r2l \in [Matching!Right -> Matching!Left \cup {Matching!None}]
      /\ state.seen \subseteq Matching!Left
  BY MatchingNow DEF MatchingInv
<1>3. L \subseteq A
  <2>1. \A l \in Matching!Left : l < state.l
    <3>1. state.l = NL + 1
      BY <1>1, MatchingNow DEF MatchingInv, Matching!SizeAssumption
    <3> QED
      BY <3>1 DEF Matching!Left, Matching!SizeAssumption
  <2> QED
    BY <2>1 DEF MatchingInv, Scanned
<1>4. \A e \in state.graph : e[1] \in L \/ e[2] \in R
  <2> SUFFICES ASSUME NEW e \in state.graph, e[1] \in state.seen PROVE e[2] \in R
    BY <1>2
  <2>1. state.r2l[e[2]] \in state.seen
    BY <1>1 DEF MatchingInv, Explored
  <2> QED
    BY <1>2, <2>1
<1>5. /\ \A l \in Matching!Left : state.l2r[l] # Matching!None => state.r2l[state.l2r[l]] = l
      /\ \A r \in Matching!Right : state.r2l[r] # Matching!None => state.l2r[state.r2l[r]] = r
  BY DEF MatchingInv, Matching!Mutual
<1>6. Matching!None \notin Matching!Left /\ Matching!None \notin Matching!Right
  BY DEF Matching!None, Matching!Left, Matching!Right
<1>7. f \in [B -> R]
  BY <1>2, <1>5
<1>8. \A k, l \in B : f[k] = f[l] => k = l
  BY <1>5
<1>9. ASSUME NEW r \in R PROVE \E l \in B : f[l] = r
  <2>1. state.r2l[r] \in state.seen /\ r \in Matching!Right
    OBVIOUS
  <2>2. state.r2l[r] \in Matching!Left /\ state.l2r[state.r2l[r]] = r
    BY <1>2, <1>5, <1>6, <2>1
  <2>3. state.r2l[r] \in B
    BY <1>6, <2>1, <2>2
  <2> QED
    BY <2>2, <2>3
<1>10. IsFiniteSet(A)
  <2>1. IsFiniteSet(Matching!Left)
    BY FS_Interval DEF Matching!Left, Matching!SizeAssumption
  <2> QED
    BY <2>1, FS_Subset
<1>11. state.count = Cardinality(A)
  BY SameCardinality DEF MatchingInv, Matching!Mutual
<1>12. A = L \cup B /\ L \cap B = {} /\ L \in SUBSET A /\ B \in SUBSET A
  BY <1>3
<1> HIDE DEF A, B, f, L, R
<1>13. IsFiniteSet(L) /\ IsFiniteSet(B)
  BY <1>10, <1>12, FS_Subset
<1>14. Cardinality(R) = Cardinality(B)
  BY <1>7, <1>8, <1>9, <1>13, SameNumber
<1>15. Cardinality(A) = Cardinality(L) + Cardinality(B)
  <2>1. Cardinality(L \cup B) = Cardinality(L) + Cardinality(B) - Cardinality(L \cap B)
    BY <1>13, FS_Union
  <2>2. Cardinality(L \cap B) = 0
    BY <1>12, FS_EmptySet
  <2>3. Cardinality(L) \in Nat /\ Cardinality(B) \in Nat
    BY <1>13, FS_CardinalityType
  <2> QED
    BY <1>12, <2>1, <2>2, <2>3
<1>16. L \in SUBSET Matching!Left /\ R \in SUBSET Matching!Right
  BY DEF L, R
<1> QED
  BY <1>4, <1>11, <1>14, <1>15, <1>16

LEMMA MatchingAnswers ==
    ASSUME Matching!SizeAssumption, MatchingInv PROVE Matching!MatchingMaximum
<1>1. Matching!Mutual
  BY DEF MatchingInv
<1>2. state.done => \E L \in SUBSET Matching!Left, R \in SUBSET Matching!Right :
        /\ Matching!Cardinality(L) + Matching!Cardinality(R) = state.count
        /\ \A e \in state.graph : e[1] \in L \/ e[2] \in R
  BY Koenig, SameCardinality
<1> QED
  BY <1>1, <1>2 DEF Matching!MatchingMaximum

\* Kuhn's algorithm: whatever edges are tried in whatever order, the left and the right
\* nodes are matched to each other along edges, count is their number, and what is
\* returned is a matching that no other one exceeds.  Stable marriage: in whatever order
\* the men propose, everyone free finds someone willing, and at the end no pair prefer
\* each other and no man has a better wife in any other stable matching.
THEOREM MatchingsBestOfAll == PlainSpec => []MatchingsBest
<1> DEFINE Inv == /\ program = "matching" => MatchingInv
                  /\ program = "marriage" => MarriageInv
<1>1. Matching!SizeAssumption /\ Marriage!PreferencesAssumption
  BY PlainAssumption
<1>2. PlainInit => Inv
  BY <1>1, MatchingInitial, MarriageInitial DEF PlainInit
<1>3. Inv /\ [PlainNext]_plainVars => Inv'
  <2> SUFFICES ASSUME Inv, [PlainNext]_plainVars PROVE Inv'
    OBVIOUS
  <2>1. ASSUME program' = "matching" PROVE MatchingInv'
    <3>1. program = "matching" /\ [Matching!Next]_state
      BY <2>1 DEF PlainNext, plainVars
    <3> QED
      BY <1>1, <3>1, MatchingStep
  <2>2. ASSUME program' = "marriage" PROVE MarriageInv'
    <3>1. program = "marriage" /\ [Marriage!Next]_state
      BY <2>2 DEF PlainNext, plainVars
    <3> QED
      BY <1>1, <3>1, MarriageStep
  <2> QED
    BY <2>1, <2>2
<1>4. Inv => MatchingsBest
  BY <1>1, MatchingAnswers, MarriageAnswers DEF MatchingsBest
<1> QED
  BY <1>2, <1>3, <1>4, PTL DEF PlainSpec

=============================================================================
