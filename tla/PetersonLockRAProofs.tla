------------------------ MODULE PetersonLockRAProofs ------------------------
(***************************************************************************)
(* Proofs about PetersonLockRA for any number of rounds: mutual exclusion  *)
(* and which increments a holder of the lock sees, from an inductive       *)
(* invariant that relates what a thread may still read to what the other   *)
(* one has written.                                                        *)
(***************************************************************************)
EXTENDS PetersonLockRA, SequenceTheorems, TLAPS

(***************************************************************************)
(* The inductive invariant                                                 *)
(***************************************************************************)

View == [Loc -> Nat]
Write == [val : Nat, view : View]
Label == {"loop", "swap_victim", "load_interested", "load_victim",
          "read_counter", "write_counter", "unlock", "finished"}

TypeInv == /\ mem \in [Loc -> Seq(Write)]
           /\ view \in [Tid -> View]
           /\ pc \in [Tid -> Label]
           /\ oldCnt \in [Tid -> Nat]
           /\ rounds \in [Tid -> Nat]
           /\ exit \in [Tid -> {"none", "interested", "victim"}]

\* A view points at writes that exist.
Exists(v, m) == \A l \in Loc : v[l] \in 1 .. Len(m[l])
Within(v) == Exists(v, mem)

Bounds == /\ \A t \in Tid : Within(view[t])
          /\ \A l \in Loc : \A i \in 1 .. Len(mem[l]) : Within(mem[l][i].view)
          /\ \A t \in Tid : \A i \in 1 .. Len(mem[Interested(t)]) :
                mem[Interested(t)][i].val \in {0, 1}
          /\ Last("victim").val \in Tid

\* Only t writes interested[t], and the last write says whether it is between
\* lock() and unlock().
Entered(t) == /\ view[t][Interested(t)] = Len(mem[Interested(t)])
              /\ Last(Interested(t)).val = IF pc[t] \in {"loop", "finished"} THEN 0 ELSE 1

\* The victim was the last to swap, and its swap released its interest.
LastVictim(t) == Queued(t) /\ Last("victim").val = t =>
    /\ view[t]["victim"] = Len(mem["victim"])
    /\ Last("victim").view[Interested(t)] = Len(mem[Interested(t)])

\* The victim acquired the interest of the thread before it, so it waits.
VictimWaits(t) == Queued(t) /\ Queued(Other(t)) /\ Last("victim").val = t =>
    /\ Waiting(t)
    /\ view[t][Interested(Other(t))] = Len(mem[Interested(Other(t))])

LoneVictim(t) == Queued(t) /\ ~Queued(Other(t)) => Last("victim").val = t

\* Whoever has the view v and reads interested[o] = false sees every increment.
FreshIn(v, o, m) == \A i \in v[Interested(o)] .. Len(m[Interested(o)]) :
    m[Interested(o)][i].val = 0 =>
        \/ v["counter"] = Len(m["counter"])
        \/ m[Interested(o)][i].view["counter"] = Len(m["counter"])
Fresh(v, o) == FreshIn(v, o, mem)

Synchronised(t) ==
    /\ ~Queued(t) /\ ~Queued(Other(t)) => Fresh(Join(view[t], Last("victim").view), Other(t))
    /\ Waiting(t) /\ ~Holding(Other(t)) => Fresh(view[t], Other(t))
    /\ pc[t] = "unlock" => UpToDate(t)
    /\ pc[t] = "read_counter" /\ exit[t] = "interested" => UpToDate(t)

\* A thread that left the loop because it was not the victim owes that to the
\* other one, and has missed nothing unless the other one has been here before.
Invited(t) ==
    /\ pc[t] = "read_counter" => exit[t] \in {"interested", "victim"}
    /\ pc[t] = "read_counter" /\ exit[t] = "victim" =>
          Queued(Other(t)) /\ Last("victim").val = Other(t)
    /\ rounds[Other(t)] = 0 /\ pc[Other(t)] # "unlock" => UpToDate(t)

ThreadInv(t) == /\ Entered(t)
                /\ LastVictim(t)
                /\ VictimWaits(t)
                /\ LoneVictim(t)
                /\ Synchronised(t)
                /\ Invited(t)

RAInv == TypeInv /\ Bounds /\ \A t \in Tid : ThreadInv(t)

(***************************************************************************)
(* Threads, locations, views                                               *)
(***************************************************************************)

\* There are two threads, and each has a location of its own.
LEMMA TwoThreads ==
    ASSUME NEW s \in Tid
    PROVE  /\ Other(s) \in Tid /\ Other(s) # s /\ Other(Other(s)) = s
           /\ \A t \in Tid : t = s \/ t = Other(s)
           /\ Interested(s) \in Loc /\ Interested(Other(s)) \in Loc
           /\ Interested(s) # Interested(Other(s))
           /\ Interested(s) \notin {"victim", "counter"}
           /\ Interested(Other(s)) \notin {"victim", "counter"}
           /\ "victim" \in Loc /\ "counter" \in Loc
  BY DEF Tid, Other, Interested, Loc

\* Max, which CHOOSEs, picks the greater of two numbers.
LEMMA MaxOfTwo == ASSUME NEW a \in Nat, NEW b \in Nat
                  PROVE  Max({a, b}) \in {a, b} /\ Max({a, b}) >= a /\ Max({a, b}) >= b
<1> DEFINE m == IF a >= b THEN a ELSE b
<1>1. m \in {a, b} /\ \A y \in {a, b} : m >= y
  OBVIOUS
<1> QED
  BY <1>1 DEF Max

\* Join takes the newer write of every location.
LEMMA JoinIsUpper ==
    ASSUME NEW v \in View, NEW w \in View
    PROVE  /\ Join(v, w) \in View
           /\ \A l \in Loc : /\ Join(v, w)[l] \in {v[l], w[l]}
                             /\ Join(v, w)[l] >= v[l] /\ Join(v, w)[l] >= w[l]
<1>1. \A l \in Loc : /\ Join(v, w)[l] = Max({v[l], w[l]})
                     /\ v[l] \in Nat /\ w[l] \in Nat
  BY DEF Join, View
<1>2. \A l \in Loc : /\ Join(v, w)[l] \in {v[l], w[l]}
                     /\ Join(v, w)[l] >= v[l] /\ Join(v, w)[l] >= w[l]
  BY <1>1, MaxOfTwo
<1>3. Join(v, w) = [l \in Loc |-> Join(v, w)[l]]
  BY DEF Join
<1> HIDE DEF View
<1>4. Join(v, w) \in View
  BY <1>1, <1>2, <1>3 DEF View
<1> QED
  BY <1>2, <1>4

\* The join of two views of what exists is one, and keeps what either is up to
\* date with.
LEMMA JoinWithin ==
    ASSUME NEW v \in View, NEW w \in View, Within(v), Within(w)
    PROVE  /\ Join(v, w) \in View /\ Within(Join(v, w))
           /\ \A l \in Loc : v[l] = Len(mem[l]) \/ w[l] = Len(mem[l])
                                => Join(v, w)[l] = Len(mem[l])
<1> DEFINE j == Join(v, w)
<1>1. /\ j \in View
      /\ \A l \in Loc : j[l] \in {v[l], w[l]} /\ j[l] >= v[l] /\ j[l] >= w[l]
  BY JoinIsUpper
<1> HIDE DEF j
<1>2. \A l \in Loc : v[l] \in Nat /\ w[l] \in Nat
  BY DEF View
<1>3. Within(j)
  BY <1>1 DEF Within, Exists
<1>4. \A l \in Loc : v[l] = Len(mem[l]) \/ w[l] = Len(mem[l]) => j[l] = Len(mem[l])
  <2> TAKE l \in Loc
  <2>1. v[l] \in 1 .. Len(mem[l]) /\ w[l] \in 1 .. Len(mem[l])
    BY DEF Within, Exists
  <2> QED
    BY <1>1, <1>2, <2>1
<1> QED
  BY <1>1, <1>3, <1>4 DEF j

\* A view stays fresh when it grows, and when interested[o] is written again,
\* true or with a view of every increment.
LEMMA FreshMore ==
    ASSUME NEW m, NEW n, NEW o \in Tid, NEW v \in View, NEW w \in View,
           FreshIn(v, o, m),
           Len(m[Interested(o)]) \in Nat, Len(n[Interested(o)]) \in Nat,
           n["counter"] = m["counter"],
           v[Interested(o)] >= 1, w[Interested(o)] >= v[Interested(o)],
           v["counter"] = Len(m["counter"]) => w["counter"] = Len(m["counter"]),
           \A i \in 1 .. Len(n[Interested(o)]) :
               \/ i <= Len(m[Interested(o)]) /\ n[Interested(o)][i] = m[Interested(o)][i]
               \/ n[Interested(o)][i].val # 0
               \/ n[Interested(o)][i].view["counter"] = Len(m["counter"])
    PROVE  FreshIn(w, o, n)
<1>1. v[Interested(o)] \in Nat /\ w[Interested(o)] \in Nat
  BY TwoThreads DEF View
<1> SUFFICES ASSUME NEW i \in w[Interested(o)] .. Len(n[Interested(o)]),
                    n[Interested(o)][i].val = 0, w["counter"] # Len(m["counter"])
             PROVE  n[Interested(o)][i].view["counter"] = Len(m["counter"])
  BY DEF FreshIn
<1>2. i \in 1 .. Len(n[Interested(o)]) /\ i >= v[Interested(o)] /\ i \in Int
  BY <1>1
<1>3. CASE i <= Len(m[Interested(o)]) /\ n[Interested(o)][i] = m[Interested(o)][i]
  <2>1. i \in v[Interested(o)] .. Len(m[Interested(o)])
    BY <1>1, <1>2, <1>3
  <2> QED
    BY <1>3, <2>1 DEF FreshIn
<1> QED
  BY <1>2, <1>3

LEMMA FreshStep ==
    ASSUME TypeInv, mem' \in [Loc -> Seq(Write)],
           NEW o \in Tid, NEW v \in View, NEW w \in View, Within(v), Fresh(v, o),
           mem'["counter"] = mem["counter"],
           w[Interested(o)] >= v[Interested(o)],
           v["counter"] = Len(mem["counter"]) => w["counter"] = Len(mem["counter"]),
           \A i \in 1 .. Len(mem'[Interested(o)]) :
               \/ i <= Len(mem[Interested(o)]) /\ mem'[Interested(o)][i] = mem[Interested(o)][i]
               \/ mem'[Interested(o)][i].val # 0
               \/ mem'[Interested(o)][i].view["counter"] = Len(mem["counter"])
    PROVE  FreshIn(w, o, mem')
<1>1. Interested(o) \in Loc
  BY TwoThreads
<1>2. /\ Len(mem[Interested(o)]) \in Nat /\ Len(mem'[Interested(o)]) \in Nat
      /\ v[Interested(o)] >= 1
  BY <1>1 DEF TypeInv, Within, Exists
<1>3. FreshIn(v, o, mem)
  BY DEF Fresh
<1> QED
  BY <1>2, <1>3, FreshMore

\* Two threads cannot both hold the lock: one of them is the victim, and waits.
LEMMA Exclusive == ASSUME RAInv, NEW s \in Tid, Holding(s)
                   PROVE  /\ ~Holding(Other(s))
                          /\ Queued(Other(s)) => Last("victim").val = Other(s)
<1>1. Queued(s) /\ ~Waiting(s)
  BY DEF Queued, Waiting, Holding
<1>2. VictimWaits(s) /\ VictimWaits(Other(s)) /\ Last("victim").val \in Tid
  BY TwoThreads DEF RAInv, ThreadInv, Bounds
<1>3. Queued(Other(s)) => Last("victim").val = Other(s)
  BY <1>1, <1>2, TwoThreads DEF VictimWaits
<1>4. Holding(Other(s)) => Queued(Other(s)) /\ ~Waiting(Other(s))
  BY DEF Queued, Waiting, Holding
<1>5. ~Holding(Other(s))
  BY <1>1, <1>2, <1>3, <1>4, TwoThreads DEF VictimWaits
<1> QED
  BY <1>3, <1>5

(***************************************************************************)
(* Reads and writes                                                        *)
(***************************************************************************)

\* A write adds one element to the history of its location.
LEMMA AppendMem ==
    ASSUME TypeInv, NEW l \in Loc, NEW val \in Nat, NEW w \in View, Append1(l, val, w)
    PROVE  /\ mem' \in [Loc -> Seq(Write)]
           /\ Len(mem'[l]) = Len(mem[l]) + 1
           /\ mem'[l][Len(mem[l]) + 1] = [val |-> val, view |-> w]
           /\ \A i \in 1 .. Len(mem[l]) : mem'[l][i] = mem[l][i]
           /\ \A k \in Loc \ {l} : mem'[k] = mem[k]
<1> DEFINE e == [val |-> val, view |-> w]
           r == Append(mem[l], e)
<1>1. e \in Write /\ mem[l] \in Seq(Write)
  BY DEF Write, TypeInv
<1> HIDE DEF e
<1>2. /\ r \in Seq(Write) /\ Len(r) = Len(mem[l]) + 1
      /\ r[Len(mem[l]) + 1] = e
      /\ \A i \in 1 .. Len(mem[l]) : r[i] = mem[l][i]
  BY <1>1, AppendProperties
<1>3. mem' = [mem EXCEPT ![l] = r]
  BY DEF Append1, e
<1> HIDE DEF r
<1>4. mem \in [Loc -> Seq(Write)]
  BY DEF TypeInv
<1>5. mem'[l] = r /\ \A k \in Loc \ {l} : mem'[k] = mem[k]
  BY <1>3, <1>4
<1>6. mem' \in [Loc -> Seq(Write)]
  BY <1>2, <1>3, <1>4
<1> QED
  BY <1>2, <1>5, <1>6 DEF e

\* What existed still exists after a write, and the writer's new view exists.
LEMMA WriteWithin ==
    ASSUME TypeInv, Bounds, NEW l \in Loc, NEW val \in Nat, NEW w \in View,
           Append1(l, val, w), w[l] = Len(mem[l]) + 1,
           \A k \in Loc \ {l} : w[k] \in 1 .. Len(mem[k])
    PROVE  /\ \A v \in View : Within(v) => Exists(v, mem')
           /\ Exists(w, mem')
           /\ \A k \in Loc : \A i \in 1 .. Len(mem'[k]) : Exists(mem'[k][i].view, mem')
<1>1. \A k \in Loc : Len(mem[k]) \in Nat
  BY DEF TypeInv
<1>2. /\ Len(mem'[l]) = Len(mem[l]) + 1
      /\ mem'[l][Len(mem[l]) + 1] = [val |-> val, view |-> w]
      /\ \A i \in 1 .. Len(mem[l]) : mem'[l][i] = mem[l][i]
      /\ \A k \in Loc \ {l} : mem'[k] = mem[k]
  BY AppendMem
<1>3. \A k \in Loc : Len(mem'[k]) \in Nat /\ Len(mem'[k]) >= Len(mem[k])
  BY <1>1, <1>2
<1>4. \A v \in View : Within(v) => Exists(v, mem')
  BY <1>1, <1>3 DEF Within, Exists, View
<1>5. Exists(w, mem')
  BY <1>1, <1>2 DEF Exists
<1>6. ASSUME NEW k \in Loc, NEW i \in 1 .. Len(mem'[k])
      PROVE  Exists(mem'[k][i].view, mem')
  <2>1. CASE i \in 1 .. Len(mem[k])
    <3>1. mem'[k][i] = mem[k][i]
      BY <1>2, <2>1
    <3>2. Within(mem[k][i].view)
      BY <2>1 DEF Bounds
    <3>3. mem[k] \in Seq(Write)
      BY DEF TypeInv
    <3>4. mem[k][i] \in Write
      BY <2>1, <3>3, ElementOfSeq
    <3>5. mem[k][i].view \in View
      BY <3>4 DEF Write
    <3> QED
      BY <1>4, <3>1, <3>2, <3>5
  <2>2. CASE i \notin 1 .. Len(mem[k])
    <3>1. k = l /\ i = Len(mem[l]) + 1
      BY <1>1, <1>2, <2>2
    <3>2. mem'[k][i].view = w
      BY <1>2, <3>1
    <3> QED
      BY <1>5, <3>2
  <2> QED
    BY <2>1, <2>2
<1> QED
  BY <1>4, <1>5, <1>6

\* A view that advances at one location.
LEMMA AdvancedView ==
    ASSUME TypeInv, NEW v \in View, Within(v), NEW l \in Loc
    PROVE  /\ Advanced(v, l) \in View
           /\ Advanced(v, l)[l] = Len(mem[l]) + 1
           /\ \A k \in Loc \ {l} : /\ Advanced(v, l)[k] = v[k]
                                   /\ Advanced(v, l)[k] \in 1 .. Len(mem[k])
<1>1. Len(mem[l]) \in Nat
  BY DEF TypeInv
<1> QED
  BY <1>1 DEF Advanced, View, Within, Exists

\* NoView is within every memory.
LEMMA NoViewWithin == ASSUME TypeInv, Bounds
                      PROVE  NoView \in View /\ Within(NoView)
<1>1. 0 \in Tid /\ Within(view[0]) /\ view[0] \in View
  BY DEF Bounds, TypeInv, Tid
<1>2. \A l \in Loc : Len(mem[l]) \in Nat
  BY DEF TypeInv
<1> QED
  BY <1>1, <1>2 DEF Within, Exists, NoView, View

\* The last write of a location exists, and so does what it released.
LEMMA LastWrite ==
    ASSUME TypeInv, Bounds, NEW l \in Loc
    PROVE  /\ Len(mem[l]) \in Nat /\ Len(mem[l]) >= 1
           /\ Last(l) \in Write /\ Last(l).view \in View /\ Within(Last(l).view)
<1>1. Len(mem[l]) \in Nat /\ Len(mem[l]) >= 1 /\ mem[l] \in Seq(Write)
  <2>1. Within(NoView) /\ NoView[l] = 1
    BY NoViewWithin DEF NoView
  <2> QED
    BY <2>1 DEF TypeInv, Within, Exists
<1>2. Last(l) \in Write
  BY <1>1, ElementOfSeq DEF Last
<1>3. Last(l).view \in View
  BY <1>2 DEF Write
<1>4. Within(Last(l).view)
  BY <1>1 DEF Bounds, Last
<1> QED
  BY <1>1, <1>2, <1>3, <1>4

\* One thread writes l, and moves on to a view that has its own write.
LEMMA WriteStep ==
    ASSUME RAInv, NEW s \in Tid, NEW l \in Loc, NEW val \in Nat,
           NEW w \in View, NEW a \in View,
           Append1(l, val, w), view' = [view EXCEPT ![s] = a],
           w[l] = Len(mem[l]) + 1, a[l] = Len(mem[l]) + 1,
           \A k \in Loc \ {l} : w[k] \in 1 .. Len(mem[k]) /\ a[k] \in 1 .. Len(mem[k])
    PROVE  /\ mem' \in [Loc -> Seq(Write)] /\ view' \in [Tid -> View]
           /\ Len(mem'[l]) = Len(mem[l]) + 1
           /\ mem'[l][Len(mem[l]) + 1] = [val |-> val, view |-> w]
           /\ \A i \in 1 .. Len(mem[l]) : mem'[l][i] = mem[l][i]
           /\ \A k \in Loc \ {l} : mem'[k] = mem[k]
           /\ view'[s] = a /\ view'[Other(s)] = view[Other(s)]
           /\ \A t \in Tid : Exists(view'[t], mem')
           /\ \A k \in Loc : \A i \in 1 .. Len(mem'[k]) : Exists(mem'[k][i].view, mem')
<1>1. TypeInv /\ Bounds /\ Other(s) \in Tid /\ Other(s) # s
  BY TwoThreads DEF RAInv
<1>2. /\ mem' \in [Loc -> Seq(Write)]
      /\ Len(mem'[l]) = Len(mem[l]) + 1
      /\ mem'[l][Len(mem[l]) + 1] = [val |-> val, view |-> w]
      /\ \A i \in 1 .. Len(mem[l]) : mem'[l][i] = mem[l][i]
      /\ \A k \in Loc \ {l} : mem'[k] = mem[k]
  BY <1>1, AppendMem
<1>3. /\ \A v \in View : Within(v) => Exists(v, mem')
      /\ \A k \in Loc : \A i \in 1 .. Len(mem'[k]) : Exists(mem'[k][i].view, mem')
  BY <1>1, WriteWithin
<1>4. view \in [Tid -> View]
  BY <1>1 DEF TypeInv
<1>5. view' \in [Tid -> View] /\ view'[s] = a /\ \A t \in Tid \ {s} : view'[t] = view[t]
  BY <1>4
<1>6. Len(mem[l]) \in Nat
  BY <1>1 DEF TypeInv
<1>7. Exists(a, mem')
  BY <1>2, <1>6 DEF Exists
<1>8. \A t \in Tid : Within(view[t])
  BY <1>1 DEF Bounds
<1>9. \A t \in Tid : Exists(view'[t], mem')
  BY <1>3, <1>4, <1>5, <1>7, <1>8
<1> QED
  BY <1>1, <1>2, <1>3, <1>5, <1>9

(***************************************************************************)
(* The invariant is inductive                                              *)
(***************************************************************************)

LEMMA InitInv == Init => RAInv
<1> SUFFICES ASSUME Init PROVE RAInv
  OBVIOUS
<1> DEFINE e == [val |-> 0, view |-> NoView]
<1>1. NoView \in View /\ e \in Write
  BY DEF NoView, View, Write
<1>2. /\ \A l \in Loc : mem[l] = <<e>> /\ Len(mem[l]) = 1 /\ mem[l][1] = e
      /\ \A t \in Tid : view[t] = NoView /\ pc[t] = "loop" /\ rounds[t] = 0
  BY DEF Init
<1>3. \A l \in Loc : NoView[l] = 1
  BY DEF NoView
<1>4. TypeInv
  BY <1>1 DEF Init, TypeInv, Label
<1>5. Bounds
  <2>1. Within(NoView)
    BY <1>2, <1>3 DEF Within, Exists
  <2>2. e.view = NoView /\ e.val = 0
    OBVIOUS
  <2> HIDE DEF e
  <2> QED
    BY <1>2, <2>1, <2>2, TwoThreads DEF Bounds, Last, Tid
<1>6. ASSUME NEW t \in Tid PROVE ThreadInv(t)
  <2>1. ~Queued(t) /\ ~Queued(Other(t))
    BY <1>2, TwoThreads DEF Queued, Waiting, Holding
  <2>2. UpToDate(t)
    BY <1>2, <1>3, TwoThreads DEF UpToDate
  <2>3. Entered(t)
    <3>1. Interested(t) \in Loc /\ Last(Interested(t)) = e /\ Len(mem[Interested(t)]) = 1
      BY <1>2, TwoThreads DEF Last
    <3>2. view[t][Interested(t)] = 1
      BY <1>2, <1>3, <3>1
    <3> QED
      BY <1>2, <3>1, <3>2 DEF Entered
  <2>4. Fresh(Join(view[t], Last("victim").view), Other(t))
    <3>1. view[t] = NoView /\ Last("victim").view = NoView /\ Within(NoView)
      BY <1>2, <1>4, <1>5, NoViewWithin, TwoThreads DEF Last
    <3>2. NoView["counter"] = Len(mem["counter"]) /\ "counter" \in Loc
      BY <1>2, <1>3, TwoThreads
    <3>3. Join(view[t], Last("victim").view)["counter"] = Len(mem["counter"])
      BY <1>1, <3>1, <3>2, JoinWithin
    <3> QED
      BY <3>3 DEF Fresh, FreshIn
  <2> QED
    BY <1>2, <2>1, <2>2, <2>3, <2>4, TwoThreads
       DEF ThreadInv, LastVictim, VictimWaits, LoneVictim, Synchronised, Invited, Waiting
<1> QED
  BY <1>4, <1>5, <1>6 DEF RAInv

LEMMA SetInterestedStep == ASSUME RAInv, NEW s \in Tid, SetInterested(s)
                           PROVE  RAInv'
<1> DEFINE o == Other(s)
           I == Interested(s)
           J == Interested(o)
           w == Advanced(NoView, I)
           a == Advanced(view[s], I)
           V == Last("victim").view
<1>1. /\ o \in Tid /\ o # s /\ Other(o) = s /\ \A t \in Tid : t = s \/ t = o
      /\ I \in Loc /\ J \in Loc /\ J # I
      /\ I \notin {"victim", "counter"} /\ J \notin {"victim", "counter"}
      /\ "victim" \in Loc /\ "counter" \in Loc
  BY TwoThreads
<1>2. /\ TypeInv /\ Bounds /\ ThreadInv(s) /\ ThreadInv(o)
      /\ \A l \in Loc : Len(mem[l]) \in Nat
      /\ view[s] \in View /\ view[o] \in View /\ Within(view[s]) /\ Within(view[o])
  BY <1>1 DEF RAInv, TypeInv, Bounds
<1>3. /\ w \in View /\ w[I] = Len(mem[I]) + 1
      /\ \A l \in Loc \ {I} : w[l] \in 1 .. Len(mem[l])
      /\ a \in View /\ a[I] = Len(mem[I]) + 1
      /\ \A l \in Loc \ {I} : a[l] = view[s][l] /\ a[l] \in 1 .. Len(mem[l])
  BY <1>1, <1>2, NoViewWithin, AdvancedView
<1>4. Append1(I, 1, w) /\ view' = [view EXCEPT ![s] = a]
  BY DEF SetInterested, StoreRelaxed
<1> HIDE DEF w, a
<1>5. /\ mem' \in [Loc -> Seq(Write)] /\ view' \in [Tid -> View]
      /\ Len(mem'[I]) = Len(mem[I]) + 1
      /\ mem'[I][Len(mem[I]) + 1] = [val |-> 1, view |-> w]
      /\ \A i \in 1 .. Len(mem[I]) : mem'[I][i] = mem[I][i]
      /\ \A l \in Loc \ {I} : mem'[l] = mem[l]
      /\ view'[s] = a /\ view'[o] = view[o]
      /\ \A t \in Tid : Exists(view'[t], mem')
      /\ \A l \in Loc : \A i \in 1 .. Len(mem'[l]) : Exists(mem'[l][i].view, mem')
  BY <1>1, <1>3, <1>4, WriteStep
<1>6. /\ pc[s] = "loop" /\ pc'[s] = "swap_victim" /\ pc'[o] = pc[o]
      /\ pc' \in [Tid -> Label] /\ UNCHANGED <<oldCnt, rounds, exit>>
  BY <1>1, <1>2 DEF SetInterested, Goto, TypeInv, Label
<1> HIDE DEF o, I, J, V
<1>7. TypeInv'
  BY <1>2, <1>5, <1>6 DEF TypeInv
<1>8. Bounds'
  <2>1. Last("victim")' = Last("victim")
    BY <1>1, <1>5 DEF Last
  <2>2. \A i \in 1 .. Len(mem'[I]) : mem'[I][i].val \in {0, 1}
    <3>1. \A i \in 1 .. Len(mem[I]) : mem[I][i].val \in {0, 1}
      BY <1>2 DEF Bounds, I
    <3>2. \A i \in 1 .. Len(mem'[I]) : i \in 1 .. Len(mem[I]) \/ i = Len(mem[I]) + 1
      BY <1>1, <1>2, <1>5
    <3> QED
      BY <1>5, <3>1, <3>2
  <2>3. \A i \in 1 .. Len(mem'[J]) : mem'[J][i].val \in {0, 1}
    BY <1>1, <1>2, <1>5 DEF Bounds, J
  <2>4. \A t \in Tid : \A i \in 1 .. Len(mem'[Interested(t)]) :
            mem'[Interested(t)][i].val \in {0, 1}
    BY <1>1, <2>2, <2>3 DEF I, J
  <2> QED
    BY <1>2, <1>5, <2>1, <2>4 DEF Bounds, Within
<1>9. /\ ~Queued(s) /\ ~Queued(s)' /\ ~Holding(s)
      /\ Waiting(o)' = Waiting(o) /\ Holding(o)' = Holding(o) /\ Queued(o)' = Queued(o)
      /\ Last("victim")' = Last("victim") /\ mem'["counter"] = mem["counter"]
      /\ V \in View /\ Within(V)
  BY <1>1, <1>2, <1>5, <1>6, LastWrite DEF Queued, Waiting, Holding, Last, V
<1>10. ThreadInv(s)'
  <2>1. Entered(s)'
    BY <1>1, <1>2, <1>3, <1>5, <1>6 DEF Entered, Last, I
  <2>2. ~Queued(o) => Fresh(Join(view[s], Last("victim").view), o)'
    <3>1. SUFFICES ASSUME ~Queued(o)
                   PROVE  FreshIn(Join(a, V), o, mem')
      BY <1>5, <1>9 DEF Fresh, V
    <3>2. Fresh(Join(view[s], V), o)
      BY <1>2, <1>9, <3>1 DEF ThreadInv, Synchronised, V, o
    <3>3. /\ Join(view[s], V) \in View /\ Join(a, V) \in View /\ Within(Join(view[s], V))
          /\ Join(a, V)[J] = Join(view[s], V)[J]
          /\ Join(a, V)["counter"] = Join(view[s], V)["counter"]
      <4>1. Join(view[s], V) \in View /\ Join(a, V) \in View /\ Within(Join(view[s], V))
        BY <1>2, <1>3, <1>9, JoinIsUpper, JoinWithin
      <4> QED
        BY <1>1, <1>3, <4>1 DEF Join
    <3>4. \A i \in 1 .. Len(mem'[J]) : i <= Len(mem[J]) /\ mem'[J][i] = mem[J][i]
      BY <1>1, <1>2, <1>5
    <3>5. Join(a, V)[J] >= Join(view[s], V)[J]
      BY <1>1, <3>3 DEF View
    <3> QED
      BY <1>1, <1>2, <1>5, <1>9, <3>2, <3>3, <3>4, <3>5, FreshStep DEF J
  <2>3. Synchronised(s)'
    BY <1>1, <1>6, <1>9, <2>2 DEF Synchronised, Waiting, o
  <2>4. Invited(s)'
    BY <1>1, <1>2, <1>3, <1>5, <1>6, <1>9 DEF Invited, ThreadInv, UpToDate, o
  <2> QED
    BY <1>9, <2>1, <2>3, <2>4 DEF ThreadInv, LastVictim, VictimWaits, LoneVictim
<1>11. ThreadInv(o)'
  <2>1. Entered(o)'
    BY <1>1, <1>2, <1>5, <1>6 DEF Entered, ThreadInv, Last, J
  <2>2. LastVictim(o)' /\ VictimWaits(o)' /\ LoneVictim(o)'
    BY <1>1, <1>2, <1>5, <1>9 DEF ThreadInv, LastVictim, VictimWaits, LoneVictim, J
  <2>3. ASSUME NEW v \in View, Within(v), Fresh(v, s)
        PROVE  FreshIn(v, s, mem')
    <3>1. \A i \in 1 .. Len(mem'[I]) :
              \/ i <= Len(mem[I]) /\ mem'[I][i] = mem[I][i]
              \/ mem'[I][i].val # 0
      <4>1. \A i \in 1 .. Len(mem'[I]) : i \in 1 .. Len(mem[I]) \/ i = Len(mem[I]) + 1
        BY <1>1, <1>2, <1>5
      <4> QED
        BY <1>1, <1>2, <1>5, <4>1
    <3>2. v[I] >= v[I]
      BY <1>1 DEF View
    <3> QED
      BY <1>2, <1>5, <1>9, <2>3, <3>1, <3>2, FreshStep DEF I
  <2>4. ~Queued(o) => Fresh(Join(view[o], Last("victim").view), s)'
    <3>1. SUFFICES ASSUME ~Queued(o)
                   PROVE  FreshIn(Join(view[o], V), s, mem')
      BY <1>5, <1>9 DEF Fresh, V
    <3>2. Fresh(Join(view[o], V), s)
      BY <1>1, <1>2, <1>9, <3>1 DEF ThreadInv, Synchronised, V
    <3> QED
      BY <1>2, <1>9, <2>3, <3>2, JoinWithin
  <2>5. Waiting(o) => Fresh(view[o], s)'
    <3>1. SUFFICES ASSUME Waiting(o)
                   PROVE  FreshIn(view[o], s, mem')
      BY <1>5 DEF Fresh
    <3> QED
      BY <1>1, <1>2, <1>9, <2>3, <3>1 DEF ThreadInv, Synchronised
  <2>6. UpToDate(o)' = UpToDate(o)
    BY <1>5, <1>9 DEF UpToDate
  <2>7. Synchronised(o)'
    BY <1>1, <1>2, <1>6, <1>9, <2>4, <2>5, <2>6 DEF Synchronised, ThreadInv
  <2>8. Invited(o)'
    BY <1>1, <1>2, <1>5, <1>6, <1>9, <2>6 DEF Invited, ThreadInv
  <2> QED
    BY <2>1, <2>2, <2>7, <2>8 DEF ThreadInv
<1> QED
  BY <1>1, <1>7, <1>8, <1>10, <1>11 DEF RAInv

LEMMA SwapVictimStep == ASSUME RAInv, NEW s \in Tid, SwapVictim(s)
                        PROVE  RAInv'
<1> DEFINE o == Other(s)
           I == Interested(s)
           J == Interested(o)
           V == Last("victim").view
           seen == Join(view[s], V)
           a == Advanced(seen, "victim")
<1>1. /\ o \in Tid /\ o # s /\ Other(o) = s /\ \A t \in Tid : t = s \/ t = o
      /\ I \in Loc /\ J \in Loc /\ J # I
      /\ I \notin {"victim", "counter"} /\ J \notin {"victim", "counter"}
      /\ "victim" \in Loc /\ "counter" \in Loc
  BY TwoThreads
<1>2. /\ TypeInv /\ Bounds /\ ThreadInv(s) /\ ThreadInv(o)
      /\ \A l \in Loc : Len(mem[l]) \in Nat
      /\ view[s] \in View /\ view[o] \in View /\ Within(view[s]) /\ Within(view[o])
  BY <1>1 DEF RAInv, TypeInv, Bounds
<1>3. V \in View /\ Within(V)
  BY <1>1, <1>2, LastWrite
<1>4. /\ seen \in View /\ Within(seen)
      /\ \A l \in Loc : view[s][l] = Len(mem[l]) \/ V[l] = Len(mem[l])
                           => seen[l] = Len(mem[l])
  BY <1>2, <1>3, JoinWithin
<1>5. Append1("victim", s, a) /\ view' = [view EXCEPT ![s] = a]
  BY DEF SwapVictim, SwapAcqRel, Last
<1> HIDE DEF seen
<1>6. /\ a \in View /\ a["victim"] = Len(mem["victim"]) + 1
      /\ \A l \in Loc \ {"victim"} : a[l] = seen[l] /\ a[l] \in 1 .. Len(mem[l])
  BY <1>1, <1>2, <1>4, AdvancedView
<1> HIDE DEF a, V
<1>7. s \in Nat
  BY DEF Tid
<1>8. /\ mem' \in [Loc -> Seq(Write)] /\ view' \in [Tid -> View]
      /\ Len(mem'["victim"]) = Len(mem["victim"]) + 1
      /\ mem'["victim"][Len(mem["victim"]) + 1] = [val |-> s, view |-> a]
      /\ \A i \in 1 .. Len(mem["victim"]) : mem'["victim"][i] = mem["victim"][i]
      /\ \A l \in Loc \ {"victim"} : mem'[l] = mem[l]
      /\ view'[s] = a /\ view'[o] = view[o]
      /\ \A t \in Tid : Exists(view'[t], mem')
      /\ \A l \in Loc : \A i \in 1 .. Len(mem'[l]) : Exists(mem'[l][i].view, mem')
  BY <1>1, <1>5, <1>6, <1>7, WriteStep
<1>9. /\ pc[s] = "swap_victim" /\ pc'[s] = "load_interested" /\ pc'[o] = pc[o]
      /\ pc' \in [Tid -> Label] /\ UNCHANGED <<oldCnt, rounds, exit>>
  BY <1>1, <1>2 DEF SwapVictim, Goto, TypeInv, Label
<1> HIDE DEF o, I, J
<1>10. TypeInv'
  BY <1>2, <1>8, <1>9 DEF TypeInv
<1>11. Last("victim")'.val = s /\ Last("victim")'.view = a /\ Last("victim").val \in Tid
  BY <1>2, <1>8 DEF Last, Bounds
<1>12. Bounds'
  <2>1. \A t \in Tid : mem'[Interested(t)] = mem[Interested(t)]
    BY <1>1, <1>8 DEF I, J
  <2>2. \A t \in Tid : \A i \in 1 .. Len(mem'[Interested(t)]) :
            mem'[Interested(t)][i].val \in {0, 1}
    BY <1>2, <2>1 DEF Bounds
  <2> QED
    BY <1>8, <1>11, <2>2 DEF Bounds, Within
<1>13. /\ ~Queued(s) /\ Queued(s)' /\ Waiting(s)' /\ ~Holding(s)' /\ ~Holding(s)
       /\ Waiting(o)' = Waiting(o) /\ Holding(o)' = Holding(o) /\ Queued(o)' = Queued(o)
       /\ mem'["counter"] = mem["counter"] /\ mem'[I] = mem[I] /\ mem'[J] = mem[J]
  BY <1>1, <1>8, <1>9 DEF Queued, Waiting, Holding
<1>14. /\ view[s][I] = Len(mem[I]) /\ Last(I).val = 1
       /\ view[o][J] = Len(mem[J]) /\ (Queued(o) => Last(J).val = 1)
  BY <1>1, <1>2, <1>9 DEF ThreadInv, Entered, Queued, Waiting, Holding, I, J
<1>15. Queued(o) => Last("victim").val = o /\ V[J] = Len(mem[J])
  BY <1>1, <1>2, <1>13 DEF ThreadInv, LoneVictim, LastVictim, J, V
<1>16. UpToDate(o)' = UpToDate(o) /\ (UpToDate(s) => UpToDate(s)')
  BY <1>1, <1>4, <1>6, <1>8, <1>13 DEF UpToDate
<1>17. ThreadInv(s)'
  <2>1. Entered(s)'
    BY <1>1, <1>4, <1>6, <1>8, <1>9, <1>13, <1>14 DEF Entered, Last, I
  <2>2. LastVictim(s)'
    BY <1>1, <1>4, <1>6, <1>8, <1>11, <1>13, <1>14 DEF LastVictim, I
  <2>3. VictimWaits(s)'
    BY <1>1, <1>4, <1>6, <1>8, <1>13, <1>15 DEF VictimWaits, o, J
  <2>4. LoneVictim(s)'
    BY <1>11 DEF LoneVictim
  <2>5. ~Holding(o) => Fresh(view[s], o)'
    <3> SUFFICES ASSUME ~Holding(o)
                 PROVE  FreshIn(a, o, mem')
      BY <1>8 DEF Fresh
    <3>1. CASE Queued(o)
      <4>1. a[J] = Len(mem[J]) /\ mem[J][Len(mem[J])].val = 1
        BY <1>1, <1>4, <1>6, <1>14, <1>15, <3>1 DEF Last
      <4> QED
        BY <1>1, <1>2, <1>13, <4>1 DEF FreshIn, J
    <3>2. CASE ~Queued(o)
      <4>1. Fresh(seen, o)
        BY <1>2, <1>13, <3>2 DEF ThreadInv, Synchronised, o, seen, V
      <4>2. a[J] = seen[J] /\ a["counter"] = seen["counter"] /\ seen[J] \in Nat
        BY <1>1, <1>4, <1>6 DEF View
      <4> QED
        BY <1>13, <4>1, <4>2 DEF Fresh, FreshIn, J
    <3> QED
      BY <3>1, <3>2
  <2>6. Synchronised(s)'
    BY <1>9, <1>13, <2>5 DEF Synchronised, o
  <2>7. Invited(s)'
    BY <1>2, <1>9, <1>16 DEF Invited, ThreadInv, o
  <2> QED
    BY <2>1, <2>2, <2>3, <2>4, <2>6, <2>7 DEF ThreadInv
<1>18. ThreadInv(o)'
  <2>1. Entered(o)'
    BY <1>1, <1>2, <1>8, <1>9, <1>13 DEF Entered, ThreadInv, Last, J
  <2>2. LastVictim(o)' /\ VictimWaits(o)' /\ LoneVictim(o)'
    BY <1>1, <1>11, <1>13 DEF LastVictim, VictimWaits, LoneVictim
  <2>3. Fresh(view[o], s)' = Fresh(view[o], s)
    BY <1>8, <1>13 DEF Fresh, FreshIn, I
  <2>4. Synchronised(o)'
    BY <1>1, <1>2, <1>9, <1>13, <1>16, <2>3 DEF Synchronised, ThreadInv
  <2>5. Invited(o)'
    BY <1>1, <1>2, <1>9, <1>13, <1>16 DEF Invited, ThreadInv
  <2> QED
    BY <2>1, <2>2, <2>4, <2>5 DEF ThreadInv
<1> QED
  BY <1>1, <1>10, <1>12, <1>17, <1>18 DEF RAInv

\* With memory as it is, a newer view is as fresh.
LEMMA FreshNewer ==
    ASSUME TypeInv, NEW o \in Tid, NEW v \in View, NEW w \in View, Within(v), Within(w),
           \A l \in Loc : w[l] >= v[l], Fresh(v, o)
    PROVE  Fresh(w, o)
<1>1. Interested(o) \in Loc /\ "counter" \in Loc
  BY TwoThreads
<1>2. /\ w["counter"] \in 1 .. Len(mem["counter"]) /\ Len(mem["counter"]) \in Nat
      /\ v["counter"] \in Nat /\ Len(mem[Interested(o)]) \in Nat
      /\ v[Interested(o)] \in 1 .. Len(mem[Interested(o)])
      /\ w["counter"] >= v["counter"] /\ w[Interested(o)] >= v[Interested(o)]
  BY <1>1 DEF Within, Exists, TypeInv, View
<1>3. v["counter"] = Len(mem["counter"]) => w["counter"] = Len(mem["counter"])
  BY <1>2
<1>4. \A i \in 1 .. Len(mem[Interested(o)]) : i <= Len(mem[Interested(o)])
  BY <1>2
<1>5. FreshIn(v, o, mem)
  BY DEF Fresh
<1>6. FreshIn(w, o, mem)
  BY <1>2, <1>3, <1>4, <1>5, FreshMore
<1> QED
  BY <1>6 DEF Fresh

\* One thread moves on to a newer view, and memory stays.
LEMMA MoveStep ==
    ASSUME RAInv, NEW s \in Tid, NEW a \in View, Within(a),
           \A l \in Loc : a[l] >= view[s][l],
           UNCHANGED mem, view' = [view EXCEPT ![s] = a]
    PROVE  /\ view' \in [Tid -> View] /\ Bounds'
           /\ view'[s] = a /\ view'[Other(s)] = view[Other(s)]
           /\ \A l \in Loc : view[s][l] = Len(mem[l]) => a[l] = Len(mem[l])
           /\ UpToDate(Other(s))' = UpToDate(Other(s))
           /\ UpToDate(s) => UpToDate(s)'
           /\ a[Interested(s)] = Len(mem[Interested(s)])
<1>1. /\ TypeInv /\ Bounds /\ Other(s) \in Tid /\ Other(s) # s
      /\ Interested(s) \in Loc /\ "counter" \in Loc /\ Interested(Other(s)) \in Loc
  BY TwoThreads DEF RAInv
<1>2. view \in [Tid -> View]
  BY <1>1 DEF TypeInv
<1>3. /\ view' \in [Tid -> View] /\ view'[s] = a
      /\ \A t \in Tid \ {s} : view'[t] = view[t]
  BY <1>2
<1>4. \A t \in Tid : Exists(view'[t], mem)
  BY <1>1, <1>3 DEF Bounds, Within
<1>5. Bounds'
  BY <1>1, <1>4 DEF Bounds, Within, Last
<1>6. \A l \in Loc : view[s][l] = Len(mem[l]) => a[l] = Len(mem[l])
  <2> TAKE l \in Loc
  <2>1. a[l] \in 1 .. Len(mem[l]) /\ Len(mem[l]) \in Nat
    BY <1>1 DEF Within, Exists, TypeInv
  <2> QED
    BY <2>1
<1>7. view[s][Interested(s)] = Len(mem[Interested(s)])
  BY DEF RAInv, ThreadInv, Entered
<1>8. UpToDate(Other(s))' = UpToDate(Other(s)) /\ (UpToDate(s) => UpToDate(s)')
  BY <1>1, <1>3, <1>6 DEF UpToDate
<1> QED
  BY <1>1, <1>3, <1>5, <1>6, <1>7, <1>8

\* What a waiting thread knows of the last write of victim.
LEMMA WhileWaiting ==
    ASSUME RAInv, NEW s \in Tid, Waiting(s)
    PROVE  /\ Holding(Other(s)) => Last("victim").val = s
           /\ Last("victim").val = s => view[s]["victim"] = Len(mem["victim"])
           /\ Last("victim").val = s /\ Queued(Other(s)) =>
                 /\ view[s][Interested(Other(s))] = Len(mem[Interested(Other(s))])
                 /\ Last(Interested(Other(s))).val = 1
           /\ Last("victim").val # s => Last("victim").val = Other(s) /\ Queued(Other(s))
<1>1. /\ Queued(s) /\ Last("victim").val \in Tid /\ ThreadInv(s) /\ Entered(Other(s))
      /\ Other(s) \in Tid /\ Other(Other(s)) = s /\ \A t \in Tid : t = s \/ t = Other(s)
  BY TwoThreads DEF Queued, RAInv, Bounds, ThreadInv
<1>2. Holding(Other(s)) => Last("victim").val = s
  BY <1>1, Exclusive
<1>3. Queued(Other(s)) => Last(Interested(Other(s))).val = 1
  BY <1>1 DEF Queued, Waiting, Holding, Entered
<1> QED
  BY <1>1, <1>2, <1>3 DEF ThreadInv, LastVictim, VictimWaits, LoneVictim

LEMMA LoadInterestedStep == ASSUME RAInv, NEW s \in Tid, LoadInterested(s)
                            PROVE  RAInv'
<1> DEFINE o == Other(s)
           I == Interested(s)
           J == Interested(o)
<1>1. /\ o \in Tid /\ o # s /\ Other(o) = s /\ \A t \in Tid : t = s \/ t = o
      /\ I \in Loc /\ J \in Loc /\ J # I
      /\ I \notin {"victim", "counter"} /\ J \notin {"victim", "counter"}
      /\ "victim" \in Loc /\ "counter" \in Loc
  BY TwoThreads
<1>2. /\ TypeInv /\ Bounds /\ ThreadInv(s) /\ ThreadInv(o)
      /\ \A l \in Loc : Len(mem[l]) \in Nat /\ mem[l] \in Seq(Write)
      /\ view[s] \in View /\ view[o] \in View /\ Within(view[s]) /\ Within(view[o])
  BY <1>1 DEF RAInv, TypeInv, Bounds
<1>3. PICK i \in Readable(s, J) :
         /\ LoadAcquire(s, J, i)
         /\ IF mem[J][i].val = 1
            THEN Goto(s, "load_interested", "load_victim") /\ UNCHANGED exit
            ELSE /\ Goto(s, "load_interested", "read_counter")
                 /\ exit' = [exit EXCEPT ![s] = "interested"]
         /\ UNCHANGED <<oldCnt, rounds>>
  BY DEF LoadInterested
<1> DEFINE m == mem[J][i]
           r == [view[s] EXCEPT ![J] = i]
           a == Join(r, m.view)
<1>4. i \in view[s][J] .. Len(mem[J]) /\ i \in 1 .. Len(mem[J]) /\ view[s][J] \in Nat
  <2>1. view[s][J] \in 1 .. Len(mem[J])
    BY <1>1, <1>2 DEF Within, Exists
  <2> QED
    BY <1>1, <1>2, <1>3, <2>1 DEF Readable
<1>5. m \in Write /\ m.view \in View /\ Within(m.view) /\ m.val \in {0, 1}
  <2>1. m \in Write
    BY <1>1, <1>2, <1>4, ElementOfSeq
  <2> QED
    BY <1>1, <1>2, <1>4, <2>1 DEF Bounds, J, Write
<1>6. /\ r \in View /\ Within(r) /\ r[J] = i
      /\ \A l \in Loc : r[l] >= view[s][l]
      /\ \A l \in Loc \ {J} : r[l] = view[s][l]
  BY <1>1, <1>2, <1>4 DEF View, Within, Exists
<1>7. view' = [view EXCEPT ![s] = a] /\ mem' = mem
  BY <1>2, <1>3 DEF LoadAcquire
<1> HIDE DEF m, r
<1>8. /\ a \in View /\ Within(a)
      /\ \A l \in Loc : r[l] = Len(mem[l]) \/ m.view[l] = Len(mem[l]) => a[l] = Len(mem[l])
  BY <1>5, <1>6, JoinWithin
<1>9. \A l \in Loc : a[l] >= r[l] /\ a[l] >= view[s][l]
  <2>1. \A l \in Loc : a[l] >= r[l]
    BY <1>5, <1>6, JoinIsUpper
  <2>2. \A l \in Loc : a[l] \in Nat /\ r[l] \in Nat /\ view[s][l] \in Nat
    BY <1>2, <1>6, <1>8 DEF View
  <2> QED
    BY <1>6, <2>1, <2>2
<1> HIDE DEF a, o, I, J
<1>10. /\ view' \in [Tid -> View] /\ Bounds'
       /\ view'[s] = a /\ view'[o] = view[o]
       /\ \A l \in Loc : view[s][l] = Len(mem[l]) => a[l] = Len(mem[l])
       /\ UpToDate(o)' = UpToDate(o) /\ (UpToDate(s) => UpToDate(s)')
       /\ a[I] = Len(mem[I])
       /\ (Fresh(view[s], o) => Fresh(a, o))
  <2>1. Fresh(view[s], o) => Fresh(a, o)
    BY <1>1, <1>2, <1>8, <1>9, FreshNewer
  <2> QED
    BY <1>7, <1>8, <1>9, <2>1, MoveStep DEF o, I
<1>11. /\ pc[s] = "load_interested" /\ pc'[o] = pc[o] /\ exit'[o] = exit[o]
       /\ pc'[s] = IF m.val = 1 THEN "load_victim" ELSE "read_counter"
       /\ (m.val # 1 => exit'[s] = "interested")
       /\ pc' \in [Tid -> Label]
       /\ exit' \in [Tid -> {"none", "interested", "victim"}]
       /\ UNCHANGED <<oldCnt, rounds>>
  BY <1>1, <1>2, <1>3 DEF Goto, TypeInv, Label, m
<1>12. TypeInv'
  BY <1>2, <1>7, <1>10, <1>11 DEF TypeInv
<1>13. /\ Waiting(s) /\ Queued(s) /\ Queued(s)' /\ ~Holding(s) /\ Waiting(o)' = Waiting(o)
       /\ Holding(o)' = Holding(o) /\ Queued(o)' = Queued(o)
       /\ Last("victim")' = Last("victim") /\ Last(I)' = Last(I) /\ Last(J)' = Last(J)
  BY <1>7, <1>11 DEF Queued, Waiting, Holding, Last
<1>14. /\ Holding(o) => Last("victim").val = s
       /\ Last("victim").val = s => view[s]["victim"] = Len(mem["victim"])
       /\ Last("victim").val = s /\ Queued(o) => view[s][J] = Len(mem[J]) /\ Last(J).val = 1
  BY <1>13, WhileWaiting DEF o, J
<1>15. Last("victim").val = s /\ Queued(o) => m.val = 1
  BY <1>2, <1>1, <1>4, <1>14 DEF Last, m
<1>16. ThreadInv(s)'
  <2>1. Entered(s)'
    BY <1>1, <1>2, <1>7, <1>10, <1>11, <1>13 DEF Entered, ThreadInv, I
  <2>2. LastVictim(s)'
    BY <1>1, <1>2, <1>7, <1>10, <1>13 DEF LastVictim, ThreadInv, I
  <2>3. VictimWaits(s)'
    BY <1>1, <1>7, <1>10, <1>11, <1>13, <1>14, <1>15 DEF VictimWaits, Waiting, o, J
  <2>4. LoneVictim(s)'
    BY <1>2, <1>13 DEF LoneVictim, ThreadInv, o
  <2>5. ~Holding(o) => Fresh(view[s], o)' /\ Fresh(view[s], o)
    BY <1>2, <1>7, <1>10, <1>13 DEF ThreadInv, Synchronised, Fresh, o
  <2>6. m.val = 0 => UpToDate(s)'
    <3> SUFFICES ASSUME m.val = 0 PROVE a["counter"] = Len(mem["counter"])
      BY <1>7, <1>10 DEF UpToDate
    <3>1. ~Holding(o)
      BY <1>14, <1>15 DEF Queued
    <3>2. view[s]["counter"] = Len(mem["counter"]) \/ m.view["counter"] = Len(mem["counter"])
      BY <1>4, <2>5, <3>1 DEF Fresh, FreshIn, m, J
    <3> QED
      BY <1>1, <1>8, <1>10, <3>2
  <2>7. Synchronised(s)'
    BY <1>5, <1>11, <1>13, <2>5, <2>6 DEF Synchronised, o
  <2>8. Invited(s)'
    BY <1>2, <1>10, <1>11 DEF Invited, ThreadInv, o
  <2> QED
    BY <2>1, <2>2, <2>3, <2>4, <2>7, <2>8 DEF ThreadInv
<1>17. ThreadInv(o)'
  <2>1. Entered(o)'
    BY <1>1, <1>2, <1>7, <1>10, <1>11, <1>13 DEF Entered, ThreadInv, J
  <2>2. LastVictim(o)' /\ VictimWaits(o)' /\ LoneVictim(o)'
    BY <1>1, <1>2, <1>7, <1>10, <1>13
       DEF LastVictim, VictimWaits, LoneVictim, ThreadInv
  <2>3. Fresh(view[o], s)' = Fresh(view[o], s)
    BY <1>7, <1>10 DEF Fresh
  <2>4. Synchronised(o)' /\ Invited(o)'
    BY <1>1, <1>2, <1>10, <1>11, <1>13, <2>3 DEF Synchronised, Invited, ThreadInv
  <2> QED
    BY <2>1, <2>2, <2>4 DEF ThreadInv
<1> QED
  BY <1>1, <1>10, <1>12, <1>16, <1>17 DEF RAInv

LEMMA LoadVictimStep == ASSUME RAInv, NEW s \in Tid, LoadVictim(s)
                        PROVE  RAInv'
<1> DEFINE o == Other(s)
           I == Interested(s)
           J == Interested(o)
<1>1. /\ o \in Tid /\ o # s /\ Other(o) = s /\ \A t \in Tid : t = s \/ t = o
      /\ I \in Loc /\ J \in Loc /\ J # I
      /\ I \notin {"victim", "counter"} /\ J \notin {"victim", "counter"}
      /\ "victim" \in Loc /\ "counter" \in Loc
  BY TwoThreads
<1>2. /\ TypeInv /\ Bounds /\ ThreadInv(s) /\ ThreadInv(o)
      /\ \A l \in Loc : Len(mem[l]) \in Nat
      /\ view[s] \in View /\ Within(view[s])
  BY <1>1 DEF RAInv, TypeInv, Bounds
<1>3. PICK i \in Readable(s, "victim") :
         /\ LoadRelaxed(s, "victim", i)
         /\ IF mem["victim"][i].val = s
            THEN Goto(s, "load_victim", "load_interested") /\ UNCHANGED exit
            ELSE /\ Goto(s, "load_victim", "read_counter")
                 /\ exit' = [exit EXCEPT ![s] = "victim"]
         /\ UNCHANGED <<oldCnt, rounds>>
  BY DEF LoadVictim
<1> DEFINE m == mem["victim"][i]
           a == [view[s] EXCEPT !["victim"] = i]
<1>4. /\ i \in view[s]["victim"] .. Len(mem["victim"]) /\ i \in 1 .. Len(mem["victim"])
      /\ view[s]["victim"] \in Nat
  <2>1. view[s]["victim"] \in 1 .. Len(mem["victim"])
    BY <1>1, <1>2 DEF Within, Exists
  <2> QED
    BY <1>1, <1>2, <1>3, <2>1 DEF Readable
<1>5. /\ a \in View /\ Within(a)
      /\ \A l \in Loc : a[l] >= view[s][l]
      /\ \A l \in Loc \ {"victim"} : a[l] = view[s][l]
  BY <1>1, <1>2, <1>4 DEF View, Within, Exists
<1>6. view' = [view EXCEPT ![s] = a] /\ mem' = mem
  BY <1>2, <1>3 DEF LoadRelaxed, TypeInv
<1> HIDE DEF m, a, o, I, J
<1>7. /\ view' \in [Tid -> View] /\ Bounds'
      /\ view'[s] = a /\ view'[o] = view[o]
      /\ \A l \in Loc : view[s][l] = Len(mem[l]) => a[l] = Len(mem[l])
      /\ UpToDate(o)' = UpToDate(o) /\ (UpToDate(s) => UpToDate(s)')
      /\ a[I] = Len(mem[I])
  BY <1>5, <1>6, MoveStep DEF o, I, J
<1>8. /\ pc[s] = "load_victim" /\ pc'[o] = pc[o] /\ exit'[o] = exit[o]
      /\ pc'[s] = IF m.val = s THEN "load_interested" ELSE "read_counter"
      /\ (m.val # s => exit'[s] = "victim")
      /\ pc' \in [Tid -> Label]
      /\ exit' \in [Tid -> {"none", "interested", "victim"}]
      /\ UNCHANGED <<oldCnt, rounds>>
  BY <1>1, <1>2, <1>3 DEF Goto, TypeInv, Label, m
<1>9. TypeInv'
  BY <1>2, <1>6, <1>7, <1>8 DEF TypeInv
<1>10. /\ Waiting(s) /\ Queued(s) /\ Queued(s)' /\ ~Holding(s) /\ Waiting(o)' = Waiting(o)
       /\ Holding(o)' = Holding(o) /\ Queued(o)' = Queued(o)
       /\ Last("victim")' = Last("victim") /\ Last(I)' = Last(I) /\ Last(J)' = Last(J)
  BY <1>6, <1>8 DEF Queued, Waiting, Holding, Last
<1>11. /\ Last("victim").val = s => view[s]["victim"] = Len(mem["victim"])
       /\ Last("victim").val = s /\ Queued(o) => view[s][J] = Len(mem[J])
       /\ Last("victim").val # s => Last("victim").val = o /\ Queued(o)
  BY <1>10, WhileWaiting DEF o, J
<1>12. Last("victim").val = s => m.val = s
  BY <1>1, <1>2, <1>4, <1>11 DEF Last, m
<1>13. ThreadInv(s)'
  <2>1. Entered(s)'
    BY <1>1, <1>2, <1>6, <1>7, <1>8, <1>10 DEF Entered, ThreadInv, I
  <2>2. LastVictim(s)'
    BY <1>1, <1>2, <1>6, <1>7, <1>10 DEF LastVictim, ThreadInv, I
  <2>3. VictimWaits(s)'
    BY <1>1, <1>6, <1>7, <1>8, <1>10, <1>11, <1>12 DEF VictimWaits, Waiting, o, J
  <2>4. LoneVictim(s)'
    BY <1>2, <1>10 DEF LoneVictim, ThreadInv, o
  <2>5. ~Holding(o) => Fresh(view[s], o)'
    <3>1. ~Holding(o) => Fresh(view[s], o)
      BY <1>2, <1>10 DEF ThreadInv, Synchronised, o
    <3>2. a[J] = view[s][J] /\ a["counter"] = view[s]["counter"]
      BY <1>1, <1>5
    <3> QED
      BY <1>6, <1>7, <3>1, <3>2 DEF Fresh, FreshIn, J
  <2>6. Synchronised(s)'
    BY <1>8, <1>10, <2>5 DEF Synchronised, o
  <2>7. Invited(s)'
    BY <1>2, <1>7, <1>8, <1>10, <1>11, <1>12 DEF Invited, ThreadInv, o
  <2> QED
    BY <2>1, <2>2, <2>3, <2>4, <2>6, <2>7 DEF ThreadInv
<1>14. ThreadInv(o)'
  <2>1. Entered(o)'
    BY <1>1, <1>2, <1>6, <1>7, <1>8, <1>10 DEF Entered, ThreadInv, J
  <2>2. LastVictim(o)' /\ VictimWaits(o)' /\ LoneVictim(o)'
    BY <1>1, <1>2, <1>6, <1>7, <1>10 DEF LastVictim, VictimWaits, LoneVictim, ThreadInv
  <2>3. Fresh(view[o], s)' = Fresh(view[o], s)
    BY <1>6, <1>7 DEF Fresh
  <2>4. Synchronised(o)' /\ Invited(o)'
    BY <1>1, <1>2, <1>7, <1>8, <1>10, <2>3 DEF Synchronised, Invited, ThreadInv
  <2> QED
    BY <2>1, <2>2, <2>4 DEF ThreadInv
<1> QED
  BY <1>1, <1>7, <1>9, <1>13, <1>14 DEF RAInv

LEMMA ReadCounterStep == ASSUME RAInv, NEW s \in Tid, ReadCounter(s)
                         PROVE  RAInv'
<1> DEFINE o == Other(s)
           I == Interested(s)
           J == Interested(o)
<1>1. /\ o \in Tid /\ o # s /\ Other(o) = s /\ \A t \in Tid : t = s \/ t = o
      /\ I \in Loc /\ J \in Loc
      /\ I \notin {"victim", "counter"} /\ J \notin {"victim", "counter"}
      /\ "victim" \in Loc /\ "counter" \in Loc
  BY TwoThreads
<1>2. /\ TypeInv /\ Bounds /\ ThreadInv(s) /\ ThreadInv(o)
      /\ \A l \in Loc : Len(mem[l]) \in Nat /\ mem[l] \in Seq(Write)
      /\ view[s] \in View /\ Within(view[s])
  BY <1>1 DEF RAInv, TypeInv, Bounds
<1>3. PICK i \in Readable(s, "counter") :
         /\ Goto(s, "read_counter", "write_counter")
         /\ LoadRelaxed(s, "counter", i)
         /\ oldCnt' = [oldCnt EXCEPT ![s] = mem["counter"][i].val]
         /\ UNCHANGED <<rounds, exit>>
  BY DEF ReadCounter
<1> DEFINE a == [view[s] EXCEPT !["counter"] = i]
<1>4. /\ i \in view[s]["counter"] .. Len(mem["counter"]) /\ i \in 1 .. Len(mem["counter"])
      /\ view[s]["counter"] \in Nat
  <2>1. view[s]["counter"] \in 1 .. Len(mem["counter"])
    BY <1>1, <1>2 DEF Within, Exists
  <2> QED
    BY <1>1, <1>2, <1>3, <2>1 DEF Readable
<1>5. a \in View /\ Within(a) /\ \A l \in Loc : a[l] >= view[s][l]
  BY <1>1, <1>2, <1>4 DEF View, Within, Exists
<1>6. view' = [view EXCEPT ![s] = a] /\ mem' = mem
  BY <1>2, <1>3 DEF LoadRelaxed, TypeInv
<1> HIDE DEF a, o, I, J
<1>7. /\ view' \in [Tid -> View] /\ Bounds'
      /\ view'[s] = a /\ view'[o] = view[o]
      /\ \A l \in Loc : view[s][l] = Len(mem[l]) => a[l] = Len(mem[l])
      /\ UpToDate(o)' = UpToDate(o) /\ (UpToDate(s) => UpToDate(s)')
      /\ a[I] = Len(mem[I])
  BY <1>5, <1>6, MoveStep DEF o, I, J
<1>8. /\ pc[s] = "read_counter" /\ pc'[s] = "write_counter" /\ pc'[o] = pc[o]
      /\ pc' \in [Tid -> Label] /\ UNCHANGED <<rounds, exit>>
  BY <1>1, <1>2, <1>3 DEF Goto, TypeInv, Label
<1>9. TypeInv'
  <2>1. mem["counter"][i] \in Write
    BY <1>1, <1>2, <1>4, ElementOfSeq
  <2>2. mem["counter"][i].val \in Nat
    BY <2>1 DEF Write
  <2>3. oldCnt' \in [Tid -> Nat]
    BY <1>2, <1>3, <2>2 DEF TypeInv
  <2> QED
    BY <1>2, <1>6, <1>7, <1>8, <2>3 DEF TypeInv
<1>10. /\ ~Waiting(s) /\ ~Waiting(s)' /\ Queued(s) /\ Queued(s)' /\ Holding(s) /\ Holding(s)'
       /\ Waiting(o)' = Waiting(o) /\ Holding(o)' = Holding(o) /\ Queued(o)' = Queued(o)
       /\ Last("victim")' = Last("victim") /\ Last(I)' = Last(I) /\ Last(J)' = Last(J)
  BY <1>6, <1>8 DEF Queued, Waiting, Holding, Last
<1>11. ThreadInv(s)'
  <2>1. Entered(s)'
    BY <1>1, <1>2, <1>6, <1>7, <1>8, <1>10 DEF Entered, ThreadInv, I
  <2>2. LastVictim(s)' /\ VictimWaits(s)' /\ LoneVictim(s)'
    BY <1>1, <1>2, <1>6, <1>7, <1>10
       DEF LastVictim, VictimWaits, LoneVictim, ThreadInv, I, o
  <2>3. Synchronised(s)' /\ Invited(s)'
    BY <1>2, <1>7, <1>8, <1>10 DEF Synchronised, Invited, ThreadInv, o
  <2> QED
    BY <2>1, <2>2, <2>3 DEF ThreadInv
<1>12. ThreadInv(o)'
  <2>1. Entered(o)'
    BY <1>1, <1>2, <1>6, <1>7, <1>8, <1>10 DEF Entered, ThreadInv, J
  <2>2. LastVictim(o)' /\ VictimWaits(o)' /\ LoneVictim(o)'
    BY <1>1, <1>2, <1>6, <1>7, <1>10 DEF LastVictim, VictimWaits, LoneVictim, ThreadInv
  <2>3. Synchronised(o)' /\ Invited(o)'
    BY <1>1, <1>2, <1>7, <1>8, <1>10 DEF Synchronised, Invited, ThreadInv
  <2> QED
    BY <2>1, <2>2, <2>3 DEF ThreadInv
<1> QED
  BY <1>1, <1>7, <1>9, <1>11, <1>12 DEF RAInv

LEMMA FinishStep == ASSUME RAInv, NEW s \in Tid, Finish(s)
                    PROVE  RAInv'
<1> DEFINE o == Other(s)
           I == Interested(s)
           J == Interested(o)
           V == Last("victim").view
           a == IF s = 1 THEN Join(view[1], view[0]) ELSE view[s]
<1>1. /\ o \in Tid /\ o # s /\ Other(o) = s /\ \A t \in Tid : t = s \/ t = o
      /\ I \in Loc /\ J \in Loc
      /\ "victim" \in Loc /\ "counter" \in Loc
  BY TwoThreads
<1>2. /\ TypeInv /\ Bounds /\ ThreadInv(s) /\ ThreadInv(o)
      /\ \A l \in Loc : Len(mem[l]) \in Nat
      /\ view[s] \in View /\ view[o] \in View /\ Within(view[s]) /\ Within(view[o])
      /\ V \in View /\ Within(V)
  BY <1>1, LastWrite DEF RAInv, TypeInv, Bounds
<1>3. a \in View /\ Within(a) /\ \A l \in Loc : a[l] >= view[s][l]
  <2>1. CASE s = 1
    <3>1. o = 0
      BY <1>1, <2>1 DEF Tid
    <3> QED
      BY <1>2, <2>1, <3>1, JoinWithin, JoinIsUpper
  <2>2. CASE s # 1
    BY <1>2, <2>2 DEF View
  <2> QED
    BY <2>1, <2>2
<1>4. view' = [view EXCEPT ![s] = a] /\ mem' = mem
  BY <1>2 DEF Finish, TypeInv
<1> HIDE DEF a, o, I, J, V
<1>5. /\ view' \in [Tid -> View] /\ Bounds'
      /\ view'[s] = a /\ view'[o] = view[o]
      /\ UpToDate(o)' = UpToDate(o) /\ (UpToDate(s) => UpToDate(s)')
      /\ a[I] = Len(mem[I])
  BY <1>3, <1>4, MoveStep DEF o, I
<1>6. /\ pc[s] = "loop" /\ pc'[s] = "finished" /\ pc'[o] = pc[o]
      /\ pc' \in [Tid -> Label] /\ UNCHANGED <<oldCnt, rounds, exit>>
  BY <1>1, <1>2 DEF Finish, Goto, TypeInv, Label
<1>7. TypeInv'
  BY <1>2, <1>4, <1>5, <1>6 DEF TypeInv
<1>8. /\ ~Queued(s) /\ ~Queued(s)' /\ ~Waiting(s)' /\ ~Holding(s) /\ ~Holding(s)'
      /\ Waiting(o)' = Waiting(o) /\ Holding(o)' = Holding(o) /\ Queued(o)' = Queued(o)
      /\ Last("victim")' = Last("victim") /\ Last(I)' = Last(I) /\ Last(J)' = Last(J)
  BY <1>4, <1>6 DEF Queued, Waiting, Holding, Last
<1>9. ThreadInv(s)'
  <2>1. Entered(s)'
    BY <1>1, <1>2, <1>4, <1>5, <1>6, <1>8 DEF Entered, ThreadInv, I
  <2>2. LastVictim(s)' /\ VictimWaits(s)' /\ LoneVictim(s)'
    BY <1>8 DEF LastVictim, VictimWaits, LoneVictim
  <2>3. ~Queued(o) => Fresh(Join(view[s], Last("victim").view), o)'
    <3>1. SUFFICES ASSUME ~Queued(o)
                   PROVE  Fresh(Join(a, V), o)
      BY <1>4, <1>5, <1>8 DEF Fresh, V
    <3>2. Fresh(Join(view[s], V), o)
      BY <1>2, <1>8, <3>1 DEF ThreadInv, Synchronised, V, o
    <3>3. /\ Join(view[s], V) \in View /\ Within(Join(view[s], V))
          /\ Join(a, V) \in View /\ Within(Join(a, V))
      BY <1>2, <1>3, JoinWithin
    <3>4. \A l \in Loc : Join(a, V)[l] >= Join(view[s], V)[l]
      <4> TAKE l \in Loc
      <4>1. Join(view[s], V)[l] \in {view[s][l], V[l]}
        BY <1>2, JoinIsUpper
      <4>2. Join(a, V)[l] >= a[l] /\ Join(a, V)[l] >= V[l]
        BY <1>2, <1>3, JoinIsUpper
      <4>3. a[l] >= view[s][l] /\ a[l] \in Nat /\ view[s][l] \in Nat /\ Join(a, V)[l] \in Nat
        BY <1>2, <1>3, <3>3 DEF View
      <4> QED
        BY <4>1, <4>2, <4>3
    <3> QED
      BY <1>1, <1>2, <3>2, <3>3, <3>4, FreshNewer
  <2>4. Synchronised(s)' /\ Invited(s)'
    BY <1>2, <1>5, <1>6, <1>8, <2>3 DEF Synchronised, Invited, ThreadInv, o
  <2> QED
    BY <2>1, <2>2, <2>4 DEF ThreadInv
<1>10. ThreadInv(o)'
  <2>1. Entered(o)'
    BY <1>1, <1>2, <1>4, <1>5, <1>6, <1>8 DEF Entered, ThreadInv, J
  <2>2. LastVictim(o)' /\ VictimWaits(o)' /\ LoneVictim(o)'
    BY <1>1, <1>2, <1>4, <1>5, <1>8 DEF LastVictim, VictimWaits, LoneVictim, ThreadInv
  <2>3. /\ Fresh(view[o], s)' = Fresh(view[o], s)
        /\ Fresh(Join(view[o], Last("victim").view), s)' = Fresh(Join(view[o], Last("victim").view), s)
    BY <1>4, <1>5, <1>8 DEF Fresh
  <2>4. Synchronised(o)' /\ Invited(o)'
    BY <1>1, <1>2, <1>5, <1>6, <1>8, <2>3 DEF Synchronised, Invited, ThreadInv
  <2> QED
    BY <2>1, <2>2, <2>4 DEF ThreadInv
<1> QED
  BY <1>1, <1>5, <1>7, <1>9, <1>10 DEF RAInv

LEMMA WriteCounterStep == ASSUME RAInv, NEW s \in Tid, WriteCounter(s)
                          PROVE  RAInv'
<1> DEFINE o == Other(s)
           I == Interested(s)
           J == Interested(o)
           val == oldCnt[s] + 1
           w == Advanced(NoView, "counter")
           a == Advanced(view[s], "counter")
<1>1. /\ o \in Tid /\ o # s /\ Other(o) = s /\ \A t \in Tid : t = s \/ t = o
      /\ I \in Loc /\ J \in Loc
      /\ I \notin {"victim", "counter"} /\ J \notin {"victim", "counter"}
      /\ "victim" \in Loc /\ "counter" \in Loc
  BY TwoThreads
<1>2. /\ TypeInv /\ Bounds /\ ThreadInv(s) /\ ThreadInv(o)
      /\ \A l \in Loc : Len(mem[l]) \in Nat
      /\ view[s] \in View /\ Within(view[s])
  BY <1>1 DEF RAInv, TypeInv, Bounds
<1>3. /\ w \in View /\ w["counter"] = Len(mem["counter"]) + 1
      /\ \A l \in Loc \ {"counter"} : w[l] \in 1 .. Len(mem[l])
      /\ a \in View /\ a["counter"] = Len(mem["counter"]) + 1
      /\ \A l \in Loc \ {"counter"} : a[l] = view[s][l] /\ a[l] \in 1 .. Len(mem[l])
  BY <1>1, <1>2, NoViewWithin, AdvancedView
<1>4. Append1("counter", val, w) /\ view' = [view EXCEPT ![s] = a] /\ val \in Nat
  BY <1>2 DEF WriteCounter, StoreRelaxed, TypeInv
<1> HIDE DEF w, a, val
<1>5. /\ mem' \in [Loc -> Seq(Write)] /\ view' \in [Tid -> View]
      /\ Len(mem'["counter"]) = Len(mem["counter"]) + 1
      /\ \A l \in Loc \ {"counter"} : mem'[l] = mem[l]
      /\ view'[s] = a /\ view'[o] = view[o]
      /\ \A t \in Tid : Exists(view'[t], mem')
      /\ \A l \in Loc : \A i \in 1 .. Len(mem'[l]) : Exists(mem'[l][i].view, mem')
  <2>1. \A l \in Loc \ {"counter"} : w[l] \in 1 .. Len(mem[l]) /\ a[l] \in 1 .. Len(mem[l])
    BY <1>3
  <2>2. "counter" \in Loc /\ val \in Nat /\ w \in View /\ a \in View
        /\ w["counter"] = Len(mem["counter"]) + 1 /\ a["counter"] = Len(mem["counter"]) + 1
    BY <1>1, <1>3, <1>4
  <2> QED
    BY <1>4, <2>1, <2>2, WriteStep
<1>6. /\ pc[s] = "write_counter" /\ pc'[s] = "unlock" /\ pc'[o] = pc[o]
      /\ pc' \in [Tid -> Label] /\ UNCHANGED <<oldCnt, rounds, exit>>
  BY <1>1, <1>2 DEF WriteCounter, Goto, TypeInv, Label
<1> HIDE DEF o, I, J
<1>7. TypeInv'
  BY <1>2, <1>5, <1>6 DEF TypeInv
<1>8. Bounds'
  <2>1. Last("victim")' = Last("victim")
    BY <1>1, <1>5 DEF Last
  <2>2. \A t \in Tid : mem'[Interested(t)] = mem[Interested(t)]
    BY <1>1, <1>5 DEF I, J
  <2> QED
    BY <1>2, <1>5, <2>1, <2>2 DEF Bounds, Within
<1>9. /\ ~Waiting(s) /\ ~Waiting(s)' /\ Queued(s) /\ Queued(s)' /\ Holding(s) /\ Holding(s)'
      /\ Waiting(o)' = Waiting(o) /\ Holding(o)' = Holding(o) /\ Queued(o)' = Queued(o)
      /\ mem'["victim"] = mem["victim"] /\ mem'[I] = mem[I] /\ mem'[J] = mem[J]
      /\ Last("victim")' = Last("victim") /\ Last(I)' = Last(I) /\ Last(J)' = Last(J)
  BY <1>1, <1>5, <1>6 DEF Queued, Waiting, Holding, Last
<1>10. ~Holding(o)
  BY <1>9, Exclusive DEF o
<1>11. UpToDate(s)'
  BY <1>3, <1>5 DEF UpToDate
<1>12. ThreadInv(s)'
  <2>1. Entered(s)'
    BY <1>1, <1>2, <1>3, <1>5, <1>6, <1>9 DEF Entered, ThreadInv, I
  <2>2. LastVictim(s)' /\ VictimWaits(s)' /\ LoneVictim(s)'
    BY <1>1, <1>2, <1>3, <1>5, <1>9
       DEF LastVictim, VictimWaits, LoneVictim, ThreadInv, I, o
  <2>3. Synchronised(s)' /\ Invited(s)'
    BY <1>6, <1>9, <1>11 DEF Synchronised, Invited, o
  <2> QED
    BY <2>1, <2>2, <2>3 DEF ThreadInv
<1>13. ThreadInv(o)'
  <2>1. Entered(o)'
    BY <1>1, <1>2, <1>5, <1>6, <1>9 DEF Entered, ThreadInv, J
  <2>2. LastVictim(o)' /\ VictimWaits(o)' /\ LoneVictim(o)'
    BY <1>1, <1>2, <1>5, <1>9
       DEF LastVictim, VictimWaits, LoneVictim, ThreadInv, I, J
  <2>3. pc[o] \notin {"read_counter", "unlock"}
    BY <1>10 DEF Holding
  <2>4. Synchronised(o)' /\ Invited(o)'
    BY <1>1, <1>6, <1>9, <2>3 DEF Synchronised, Invited
  <2> QED
    BY <2>1, <2>2, <2>4 DEF ThreadInv
<1> QED
  BY <1>1, <1>7, <1>8, <1>12, <1>13 DEF RAInv

LEMMA UnlockStep == ASSUME RAInv, NEW s \in Tid, Unlock(s)
                    PROVE  RAInv'
<1> DEFINE o == Other(s)
           I == Interested(s)
           J == Interested(o)
           V == Last("victim").view
           a == Advanced(view[s], I)
<1>1. /\ o \in Tid /\ o # s /\ Other(o) = s /\ \A t \in Tid : t = s \/ t = o
      /\ I \in Loc /\ J \in Loc /\ J # I
      /\ I \notin {"victim", "counter"} /\ J \notin {"victim", "counter"}
      /\ "victim" \in Loc /\ "counter" \in Loc
  BY TwoThreads
<1>2. /\ TypeInv /\ Bounds /\ ThreadInv(s) /\ ThreadInv(o)
      /\ \A l \in Loc : Len(mem[l]) \in Nat
      /\ view[s] \in View /\ view[o] \in View /\ Within(view[s]) /\ Within(view[o])
      /\ V \in View /\ Within(V)
  BY <1>1, LastWrite DEF RAInv, TypeInv, Bounds
<1>3. /\ a \in View /\ a[I] = Len(mem[I]) + 1
      /\ \A l \in Loc \ {I} : a[l] = view[s][l] /\ a[l] \in 1 .. Len(mem[l])
  BY <1>1, <1>2, AdvancedView
<1>4. Append1(I, 0, a) /\ view' = [view EXCEPT ![s] = a]
  BY <1>2 DEF Unlock, StoreRelease, TypeInv
<1> HIDE DEF a, V
<1>5. /\ mem' \in [Loc -> Seq(Write)] /\ view' \in [Tid -> View]
      /\ Len(mem'[I]) = Len(mem[I]) + 1
      /\ mem'[I][Len(mem[I]) + 1] = [val |-> 0, view |-> a]
      /\ \A i \in 1 .. Len(mem[I]) : mem'[I][i] = mem[I][i]
      /\ \A l \in Loc \ {I} : mem'[l] = mem[l]
      /\ view'[s] = a /\ view'[o] = view[o]
      /\ \A t \in Tid : Exists(view'[t], mem')
      /\ \A l \in Loc : \A i \in 1 .. Len(mem'[l]) : Exists(mem'[l][i].view, mem')
  BY <1>1, <1>3, <1>4, WriteStep
<1>6. /\ pc[s] = "unlock" /\ pc'[s] = "loop" /\ pc'[o] = pc[o]
      /\ pc' \in [Tid -> Label] /\ UNCHANGED <<oldCnt, exit>>
      /\ rounds' \in [Tid -> Nat] /\ rounds'[s] # 0 /\ rounds'[o] = rounds[o]
  BY <1>1, <1>2 DEF Unlock, Goto, TypeInv, Label
<1> HIDE DEF o, I, J
<1>7. TypeInv'
  BY <1>2, <1>5, <1>6 DEF TypeInv
<1>8. Bounds'
  <2>1. Last("victim")' = Last("victim")
    BY <1>1, <1>5 DEF Last
  <2>2. \A i \in 1 .. Len(mem'[I]) : mem'[I][i].val \in {0, 1}
    <3>1. \A i \in 1 .. Len(mem[I]) : mem[I][i].val \in {0, 1}
      BY <1>2 DEF Bounds, I
    <3>2. \A i \in 1 .. Len(mem'[I]) : i \in 1 .. Len(mem[I]) \/ i = Len(mem[I]) + 1
      BY <1>1, <1>2, <1>5
    <3>3. mem'[I][Len(mem[I]) + 1].val = 0
      BY <1>5
    <3>4. \A i \in 1 .. Len(mem[I]) : mem'[I][i].val \in {0, 1}
      BY <1>5, <3>1
    <3> QED
      BY <3>2, <3>3, <3>4
  <2>3. \A i \in 1 .. Len(mem'[J]) : mem'[J][i].val \in {0, 1}
    BY <1>1, <1>2, <1>5 DEF Bounds, J
  <2>4. \A t \in Tid : \A i \in 1 .. Len(mem'[Interested(t)]) :
            mem'[Interested(t)][i].val \in {0, 1}
    BY <1>1, <2>2, <2>3 DEF I, J
  <2> QED
    BY <1>2, <1>5, <2>1, <2>4 DEF Bounds, Within
<1>9. /\ Holding(s) /\ Queued(s) /\ ~Waiting(s) /\ ~Waiting(s)' /\ ~Holding(s)' /\ ~Queued(s)'
      /\ Waiting(o)' = Waiting(o) /\ Holding(o)' = Holding(o) /\ Queued(o)' = Queued(o)
      /\ Last("victim")' = Last("victim") /\ mem'["counter"] = mem["counter"]
      /\ mem'["victim"] = mem["victim"] /\ mem'[J] = mem[J] /\ Last(J)' = Last(J)
  BY <1>1, <1>5, <1>6 DEF Queued, Waiting, Holding, Last
<1>10. ~Holding(o) /\ (Queued(o) => Last("victim").val = o)
  BY <1>9, Exclusive DEF o
<1>11. UpToDate(s) /\ a["counter"] = Len(mem["counter"])
  BY <1>1, <1>2, <1>3, <1>6 DEF ThreadInv, Synchronised, UpToDate
<1>12. UpToDate(s)' /\ UpToDate(o)' = UpToDate(o)
  BY <1>1, <1>5, <1>9, <1>11 DEF UpToDate
<1>13. Last(I).val = 1
  BY <1>2, <1>6 DEF ThreadInv, Entered, I
<1>14. ThreadInv(s)'
  <2>1. Entered(s)'
    BY <1>1, <1>3, <1>5, <1>6 DEF Entered, Last, I
  <2>2. LastVictim(s)' /\ VictimWaits(s)' /\ LoneVictim(s)'
    BY <1>9 DEF LastVictim, VictimWaits, LoneVictim
  <2>3. Fresh(Join(view[s], Last("victim").view), o)'
    <3>1. Join(a, V) \in View /\ Join(a, V)["counter"] \in {a["counter"], V["counter"]}
          /\ Join(a, V)["counter"] >= a["counter"]
      BY <1>1, <1>2, <1>3, JoinIsUpper
    <3>2. V["counter"] \in 1 .. Len(mem["counter"])
      BY <1>1, <1>2 DEF Within, Exists
    <3>3. Join(a, V)["counter"] = Len(mem'["counter"])
      BY <1>1, <1>2, <1>9, <1>11, <3>1, <3>2
    <3> QED
      BY <1>5, <1>9, <3>3 DEF Fresh, FreshIn, V
  <2>4. Synchronised(s)' /\ Invited(s)'
    BY <1>6, <1>9, <1>12, <2>3 DEF Synchronised, Invited, o
  <2> QED
    BY <2>1, <2>2, <2>4 DEF ThreadInv
<1>15. ThreadInv(o)'
  <2>1. Entered(o)'
    BY <1>1, <1>2, <1>5, <1>6, <1>9 DEF Entered, ThreadInv, J
  <2>2. LastVictim(o)' /\ VictimWaits(o)' /\ LoneVictim(o)'
    BY <1>1, <1>2, <1>5, <1>9, <1>10
       DEF LastVictim, VictimWaits, LoneVictim, ThreadInv, J
  <2>3. ASSUME NEW v \in View, Within(v), v[I] = Len(mem[I])
        PROVE  FreshIn(v, s, mem')
    <3> SUFFICES ASSUME NEW i \in v[I] .. Len(mem'[I]), mem'[I][i].val = 0
                 PROVE  mem'[I][i].view["counter"] = Len(mem'["counter"])
      BY DEF FreshIn, I
    <3>1. i = Len(mem[I]) \/ i = Len(mem[I]) + 1
      BY <1>1, <1>2, <1>5, <2>3
    <3>2. Len(mem[I]) \in 1 .. Len(mem[I])
      BY <1>1, <1>2, LastWrite
    <3>3. i # Len(mem[I])
      BY <1>5, <1>13, <3>2 DEF Last
    <3> QED
      BY <1>5, <1>9, <1>11, <3>1, <3>3
  <2>4. ~Queued(o) => Fresh(Join(view[o], Last("victim").view), s)'
    <3>1. SUFFICES ASSUME ~Queued(o)
                   PROVE  FreshIn(Join(view[o], V), s, mem')
      BY <1>5, <1>9 DEF Fresh, V
    <3>2. V[I] = Len(mem[I])
      BY <1>2, <1>9, <3>1 DEF ThreadInv, LoneVictim, LastVictim, I, V, o
    <3>3. /\ Join(view[o], V) \in View /\ Within(Join(view[o], V))
          /\ Join(view[o], V)[I] = Len(mem[I])
      BY <1>1, <1>2, <3>2, JoinWithin
    <3> QED
      BY <2>3, <3>3
  <2>5. Waiting(o) => Fresh(view[o], s)'
    <3>1. SUFFICES ASSUME Waiting(o)
                   PROVE  FreshIn(view[o], s, mem')
      BY <1>5 DEF Fresh
    <3>2. view[o][I] = Len(mem[I])
      BY <1>1, <1>2, <1>9, <1>10, <3>1 DEF ThreadInv, VictimWaits, Queued, I
    <3> QED
      BY <1>2, <2>3, <3>2
  <2>6. pc[o] \notin {"read_counter", "unlock"}
    BY <1>10 DEF Holding
  <2>7. Synchronised(o)' /\ Invited(o)'
    BY <1>1, <1>6, <1>9, <2>4, <2>5, <2>6 DEF Synchronised, Invited
  <2> QED
    BY <2>1, <2>2, <2>7 DEF ThreadInv
<1> QED
  BY <1>1, <1>7, <1>8, <1>14, <1>15 DEF RAInv

(***************************************************************************)
(* The theorems                                                            *)
(***************************************************************************)

LEMMA RACorrect == Spec => []RAInv
<1>1. Init => RAInv
  BY InitInv
<1>2. ASSUME RAInv, [Next]_vars
      PROVE  RAInv'
  <2>1. ASSUME NEW t \in Tid,
               \/ SetInterested(t) \/ SwapVictim(t)
               \/ LoadInterested(t) \/ LoadVictim(t)
               \/ ReadCounter(t) \/ WriteCounter(t) \/ Unlock(t)
               \/ Finish(t)
        PROVE  RAInv'
    BY <1>2, <2>1, SetInterestedStep, SwapVictimStep, LoadInterestedStep, LoadVictimStep,
       ReadCounterStep, WriteCounterStep, UnlockStep, FinishStep
  <2>2. CASE UNCHANGED vars
    <3> USE <1>2, <2>2 DEF vars
    <3>1. TypeInv' /\ Bounds'
      BY DEF RAInv, TypeInv, Bounds, Within, Last
    <3>2. \A t \in Tid : ThreadInv(t)'
      BY DEF RAInv, ThreadInv, Entered, LastVictim, VictimWaits, LoneVictim, Synchronised,
             Invited, Queued, Waiting, Holding, UpToDate, Fresh, Last
    <3> QED
      BY <3>1, <3>2 DEF RAInv
  <2> QED
    BY <1>2, <2>1, <2>2 DEF Next
<1> QED
  BY <1>1, <1>2, PTL DEF Spec

\* The lock keeps one thread out of the loop body of main() while the other is
\* in it, for any number of rounds, though interested is stored and victim
\* loaded with Relaxed ordering.
THEOREM MutualExclusionRA == Spec => []MutualExclusion
<1>1. RAInv => MutualExclusion
  <2>1. 0 \in Tid /\ Other(0) = 1
    BY DEF Tid, Other
  <2> QED
    BY <2>1, Exclusive DEF MutualExclusion
<1> QED
  BY <1>1, RACorrect, PTL

\* A thread that leaves the while loop of lock() because it reads interested as
\* false sees every increment made under the lock before.
THEOREM ReadingFalseSynchronises == Spec => []InterestedSynchronises
<1>1. RAInv => InterestedSynchronises
  BY DEF RAInv, ThreadInv, Synchronised, InterestedSynchronises
<1> QED
  BY <1>1, RACorrect, PTL

\* A thread that enters the loop body of main() with a stale view of the counter
\* was let in by the other one, which has returned to lock() after a round.
THEOREM StaleIsInvited == Spec => []StaleOnlyAfterReturn
<1>1. ASSUME RAInv, NEW t \in Tid, pc[t] = "read_counter", ~UpToDate(t)
      PROVE  rounds[Other(t)] > 0 /\ Waiting(Other(t))
  <2>1. /\ TypeInv /\ Other(t) \in Tid /\ ThreadInv(t) /\ Holding(t)
    BY <1>1, TwoThreads DEF RAInv, Holding
  <2>2. exit[t] = "victim" /\ Queued(Other(t))
    BY <1>1, <2>1 DEF ThreadInv, Synchronised, Invited
  <2>3. ~Holding(Other(t)) /\ Waiting(Other(t))
    BY <1>1, <2>1, <2>2, Exclusive DEF Queued
  <2>4. rounds[Other(t)] # 0 /\ rounds[Other(t)] \in Nat
    BY <1>1, <2>1, <2>3 DEF ThreadInv, Invited, Holding, TypeInv
  <2> QED
    BY <2>3, <2>4
<1>2. RAInv => StaleOnlyAfterReturn
  BY <1>1 DEF StaleOnlyAfterReturn
<1> QED
  BY <1>2, RACorrect, PTL

\* A queue that holds at most one thread, which is not b, can take b.
LEMMA Enqueue == ASSUME NEW a \in Tid, NEW b \in Tid, a # b
                 PROVE  /\ Append(<<>>, b) = <<b>>
                        /\ Append(<<a>>, b) = <<a, b>>
                        /\ \A i \in DOMAIN <<a>> : <<a>>[i] # b
                        /\ \A i \in DOMAIN <<>> : <<>>[i] # b
<1>1. Append(<<>>, b) = <<b>>
  OBVIOUS
<1>2. Append(<<a>>, b) = <<a, b>>
  <2>1. <<a>> \in Seq(Tid) /\ <<a, b>> \in Seq(Tid)
    OBVIOUS
  <2>2. Append(<<a>>, b) \in Seq(Tid) /\ Len(Append(<<a>>, b)) = 2
    BY <2>1
  <2>3. \A i \in 1..2 : Append(<<a>>, b)[i] = <<a, b>>[i]
    BY <2>1
  <2> QED
    BY <2>1, <2>2, <2>3, SeqEqual
<1>3. \A i \in DOMAIN <<a>> : <<a>>[i] # b
  OBVIOUS
<1>4. \A i \in DOMAIN <<>> : <<>>[i] # b
  OBVIOUS
<1> QED
  BY <1>1, <1>2, <1>3, <1>4

\* The queue from the point of view of thread s.
LEMMA QueueOf ==
    ASSUME NEW s \in Tid, Last("victim").val \in Tid
    PROVE  /\ Queued(s) /\ Queued(Other(s)) =>
                 queueBar = IF Last("victim").val = s THEN <<Other(s), s>> ELSE <<s, Other(s)>>
           /\ Queued(s) /\ ~Queued(Other(s)) => queueBar = <<s>>
           /\ ~Queued(s) /\ Queued(Other(s)) => queueBar = <<Other(s)>>
           /\ ~Queued(s) /\ ~Queued(Other(s)) => queueBar = <<>>
           /\ heldBar <=> Holding(s) \/ Holding(Other(s))
<1>1. CASE s = 0
  BY <1>1 DEF queueBar, heldBar, Other, Tid
<1>2. CASE s = 1
  BY <1>2 DEF queueBar, heldBar, Other, Tid
<1> QED
  BY <1>1, <1>2 DEF Tid

\* A step that keeps who is queued, who holds and the last victim.
LEMMA QueueKept ==
    ASSUME NEW s \in Tid, Last("victim").val \in Tid, Last("victim")'.val = Last("victim").val,
           Queued(s)' = Queued(s), Queued(Other(s))' = Queued(Other(s)),
           Holding(s)' = Holding(s), Holding(Other(s))' = Holding(Other(s))
    PROVE  UNCHANGED Fifo!vars
<1>1. CASE s = 0
  BY <1>1 DEF queueBar, heldBar, Other, Tid, Fifo!vars
<1>2. CASE s = 1
  BY <1>2 DEF queueBar, heldBar, Other, Tid, Fifo!vars
<1> QED
  BY <1>1, <1>2 DEF Tid

\* A holder is the head of the queue.
LEMMA HolderFirst ==
    ASSUME RAInv, NEW s \in Tid, Holding(s)
    PROVE  queueBar = IF Queued(Other(s)) THEN <<s, Other(s)>> ELSE <<s>>
<1>1. Queued(s) /\ Last("victim").val \in Tid /\ Other(s) # s
  BY TwoThreads DEF Queued, RAInv, Bounds
<1>2. Queued(Other(s)) => Last("victim").val = Other(s)
  BY Exclusive
<1> QED
  BY <1>1, <1>2, QueueOf

\* The step of s that ends its while loop, in a state in which it is not the
\* victim of a thread before it.
LEMMA AcquireStep ==
    ASSUME RAInv, NEW s \in Tid, Waiting(s), Holding(s)', UNCHANGED mem,
           Holding(Other(s))' = Holding(Other(s)), Queued(Other(s))' = Queued(Other(s)),
           ~(Last("victim").val = s /\ Queued(Other(s)))
    PROVE  Fifo!Acquire(s)
<1>1. /\ Queued(s) /\ Queued(s)' /\ ~Holding(s) /\ Last("victim").val \in Tid
      /\ Last("victim")' = Last("victim") /\ Other(s) \in Tid
  BY TwoThreads DEF Queued, Waiting, Holding, RAInv, Bounds, Last
<1>2. ~Holding(Other(s))
  BY <1>1, WhileWaiting DEF Queued
<1>3. ~heldBar /\ heldBar'
  <2>1. ~heldBar
    BY <1>1, <1>2, QueueOf
  <2>2. heldBar'
    BY DEF heldBar, Tid
  <2> QED
    BY <2>1, <2>2
<1>4. queueBar = IF Queued(Other(s)) THEN <<s, Other(s)>> ELSE <<s>>
  BY <1>1, QueueOf
<1>5. queueBar' = queueBar
  <2>1. CASE s = 0
    BY <1>1, <2>1 DEF queueBar, Other
  <2>2. CASE s = 1
    BY <1>1, <2>2 DEF queueBar, Other
  <2> QED
    BY <2>1, <2>2 DEF Tid
<1>6. queueBar # <<>> /\ Head(queueBar) = s
  BY <1>4
<1> QED
  BY <1>3, <1>5, <1>6 DEF Fifo!Acquire

\* A wait of thread s that goes on, or a step inside the loop body of main().
LEMMA StayStep ==
    ASSUME RAInv, NEW s \in Tid, UNCHANGED <<pc, mem>> \/
             /\ pc'[Other(s)] = pc[Other(s)] /\ Last("victim")' = Last("victim")
             /\ Queued(s)' = Queued(s) /\ Holding(s)' = Holding(s)
    PROVE  UNCHANGED Fifo!vars
<1>1. Last("victim").val \in Tid
  BY DEF RAInv, Bounds
<1>2. /\ Queued(s)' = Queued(s) /\ Holding(s)' = Holding(s) /\ Last("victim")' = Last("victim")
      /\ Queued(Other(s))' = Queued(Other(s)) /\ Holding(Other(s))' = Holding(Other(s))
  BY DEF Queued, Waiting, Holding, Last
<1> QED
  BY <1>1, <1>2, QueueKept

\* Under the memory orderings the code asks for, every step of the lock is a step
\* of the first-come first-served lock or leaves its queue and its holder alone.
THEOREM RefinesFifoLockRA == Spec => NeverOvertaken
<1>1. Init => Fifo!Init
  BY DEF Init, Fifo!Init, queueBar, heldBar, Queued, Waiting, Holding, Tid
<1>2. ASSUME RAInv, [Next]_vars
      PROVE  [Fifo!Next]_(Fifo!vars)
  <2>1. ASSUME NEW s \in Tid, SetInterested(s)
        PROVE  UNCHANGED Fifo!vars
    <3>1. /\ pc[s] = "loop" /\ pc'[s] = "swap_victim" /\ pc'[Other(s)] = pc[Other(s)]
      BY <1>2, <2>1, TwoThreads DEF SetInterested, Goto, RAInv, TypeInv
    <3>2. Last("victim")' = Last("victim")
      BY <1>2, <2>1, TwoThreads DEF SetInterested, StoreRelaxed, Append1, Last, RAInv, TypeInv
    <3> QED
      BY <1>2, <2>1, <3>1, <3>2, StayStep DEF Queued, Waiting, Holding
  <2>2. ASSUME NEW s \in Tid, SwapVictim(s)
        PROVE  Fifo!Request(s)
    <3> DEFINE o == Other(s)
    <3>1. /\ pc[s] = "swap_victim" /\ pc'[s] = "load_interested" /\ pc'[o] = pc[o]
      BY <1>2, <2>2, TwoThreads DEF SwapVictim, Goto, RAInv, TypeInv
    <3>2. Last("victim")'.val = s
      <4> DEFINE seen == Join(view[s], mem["victim"][Len(mem["victim"])].view)
                 w == Advanced(seen, "victim")
                 hist == mem["victim"]
      <4>1. TypeInv /\ Bounds /\ "victim" \in Loc /\ s \in Nat
        BY <1>2, <2>2 DEF RAInv, Loc, Tid
      <4>2. mem' = [mem EXCEPT !["victim"] = Append(@, [val |-> s, view |-> w])]
        BY <2>2 DEF SwapVictim, SwapAcqRel, Append1
      <4> HIDE DEF w
      <4>3. mem'["victim"] = Append(hist, [val |-> s, view |-> w]) /\ hist \in Seq(Write)
        BY <4>1, <4>2 DEF TypeInv
      <4>4. mem'["victim"][Len(mem'["victim"])] = [val |-> s, view |-> w]
        BY <4>3
      <4> QED
        BY <4>4 DEF Last
    <3>3. /\ ~Queued(s) /\ Queued(s)' /\ ~Holding(s) /\ ~Holding(s)'
          /\ Queued(o)' = Queued(o) /\ Holding(o)' = Holding(o)
      BY <3>1 DEF Queued, Waiting, Holding
    <3>4. o \in Tid /\ o # s /\ Last("victim").val \in Tid
      BY <1>2, <2>2, TwoThreads DEF RAInv, Bounds
    <3>5. queueBar = IF Queued(o) THEN <<o>> ELSE <<>>
      BY <2>2, <3>3, <3>4, QueueOf
    <3>6. /\ queueBar' = (IF Queued(o) THEN <<o, s>> ELSE <<s>>) /\ heldBar' = heldBar
      <4>1. CASE s = 0
        BY <3>2, <3>3, <3>4, <4>1 DEF queueBar, heldBar, Other
      <4>2. CASE s = 1
        BY <3>2, <3>3, <3>4, <4>2 DEF queueBar, heldBar, Other
      <4> QED
        BY <2>2, <4>1, <4>2 DEF Tid
    <3> HIDE DEF o
    <3> QED
      BY <2>2, <3>4, <3>5, <3>6, Enqueue DEF Fifo!Request
  <2>3. ASSUME NEW s \in Tid, LoadInterested(s)
        PROVE  Fifo!Acquire(s) \/ UNCHANGED Fifo!vars
    <3> DEFINE J == Interested(Other(s))
    <3>1. PICK i \in Readable(s, J) :
             /\ LoadAcquire(s, J, i)
             /\ IF mem[J][i].val = 1
                THEN Goto(s, "load_interested", "load_victim") /\ UNCHANGED exit
                ELSE /\ Goto(s, "load_interested", "read_counter")
                     /\ exit' = [exit EXCEPT ![s] = "interested"]
      BY <2>3 DEF LoadInterested
    <3>2. /\ UNCHANGED mem /\ pc[s] = "load_interested" /\ pc'[Other(s)] = pc[Other(s)]
          /\ pc'[s] = IF mem[J][i].val = 1 THEN "load_victim" ELSE "read_counter"
      BY <1>2, <2>3, <3>1, TwoThreads DEF LoadAcquire, Goto, RAInv, TypeInv
    <3>3. CASE mem[J][i].val = 1
      BY <1>2, <2>3, <3>2, <3>3, StayStep DEF Queued, Waiting, Holding, Last
    <3>4. CASE mem[J][i].val # 1
      <4>1. ~(Last("victim").val = s /\ Queued(Other(s)))
        <5> SUFFICES ASSUME Last("victim").val = s, Queued(Other(s)) PROVE FALSE
          OBVIOUS
        <5>1. view[s][J] = Len(mem[J]) /\ Last(J).val = 1
          BY <1>2, <2>3, <3>2, WhileWaiting DEF Waiting
        <5>2. J \in Loc /\ Len(mem[J]) \in Nat
          BY <1>2, <2>3, TwoThreads DEF RAInv, TypeInv
        <5>3. i = Len(mem[J])
          BY <5>1, <5>2 DEF Readable
        <5> QED
          BY <3>4, <5>1, <5>3 DEF Last
      <4> QED
        BY <1>2, <2>3, <3>2, <3>4, <4>1, AcquireStep DEF Queued, Waiting, Holding
    <3> QED
      BY <3>3, <3>4
  <2>4. ASSUME NEW s \in Tid, LoadVictim(s)
        PROVE  Fifo!Acquire(s) \/ UNCHANGED Fifo!vars
    <3>1. PICK i \in Readable(s, "victim") :
             /\ LoadRelaxed(s, "victim", i)
             /\ IF mem["victim"][i].val = s
                THEN Goto(s, "load_victim", "load_interested") /\ UNCHANGED exit
                ELSE /\ Goto(s, "load_victim", "read_counter")
                     /\ exit' = [exit EXCEPT ![s] = "victim"]
      BY <2>4 DEF LoadVictim
    <3>2. /\ UNCHANGED mem /\ pc[s] = "load_victim" /\ pc'[Other(s)] = pc[Other(s)]
          /\ pc'[s] = IF mem["victim"][i].val = s THEN "load_interested" ELSE "read_counter"
      BY <1>2, <2>4, <3>1, TwoThreads DEF LoadRelaxed, Goto, RAInv, TypeInv
    <3>3. CASE mem["victim"][i].val = s
      BY <1>2, <2>4, <3>2, <3>3, StayStep DEF Queued, Waiting, Holding, Last
    <3>4. CASE mem["victim"][i].val # s
      <4>1. Last("victim").val # s
        <5> SUFFICES ASSUME Last("victim").val = s PROVE FALSE
          OBVIOUS
        <5>1. view[s]["victim"] = Len(mem["victim"])
          BY <1>2, <2>4, <3>2, WhileWaiting DEF Waiting
        <5>2. Len(mem["victim"]) \in Nat
          BY <1>2 DEF RAInv, TypeInv, Loc
        <5>3. i = Len(mem["victim"])
          BY <5>1, <5>2 DEF Readable
        <5> QED
          BY <3>4, <5>3 DEF Last
      <4> QED
        BY <1>2, <2>4, <3>2, <3>4, <4>1, AcquireStep DEF Queued, Waiting, Holding
    <3> QED
      BY <3>3, <3>4
  <2>5. ASSUME NEW s \in Tid, ReadCounter(s)
        PROVE  UNCHANGED Fifo!vars
    <3>1. /\ pc[s] = "read_counter" /\ pc'[s] = "write_counter" /\ pc'[Other(s)] = pc[Other(s)]
          /\ UNCHANGED mem
      BY <1>2, <2>5, TwoThreads DEF ReadCounter, LoadRelaxed, Goto, RAInv, TypeInv
    <3> QED
      BY <1>2, <2>5, <3>1, StayStep DEF Queued, Waiting, Holding, Last
  <2>6. ASSUME NEW s \in Tid, WriteCounter(s)
        PROVE  UNCHANGED Fifo!vars
    <3>1. /\ pc[s] = "write_counter" /\ pc'[s] = "unlock" /\ pc'[Other(s)] = pc[Other(s)]
      BY <1>2, <2>6, TwoThreads DEF WriteCounter, Goto, RAInv, TypeInv
    <3>2. Last("victim")' = Last("victim")
      BY <1>2, <2>6 DEF WriteCounter, StoreRelaxed, Append1, Last, RAInv, TypeInv
    <3> QED
      BY <1>2, <2>6, <3>1, <3>2, StayStep DEF Queued, Waiting, Holding
  <2>7. ASSUME NEW s \in Tid, Unlock(s)
        PROVE  Fifo!Release(s)
    <3> DEFINE o == Other(s)
    <3>1. /\ pc[s] = "unlock" /\ pc'[s] = "loop" /\ pc'[o] = pc[o]
      BY <1>2, <2>7, TwoThreads DEF Unlock, Goto, RAInv, TypeInv
    <3>2. Last("victim")' = Last("victim")
      BY <1>2, <2>7, TwoThreads DEF Unlock, StoreRelease, Append1, Last, RAInv, TypeInv
    <3>3. /\ Holding(s) /\ ~Queued(s)' /\ ~Holding(s)'
          /\ Queued(o)' = Queued(o) /\ Holding(o)' = Holding(o)
      BY <3>1 DEF Queued, Waiting, Holding
    <3>4. o \in Tid /\ o # s /\ Last("victim").val \in Tid /\ ~Holding(o)
      BY <1>2, <2>7, <3>3, TwoThreads, Exclusive DEF RAInv, Bounds
    <3>5. queueBar = IF Queued(o) THEN <<s, o>> ELSE <<s>>
      BY <1>2, <2>7, <3>3, HolderFirst
    <3>6. heldBar
      BY <2>7, <3>3 DEF heldBar, Tid
    <3>7. queueBar' = (IF Queued(o) THEN <<o>> ELSE <<>>) /\ ~heldBar'
      <4>1. CASE s = 0
        BY <3>2, <3>3, <3>4, <4>1 DEF queueBar, heldBar, Other
      <4>2. CASE s = 1
        BY <3>2, <3>3, <3>4, <4>2 DEF queueBar, heldBar, Other
      <4> QED
        BY <2>7, <4>1, <4>2 DEF Tid
    <3> HIDE DEF o
    <3>8. queueBar # <<>> /\ Head(queueBar) = s /\ queueBar' = Tail(queueBar)
      BY <3>5, <3>7
    <3>9. heldBar' = FALSE
      BY <3>7 DEF heldBar
    <3> QED
      BY <3>6, <3>8, <3>9 DEF Fifo!Release
  <2>8. ASSUME NEW s \in Tid, Finish(s)
        PROVE  UNCHANGED Fifo!vars
    <3>1. /\ pc[s] = "loop" /\ pc'[s] = "finished" /\ pc'[Other(s)] = pc[Other(s)]
          /\ UNCHANGED mem
      BY <1>2, <2>8, TwoThreads DEF Finish, Goto, RAInv, TypeInv
    <3> QED
      BY <1>2, <2>8, <3>1, StayStep DEF Queued, Waiting, Holding, Last
  <2>9. CASE UNCHANGED vars
    <3>1. 0 \in Tid
      BY DEF Tid
    <3> QED
      BY <1>2, <2>9, <3>1, StayStep DEF vars
  <2> QED
    BY <1>2, <2>1, <2>2, <2>3, <2>4, <2>5, <2>6, <2>7, <2>8, <2>9 DEF Next, Fifo!Next
<1> QED
  BY <1>1, <1>2, RACorrect, PTL DEF Spec, NeverOvertaken, Fifo!SafeSpec

=============================================================================
