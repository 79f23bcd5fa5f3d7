------------------------- MODULE LockfreeStackProofs -------------------------
(***************************************************************************)
(* The lock-free stack for any number of threads, nodes, values and        *)
(* operations: types, no use after free, no ABA, one owner per node,       *)
(* nothing leaked at exit, linearizability.                                *)
(***************************************************************************)
EXTENDS LockfreeStack, FiniteSetTheorems, SequenceTheorems, TLAPS

PC == {"idle", "push_load", "push_cas", "push_return", "pop_pause", "pop_load",
       "pop_next", "pop_cas", "pop_resume_none", "pop_resume_some",
       "pop_resume_retry", "pop_take", "add_check", "add_delete", "pop_return",
       "exit_wait", "exit_delete", "exited"}

\* Who holds a new node, a popped one, a Pause, a pointer it follows, and who deletes.
Pushing(t) == pc[t] \in {"push_load", "push_cas"}
Popped(t) == pc[t] \in {"pop_resume_some", "pop_take"}
Paused(t) == pc[t] \in {"pop_load", "pop_next", "pop_cas", "pop_resume_none",
                        "pop_resume_some", "pop_resume_retry"}
Reading(t) == pc[t] \in {"pop_next", "pop_cas"}
Deleting(t) == pc[t] \in {"add_delete", "exit_delete"}

PausedThreads == {t \in Thread : Paused(t)}

\* The types, with what is not null where; PAUSE_COUNT counts the threads that
\* hold a Pause; only a thread that is registered has garbage, and none when it
\* is gone.
TypeInv ==
    /\ TypeOK
    /\ pc \in [Thread -> PC]
    /\ pauseCount = Cardinality(PausedThreads)
    /\ \A t \in Thread :
        /\ Pushing(t) => node[t] \in Node
        /\ Reading(t) \/ Popped(t) => seen[t] \in Node
        /\ garbage[t] # <<>> => t \in registered /\ pc[t] # "exited"

-----------------------------------------------------------------------------

\* Init has the types.
LEMMA InitTypes == Init => TypeInv
<1> SUFFICES ASSUME Init PROVE TypeInv
  OBVIOUS
<1> USE DEF Init
<1>1. PausedThreads = {}
  BY DEF PausedThreads, Paused
<1>2. pauseCount = Cardinality(PausedThreads)
  BY <1>1, FS_EmptySet
<1>3. Cardinality(Thread) \in Nat
  BY FiniteAssumption, FS_CardinalityType
<1>4. garbage \in [Thread -> Seq(Node)]
  BY EmptySeq
<1>5. TypeOK
  BY <1>3, <1>4, MaxOpsAssumption DEF TypeOK, Pointer
<1>6. pc \in [Thread -> PC]
  BY DEF PC
<1> QED
  BY <1>2, <1>5, <1>6 DEF TypeInv, Pushing, Reading, Popped

\* One more thread holds a Pause.
LEMMA PauseMore == ASSUME TypeInv, NEW t \in Thread, ~Paused(t),
                          PausedThreads' = PausedThreads \cup {t}
                   PROVE  Cardinality(PausedThreads') = pauseCount + 1
<1>1. IsFiniteSet(PausedThreads)
  BY FiniteAssumption, FS_Subset DEF PausedThreads
<1>2. t \notin PausedThreads
  BY DEF PausedThreads
<1> QED
  BY <1>1, <1>2, FS_AddElement DEF TypeInv

\* One thread fewer does.
LEMMA PauseFewer == ASSUME TypeInv, NEW t \in Thread, Paused(t),
                           PausedThreads' = PausedThreads \ {t}
                    PROVE  Cardinality(PausedThreads') = pauseCount - 1
<1>1. IsFiniteSet(PausedThreads)
  BY FiniteAssumption, FS_Subset DEF PausedThreads
<1>2. t \in PausedThreads
  BY DEF PausedThreads
<1> QED
  BY <1>1, <1>2, FS_RemoveElement DEF TypeInv

\* However many threads do, it is a number within the type of pauseCount.
LEMMA PauseBound == ASSUME PausedThreads' \in SUBSET Thread
                    PROVE  Cardinality(PausedThreads') \in 0..Cardinality(Thread)
<1>1. IsFiniteSet(Thread) /\ IsFiniteSet(PausedThreads')
  BY FiniteAssumption, FS_Subset
<1>2. Cardinality(PausedThreads') \in Nat /\ Cardinality(Thread) \in Nat
  BY <1>1, FS_CardinalityType
<1>3. Cardinality(PausedThreads') <= Cardinality(Thread)
  BY FiniteAssumption, FS_Subset
<1> QED
  BY <1>2, <1>3

\* Every step keeps the types.
LEMMA TypeStep == TypeInv /\ [Next]_vars => TypeInv'
<1> SUFFICES ASSUME TypeInv, [Next]_vars PROVE TypeInv'
  OBVIOUS
<1> USE MaxOpsAssumption
    DEF TypeInv, TypeOK, Pointer, PC, Pushing, Reading, Popped, Goto
<1>1. ASSUME NEW t \in Thread, NEW n \in Node, NEW v \in Value, CallPush(t, n, v)
     PROVE TypeInv'
  <2>1. PausedThreads' = PausedThreads
    BY <1>1 DEF CallPush, PausedThreads, Paused
  <2> QED
    BY <1>1, <2>1 DEF CallPush, local, shared, reclaim
<1>2. ASSUME NEW t \in Thread, PushLoad(t) PROVE TypeInv'
  <2>1. PausedThreads' = PausedThreads
    BY <1>2 DEF PushLoad, PausedThreads, Paused
  <2> QED
    BY <1>2, <2>1 DEF PushLoad, local, shared, reclaim
<1>3. ASSUME NEW t \in Thread, PushCAS(t) PROVE TypeInv'
  <2>1. PausedThreads' = PausedThreads
    BY <1>3 DEF PushCAS, PausedThreads, Paused
  <2> QED
    BY <1>3, <2>1 DEF PushCAS, local, shared, reclaim
<1>4. ASSUME NEW t \in Thread, PushReturn(t) PROVE TypeInv'
  <2>1. PausedThreads' = PausedThreads
    BY <1>4 DEF PushReturn, PausedThreads, Paused
  <2> QED
    BY <1>4, <2>1 DEF PushReturn, local, shared, reclaim
<1>5. ASSUME NEW t \in Thread, CallPop(t) PROVE TypeInv'
  <2>1. PausedThreads' = PausedThreads
    BY <1>5 DEF CallPop, PausedThreads, Paused
  <2> QED
    BY <1>5, <2>1 DEF CallPop, local, shared, reclaim
<1>6. ASSUME NEW t \in Thread, Pause(t) PROVE TypeInv'
  <2>1. PausedThreads' = PausedThreads \cup {t}
    BY <1>6 DEF Pause, PausedThreads, Paused
  <2>2. ~Paused(t) /\ PausedThreads' \in SUBSET Thread
    BY <1>6 DEF Pause, PausedThreads, Paused
  <2>3. pauseCount' = Cardinality(PausedThreads')
    BY <1>6, <2>1, <2>2, PauseMore DEF Pause
  <2>4. pauseCount' \in 0..Cardinality(Thread)
    BY <2>2, <2>3, PauseBound
  <2> QED
    BY <1>6, <2>3, <2>4 DEF Pause, local, shared
<1>7. ASSUME NEW t \in Thread, PopLoad(t) PROVE TypeInv'
  <2>1. PausedThreads' = PausedThreads
    BY <1>7 DEF PopLoad, PausedThreads, Paused
  <2> QED
    BY <1>7, <2>1 DEF PopLoad, local, shared, reclaim
<1>8. ASSUME NEW t \in Thread, PopNext(t) PROVE TypeInv'
  <2>1. PausedThreads' = PausedThreads
    BY <1>8 DEF PopNext, PausedThreads, Paused
  <2> QED
    BY <1>8, <2>1 DEF PopNext, local, shared, reclaim
<1>9. ASSUME NEW t \in Thread, PopCAS(t) PROVE TypeInv'
  <2>1. PausedThreads' = PausedThreads
    BY <1>9 DEF PopCAS, PausedThreads, Paused
  <2> QED
    BY <1>9, <2>1 DEF PopCAS, local, shared, reclaim
<1>10. ASSUME NEW t \in Thread, Resume(t) PROVE TypeInv'
  <2>1. PausedThreads' = PausedThreads \ {t}
    BY <1>10 DEF Resume, PausedThreads, Paused
  <2>2. Paused(t) /\ PausedThreads' \in SUBSET Thread
    BY <1>10 DEF Resume, PausedThreads, Paused
  <2>3. pauseCount' = Cardinality(PausedThreads')
    BY <1>10, <2>1, <2>2, PauseFewer DEF Resume
  <2>4. pauseCount' \in 0..Cardinality(Thread)
    BY <2>2, <2>3, PauseBound
  <2> QED
    BY <1>10, <2>3, <2>4 DEF Resume, local, shared
<1>11. ASSUME NEW t \in Thread, Take(t) PROVE TypeInv'
  <2>1. PausedThreads' = PausedThreads
    BY <1>11 DEF Take, PausedThreads, Paused
  <2>2. garbage' \in [Thread -> Seq(Node)] /\ garbage'[t] # <<>>
    <3>1. /\ garbage[t] \in Seq(Node) /\ seen[t] \in Node
          /\ garbage' = [garbage EXCEPT ![t] = Append(@, seen[t])]
      BY <1>11 DEF Take
    <3>2. Append(garbage[t], seen[t]) \in Seq(Node) /\ Append(garbage[t], seen[t]) # <<>>
      BY <3>1, AppendProperties
    <3> QED
      BY <3>1, <3>2
  <2> QED
    BY <1>11, <2>1, <2>2 DEF Take
<1>12. ASSUME NEW t \in Thread, AddCheck(t) PROVE TypeInv'
  <2>1. PausedThreads' = PausedThreads
    BY <1>12 DEF AddCheck, PausedThreads, Paused
  <2> QED
    BY <1>12, <2>1 DEF AddCheck, local, shared, reclaim
<1>13. ASSUME NEW t \in Thread, PopReturn(t) PROVE TypeInv'
  <2>1. PausedThreads' = PausedThreads
    BY <1>13 DEF PopReturn, PausedThreads, Paused
  <2> QED
    BY <1>13, <2>1 DEF PopReturn, local, shared, reclaim
<1>14. ASSUME NEW t \in Thread, DeleteOne(t) PROVE TypeInv'
  <2>1. PausedThreads' = PausedThreads
    BY <1>14 DEF DeleteOne, PausedThreads, Paused, local
  <2>2. garbage' \in [Thread -> Seq(Node)] /\ Head(garbage[t]) \in Node
    BY <1>14, HeadTailProperties DEF DeleteOne
  <2> QED
    BY <1>14, <2>1, <2>2 DEF DeleteOne, local
<1>15. ASSUME NEW t \in Thread, DeleteDone(t) PROVE TypeInv'
  <2>1. PausedThreads' = PausedThreads
    BY <1>15 DEF DeleteDone, PausedThreads, Paused
  <2> QED
    BY <1>15, <2>1 DEF DeleteDone, local, shared, reclaim
<1>16. ASSUME NEW t \in Thread, Exit(t) PROVE TypeInv'
  <2>1. PausedThreads' = PausedThreads
    BY <1>16 DEF Exit, PausedThreads, Paused
  <2> QED
    BY <1>16, <2>1 DEF Exit, local, shared, reclaim
<1>17. ASSUME NEW t \in Thread, ExitWait(t) PROVE TypeInv'
  <2>1. PausedThreads' = PausedThreads
    BY <1>17 DEF ExitWait, PausedThreads, Paused
  <2> QED
    BY <1>17, <2>1 DEF ExitWait, local, shared, reclaim
<1>18. CASE UNCHANGED vars
  <2>1. PausedThreads' = PausedThreads
    BY <1>18 DEF PausedThreads, Paused, vars
  <2> QED
    BY <1>18, <2>1 DEF vars, local, shared, reclaim
<1> QED
  BY <1>1, <1>2, <1>3, <1>4, <1>5, <1>6, <1>7, <1>8, <1>9, <1>10, <1>11, <1>12, <1>13, <1>14, <1>15, <1>16, <1>17, <1>18 DEF Next, Step

\* PAUSE_COUNT is never negative nor larger than the number of threads, and
\* every field, local and queue keeps its type.
THEOREM TypeCorrect == Spec => []TypeOK
<1>1. TypeInv => TypeOK
  BY DEF TypeInv
<1> QED
  BY <1>1, InitTypes, TypeStep, PTL DEF Spec

-----------------------------------------------------------------------------

InGarbage(t, m) == \E i \in 1..Len(garbage[t]) : garbage[t][i] = m
Discards(t, m) == (Popped(t) /\ seen[t] = m) \/ InGarbage(t, m)
Owns(t, m) == (Pushing(t) /\ node[t] = m) \/ Discards(t, m)
OnStack(b, d, m) == \E i \in 1..d : b[i] = m

\* The nodes on the stack are b[1] to b[d], from the bottom to the top, linked
\* downwards; b[0] is the null below them.
Shape(b, d) ==
    /\ b[0] = Null
    /\ \A i \in 1..d : b[i] \in Node /\ next[b[i]] = b[i - 1]
    /\ \A i, j \in 1..d : b[i] = b[j] => i = j
    /\ top = b[d]

\* An allocated node is on the stack or in the hands of exactly one thread, once.
Ownership(b, d) ==
    /\ \A t \in Thread, m \in Node : Owns(t, m) => ~OnStack(b, d, m)
    /\ \A t, u \in Thread, m \in Node : Owns(t, m) /\ Owns(u, m) => t = u
    /\ \A m \in Node : m \in allocated <=> OnStack(b, d, m) \/ \E t \in Thread : Owns(t, m)
    /\ \A t \in Thread :
        /\ \A i, j \in 1..Len(garbage[t]) : garbage[t][i] = garbage[t][j] => i = j
        /\ Pushing(t) => ~InGarbage(t, node[t])
        /\ Popped(t) => ~InGarbage(t, seen[t])

\* What pop() points to is on the stack, or popped by a thread that is not
\* deleting; the links read are still those of the nodes.
Pointers(b, d) == \A t \in Thread :
    /\ Reading(t) => \/ OnStack(b, d, seen[t])
                     \/ \E u \in Thread : Discards(u, seen[t]) /\ ~Deleting(u)
    /\ pc[t] = "pop_cas" => seenNext[t] = next[seen[t]]
    /\ pc[t] = "push_cas" => next[node[t]] = seen[t]

\* A node on the stack, being pushed or just popped has its value, and a pop that
\* is not over yet has none but its own.
Values(b, d) ==
    /\ \A i \in 1..d : value[b[i]] \in Value
    /\ \A t \in Thread :
        /\ Pushing(t) => value[node[t]] \in Value
        /\ Popped(t) => value[seen[t]] \in Value
        /\ pc[t] \in {"add_check", "add_delete"} => result[t] \in Value
        /\ pc[t] \notin {"add_check", "add_delete", "pop_return"} => result[t] = Null

Good(b, d) == Shape(b, d) /\ Ownership(b, d) /\ Pointers(b, d) /\ Values(b, d)

StackInv == TypeInv /\ \E b \in [Nat -> Pointer], d \in Nat : Good(b, d)

-----------------------------------------------------------------------------

\* The stack is empty at first.
LEMMA InitStack == Init => StackInv
<1> SUFFICES ASSUME Init PROVE StackInv
  OBVIOUS
<1> DEFINE b == [i \in Nat |-> Null]
<1>1. b \in [Nat -> Pointer] /\ b[0] = Null
  BY DEF Pointer
<1>2. \A t \in Thread : garbage[t] = <<>> /\ pc[t] = "idle"
  BY DEF Init
<1>3. \A t \in Thread, m \in Node : ~Owns(t, m)
  BY <1>2 DEF Owns, Discards, InGarbage, Popped, Pushing
<1>4. Good(b, 0)
  <2>1. Shape(b, 0)
    BY <1>1 DEF Shape, Init
  <2>2. Ownership(b, 0)
    BY <1>2, <1>3 DEF Ownership, OnStack, Init, Pushing, Popped
  <2>3. Pointers(b, 0)
    BY <1>2 DEF Pointers, Reading
  <2>4. Values(b, 0)
    BY <1>2 DEF Values, Pushing, Popped, Init
  <2> QED
    BY <2>1, <2>2, <2>3, <2>4 DEF Good
<1> QED
  BY <1>1, <1>4, InitTypes DEF StackInv

\* With PAUSE_COUNT at zero nobody is between Pause::new() and the drop of it.
LEMMA NoPause == ASSUME TypeInv, pauseCount = 0, NEW t \in Thread
                 PROVE  ~Reading(t)
<1>1. IsFiniteSet(PausedThreads)
  BY FiniteAssumption, FS_Subset DEF PausedThreads
<1>2. PausedThreads = {}
  BY <1>1, FS_EmptySet DEF TypeInv
<1> QED
  BY <1>2 DEF PausedThreads, Paused, Reading

\* The steps that touch neither the stack nor a node.
Quiet(t) == \/ PushReturn(t) \/ CallPop(t) \/ Pause(t) \/ Resume(t) \/ AddCheck(t)
            \/ PopReturn(t) \/ DeleteDone(t) \/ Exit(t) \/ ExitWait(t)

\* They leave the stack, the owners and the pointers in order: nobody starts to
\* delete while another thread has a pointer.
LEMMA QuietStep ==
    ASSUME TypeInv, NEW b \in [Nat -> Pointer], NEW d \in Nat, Good(b, d),
           NEW t \in Thread, Quiet(t)
    PROVE  Good(b, d)'
<1> USE DEF Quiet, PushReturn, CallPop, Pause, Resume, AddCheck, PopReturn, DeleteDone,
            Exit, ExitWait, Goto
<1>1. UNCHANGED <<top, next, value, allocated, garbage>>
  BY DEF shared, reclaim, local
<1>2. ASSUME NEW u \in Thread
      PROVE  /\ Pushing(u)' = Pushing(u) /\ (Pushing(u) => node'[u] = node[u])
             /\ Popped(u)' = Popped(u) /\ (Popped(u) => seen'[u] = seen[u])
             /\ Reading(u)' = Reading(u) /\ (Reading(u) => seen'[u] = seen[u])
  BY DEF TypeInv, TypeOK, PC, Pushing, Popped, Reading, shared, reclaim, local
<1>3. ASSUME NEW u \in Thread, pc'[u] \in {"pop_cas", "push_cas"}
      PROVE  pc'[u] = pc[u] /\ seenNext'[u] = seenNext[u] /\ seen'[u] = seen[u] /\ node'[u] = node[u]
  BY <1>3 DEF TypeInv, TypeOK, PC, shared, reclaim, local
<1>4. ASSUME NEW u \in Thread, Deleting(u)'
      PROVE  Deleting(u) \/ \A v \in Thread : ~Reading(v)
  <2>1. Deleting(u) \/ pauseCount = 0
    BY <1>4 DEF TypeInv, PC, Deleting
  <2> QED
    BY <2>1, NoPause
<1>5. \A u \in Thread, m \in Node :
        /\ InGarbage(u, m)' = InGarbage(u, m)
        /\ Discards(u, m)' = Discards(u, m)
        /\ Owns(u, m)' = Owns(u, m)
        /\ OnStack(b, d, m)' = OnStack(b, d, m)
  BY <1>1, <1>2 DEF InGarbage, Discards, Owns, OnStack
<1>6. Shape(b, d)'
  BY <1>1 DEF Good, Shape
<1>7. Ownership(b, d)'
  BY <1>1, <1>2, <1>5 DEF Good, Ownership, TypeInv
<1>8. Pointers(b, d)'
  <2>1. ASSUME NEW u \in Thread, Reading(u)'
        PROVE  (\/ OnStack(b, d, seen[u])
                \/ \E w \in Thread : Discards(w, seen[u]) /\ ~Deleting(w))'
    <3>1. Reading(u) /\ seen'[u] = seen[u] /\ seen[u] \in Node
      BY <2>1, <1>2 DEF TypeInv
    <3>2. CASE OnStack(b, d, seen[u])
      BY <3>1, <3>2, <1>5
    <3>3. CASE \E w \in Thread : Discards(w, seen[u]) /\ ~Deleting(w)
      <4>1. PICK w \in Thread : Discards(w, seen[u]) /\ ~Deleting(w)
        BY <3>3
      <4> QED
        BY <3>1, <4>1, <1>4, <1>5
    <3> QED
      BY <3>1, <3>2, <3>3 DEF Good, Pointers
  <2>2. ASSUME NEW u \in Thread
        PROVE  /\ pc'[u] = "pop_cas" => seenNext'[u] = next'[seen'[u]]
               /\ pc'[u] = "push_cas" => next'[node'[u]] = seen'[u]
    BY <1>1, <1>3 DEF Good, Pointers
  <2> QED
    BY <2>1, <2>2 DEF Pointers
<1>9. Values(b, d)'
  <2>1. ASSUME NEW u \in Thread
        PROVE  /\ (pc[u] \in {"add_check", "add_delete"} => result[u] \in Value)'
               /\ (pc[u] \notin {"add_check", "add_delete", "pop_return"} => result[u] = Null)'
    BY DEF Good, Values, TypeInv, TypeOK, PC, shared, reclaim, local
  <2> QED
    BY <1>1, <1>2, <2>1 DEF Good, Values
<1> QED
  BY <1>6, <1>7, <1>8, <1>9 DEF Good

\* A new node is nobody's, and its thread's from then on.
LEMMA CallPushStep ==
    ASSUME TypeInv, NEW b \in [Nat -> Pointer], NEW d \in Nat, Good(b, d),
           NEW t \in Thread, NEW n \in Node, NEW v \in Value, CallPush(t, n, v)
    PROVE  Good(b, d)'
<1> USE DEF CallPush, Goto, reclaim
<1>1. ~OnStack(b, d, n) /\ \A u \in Thread : ~Owns(u, n)
  BY DEF Good, Ownership
<1>2. /\ UNCHANGED <<top, garbage, seen, seenNext, result>>
      /\ \A m \in Node : m # n => next'[m] = next[m] /\ value'[m] = value[m]
      /\ next'[n] = Null /\ value'[n] = v
      /\ node'[t] = n /\ pc[t] = "idle" /\ pc'[t] = "push_load"
      /\ \A u \in Thread : u # t => pc'[u] = pc[u] /\ node'[u] = node[u]
  BY DEF TypeInv, TypeOK
<1>3. \A u \in Thread, m \in Node :
        /\ InGarbage(u, m)' = InGarbage(u, m)
        /\ Discards(u, m)' = Discards(u, m)
        /\ Owns(u, m)' = (Owns(u, m) \/ (u = t /\ m = n))
        /\ OnStack(b, d, m)' = OnStack(b, d, m)
  BY <1>2 DEF InGarbage, Discards, Owns, OnStack, Pushing, Popped
<1>4. Shape(b, d)'
  BY <1>1, <1>2 DEF Good, Shape, OnStack
<1>5. Ownership(b, d)'
  <2>1. /\ \A u \in Thread, m \in Node : Owns(u, m)' => ~OnStack(b, d, m)'
        /\ \A u, w \in Thread, m \in Node : Owns(u, m)' /\ Owns(w, m)' => u = w
    BY <1>1, <1>3 DEF Good, Ownership
  <2>2. \A m \in Node :
          m \in allocated' <=> OnStack(b, d, m)' \/ \E u \in Thread : Owns(u, m)'
    BY <1>3 DEF Good, Ownership
  <2>3. \A u \in Thread :
          /\ \A i, j \in 1..Len(garbage[u]) : garbage[u][i] = garbage[u][j] => i = j
          /\ (Pushing(u) => ~InGarbage(u, node[u]))'
          /\ (Popped(u) => ~InGarbage(u, seen[u]))'
    BY <1>1, <1>2, <1>3 DEF Good, Ownership, TypeInv, Pushing, Popped, Owns, Discards
  <2> QED
    BY <1>2, <2>1, <2>2, <2>3 DEF Ownership
<1>6. Pointers(b, d)'
  <2>1. ASSUME NEW u \in Thread, Reading(u)'
        PROVE  /\ seen'[u] # n /\ seen'[u] \in Node
               /\ (\/ OnStack(b, d, seen[u])
                   \/ \E w \in Thread : Discards(w, seen[u]) /\ ~Deleting(w))'
    <3>1. Reading(u) /\ seen'[u] = seen[u] /\ seen[u] \in Node
      BY <2>1, <1>2 DEF TypeInv, Reading
    <3>2. \A w \in Thread : Deleting(w)' = Deleting(w)
      BY <1>2 DEF Deleting
    <3> QED
      BY <3>1, <3>2, <1>1, <1>3 DEF Good, Pointers, Owns
  <2>2. ASSUME NEW u \in Thread
        PROVE  /\ pc'[u] = "pop_cas" => seenNext'[u] = next'[seen'[u]]
               /\ pc'[u] = "push_cas" => next'[node'[u]] = seen'[u]
    BY <1>1, <1>2, <2>1 DEF Good, Pointers, Reading, Pushing, Owns, TypeInv
  <2> QED
    BY <2>1, <2>2 DEF Pointers
<1>7. Values(b, d)'
  BY <1>1, <1>2 DEF Good, Values, Shape, OnStack, Pushing, Popped, Owns, Discards, TypeInv
<1> QED
  BY <1>4, <1>5, <1>6, <1>7 DEF Good

\* The load of push() links the thread's own node and nothing else.
LEMMA PushLoadStep ==
    ASSUME TypeInv, NEW b \in [Nat -> Pointer], NEW d \in Nat, Good(b, d),
           NEW t \in Thread, PushLoad(t)
    PROVE  Good(b, d)'
<1> USE DEF PushLoad, Goto, reclaim
<1>1. node[t] \in Node /\ Owns(t, node[t]) /\ ~OnStack(b, d, node[t])
  BY DEF Good, Ownership, Owns, Pushing, TypeInv
<1>2. /\ UNCHANGED <<top, value, allocated, garbage, node, seenNext, result>>
      /\ \A m \in Node : m # node[t] => next'[m] = next[m]
      /\ next'[node[t]] = top /\ seen'[t] = top
      /\ pc[t] = "push_load" /\ pc'[t] = "push_cas"
      /\ \A u \in Thread : u # t => pc'[u] = pc[u] /\ seen'[u] = seen[u]
  BY <1>1 DEF TypeInv, TypeOK
<1>3. \A u \in Thread, m \in Node :
        /\ InGarbage(u, m)' = InGarbage(u, m)
        /\ Discards(u, m)' = Discards(u, m)
        /\ Owns(u, m)' = Owns(u, m)
        /\ OnStack(b, d, m)' = OnStack(b, d, m)
  BY <1>2 DEF InGarbage, Discards, Owns, OnStack, Pushing, Popped
<1>4. Shape(b, d)'
  BY <1>1, <1>2 DEF Good, Shape, OnStack
<1>5. Ownership(b, d)'
  BY <1>2, <1>3 DEF Good, Ownership, TypeInv, Pushing, Popped
<1>6. Pointers(b, d)'
  <2>1. ASSUME NEW u \in Thread, Reading(u)'
        PROVE  /\ seen'[u] # node[t] /\ seen'[u] \in Node
               /\ (\/ OnStack(b, d, seen[u])
                   \/ \E w \in Thread : Discards(w, seen[u]) /\ ~Deleting(w))'
    <3>1. Reading(u) /\ seen'[u] = seen[u] /\ seen[u] \in Node
      BY <2>1, <1>2 DEF TypeInv, Reading
    <3>2. \A w \in Thread : Deleting(w)' = Deleting(w)
      BY <1>2 DEF Deleting
    <3>3. ~Discards(t, node[t])
      BY <1>1, <1>2 DEF Good, Ownership, Discards, Pushing, Popped
    <3> QED
      BY <3>1, <3>2, <3>3, <1>1, <1>3 DEF Good, Pointers, Ownership, Owns
  <2>2. ASSUME NEW u \in Thread, pc'[u] = "pop_cas"
        PROVE  seenNext'[u] = next'[seen'[u]]
    BY <1>2, <2>1, <2>2 DEF Good, Pointers, Reading
  <2>3. ASSUME NEW u \in Thread, pc'[u] = "push_cas"
        PROVE  next'[node'[u]] = seen'[u]
    <3>1. CASE u = t
      BY <1>2, <3>1
    <3>2. CASE u # t
      BY <1>1, <1>2, <2>3, <3>2 DEF Good, Pointers, Pushing, Owns, Ownership, TypeInv
    <3> QED
      BY <3>1, <3>2
  <2> QED
    BY <2>1, <2>2, <2>3 DEF Pointers
<1>7. Values(b, d)'
  BY <1>2 DEF Good, Values, Pushing, Popped, TypeInv
<1> QED
  BY <1>4, <1>5, <1>6, <1>7 DEF Good

\* A compare-and-swap that fails: nothing moves, but a pointer may be given up.
LEMMA FailedCASStep ==
    ASSUME TypeInv, NEW b \in [Nat -> Pointer], NEW d \in Nat, Good(b, d),
           NEW t \in Thread, PushCAS(t) \/ PopCAS(t), top # seen[t]
    PROVE  Good(b, d)'
<1>1. /\ UNCHANGED <<top, next, value, allocated, garbage, node, seen, seenNext, result>>
      /\ \/ pc[t] = "push_cas" /\ pc'[t] = "push_load"
         \/ pc[t] = "pop_cas" /\ pc'[t] = "pop_resume_retry"
      /\ \A u \in Thread : u # t => pc'[u] = pc[u]
  BY DEF PushCAS, PopCAS, Goto, reclaim, local, TypeInv
<1>2. \A u \in Thread : /\ Pushing(u)' = Pushing(u) /\ Popped(u)' = Popped(u)
                        /\ Deleting(u)' = Deleting(u)
                        /\ Reading(u)' => Reading(u)
  BY <1>1 DEF Pushing, Popped, Deleting, Reading
<1>3. \A u \in Thread, m \in Node :
        /\ InGarbage(u, m)' = InGarbage(u, m)
        /\ Discards(u, m)' = Discards(u, m)
        /\ Owns(u, m)' = Owns(u, m)
        /\ OnStack(b, d, m)' = OnStack(b, d, m)
  BY <1>1, <1>2 DEF InGarbage, Discards, Owns, OnStack
<1>4. Shape(b, d)'
  BY <1>1 DEF Good, Shape
<1>5. Ownership(b, d)'
  BY <1>1, <1>2, <1>3 DEF Good, Ownership, TypeInv
<1>6. Pointers(b, d)'
  BY <1>1, <1>2, <1>3 DEF Good, Pointers, TypeInv
<1>7. Values(b, d)'
  BY <1>1, <1>2 DEF Good, Values
<1> QED
  BY <1>4, <1>5, <1>6, <1>7 DEF Good

\* A compare-and-swap of push() that succeeds puts the thread's node on top.
LEMMA PushedStep ==
    ASSUME TypeInv, NEW b \in [Nat -> Pointer], NEW d \in Nat, Good(b, d),
           NEW t \in Thread, PushCAS(t), top = seen[t], NEW n \in Node, n = node[t]
    PROVE  /\ [b EXCEPT ![d + 1] = n] \in [Nat -> Pointer]
           /\ Good([b EXCEPT ![d + 1] = n], d + 1)'
<1> DEFINE c == [b EXCEPT ![d + 1] = n]
<1>1. /\ UNCHANGED <<next, value, allocated, garbage, node, seen, seenNext, result>>
      /\ top' = n
      /\ pc[t] = "push_cas" /\ pc'[t] = "push_return"
      /\ \A u \in Thread : u # t => pc'[u] = pc[u]
  BY DEF PushCAS, Goto, reclaim, local, TypeInv
<1>2. /\ c \in [Nat -> Pointer]
      /\ \A i \in 0..d : c[i] = b[i]
      /\ c[d + 1] = n
  BY DEF Pointer
<1> HIDE DEF c
<1>3. ~OnStack(b, d, n) /\ Owns(t, n) /\ ~Discards(t, n) /\ next[n] = top
  BY <1>1 DEF Good, Ownership, Owns, Discards, Pushing, Popped, Pointers
<1>4. /\ \A u \in Thread : Popped(u)' = Popped(u) /\ Reading(u)' = Reading(u)
                            /\ Deleting(u)' = Deleting(u)
      /\ \A u \in Thread : Pushing(u)' = (Pushing(u) /\ u # t)
  BY <1>1 DEF Pushing, Popped, Reading, Deleting
<1>5. \A m \in Node : OnStack(c, d + 1, m) = (OnStack(b, d, m) \/ m = n)
  <2>1. \A i \in 1..d + 1 : i \in 1..d \/ i = d + 1
    OBVIOUS
  <2>2. d + 1 \in 1..d + 1 /\ \A i \in 1..d : i \in 1..d + 1 /\ i \in 0..d
    OBVIOUS
  <2> QED
    BY <1>2, <2>1, <2>2 DEF OnStack
<1>6. \A u \in Thread, m \in Node :
        /\ InGarbage(u, m)' = InGarbage(u, m)
        /\ Discards(u, m)' = Discards(u, m)
        /\ Owns(u, m)' = (Owns(u, m) /\ ~(u = t /\ m = n))
        /\ OnStack(c, d + 1, m)' = OnStack(c, d + 1, m)
  BY <1>1, <1>3, <1>4 DEF InGarbage, Discards, Owns, OnStack
<1>7. Shape(c, d + 1)'
  <2>1. c[0] = Null /\ top' = c[d + 1]
    BY <1>1, <1>2 DEF Good, Shape
  <2>2. ASSUME NEW i \in 1..d + 1
        PROVE  c[i] \in Node /\ next'[c[i]] = c[i - 1]
    <3>1. CASE i = d + 1
      <4>1. c[i] = n /\ c[i - 1] = b[d]
        BY <1>2, <3>1
      <4> QED
        BY <1>1, <1>3, <4>1 DEF Good, Shape
    <3>2. CASE i \in 1..d
      <4>1. c[i] = b[i] /\ c[i - 1] = b[i - 1]
        BY <1>2, <3>2
      <4> QED
        BY <1>1, <3>2, <4>1 DEF Good, Shape
    <3> QED
      BY <3>1, <3>2
  <2>3. ASSUME NEW i \in 1..d + 1, NEW j \in 1..d + 1, c[i] = c[j]
        PROVE  i = j
    BY <1>2, <1>3, <2>3 DEF Good, Shape, OnStack
  <2> QED
    BY <2>1, <2>2, <2>3 DEF Shape
<1>8. Ownership(c, d + 1)'
  <2>1. /\ \A u \in Thread, m \in Node : Owns(u, m)' => ~OnStack(c, d + 1, m)'
        /\ \A u, w \in Thread, m \in Node : Owns(u, m)' /\ Owns(w, m)' => u = w
    BY <1>3, <1>5, <1>6 DEF Good, Ownership
  <2>2. ASSUME NEW m \in Node
        PROVE  m \in allocated' <=> OnStack(c, d + 1, m)' \/ \E u \in Thread : Owns(u, m)'
    <3>1. m \in allocated <=> OnStack(b, d, m) \/ \E u \in Thread : Owns(u, m)
      BY DEF Good, Ownership
    <3>2. \A u \in Thread : Owns(u, n) => u = t
      BY <1>3 DEF Good, Ownership
    <3>3. CASE m = n
      BY <1>1, <1>3, <1>5, <1>6, <3>1, <3>3
    <3>4. CASE m # n
      BY <1>1, <1>5, <1>6, <3>1, <3>4
    <3> QED
      BY <3>3, <3>4
  <2>3. \A u \in Thread :
          /\ \A i, j \in 1..Len(garbage[u]) : garbage[u][i] = garbage[u][j] => i = j
          /\ (Pushing(u) => ~InGarbage(u, node[u]))'
          /\ (Popped(u) => ~InGarbage(u, seen[u]))'
    BY <1>1, <1>4, <1>6 DEF Good, Ownership, TypeInv
  <2> QED
    BY <1>1, <2>1, <2>2, <2>3 DEF Ownership
<1>9. Pointers(c, d + 1)'
  <2>1. ASSUME NEW u \in Thread, Reading(u)'
        PROVE  (\/ OnStack(c, d + 1, seen[u])
                \/ \E w \in Thread : Discards(w, seen[u]) /\ ~Deleting(w))'
    <3>1. Reading(u) /\ seen'[u] = seen[u] /\ seen[u] \in Node
      BY <2>1, <1>1, <1>4 DEF TypeInv
    <3>2. OnStack(b, d, seen[u]) \/ \E w \in Thread : Discards(w, seen[u]) /\ ~Deleting(w)
      BY <3>1 DEF Good, Pointers
    <3> QED
      BY <3>1, <3>2, <1>4, <1>5, <1>6
  <2> QED
    BY <2>1, <1>1 DEF Good, Pointers
<1>10. Values(c, d + 1)'
  <2>1. value[n] \in Value
    BY <1>1 DEF Good, Values, Pushing
  <2>2. ASSUME NEW i \in 1..d + 1
        PROVE  value'[c[i]] \in Value
    BY <1>1, <1>2, <2>1 DEF Good, Values
  <2> QED
    BY <1>1, <1>4, <2>2 DEF Good, Values
<1> QED
  BY <1>2, <1>7, <1>8, <1>9, <1>10 DEF Good, c

\* The first load of pop() points to the top of the stack, or to nothing.
LEMMA PopLoadStep ==
    ASSUME TypeInv, NEW b \in [Nat -> Pointer], NEW d \in Nat, Good(b, d),
           NEW t \in Thread, PopLoad(t)
    PROVE  Good(b, d)'
<1>1. /\ UNCHANGED <<top, next, value, allocated, garbage, node, seenNext, result>>
      /\ pc[t] = "pop_load"
      /\ IF top = Null THEN pc'[t] = "pop_resume_none" ELSE pc'[t] = "pop_next"
      /\ seen'[t] = top
      /\ \A u \in Thread : u # t => pc'[u] = pc[u] /\ seen'[u] = seen[u]
  BY DEF PopLoad, Goto, shared, reclaim, TypeInv, TypeOK
<1>2. \A u \in Thread : /\ Pushing(u)' = Pushing(u) /\ Popped(u)' = Popped(u)
                        /\ Deleting(u)' = Deleting(u)
                        /\ Reading(u)' => Reading(u) \/ (u = t /\ top # Null)
  BY <1>1 DEF Pushing, Popped, Deleting, Reading
<1>3. \A u \in Thread, m \in Node :
        /\ InGarbage(u, m)' = InGarbage(u, m)
        /\ Discards(u, m)' = Discards(u, m)
        /\ Owns(u, m)' = Owns(u, m)
        /\ OnStack(b, d, m)' = OnStack(b, d, m)
  BY <1>1, <1>2 DEF InGarbage, Discards, Owns, OnStack, Popped
<1>4. Shape(b, d)'
  BY <1>1 DEF Good, Shape
<1>5. Ownership(b, d)'
  BY <1>1, <1>2, <1>3 DEF Good, Ownership, TypeInv, Popped
<1>6. Pointers(b, d)'
  <2>1. ASSUME NEW u \in Thread, Reading(u)'
        PROVE  (\/ OnStack(b, d, seen[u])
                \/ \E w \in Thread : Discards(w, seen[u]) /\ ~Deleting(w))'
    <3>1. CASE u = t
      <4>1. top # Null /\ OnStack(b, d, top)
        BY <1>1, <2>1, <3>1 DEF Good, Shape, OnStack, Reading
      <4> QED
        BY <1>1, <3>1, <4>1 DEF OnStack
    <3>2. CASE u # t
      <4>1. Reading(u) /\ seen'[u] = seen[u] /\ seen[u] \in Node
        BY <1>1, <1>2, <2>1, <3>2 DEF TypeInv
      <4>2. OnStack(b, d, seen[u]) \/ \E w \in Thread : Discards(w, seen[u]) /\ ~Deleting(w)
        BY <4>1 DEF Good, Pointers
      <4> QED
        BY <1>2, <1>3, <4>1, <4>2
    <3> QED
      BY <3>1, <3>2
  <2> QED
    BY <1>1, <2>1 DEF Good, Pointers
<1>7. Values(b, d)'
  BY <1>1, <1>2 DEF Good, Values, Popped
<1> QED
  BY <1>4, <1>5, <1>6, <1>7 DEF Good

\* The second one reads the link of the node it points to.
LEMMA PopNextStep ==
    ASSUME TypeInv, NEW b \in [Nat -> Pointer], NEW d \in Nat, Good(b, d),
           NEW t \in Thread, PopNext(t)
    PROVE  Good(b, d)'
<1>1. /\ UNCHANGED <<top, next, value, allocated, garbage, node, seen, result>>
      /\ pc[t] = "pop_next" /\ pc'[t] = "pop_cas"
      /\ seenNext'[t] = next[seen[t]]
      /\ \A u \in Thread : u # t => pc'[u] = pc[u] /\ seenNext'[u] = seenNext[u]
  BY DEF PopNext, Goto, shared, reclaim, TypeInv, TypeOK
<1>2. \A u \in Thread : /\ Pushing(u)' = Pushing(u) /\ Popped(u)' = Popped(u)
                        /\ Deleting(u)' = Deleting(u)
                        /\ Reading(u)' = Reading(u)
  BY <1>1 DEF Pushing, Popped, Deleting, Reading
<1>3. \A u \in Thread, m \in Node :
        /\ InGarbage(u, m)' = InGarbage(u, m)
        /\ Discards(u, m)' = Discards(u, m)
        /\ Owns(u, m)' = Owns(u, m)
        /\ OnStack(b, d, m)' = OnStack(b, d, m)
  BY <1>1, <1>2 DEF InGarbage, Discards, Owns, OnStack
<1>4. Shape(b, d)'
  BY <1>1 DEF Good, Shape
<1>5. Ownership(b, d)'
  BY <1>1, <1>2, <1>3 DEF Good, Ownership, TypeInv
<1>6. Pointers(b, d)'
  BY <1>1, <1>2, <1>3 DEF Good, Pointers, TypeInv
<1>7. Values(b, d)'
  BY <1>1, <1>2 DEF Good, Values
<1> QED
  BY <1>4, <1>5, <1>6, <1>7 DEF Good

\* A compare-and-swap of pop() that succeeds takes the top node off the stack.
LEMMA PoppedStep ==
    ASSUME TypeInv, NEW b \in [Nat -> Pointer], NEW d \in Nat, Good(b, d),
           NEW t \in Thread, PopCAS(t), top = seen[t]
    PROVE  d > 0 /\ Good(b, d - 1)'
<1>1. /\ UNCHANGED <<next, value, allocated, garbage, node, seen, seenNext, result>>
      /\ top' = seenNext[t]
      /\ pc[t] = "pop_cas" /\ pc'[t] = "pop_resume_some"
      /\ \A u \in Thread : u # t => pc'[u] = pc[u]
  BY DEF PopCAS, Goto, reclaim, local, TypeInv
<1>2. top \in Node /\ d \in Nat \ {0} /\ top = b[d]
  BY <1>1, NullAssumption DEF TypeInv, Reading, Good, Shape
<1>3. OnStack(b, d, top) /\ top' = b[d - 1]
  <2>1. d \in 1..d
    BY <1>2
  <2>2. next[b[d]] = b[d - 1]
    BY <2>1 DEF Good, Shape
  <2>3. seenNext[t] = next[seen[t]]
    BY <1>1 DEF Good, Pointers
  <2> QED
    BY <1>1, <1>2, <2>1, <2>2, <2>3 DEF OnStack
<1>4. \A u \in Thread : ~Owns(u, top)
  BY <1>2, <1>3 DEF Good, Ownership
<1>5. /\ \A u \in Thread : Pushing(u)' = Pushing(u) /\ Deleting(u)' = Deleting(u)
      /\ \A u \in Thread : Popped(u)' = (Popped(u) \/ u = t)
      /\ \A u \in Thread : Reading(u)' = (Reading(u) /\ u # t)
      /\ ~Popped(t) /\ ~Deleting(t)
  BY <1>1 DEF Pushing, Popped, Reading, Deleting
<1>6. \A m \in Node : OnStack(b, d - 1, m) = (OnStack(b, d, m) /\ m # top)
  <2>1. \A i \in 1..d - 1 : i \in 1..d /\ b[i] # b[d]
    BY <1>2 DEF Good, Shape
  <2>2. \A i \in 1..d : b[i] # b[d] => i \in 1..d - 1
    BY <1>2
  <2> QED
    BY <1>2, <2>1, <2>2 DEF OnStack
<1>7. \A u \in Thread, m \in Node :
        /\ InGarbage(u, m)' = InGarbage(u, m)
        /\ Discards(u, m)' = (Discards(u, m) \/ (u = t /\ m = top))
        /\ Owns(u, m)' = (Owns(u, m) \/ (u = t /\ m = top))
        /\ OnStack(b, d - 1, m)' = OnStack(b, d - 1, m)
  BY <1>1, <1>5 DEF InGarbage, Discards, Owns, OnStack
<1>8. Shape(b, d - 1)'
  BY <1>1, <1>2, <1>3 DEF Good, Shape
<1>9. Ownership(b, d - 1)'
  <2>1. /\ \A u \in Thread, m \in Node : Owns(u, m)' => ~OnStack(b, d - 1, m)'
        /\ \A u, w \in Thread, m \in Node : Owns(u, m)' /\ Owns(w, m)' => u = w
    <3>1. /\ \A u \in Thread, m \in Node : Owns(u, m) => ~OnStack(b, d, m)
          /\ \A u, w \in Thread, m \in Node : Owns(u, m) /\ Owns(w, m) => u = w
      BY DEF Good, Ownership
    <3> QED
      BY <1>4, <1>6, <1>7, <3>1
  <2>2. ASSUME NEW m \in Node
        PROVE  m \in allocated' <=> OnStack(b, d - 1, m)' \/ \E u \in Thread : Owns(u, m)'
    <3>1. m \in allocated <=> OnStack(b, d, m) \/ \E u \in Thread : Owns(u, m)
      BY DEF Good, Ownership
    <3> QED
      BY <1>1, <1>3, <1>6, <1>7, <3>1
  <2>3. \A u \in Thread :
          /\ \A i, j \in 1..Len(garbage[u]) : garbage[u][i] = garbage[u][j] => i = j
          /\ (Pushing(u) => ~InGarbage(u, node[u]))'
          /\ (Popped(u) => ~InGarbage(u, seen[u]))'
    BY <1>1, <1>2, <1>4, <1>5, <1>7 DEF Good, Ownership, TypeInv, Owns, Discards
  <2> QED
    BY <1>1, <2>1, <2>2, <2>3 DEF Ownership
<1>10. Pointers(b, d - 1)'
  <2>1. ASSUME NEW u \in Thread, Reading(u)'
        PROVE  (\/ OnStack(b, d - 1, seen[u])
                \/ \E w \in Thread : Discards(w, seen[u]) /\ ~Deleting(w))'
    <3>1. Reading(u) /\ seen'[u] = seen[u] /\ seen[u] \in Node
      BY <2>1, <1>1, <1>5 DEF TypeInv
    <3>2. OnStack(b, d, seen[u]) \/ \E w \in Thread : Discards(w, seen[u]) /\ ~Deleting(w)
      BY <3>1 DEF Good, Pointers
    <3> QED
      BY <3>1, <3>2, <1>5, <1>6, <1>7
  <2> QED
    BY <2>1, <1>1 DEF Good, Pointers
<1>11. Values(b, d - 1)'
  <2>1. value[top] \in Value
    BY <1>2 DEF Good, Values
  <2>2. \A i \in 1..d - 1 : value[b[i]] \in Value
    BY DEF Good, Values
  <2> QED
    BY <1>1, <1>5, <2>1, <2>2 DEF Good, Values
<1> QED
  BY <1>2, <1>8, <1>9, <1>10, <1>11 DEF Good

\* A queue with one more node at its end holds that one too.
LEMMA AppendOne ==
    ASSUME NEW q \in Seq(Node), NEW n \in Node
    PROVE  /\ Append(q, n) \in Seq(Node)
           /\ \A m : (\E i \in 1..Len(Append(q, n)) : Append(q, n)[i] = m)
                        <=> (\E i \in 1..Len(q) : q[i] = m) \/ m = n
           /\ (\A i, j \in 1..Len(q) : q[i] = q[j] => i = j) /\ ~(\E i \in 1..Len(q) : q[i] = n)
                => \A i, j \in 1..Len(Append(q, n)) :
                        Append(q, n)[i] = Append(q, n)[j] => i = j
<1> DEFINE r == Append(q, n)
<1>1. /\ Len(q) \in Nat /\ r \in Seq(Node) /\ Len(r) = Len(q) + 1
      /\ \A i \in 1..Len(q) : r[i] = q[i]
      /\ r[Len(q) + 1] = n
  BY AppendProperties, LenProperties
<1> HIDE DEF r
<1>2. \A i \in 1..Len(r) : i \in 1..Len(q) \/ i = Len(q) + 1
  BY <1>1
<1>3. Len(q) + 1 \in 1..Len(r) /\ \A i \in 1..Len(q) : i \in 1..Len(r)
  BY <1>1
<1>4. \A m : (\E i \in 1..Len(r) : r[i] = m) <=> (\E i \in 1..Len(q) : q[i] = m) \/ m = n
  BY <1>1, <1>2, <1>3
<1>5. ASSUME \A i, j \in 1..Len(q) : q[i] = q[j] => i = j,
             ~(\E i \in 1..Len(q) : q[i] = n)
      PROVE  \A i, j \in 1..Len(r) : r[i] = r[j] => i = j
  BY <1>1, <1>2, <1>5
<1> QED
  BY <1>1, <1>4, <1>5 DEF r

\* A queue of distinct nodes without its head holds all the others.
LEMMA TailOne ==
    ASSUME NEW q \in Seq(Node), q # <<>>,
           \A i, j \in 1..Len(q) : q[i] = q[j] => i = j
    PROVE  /\ Head(q) \in Node /\ Tail(q) \in Seq(Node)
           /\ \E i \in 1..Len(q) : q[i] = Head(q)
           /\ \A m : (\E i \in 1..Len(Tail(q)) : Tail(q)[i] = m)
                        <=> (\E i \in 1..Len(q) : q[i] = m) /\ m # Head(q)
           /\ \A i, j \in 1..Len(Tail(q)) : Tail(q)[i] = Tail(q)[j] => i = j
<1> DEFINE r == Tail(q)
<1>1. /\ Len(q) \in Nat \ {0} /\ r \in Seq(Node) /\ Len(r) = Len(q) - 1
      /\ \A i \in 1..Len(r) : r[i] = q[i + 1]
      /\ Head(q) = q[1] /\ Head(q) \in Node
  BY HeadTailProperties, LenProperties, EmptySeq
<1> HIDE DEF r
<1>2. \A i \in 1..Len(r) : i + 1 \in 1..Len(q) /\ i + 1 # 1
  BY <1>1
<1>3. 1 \in 1..Len(q)
  BY <1>1
<1>4. ASSUME NEW m, NEW i \in 1..Len(q), q[i] = m, m # Head(q)
      PROVE  \E j \in 1..Len(r) : r[j] = m
  <2>1. i - 1 \in 1..Len(r) /\ (i - 1) + 1 = i
    BY <1>1, <1>4
  <2>2. r[i - 1] = m
    BY <1>1, <1>4, <2>1
  <2> QED
    BY <2>1, <2>2
<1>5. \A m : (\E i \in 1..Len(r) : r[i] = m) <=> (\E i \in 1..Len(q) : q[i] = m) /\ m # Head(q)
  <2>1. ASSUME NEW i \in 1..Len(r)
        PROVE  (\E j \in 1..Len(q) : q[j] = r[i]) /\ r[i] # Head(q)
    BY <1>1, <1>2, <1>3
  <2> QED
    BY <1>4, <2>1
<1>6. \A i, j \in 1..Len(r) : r[i] = r[j] => i = j
  <2> SUFFICES ASSUME NEW i \in 1..Len(r), NEW j \in 1..Len(r), r[i] = r[j] PROVE i = j
    OBVIOUS
  <2>1. q[i + 1] = q[j + 1]
    BY <1>1
  <2>2. i + 1 = j + 1
    BY <1>2, <2>1
  <2> QED
    BY <2>2
<1> QED
  BY <1>1, <1>3, <1>5, <1>6 DEF r

\* add() moves the popped node to the queue of the thread.
LEMMA TakeStep ==
    ASSUME TypeInv, NEW b \in [Nat -> Pointer], NEW d \in Nat, Good(b, d),
           NEW t \in Thread, Take(t)
    PROVE  Good(b, d)'
<1> DEFINE n == seen[t]
<1>1. n \in Node /\ garbage[t] \in Seq(Node)
  BY DEF Take, Goto, TypeInv, TypeOK, Popped
<1>2. /\ UNCHANGED <<top, next, allocated, node, seen, seenNext>>
      /\ pc[t] = "pop_take" /\ pc'[t] = "add_check"
      /\ result'[t] = value[n] /\ garbage'[t] = Append(garbage[t], n)
      /\ \A m \in Node : m # n => value'[m] = value[m]
      /\ \A u \in Thread : u # t => /\ pc'[u] = pc[u] /\ result'[u] = result[u]
                                    /\ garbage'[u] = garbage[u]
  BY <1>1 DEF Take, Goto, TypeInv, TypeOK
<1> HIDE DEF n
<1>3. /\ ~InGarbage(t, n) /\ Owns(t, n) /\ ~OnStack(b, d, n)
      /\ \A u \in Thread : Owns(u, n) => u = t
      /\ value[n] \in Value
  BY <1>1, <1>2 DEF Good, Ownership, Owns, Discards, Popped, Values, n
<1>4. /\ \A u \in Thread : Pushing(u)' = Pushing(u) /\ Deleting(u)' = Deleting(u)
                            /\ Reading(u)' = Reading(u)
      /\ \A u \in Thread : Popped(u)' = (Popped(u) /\ u # t)
      /\ Popped(t) /\ ~Pushing(t)
  BY <1>2 DEF Pushing, Popped, Reading, Deleting
<1>5. \A u \in Thread, m \in Node :
        InGarbage(u, m)' <=> InGarbage(u, m) \/ (u = t /\ m = n)
  <2> DEFINE r == Append(garbage[t], n)
  <2>1. \A m : (\E i \in 1..Len(r) : r[i] = m)
                    <=> (\E i \in 1..Len(garbage[t]) : garbage[t][i] = m) \/ m = n
    BY <1>1, AppendOne
  <2>2. garbage'[t] = r
    BY <1>2
  <2> HIDE DEF r
  <2>3. \A m : InGarbage(t, m)' <=> InGarbage(t, m) \/ m = n
    BY <2>1, <2>2 DEF InGarbage
  <2>4. \A u \in Thread, m \in Node : u # t => (InGarbage(u, m)' <=> InGarbage(u, m))
    BY <1>2 DEF InGarbage
  <2> QED
    BY <2>3, <2>4
<1>6. \A u \in Thread, m \in Node :
        /\ Discards(u, m)' = Discards(u, m)
        /\ Owns(u, m)' = Owns(u, m)
        /\ OnStack(b, d, m)' = OnStack(b, d, m)
  BY <1>2, <1>4, <1>5 DEF Discards, Owns, OnStack, n
<1>7. Shape(b, d)'
  BY <1>2 DEF Good, Shape
<1>8. Ownership(b, d)'
  <2>1. ASSUME NEW u \in Thread
        PROVE  \A i, j \in 1..Len(garbage'[u]) : garbage'[u][i] = garbage'[u][j] => i = j
    <3>1. \A i, j \in 1..Len(garbage[u]) : garbage[u][i] = garbage[u][j] => i = j
      BY DEF Good, Ownership
    <3>2. CASE u = t
      <4>1. /\ \A i, j \in 1..Len(garbage[t]) : garbage[t][i] = garbage[t][j] => i = j
            /\ ~(\E i \in 1..Len(garbage[t]) : garbage[t][i] = n)
        BY <1>3, <3>1, <3>2 DEF InGarbage
      <4>2. \A i, j \in 1..Len(Append(garbage[t], n)) :
                Append(garbage[t], n)[i] = Append(garbage[t], n)[j] => i = j
        BY <1>1, <4>1, AppendOne
      <4> QED
        BY <1>2, <3>2, <4>2
    <3>3. CASE u # t
      BY <1>2, <3>1, <3>3
    <3> QED
      BY <3>2, <3>3
  <2>2. ASSUME NEW u \in Thread
        PROVE  /\ (Pushing(u) => ~InGarbage(u, node[u]))'
               /\ (Popped(u) => ~InGarbage(u, seen[u]))'
    BY <1>2, <1>4, <1>5 DEF Good, Ownership, TypeInv
  <2>3. /\ \A u \in Thread, m \in Node : Owns(u, m)' => ~OnStack(b, d, m)'
        /\ \A u, w \in Thread, m \in Node : Owns(u, m)' /\ Owns(w, m)' => u = w
        /\ \A m \in Node :
              m \in allocated' <=> OnStack(b, d, m)' \/ \E u \in Thread : Owns(u, m)'
    BY <1>2, <1>6 DEF Good, Ownership
  <2> QED
    BY <2>1, <2>2, <2>3 DEF Ownership
<1>9. Pointers(b, d)'
  BY <1>2, <1>4, <1>6 DEF Good, Pointers, TypeInv
<1>10. Values(b, d)'
  <2>1. \A i \in 1..d : value'[b[i]] \in Value
    BY <1>2, <1>3 DEF Good, Values, Shape, OnStack
  <2>2. ASSUME NEW u \in Thread, Pushing(u)' PROVE value'[node'[u]] \in Value
    BY <1>2, <1>3, <1>4, <2>2 DEF Good, Values, Owns, TypeInv
  <2>3. ASSUME NEW u \in Thread, Popped(u)' PROVE value'[seen'[u]] \in Value
    BY <1>2, <1>3, <1>4, <2>3 DEF Good, Values, Owns, Discards, TypeInv
  <2>4. ASSUME NEW u \in Thread
        PROVE  /\ (pc[u] \in {"add_check", "add_delete"} => result[u] \in Value)'
               /\ (pc[u] \notin {"add_check", "add_delete", "pop_return"} => result[u] = Null)'
    BY <1>2, <1>3 DEF Good, Values
  <2> QED
    BY <2>1, <2>2, <2>3, <2>4 DEF Values
<1> QED
  BY <1>7, <1>8, <1>9, <1>10 DEF Good

\* delete() frees a node that only this thread has, and that nobody points to.
LEMMA DeleteOneStep ==
    ASSUME TypeInv, NEW b \in [Nat -> Pointer], NEW d \in Nat, Good(b, d),
           NEW t \in Thread, DeleteOne(t)
    PROVE  Good(b, d)'
<1> DEFINE n == Head(garbage[t])
<1>1. /\ garbage[t] \in Seq(Node) /\ garbage[t] # <<>>
      /\ \A i, j \in 1..Len(garbage[t]) : garbage[t][i] = garbage[t][j] => i = j
  BY DEF DeleteOne, TypeInv, TypeOK, Good, Ownership
<1>2. n \in Node
  BY <1>1, TailOne
<1>3. /\ UNCHANGED <<top, node, seen, seenNext, result, pc>>
      /\ Deleting(t)
      /\ garbage'[t] = Tail(garbage[t]) /\ allocated' = allocated \ {n}
      /\ \A m \in Node : m # n => next'[m] = next[m] /\ value'[m] = value[m]
      /\ \A u \in Thread : u # t => garbage'[u] = garbage[u]
  BY <1>2 DEF DeleteOne, Deleting, local, TypeInv, TypeOK
<1>4. InGarbage(t, n) /\ Owns(t, n) /\ ~OnStack(b, d, n)
      /\ \A u \in Thread : Owns(u, n) => u = t
  <2>1. InGarbage(t, n)
    BY <1>1, TailOne DEF InGarbage
  <2> QED
    BY <1>2, <2>1 DEF Good, Ownership, Owns, Discards
<1>5. \A u \in Thread, m \in Node :
        InGarbage(u, m)' <=> InGarbage(u, m) /\ ~(u = t /\ m = n)
  <2> DEFINE r == Tail(garbage[t])
  <2>1. \A m : (\E i \in 1..Len(r) : r[i] = m)
                    <=> (\E i \in 1..Len(garbage[t]) : garbage[t][i] = m) /\ m # n
    BY <1>1, TailOne
  <2>2. garbage'[t] = r
    BY <1>3
  <2> HIDE DEF r
  <2>3. \A m : InGarbage(t, m)' <=> InGarbage(t, m) /\ m # n
    BY <2>1, <2>2 DEF InGarbage
  <2>4. \A u \in Thread, m \in Node : u # t => (InGarbage(u, m)' <=> InGarbage(u, m))
    BY <1>3 DEF InGarbage
  <2> QED
    BY <2>3, <2>4
<1> HIDE DEF n
<1>6. /\ \A u \in Thread : Pushing(u)' = Pushing(u) /\ Deleting(u)' = Deleting(u)
                            /\ Reading(u)' = Reading(u) /\ Popped(u)' = Popped(u)
      /\ ~Pushing(t) /\ ~Popped(t)
  BY <1>3 DEF Pushing, Popped, Reading, Deleting
<1>7. \A u \in Thread, m \in Node :
        /\ Discards(u, m)' = (Discards(u, m) /\ ~(u = t /\ m = n))
        /\ Owns(u, m)' = (Owns(u, m) /\ ~(u = t /\ m = n))
        /\ OnStack(b, d, m)' = OnStack(b, d, m)
  BY <1>3, <1>5, <1>6 DEF Discards, Owns, OnStack
<1>8. Shape(b, d)'
  BY <1>3, <1>4 DEF Good, Shape, OnStack
<1>9. Ownership(b, d)'
  <2>1. /\ \A u \in Thread, m \in Node : Owns(u, m)' => ~OnStack(b, d, m)'
        /\ \A u, w \in Thread, m \in Node : Owns(u, m)' /\ Owns(w, m)' => u = w
    BY <1>7 DEF Good, Ownership
  <2>2. ASSUME NEW m \in Node
        PROVE  m \in allocated' <=> OnStack(b, d, m)' \/ \E u \in Thread : Owns(u, m)'
    <3>1. m \in allocated <=> OnStack(b, d, m) \/ \E u \in Thread : Owns(u, m)
      BY DEF Good, Ownership
    <3> QED
      BY <1>3, <1>4, <1>7, <3>1
  <2>3. ASSUME NEW u \in Thread
        PROVE  \A i, j \in 1..Len(garbage'[u]) : garbage'[u][i] = garbage'[u][j] => i = j
    <3>1. CASE u = t
      <4>1. \A i, j \in 1..Len(Tail(garbage[t])) :
                Tail(garbage[t])[i] = Tail(garbage[t])[j] => i = j
        BY <1>1, TailOne
      <4> QED
        BY <1>3, <3>1, <4>1
    <3>2. CASE u # t
      BY <1>3, <3>2 DEF Good, Ownership
    <3> QED
      BY <3>1, <3>2
  <2>4. ASSUME NEW u \in Thread
        PROVE  /\ (Pushing(u) => ~InGarbage(u, node[u]))'
               /\ (Popped(u) => ~InGarbage(u, seen[u]))'
    BY <1>3, <1>5, <1>6 DEF Good, Ownership, TypeInv
  <2> QED
    BY <2>1, <2>2, <2>3, <2>4 DEF Ownership
<1>10. Pointers(b, d)'
  <2>1. ASSUME NEW u \in Thread, Reading(u)
        PROVE  /\ seen[u] # n /\ seen[u] \in Node
               /\ (\/ OnStack(b, d, seen[u])
                   \/ \E w \in Thread : Discards(w, seen[u]) /\ ~Deleting(w))'
    <3>1. seen[u] \in Node
      BY <2>1 DEF TypeInv
    <3>2. OnStack(b, d, seen[u]) \/ \E w \in Thread : Discards(w, seen[u]) /\ ~Deleting(w)
      BY <2>1 DEF Good, Pointers
    <3>3. \A w \in Thread : Discards(w, n) => Deleting(w)
      BY <1>3, <1>4 DEF Owns
    <3> QED
      BY <3>1, <3>2, <3>3, <1>3, <1>4, <1>6, <1>7
  <2>2. ASSUME NEW u \in Thread, pc[u] = "push_cas"
        PROVE  node[u] # n /\ node[u] \in Node
    BY <1>4, <1>6, <2>2 DEF Pushing, Owns, TypeInv
  <2> QED
    BY <1>3, <1>6, <2>1, <2>2 DEF Good, Pointers, Reading
<1>11. Values(b, d)'
  <2>1. \A i \in 1..d : value'[b[i]] \in Value
    BY <1>3, <1>4 DEF Good, Values, Shape, OnStack
  <2>2. ASSUME NEW u \in Thread, Pushing(u)' PROVE value'[node'[u]] \in Value
    BY <1>3, <1>4, <1>6, <2>2 DEF Good, Values, Owns, TypeInv
  <2>3. ASSUME NEW u \in Thread, Popped(u)' PROVE value'[seen'[u]] \in Value
    BY <1>3, <1>4, <1>6, <2>3 DEF Good, Values, Owns, Discards, TypeInv
  <2> QED
    BY <1>3, <2>1, <2>2, <2>3 DEF Good, Values
<1> QED
  BY <1>8, <1>9, <1>10, <1>11 DEF Good

\* So every step keeps the invariant.
LEMMA StackStep == StackInv /\ [Next]_vars => StackInv'
<1> SUFFICES ASSUME StackInv, [Next]_vars
             PROVE  \E c \in [Nat -> Pointer], e \in Nat : Good(c, e)'
  BY TypeStep DEF StackInv
<1>1. TypeInv
  BY DEF StackInv
<1>2. PICK b \in [Nat -> Pointer], d \in Nat : Good(b, d)
  BY DEF StackInv
<1>3. ASSUME NEW t \in Thread, Quiet(t) PROVE Good(b, d)'
  BY <1>1, <1>2, <1>3, QuietStep
<1>4. ASSUME NEW t \in Thread, NEW n \in Node, NEW v \in Value, CallPush(t, n, v)
      PROVE  Good(b, d)'
  BY <1>1, <1>2, <1>4, CallPushStep
<1>5. ASSUME NEW t \in Thread, PushLoad(t) PROVE Good(b, d)'
  BY <1>1, <1>2, <1>5, PushLoadStep
<1>6. ASSUME NEW t \in Thread, PushCAS(t)
      PROVE  \E c \in [Nat -> Pointer], e \in Nat : Good(c, e)'
  <2>1. CASE top = seen[t]
    <3>1. PICK n \in Node : n = node[t]
      BY <1>1, <1>6, <2>1 DEF PushCAS, Goto, TypeInv, Pushing
    <3>2. d + 1 \in Nat
      OBVIOUS
    <3>3. /\ [b EXCEPT ![d + 1] = n] \in [Nat -> Pointer]
          /\ Good([b EXCEPT ![d + 1] = n], d + 1)'
      BY <1>1, <1>2, <1>6, <2>1, <3>1, PushedStep
    <3> QED
      BY <3>2, <3>3
  <2>2. CASE top # seen[t]
    BY <1>1, <1>2, <1>6, <2>2, FailedCASStep
  <2> QED
    BY <2>1, <2>2
<1>7. ASSUME NEW t \in Thread, PopLoad(t) PROVE Good(b, d)'
  BY <1>1, <1>2, <1>7, PopLoadStep
<1>8. ASSUME NEW t \in Thread, PopNext(t) PROVE Good(b, d)'
  BY <1>1, <1>2, <1>8, PopNextStep
<1>9. ASSUME NEW t \in Thread, PopCAS(t)
      PROVE  \E e \in Nat : Good(b, e)'
  <2>1. CASE top = seen[t]
    <3>1. d - 1 \in Nat /\ Good(b, d - 1)'
      BY <1>1, <1>2, <1>9, <2>1, PoppedStep
    <3> QED
      BY <3>1
  <2>2. CASE top # seen[t]
    BY <1>1, <1>2, <1>9, <2>2, FailedCASStep
  <2> QED
    BY <2>1, <2>2
<1>10. ASSUME NEW t \in Thread, Take(t) PROVE Good(b, d)'
  BY <1>1, <1>2, <1>10, TakeStep
<1>11. ASSUME NEW t \in Thread, DeleteOne(t) PROVE Good(b, d)'
  BY <1>1, <1>2, <1>11, DeleteOneStep
<1>12. CASE UNCHANGED vars
  <2> USE <1>12 DEF vars, shared, reclaim, local
  <2>1. \A t \in Thread, m \in Node :
          /\ InGarbage(t, m)' = InGarbage(t, m)
          /\ Discards(t, m)' = Discards(t, m)
          /\ Owns(t, m)' = Owns(t, m)
          /\ OnStack(b, d, m)' = OnStack(b, d, m)
    BY DEF InGarbage, Discards, Owns, OnStack, Pushing, Popped
  <2>2. Shape(b, d)'
    BY <1>2 DEF Good, Shape
  <2>3. Ownership(b, d)'
    BY <1>1, <1>2, <2>1 DEF Good, Ownership, Pushing, Popped, TypeInv
  <2>4. Pointers(b, d)'
    BY <1>1, <1>2, <2>1 DEF Good, Pointers, Reading, Deleting, TypeInv
  <2>5. Values(b, d)'
    BY <1>2 DEF Good, Values, Pushing, Popped
  <2>6. Good(b, d)'
    BY <2>2, <2>3, <2>4, <2>5 DEF Good
  <2> QED
    BY <2>6
<1> QED
  BY <1>3, <1>4, <1>5, <1>6, <1>7, <1>8, <1>9, <1>10, <1>11, <1>12 DEF Next, Step, Quiet

\* The invariant holds in every reachable state.
LEMMA StackCorrect == Spec => []StackInv
<1> QED
  BY InitStack, StackStep, PTL DEF Spec

\* "This dereference is safe", for any number of threads that pop, push and
\* reclaim at the same time: what pop() points to is on the stack or in the queue
\* of a thread that will not delete it while PAUSE_COUNT is not zero.
THEOREM DereferenceIsSafe == Spec => []NoUseAfterFree
<1>1. StackInv => NoUseAfterFree
  <2> SUFFICES ASSUME StackInv, NEW t \in Thread, pc[t] = "pop_next"
               PROVE  seen[t] \in allocated
    BY DEF NoUseAfterFree
  <2>1. PICK b \in [Nat -> Pointer], d \in Nat : Good(b, d)
    BY DEF StackInv
  <2>2. seen[t] \in Node
    BY DEF StackInv, TypeInv, Reading
  <2> QED
    BY <2>1, <2>2 DEF Good, Pointers, Ownership, Owns, Reading
<1> QED
  BY <1>1, StackCorrect, PTL

\* Although addresses are reused, a compare-and-swap of pop() that finds the
\* pointer it loaded on top installs the link that node has now: the node cannot
\* have been freed and pushed again in between.
THEOREM NoABAProblem == Spec => []NoABA
<1>1. StackInv => NoABA
  BY DEF StackInv, Good, Pointers, NoABA
<1> QED
  BY <1>1, StackCorrect, PTL

-----------------------------------------------------------------------------

\* A set of numbers that is not empty has a least element.
LEMMA LeastNat == ASSUME NEW T \in SUBSET Nat, T # {}
                  PROVE  \E x \in T : \A y \in T : x <= y
<1> DEFINE R == OpToRel(<, Nat)
<1>1. IsWellFoundedOn(R, Nat)
  BY NatLessThanWellFounded
<1> HIDE DEF R
<1>2. PICK x \in T : \A y \in T : ~ (<<y, x>> \in R)
  BY <1>1, WFMin
<1>3. \A y \in T : y < x => <<y, x>> \in R
  BY DEF OpToRel, R
<1>4. \A y \in T : ~(y < x)
  BY <1>2, <1>3
<1>5. \A y \in T : x <= y
  BY <1>4
<1> QED
  BY <1>5

\* Following the links nx from tp, as Link does from the top of the stack.
Walk(f, tp, nx) == [i \in Nat |-> IF i = 0 THEN tp
                                  ELSE IF f[i - 1] = Null THEN Null ELSE nx[f[i - 1]]]

\* Where the links lead, if the nodes are b[1] to b[d]: from d downwards, and to
\* null for ever after.
Down(b, d) == [i \in Nat |-> IF i < d THEN b[d - i] ELSE Null]

\* Going down the stack is a walk along its links.
LEMMA DownIsWalk ==
    ASSUME NEW tp, NEW nx, NEW b \in [Nat -> Pointer], NEW d \in Nat,
           b[0] = Null, tp = b[d],
           \A i \in 1..d : b[i] \in Node /\ nx[b[i]] = b[i - 1]
    PROVE  Down(b, d) = Walk(Down(b, d), tp, nx)
<1> DEFINE g == Down(b, d)
<1>1. \A i \in 1..d : b[i] # Null
  BY NullAssumption
<1>2. ASSUME NEW i \in Nat PROVE g[i] = Walk(g, tp, nx)[i]
  <2> USE DEF Down, Walk
  <2>1. CASE i = 0
    BY <2>1
  <2>2. CASE i \in 1..d - 1
    <3>1. g[i - 1] = b[d - i + 1] /\ d - i + 1 \in 1..d /\ g[i] = b[d - i]
      BY <2>2
    <3>2. nx[b[d - i + 1]] = b[d - i]
      BY <3>1
    <3> QED
      BY <1>1, <2>2, <3>1, <3>2
  <2>3. CASE i # 0 /\ i = d
    <3>1. g[i - 1] = b[1] /\ 1 \in 1..d /\ g[i] = Null
      BY <2>3
    <3>2. nx[b[1]] = Null
      BY <3>1
    <3> QED
      BY <1>1, <2>3, <3>1, <3>2
  <2>4. CASE i > d
    BY <2>4
  <2> QED
    BY <2>1, <2>2, <2>3, <2>4
<1> QED
  BY <1>2 DEF Down, Walk

\* There is only one walk: a first index where two differ would follow one where
\* they do not.
LEMMA OneWalk ==
    ASSUME NEW tp, NEW nx, NEW f, NEW g, f = Walk(f, tp, nx), g = Walk(g, tp, nx)
    PROVE  f = g
<1>1. \A i \in Nat : /\ f[i] = Walk(f, tp, nx)[i]
                    /\ g[i] = Walk(g, tp, nx)[i]
  OBVIOUS
<1>2. /\ f = [i \in Nat |-> f[i]]
      /\ g = [i \in Nat |-> g[i]]
  BY DEF Walk
<1>3. ASSUME f # g PROVE FALSE
  <2> DEFINE D == {i \in Nat : f[i] # g[i]}
  <2>1. D # {}
    BY <1>2, <1>3
  <2>2. PICK i \in D : \A j \in D : i <= j
    BY <2>1, LeastNat
  <2>3. i # 0
    BY <1>1, <2>2 DEF Walk
  <2>4. i - 1 \in Nat /\ f[i - 1] = g[i - 1]
    BY <2>2, <2>3
  <2>5. f[i] = g[i]
    BY <1>1, <2>2, <2>3, <2>4 DEF Walk
  <2> QED
    BY <2>2, <2>5
<1> QED
  BY <1>3

\* So Link, Depth and Chain of the model are the nodes of the invariant.
LEMMA ChainShape ==
    \A b \in [Nat -> Pointer], d \in Nat :
        Shape(b, d) => Depth = d /\ Chain = [i \in 1..d |-> b[d + 1 - i]]
<1> SUFFICES ASSUME NEW b \in [Nat -> Pointer], NEW d \in Nat, Shape(b, d)
             PROVE  Depth = d /\ Chain = [i \in 1..d |-> b[d + 1 - i]]
  OBVIOUS
<1>1. Link = Down(b, d)
  <2>1. Down(b, d) = Walk(Down(b, d), top, next)
    BY DownIsWalk DEF Shape
  <2>2. Link = CHOOSE f : f = Walk(f, top, next)
    BY DEF Link, Walk
  <2>3. Link = Walk(Link, top, next)
    BY <2>1, <2>2
  <2> QED
    BY <2>1, <2>3, OneWalk
<1>2. IsFiniteSet(1..d) /\ Cardinality(1..d) = d /\ Cardinality(Node) \in Nat
  BY FiniteAssumption, FS_Interval, FS_CardinalityType
<1>3. d <= Cardinality(Node)
  <2> DEFINE f == [i \in 1..d |-> b[i]]
  <2>1. f \in Injection(1..d, Node)
    BY DEF Shape, Injection, IsInjective
  <2> HIDE DEF f
  <2> QED
    BY <1>2, <2>1, FiniteAssumption, FS_Injection
<1>4. {i \in 0..Cardinality(Node) : Link[i] # Null} = 0..d - 1
  <2>1. \A i \in 0..d - 1 : Link[i] # Null
    BY <1>1, NullAssumption DEF Shape, Down
  <2>2. \A i \in Nat : i >= d => Link[i] = Null
    BY <1>1 DEF Down
  <2> QED
    BY <1>2, <1>3, <2>1, <2>2
<1>5. Depth = d
  <2>1. Cardinality(0..d - 1) = d
    BY FS_Interval
  <2> QED
    BY <1>4, <2>1 DEF Depth
<1>6. \A i \in 1..d : Link[i - 1] = b[d + 1 - i]
  BY <1>1 DEF Down
<1> HIDE DEF Link
<1> QED
  BY <1>5, <1>6 DEF Chain

\* The nodes on the stack, as the range of Chain.
LEMMA ChainRange ==
    ASSUME NEW b \in [Nat -> Pointer], NEW d \in Nat, Shape(b, d)
    PROVE  \A m : m \in Range(Chain) <=> OnStack(b, d, m)
<1>1. Chain = [i \in 1..d |-> b[d + 1 - i]]
  BY ChainShape
<1>2. Range(Chain) = {b[d + 1 - i] : i \in 1..d}
  BY <1>1 DEF Range
<1>3. \A i \in 1..d : d + 1 - i \in 1..d /\ d + 1 - (d + 1 - i) = i
  OBVIOUS
<1>4. \A m : (\E i \in 1..d : b[d + 1 - i] = m) <=> OnStack(b, d, m)
  <2>1. ASSUME NEW i \in 1..d PROVE OnStack(b, d, b[d + 1 - i])
    BY <1>3 DEF OnStack
  <2>2. ASSUME NEW i \in 1..d PROVE \E j \in 1..d : b[d + 1 - j] = b[i]
    BY <1>3
  <2> QED
    BY <2>1, <2>2 DEF OnStack
<1> QED
  BY <1>2, <1>4

\* The nodes of a thread, as the range of Owned(t), in which none is twice.
LEMMA OwnedRange ==
    ASSUME TypeInv, NEW b \in [Nat -> Pointer], NEW d \in Nat, Good(b, d),
           NEW t \in Thread
    PROVE  /\ IsInjective(Owned(t))
           /\ \A m : m \in Range(Owned(t)) <=> m \in Node /\ Owns(t, m)
<1> DEFINE q == garbage[t]
           h == CASE Pushing(t) -> <<node[t]>> [] Popped(t) -> <<seen[t]>> [] OTHER -> <<>>
           r == h \o q
<1>1. q \in Seq(Node) /\ \A i, j \in 1..Len(q) : q[i] = q[j] => i = j
  BY DEF TypeInv, TypeOK, Good, Ownership
<1>2. h \in Seq(Node) /\ Len(h) \in 0..1
  BY DEF TypeInv, Pushing, Popped
<1>3. \A m : (\E i \in 1..Len(h) : h[i] = m)
                <=> (Pushing(t) /\ node[t] = m) \/ (Popped(t) /\ seen[t] = m)
  BY DEF Pushing, Popped
<1>4. \A m : (\E i \in 1..Len(q) : q[i] = m) <=> InGarbage(t, m)
  BY DEF InGarbage
<1>5. Owned(t) = r
  BY DEF Owned, Pushing, Popped
<1> HIDE DEF q, h
<1>6. /\ r \in Seq(Node) /\ Len(q) \in Nat /\ Len(r) = Len(h) + Len(q)
      /\ \A i \in 1..Len(r) : r[i] = IF i <= Len(h) THEN h[i] ELSE q[i - Len(h)]
      /\ DOMAIN r = 1..Len(r)
  BY <1>1, <1>2, ConcatProperties, LenProperties
<1> HIDE DEF r
<1>7. \A i \in 1..Len(h), j \in 1..Len(q) : h[i] # q[j]
  <2>1. /\ Pushing(t) => ~InGarbage(t, node[t])
        /\ Popped(t) => ~InGarbage(t, seen[t])
    BY DEF Good, Ownership
  <2> QED
    BY <1>3, <1>4, <2>1
<1>8. IsInjective(r)
  <2> SUFFICES ASSUME NEW i \in 1..Len(r), NEW j \in 1..Len(r), r[i] = r[j] PROVE i = j
    BY <1>6 DEF IsInjective
  <2>1. CASE i <= Len(h) /\ j <= Len(h)
    BY <1>2, <1>6, <2>1
  <2>2. CASE i <= Len(h) /\ j > Len(h)
    BY <1>2, <1>6, <1>7, <2>2
  <2>3. CASE i > Len(h) /\ j <= Len(h)
    BY <1>2, <1>6, <1>7, <2>3
  <2>4. CASE i > Len(h) /\ j > Len(h)
    <3>1. i - Len(h) \in 1..Len(q) /\ j - Len(h) \in 1..Len(q)
      BY <1>2, <1>6, <2>4
    <3>2. q[i - Len(h)] = q[j - Len(h)]
      BY <1>2, <1>6, <2>4
    <3>3. i - Len(h) = j - Len(h)
      BY <1>1, <3>1, <3>2
    <3> QED
      BY <1>2, <3>3
  <2> QED
    BY <1>2, <2>1, <2>2, <2>3, <2>4
<1>9. ASSUME NEW m
      PROVE  m \in Range(r) <=> (\E i \in 1..Len(h) : h[i] = m) \/ \E i \in 1..Len(q) : q[i] = m
  <2>1. m \in Range(r) <=> \E i \in 1..Len(r) : r[i] = m
    BY <1>6 DEF Range
  <2>2. ASSUME NEW i \in 1..Len(h) PROVE i \in 1..Len(r) /\ r[i] = h[i]
    BY <1>2, <1>6
  <2>3. ASSUME NEW i \in 1..Len(q)
        PROVE  i + Len(h) \in 1..Len(r) /\ r[i + Len(h)] = q[i]
    <3>1. /\ i + Len(h) \in 1..Len(r) /\ ~(i + Len(h) <= Len(h))
          /\ i + Len(h) - Len(h) = i
      BY <1>2, <1>6
    <3> QED
      BY <1>6, <3>1
  <2>4. ASSUME NEW i \in 1..Len(r)
        PROVE  \/ i \in 1..Len(h) /\ r[i] = h[i]
               \/ i - Len(h) \in 1..Len(q) /\ r[i] = q[i - Len(h)]
    <3>1. i \in Int /\ 1 <= i /\ i <= Len(h) + Len(q)
      BY <1>6
    <3>2. r[i] = IF i <= Len(h) THEN h[i] ELSE q[i - Len(h)]
      BY <1>6
    <3>3. CASE i <= Len(h)
      BY <1>2, <3>1, <3>2, <3>3
    <3>4. CASE ~(i <= Len(h))
      BY <1>2, <1>6, <3>1, <3>2, <3>4
    <3> QED
      BY <3>3, <3>4
  <2>5. (\E i \in 1..Len(r) : r[i] = m) =>
            (\E i \in 1..Len(h) : h[i] = m) \/ \E i \in 1..Len(q) : q[i] = m
    BY ONLY <2>4
  <2>6. (\E i \in 1..Len(h) : h[i] = m) => \E i \in 1..Len(r) : r[i] = m
    BY ONLY <2>2
  <2>7. (\E i \in 1..Len(q) : q[i] = m) => \E i \in 1..Len(r) : r[i] = m
    BY ONLY <2>3
  <2> QED
    BY <2>1, <2>5, <2>6, <2>7
<1>10. Range(r) \in SUBSET Node
  BY <1>6, RangeOfSeq
<1>11. \A m : m \in Range(r) <=> m \in Node /\ Owns(t, m)
  BY <1>3, <1>4, <1>9, <1>10 DEF Owns, Discards
<1> QED
  BY <1>5, <1>8, <1>11

\* No node is freed twice, pushed twice or lost, whatever the interleaving and
\* however many nodes and threads there are: the allocated nodes are those on the
\* stack and those of the threads, each in one place.
THEOREM NodesHaveOneOwner == Spec => []OneOwner
<1>1. StackInv => OneOwner
  <2> SUFFICES ASSUME StackInv PROVE OneOwner
    OBVIOUS
  <2>1. PICK b \in [Nat -> Pointer], d \in Nat : Good(b, d)
    BY DEF StackInv
  <2>2. \A m : m \in Range(Chain) <=> OnStack(b, d, m)
    BY <2>1, ChainRange DEF Good
  <2>3. \A t \in Thread : /\ IsInjective(Owned(t))
                          /\ \A m : m \in Range(Owned(t)) <=> m \in Node /\ Owns(t, m)
    BY <2>1, OwnedRange DEF StackInv
  <2>4. /\ \A t \in Thread, m \in Node : Owns(t, m) => ~OnStack(b, d, m)
        /\ \A t, u \in Thread, m \in Node : Owns(t, m) /\ Owns(u, m) => t = u
        /\ \A m \in Node : m \in allocated <=> OnStack(b, d, m) \/ \E t \in Thread : Owns(t, m)
    BY <2>1 DEF Good, Ownership
  <2>5. allocated \subseteq Node /\ \A m : OnStack(b, d, m) => m \in Node
    BY <2>1 DEF StackInv, TypeInv, TypeOK, Good, Shape, OnStack
  <2>6. allocated = Range(Chain) \cup UNION {Range(Owned(t)) : t \in Thread}
    <3>1. \A m : m \in allocated <=> \/ m \in Range(Chain)
                                     \/ \E t \in Thread : m \in Range(Owned(t))
      BY <2>2, <2>3, <2>4, <2>5
    <3> QED
      BY <3>1
  <2>7. \A t \in Thread : Range(Owned(t)) \cap Range(Chain) = {}
    BY <2>2, <2>3, <2>4
  <2>8. \A t, u \in Thread : t # u => Range(Owned(t)) \cap Range(Owned(u)) = {}
    BY <2>3, <2>4
  <2> QED
    BY <2>3, <2>6, <2>7, <2>8 DEF OneOwner
<1> QED
  BY <1>1, StackCorrect, PTL

\* A thread that has exited has no garbage, whatever the others still do: the drop
\* of a queue leaves it empty, and a thread without a queue put nothing into one.
\* When all have exited, everything popped is freed and no Pause is left.
THEOREM ExitReclaims == Spec => []ReclaimedAtExit
<1>1. StackInv => ReclaimedAtExit
  <2>1. ASSUME StackInv, NEW t \in Thread, pc[t] = "exited" PROVE garbage[t] = <<>>
    BY <2>1 DEF StackInv, TypeInv
  <2> SUFFICES ASSUME StackInv, \A t \in Thread : pc[t] = "exited"
               PROVE  allocated = Range(Chain) /\ pauseCount = 0
    BY <2>1 DEF ReclaimedAtExit
  <2>2. PICK b \in [Nat -> Pointer], d \in Nat : Good(b, d)
    BY DEF StackInv
  <2>3. \A m : m \in Range(Chain) <=> OnStack(b, d, m)
    BY <2>2, ChainRange DEF Good
  <2>4. \A t \in Thread, m \in Node : ~Owns(t, m)
    BY DEF StackInv, TypeInv, Owns, Discards, InGarbage, Pushing, Popped
  <2>5. allocated \subseteq Node /\ \A m : OnStack(b, d, m) => m \in Node
    BY <2>2 DEF StackInv, TypeInv, TypeOK, Good, Shape, OnStack
  <2>6. allocated = Range(Chain)
    BY <2>2, <2>3, <2>4, <2>5 DEF Good, Ownership
  <2>7. PausedThreads = {}
    BY DEF PausedThreads, Paused
  <2>8. pauseCount = 0
    BY <2>7, FS_EmptySet DEF StackInv, TypeInv
  <2> QED
    BY <2>6, <2>8
<1> QED
  BY <1>1, StackCorrect, PTL

(***************************************************************************)
(* Linearizability: every step is a step of AtomicStack or changes neither   *)
(* the abstract stack nor a call.                                            *)
(***************************************************************************)

\* The abstract stack, top first, of the nodes b[1] to b[d].
Contents(b, d) == [i \in 1..d |-> value[b[d + 1 - i]]]

StackBarIsContents == \A b \in [Nat -> Pointer], d \in Nat :
    Shape(b, d) => stackBar = Contents(b, d)

\* The values on the stack are those of the nodes of the invariant.
LEMMA StackBar == StackBarIsContents
<1> SUFFICES ASSUME NEW b \in [Nat -> Pointer], NEW d \in Nat, Shape(b, d)
             PROVE  stackBar = Contents(b, d)
  BY DEF StackBarIsContents
<1>1. Depth = d /\ Chain = [i \in 1..d |-> b[d + 1 - i]]
  BY ChainShape
<1> QED
  BY <1>1 DEF stackBar, Contents

\* The same after a step.
LEMMA StackBarNext == StackBarIsContents'
  BY StackBar, PTL

-----------------------------------------------------------------------------

\* A step of one thread leaves the locals of the others alone, and the values of
\* all nodes that are not its own or free.
LEMMA OthersKept ==
    ASSUME TypeInv, NEW b \in [Nat -> Pointer], NEW d \in Nat, Good(b, d),
           NEW t \in Thread, Step(t)
    PROVE  /\ \A u \in Thread : u # t =>
                /\ pc'[u] = pc[u] /\ node'[u] = node[u]
                /\ seen'[u] = seen[u] /\ result'[u] = result[u]
           /\ \A m \in Node : m \in allocated /\ ~Owns(t, m) => value'[m] = value[m]
<1> USE DEF TypeInv, TypeOK, Goto, shared, reclaim, local
<1>1. ASSUME NEW n \in Node, NEW v \in Value, CallPush(t, n, v)
      PROVE  /\ \A u \in Thread : u # t =>
                  /\ pc'[u] = pc[u] /\ node'[u] = node[u]
                  /\ seen'[u] = seen[u] /\ result'[u] = result[u]
             /\ \A m \in Node : m \in allocated => value'[m] = value[m]
  BY <1>1 DEF CallPush
<1>2. ASSUME Take(t)
      PROVE  /\ \A u \in Thread : u # t =>
                  /\ pc'[u] = pc[u] /\ node'[u] = node[u]
                  /\ seen'[u] = seen[u] /\ result'[u] = result[u]
             /\ \A m \in Node : ~Owns(t, m) => value'[m] = value[m]
  BY <1>2 DEF Take, Owns, Discards, Popped
<1>3. ASSUME DeleteOne(t)
      PROVE  /\ UNCHANGED <<pc, node, seen, result>>
             /\ \A m \in Node : ~Owns(t, m) => value'[m] = value[m]
  <2>1. garbage[t] \in Seq(Node) /\ garbage[t] # <<>>
    BY <1>3 DEF DeleteOne
  <2>2. Head(garbage[t]) \in Node /\ InGarbage(t, Head(garbage[t]))
    BY <2>1, TailOne DEF Good, Ownership, InGarbage
  <2>3. Owns(t, Head(garbage[t]))
    BY <2>2 DEF Owns, Discards
  <2> QED
    BY <1>3, <2>2, <2>3 DEF DeleteOne
<1>4. ASSUME Quiet(t) PROVE  /\ \A u \in Thread : u # t =>
                                  /\ pc'[u] = pc[u] /\ node'[u] = node[u]
                                  /\ seen'[u] = seen[u] /\ result'[u] = result[u]
                             /\ UNCHANGED value
  BY <1>4 DEF Quiet, PushReturn, CallPop, Pause, Resume, AddCheck, PopReturn, DeleteDone,
              Exit, ExitWait
<1>5. ASSUME PushLoad(t) \/ PushCAS(t) \/ PopLoad(t) \/ PopNext(t) \/ PopCAS(t)
      PROVE  /\ \A u \in Thread : u # t =>
                  /\ pc'[u] = pc[u] /\ node'[u] = node[u]
                  /\ seen'[u] = seen[u] /\ result'[u] = result[u]
             /\ UNCHANGED value
  BY <1>5 DEF PushLoad, PushCAS, PopLoad, PopNext, PopCAS
<1> QED
  BY <1>1, <1>2, <1>3, <1>4, <1>5 DEF Step, Quiet

\* So the calls of the others are what they were, and so are the values that were
\* on the stack.
LEMMA OthersCalls ==
    ASSUME TypeInv, NEW b \in [Nat -> Pointer], NEW d \in Nat, Good(b, d),
           NEW t \in Thread, Step(t)
    PROVE  /\ \A u \in Thread : u # t => callBar'[u] = callBar[u]
           /\ \A i \in 1..d : value'[b[i]] = value[b[i]]
<1>1. /\ \A u \in Thread : u # t =>
            /\ pc'[u] = pc[u] /\ node'[u] = node[u]
            /\ seen'[u] = seen[u] /\ result'[u] = result[u]
      /\ \A m \in Node : m \in allocated /\ ~Owns(t, m) => value'[m] = value[m]
  BY OthersKept
<1>2. ASSUME NEW u \in Thread, u # t PROVE callBar'[u] = callBar[u]
  <2>1. ASSUME Pushing(u) PROVE value'[node[u]] = value[node[u]]
    <3>1. node[u] \in Node /\ Owns(u, node[u])
      BY <2>1 DEF TypeInv, Owns
    <3> QED
      BY <1>1, <1>2, <3>1 DEF Good, Ownership
  <2>2. ASSUME Popped(u) PROVE value'[seen[u]] = value[seen[u]]
    <3>1. seen[u] \in Node /\ Owns(u, seen[u])
      BY <2>2 DEF TypeInv, Owns, Discards
    <3> QED
      BY <1>1, <1>2, <3>1 DEF Good, Ownership
  <2> QED
    BY <1>1, <1>2, <2>1, <2>2 DEF callBar, Pushing, Popped, Returning
<1>3. ASSUME NEW i \in 1..d PROVE value'[b[i]] = value[b[i]]
  <2>1. b[i] \in Node /\ OnStack(b, d, b[i])
    BY DEF Good, Shape, OnStack
  <2> QED
    BY <1>1, <2>1 DEF Good, Ownership
<1> QED
  BY <1>2, <1>3

\* If the nodes on the stack are the same after a step, so are the values.
LEMMA SameStack ==
    ASSUME TypeInv, NEW b \in [Nat -> Pointer], NEW d \in Nat, Good(b, d), Good(b, d)',
           NEW t \in Thread, Step(t)
    PROVE  stackBar' = stackBar
<1>1. stackBar = Contents(b, d) /\ stackBar' = Contents(b, d)'
  BY StackBar, StackBarNext DEF StackBarIsContents, Good
<1>2. \A i \in 1..d : value'[b[i]] = value[b[i]]
  BY OthersCalls
<1>3. \A i \in 1..d : value'[b[d + 1 - i]] = value[b[d + 1 - i]]
  BY <1>2
<1> QED
  BY <1>1, <1>3 DEF Contents

-----------------------------------------------------------------------------

\* A step of t that changes its call from one value to another and no other call.
LEMMA BecomeStep ==
    ASSUME NEW t \in Thread, NEW from, NEW to,
           callBar[t] = from, callBar'[t] = to,
           \A u \in Thread : u # t => callBar'[u] = callBar[u]
    PROVE  Atomic!Become(t, from, to)
<1>1. callBar' = [callBar EXCEPT ![t] = to]
  <2>1. DOMAIN callBar = Thread
    BY DEF callBar
  <2>2. callBar' = [u \in Thread |-> callBar'[u]]
    BY DEF callBar
  <2> QED
    BY <2>1, <2>2
<1> QED
  BY <1>1 DEF Atomic!Become

\* A step of t that leaves its call alone leaves all of them.
LEMMA CallKept ==
    ASSUME NEW t \in Thread, callBar'[t] = callBar[t],
           \A u \in Thread : u # t => callBar'[u] = callBar[u]
    PROVE  callBar' = callBar
BY DEF callBar

\* The steps at which no operation begins, takes effect or returns.
LEMMA SilentStep ==
    ASSUME StackInv, NEW t \in Thread, Step(t),
           \/ PushLoad(t) \/ Pause(t) \/ PopNext(t) \/ Resume(t) \/ Take(t) \/ AddCheck(t)
           \/ DeleteOne(t) \/ DeleteDone(t) \/ Exit(t) \/ ExitWait(t)
           \/ PopLoad(t) /\ top # Null
           \/ (PushCAS(t) \/ PopCAS(t)) /\ top # seen[t]
    PROVE  UNCHANGED Atomic!vars
<1>1. TypeInv
  BY DEF StackInv
<1>2. PICK b \in [Nat -> Pointer], d \in Nat : Good(b, d)
  BY DEF StackInv
<1>3. Good(b, d)'
  BY <1>1, <1>2, QuietStep, PushLoadStep, PopNextStep, TakeStep, DeleteOneStep,
     PopLoadStep, FailedCASStep DEF Quiet
<1>4. stackBar' = stackBar
  BY <1>1, <1>2, <1>3, SameStack
<1>5. callBar'[t] = callBar[t]
  <2> USE DEF callBar, Returning, Goto
  <2>1. CASE PushLoad(t) \/ (PushCAS(t) /\ top # seen[t])
    BY <1>1, <2>1 DEF PushLoad, PushCAS, local, TypeInv
  <2>2. CASE \/ Pause(t) \/ PopNext(t)
             \/ PopLoad(t) /\ top # Null
             \/ PopCAS(t) /\ top # seen[t]
    BY <1>1, <2>2 DEF Pause, PopNext, PopLoad, PopCAS, TypeInv
  <2>3. CASE Resume(t)
    BY <1>1, <2>3 DEF Resume, shared, local, TypeInv
  <2>4. CASE Take(t)
    BY <1>1, <2>4 DEF Take, TypeInv, TypeOK
  <2>5. CASE DeleteOne(t)
    BY <1>1, <2>5 DEF DeleteOne, local, TypeInv
  <2>6. CASE AddCheck(t) \/ DeleteDone(t) \/ Exit(t) \/ ExitWait(t)
    BY <1>1, <2>6 DEF AddCheck, DeleteDone, Exit, ExitWait, local, TypeInv
  <2> HIDE DEF callBar, Returning, Goto
  <2> QED
    BY <2>1, <2>2, <2>3, <2>4, <2>5, <2>6
<1>6. callBar' = callBar
  BY <1>1, <1>2, <1>5, OthersCalls, CallKept
<1> QED
  BY <1>4, <1>6 DEF Atomic!vars

\* push() and pop() begin.
LEMMA CallStep ==
    ASSUME StackInv, NEW t \in Thread, Step(t),
           CallPop(t) \/ \E n \in Node, v \in Value : CallPush(t, n, v)
    PROVE  Atomic!CallPush(t) \/ Atomic!CallPop(t)
<1>1. TypeInv
  BY DEF StackInv
<1>2. PICK b \in [Nat -> Pointer], d \in Nat : Good(b, d)
  BY DEF StackInv
<1>3. \A u \in Thread : u # t => callBar'[u] = callBar[u]
  BY <1>1, <1>2, OthersCalls
<1>4. CASE CallPop(t)
  <2>1. Good(b, d)'
    BY <1>1, <1>2, <1>4, QuietStep DEF Quiet
  <2>2. stackBar' = stackBar
    BY <1>1, <1>2, <2>1, SameStack
  <2>3. callBar[t] = Atomic!Idle /\ callBar'[t] = Atomic!Popping
    BY <1>1, <1>4 DEF CallPop, Goto, TypeInv, callBar, Atomic!Idle, Atomic!Popping
  <2> QED
    BY <1>3, <2>2, <2>3, BecomeStep DEF Atomic!CallPop
<1>5. ASSUME NEW n \in Node, NEW v \in Value, CallPush(t, n, v)
      PROVE  Atomic!CallPush(t)
  <2>1. Good(b, d)'
    BY <1>1, <1>2, <1>5, CallPushStep
  <2>2. stackBar' = stackBar
    BY <1>1, <1>2, <2>1, SameStack
  <2>3. callBar[t] = Atomic!Idle
    BY <1>5 DEF CallPush, Goto, callBar, Atomic!Idle
  <2>4. pc'[t] = "push_load" /\ node'[t] = n /\ value'[n] = v
    BY <1>1, <1>5 DEF CallPush, Goto, TypeInv, TypeOK
  <2>5. callBar'[t] = Atomic!Pushing(v)
    BY <2>4 DEF callBar, Atomic!Pushing
  <2> QED
    BY <1>3, <2>2, <2>3, <2>5, BecomeStep DEF Atomic!CallPush
<1> QED
  BY <1>4, <1>5

\* They return what the abstract operation returned.
LEMMA ReturnStep ==
    ASSUME StackInv, NEW t \in Thread, Step(t), PushReturn(t) \/ PopReturn(t)
    PROVE  Atomic!Return(t)
<1>1. TypeInv
  BY DEF StackInv
<1>2. PICK b \in [Nat -> Pointer], d \in Nat : Good(b, d)
  BY DEF StackInv
<1>3. \A u \in Thread : u # t => callBar'[u] = callBar[u]
  BY <1>1, <1>2, OthersCalls
<1>4. Good(b, d)'
  BY <1>1, <1>2, QuietStep DEF Quiet
<1>5. stackBar' = stackBar
  BY <1>1, <1>2, <1>4, SameStack
<1>6. callBar'[t] = Atomic!Idle
  BY <1>1 DEF PushReturn, PopReturn, Goto, TypeInv, callBar, Atomic!Idle
<1>7. CASE PushReturn(t)
  <2>1. callBar[t] = Atomic!Pushed
    BY <1>7 DEF PushReturn, Goto, callBar, Atomic!Pushed
  <2> QED
    BY <1>3, <1>5, <1>6, <2>1, BecomeStep DEF Atomic!Return
<1>8. CASE PopReturn(t)
  <2>1. callBar[t] = Returning(result[t])
    BY <1>8 DEF PopReturn, Goto, callBar
  <2>2. CASE result[t] = Null
    <3>1. callBar[t] = Atomic!PoppedNone
      BY <2>1, <2>2 DEF Returning, Atomic!PoppedNone
    <3> QED
      BY <1>3, <1>5, <1>6, <3>1, BecomeStep DEF Atomic!Return
  <2>3. CASE result[t] # Null
    <3>1. result[t] \in Value
      BY <1>1, <2>3 DEF TypeInv, TypeOK
    <3>2. callBar[t] = Atomic!Popped(result[t])
      BY <2>1, <2>3 DEF Returning, Atomic!Popped
    <3> QED
      BY <1>3, <1>5, <1>6, <3>1, <3>2, BecomeStep DEF Atomic!Return
  <2> QED
    BY <2>2, <2>3
<1> QED
  BY <1>7, <1>8

\* pop() returns None when the stack is empty as it reads null.
LEMMA PopNoneStep ==
    ASSUME StackInv, NEW t \in Thread, Step(t), PopLoad(t), top = Null
    PROVE  Atomic!PopNone(t)
<1>1. TypeInv
  BY DEF StackInv
<1>2. PICK b \in [Nat -> Pointer], d \in Nat : Good(b, d)
  BY DEF StackInv
<1>3. \A u \in Thread : u # t => callBar'[u] = callBar[u]
  BY <1>1, <1>2, OthersCalls
<1>4. Good(b, d)'
  BY <1>1, <1>2, PopLoadStep
<1>5. stackBar' = stackBar
  BY <1>1, <1>2, <1>4, SameStack
<1>6. stackBar = <<>>
  <2>1. d = 0
    BY <1>2, NullAssumption DEF Good, Shape
  <2>2. stackBar = Contents(b, 0)
    BY <1>2, <2>1, StackBar DEF StackBarIsContents, Good
  <2> QED
    BY <2>2 DEF Contents
<1>7. callBar[t] = Atomic!Popping
  BY DEF PopLoad, Goto, callBar, Atomic!Popping
<1>8. pc'[t] = "pop_resume_none" /\ result'[t] = Null
  BY <1>1, <1>2 DEF PopLoad, Goto, TypeInv, Good, Values
<1>9. callBar'[t] = Atomic!PoppedNone
  BY <1>8 DEF callBar, Returning, Atomic!PoppedNone
<1> QED
  BY <1>3, <1>5, <1>6, <1>7, <1>9, BecomeStep DEF Atomic!PopNone

\* A push takes effect when its compare-and-swap succeeds.
LEMMA PushEffect ==
    ASSUME StackInv, NEW t \in Thread, Step(t), PushCAS(t), top = seen[t]
    PROVE  Atomic!Push(t)
<1>1. TypeInv
  BY DEF StackInv
<1>2. PICK b \in [Nat -> Pointer], d \in Nat : Good(b, d)
  BY DEF StackInv
<1>3. /\ \A u \in Thread : u # t => callBar'[u] = callBar[u]
      /\ \A i \in 1..d : value'[b[i]] = value[b[i]]
  BY <1>1, <1>2, OthersCalls
<1>4. PICK n \in Node : n = node[t]
  BY <1>1 DEF PushCAS, Goto, TypeInv, Pushing
<1> DEFINE c == [b EXCEPT ![d + 1] = n]
           v == value[n]
<1>5. c \in [Nat -> Pointer] /\ Good(c, d + 1)'
  BY <1>1, <1>2, <1>4, PushedStep
<1>6. pc[t] = "push_cas" /\ pc'[t] = "push_return" /\ UNCHANGED value
  BY <1>1 DEF PushCAS, Goto, TypeInv
<1>7. v \in Value /\ callBar[t] = Atomic!Pushing(v) /\ callBar'[t] = Atomic!Pushed
  BY <1>2, <1>4, <1>6
     DEF Good, Values, Pushing, callBar, Atomic!Pushing, Atomic!Pushed
<1>8. stackBar = Contents(b, d) /\ stackBar' = Contents(c, d + 1)'
  <2>1. d + 1 \in Nat
    OBVIOUS
  <2> HIDE DEF c
  <2> QED
    BY <1>2, <1>5, <2>1, StackBar, StackBarNext DEF StackBarIsContents, Good
<1>9. stackBar' = <<v>> \o stackBar
  <2>1. Contents(b, d) \in Seq(Value) /\ Len(Contents(b, d)) = d
    BY <1>2 DEF Contents, Good, Values
  <2>2. c[d + 1] = n /\ \A i \in 1..d : c[i] = b[i]
    BY DEF Pointer
  <2>3. Contents(c, d + 1)' = [i \in 1..d + 1 |-> value[c[d + 2 - i]]]
    BY <1>4, <1>6 DEF Contents
  <2> HIDE DEF c
  <2> DEFINE s == Contents(b, d)
             r == Contents(c, d + 1)'
  <2>4. /\ s \in Seq(Value) /\ Len(s) = d
        /\ \A i \in 1..d : s[i] = value[b[d + 1 - i]]
    BY <2>1 DEF Contents
  <2>5. /\ r = [i \in 1..d + 1 |-> IF i = 1 THEN v ELSE s[i - 1]]
    <3>1. ASSUME NEW i \in 1..d + 1
          PROVE  value[c[d + 2 - i]] = IF i = 1 THEN v ELSE s[i - 1]
      <4>1. CASE i = 1
        BY <2>2, <4>1
      <4>2. CASE i # 1
        <5>1. d + 2 - i \in 1..d /\ i - 1 \in 1..d /\ d + 1 - (i - 1) = d + 2 - i
          BY <4>2
        <5>2. c[d + 2 - i] = b[d + 2 - i] /\ s[i - 1] = value[b[d + 2 - i]]
          BY <2>2, <2>4, <5>1
        <5> QED
          BY <4>2, <5>2
      <4> QED
        BY <4>1, <4>2
    <3> QED
      BY <2>3, <3>1
  <2> HIDE DEF s, r, v
  <2>6. r = <<v>> \o s
    <3>1. /\ <<v>> \in Seq(Value) /\ Len(<<v>>) = 1
          /\ <<v>>[1] = v
      BY <1>7
    <3>2. /\ <<v>> \o s \in Seq(Value) /\ Len(<<v>> \o s) = d + 1
          /\ \A i \in 1..d + 1 : (<<v>> \o s)[i] = IF i <= 1 THEN <<v>>[i] ELSE s[i - 1]
      BY <2>4, <3>1, ConcatProperties
    <3>3. r \in Seq(Value) /\ Len(r) = d + 1
      BY <1>7, <2>4, <2>5
    <3>4. \A i \in 1..d + 1 : r[i] = (<<v>> \o s)[i]
      BY <2>5, <3>1, <3>2
    <3> QED
      BY <3>2, <3>3, <3>4, SeqEqual
  <2> QED
    BY <1>8, <2>6 DEF s, r
<1> QED
  BY <1>3, <1>7, <1>9, BecomeStep DEF Atomic!Push

\* A pop takes effect when its compare-and-swap succeeds: the value it will take
\* out of the node is the one on top of the abstract stack.
LEMMA PopEffect ==
    ASSUME StackInv, NEW t \in Thread, Step(t), PopCAS(t), top = seen[t]
    PROVE  Atomic!Pop(t)
<1>1. TypeInv
  BY DEF StackInv
<1>2. PICK b \in [Nat -> Pointer], d \in Nat : Good(b, d)
  BY DEF StackInv
<1>3. \A u \in Thread : u # t => callBar'[u] = callBar[u]
  BY <1>1, <1>2, OthersCalls
<1>4. d \in Nat \ {0} /\ d - 1 \in Nat /\ Good(b, d - 1)'
  BY <1>1, <1>2, PoppedStep
<1> DEFINE v == value[b[d]]
<1>5. /\ pc[t] = "pop_cas" /\ pc'[t] = "pop_resume_some"
      /\ UNCHANGED <<value, seen>> /\ b[d] = seen[t]
  BY <1>1, <1>2 DEF PopCAS, Goto, TypeInv, local, Good, Shape
<1>6. v \in Value
  BY <1>2, <1>4 DEF Good, Values
<1>7. callBar[t] = Atomic!Popping
  BY <1>5 DEF callBar, Atomic!Popping
<1>8. callBar'[t] = Atomic!Popped(v)
  BY <1>5, <1>6, NullAssumption DEF callBar, Returning, Atomic!Popped
<1>9. stackBar = Contents(b, d) /\ stackBar' = Contents(b, d - 1)'
  BY <1>2, <1>4, StackBar, StackBarNext DEF StackBarIsContents, Good
<1> DEFINE s == Contents(b, d)
           r == Contents(b, d - 1)'
<1>10. /\ s \in Seq(Value) /\ Len(s) = d
       /\ \A i \in 1..d : s[i] = value[b[d + 1 - i]]
  BY <1>2 DEF Contents, Good, Values
<1>11. /\ r \in Seq(Value) /\ Len(r) = d - 1
       /\ \A i \in 1..d - 1 : r[i] = value[b[d - i]]
  <2>1. r = [i \in 1..d - 1 |-> value[b[d - 1 + 1 - i]]]
    BY <1>5 DEF Contents
  <2>2. \A i \in 1..d - 1 : d - i \in 1..d /\ d - 1 + 1 - i = d - i
    BY <1>4
  <2>3. \A i \in 1..d - 1 : value[b[d - i]] \in Value
    BY <1>2, <2>2 DEF Good, Values
  <2> QED
    BY <1>4, <2>1, <2>2, <2>3
<1> HIDE DEF s, r
<1>12. s # <<>> /\ Head(s) = v
  BY <1>4, <1>10
<1>13. r = Tail(s)
  <2>1. /\ Tail(s) \in Seq(Value) /\ Len(Tail(s)) = d - 1
        /\ \A i \in 1..d - 1 : Tail(s)[i] = s[i + 1]
    BY <1>10, <1>12, HeadTailProperties
  <2>2. ASSUME NEW i \in 1..d - 1 PROVE r[i] = Tail(s)[i]
    <3>1. i + 1 \in 1..d /\ d + 1 - (i + 1) = d - i
      BY <1>4
    <3> QED
      BY <1>10, <1>11, <2>1, <3>1
  <2> QED
    BY <1>11, <2>1, <2>2, SeqEqual
<1>14. stackBar = s /\ stackBar' = r
  BY <1>9 DEF s, r
<1>15. Atomic!Become(t, Atomic!Popping, Atomic!Popped(Head(stackBar)))
  BY <1>3, <1>7, <1>8, <1>12, <1>14, BecomeStep
<1> QED
  BY <1>12, <1>13, <1>14, <1>15 DEF Atomic!Pop

-----------------------------------------------------------------------------

\* The initial states are those of an empty stack that nobody uses.
LEMMA InitAtomic == Init => Atomic!Init
<1> SUFFICES ASSUME Init PROVE Atomic!Init
  OBVIOUS
<1>1. stackBar = <<>>
  <2> DEFINE b == [i \in Nat |-> Null]
  <2>1. b \in [Nat -> Pointer] /\ Shape(b, 0)
    BY DEF Pointer, Shape, Init
  <2>2. stackBar = Contents(b, 0)
    BY <2>1, StackBar DEF StackBarIsContents
  <2> QED
    BY <2>2 DEF Contents
<1>2. callBar = [t \in Thread |-> Atomic!Idle]
  BY DEF Init, callBar, Atomic!Idle
<1> QED
  BY <1>1, <1>2 DEF Atomic!Init

\* Every step is a step of the abstract stack or a stutter.
LEMMA AtomicStep == StackInv /\ [Next]_vars => [Atomic!Next]_(Atomic!vars)
<1> SUFFICES ASSUME StackInv, [Next]_vars PROVE [Atomic!Next]_(Atomic!vars)
  OBVIOUS
<1>1. ASSUME NEW t \in Thread, Step(t)
      PROVE  \/ UNCHANGED Atomic!vars
             \/ Atomic!CallPush(t) \/ Atomic!CallPop(t)
             \/ Atomic!Push(t) \/ Atomic!Pop(t) \/ Atomic!PopNone(t) \/ Atomic!Return(t)
  <2>1. CASE \/ PushLoad(t) \/ Pause(t) \/ PopNext(t) \/ Resume(t) \/ Take(t) \/ AddCheck(t)
             \/ DeleteOne(t) \/ DeleteDone(t) \/ Exit(t) \/ ExitWait(t)
             \/ PopLoad(t) /\ top # Null
             \/ (PushCAS(t) \/ PopCAS(t)) /\ top # seen[t]
    BY <1>1, <2>1, SilentStep
  <2>2. CASE CallPop(t) \/ \E n \in Node, v \in Value : CallPush(t, n, v)
    BY <1>1, <2>2, CallStep
  <2>3. CASE PushReturn(t) \/ PopReturn(t)
    BY <1>1, <2>3, ReturnStep
  <2>4. CASE PopLoad(t) /\ top = Null
    BY <1>1, <2>4, PopNoneStep
  <2>5. CASE PushCAS(t) /\ top = seen[t]
    BY <1>1, <2>5, PushEffect
  <2>6. CASE PopCAS(t) /\ top = seen[t]
    BY <1>1, <2>6, PopEffect
  <2> QED
    BY <1>1, <2>1, <2>2, <2>3, <2>4, <2>5, <2>6 DEF Step
<1>2. CASE UNCHANGED vars
  BY <1>2 DEF vars, shared, reclaim, local, Atomic!vars, stackBar, callBar, Returning,
              Depth, Chain, Link
<1> QED
  BY <1>1, <1>2 DEF Next, Atomic!Next

\* push() and pop() are linearizable for any number of threads and nodes: no value
\* is lost, popped twice or reordered, and pop() returns None only if the stack was
\* empty at some moment of the call.
THEOREM StackIsLinearizable == Spec => Linearizable
<1> QED
  BY InitAtomic, AtomicStep, StackCorrect, PTL DEF Spec, Linearizable, Atomic!Spec

=============================================================================
