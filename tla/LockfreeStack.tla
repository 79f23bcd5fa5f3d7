--------------------------- MODULE LockfreeStack ----------------------------
(***************************************************************************)
(* LockfreeStack/src: Treiber's stack (stack.rs) and the deferred          *)
(* reclamation of popped nodes (garbage_queue.rs).  Each thread performs   *)
(* MaxOps pushes and pops and exits, which drops its garbage queue.  One   *)
(* step is one access to memory that threads share.  Node addresses are    *)
(* reused as soon as they are freed, as an allocator may do.               *)
(***************************************************************************)
EXTENDS Naturals, Sequences, FiniteSets, SequencesExt

CONSTANTS Thread,       \* the threads that share the stack
          Node,         \* the addresses the allocator hands out
          Value,        \* the values pushed
          Null,         \* the null pointer
          MaxOps        \* operations per thread

ASSUME NullAssumption == Null \notin Node \cup Value
ASSUME MaxOpsAssumption == MaxOps \in Nat
ASSUME FiniteAssumption == IsFiniteSet(Thread) /\ IsFiniteSet(Node)

VARIABLES top,          \* Stack.top
          next, value,  \* the fields of each node
          allocated,    \* the addresses that are not free
          pauseCount,   \* PAUSE_COUNT
          garbage,      \* GARBAGE_QUEUE of each thread
          registered,   \* the threads whose GARBAGE_QUEUE was ever used
          pc,           \* where each thread is
          node,         \* the local new_node of push
          seen,         \* the local top of push and pop
          seenNext,     \* the local next of pop
          result,       \* the local value of pop
          ops           \* operations each thread has begun

shared == <<top, next, value, allocated>>
reclaim == <<pauseCount, garbage, registered>>
local == <<node, seen, seenNext, result, ops>>
vars == <<shared, reclaim, local, pc>>

Init == /\ top = Null
        /\ next = [n \in Node |-> Null]
        /\ value = [n \in Node |-> Null]
        /\ allocated = {}
        /\ pauseCount = 0
        /\ garbage = [t \in Thread |-> <<>>]
        /\ registered = {}
        /\ pc = [t \in Thread |-> "idle"]
        /\ node = [t \in Thread |-> Null]
        /\ seen = [t \in Thread |-> Null]
        /\ seenNext = [t \in Thread |-> Null]
        /\ result = [t \in Thread |-> Null]
        /\ ops = [t \in Thread |-> 0]

Goto(t, from, to) == /\ pc[t] = from
                     /\ pc' = [pc EXCEPT ![t] = to]

(***************************************************************************)
(* push(value)                                                             *)
(***************************************************************************)

CallPush(t, n, v) == /\ ops[t] < MaxOps
                     /\ n \notin allocated
                     /\ Goto(t, "idle", "push_load")
                     /\ allocated' = allocated \cup {n}
                     /\ value' = [value EXCEPT ![n] = v]
                     /\ next' = [next EXCEPT ![n] = Null]
                     /\ node' = [node EXCEPT ![t] = n]
                     /\ ops' = [ops EXCEPT ![t] = @ + 1]
                     /\ UNCHANGED <<top, reclaim, seen, seenNext, result>>

\* Nobody else knows the new node yet: linking it is part of the load.
PushLoad(t) == /\ Goto(t, "push_load", "push_cas")
               /\ seen' = [seen EXCEPT ![t] = top]
               /\ next' = [next EXCEPT ![node[t]] = top]
               /\ UNCHANGED <<top, value, allocated, reclaim, node, seenNext, result, ops>>

\* Mutant: a store of the new node instead of the compare-and-swap.
PushCAS_Store(t) == /\ Goto(t, "push_cas", "push_return")
                    /\ top' = node[t]
                    /\ UNCHANGED <<next, value, allocated, reclaim, local>>

PushCAS(t) == /\ IF top = seen[t]
                 THEN Goto(t, "push_cas", "push_return") /\ top' = node[t]
                 ELSE Goto(t, "push_cas", "push_load") /\ UNCHANGED top
              /\ UNCHANGED <<next, value, allocated, reclaim, local>>

PushReturn(t) == /\ Goto(t, "push_return", "idle")
                 /\ node' = [node EXCEPT ![t] = Null]
                 /\ seen' = [seen EXCEPT ![t] = Null]
                 /\ UNCHANGED <<shared, reclaim, seenNext, result, ops>>

(***************************************************************************)
(* pop()                                                                   *)
(***************************************************************************)

CallPop(t) == /\ ops[t] < MaxOps
              /\ Goto(t, "idle", "pop_pause")
              /\ ops' = [ops EXCEPT ![t] = @ + 1]
              /\ UNCHANGED <<shared, reclaim, node, seen, seenNext, result>>

\* Pause::new()
Pause(t) == /\ Goto(t, "pop_pause", "pop_load")
            /\ pauseCount' = pauseCount + 1
            /\ UNCHANGED <<shared, local, garbage, registered>>

PopLoad(t) == /\ IF top = Null THEN Goto(t, "pop_load", "pop_resume_none")
                               ELSE Goto(t, "pop_load", "pop_next")
              /\ seen' = [seen EXCEPT ![t] = top]
              /\ UNCHANGED <<shared, reclaim, node, seenNext, result, ops>>

\* (*top).next
PopNext(t) == /\ Goto(t, "pop_next", "pop_cas")
              /\ seenNext' = [seenNext EXCEPT ![t] = next[seen[t]]]
              /\ UNCHANGED <<shared, reclaim, node, seen, result, ops>>

PopCAS(t) == /\ IF top = seen[t]
                THEN Goto(t, "pop_cas", "pop_resume_some") /\ top' = seenNext[t]
                ELSE Goto(t, "pop_cas", "pop_resume_retry") /\ UNCHANGED top
             /\ UNCHANGED <<next, value, allocated, reclaim, local>>

\* Mutant: "return None" skips the drop of _pause.
Resume_LeakOnNone(t) ==
    /\ \/ /\ Goto(t, "pop_resume_none", "pop_return")
          /\ UNCHANGED pauseCount
       \/ /\ \/ Goto(t, "pop_resume_some", "pop_take")
             \/ Goto(t, "pop_resume_retry", "pop_pause")
          /\ pauseCount' = pauseCount - 1
    /\ UNCHANGED <<shared, local, garbage, registered>>

\* The drop of _pause, and what follows it: return None, the if let, or the
\* next iteration of the loop.
Resume(t) == /\ \/ Goto(t, "pop_resume_none", "pop_return")
                \/ Goto(t, "pop_resume_some", "pop_take")
                \/ Goto(t, "pop_resume_retry", "pop_pause")
             /\ pauseCount' = pauseCount - 1
             /\ UNCHANGED <<shared, local, garbage, registered>>

\* The value is moved out, leaving the node without one, and add() appends the
\* node to the thread's queue: both belong to this thread alone.
Take(t) == /\ Goto(t, "pop_take", "add_check")
           /\ garbage' = [garbage EXCEPT ![t] = Append(@, seen[t])]
           /\ registered' = registered \cup {t}
           /\ result' = [result EXCEPT ![t] = value[seen[t]]]
           /\ value' = [value EXCEPT ![seen[t]] = Null]
           /\ UNCHANGED <<top, next, allocated, pauseCount, node, seen, seenNext, ops>>

\* Mutant: add() deletes without looking at PAUSE_COUNT.
AddCheck_Eager(t) == /\ Goto(t, "add_check", "add_delete")
                     /\ UNCHANGED <<shared, reclaim, local>>

AddCheck(t) == /\ IF pauseCount = 0 THEN Goto(t, "add_check", "add_delete")
                                    ELSE Goto(t, "add_check", "pop_return")
               /\ UNCHANGED <<shared, reclaim, local>>

PopReturn(t) == /\ Goto(t, "pop_return", "idle")
                /\ seen' = [seen EXCEPT ![t] = Null]
                /\ seenNext' = [seenNext EXCEPT ![t] = Null]
                /\ result' = [result EXCEPT ![t] = Null]
                /\ UNCHANGED <<shared, reclaim, node, ops>>

(***************************************************************************)
(* GarbageQueue::delete(), called by add() and by the drop of the queue    *)
(***************************************************************************)

\* The fields of a freed node are cleared: nobody may look at them again.
DeleteOne(t) == LET n == Head(garbage[t]) IN
    /\ pc[t] \in {"add_delete", "exit_delete"}
    /\ garbage[t] # <<>>
    /\ garbage' = [garbage EXCEPT ![t] = Tail(@)]
    /\ allocated' = allocated \ {n}
    /\ next' = [next EXCEPT ![n] = Null]
    /\ value' = [value EXCEPT ![n] = Null]
    /\ UNCHANGED <<top, pauseCount, registered, local, pc>>

DeleteDone(t) == /\ garbage[t] = <<>>
                 /\ \/ Goto(t, "add_delete", "pop_return")
                    \/ Goto(t, "exit_delete", "exited")
                 /\ UNCHANGED <<shared, reclaim, local>>

\* Mutant: the queue has no Drop, the thread just goes.
Exit_NoDrop(t) == /\ ops[t] = MaxOps
                  /\ Goto(t, "idle", "exited")
                  /\ UNCHANGED <<shared, reclaim, local>>

\* The end of the thread drops its queue, if it ever used one.
Exit(t) == /\ ops[t] = MaxOps
           /\ IF t \in registered THEN Goto(t, "idle", "exit_wait")
                                  ELSE Goto(t, "idle", "exited")
           /\ UNCHANGED <<shared, reclaim, local>>

\* while PAUSE_COUNT.load() != 0 {}
ExitWait(t) == /\ pauseCount = 0
               /\ Goto(t, "exit_wait", "exit_delete")
               /\ UNCHANGED <<shared, reclaim, local>>

-----------------------------------------------------------------------------

Step(t) == \/ \E n \in Node, v \in Value : CallPush(t, n, v)
           \/ PushLoad(t) \/ PushCAS(t) \/ PushReturn(t)
           \/ CallPop(t) \/ Pause(t) \/ PopLoad(t) \/ PopNext(t) \/ PopCAS(t)
           \/ Resume(t) \/ Take(t) \/ AddCheck(t)
           \/ PopReturn(t)
           \/ DeleteOne(t) \/ DeleteDone(t) \/ Exit(t) \/ ExitWait(t)

Next == \E t \in Thread : Step(t)

\* Threads are run by the operating system and do not stop for ever.
Fairness == \A t \in Thread : WF_vars(Step(t))

Spec == Init /\ [][Next]_vars /\ Fairness

(***************************************************************************)
(* Properties                                                              *)
(***************************************************************************)

Pointer == Node \cup {Null}

TypeOK == /\ top \in Pointer
          /\ next \in [Node -> Pointer]
          /\ value \in [Node -> Value \cup {Null}]
          /\ allocated \subseteq Node
          /\ pauseCount \in 0..Cardinality(Thread)
          /\ garbage \in [Thread -> Seq(Node)]
          /\ registered \subseteq Thread
          /\ node \in [Thread -> Pointer]
          /\ seen \in [Thread -> Pointer]
          /\ seenNext \in [Thread -> Pointer]
          /\ result \in [Thread -> Value \cup {Null}]
          /\ ops \in [Thread -> 0..MaxOps]

\* "This dereference is safe": whatever the other threads popped and freed
\* since, the node that pop() dereferences is still allocated.
NoUseAfterFree == \A t \in Thread : pc[t] = "pop_next" => seen[t] \in allocated

\* No ABA: if the compare-and-swap of pop() is going to succeed, the successor
\* it installs is the successor the top node has at that moment.
NoABA == \A t \in Thread :
    pc[t] = "pop_cas" /\ top = seen[t] => seenNext[t] = next[top]

\* The nodes on the stack, top first; with a cycle, as many steps of it as
\* there are nodes.
Link[i \in Nat] == IF i = 0 THEN top
                   ELSE IF Link[i - 1] = Null THEN Null ELSE next[Link[i - 1]]
Depth == Cardinality({i \in 0..Cardinality(Node) : Link[i] # Null})
Chain == [i \in 1..Depth |-> Link[i - 1]]

\* The nodes a thread alone owns: being pushed, or popped and not yet freed.
Owned(t) == (CASE pc[t] \in {"push_load", "push_cas"} -> <<node[t]>>
               [] pc[t] \in {"pop_resume_some", "pop_take"} -> <<seen[t]>>
               [] OTHER -> <<>>) \o garbage[t]

\* Every allocated node has exactly one owner: the stack, or a thread that is
\* pushing it, has popped it or holds it in its garbage queue.  So none is
\* freed twice, pushed twice or lost.
OneOwner ==
    /\ \A t \in Thread : IsInjective(Owned(t)) /\ Range(Owned(t)) \cap Range(Chain) = {}
    /\ \A t, u \in Thread : t # u => Range(Owned(t)) \cap Range(Owned(u)) = {}
    /\ allocated = Range(Chain) \cup UNION {Range(Owned(t)) : t \in Thread}

\* A thread that has ended has emptied its garbage queue, which nobody else could
\* free.  When all threads are gone, so is everything they popped: what is still
\* allocated is what is still on the stack, and no Pause is left.
ReclaimedAtExit ==
    /\ \A t \in Thread : pc[t] = "exited" => garbage[t] = <<>>
    /\ (\A t \in Thread : pc[t] = "exited")
            => allocated = Range(Chain) /\ pauseCount = 0

\* Under fair scheduling every call returns and every drop of a garbage queue
\* stops spinning: a failed compare-and-swap means that another thread's
\* succeeded, and no Pause is left behind.
AllExit == <>(\A t \in Thread : pc[t] = "exited")

(***************************************************************************)
(* The stack as an implementation of AtomicStack.  A push takes effect at  *)
(* its successful compare-and-swap, a pop at its own, or when it reads     *)
(* null.                                                                   *)
(***************************************************************************)

Returning(v) == IF v = Null THEN [op |-> "popped_none"]
                            ELSE [op |-> "popped", value |-> v]

stackBar == [i \in 1..Depth |-> value[Chain[i]]]
callBar == [t \in Thread |->
    CASE pc[t] \in {"push_load", "push_cas"} -> [op |-> "push", value |-> value[node[t]]]
      [] pc[t] = "push_return" -> [op |-> "pushed"]
      [] pc[t] \in {"pop_pause", "pop_load", "pop_next", "pop_cas", "pop_resume_retry"}
            -> [op |-> "pop"]
      [] pc[t] \in {"pop_resume_some", "pop_take"} -> Returning(value[seen[t]])
      [] pc[t] \in {"pop_resume_none", "add_check", "add_delete", "pop_return"}
            -> Returning(result[t])
      [] OTHER -> [op |-> "idle"]]

Atomic == INSTANCE AtomicStack WITH stack <- stackBar, call <- callBar

\* Whatever the interleaving, every push and pop acts as if it happened at one
\* instant on a sequential stack, and returns what that stack returns: no value
\* is lost, popped twice or reordered, and pop() returns None only when the
\* stack was empty at some moment of the call.
Linearizable == Atomic!Spec

=============================================================================
