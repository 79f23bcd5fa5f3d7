--------------------------- MODULE PetersonLockRA ---------------------------
(***************************************************************************)
(* PetersonLock/peterson_lock.rs under the memory orderings it asks for.   *)
(* A location keeps the history of its writes; a thread has a view, the    *)
(* oldest write of each location it may still read.  A Relaxed access      *)
(* moves the view on its own location only, an Acquire load of a Release   *)
(* store takes over the view of the thread that stored, and a swap reads   *)
(* the last write.  The counter is not atomic: a read that races with a    *)
(* write returns any value the view still allows.                          *)
(***************************************************************************)
EXTENDS Naturals, Sequences, FiniteSetsExt

CONSTANT N      \* rounds per thread, "const N" of main()

ASSUME NAssumption == N \in Nat

VARIABLES mem,      \* per location: its writes, in modification order
          view,     \* per thread and location: index of the oldest readable write
          pc, oldCnt, rounds,   \* as in PetersonLock
          exit      \* which operand of && ended the while loop of each thread

vars == <<mem, view, pc, oldCnt, rounds, exit>>

Tid == 0..1
Other(t) == 1 - t

Interested(t) == IF t = 0 THEN "interested[0]" ELSE "interested[1]"
Loc == {Interested(0), Interested(1), "victim", "counter"}

NoView == [l \in Loc |-> 1]
Join(v, w) == [l \in Loc |-> Max({v[l], w[l]})]

Init == /\ mem = [l \in Loc |-> <<[val |-> 0, view |-> NoView]>>]
        /\ view = [t \in Tid |-> NoView]
        /\ pc = [t \in Tid |-> "loop"]
        /\ oldCnt = [t \in Tid |-> 0]
        /\ rounds = [t \in Tid |-> 0]
        /\ exit = [t \in Tid |-> "none"]

Goto(t, from, to) == /\ pc[t] = from
                     /\ pc' = [pc EXCEPT ![t] = to]

(***************************************************************************)
(* Memory accesses of thread t                                             *)
(***************************************************************************)

\* The view of t after it has written l once more.
Advanced(v, l) == [v EXCEPT ![l] = Len(mem[l]) + 1]

Append1(l, val, msgView) ==
    mem' = [mem EXCEPT ![l] = Append(@, [val |-> val, view |-> msgView])]

StoreRelaxed(t, l, val) == /\ view' = [view EXCEPT ![t] = Advanced(@, l)]
                           /\ Append1(l, val, Advanced(NoView, l))

StoreRelease(t, l, val) == /\ view' = [view EXCEPT ![t] = Advanced(@, l)]
                           /\ Append1(l, val, Advanced(view[t], l))

Readable(t, l) == view[t][l] .. Len(mem[l])

LoadRelaxed(t, l, i) == /\ view' = [view EXCEPT ![t][l] = i]
                        /\ UNCHANGED mem

LoadAcquire(t, l, i) ==
    /\ view' = [view EXCEPT ![t] = Join([@ EXCEPT ![l] = i], mem[l][i].view)]
    /\ UNCHANGED mem

SwapAcqRel(t, l, val) ==
    LET seen == Join(view[t], mem[l][Len(mem[l])].view) IN
    /\ view' = [view EXCEPT ![t] = Advanced(seen, l)]
    /\ Append1(l, val, Advanced(seen, l))

(***************************************************************************)
(* lock(tid)                                                               *)
(***************************************************************************)

SetInterested(t) == /\ rounds[t] < N
                    /\ Goto(t, "loop", "swap_victim")
                    /\ StoreRelaxed(t, Interested(t), 1)
                    /\ UNCHANGED <<oldCnt, rounds, exit>>

\* Mutant: victim.store(tid, Release), as in the versions the head comment of
\* the file warns of.
SwapVictim_Store(t) == /\ Goto(t, "swap_victim", "load_interested")
                       /\ StoreRelease(t, "victim", t)
                       /\ UNCHANGED <<oldCnt, rounds, exit>>

SwapVictim(t) == /\ Goto(t, "swap_victim", "load_interested")
                 /\ SwapAcqRel(t, "victim", t)
                 /\ UNCHANGED <<oldCnt, rounds, exit>>

LoadInterested(t) == \E i \in Readable(t, Interested(Other(t))) :
    /\ LoadAcquire(t, Interested(Other(t)), i)
    /\ IF mem[Interested(Other(t))][i].val = 1
       THEN Goto(t, "load_interested", "load_victim") /\ UNCHANGED exit
       ELSE /\ Goto(t, "load_interested", "read_counter")
            /\ exit' = [exit EXCEPT ![t] = "interested"]
    /\ UNCHANGED <<oldCnt, rounds>>

LoadVictim(t) == \E i \in Readable(t, "victim") :
    /\ LoadRelaxed(t, "victim", i)
    /\ IF mem["victim"][i].val = t
       THEN Goto(t, "load_victim", "load_interested") /\ UNCHANGED exit
       ELSE /\ Goto(t, "load_victim", "read_counter")
            /\ exit' = [exit EXCEPT ![t] = "victim"]
    /\ UNCHANGED <<oldCnt, rounds>>

(***************************************************************************)
(* The loop body of main(), unlock(tid), and the end of main()             *)
(***************************************************************************)

ReadCounter(t) == \E i \in Readable(t, "counter") :
    /\ Goto(t, "read_counter", "write_counter")
    /\ LoadRelaxed(t, "counter", i)
    /\ oldCnt' = [oldCnt EXCEPT ![t] = mem["counter"][i].val]
    /\ UNCHANGED <<rounds, exit>>

WriteCounter(t) == /\ Goto(t, "write_counter", "unlock")
                   /\ StoreRelaxed(t, "counter", oldCnt[t] + 1)
                   /\ UNCHANGED <<oldCnt, rounds, exit>>

\* Mutant: interested[tid].store(false, Relaxed).
Unlock_Relaxed(t) == /\ Goto(t, "unlock", "loop")
                     /\ StoreRelaxed(t, Interested(t), 0)
                     /\ rounds' = [rounds EXCEPT ![t] = @ + 1]
                     /\ UNCHANGED <<oldCnt, exit>>

Unlock(t) == /\ Goto(t, "unlock", "loop")
             /\ StoreRelease(t, Interested(t), 0)
             /\ rounds' = [rounds EXCEPT ![t] = @ + 1]
             /\ UNCHANGED <<oldCnt, exit>>

\* join() makes everything the spawned thread did visible to the main thread.
Finish(t) == /\ rounds[t] = N
             /\ Goto(t, "loop", "finished")
             /\ t = 1 => pc[0] = "finished"
             /\ view' = IF t = 1 THEN [view EXCEPT ![1] = Join(@, view[0])] ELSE view
             /\ UNCHANGED <<mem, oldCnt, rounds, exit>>

Next == \E t \in Tid : \/ SetInterested(t) \/ SwapVictim(t)
                       \/ LoadInterested(t) \/ LoadVictim(t)
                       \/ ReadCounter(t) \/ WriteCounter(t) \/ Unlock(t)
                       \/ Finish(t)

Spec == Init /\ [][Next]_vars

(***************************************************************************)
(* Properties                                                              *)
(***************************************************************************)

Waiting(t) == pc[t] \in {"load_interested", "load_victim"}
Holding(t) == pc[t] \in {"read_counter", "write_counter", "unlock"}

\* The last increment is visible to t.
UpToDate(t) == view[t]["counter"] = Len(mem["counter"])

\* The AcqRel swap of victim is enough for mutual exclusion, although
\* interested is stored and victim loaded with Relaxed ordering: the second
\* thread to swap cannot miss the interest of the first.
MutualExclusion == ~(Holding(0) /\ Holding(1))

\* A thread that leaves the while loop because it reads interested = false has
\* synchronised with the unlock that stored it: no write of the counter made
\* under the lock before is hidden from it.
InterestedSynchronises == \A t \in Tid :
    pc[t] = "read_counter" /\ exit[t] = "interested" => UpToDate(t)

\* The counter can only be stale for a holder that the other thread, back in
\* lock() after at least one round, let in by becoming the victim itself.
StaleOnlyAfterReturn == \A t \in Tid :
    pc[t] = "read_counter" /\ ~UpToDate(t)
        => rounds[Other(t)] > 0 /\ Waiting(Other(t))

\* main() asserts n = N * 2 after the join.
CounterExact == pc[1] = "finished"
                    => mem["counter"][view[1]["counter"]].val = 2 * N

(***************************************************************************)
(* The lock as an implementation of FifoLock, as in PetersonLock: a thread *)
(* queues when it swaps victim; with both in the queue the last write of   *)
(* victim is of the last one.                                              *)
(***************************************************************************)

Last(l) == mem[l][Len(mem[l])]

\* Thread t has swapped victim and not yet unlocked.
Queued(t) == Waiting(t) \/ Holding(t)

queueBar == IF Queued(0) /\ Queued(1) THEN <<Other(Last("victim").val), Last("victim").val>>
            ELSE IF Queued(0) THEN <<0>>
            ELSE IF Queued(1) THEN <<1>>
            ELSE <<>>
heldBar == Holding(0) \/ Holding(1)

Fifo == INSTANCE FifoLock WITH queue <- queueBar, held <- heldBar

\* Whatever old values it reads, a thread that waits in lock() is never
\* overtaken by one that swapped victim after it, and only the one that has
\* waited longest enters or leaves the loop body of main().
NeverOvertaken == Fifo!SafeSpec

=============================================================================
