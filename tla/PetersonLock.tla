---------------------------- MODULE PetersonLock ----------------------------
(***************************************************************************)
(* PetersonLock/peterson_lock.rs: the lock, and the program around it in   *)
(* which a spawned thread (tid 0) and the main thread (tid 1) increment an *)
(* unprotected counter N times each.  One step is one access to shared     *)
(* memory; memory is sequentially consistent here (PetersonLockRA drops    *)
(* that assumption).                                                       *)
(***************************************************************************)
EXTENDS Naturals

CONSTANT N      \* rounds per thread, "const N" of main()

ASSUME NAssumption == N \in Nat

VARIABLES interested,   \* PetersonLock.interested
          victim,       \* PetersonLock.victim
          counter,      \* Counter.inner
          pc,           \* where each thread is
          oldCnt,       \* the local old_cnt of each thread
          rounds        \* iterations of the for loop each thread completed

vars == <<interested, victim, counter, pc, oldCnt, rounds>>

Tid == 0..1
Other(t) == 1 - t

Init == /\ interested = [t \in Tid |-> FALSE]
        /\ victim = 0
        /\ counter = 0
        /\ pc = [t \in Tid |-> "loop"]
        /\ oldCnt = [t \in Tid |-> 0]
        /\ rounds = [t \in Tid |-> 0]

Goto(t, from, to) == /\ pc[t] = from
                     /\ pc' = [pc EXCEPT ![t] = to]

(***************************************************************************)
(* lock(tid)                                                               *)
(***************************************************************************)

\* Mutant: "for _i in 0..=N".
SetInterested_OneMore(t) == /\ rounds[t] <= N
                            /\ Goto(t, "loop", "swap_victim")
                            /\ interested' = [interested EXCEPT ![t] = TRUE]
                            /\ UNCHANGED <<victim, counter, oldCnt, rounds>>

SetInterested(t) == /\ rounds[t] < N
                    /\ Goto(t, "loop", "swap_victim")
                    /\ interested' = [interested EXCEPT ![t] = TRUE]
                    /\ UNCHANGED <<victim, counter, oldCnt, rounds>>

\* Mutant: each thread names the other one as the victim.
SwapVictim_Polite(t) == /\ Goto(t, "swap_victim", "load_interested")
                        /\ victim' = Other(t)
                        /\ UNCHANGED <<interested, counter, oldCnt, rounds>>

SwapVictim(t) == /\ Goto(t, "swap_victim", "load_interested")
                 /\ victim' = t
                 /\ UNCHANGED <<interested, counter, oldCnt, rounds>>

\* The left operand of && in the while condition ...
LoadInterested(t) ==
    /\ IF interested[Other(t)] THEN Goto(t, "load_interested", "load_victim")
                               ELSE Goto(t, "load_interested", "read_counter")
    /\ UNCHANGED <<interested, victim, counter, oldCnt, rounds>>

\* Mutant: the waiting thread goes on spinning when it is not the victim.
LoadVictim_Swapped(t) ==
    /\ IF victim # t THEN Goto(t, "load_victim", "load_interested")
                     ELSE Goto(t, "load_victim", "read_counter")
    /\ UNCHANGED <<interested, victim, counter, oldCnt, rounds>>

\* ... and the right one, which is only evaluated when the left one is true.
LoadVictim(t) ==
    /\ IF victim = t THEN Goto(t, "load_victim", "load_interested")
                     ELSE Goto(t, "load_victim", "read_counter")
    /\ UNCHANGED <<interested, victim, counter, oldCnt, rounds>>

(***************************************************************************)
(* The body of the loop in main(), and the drop of the guard: unlock(tid)  *)
(***************************************************************************)

\* Mutant: "let _ = peterson.lock(tid)", which drops the guard at once.
ReadCounter_NoGuard(t) == /\ Goto(t, "read_counter", "write_counter")
                          /\ oldCnt' = [oldCnt EXCEPT ![t] = counter]
                          /\ interested' = [interested EXCEPT ![t] = FALSE]
                          /\ UNCHANGED <<victim, counter, rounds>>

ReadCounter(t) == /\ Goto(t, "read_counter", "write_counter")
                  /\ oldCnt' = [oldCnt EXCEPT ![t] = counter]
                  /\ UNCHANGED <<interested, victim, counter, rounds>>

WriteCounter(t) == /\ Goto(t, "write_counter", "unlock")
                   /\ counter' = oldCnt[t] + 1
                   /\ UNCHANGED <<interested, victim, oldCnt, rounds>>

\* Mutant: the guard's drop does not unlock.
Unlock_Leak(t) == /\ Goto(t, "unlock", "loop")
                  /\ rounds' = [rounds EXCEPT ![t] = @ + 1]
                  /\ UNCHANGED <<interested, victim, counter, oldCnt>>

Unlock(t) == /\ Goto(t, "unlock", "loop")
             /\ interested' = [interested EXCEPT ![t] = FALSE]
             /\ rounds' = [rounds EXCEPT ![t] = @ + 1]
             /\ UNCHANGED <<victim, counter, oldCnt>>

\* The spawned thread leaves its loop; the main thread leaves its own and
\* join() returns once the spawned thread is gone.
Finish(t) == /\ rounds[t] = N
             /\ Goto(t, "loop", "finished")
             /\ t = 1 => pc[0] = "finished"
             /\ UNCHANGED <<interested, victim, counter, oldCnt, rounds>>

Step(t) == \/ SetInterested(t) \/ SwapVictim(t)
           \/ LoadInterested(t) \/ LoadVictim(t)
           \/ ReadCounter(t) \/ WriteCounter(t) \/ Unlock(t)
           \/ Finish(t)

Next == \E t \in Tid : Step(t)

\* Each thread is run by the operating system: it does not stop for ever
\* before a step it can take.  yield_now() gives the other one no priority.
Fairness == \A t \in Tid : WF_vars(Step(t))

Spec == Init /\ [][Next]_vars /\ Fairness

(***************************************************************************)
(* Properties                                                              *)
(***************************************************************************)

Waiting(t) == pc[t] \in {"load_interested", "load_victim"}
Holding(t) == pc[t] \in {"read_counter", "write_counter", "unlock"}

TypeOK == /\ interested \in [Tid -> BOOLEAN]
          /\ victim \in Tid
          /\ counter \in Nat
          /\ pc \in [Tid -> {"loop", "swap_victim", "load_interested",
                             "load_victim", "read_counter", "write_counter",
                             "unlock", "finished"}]
          /\ oldCnt \in [Tid -> Nat]
          /\ rounds \in [Tid -> 0..N]

\* lock() lets the two threads between lock() and the guard's drop one at a
\* time, although it reads the two variables of its condition separately.
MutualExclusion == ~(Holding(0) /\ Holding(1))

\* main() asserts n = N * 2 after the join: no increment is lost although
\* the counter is read and written in two steps.
CounterExact == pc[1] = "finished" => counter = 2 * N

\* A thread that has announced its interest gets the lock.
StarvationFree == \A t \in Tid : pc[t] = "swap_victim" ~> Holding(t)

(***************************************************************************)
(* The lock as an implementation of FifoLock.  A thread queues when it     *)
(* swaps victim; with both in the queue the victim is the last one.        *)
(***************************************************************************)

Queued(t) == Waiting(t) \/ Holding(t)

queueBar == IF Queued(0) /\ Queued(1) THEN <<Other(victim), victim>>
            ELSE IF Queued(0) THEN <<0>>
            ELSE IF Queued(1) THEN <<1>>
            ELSE <<>>
heldBar == Holding(0) \/ Holding(1)

Fifo == INSTANCE FifoLock WITH queue <- queueBar, held <- heldBar

\* Every behaviour of the lock is one of the first-come first-served lock, its
\* fairness included: a thread that waits in lock() is never overtaken by one
\* that swapped victim after it, however often that one comes back.
ImplementsFifoLock == Fifo!Spec

=============================================================================
