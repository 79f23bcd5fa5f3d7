------------------------------ MODULE FifoLock ------------------------------
(***************************************************************************)
(* What a first-come first-served lock promises: threads queue up, only    *)
(* the head of the queue may hold the lock, and it leaves the queue when   *)
(* it releases.  PetersonLock implements it, with the swap of "victim" as  *)
(* the moment of queueing.                                                 *)
(***************************************************************************)
EXTENDS Sequences

CONSTANT Tid

VARIABLES queue,    \* the threads that asked for the lock, oldest first
          held      \* whether the head of the queue holds it

vars == <<queue, held>>

TypeOK == /\ queue \in Seq(Tid)
          /\ held \in BOOLEAN

Init == /\ queue = <<>>
        /\ held = FALSE

Request(t) == /\ \A i \in DOMAIN queue : queue[i] # t
              /\ queue' = Append(queue, t)
              /\ UNCHANGED held

Acquire(t) == /\ ~held
              /\ queue # <<>>
              /\ Head(queue) = t
              /\ held' = TRUE
              /\ UNCHANGED queue

Release(t) == /\ held
              /\ queue # <<>>
              /\ Head(queue) = t
              /\ queue' = Tail(queue)
              /\ held' = FALSE

Next == \E t \in Tid : Request(t) \/ Acquire(t) \/ Release(t)

\* Nobody has to ask for the lock, but the head of the queue gets it and
\* gives it back.
Fairness == \A t \in Tid : WF_vars(Acquire(t)) /\ WF_vars(Release(t))

SafeSpec == Init /\ [][Next]_vars

Spec == SafeSpec /\ Fairness

=============================================================================
