------------------------- MODULE PetersonLockProofs -------------------------
(***************************************************************************)
(* Mutual exclusion, the exact count and the safety half of the refinement *)
(* to FifoLock, for every number of rounds N.                              *)
(***************************************************************************)
EXTENDS PetersonLock, SequenceTheorems, TLAPS

\* A thread that is not at the head of its for loop has a round to complete.
RoundsLeft == \A t \in Tid :
    /\ pc[t] \notin {"loop", "finished"} => rounds[t] < N
    /\ pc[t] = "finished" => rounds[t] = N

TypeInv == TypeOK /\ RoundsLeft

\* interested[t] is true exactly from t's store to t's unlock.
InterestedExact == \A t \in Tid :
    interested[t] <=> pc[t] \notin {"loop", "finished"}

\* While one thread holds the lock, the other one, if it has swapped victim,
\* is the victim and only waits.
HolderExcludes == \A t \in Tid :
    Holding(t) /\ Queued(Other(t)) => ~Holding(Other(t)) /\ victim = Other(t)

\* A waiting thread that has the queue for itself is the victim.
LoneVictim == \A t \in Tid :
    Queued(t) /\ ~Queued(Other(t)) => victim = t

LockInv == TypeInv /\ InterestedExact /\ HolderExcludes /\ LoneVictim

\* The counter is ahead of the completed rounds by the increments whose guard
\* is not dropped yet, and what the holder has read is still there when it
\* writes.
Written(t) == IF pc[t] = "unlock" THEN 1 ELSE 0

CounterInv == /\ counter = rounds[0] + rounds[1] + Written(0) + Written(1)
              /\ \A t \in Tid : pc[t] = "write_counter" => oldCnt[t] = counter
              /\ pc[1] = "finished" => pc[0] = "finished"

-----------------------------------------------------------------------------

\* Every step of either thread keeps the types, and the rounds left of a thread
\* inside its loop.
LEMMA TypeInvStep == TypeInv /\ [Next]_vars => TypeInv'
<1> SUFFICES ASSUME TypeInv, [Next]_vars PROVE TypeInv'
  OBVIOUS
<1> USE NAssumption DEF TypeInv, TypeOK, RoundsLeft, Tid, Goto, Other
<1>1. ASSUME NEW t \in Tid, SetInterested(t) PROVE TypeInv'
  BY <1>1 DEF SetInterested
<1>2. ASSUME NEW t \in Tid, SwapVictim(t) PROVE TypeInv'
  BY <1>2 DEF SwapVictim
<1>3. ASSUME NEW t \in Tid, LoadInterested(t) PROVE TypeInv'
  BY <1>3 DEF LoadInterested
<1>4. ASSUME NEW t \in Tid, LoadVictim(t) PROVE TypeInv'
  BY <1>4 DEF LoadVictim
<1>5. ASSUME NEW t \in Tid, ReadCounter(t) PROVE TypeInv'
  BY <1>5 DEF ReadCounter
<1>6. ASSUME NEW t \in Tid, WriteCounter(t) PROVE TypeInv'
  BY <1>6 DEF WriteCounter
<1>7. ASSUME NEW t \in Tid, Unlock(t) PROVE TypeInv'
  BY <1>7 DEF Unlock
<1>8. ASSUME NEW t \in Tid, Finish(t) PROVE TypeInv'
  BY <1>8 DEF Finish
<1>9. CASE UNCHANGED vars
  BY <1>9 DEF vars
<1> QED
  BY <1>1, <1>2, <1>3, <1>4, <1>5, <1>6, <1>7, <1>8, <1>9 DEF Next, Step

\* Every access of lock(), the loop body and unlock() keeps each variable in
\* its type: the values stored in victim are thread ids, and no thread does
\* more than N rounds.
THEOREM TypeCorrect == Spec => []TypeOK
<1>1. Init => TypeInv
  BY NAssumption DEF Init, TypeInv, TypeOK, RoundsLeft, Tid
<1>2. TypeInv => TypeOK
  BY DEF TypeInv
<1> QED
  BY <1>1, <1>2, TypeInvStep, PTL DEF Spec

-----------------------------------------------------------------------------

\* Every step keeps the lock's invariant: interested tells who is in lock() or
\* holds, a holder leaves the other one the victim, and a thread that waits
\* alone is the victim itself.
LEMMA LockInvStep == LockInv /\ [Next]_vars => LockInv'
<1> SUFFICES ASSUME LockInv, [Next]_vars PROVE LockInv'
  OBVIOUS
<1>0. TypeInv'
  BY TypeInvStep DEF LockInv
<1> USE DEF LockInv, TypeInv, TypeOK, Tid, Goto, Other, InterestedExact,
            HolderExcludes, LoneVictim, Queued, Waiting, Holding
<1>1. ASSUME NEW t \in Tid, SetInterested(t) PROVE LockInv'
  BY <1>0, <1>1 DEF SetInterested
<1>2. ASSUME NEW t \in Tid, SwapVictim(t) PROVE LockInv'
  BY <1>0, <1>2 DEF SwapVictim
<1>3. ASSUME NEW t \in Tid, LoadInterested(t) PROVE LockInv'
  BY <1>0, <1>3 DEF LoadInterested
<1>4. ASSUME NEW t \in Tid, LoadVictim(t) PROVE LockInv'
  BY <1>0, <1>4 DEF LoadVictim
<1>5. ASSUME NEW t \in Tid, ReadCounter(t) PROVE LockInv'
  BY <1>0, <1>5 DEF ReadCounter
<1>6. ASSUME NEW t \in Tid, WriteCounter(t) PROVE LockInv'
  BY <1>0, <1>6 DEF WriteCounter
<1>7. ASSUME NEW t \in Tid, Unlock(t) PROVE LockInv'
  BY <1>0, <1>7 DEF Unlock
<1>8. ASSUME NEW t \in Tid, Finish(t) PROVE LockInv'
  BY <1>0, <1>8 DEF Finish
<1>9. CASE UNCHANGED vars
  BY <1>0, <1>9 DEF vars
<1> QED
  BY <1>1, <1>2, <1>3, <1>4, <1>5, <1>6, <1>7, <1>8, <1>9 DEF Next, Step

\* So the lock's invariant holds in every reachable state.
LEMMA LockInvariant == Spec => []LockInv
<1>1. Init => LockInv
  BY NAssumption DEF Init, LockInv, TypeInv, TypeOK, RoundsLeft, Tid,
     InterestedExact, HolderExcludes, LoneVictim, Queued, Waiting, Holding, Other
<1> QED
  BY <1>1, LockInvStep, PTL DEF Spec

\* Only one thread at a time is between lock() and the drop of its guard,
\* for any number of rounds: the second one to swap victim is the victim
\* until the first one has unlocked.
THEOREM MutualExclusionHolds == Spec => []MutualExclusion
<1>1. LockInv => MutualExclusion
  BY DEF LockInv, HolderExcludes, MutualExclusion, Queued, Other, Tid
<1> QED
  BY <1>1, LockInvariant, PTL

-----------------------------------------------------------------------------

\* Every step keeps the count: the counter is the sum of the increments made,
\* and what a thread read is still there when it writes.
LEMMA CounterInvStep == LockInv /\ CounterInv /\ [Next]_vars => CounterInv'
<1> SUFFICES ASSUME LockInv, CounterInv, [Next]_vars PROVE CounterInv'
  OBVIOUS
<1> USE DEF LockInv, TypeInv, TypeOK, RoundsLeft, Tid, Goto, Other,
            HolderExcludes, Queued, Holding, CounterInv, Written
<1>1. ASSUME NEW t \in Tid, SetInterested(t) PROVE CounterInv'
  BY <1>1 DEF SetInterested
<1>2. ASSUME NEW t \in Tid, SwapVictim(t) PROVE CounterInv'
  BY <1>2 DEF SwapVictim
<1>3. ASSUME NEW t \in Tid, LoadInterested(t) PROVE CounterInv'
  BY <1>3 DEF LoadInterested
<1>4. ASSUME NEW t \in Tid, LoadVictim(t) PROVE CounterInv'
  BY <1>4 DEF LoadVictim
<1>5. ASSUME NEW t \in Tid, ReadCounter(t) PROVE CounterInv'
  BY <1>5 DEF ReadCounter
<1>6. ASSUME NEW t \in Tid, WriteCounter(t) PROVE CounterInv'
  BY <1>6 DEF WriteCounter
<1>7. ASSUME NEW t \in Tid, Unlock(t) PROVE CounterInv'
  BY <1>7 DEF Unlock
<1>8. ASSUME NEW t \in Tid, Finish(t) PROVE CounterInv'
  BY <1>8 DEF Finish
<1>9. CASE UNCHANGED vars
  BY <1>9 DEF vars
<1> QED
  BY <1>1, <1>2, <1>3, <1>4, <1>5, <1>6, <1>7, <1>8, <1>9 DEF Next, Step

\* The assertion at the end of main() holds under sequential consistency,
\* for any number of rounds: what a thread read is still there when it writes,
\* because the other one cannot have written in between.
THEOREM CounterIsExact == Spec => []CounterExact
<1>1. Init => CounterInv
  BY DEF Init, CounterInv, Written, Tid
<1>2. LockInv /\ CounterInv => CounterExact
  BY DEF LockInv, TypeInv, TypeOK, RoundsLeft, CounterInv, CounterExact, Written, Tid
<1> QED
  BY <1>1, <1>2, LockInvariant, CounterInvStep, PTL DEF Spec

-----------------------------------------------------------------------------

\* A queue that holds at most one thread, which is not b, can take b.
LEMMA Enqueue == ASSUME NEW a \in Tid, NEW b \in Tid, a # b
                 PROVE  /\ Append(<<>>, b) = <<b>>
                        /\ Append(<<a>>, b) = <<a, b>>
                        /\ \A i \in DOMAIN <<a>> : <<a>>[i] # b
                        /\ \A i \in DOMAIN <<>> : <<>>[i] # b
<1>1. Append(<<>>, b) = <<b>>
  OBVIOUS
<1>2. Append(<<a>>, b) = <<a, b>>
  <2>1. <<a>> \in Seq(Tid) /\ <<a, b>> \in Seq(Tid)
    OBVIOUS
  <2>2. Append(<<a>>, b) \in Seq(Tid) /\ Len(Append(<<a>>, b)) = 2
    BY <2>1
  <2>3. \A i \in 1..2 : Append(<<a>>, b)[i] = <<a, b>>[i]
    BY <2>1
  <2> QED
    BY <2>1, <2>2, <2>3, SeqEqual
<1>3. \A i \in DOMAIN <<a>> : <<a>>[i] # b
  OBVIOUS
<1>4. \A i \in DOMAIN <<>> : <<>>[i] # b
  OBVIOUS
<1> QED
  BY <1>1, <1>2, <1>3, <1>4

\* Every step of the lock is a step of the first-come first-served lock or
\* leaves its queue and its holder alone: a swap of victim is a request, the
\* load that ends the while loop is the acquisition by the head of the queue.
THEOREM RefinesFifoLock == Spec => Fifo!SafeSpec
<1>1. Init => Fifo!Init
  BY DEF Init, Fifo!Init, queueBar, heldBar, Queued, Waiting, Holding, Tid
<1>2. LockInv /\ [Next]_vars => [Fifo!Next]_(Fifo!vars)
  <2> SUFFICES ASSUME LockInv, [Next]_vars PROVE [Fifo!Next]_(Fifo!vars)
    OBVIOUS
  <2> USE DEF LockInv, TypeInv, TypeOK, Tid, Goto, Other, InterestedExact,
              HolderExcludes, LoneVictim, Queued, Waiting, Holding, queueBar, heldBar
  <2>1. ASSUME NEW t \in Tid, SetInterested(t) PROVE UNCHANGED Fifo!vars
    BY <2>1 DEF SetInterested, Fifo!vars
  <2>2. ASSUME NEW t \in Tid, SwapVictim(t) PROVE Fifo!Request(t)
    <3>1. /\ pc[t] = "swap_victim" /\ pc'[t] = "load_interested"
          /\ pc'[Other(t)] = pc[Other(t)] /\ victim' = t
          /\ heldBar' = heldBar
      BY <2>2 DEF SwapVictim
    <3>2. CASE Queued(Other(t))
      <4>1. queueBar = <<Other(t)>> /\ queueBar' = <<Other(t), t>>
        BY <3>1, <3>2
      <4>2. Other(t) \in Tid /\ Other(t) # t
        OBVIOUS
      <4> HIDE DEF queueBar, heldBar, Other
      <4> QED
        BY <3>1, <4>1, <4>2, Enqueue DEF Fifo!Request
    <3>3. CASE ~Queued(Other(t))
      <4>1. queueBar = <<>> /\ queueBar' = <<t>>
        BY <3>1, <3>3
      <4>2. Other(t) \in Tid /\ Other(t) # t
        OBVIOUS
      <4> HIDE DEF queueBar, heldBar, Other
      <4> QED
        BY <3>1, <4>1, <4>2, Enqueue DEF Fifo!Request
    <3> QED
      BY <3>2, <3>3
  <2>3. ASSUME NEW t \in Tid, LoadInterested(t)
        PROVE Fifo!Acquire(t) \/ UNCHANGED Fifo!vars
    BY <2>3 DEF LoadInterested, Fifo!Acquire, Fifo!vars
  <2>4. ASSUME NEW t \in Tid, LoadVictim(t)
        PROVE Fifo!Acquire(t) \/ UNCHANGED Fifo!vars
    BY <2>4 DEF LoadVictim, Fifo!Acquire, Fifo!vars
  <2>5. ASSUME NEW t \in Tid, ReadCounter(t) PROVE UNCHANGED Fifo!vars
    BY <2>5 DEF ReadCounter, Fifo!vars
  <2>6. ASSUME NEW t \in Tid, WriteCounter(t) PROVE UNCHANGED Fifo!vars
    BY <2>6 DEF WriteCounter, Fifo!vars
  <2>7. ASSUME NEW t \in Tid, Unlock(t) PROVE Fifo!Release(t)
    BY <2>7 DEF Unlock, Fifo!Release
  <2>8. ASSUME NEW t \in Tid, Finish(t) PROVE UNCHANGED Fifo!vars
    BY <2>8 DEF Finish, Fifo!vars
  <2>9. CASE UNCHANGED vars
    BY <2>9 DEF vars, Fifo!vars
  <2> QED
    BY <2>1, <2>2, <2>3, <2>4, <2>5, <2>6, <2>7, <2>8, <2>9
    DEF Next, Step, Fifo!Next
<1> QED
  BY <1>1, <1>2, LockInvariant, PTL DEF Spec, Fifo!SafeSpec

=============================================================================
