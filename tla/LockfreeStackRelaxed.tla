------------------------ MODULE LockfreeStackRelaxed ------------------------
(***************************************************************************)
(* LockfreeStack under the orderings of its accesses to PAUSE_COUNT.       *)
(* Pause::new() increments it with Relaxed ordering, which does not keep   *)
(* the Acquire load of top that follows behind it: pop() may read top      *)
(* first.  The drop of the Pause decrements it with Relaxed ordering, which *)
(* does not keep the read of next and the exchange before it: the counter  *)
(* may be down before them.  These are the only reorderings modelled; they *)
(* add behaviours to those of LockfreeStack.                               *)
(***************************************************************************)
EXTENDS LockfreeStack

\* The load of top, ahead of the increment ...
LoadEarly(t) == /\ Goto(t, "pop_pause", "pop_pause_late")
                /\ seen' = [seen EXCEPT ![t] = top]
                /\ UNCHANGED <<shared, reclaim, node, seenNext, result, ops>>

\* ... and the increment, at last.
PauseLate(t) == /\ IF seen[t] = Null THEN Goto(t, "pop_pause_late", "pop_resume_none")
                                     ELSE Goto(t, "pop_pause_late", "pop_next")
                /\ pauseCount' = pauseCount + 1
                /\ UNCHANGED <<shared, local, garbage, registered>>

\* The decrement, ahead of the read of next (the Acquire load of top keeps it
\* behind) or of the exchange ...
ResumeEarly(t) == /\ \/ Goto(t, "pop_next", "pop_next_resumed")
                     \/ Goto(t, "pop_cas", "pop_cas_resumed")
                  /\ pauseCount' = pauseCount - 1
                  /\ UNCHANGED <<shared, local, garbage, registered>>

\* ... which come after it, and then the value is taken or the loop goes on.
NextLate(t) == /\ Goto(t, "pop_next_resumed", "pop_cas_resumed")
               /\ seenNext' = [seenNext EXCEPT ![t] = next[seen[t]]]
               /\ UNCHANGED <<shared, reclaim, node, seen, result, ops>>
CASLate(t) == /\ IF top = seen[t]
                 THEN Goto(t, "pop_cas_resumed", "pop_take") /\ top' = seenNext[t]
                 ELSE Goto(t, "pop_cas_resumed", "pop_pause") /\ UNCHANGED top
              /\ UNCHANGED <<next, value, allocated, reclaim, local>>

RelaxedNext == Next \/ \E t \in Thread : \/ LoadEarly(t) \/ PauseLate(t)
                                         \/ ResumeEarly(t) \/ NextLate(t) \/ CASLate(t)

RelaxedSpec == Init /\ [][RelaxedNext]_vars

\* "This dereference is safe because of the use of hazard pointer", the comment
\* in pop() says: the node it reads next from has not been freed.
DereferenceSafe == /\ NoUseAfterFree
                   /\ \A t \in Thread : pc[t] = "pop_next_resumed" => seen[t] \in allocated

=============================================================================
