---------------------------- MODULE AtomicStack -----------------------------
(***************************************************************************)
(* What a linearizable stack promises: between the call and the return of  *)
(* an operation there is one instant at which it takes effect, on one      *)
(* stack that all threads share.                                           *)
(***************************************************************************)
EXTENDS Sequences

CONSTANTS Thread, Value

VARIABLES stack,    \* the values, top first
          call      \* the operation each thread is in, with its effect if it had one

vars == <<stack, call>>

Idle == [op |-> "idle"]
Pushing(v) == [op |-> "push", value |-> v]
Pushed == [op |-> "pushed"]
Popping == [op |-> "pop"]
Popped(v) == [op |-> "popped", value |-> v]
PoppedNone == [op |-> "popped_none"]

Init == /\ stack = <<>>
        /\ call = [t \in Thread |-> Idle]

Become(t, from, to) == /\ call[t] = from
                       /\ call' = [call EXCEPT ![t] = to]

CallPush(t) == \E v \in Value : Become(t, Idle, Pushing(v)) /\ UNCHANGED stack
CallPop(t) == Become(t, Idle, Popping) /\ UNCHANGED stack

Push(t) == \E v \in Value : /\ Become(t, Pushing(v), Pushed)
                            /\ stack' = <<v>> \o stack

Pop(t) == /\ stack # <<>>
          /\ Become(t, Popping, Popped(Head(stack)))
          /\ stack' = Tail(stack)

PopNone(t) == /\ stack = <<>>
              /\ Become(t, Popping, PoppedNone)
              /\ UNCHANGED stack

\* A return gives the caller the effect and nothing else.
Return(t) == /\ \/ Become(t, Pushed, Idle)
                \/ Become(t, PoppedNone, Idle)
                \/ \E v \in Value : Become(t, Popped(v), Idle)
             /\ UNCHANGED stack

Next == \E t \in Thread : \/ CallPush(t) \/ CallPop(t)
                          \/ Push(t) \/ Pop(t) \/ PopNone(t) \/ Return(t)

Spec == Init /\ [][Next]_vars

=============================================================================
