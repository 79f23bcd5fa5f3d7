----------------------------- MODULE CircularQueue -----------------------------
(***************************************************************************)
(* CircularQueue/CircularQueue.hs: a bounded queue in an array of one place  *)
(* more than its capacity, beside the queue it stands for.                   *)
(***************************************************************************)
EXTENDS Integers, Sequences

CONSTANTS Values, Capacity

CapacityAssumption == Capacity \in Nat

VARIABLE queue            \* the array, cqHead, cqTail, and what was put in so far
vars == queue             \* and not taken out; and the value taken out last

ArrLen == Capacity + 1
Unset == -1               \* a place of newArray_ that was never written
WrapInc(i) == (i + 1) % ArrLen
IsEmpty == queue.head = queue.tail
IsFull == queue.head = WrapInc(queue.tail)

\* length: rem takes the sign of the dividend.
Rem(a, n) == IF a >= 0 THEN a % n ELSE -((-a) % n)
Length == Rem(queue.tail - queue.head, ArrLen)

Init == queue = [array |-> [i \in 0 .. Capacity |-> Unset], head |-> 0, tail |-> 0,
                 held |-> <<>>, taken |-> [value |-> Unset, expected |-> Unset]]

\* On a full queue enqueue fails and changes nothing, and dequeue on an empty one.
Enqueue(x) ==
  /\ ~IsFull
  /\ queue' = [queue EXCEPT !.array[queue.tail] = x, !.tail = WrapInc(@), !.held = Append(@, x)]
Dequeue ==
  /\ ~IsEmpty
  /\ queue' = [queue EXCEPT !.head = WrapInc(@), !.held = Tail(@),
                            !.taken = [value |-> queue.array[queue.head], expected |-> Head(queue.held)]]

Next == (\E x \in Values : Enqueue(x)) \/ Dequeue

Spec == Init /\ [][Next]_vars

--------------------------------------------------------------------------------
\* Whatever wraps around: values come out in the order in which they went in, the
\* queue refuses exactly the value beyond its capacity, and length is the number of
\* values held, less the length of the array once the tail has wrapped around and
\* the head has not (it is negative then).
QueueExact ==
  /\ queue.taken.value = queue.taken.expected
  /\ IsEmpty <=> queue.held = <<>>
  /\ IsFull <=> Len(queue.held) = Capacity
  /\ \A k \in 1 .. Len(queue.held) : queue.array[(queue.head + k - 1) % ArrLen] = queue.held[k]
  /\ Length = IF queue.head <= queue.tail THEN Len(queue.held) ELSE Len(queue.held) - ArrLen
================================================================================
