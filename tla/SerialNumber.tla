------------------------------ MODULE SerialNumber ------------------------------
(***************************************************************************)
(* SerialNumber/serial_num.rs: a serial number advanced from an old one by   *)
(* additions, beside the distance really covered, which is not kept in the   *)
(* program and which its comparison and subtraction have to make up for.     *)
(***************************************************************************)
EXTENDS Integers

CONSTANT MID              \* half the number of serial numbers: 2^31 in the code

MidAssumption == MID \in Nat \ {0}

VARIABLE serial           \* old, new and distance
vars == serial

Number == 0 .. 2 * MID - 1
Wrapping(x) == x % (2 * MID)

None == -1
SnAdd(s, n) == IF n >= MID THEN None ELSE Wrapping(s + n)
\* Mutant: the difference is compared without regard to which number is larger.
SnCmp_OneSided(s, rhs) ==
  CASE s = rhs -> "Equal"
    [] s # rhs /\ Wrapping(rhs - s) < MID -> "Less"
    [] s # rhs /\ Wrapping(rhs - s) >= MID -> "Greater"
SnCmp(s, rhs) ==
  CASE s = rhs -> "Equal"
    [] \/ s < rhs /\ rhs - s < MID
       \/ s > rhs /\ s - rhs > MID -> "Less"
    [] \/ s < rhs /\ rhs - s > MID
       \/ s > rhs /\ s - rhs < MID -> "Greater"
    [] \/ s < rhs /\ rhs - s = MID
       \/ s > rhs /\ s - rhs = MID -> "Undefined"
SnSub(s, rhs) ==
  CASE SnCmp(s, rhs) = "Equal" -> 0
    [] SnCmp(s, rhs) = "Greater" -> Wrapping(s - rhs)
    [] SnCmp(s, rhs) \in {"Less", "Undefined"} -> None

Init == \E s \in Number : serial = [old |-> s, new |-> s, distance |-> 0]

\* One addition, over at most all the serial numbers in total; an addend of half
\* of them or more is refused.
Advance ==
  \E n \in Number :
    /\ SnAdd(serial.new, n) # None
    /\ serial.distance + n <= 2 * MID
    /\ serial' = [serial EXCEPT !.new = SnAdd(@, n), !.distance = @ + n]

Next == Advance

Spec == Init /\ [][Next]_vars

--------------------------------------------------------------------------------
SerialTypeOK == serial \in [old : Number, new : Number, distance : 0 .. 2 * MID]

\* However many additions led there: less than half the numbers apart, the old
\* number is less than the new one and their difference is the distance covered;
\* at half they compare as neither; beyond half the order turns round.
DistanceRecovered ==
  LET d == serial.distance IN
  /\ SnCmp(serial.old, serial.new) =
       CASE d \in {0, 2 * MID} -> "Equal"
         [] d \in 1 .. MID - 1 -> "Less"
         [] d = MID -> "Undefined"
         [] d \in MID + 1 .. 2 * MID - 1 -> "Greater"
  /\ SnSub(serial.new, serial.old) = CASE d \in 0 .. MID - 1 -> d
                                       [] d \in MID .. 2 * MID - 1 -> None
                                       [] d = 2 * MID -> 0
================================================================================
