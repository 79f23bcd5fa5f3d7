--------------------------- MODULE BabyStepGiantStep ---------------------------
(***************************************************************************)
(* BabyStepGiantStep/baby_step_giant_step.rs: discrete logarithms in words   *)
(* of Width bits, one per line read.  A product that is not a mul_mod wraps  *)
(* around (as in a release build; a debug build panics).                     *)
(***************************************************************************)
EXTENDS Integers, Sequences, SequencesExt

CONSTANTS Width,          \* the bits of a word: 64 in the code
          MaxP,           \* bound on the modulus read
          Moduli          \* the moduli tried with mul_mod

VARIABLE bsgs             \* the line read: a, b and p; and the answer
vars == bsgs

None == -1
Panic == -2
Word == 0 .. 2 ^ Width - 1
Wrap(x) == x % 2 ^ Width

\* b * 2 and res + b modulo m, where the sum itself may not fit in a word.
\* Mutant: the sum is reduced after it has wrapped around.
AddMod_Late(res, b, m) == Wrap(res + b) % m
AddMod(res, b, m) == IF b >= m - res THEN Wrap(Wrap(res - m) + b) ELSE Wrap(res + b)
RECURSIVE MulLoop(_, _, _, _)
MulLoop(a, b, m, res) ==
  IF a = 0 THEN res
  ELSE MulLoop(a \div 2, AddMod(b, b, m), m, IF a % 2 = 1 THEN AddMod(res, b, m) ELSE res)
MulMod(a, b, m) ==
  MulLoop(a, CASE b >= m /\ m > (2 ^ Width - 1) \div 2 -> b - m
               [] b >= m /\ m <= (2 ^ Width - 1) \div 2 -> b % m
               [] b < m -> b, m, 0)

RECURSIVE ExpLoop(_, _, _, _)
ExpLoop(base, exp, m, res) ==
  IF exp = 0 THEN res
  ELSE ExpLoop(MulMod(base, base, m), exp \div 2, m,
               IF exp % 2 = 1 THEN MulMod(res, base, m) ELSE res)
ExpMod(base, exp, m) == IF m = 1 THEN 0 ELSE ExpLoop(base % m, exp, m, 1)

RECURSIVE Gcd(_, _)
Gcd(a, b) == IF b = 0 THEN a ELSE Gcd(b, a % b)

\* The map babies keeps the last j of a value: i * m - j is then the least.
CeilSqrt(p) == CHOOSE m \in 0 .. p : m * m >= p /\ \A n \in 0 .. m - 1 : n * n < p
RECURSIVE GiantSteps(_, _, _, _, _, _)
GiantSteps(babies, giant_step, giant, i, m, p) ==
  IF i > m + 1 THEN None
  ELSE LET next == Wrap(giant * giant_step) % p
           js == {j \in 0 .. m - 1 : babies[j + 1] = next}
       IN IF js # {} THEN i * m - Max(js)
          ELSE GiantSteps(babies, giant_step, next, i + 1, m, p)
BsgsPrime(a, b, p, b_div) ==
  LET m == CeilSqrt(p)
      babies == FoldLeft(LAMBDA t, j : Append(t, Wrap(Last(t) * a) % p), <<b>>,
                         [j \in 1 .. m - 1 |-> j])
  IN GiantSteps(babies, ExpMod(a, m, p), b_div, 1, m, p)

\* The loop that divides the common factors of a and p out.
RECURSIVE Reduce(_, _, _, _, _)
Reduce(a, b, p, reduce_count, b_one) ==
  LET q == Gcd(p, a)
      next == Wrap(b_one * (a \div q)) % (p \div q)
      x == BsgsPrime(a, b, p, b_one)
  IN CASE q = 1 -> IF x = None THEN None ELSE x + reduce_count
       [] q # 1 /\ b % q # 0 -> None
       [] OTHER -> IF b \div q = next THEN reduce_count + 1
                   ELSE Reduce(a, b \div q, p \div q, reduce_count + 1, next)
BabyStepGiantStep(a, b, p) ==
  CASE b % p = 1 -> 0
    [] b % p # 1 /\ p = 1 -> 0
    [] OTHER -> Reduce(a % p, b % p, p, 0, 1)

\* main: a line of zeros ends it; a modulus of zero makes the first % panic.
Init == bsgs = [a |-> 0, b |-> 0, p |-> 0, answer |-> None]
ReadLine ==
  /\ bsgs = [a |-> 0, b |-> 0, p |-> 0, answer |-> None]
  /\ \E p \in 0 .. MaxP : \E a, b \in 0 .. p + 1 :
       /\ a # 0 \/ b # 0 \/ p # 0
       /\ bsgs' = [a |-> a, b |-> b, p |-> p,
                   answer |-> IF p = 0 THEN Panic ELSE BabyStepGiantStep(a, b, p)]
Next == ReadLine

--------------------------------------------------------------------------------
\* "Computes (a * b) % m, without overflows", over all the words a and b.
MulModExact == \A a, b \in Word, m \in Moduli : MulMod(a, b, m) = (a * b) % m

\* The powers of a modulo p: all of them are among the first p + 1.
Powers(a, p) == FoldLeft(LAMBDA t, j : Append(t, (Last(t) * a) % p), <<1 % p>>, [j \in 1 .. p |-> j])

\* mul_mod never overflows, whatever the modulus, and for a modulus whose square
\* fits in a word the answer is the least logarithm, or None when there is none,
\* also when a and p have common factors or a is zero.  (For larger ones the plain
\* products of the two loops wrap around, and answers are wrong or missed.)
LogarithmLeast ==
  /\ bsgs.p = 0 /\ bsgs.answer = None => MulModExact
  /\ bsgs.p # 0 /\ bsgs.p * bsgs.p <= 2 ^ Width =>
       LET powers == Powers(bsgs.a, bsgs.p)
           xs == {x \in 0 .. bsgs.p : powers[x + 1] = bsgs.b % bsgs.p}
       IN bsgs.answer = IF xs = {} THEN None ELSE Min(xs)
================================================================================
