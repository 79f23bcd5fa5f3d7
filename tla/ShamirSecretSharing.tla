-------------------------- MODULE ShamirSecretSharing --------------------------
(***************************************************************************)
(* ShamirSecretSharing/src: one byte of a secret is shared by a random       *)
(* polynomial (shamir.rs, poly.rs) over a field of characteristic two        *)
(* (gf256.rs), and reconstructed from the shares that come in.  A byte is    *)
(* the set of its bits that are one, so that ^ is the symmetric difference.  *)
(***************************************************************************)
EXTENDS Integers, Sequences, SequencesExt

CONSTANTS Bits,           \* the width of a byte: 8 in the code
          Remainder,      \* RIJNDAEL_REMAINDER, as a set of bits: {0, 1, 3, 4} in the code
          MaxN            \* bound on the number of shares

VARIABLE shamir           \* n, k, force_reconstruction, the polynomial drawn, the
                          \* shares handed to reconstruct_secret; the powers computed
                          \* so far and the two tables
vars == shamir

Byte == SUBSET (0 .. Bits - 1)
Zero == {}
One == {0}
Top == 2 ^ Bits - 1       \* 255
AsByte(i) == {b \in 0 .. Bits - 1 : (i \div 2 ^ b) % 2 = 1}

\* A byte shifted left, and that byte times the generator 3 of the field.
Shl(x) == {b + 1 : b \in x} \ {Bits}
Tripled(x) == SymDiff(SymDiff(x, Shl(x)), IF Bits - 1 \in x THEN Remainder ELSE Zero)

\* make_exp_tables: one more power of the generator; with Top + 1 of them the table
\* is complete.  The loop writes the entry Top twice: the last power replaces the first.
NextPower(exp) == Append(exp, Tripled(Last(exp)))
ExpTable(powers) == [i \in 0 .. 2 * Top |-> IF i <= Top THEN powers[i + 1] ELSE powers[i - Top + 1]]
\* log_table_from_exp_table: the least exponent; the entry of zero stays 0.
LogTable(exp) ==
  [x \in Byte |-> IF x = Zero THEN 0
                  ELSE CHOOSE i \in 0 .. Top : exp[i] = x /\ \A j \in 0 .. i - 1 : exp[j] # x]

Add(x, y) == SymDiff(x, y)
Mul(x, y) == IF x = Zero \/ y = Zero THEN Zero
             ELSE shamir.exp[shamir.log[x] + shamir.log[y]]
Inv(x) == shamir.exp[Top - shamir.log[x]]
\* A division by zero panics: it is a guard of the callers.
Div(x, y) == IF x = Zero THEN Zero ELSE shamir.exp[shamir.log[x] + Top - shamir.log[y]]

\* eval_at: Horner's rule from the last coefficient down.
EvalAt(poly, x) == FoldRight(LAMBDA v, acc : Add(Mul(acc, x), v), poly, Zero)

\* lagrange_interpolate_y; x - xx is zero when an x occurs twice.
Basis(points, i) ==
  FoldLeftDomain(LAMBDA l, j : IF j = i THEN l
                               ELSE Div(Mul(l, points[j].x), Add(points[i].x, points[j].x)),
                 One, points)
Interpolate(points) ==
  FoldLeftDomain(LAMBDA c, i : Add(c, Mul(points[i].y, Basis(points, i))), Zero, points)

\* random_monic_with_const: k random coefficients, of which the first is then the
\* byte of the secret and the last one.  new_inclusive is new: Top is never drawn.
\* Mutant: the leading coefficient is left at random.
Polynomials_NotMonic(k, byte) ==
  {p \in [1 .. k -> Byte \ {AsByte(Top)}] : p[1] = byte}
Polynomials(k, byte) ==
  {p \in [1 .. k -> Byte] : /\ p[1] = byte
                            /\ p[k] = One
                            /\ \A i \in 2 .. k - 1 : p[i] # AsByte(Top)}

Init ==
  /\ \E n \in 1 .. MaxN, force \in BOOLEAN : \E k \in 0 .. n :
       shamir = [n |-> n, k |-> k, force |-> force, poly |-> <<>>, points |-> <<>>,
                 powers |-> <<One>>, exp |-> <<>>, log |-> <<>>]

\* The tables, which are made once, before any use.
MakeTables ==
  /\ shamir.exp = <<>>
  /\ shamir' = IF Len(shamir.powers) <= Top
               THEN [shamir EXCEPT !.powers = NextPower(@)]
               ELSE LET exp == ExpTable(shamir.powers) IN
                    [shamir EXCEPT !.powers = <<>>, !.exp = exp, !.log = LogTable(exp)]

\* share_secret: a polynomial for the byte; with k < 2 the program panics.
ShareSecret ==
  /\ shamir.exp # <<>> /\ shamir.poly = <<>> /\ shamir.k >= 2
  /\ \E byte \in Byte : \E poly \in Polynomials(shamir.k, byte) :
       shamir' = [shamir EXCEPT !.poly = poly]

\* One more share comes in, maybe one that came in before.
GiveShare ==
  /\ shamir.poly # <<>> /\ Len(shamir.points) < shamir.n
  /\ \E id \in 1 .. shamir.n :
       shamir' = [shamir EXCEPT !.points =
                    Append(@, [x |-> AsByte(id), y |-> EvalAt(shamir.poly, AsByte(id))])]

Next == MakeTables \/ ShareSecret \/ GiveShare

\* reconstruct_secret of the shares that came in.
None == [outcome |-> "none", byte |-> Zero]
Some(byte) == [outcome |-> "some", byte |-> byte]
Panic == [outcome |-> "panic", byte |-> Zero]
ReconstructSecret ==
  CASE shamir.points = <<>> -> None
    [] shamir.points # <<>> /\ Len(shamir.points) < shamir.k /\ ~shamir.force -> None
    [] OTHER -> IF IsInjective(shamir.points) THEN Some(Interpolate(shamir.points)) ELSE Panic

--------------------------------------------------------------------------------
\* The tables make the bytes a field: multiplication is that of polynomials over
\* the bits, reduced, and every byte but zero has an inverse.
Doubled(x) == SymDiff(Tripled(x), x)
FieldLaws ==
  /\ shamir.exp[0] = shamir.exp[Top]
  /\ \A x \in Byte :
       /\ Mul(x, One) = x
       /\ x # Zero => Mul(x, Inv(x)) = One /\ Div(One, x) = Inv(x)
       /\ \A b \in 0 .. Bits - 2 : Mul(x, {b + 1}) = Doubled(Mul(x, {b}))
       /\ \A y \in Byte : \A b \in y : Mul(x, y) = Add(Mul(x, {b}), Mul(x, y \ {b}))

\* Any k different shares, in any order, give the secret back, and so do more;
\* fewer give nothing unless forced; forced, k - 1 shares always give a wrong
\* byte (the polynomial is monic); a share that comes in twice makes the program
\* divide by zero, once it interpolates.
SecretShared ==
  /\ shamir.exp # <<>> /\ shamir.poly = <<>> /\ shamir.k = 0 => FieldLaws
  /\ shamir.poly # <<>> =>
       LET secret == Some(shamir.poly[1])
           given == Len(shamir.points)
       IN /\ given < shamir.k /\ ~shamir.force => ReconstructSecret = None
          /\ IsInjective(shamir.points) /\ given >= shamir.k => ReconstructSecret = secret
          /\ IsInjective(shamir.points) /\ given = shamir.k - 1 => ReconstructSecret # secret
          /\ ~IsInjective(shamir.points) => ReconstructSecret \in {None, Panic}
================================================================================
