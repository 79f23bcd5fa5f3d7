------------------------- MODULE CyclicRedundancyCheck -------------------------
(***************************************************************************)
(* CyclicRedundancyCheck/src/crc.rs: the check of data that grows byte by    *)
(* byte, by long division of its bits and by the two tables.  A byte and a   *)
(* word are the sets of their bits that are one; bit 0 is the lowest.        *)
(***************************************************************************)
EXTENDS Integers, Sequences, SequencesExt

CONSTANTS ByteBits,       \* 8 in the code
          WordBits,       \* 32 in the code
          Poly,           \* CRC_ISO_13818_1, without its bit WordBits
          MaxLen          \* bound on the length of the data

WidthAssumption == ByteBits \in Nat \ {0} /\ WordBits \in Nat /\ ByteBits <= WordBits
\* crc32_bitvec asserts the highest and the lowest coefficient.
PolyAssumption == Poly \subseteq 0 .. WordBits - 1 /\ 0 \in Poly

VARIABLE data
vars == data

Byte == SUBSET (0 .. ByteBits - 1)
Ones == 0 .. WordBits - 1
Shl(x, k) == {b + k : b \in x} \cap Ones
Shr(x, k) == {b - k : b \in x} \cap Ones
AsByte(x) == x \cap (0 .. ByteBits - 1)

\* reverse_bits of a word, and of a byte (make_rev_bits_table).
Reversed(x) == {WordBits - 1 - b : b \in x}
ReversedByte(x) == {ByteBits - 1 - b : b \in x}

\* The loop of crc32_bitvec: where a bit is one, the polynomial is taken off.
LongDivision(dividend, data_len) ==
  FoldLeft(LAMBDA d, i :
             IF d[i] THEN [k \in DOMAIN d |->
               IF k = i \/ (k \in i + 1 .. i + WordBits /\ i + WordBits - k \in Poly) THEN ~d[k] ELSE d[k]]
             ELSE d,
           dividend, [i \in 1 .. data_len |-> i])
Remainder(dividend, data_len) ==
  LET divided == LongDivision(dividend, data_len) IN
  {b \in Ones : divided[data_len + WordBits - b]}
\* The bits of the data, the highest of each byte first, with zeros to fill.
Filled(bytes) ==
  [i \in 1 .. ByteBits * Len(bytes) + WordBits |->
     /\ i <= ByteBits * Len(bytes)
     /\ ByteBits - 1 - ((i - 1) % ByteBits) \in bytes[(i - 1) \div ByteBits + 1]]
Crc32Bitvec(bytes) == Remainder(Filled(bytes), ByteBits * Len(bytes))

\* make_table_msb and make_table_lsb: one step for each bit of the index.
StepMsb(value) ==
  IF WordBits - 1 \in value THEN SymDiff(Shl(value, 1), Poly) ELSE Shl(value, 1)
TableMsb(i) ==
  FoldLeft(LAMBDA value, k : StepMsb(value), Shl(i, WordBits - ByteBits), [k \in 1 .. ByteBits |-> k])
StepLsb(value) == IF 0 \in value THEN SymDiff(Shr(value, 1), Reversed(Poly)) ELSE Shr(value, 1)
TableLsb(i) == FoldLeft(LAMBDA value, k : StepLsb(value), i, [k \in 1 .. ByteBits |-> k])

\* crc32_msb gives the register as it is, crc32_lsb its complement.
Crc32Msb(bytes) ==
  FoldLeft(LAMBDA res, i :
             SymDiff(Shl(res, ByteBits), TableMsb(SymDiff(i, Shr(res, WordBits - ByteBits)))),
           Ones, bytes)
Crc32Lsb(bytes) ==
  Ones \ FoldLeft(LAMBDA res, i :
                    SymDiff(TableLsb(SymDiff(AsByte(res), i)), Shr(res, ByteBits)),
                  Ones, bytes)

Init == data = <<>>
Push == Len(data) < MaxLen /\ \E byte \in Byte : data' = Append(data, byte)
Next == Push

--------------------------------------------------------------------------------
\* The three agree on all data: the tables divide the data whose first WordBits
\* bits are complemented (the register starts from ones), also when the data is
\* shorter than that; and the two tables are each other's mirror.
ChecksAgree ==
  LET complemented == [i \in DOMAIN Filled(data) |-> Filled(data)[i] # (i <= WordBits)] IN
  /\ Crc32Msb(data) = Remainder(complemented, ByteBits * Len(data))
  /\ Crc32Lsb([i \in DOMAIN data |-> ReversedByte(data[i])]) = Ones \ Reversed(Crc32Msb(data))

\* Appending its check to data, whole bytes of it, makes the check zero.
CheckDetects ==
  WordBits % ByteBits = 0 =>
    LET check == Crc32Bitvec(data)
        bytes == [k \in 1 .. WordBits \div ByteBits |-> AsByte(Shr(check, WordBits - k * ByteBits))]
    IN Crc32Bitvec(data \o bytes) = {}
================================================================================
