------------------------------ MODULE SuccinctTrie ------------------------------
(***************************************************************************)
(* SuccinctTrie/src: words inserted in a trie (trie.rs), the trie encoded in *)
(* level order by a writer of bits (bitwriter.rs), and the lookups on the    *)
(* encoding by rank and select (bitquery.rs).  A node is its prefix; a byte  *)
(* is the sequence of its bits, TRUE for 1, the highest first.               *)
(***************************************************************************)
EXTENDS Integers, Sequences, SequencesExt

CONSTANTS Width,          \* the bits of a byte: 8 in the code
          Letters,
          MaxDepth        \* bound on the length of a word

VARIABLE trie             \* the nodes; the encoder's queue, char_vec and writer; frozen
vars == trie

Bit == BOOLEAN
Children(node) == {chr \in Letters : Append(node, chr) \in trie.nodes}

\* The writer: the bytes written, and the `offset' low bits of `byte'.
NewWriter == [bytes |-> <<>>, byte |-> <<>>]
Stored(w) == IF Len(w.byte) = Width THEN [bytes |-> Append(w.bytes, w.byte), byte |-> <<>>] ELSE w
Write(w, is_one) == Stored([w EXCEPT !.byte = Append(@, is_one)])
Copies(is_one, n) == [i \in 1 .. n |-> is_one]
WriteN(w, is_one, n) ==
  LET write_len == IF w.byte = <<>> THEN 0 ELSE Min({Width - Len(w.byte), n})
      filled == Stored([w EXCEPT !.byte = @ \o Copies(is_one, write_len)])
      rest == n - write_len
  IN IF filled.byte # <<>> THEN filled
     ELSE [bytes |-> filled.bytes \o Copies(Copies(is_one, Width), rest \div Width),
           byte |-> Copies(is_one, rest % Width)]
FlushLeftover(w) == IF w.byte = <<>> THEN w ELSE WriteN(w, FALSE, Width - Len(w.byte))

\* The bits of a byte that are is_one, among the first r (MASK_TOP_0, MASK_TOP_1).
Count(byte, is_one, r) == Cardinality({i \in 1 .. r : byte[i] = is_one})
CountIn(bit_vec, is_one, n) ==
  FoldLeft(LAMBDA cnt, byte : cnt + Count(byte, is_one, Width), 0, SubSeq(bit_vec, 1, n))
RankOf(bit_vec, is_one, x) ==
  LET n == x \div Width
      r == x % Width
  IN CountIn(bit_vec, is_one, n) + (IF r = 0 THEN 0 ELSE Count(bit_vec[n + 1], is_one, r))

\* The position of the x-th bit that is is_one: in the first byte with enough of
\* them up to its end, where cnt are in the bytes before byte i.
Underflow == -1
Overflow == -2
RECURSIVE SelectFrom(_, _, _, _, _)
SelectFrom(bit_vec, is_one, x, i, cnt) ==
  IF i = Len(bit_vec) THEN Overflow
  ELSE LET byte == bit_vec[i + 1]
           byte_cnt == Count(byte, is_one, Width)
       IN IF cnt + byte_cnt < x THEN SelectFrom(bit_vec, is_one, x, i + 1, cnt + byte_cnt)
          ELSE i * Width + Min({r \in 1 .. Width : Count(byte, is_one, r) = x - cnt}) - 1
SelectOf(bit_vec, is_one, x) ==
  IF x = 0 THEN Underflow ELSE SelectFrom(bit_vec, is_one, x, 0, 0)

\* The first and the last child of the node numbered index in level order.
GetChildren(bit_vec, index) ==
  LET before == SelectOf(bit_vec, FALSE, index)
  IN [fst |-> IF before = Underflow THEN 1 ELSE before - index + 2,
      lst |-> SelectOf(bit_vec, FALSE, index + 1) - (index + 1) + 2 - 1]
\* The number of the node reached by a string, or NotFound.
NotFound == -1
Descend(char_vec, bit_vec, string) ==
  LET Child(i_node, chr) ==
        LET range == GetChildren(bit_vec, i_node)
            found == {i \in range.fst .. range.lst : char_vec[i] = chr}
        IN IF found = {} THEN NotFound ELSE Min(found)
  IN FoldLeft(LAMBDA i_node, chr : IF i_node = NotFound THEN NotFound ELSE Child(i_node, chr),
              0, string)
ContainsKey(char_vec, bit_vec, string) ==
  LET i_node == Descend(char_vec, bit_vec, string)
      range == GetChildren(bit_vec, i_node)
  IN i_node # NotFound /\ range.fst > range.lst

Init == trie = [nodes |-> {<<>>}, queue |-> <<>>, char_vec |-> <<>>, writer |-> NewWriter,
                phase |-> "building"]

Insert ==
  /\ trie.phase = "building"
  /\ \E string \in BoundedSeq(Letters, MaxDepth) :
       trie' = [trie EXCEPT !.nodes = @ \cup {SubSeq(string, 1, i) : i \in 0 .. Len(string)}]

\* encode: the children of a node come out of their HashMap in any order.
StartEncode ==
  /\ trie.phase = "building"
  /\ trie' = [trie EXCEPT !.phase = "encoding", !.queue = <<<<>>>>]
EncodeNode ==
  /\ trie.phase = "encoding" /\ trie.queue # <<>>
  /\ LET node == Head(trie.queue)
         n == Cardinality(Children(node))
     IN \E chrs \in {f \in [1 .. n -> Children(node)] : IsInjective(f)} :
          trie' = [trie EXCEPT
                     !.queue = Tail(@) \o [i \in 1 .. n |-> Append(node, chrs[i])],
                     !.char_vec = @ \o chrs,
                     !.writer = Write(WriteN(@, TRUE, n), FALSE)]
Freeze ==
  /\ trie.phase = "encoding" /\ trie.queue = <<>>
  /\ trie' = [trie EXCEPT !.phase = "frozen", !.writer = FlushLeftover(@)]

Next == Insert \/ StartEncode \/ EncodeNode \/ Freeze

--------------------------------------------------------------------------------
\* write_n is that many times write, from every state of the writer, and the
\* bits come out in the order in which they went in.
WriterExact ==
  \A b0, b1 \in Bit, n0, n1 \in 0 .. 2 * Width + 1 :
    LET Times(w, b, n) == FoldLeft(LAMBDA acc, bit : Write(acc, bit), w, Copies(b, n))
        w1 == WriteN(WriteN(NewWriter, b0, n0), b1, n1)
    IN /\ w1 = Times(Times(NewWriter, b0, n0), b1, n1)
       /\ FlattenSeq(w1.bytes) \o w1.byte = Copies(b0, n0) \o Copies(b1, n1)

\* select finds the x-th bit: rank counts x - 1 of them before it and x with it;
\* it overflows exactly when there are fewer.
SelectInvertsRank ==
  \A bit_vec \in [1 .. 2 -> [1 .. Width -> Bit]], b \in Bit : \A x \in 1 .. Width * Len(bit_vec) :
    LET p == SelectOf(bit_vec, b, x) IN
    IF p = Overflow THEN RankOf(bit_vec, b, Width * Len(bit_vec)) < x
    ELSE RankOf(bit_vec, b, p) = x - 1 /\ RankOf(bit_vec, b, p + 1) = x

\* Whatever was inserted and in whatever order the children were encoded: the
\* encoding holds the words that end in a leaf, and no others.  A word that is a
\* prefix of another is lost, and the empty trie holds the empty word.  The
\* zeros that fill the last byte look like childless nodes, but none is reached.
EncodingExact ==
  /\ trie.phase = "building" /\ trie.nodes = {<<>>} => WriterExact /\ SelectInvertsRank
  /\ trie.phase = "frozen" =>
       /\ trie.writer.byte = <<>>
       /\ \A string \in BoundedSeq(Letters, MaxDepth + 1) :
            ContainsKey(trie.char_vec, trie.writer.bytes, string)
              <=> string \in trie.nodes /\ Children(string) = {}
================================================================================
