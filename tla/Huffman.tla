------------------------------ MODULE Huffman ------------------------------
(***************************************************************************)
(* The Huffman code of PerfectLib/HPACK.swift: HuffmanEncoder.encode and   *)
(* HuffmanDecoder.decode with its tree of bytes.  A text is a sequence of  *)
(* bytes 0..255, its code a sequence of bits that is cut into bytes.       *)
(***************************************************************************)
EXTENDS Naturals, Integers, Sequences, SequencesExt

huffmanEOS == 256

huffmanCodes == <<
  8184, 8388568, 268435426, 268435427, 268435428, 268435429, 268435430,
  268435431, 268435432, 16777194, 1073741820, 268435433, 268435434,
  1073741821, 268435435, 268435436, 268435437, 268435438, 268435439,
  268435440, 268435441, 268435442, 1073741822, 268435443, 268435444,
  268435445, 268435446, 268435447, 268435448, 268435449, 268435450,
  268435451, 20, 1016, 1017, 4090, 8185, 21, 248, 2042, 1018, 1019, 249,
  2043, 250, 22, 23, 24, 0, 1, 2, 25, 26, 27, 28, 29, 30, 31, 92, 251,
  32764, 32, 4091, 1020, 8186, 33, 93, 94, 95, 96, 97, 98, 99, 100, 101,
  102, 103, 104, 105, 106, 107, 108, 109, 110, 111, 112, 113, 114, 252,
  115, 253, 8187, 524272, 8188, 16380, 34, 32765, 3, 35, 4, 36, 5, 37, 38,
  39, 6, 116, 117, 40, 41, 42, 7, 43, 118, 44, 8, 9, 45, 119, 120, 121,
  122, 123, 32766, 2044, 16381, 8189, 268435452, 1048550, 4194258, 1048551,
  1048552, 4194259, 4194260, 4194261, 8388569, 4194262, 8388570, 8388571,
  8388572, 8388573, 8388574, 16777195, 8388575, 16777196, 16777197,
  4194263, 8388576, 16777198, 8388577, 8388578, 8388579, 8388580, 2097116,
  4194264, 8388581, 4194265, 8388582, 8388583, 16777199, 4194266, 2097117,
  1048553, 4194267, 4194268, 8388584, 8388585, 2097118, 8388586, 4194269,
  4194270, 16777200, 2097119, 4194271, 8388587, 8388588, 2097120, 2097121,
  4194272, 2097122, 8388589, 4194273, 8388590, 8388591, 1048554, 4194274,
  4194275, 4194276, 8388592, 4194277, 4194278, 8388593, 67108832, 67108833,
  1048555, 524273, 4194279, 8388594, 4194280, 33554412, 67108834, 67108835,
  67108836, 134217694, 134217695, 67108837, 16777201, 33554413, 524274,
  2097123, 67108838, 134217696, 134217697, 67108839, 134217698, 16777202,
  2097124, 2097125, 67108840, 67108841, 268435453, 134217699, 134217700,
  134217701, 1048556, 16777203, 1048557, 2097126, 4194281, 2097127,
  2097128, 8388595, 4194282, 4194283, 33554414, 33554415, 16777204,
  16777205, 67108842, 8388596, 67108843, 134217702, 67108844, 67108845,
  134217703, 134217704, 134217705, 134217706, 134217707, 268435454,
  134217708, 134217709, 134217710, 134217711, 134217712, 67108846,
  1073741823 >>

huffmanCodeLengths == <<
  13, 23, 28, 28, 28, 28, 28, 28, 28, 24, 30, 28, 28, 30, 28, 28, 28, 28,
  28, 28, 28, 28, 30, 28, 28, 28, 28, 28, 28, 28, 28, 28, 6, 10, 10, 12,
  13, 6, 8, 11, 10, 10, 8, 11, 8, 6, 6, 6, 5, 5, 5, 6, 6, 6, 6, 6, 6, 6, 7,
  8, 15, 6, 12, 10, 13, 6, 7, 7, 7, 7, 7, 7, 7, 7, 7, 7, 7, 7, 7, 7, 7, 7,
  7, 7, 7, 7, 7, 7, 8, 7, 8, 13, 19, 13, 14, 6, 15, 5, 6, 5, 6, 5, 6, 6, 6,
  5, 7, 7, 6, 6, 6, 5, 6, 7, 6, 5, 5, 6, 7, 7, 7, 7, 7, 15, 11, 14, 13, 28,
  20, 22, 20, 20, 22, 22, 22, 23, 22, 23, 23, 23, 23, 23, 24, 23, 24, 24,
  22, 23, 24, 23, 23, 23, 23, 21, 22, 23, 22, 23, 23, 24, 22, 21, 20, 22,
  22, 23, 23, 21, 23, 22, 22, 24, 21, 22, 23, 23, 21, 21, 22, 21, 23, 22,
  23, 23, 20, 22, 22, 22, 23, 22, 22, 23, 26, 26, 20, 19, 22, 23, 22, 25,
  26, 26, 26, 27, 27, 26, 24, 25, 19, 21, 26, 27, 27, 26, 27, 24, 21, 21,
  26, 26, 28, 27, 27, 27, 20, 24, 20, 21, 22, 21, 21, 23, 22, 22, 25, 25,
  24, 24, 26, 23, 26, 27, 26, 26, 27, 27, 27, 27, 27, 28, 27, 27, 27, 27,
  27, 26, 30 >>

Bits(n, len) == [i \in 1..len |-> (n \div 2^(len - i)) % 2]

(* The code of each symbol, EOS included.                                  *)
CodeOf == [s \in 0..huffmanEOS |-> Bits(huffmanCodes[s + 1], huffmanCodeLengths[s + 1])]

-----------------------------------------------------------------------------
CodeBits(text) == FlattenSeq([i \in 1..Len(text) |-> CodeOf[text[i]]])

(* getEncodedLength.                                                       *)
EncodedLength(text) == (Len(CodeBits(text)) + 7) \div 8

(* encode: the codes one after the other, filled up with ones.             *)
HuffmanEncode(text) ==
  LET bits == CodeBits(text) IN
  [i \in 1..EncodedLength(text) |->
     FoldSeq(LAMBDA bit, n : bit + n, 0,
             [j \in 1..8 |-> LET k == 8 * (i - 1) + j IN
                2^(8 - j) * (IF k <= Len(bits) THEN bits[k] ELSE 1)])]

-----------------------------------------------------------------------------
(* The tree.  A node is the path to it, a multiple of eight bits; the      *)
(* child for byte c is the leaf of a code that ends within c, or the inner *)
(* node of codes that go on.                                               *)

Leaf(path, c) ==
  {s \in 0..huffmanEOS :
     Len(CodeOf[s]) > Len(path) /\ IsPrefix(CodeOf[s], path \o c)}

(* Node.bits of a leaf: insert gives it the length of the whole code, also *)
(* where the path to the leaf has used up whole bytes of it already.       *)
LeafBits(path, s) == Len(CodeOf[s])

(* decode, one byte after the other.  st.at is how many bits of the input  *)
(* have been taken over by current, st.bits how many of these are still to *)
(* be used; Window is (current >> (bits - 8)) & 0xFF.                      *)
DecoderStart == [path |-> <<>>, at |-> 0, bits |-> 0, text |-> <<>>, failed |-> FALSE]

Window(input, st) == SubSeq(input, st.at - st.bits + 1, st.at - st.bits + 8)

RECURSIVE UseBits(_, _)
UseBits(input, st) ==
  IF st.bits < 8 \/ st.failed THEN st
  ELSE LET c    == Window(input, st)
           leaf == Leaf(st.path, c)
       IN UseBits(input,
            IF leaf = {} THEN [st EXCEPT !.path = @ \o c, !.bits = @ - 8]
            ELSE LET s == CHOOSE s \in leaf : TRUE IN
                 [st EXCEPT !.path = <<>>,
                            !.bits = @ - LeafBits(st.path, s),
                            !.failed = (s = huffmanEOS),
                            !.text = Append(@, s)])

(* The last bits, filled up with zeros.                                    *)
RECURSIVE UseRest(_, _)
UseRest(input, st) ==
  IF st.bits <= 0 \/ st.failed THEN st
  ELSE LET rest == SubSeq(input, st.at - st.bits + 1, st.at)
           leaf == Leaf(st.path, rest \o [i \in 1..(8 - st.bits) |-> 0])
       IN IF \E s \in leaf : LeafBits(st.path, s) <= st.bits
          THEN LET s == CHOOSE s \in leaf : TRUE IN
               UseRest(input, [st EXCEPT !.path = <<>>,
                                         !.bits = @ - LeafBits(st.path, s),
                                         !.text = Append(@, s)])
          ELSE st

(* decode: the text, or that it failed.  What is left must be ones; a      *)
(* negative number of bits left makes the shift of the mask trap.          *)
HuffmanDecode(bytes) ==
  LET input == FlattenSeq([i \in 1..Len(bytes) |-> Bits(bytes[i], 8)])
      used  == FoldSeq(LAMBDA b, st : UseBits(input, [st EXCEPT !.at = @ + 8, !.bits = @ + 8]),
                       DecoderStart, bytes)
      st    == UseRest(input, used)
  IN  [text |-> st.text,
       failed |-> \/ st.failed \/ st.bits < 0
                  \/ \E i \in (st.at - st.bits + 1)..st.at : input[i] = 0]

=============================================================================
