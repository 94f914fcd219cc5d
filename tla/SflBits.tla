------------------------------ MODULE SflBits ------------------------------
(***************************************************************************)
(* Bitstrings (libsfl/sflbits.c): a table of sections, each all zeroes, all *)
(* ones, or a chain of blocks with the section compressed by compress_bits *)
(* (libsfl/sflcomp.c).  Blocks no longer used are kept in a free list.      *)
(*                                                                         *)
(* A byte is the set of its bits.  A compressed section is a sequence of    *)
(* cells of one byte: a code, what belongs to it, and Rest for a byte that  *)
(* only makes the code longer.                                             *)
(***************************************************************************)
EXTENDS Integers, SequencesExt

CONSTANTS
  BYTE,          \* bits in a byte
  CHUNK,         \* the longest uncompressed string, 120
  BIT_SECTSIZE, BIT_INDEXSIZE, BIT_DATASIZE,
  Bit            \* the bits that are set and cleared

VARIABLE bits    \* [index, block, free_list]; the number of blocks is Len(block)

Sections == 0 .. BIT_INDEXSIZE - 1
PerSection == BIT_SECTSIZE * BYTE
AllBits  == 0 .. BIT_INDEXSIZE * PerSection - 1
Full     == 0 .. BYTE - 1
Zeroes   == [i \in 1 .. BIT_SECTSIZE |-> {}]
Ones     == [i \in 1 .. BIT_SECTSIZE |-> Full]

-----------------------------------------------------------------------------
(* compress_bits                                                            *)

Rest == <<"rest">>
Long(cell, size) == <<cell>> \o [i \in 1 .. size - 1 |-> Rest]

ZeroRun(n)    == Long(<<"zeroes", n>>, IF n < 127 THEN 1 ELSE IF n < 381 THEN 2 ELSE 3)
SameRun(n, b) == Long(<<"same", n, b>>, IF n < 256 THEN 4 ELSE 5)
Unpacked(str) ==
  IF str = << >> THEN << >>
  ELSE << <<"string", Len(str)>> >> \o [i \in DOMAIN str |-> <<"byte", str[i]>>]

RunAt(src, i) ==
  (IF \E j \in i .. Len(src) : src[j] # src[i]
     THEN Min({j \in i .. Len(src) : src[j] # src[i]}) ELSE Len(src) + 1) - i

(* Mutant: a run of three is taken for a run of four.                       *)
RECURSIVE CodesShortRun(_, _, _)
CodesShortRun(src, i, str) ==
  IF i > Len(src) THEN Unpacked(str)
  ELSE LET b == src[i]
           n == RunAt(src, i)
       IN  CASE b = {} -> Unpacked(str) \o ZeroRun(n) \o CodesShortRun(src, i + n, << >>)
             [] Cardinality(b) = 1 ->
                  Unpacked(str) \o << <<"bit", b>> >> \o CodesShortRun(src, i + 1, << >>)
             [] Cardinality(b) > 1 /\ n >= 3 ->
                  Unpacked(str) \o SameRun(4, b) \o CodesShortRun(src, i + n, << >>)
             [] OTHER -> CodesShortRun(src, i + 1, Append(str, b))

(* From byte i on, with an unpacked string open that is closed by the next  *)
(* code or when it is full.                                                 *)
RECURSIVE Codes(_, _, _)
Codes(src, i, str) ==
  IF i > Len(src) THEN Unpacked(str)
  ELSE LET b == src[i]
           n == RunAt(src, i)
       IN  CASE b = {} -> Unpacked(str) \o ZeroRun(n) \o Codes(src, i + n, << >>)
             [] Cardinality(b) = 1 ->
                  Unpacked(str) \o << <<"bit", b>> >> \o Codes(src, i + 1, << >>)
             [] Cardinality(b) > 1 /\ n >= 4 ->
                  Unpacked(str) \o SameRun(n, b) \o Codes(src, i + n, << >>)
             [] OTHER ->
                  IF Len(str) + 1 = CHUNK
                    THEN Unpacked(Append(str, b)) \o Codes(src, i + 1, << >>)
                    ELSE Codes(src, i + 1, Append(str, b))

compress_bits(src) == Codes(src, 1, << >>)

(* expand_bits                                                              *)
RECURSIVE expand_bits(_)
expand_bits(src) ==
  IF src = << >> THEN << >>
  ELSE LET code == src[1]
           After(size) == expand_bits(SubSeq(src, size + 1, Len(src)))
       IN  CASE code[1] = "bit" -> <<code[2]>> \o After(1)
             [] code[1] = "string" ->
                  [i \in 1 .. code[2] |-> src[i + 1][2]] \o After(code[2] + 1)
             [] code[1] = "zeroes" ->
                  [i \in 1 .. code[2] |-> {}] \o After(Len(ZeroRun(code[2])))
             [] code[1] = "same" ->
                  [i \in 1 .. code[2] |-> code[3]] \o After(Len(SameRun(code[2], code[3])))

-----------------------------------------------------------------------------
(* Sections.  An index entry is 0, OnesMark (0xFFFF) or a block.            *)

OnesMark == -1

RECURSIVE Chain(_, _)
Chain(b, n) == IF n <= 0 THEN << >> ELSE <<n>> \o Chain(b, b.block[n].right)

section_of(bit)     == bit \div PerSection
byte_of(bit)        == (bit % PerSection) \div BYTE + 1
bit_in_byte(bit)    == bit % BYTE

(* get_section: the bytes; and, for an update, the bitstring without the    *)
(* blocks, each of which is put in front of the free list.                  *)
Section(b, s) ==
  CASE b.index[s] = 0        -> Zeroes
    [] b.index[s] = OnesMark -> Ones
    [] b.index[s] > 0        ->
         LET chain == Chain(b, b.index[s])
         IN  expand_bits(FlattenSeq([i \in DOMAIN chain |-> b.block[chain[i]].data]))

(* Mutant: keeps the rest of the section's blocks out of the free list.     *)
ReleasedFirst(b, s) ==
  LET first == b.index[s]
  IN  IF first \in {0, OnesMark} THEN b
      ELSE [index     |-> [b.index EXCEPT ![s] = 0],
            block     |-> [b.block EXCEPT ![first] = [data |-> << >>, right |-> b.free_list]],
            free_list |-> first]

Released(b, s) ==
  LET chain == Chain(b, b.index[s])
      At(n) == CHOOSE i \in DOMAIN chain : chain[i] = n
  IN  IF chain = << >> THEN b
      ELSE [index     |-> [b.index EXCEPT ![s] = 0],
            block     |-> [n \in DOMAIN b.block |->
                             IF n \in ToSet(chain)
                               THEN [data  |-> << >>,
                                     right |-> IF At(n) = 1 THEN b.free_list
                                               ELSE chain[At(n) - 1]]
                               ELSE b.block[n]],
            free_list |-> Last(chain)]

(* put_section                                                              *)
put_section(b, s, data) ==
  LET codes == compress_bits(data)
      need  == (Len(codes) + BIT_DATASIZE - 1) \div BIT_DATASIZE
      free  == Chain(b, b.free_list)
      chain == [i \in 1 .. need |->
                  IF i <= Len(free) THEN free[i] ELSE Len(b.block) + i - Len(free)]
      Slice(i) == SubSeq(codes, (i - 1) * BIT_DATASIZE + 1,
                         Min({i * BIT_DATASIZE, Len(codes)}))
      Linked(i) == [data |-> Slice(i), right |-> IF i < need THEN chain[i + 1] ELSE 0]
  IN  CASE data = Zeroes -> [b EXCEPT !.index[s] = 0]
        [] data = Ones   -> [b EXCEPT !.index[s] = OnesMark]
        [] OTHER ->
             [index     |-> [b.index EXCEPT ![s] = chain[1]],
              block     |-> [n \in 1 .. Max({Len(b.block)} \cup ToSet(chain)) |->
                               IF n \in ToSet(chain)
                                 THEN Linked(CHOOSE i \in DOMAIN chain : chain[i] = n)
                                 ELSE b.block[n]],
              free_list |-> IF need < Len(free) THEN free[need + 1] ELSE 0]

-----------------------------------------------------------------------------
bits_create == [index |-> [s \in Sections |-> 0], block |-> << >>, free_list |-> 0]

bits_set(b, bit) ==
  LET s == section_of(bit)
  IN  put_section(Released(b, s), s,
                  [Section(b, s) EXCEPT ![byte_of(bit)] = @ \cup {bit_in_byte(bit)}])

bits_clear(b, bit) ==
  LET s == section_of(bit)
  IN  put_section(Released(b, s), s,
                  [Section(b, s) EXCEPT ![byte_of(bit)] = @ \ {bit_in_byte(bit)}])

bits_test(b, bit) ==
  bit_in_byte(bit) \in Section(b, section_of(bit))[byte_of(bit)]

Bytewise(op(_, _), x, y) == [i \in 1 .. BIT_SECTSIZE |-> op(x[i], y[i])]

(* A new bitstring made section by section of others, of which only the     *)
(* entries need be looked at when they say enough.                          *)
Made(value) ==
  LET Add(b, s) ==
        IF value[s] \in {<<0>>, <<OnesMark>>} THEN [b EXCEPT !.index[s] = value[s][1]]
                                              ELSE put_section(b, s, value[s])
  IN  FoldLeft(Add, bits_create, [i \in 1 .. BIT_INDEXSIZE |-> i - 1])

bits_and(b1, b2) ==
  LET value == [s \in Sections |->
        IF b1.index[s] = OnesMark /\ b2.index[s] = OnesMark THEN <<OnesMark>>
        ELSE IF b1.index[s] = 0 \/ b2.index[s] = 0 THEN <<0>>
        ELSE Bytewise(\cap, Section(b1, s), Section(b2, s))]
  IN  Made(value)

bits_or(b1, b2) ==
  LET value == [s \in Sections |->
        IF b1.index[s] = OnesMark \/ b2.index[s] = OnesMark THEN <<OnesMark>>
        ELSE IF b1.index[s] = 0 /\ b2.index[s] = 0 THEN <<0>>
        ELSE IF b1.index[s] = 0 THEN Section(b2, s)
        ELSE IF b2.index[s] = 0 THEN Section(b1, s)
        ELSE Bytewise(\cup, Section(b1, s), Section(b2, s))]
  IN  Made(value)

bits_xor(b1, b2) ==
  LET value == [s \in Sections |->
        IF b1.index[s] = OnesMark /\ b2.index[s] = OnesMark THEN <<0>>
        ELSE IF b1.index[s] = 0 /\ b2.index[s] = 0 THEN <<0>>
        ELSE Bytewise(SymDiff, Section(b1, s), Section(b2, s))]
  IN  Made(value)

bits_invert(b) ==
  LET value == [s \in Sections |->
        IF b.index[s] = OnesMark THEN <<0>>
        ELSE IF b.index[s] = 0 THEN <<OnesMark>>
        ELSE Bytewise(\, Ones, Section(b, s))]
  IN  Made(value)

SumBytes(data) == FoldLeft(LAMBDA n, byte : n + Cardinality(byte), 0, data)

bits_set_count(b) ==
  MapThenSumSet(LAMBDA s :
    CASE b.index[s] = OnesMark -> PerSection
      [] b.index[s] = 0 -> 0
      [] OTHER -> SumBytes(Section(b, s)),
    Sections)

(* bits_search_set: the section is moved on over those that are all zeroes, *)
(* the place in it, and the bit it stands for, only after a section with    *)
(* blocks.  What is behind the table is the index block's link, a 0.        *)
SetIn(b, s) ==
  LET data == Section(b, s)
  IN  {k \in 0 .. PerSection - 1 : bit_in_byte(k) \in data[byte_of(k)]}

RECURSIVE Forward(_, _, _, _)
Forward(b, s, bit_nbr, current_bit) ==
  LET rest == {n \in Sections : n >= s /\ b.index[n] # 0}
  IN  IF rest = {} THEN -1
      ELSE LET n     == Min(rest)
               found == {k \in SetIn(b, n) : k >= bit_nbr}
           IN  IF b.index[n] = OnesMark THEN current_bit
               ELSE IF found # {} THEN n * PerSection + Min(found)
               ELSE Forward(b, n + 1, 0, (n + 1) * PerSection)

RECURSIVE Backward(_, _, _, _)
Backward(b, s, bit_nbr, current_bit) ==
  LET rest == {n \in Sections : n =< s /\ b.index[n] # 0}
  IN  IF rest = {} THEN -1
      ELSE LET n     == Max(rest)
               found == {k \in SetIn(b, n) : k =< bit_nbr}
           IN  IF b.index[n] = OnesMark THEN current_bit
               ELSE IF found # {} THEN n * PerSection + Max(found)
               ELSE Backward(b, n - 1, PerSection - 1, n * PerSection - 1)

bits_search_set(b, bit, reverse) ==
  LET start == IF reverse THEN bit - 1 ELSE bit + 1
      s     == section_of(start)
  IN  IF reverse THEN Backward(b, s, start % PerSection, start)
                 ELSE Forward(b, s, start % PerSection, start)

-----------------------------------------------------------------------------
Init == bits = bits_create

SetBit   == \E bit \in Bit : bits' = bits_set(bits, bit)
ClearBit == \E bit \in Bit : bits' = bits_clear(bits, bit)
Invert   == bits' = bits_invert(bits)

Next == SetBit \/ ClearBit \/ Invert

Spec == Init /\ [][Next]_bits

-----------------------------------------------------------------------------
Members(b) == UNION {{s * PerSection + k : k \in SetIn(b, s)} : s \in Sections}

(* Every operation does to the bits of a bitstring what it says, and to no  *)
(* other bit, whatever the sections were before, and however their blocks   *)
(* have been handed round.                                                  *)
BitsAgree ==
  LET m     == Members(bits)
      other == bits_set(bits_set(bits_create, Max(Bit)), Min(Bit))
  IN  /\ \A bit \in Bit : /\ Members(bits_set(bits, bit)) = m \cup {bit}
                          /\ Members(bits_clear(bits, bit)) = m \ {bit}
                          /\ bits_test(bits, bit) <=> bit \in m
      /\ Members(bits_and(bits, other)) = m \cap Members(other)
      /\ Members(bits_or(bits, other))  = m \cup Members(other)
      /\ Members(bits_xor(bits, other)) = SymDiff(m, Members(other))
      /\ Members(bits_invert(bits)) = AllBits \ m
      /\ bits_set_count(bits) = Cardinality(m)

(* Every block belongs to one section or to the free list, and to one only: *)
(* none is lost, and no section's data is overwritten by another's.         *)
BlocksOwned ==
  LET chains == [s \in Sections |-> Chain(bits, bits.index[s])]
      free   == Chain(bits, bits.free_list)
      all    == FlattenSeq([i \in 1 .. BIT_INDEXSIZE |-> chains[i - 1]]) \o free
  IN  /\ IsInjective(all)
      /\ ToSet(all) = DOMAIN bits.block

(* bits_search_set: "Search the next bit set to 1 after the bit parameter.  *)
(* [...] Return -1 if search end with no result."                           *)
SearchFindsNext ==
  \A bit \in Bit :
    LET after == {k \in Members(bits) : k > bit}
    IN  bit + 1 \in AllBits =>
          bits_search_set(bits, bit, FALSE) = IF after = {} THEN -1 ELSE Min(after)
=============================================================================
