------------------------------ MODULE SflCodes ------------------------------
(***************************************************************************)
(* Encodings of a block of bytes and their decodings: the compressors of    *)
(* libsfl/sflcomp.c, Base 64 (sflmime.c), the escapes of sflhttp.c and the  *)
(* portable records of sflexdr.c.  compress_bits is in SflBits.             *)
(*                                                                         *)
(* A byte is a number below 256.                                            *)
(***************************************************************************)
EXTENDS Integers, SequencesExt

CONSTANTS
  NULL,
  Segment,         \* the pieces a block is made of
  MaxSegments,     \* bound on their number
  MaxTransfer,     \* bound on the length of the blocks that are transferred
  MaxChanges,      \* bound on the changes of byte in what compress_block gets
  Hash(_, _, _)    \* get_match's; any will do, as what it finds is compared

VARIABLE block     \* [bytes, segments]

Filled(b, n) == [i \in 1 .. n |-> b]
At(s, i) == IF i \in DOMAIN s THEN s[i] ELSE 0
Lo(n) == n % 256
Hi(n) == (n \div 256) % 256

(* Equal bytes from i on.                                                   *)
RunAt(src, i) == Min({j \in i .. Len(src) : src[j] # src[i]} \cup {Len(src) + 1}) - i

-----------------------------------------------------------------------------
(* compress_rle and compress_nulls: runs, and strings of up to 127 bytes in *)
(* between.                                                                 *)

String(str) == IF str = << >> THEN << >> ELSE <<Len(str)>> \o str

IsRun(code, n, b) ==
  CASE code = "rle"   -> n >= 3
    [] code = "nulls" -> n > 3 \/ (n > 1 /\ b = 0)

(* Mutant: the length of a long run of spaces is not what is written.       *)
RleRunOfSpaces(n, b) ==
  CASE n < 256 /\ b = 0  -> <<0, n>>
    [] b = 32            -> <<130, Lo(n)>>
    [] n < 128 /\ b \notin {0, 32} -> <<128 + n, b>>
    [] n \in 128 .. 255 /\ b \notin {0, 32} -> <<128, n, b>>
    [] n > 255 /\ b # 32 -> <<129, Lo(n), Hi(n), b>>

RleRun(n, b) ==
  CASE n < 256 /\ b = 0  -> <<0, n>>
    [] n < 256 /\ b = 32 -> <<130, n>>
    [] n < 128 /\ b \notin {0, 32} -> <<128 + n, b>>
    [] n \in 128 .. 255 /\ b \notin {0, 32} -> <<128, n, b>>
    [] n > 255           -> <<129, Lo(n), Hi(n), b>>

NullsRun(n, b) ==
  CASE b = 0 /\ n < 128         -> <<128 + n>>
    [] b = 0 /\ n \in 128 .. 255 -> <<129, n>>
    [] b = 0 /\ n > 255         -> <<128, Lo(n), Hi(n)>>
    [] b # 0 /\ n < 256         -> <<0, n, b>>
    [] b # 0 /\ n > 255         -> <<0, 0, Lo(n), Hi(n), b>>

RunsAt(code, src, i) == IsRun(code, RunAt(src, i), src[i])

(* Between runs: from i to the next place where one begins, or the end.     *)
Strings(src, i, next) ==
  FlattenSeq([k \in 1 .. (next - i + 126) \div 127 |->
                String(SubSeq(src, i + 127 * (k - 1), Min({i + 127 * k, next}) - 1))])

RECURSIVE Runs(_, _, _)
Runs(code, src, i) ==
  LET next == Min({j \in i .. Len(src) : RunsAt(code, src, j)} \cup {Len(src) + 1})
      n    == RunAt(src, next)
  IN  Strings(src, i, next)
        \o (IF next > Len(src) THEN << >>
            ELSE (IF code = "rle" THEN RleRun(n, src[next]) ELSE NullsRun(n, src[next]))
                   \o Runs(code, src, next + n))

compress_rle(src)   == Runs("rle", src, 1)
compress_nulls(src) == Runs("nulls", src, 1)

RECURSIVE UnRle(_, _)
UnRle(z, i) ==
  IF i > Len(z) THEN << >>
  ELSE CASE z[i] \in 1 .. 127 -> SubSeq(z, i + 1, i + z[i]) \o UnRle(z, i + 1 + z[i])
         [] z[i] = 0   -> Filled(0, z[i + 1]) \o UnRle(z, i + 2)
         [] z[i] = 130 -> Filled(32, z[i + 1]) \o UnRle(z, i + 2)
         [] z[i] = 128 -> Filled(z[i + 2], z[i + 1]) \o UnRle(z, i + 3)
         [] z[i] = 129 -> Filled(z[i + 3], z[i + 1] + (256 * z[i + 2])) \o UnRle(z, i + 4)
         [] z[i] > 130 -> Filled(z[i + 1], z[i] - 128) \o UnRle(z, i + 2)

expand_rle(z) == UnRle(z, 1)

RECURSIVE UnNulls(_, _)
UnNulls(z, i) ==
  IF i > Len(z) THEN << >>
  ELSE CASE z[i] \in 1 .. 127 -> SubSeq(z, i + 1, i + z[i]) \o UnNulls(z, i + 1 + z[i])
         [] z[i] = 0 /\ z[i + 1] = 0 ->
              Filled(z[i + 4], z[i + 2] + (256 * z[i + 3])) \o UnNulls(z, i + 5)
         [] z[i] = 0 /\ z[i + 1] > 0 -> Filled(z[i + 2], z[i + 1]) \o UnNulls(z, i + 3)
         [] z[i] = 128 -> Filled(0, z[i + 1] + (256 * z[i + 2])) \o UnNulls(z, i + 3)
         [] z[i] = 129 -> Filled(0, z[i + 1]) \o UnNulls(z, i + 2)
         [] z[i] > 129 -> Filled(0, z[i] - 128) \o UnNulls(z, i + 1)

expand_nulls(z) == UnNulls(z, 1)

-----------------------------------------------------------------------------
(* compress_block: after a flag, groups of up to 16 tokens, each group with *)
(* a word before it of which a bit says for each token whether it is a byte *)
(* or a copy.                                                               *)

FLAG_COPY     == 128
FLAG_COMPRESS == 64

Matches(src, ptr, pos, n) == \A k \in 0 .. n - 1 : src[ptr + k] = src[pos + k]

(* How long the bytes at pos are those at ptr, 0 if pos is no place.        *)
get_match(src, ptr, pos) ==
  IF pos = NULL THEN 0
  ELSE IF ptr - pos >= 4096 THEN 0
  ELSE Max({n \in 0 .. 18 : ptr + n - 1 =< Len(src) /\ Matches(src, ptr, pos, n)})

Byte(b)       == [bit |-> 0, bytes |-> <<b>>]
Repeat(n, b)  == [bit |-> 1, bytes |-> <<0, Hi(n - 16), Lo(n - 16), b>>]
CopyOf(far, n) == LET key == (far * 16) + (n - 3) IN [bit |-> 1, bytes |-> <<Hi(key), Lo(key)>>]

(* The table of places by hash is changed only where a match is looked for. *)
RECURSIVE Tokens(_, _, _)
Tokens(src, i, table) ==
  IF i > Len(src) THEN << >>
  ELSE LET run  == Min({RunAt(src, i), 4095})
           key  == Hash(src[i], At(src, i + 1), At(src, i + 2))
           pos  == IF key \in DOMAIN table THEN table[key] ELSE NULL
           new  == [k \in DOMAIN table \cup {key} |-> IF k = key THEN i ELSE table[k]]
           same == get_match(src, i, pos)
       IN  IF run >= 16 THEN <<Repeat(run, src[i])>> \o Tokens(src, i + run, table)
           ELSE IF same >= 3 THEN <<CopyOf(i - pos, same)>> \o Tokens(src, i + same, new)
           ELSE <<Byte(src[i])>> \o Tokens(src, i + 1, new)

(* The word's first bit is the first token's; it is filled up with zeroes.  *)
Command(tokens) == FoldLeft(LAMBDA c, k : 2 * c + (IF k > Len(tokens) THEN 0 ELSE tokens[k].bit),
                            0, [k \in 1 .. 16 |-> k])

RECURSIVE Groups(_)
Groups(tokens) ==
  LET group == SubSeq(tokens, 1, Min({16, Len(tokens)}))
  IN  <<Hi(Command(group)), Lo(Command(group))>>
        \o FlattenSeq([k \in DOMAIN group |-> group[k].bytes])
        \o (IF Len(tokens) > 16 THEN Groups(SubSeq(tokens, 17, Len(tokens))) ELSE << >>)

(* What comes out longer than it was is copied.                             *)
compress_block(src) ==
  LET dst == <<FLAG_COMPRESS>> \o Groups(Tokens(src, 1, << >>))
  IN  IF Len(dst) > Len(src) THEN <<FLAG_COPY>> \o src ELSE dst

(* A copy may run into what it is itself writing.                           *)
Copied(dst, far, n) ==
  LET from == Len(dst) - far IN dst \o [k \in 1 .. n |-> dst[from + 1 + ((k - 1) % far)]]

(* From byte i on, with bits of the command left.                           *)
RECURSIVE Expand(_, _, _, _, _)
Expand(z, i, command, bits, dst) ==
  IF i > Len(z) THEN dst
  ELSE IF bits = 0 THEN Expand(z, i + 2, (z[i] * 256) + z[i + 1], 16, dst)
  ELSE LET next == (2 * command) % 65536
           far  == IF command >= 32768 THEN (z[i] * 16) + (z[i + 1] \div 16) ELSE 0
       IN  IF command < 32768 THEN Expand(z, i + 1, next, bits - 1, Append(dst, z[i]))
           ELSE IF far # 0
             THEN Expand(z, i + 2, next, bits - 1, Copied(dst, far, (z[i + 1] % 16) + 3))
           ELSE Expand(z, i + 4, next, bits - 1,
                       dst \o Filled(z[i + 3], (z[i + 1] * 256) + z[i + 2] + 16))

expand_block(z) ==
  IF z[1] = FLAG_COPY THEN SubSeq(z, 2, Len(z)) ELSE Expand(z, 2, 0, 0, << >>)

-----------------------------------------------------------------------------
(* Base 64: the characters by their ASCII codes.                            *)

base64_to_char(v) ==
  CASE v < 26        -> 65 + v
    [] v \in 26 .. 51 -> 97 + (v - 26)
    [] v \in 52 .. 61 -> 48 + (v - 52)
    [] v = 62        -> 43
    [] v = 63        -> 47

PAD == 61                                                                \* =

char_to_base64(c) ==
  CASE c \in 65 .. 90  -> c - 65
    [] c \in 97 .. 122 -> (c - 97) + 26
    [] c \in 48 .. 57  -> (c - 48) + 52
    [] c = 43          -> 62
    [] c = 47          -> 63
    [] c = PAD         -> 0

(* Mutant: pads for one missing byte of three only.                         *)
QuadOnePad(a, b, c, left) ==
  <<base64_to_char(a \div 4),
    base64_to_char((a % 4) * 16 + (IF left > 1 THEN b \div 16 ELSE 0)),
    base64_to_char((b % 16) * 4 + (IF left > 2 THEN c \div 64 ELSE 0)),
    IF left > 2 THEN base64_to_char(c % 64) ELSE PAD>>

Quad(a, b, c, left) ==
  <<base64_to_char(a \div 4),
    base64_to_char((a % 4) * 16 + (IF left > 1 THEN b \div 16 ELSE 0)),
    IF left > 1 THEN base64_to_char((b % 16) * 4 + (IF left > 2 THEN c \div 64 ELSE 0)) ELSE PAD,
    IF left > 2 THEN base64_to_char(c % 64) ELSE PAD>>

encode_base64(src) ==
  FlattenSeq([k \in 1 .. (Len(src) + 2) \div 3 |->
    LET i == 3 * k - 2 IN Quad(src[i], At(src, i + 1), At(src, i + 2), Len(src) - i + 1)])

Triple(z, i) ==
  LET v(k) == char_to_base64(z[i + k])
  IN  <<Lo(v(0) * 4 + v(1) \div 16), Lo((v(1) % 16) * 16 + v(2) \div 4), Lo((v(2) % 4) * 64 + v(3))>>

(* A pad at the end takes away a zero; whole groups of four are decoded.    *)
decode_base64(z) ==
  LET dst  == FlattenSeq([k \in 1 .. Len(z) \div 4 |-> Triple(z, 4 * k - 3)])
      n    == Len(z)
      one  == IF z[n] = PAD /\ dst[Len(dst)] = 0 THEN Len(dst) - 1 ELSE Len(dst)
      both == IF z[n - 1] = PAD /\ dst[one] = 0 THEN one - 1 ELSE one
  IN  IF n = 0 THEN << >> ELSE SubSeq(dst, 1, both)

-----------------------------------------------------------------------------
(* http_escape, http_escape_hex and http_escape_bin                         *)

NEWLINE == 10
RETURN  == 13
isalnum(c) == c \in (48 .. 57) \cup (65 .. 90) \cup (97 .. 122)
hex_char(d) == IF d < 10 THEN 48 + d ELSE 65 + (d - 10)
Percent(c) == <<37, hex_char(c \div 16), hex_char(c % 16)>>

http_escape_char(c, hex_spaces) ==
  CASE isalnum(c)              -> <<c>>
    [] c = 32 /\ ~hex_spaces   -> <<43>>
    [] c \in {NEWLINE, RETURN} -> Percent(NEWLINE) \o Percent(RETURN)
    [] OTHER                   -> Percent(c)

http_escape_byte(c, hex_spaces) ==
  CASE isalnum(c)            -> <<c>>
    [] c = 32 /\ ~hex_spaces -> <<43>>
    [] OTHER                 -> Percent(c)

(* Two different ones of them in a row are one line break.                  *)
Breaks(src, i) == {src[i], At(src, i + 1)} = {NEWLINE, RETURN}

RECURSIVE EscapeString(_, _, _)
EscapeString(src, i, hex_spaces) ==
  IF i > Len(src) THEN << >>
  ELSE http_escape_char(src[i], hex_spaces)
         \o EscapeString(src, i + (IF Breaks(src, i) THEN 2 ELSE 1), hex_spaces)

http_escape(string)     == EscapeString(string, 1, FALSE)
http_escape_hex(string) == EscapeString(string, 1, TRUE)
http_escape_bin(src)    == FlattenSeq([i \in DOMAIN src |-> http_escape_byte(src[i], TRUE)])

(* Without the final zero.                                                  *)
RECURSIVE SizeFrom(_, _)
SizeFrom(src, i) ==
  IF i > Len(src) THEN 0
  ELSE CASE isalnum(src[i]) -> 1 + SizeFrom(src, i + 1)
         [] src[i] \in {NEWLINE, RETURN} -> 6 + SizeFrom(src, i + (IF Breaks(src, i) THEN 2 ELSE 1))
         [] OTHER -> 3 + SizeFrom(src, i + 1)
http_escape_size(string) == SizeFrom(string, 1)

http_escape_bin_size(src) ==
  FoldLeft(LAMBDA n, c : n + (IF isalnum(c) THEN 1 ELSE 3), 0, src)

HexDigit(c) ==
  CASE c \in 48 .. 57  -> c - 48
    [] c \in 65 .. 70  -> c - 55
    [] c \in 97 .. 102 -> c - 87
    [] OTHER           -> NULL

(* Up to two digits at i: [value, digits].                                  *)
decode_hex(z, i) ==
  LET d(k) == IF i + k \in DOMAIN z THEN HexDigit(z[i + k] % 128) ELSE NULL
  IN  IF d(0) = NULL THEN [value |-> 0, digits |-> 0]
      ELSE IF d(1) = NULL THEN [value |-> d(0), digits |-> 1]
      ELSE [value |-> d(0) * 16 + d(1), digits |-> 2]

(* http_unescape turns + into a space and drops returns, http_unescape_hex  *)
(* does neither.                                                            *)
RECURSIVE Unescape(_, _, _)
Unescape(z, i, hex) ==
  IF i > Len(z) THEN << >>
  ELSE LET byte == decode_hex(z, i + 1)
       IN  IF z[i] = 37 /\ i + 2 =< Len(z)
             THEN (IF byte.value = RETURN /\ ~hex THEN << >> ELSE <<byte.value>>)
                    \o Unescape(z, i + 1 + byte.digits, hex)
           ELSE (IF z[i] = 43 /\ ~hex THEN <<32>> ELSE <<z[i]>>) \o Unescape(z, i + 1, hex)

http_unescape(z)     == Unescape(z, 1, FALSE)
http_unescape_hex(z) == Unescape(z, 1, TRUE)

-----------------------------------------------------------------------------
(* Portable records: fields [type, value], with the sizes of blocks of data *)
(* ("m" and "h") in the field before.                                       *)

Word(n) == <<Hi(n), Lo(n)>>

exdr_field(f) ==
  CASE f.type = "b" -> <<Lo(f.value)>>
    [] f.type = "d" -> Word(f.value)
    [] f.type = "q" -> Word(f.value \div 65536) \o Word(f.value)
    [] f.type = "s" -> IF f.value = NULL THEN <<0>> ELSE Append(f.value, 0)
    [] f.type = "m" -> Word(Len(f.value)) \o f.value
    [] f.type = "h" -> Word(Len(f.value) \div 65536) \o Word(Len(f.value)) \o f.value

exdr_write(fields) == FlattenSeq([i \in DOMAIN fields |-> exdr_field(fields[i])])

Number(z, i, n) == FoldLeft(LAMBDA v, k : v * 256 + z[i + k - 1], 0, [k \in 1 .. n |-> k])

ReadField(z, i, type) ==
  CASE type = "b" -> [value |-> z[i], next |-> i + 1]
    [] type = "d" -> [value |-> Number(z, i, 2), next |-> i + 2]
    [] type = "q" -> [value |-> Number(z, i, 4), next |-> i + 4]
    [] type = "s" -> LET end == Min({k \in i .. Len(z) : z[k] = 0})
                     IN  [value |-> SubSeq(z, i, end - 1), next |-> end + 1]
    [] type = "m" -> LET n == Number(z, i, 2)
                     IN  [value |-> SubSeq(z, i + 2, i + 1 + n), next |-> i + 2 + n]
    [] type = "h" -> LET n == Number(z, i, 4)
                     IN  [value |-> SubSeq(z, i + 4, i + 3 + n), next |-> i + 4 + n]

exdr_read(z, types) ==
  LET Field(r, type) == LET f == ReadField(z, r.next, type)
                        IN  [got |-> Append(r.got, f.value), next |-> f.next]
  IN  FoldLeft(Field, [got |-> << >>, next |-> 1], types).got

-----------------------------------------------------------------------------
Init == block = [bytes |-> << >>, segments |-> 0]

Grow ==
  /\ block.segments < MaxSegments
  /\ \E s \in Segment : block' = [bytes |-> block.bytes \o s, segments |-> block.segments + 1]

Next == Grow
Spec == Init /\ [][Next]_block

-----------------------------------------------------------------------------
Changes(b) == Cardinality({i \in 1 .. Len(b) - 1 : b[i] # b[i + 1]})

(* Whatever is compressed expands to what it was, with runs and strings of  *)
(* every length that changes the code, next to each other and at the end.   *)
CompressionKeeps ==
  LET b == block.bytes
  IN  /\ expand_rle(compress_rle(b)) = b
      /\ expand_nulls(compress_nulls(b)) = b
      /\ Changes(b) =< MaxChanges => /\ expand_block(compress_block(b)) = b
                                    /\ Len(compress_block(b)) =< Len(b) + 1

(* What an escaped string stands for: all four line breaks are newlines.    *)
RECURSIVE OneBreak(_, _)
OneBreak(s, i) ==
  IF i > Len(s) THEN << >>
  ELSE <<IF s[i] = RETURN THEN NEWLINE ELSE s[i]>>
         \o OneBreak(s, i + (IF Breaks(s, i) THEN 2 ELSE 1))

Types == <<"b", "s", "m", "d", "s", "h", "q">>

(* Escaped, sent and decoded, a block or a string is what it was, and the   *)
(* escapes fit the size that is allocated for them.  A record that holds    *)
(* strings, data and numbers comes back field by field.                     *)
TransfersKeep ==
  LET b == block.bytes
      s == SelectSeq(b, LAMBDA c : c # 0)
      fields == <<255, s, b, 511, NULL, b, 65536 + 255>>
  IN  Len(b) =< MaxTransfer =>
      /\ decode_base64(encode_base64(b)) = b
      /\ http_unescape(http_escape(s)) = OneBreak(s, 1)
      /\ Len(http_escape(s)) =< http_escape_size(s)
      /\ Len(http_escape_hex(s)) =< http_escape_size(s)
      /\ http_unescape_hex(http_escape_bin(b)) = b
      /\ Len(http_escape_bin(b)) = http_escape_bin_size(b)
      /\ exdr_read(exdr_write([i \in 1 .. Len(Types) |-> [type |-> Types[i], value |-> fields[i]]]),
                   Types)
           = [fields EXCEPT ![5] = << >>]
=============================================================================
