----------------------------- MODULE Serialization -----------------------------
(***************************************************************************)
(* ByteWriter, ByteReader and base64url                                       *)
(* (include/privacy_pass/core/serialization.hpp, src/core/serialization.cpp)   *)
(* as operators on sequences of bytes.  What a writer has written is its       *)
(* sequence; what a reader has yet to read is the rest of its.                *)
(*                                                                         *)
(* A byte is a number below RADIX, which the code's 8-bit byte fixes at 256.   *)
(* The layout needs only that RADIX is a power of 16, so that a byte has 4/3    *)
(* as many bits as a base64 symbol; with 16, two bytes already show every      *)
(* effect of a width.                                                        *)
(***************************************************************************)
EXTENDS Integers, Sequences, SequencesExt

CONSTANTS
  RADIX,            (* the number of values of a byte                        *)
  SYMBOLS           (* the number of base64 symbols, RADIX to the power 3/4   *)

RadixAssumption ==
  /\ RADIX \in Nat \ {0} /\ RADIX % 16 = 0
  /\ SYMBOLS \in Nat /\ SYMBOLS * SYMBOLS * SYMBOLS * SYMBOLS = RADIX * RADIX * RADIX

Good(value) == [error |-> "OK", value |-> value]
Bad(error) == [error |-> error]

(* The bytes from i to j, as far as there are any.                             *)
Slice(bytes, i, j) == SubSeq(bytes, i, IF j < Len(bytes) THEN j ELSE Len(bytes))
From(bytes, i) == SubSeq(bytes, i, Len(bytes))

(* The decoders return the first error that they meet: of a step on which the   *)
(* next one depends, and of a loop over values.                              *)
Then(result, Continue(_)) == IF result.error # "OK" THEN result ELSE Continue(result.value)

Collect(results) ==
  LET failures == SelectSeq(results, LAMBDA r : r.error # "OK") IN
  IF failures # <<>> THEN Head(failures)
  ELSE Good([i \in DOMAIN results |-> results[i].value])

CollectEach(values, Decoded(_)) == Collect([i \in DOMAIN values |-> Decoded(values[i])])

-----------------------------------------------------------------------------
(* write_u8, write_u16 and the longer ones: big-endian, what does not fit in    *)
(* the width is cut off.                                                       *)
written(value, width) ==
  LET shifted[i \in 0..width] == IF i = 0 THEN value ELSE shifted[i - 1] \div RADIX
  IN [i \in 1..width |-> shifted[width - i] % RADIX]

(* A string behind its length.                                               *)
with_length(bytes, width) == written(Len(bytes), width) \o bytes

(* The shift-and-or of read_u8, read_u16, read_u32.                           *)
number(bytes) == FoldLeft(LAMBDA value, byte : value * RADIX + byte, 0, bytes)

(* varint_size: the least width whose first byte has two bits to spare, which   *)
(* hold the width's logarithm.  The variant lets one value too many pass.      *)
Values[width \in 0..8] == IF width = 0 THEN 1 ELSE RADIX * Values[width - 1]
Room(width) == (RADIX \div 4) * Values[width - 1]

varint_size_inclusive(value) ==
  CHOOSE w \in {1, 2, 4, 8} :
    value <= Room(w) /\ \A v \in {1, 2, 4, 8} : v < w => value > Room(v)

varint_size(value) ==
  CHOOSE w \in {1, 2, 4, 8} :
    value < Room(w) /\ \A v \in {1, 2, 4, 8} : v < w => value >= Room(v)

Prefix(width) == CASE width = 1 -> 0 [] width = 2 -> 1 [] width = 4 -> 2 [] width = 8 -> 3
Width(prefix) == CASE prefix = 0 -> 1 [] prefix = 1 -> 2 [] prefix = 2 -> 4 [] prefix = 3 -> 8

(* write_varint.                                                             *)
write_varint(value) ==
  LET width == varint_size(value)
      bytes == written(value, width)
  IN [bytes EXCEPT ![1] = (Prefix(width) * (RADIX \div 4) + @) % RADIX]

(* read_varint: the value and what is left.  Longer forms than needed pass.    *)
read_varint(bytes) ==
  IF bytes = <<>> THEN Bad("UNEXPECTED_END")
  ELSE LET width == Width(bytes[1] \div (RADIX \div 4)) IN
       IF Len(bytes) < width THEN Bad("UNEXPECTED_END")
       ELSE Good([number |-> number(<<bytes[1] % (RADIX \div 4)>> \o SubSeq(bytes, 2, width)),
                  rest |-> From(bytes, width + 1)])

-----------------------------------------------------------------------------
(* What a reader is asked for next: a number of bytes (read_array, read_bytes), *)
(* or as many as a length of some width in front of them says (read_bytes_u8,   *)
(* read_bytes_u16, and read_u16 followed by read_bytes).                      *)
Fixed(size) == [prefix |-> 0, size |-> size]
Prefixed(width) == [prefix |-> width, size |-> 0]

(* The length that decides about the end; the variant forgets the prefix.      *)
NeededBehindPrefix(field, size) == size

Needed(field, size) == field.prefix + size

read_field(reader, field) ==
  IF reader.short \/ Len(reader.rest) < field.prefix THEN [reader EXCEPT !.short = TRUE]
  ELSE LET size == IF field.prefix = 0 THEN field.size
                   ELSE number(SubSeq(reader.rest, 1, field.prefix))
       IN IF Len(reader.rest) < Needed(field, size) THEN [reader EXCEPT !.short = TRUE]
          ELSE [short |-> FALSE,
                fields |-> Append(reader.fields,
                                  Slice(reader.rest, field.prefix + 1, field.prefix + size)),
                rest |-> From(reader.rest, field.prefix + size + 1)]

(* A reader that has been asked for the fields of a layout, one by one.        *)
Read(bytes, layout) ==
  FoldLeft(read_field, [short |-> FALSE, fields |-> <<>>, rest |-> bytes], layout)

Complete(reader, Continue(_)) == IF reader.short THEN Bad("UNEXPECTED_END") ELSE Continue(reader)

-----------------------------------------------------------------------------
(* base64url: the bits of the bytes, cut into symbols from the front, the last  *)
(* one filled up with zeros.  A symbol is the number it stands for.           *)
Log2(n) == CHOOSE k \in 0..n : 2^k = n

Bits(values, width) ==
  [i \in 1..(Len(values) * width) |->
     (values[(i - 1) \div width + 1] \div 2^(width - 1 - ((i - 1) % width))) % 2]

Unbits(bits, width) ==
  [i \in 1..(Len(bits) \div width) |->
     FoldLeft(LAMBDA value, bit : 2 * value + bit, 0, SubSeq(bits, (i - 1) * width + 1, i * width))]

ByteBits == Log2(RADIX)
SymbolBits == Log2(SYMBOLS)

Zeros(n) == [i \in 1..n |-> 0]

encode(data) ==
  LET bits == Bits(data, ByteBits)
      gap == (SymbolBits - (Len(bits) % SymbolBits)) % SymbolBits
  IN Unbits(bits \o Zeros(gap), SymbolBits)

(* '=' is the one symbol that is not a number below SYMBOLS.                   *)
Pad == SYMBOLS

encode_padded(data) ==
  LET text == encode(data) IN text \o [i \in 1..((4 - (Len(text) % 4)) % 4) |-> Pad]

(* decode: at most two pads at the end, nothing but symbols before, no length    *)
(* that leaves a single symbol over; bits that do not make up a byte are        *)
(* dropped.                                                                  *)
Unpadded(text) ==
  SubSeq(text, 1, Len(text) - Len(SelectSeq(text, LAMBDA c : c = Pad)))

decode(text) ==
  LET padding == Len(text) - Len(Unpadded(text)) IN
  IF \/ padding > 2
     \/ \E i \in 1..Len(Unpadded(text)) : text[i] \notin 0..(SYMBOLS - 1)
     \/ Len(Unpadded(text)) % 4 = 1
  THEN Bad("INVALID_BASE64")
  ELSE Good(Unbits(Bits(Unpadded(text), SymbolBits), ByteBits))
=============================================================================
