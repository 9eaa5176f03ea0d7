--------------------------- MODULE SdafSampleArea ---------------------------
(***************************************************************************)
(* Sample areas and the algorithms both libraries share: the order of the  *)
(* fields, their packing, the differences within a lane, zigzag, byte      *)
(* shuffle, and what a stored field means.                                 *)
(*                                                                         *)
(* An area is the set of its bits that are one.  Its size is what          *)
(* sdaf_expected_payload_size gives, since both readers refuse any other.  *)
(***************************************************************************)
EXTENDS Integers, Sequences, FiniteSetsExt, SequencesExt

CONSTANTS
  ByteBits,      \* bits of a byte: 8
  ShuffleBlock,  \* values of a shuffled block: 256
  FloatBits      \* the widths a float channel can have: 32 and 64

ASSUME AreaAssumption ==
  /\ ByteBits \in Nat \ {0} /\ ShuffleBlock \in Nat \ {0}
  /\ \A f \in FloatBits : f \in Nat \ {0} /\ f % ByteBits = 0

IntegerTypes == {"unsigned", "signed"}
Channels ==
  [type : IntegerTypes \cup {"float", "boolean", "fixed bytes"},
   logical : Nat, storage : Nat, elements : Nat]

\* What sdaf_validate_schema requires of a channel.
ValidChannel(c) ==
  /\ c.elements \in Nat \ {0}
  /\ CASE c.type \in IntegerTypes -> 1 <= c.logical /\ c.logical <= c.storage
       [] c.type = "float" -> c.logical \in FloatBits /\ c.storage = c.logical
       [] c.type = "boolean" -> c.logical = 1 /\ c.storage = 1
       [] c.type = "fixed bytes" ->
            c.storage > 0 /\ c.storage % ByteBits = 0 /\ c.logical = c.storage

BytesOf(bits) == (bits + ByteBits - 1) \div ByteBits

\* The sum a loop adds up: w[1] + ... + w[n].
Total(w, n) ==
  LET total[k \in 0 .. n] == IF k = 0 THEN 0 ELSE total[k - 1] + w[k]
  IN  total[n]
-----------------------------------------------------------------------------
(* Numbers and their bits.                                                 *)

Bits(v, n) == {i \in 0 .. n - 1 : (v \div 2 ^ i) % 2 = 1}
Number(bits, n) ==
  Total([i \in 1 .. n |-> IF i - 1 \in bits THEN 2 ^ (i - 1) ELSE 0], n)
HasSign(v, bits) == bits - 1 \in Bits(v, bits)
-----------------------------------------------------------------------------
(* The order of the fields of a block b with count samples.                *)

Start(channels, c) ==
  Total([k \in DOMAIN channels |-> channels[k].elements], c - 1)
LaneCount(channels) == Start(channels, Len(channels) + 1)

ChannelAt(channels, place, scale) ==
  CHOOSE c \in DOMAIN channels :
    /\ scale * Start(channels, c) <= place
    /\ place < scale * Start(channels, c + 1)

\* order_item; positions count from 0 as in the code.
Interleaved(channels, position) ==
  LET within == position % LaneCount(channels)
  IN  [sample |-> position \div LaneCount(channels),
       channel |-> ChannelAt(channels, within, 1),
       lane |-> within]

\* Variant: a planar element steps through the samples first.
PlanarAcross(channels, count, position) ==
  LET c == ChannelAt(channels, position, count)
      relative == position - count * Start(channels, c)
  IN  [sample |-> relative % count,
       channel |-> c,
       lane |-> Start(channels, c) + relative \div count]

Planar(channels, count, position) ==
  LET c == ChannelAt(channels, position, count)
      relative == position - count * Start(channels, c)
  IN  [sample |-> relative \div channels[c].elements,
       channel |-> c,
       lane |-> Start(channels, c) + (relative % channels[c].elements)]

OrderItem(b, count, position) ==
  IF b.layout = "interleaved" THEN Interleaved(b.channels, position)
                              ELSE Planar(b.channels, count, position)

Order(b, count) ==
  [p \in 1 .. count * LaneCount(b.channels) |-> OrderItem(b, count, p - 1)]

\* EnumerateOrder of the .NET library: the loops nested by layout.
EnumerateOrder(b, count) ==
  LET channels == b.channels
      Field(s, c) == [e \in 1 .. channels[c].elements |->
                        [sample |-> s - 1, channel |-> c,
                         lane |-> Start(channels, c) + e - 1]]
  IN  IF b.layout = "interleaved"
        THEN FlattenSeq([s \in 1 .. count |->
               FlattenSeq([c \in DOMAIN channels |-> Field(s, c)])])
        ELSE FlattenSeq([c \in DOMAIN channels |->
               FlattenSeq([s \in 1 .. count |-> Field(s, c)])])
-----------------------------------------------------------------------------
(* Packing: dense fields follow bit by bit, aligned ones byte by byte.     *)

FieldWidth(b, item) ==
  LET storage == b.channels[item.channel].storage
  IN  IF b.packing = "dense" THEN storage ELSE BytesOf(storage) * ByteBits
FieldStart(b, order, p) ==
  Total([q \in DOMAIN order |-> FieldWidth(b, order[q])], p - 1)
UsedBits(b, order) == FieldStart(b, order, Len(order) + 1)
AreaBits(b, order) == BytesOf(UsedBits(b, order)) * ByteBits

\* read_bits and read_aligned: an aligned field is read with all its bytes.
Read(b, order, area, p) ==
  LET from == FieldStart(b, order, p)
      width == FieldWidth(b, order[p])
  IN  Number({i \in 0 .. width - 1 : from + i \in area}, width)

\* Variant: the sign is not extended.
StoredFormUnextended(v, c) == v % 2 ^ c.logical
\* write_canonical: the logical bits, extended into the storage bits.
StoredForm(v, c) ==
  LET raw == v % 2 ^ c.logical
  IN  IF c.type = "signed" /\ HasSign(raw, c.logical)
        THEN raw + 2 ^ c.storage - 2 ^ c.logical ELSE raw

WriteCanonical(b, order, raw) ==
  UNION {{FieldStart(b, order, p) + i :
            i \in Bits(StoredForm(raw[p], b.channels[order[p].channel]),
                       FieldWidth(b, order[p]))} : p \in DOMAIN order}

\* The last byte of a dense area holds zeros behind the last field.
PaddingClear(b, order, area) ==
  b.packing = "dense" => area \subseteq 0 .. UsedBits(b, order) - 1

\* The storage bits above the logical ones repeat the sign or are zero.
ExtensionValid(v, c) ==
  LET high == Bits(v, c.storage) \ (0 .. c.logical - 1)
  IN  c.storage > c.logical =>
        high = IF c.type = "signed" /\ HasSign(v, c.logical)
                 THEN c.logical .. c.storage - 1 ELSE {}
-----------------------------------------------------------------------------
(* The transforms, each with its inverse.                                  *)

\* The last position before p of the same lane, or 0: where "previous[lane]"
\* comes from.
Previous(order, p) ==
  Max({0} \cup {q \in 1 .. p - 1 : order[q].lane = order[p].lane})

Zigzag(delta, bits) ==
  LET twice == (2 * delta) % 2 ^ bits
  IN  IF HasSign(delta, bits) THEN 2 ^ bits - 1 - twice ELSE twice

\* Variant: negation for complement.
UnzigzagArithmetic(z, bits) ==
  IF z % 2 = 1 THEN 2 ^ bits - z \div 2 ELSE z \div 2

Unzigzag(z, bits) ==
  IF z % 2 = 1 THEN 2 ^ bits - 1 - z \div 2 ELSE z \div 2

Xor(a, b, bits) == Number(SymDiff(Bits(a, bits), Bits(b, bits)), bits)

\* Byte k of all values of a block before byte k + 1 of any.
Shuffle(words, width) ==
  LET Block(k) == SubSeq(words, ShuffleBlock * (k - 1) + 1,
                         IF ShuffleBlock * k < Len(words)
                           THEN ShuffleBlock * k ELSE Len(words))
      Byte(v, k) == (v \div 2 ^ (ByteBits * (k - 1))) % 2 ^ ByteBits
      BlockCount == (Len(words) + ShuffleBlock - 1) \div ShuffleBlock
  IN  FlattenSeq([k \in 1 .. BlockCount |->
        FlattenSeq([l \in 1 .. width |->
          [i \in DOMAIN Block(k) |-> Byte(Block(k)[i], l)]])])

\* Where unshuffle finds byte lane l of the value at position p.
ShuffledAt(count, width, p, l) ==
  LET first == ShuffleBlock * ((p - 1) \div ShuffleBlock)
      block == Min({ShuffleBlock, count - first})
  IN  first * width + (l - 1) * block + (p - first)
Unshuffle(bytes, count, width) ==
  [p \in 1 .. count |->
     Total([l \in 1 .. width |-> bytes[ShuffledAt(count, width, p, l)]
                                   * 2 ^ (ByteBits * (l - 1))], width)]
=============================================================================
