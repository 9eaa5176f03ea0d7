------------------------------ MODULE SdafCodec ------------------------------
(***************************************************************************)
(* The sample codec of the C library: sdaf_encode_numeric and              *)
(* sdaf_encode_bitwise on the writing side, sdaf_decode_transforms and     *)
(* sdaf_decode_data_samples on the reading side, for one DATA record.      *)
(* Zstandard is external and lossless: it is left out of both directions.  *)
(***************************************************************************)
EXTENDS SdafSampleTime, SdafSampleArea

CONSTANTS
  Blocks,   \* the records: a header, and the other options of write_data
  Areas(_)  \* the sample areas each of them is written with

BlockOK(b) ==
  /\ b.header \in Headers
  /\ b.channels \in Seq(Channels) /\ b.channels # << >>
  /\ \A c \in DOMAIN b.channels : ValidChannel(b.channels[c])
  /\ b.layout \in {"interleaved", "planar"} /\ b.packing \in {"dense", "aligned"}
  /\ b.profile \in {"none", "numeric", "bitwise"}
  /\ b.first \in Words
  /\ Areas(b) \subseteq SUBSET (0 .. AreaBits(b, Order(b, b.header.count)) - 1)

ASSUME BlockAssumption == \A b \in Blocks : BlockOK(b)

VARIABLES
  block,      \* the record at hand
  given,      \* its sample area as the caller gives it
  coding,     \* "given", "stored", or "refused"
  stored,     \* the payload: a sample area, or the bytes of a profile
  reading,    \* the C reader: "waiting", "decoded", "done", or "failed"
  canonical,  \* decoded_payload
  samples     \* sdaf_data_record.samples

codecVars == <<timeVars, block, given, coding, stored, reading, canonical, samples>>

count == header.count
order == Order(block, count)
ChannelOf(o, p) == block.channels[o[p].channel]
WidthOfAll == block.channels[1].logical
-----------------------------------------------------------------------------
(* Writing.                                                                *)

\* The integer profile needs integers of one logical width, the bitwise
\* profile floats of one width.
IntegersOfOneWidth(b) ==
  \A c \in DOMAIN b.channels :
    /\ b.channels[c].type \in IntegerTypes
    /\ b.channels[c].logical = b.channels[1].logical
FloatsOfOneWidth(b) ==
  \A c \in DOMAIN b.channels :
    b.channels[c].type = "float" /\ b.channels[c].logical = b.channels[1].logical
ProfileFits(b) ==
  CASE b.profile = "none" -> TRUE
    [] b.profile = "numeric" -> IntegersOfOneWidth(b)
    [] b.profile = "bitwise" -> FloatsOfOneWidth(b)

\* extract_raw: the logical bits of every field.
ExtractRaw(o) ==
  [p \in DOMAIN o |-> Read(block, o, given, p) % 2 ^ ChannelOf(o, p).logical]

\* Each value against the one before it in its lane, the first against 0.
ZigzagDelta(now, before) == Zigzag((now - before) % 2 ^ WidthOfAll, WidthOfAll)
AddDelta(z, before) == (before + Unzigzag(z, WidthOfAll)) % 2 ^ WidthOfAll

RawBefore(raw, o, p) == IF Previous(o, p) = 0 THEN 0 ELSE raw[Previous(o, p)]
NumericWords(raw, o) ==
  [p \in DOMAIN o |-> ZigzagDelta(raw[p], RawBefore(raw, o, p))]
BitwiseWords(raw, o) ==
  [p \in DOMAIN o |-> Xor(raw[p], RawBefore(raw, o, p), WidthOfAll)]

Shuffled(words) == Shuffle(words, BytesOf(WidthOfAll))

Keep(words) == stored' = words /\ coding' = "stored"

EncodePlain == block.profile = "none" /\ Keep(given)

EncodeNumeric ==
  /\ block.profile = "numeric" /\ IntegersOfOneWidth(block)
  /\ LET o == order IN Keep(Shuffled(NumericWords(ExtractRaw(o), o)))

EncodeBitwise ==
  /\ block.profile = "bitwise" /\ FloatsOfOneWidth(block)
  /\ LET o == order IN Keep(Shuffled(BitwiseWords(ExtractRaw(o), o)))

\* SDAF_ERROR_ARGUMENT: the channels do not fit the profile.
RefuseProfile ==
  /\ ~ProfileFits(block)
  /\ coding' = "refused" /\ UNCHANGED stored

WriteInC ==
  /\ coding = "given"
  /\ EncodePlain \/ EncodeNumeric \/ EncodeBitwise \/ RefuseProfile
  /\ UNCHANGED <<timeVars, block, given, reading, canonical, samples>>
-----------------------------------------------------------------------------
(* Reading.                                                                *)

\* What the inverse of the shuffle yields, or nothing when a value has bits
\* above its width.
Unshuffled == Unshuffle(stored, count * LaneCount(block.channels), BytesOf(WidthOfAll))
WordsFit == LET words == Unshuffled
            IN  \A p \in DOMAIN words : words[p] < 2 ^ WidthOfAll

\* The values again, each from the one before it; 0 stands before the first.
NumericRaw(words, o) ==
  LET raw[p \in 0 .. Len(o)] ==
        IF p = 0 THEN 0 ELSE AddDelta(words[p], raw[Previous(o, p)])
  IN  raw
BitwiseRaw(words, o) ==
  LET raw[p \in 0 .. Len(o)] ==
        IF p = 0 THEN 0 ELSE Xor(words[p], raw[Previous(o, p)], WidthOfAll)
  IN  raw

DecodeTransforms ==
  /\ coding = "stored" /\ reading = "waiting"
  /\ \/ /\ block.profile = "none"
        /\ canonical' = stored /\ reading' = "decoded"
     \/ /\ block.profile = "numeric" /\ WordsFit
        /\ canonical' = LET o == order
                        IN  WriteCanonical(block, o, NumericRaw(Unshuffled, o))
        /\ reading' = "decoded"
     \/ /\ block.profile = "bitwise" /\ WordsFit
        /\ canonical' = LET o == order
                        IN  WriteCanonical(block, o, BitwiseRaw(Unshuffled, o))
        /\ reading' = "decoded"
     \/ /\ block.profile # "none" /\ ~WordsFit
        /\ reading' = "failed" /\ UNCHANGED canonical
  /\ UNCHANGED <<timeVars, block, given, coding, stored, samples>>

\* first_sample_index + sample_count - 1 must not wrap.
IndexesFit == count = 0 \/ block.first <= MaxWord - (count - 1)

\* make_value: an unused bit above the logical ones is an error, unless the
\* channel stores no more bits than it has logical ones.
MakeValue(v, c) ==
  LET raw == IF c.storage > c.logical THEN v % 2 ^ c.logical ELSE v
  IN  [raw |-> raw,
       number |-> IF c.type = "signed" /\ (raw \div 2 ^ (c.logical - 1)) % 2 = 1
                    THEN raw - 2 ^ c.logical ELSE raw]

\* Whether the fields of an area, in order o, are valid.
FieldsValid(area, o) ==
  /\ \A p \in DOMAIN o :
       ChannelOf(o, p).type # "fixed bytes" =>
         ExtensionValid(Read(block, o, area, p), ChannelOf(o, p))
  /\ PaddingClear(block, o, area)

\* The samples, from their indexes and times and the values by position.
Samples(o, indexes, sampleTimes, values) ==
  LET At(s, l) == CHOOSE p \in DOMAIN o : o[p].sample = s /\ o[p].lane = l
  IN  [s \in 1 .. count |->
         [index |-> indexes[s], time |-> sampleTimes[s],
          values |-> [l \in 1 .. LaneCount(block.channels) |->
                        values[At(s - 1, l - 1)]]]]

RefuseIndexes ==
  /\ reading = "decoded" /\ ~IndexesFit
  /\ reading' = "failed"
  /\ UNCHANGED <<timeVars, block, given, coding, stored, canonical, samples>>

TimeSample ==
  /\ reading = "decoded" /\ IndexesFit
  /\ TimeNext
  /\ UNCHANGED <<block, given, coding, stored, reading, canonical, samples>>

RefuseTimes ==
  /\ reading = "decoded" /\ timing = "refused"
  /\ reading' = "failed"
  /\ UNCHANGED <<timeVars, block, given, coding, stored, canonical, samples>>

DecodeValues ==
  /\ reading = "decoded" /\ IndexesFit /\ TimesDone
  /\ IF FieldsValid(canonical, order)
       THEN /\ samples' =
                 LET o == order
                 IN  Samples(o, [s \in 1 .. count |-> block.first + s - 1], times,
                       [p \in DOMAIN o |->
                          MakeValue(Read(block, o, canonical, p), ChannelOf(o, p))])
            /\ reading' = "done"
       ELSE reading' = "failed" /\ UNCHANGED samples
  /\ UNCHANGED <<timeVars, block, given, coding, stored, canonical>>

ReadInC ==
  DecodeTransforms \/ RefuseIndexes \/ TimeSample \/ RefuseTimes \/ DecodeValues

CodecInit ==
  /\ block \in Blocks /\ given \in Areas(block)
  /\ header = block.header
  /\ TimeStart
  /\ coding = "given" /\ stored = << >>
  /\ reading = "waiting" /\ canonical = {} /\ samples = << >>
=============================================================================
