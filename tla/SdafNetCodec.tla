---------------------------- MODULE SdafNetCodec ----------------------------
(***************************************************************************)
(* The sample codec of the .NET library (SampleCodec.cs), beside that of   *)
(* the C library and for the same record: either may write it, both read.  *)
(***************************************************************************)
EXTENDS SdafCodec

VARIABLES
  netReading,    \* "waiting", "done", or "failed"
  netCanonical,  \* the array DecodeTransforms returns
  netSamples     \* SdafDataRecord.Samples

netCodecVars == <<netReading, netCanonical, netSamples>>

netOrder == EnumerateOrder(block, count)
-----------------------------------------------------------------------------
(* Writing.                                                                *)

\* ReadRawInOrder: the whole fields, unused bits included.
ReadRawInOrder(o) == [p \in DOMAIN o |-> Read(block, o, given, p)]

NetEncodeNumeric ==
  /\ block.profile = "numeric" /\ IntegersOfOneWidth(block)
  /\ LET o == netOrder IN Keep(Shuffled(NumericWords(ReadRawInOrder(o), o)))

NetEncodeBitwise ==
  /\ block.profile = "bitwise" /\ FloatsOfOneWidth(block)
  /\ LET o == netOrder IN Keep(Shuffled(BitwiseWords(ReadRawInOrder(o), o)))

WriteInNet ==
  /\ coding = "given"
  /\ EncodePlain \/ NetEncodeNumeric \/ NetEncodeBitwise \/ RefuseProfile
  /\ UNCHANGED <<timeVars, block, given, reading, canonical, samples, netCodecVars>>
-----------------------------------------------------------------------------
(* Reading.                                                                *)

NetDecodeTransforms(o) ==
  CASE block.profile = "none" -> stored
    [] block.profile = "numeric" ->
         WriteCanonical(block, o, NumericRaw(Unshuffled, o))
    [] block.profile = "bitwise" ->
         WriteCanonical(block, o, BitwiseRaw(Unshuffled, o))

\* ToValue: the logical bits, whatever else the field holds.
ToValue(v, c) ==
  LET raw == v % 2 ^ c.logical
  IN  [raw |-> raw,
       number |-> IF c.type = "signed" /\ HasSign(raw, c.logical)
                    THEN raw - 2 ^ c.logical ELSE raw]

NetValue(v, c) == IF c.type = "fixed bytes" THEN MakeValue(v, c) ELSE ToValue(v, c)

\* What DecodeSamples asks of an area before it returns the samples.
NetAccepts(area, o) ==
  /\ \A n \in 0 .. count - 1 : NetTimeFits(n)
  /\ FieldsValid(area, o)

\* Sample indexes are added without a check: they wrap.
NetDecodeSamples(area, o) ==
  Samples(o, [s \in 1 .. count |-> (block.first + s - 1) % (MaxWord + 1)],
          [s \in 1 .. count |-> NetTime(s - 1)],
          [p \in DOMAIN o |-> NetValue(Read(block, o, area, p), ChannelOf(o, p))])

NetRefusesWords == block.profile # "none" /\ ~WordsFit

\* DecodeTransforms and DecodeSamples, one after the other as ParseData
\* calls them.
ReadInNet ==
  LET o == netOrder
      area == NetDecodeTransforms(o)
  IN  /\ coding = "stored" /\ netReading = "waiting"
      /\ IF NetRefusesWords
           THEN netReading' = "failed" /\ UNCHANGED <<netCanonical, netSamples>>
           ELSE /\ netCanonical' = area
                /\ IF NetAccepts(area, o)
                     THEN /\ netSamples' = NetDecodeSamples(area, o)
                          /\ netReading' = "done"
                     ELSE netReading' = "failed" /\ UNCHANGED netSamples
      /\ UNCHANGED codecVars
=============================================================================
