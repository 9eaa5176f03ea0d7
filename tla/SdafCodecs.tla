----------------------------- MODULE SdafCodecs -----------------------------
(***************************************************************************)
(* One DATA record through the codecs of both libraries: one of them       *)
(* writes it, with or without transforms, and both read it.                *)
(***************************************************************************)
EXTENDS SdafNetCodec

allVars == <<codecVars, netCodecVars>>

CodecsInit ==
  /\ CodecInit
  /\ netReading = "waiting" /\ netCanonical = {} /\ netSamples = << >>

CodecsNext ==
  \/ WriteInC /\ UNCHANGED netCodecVars
  \/ WriteInNet
  \/ ReadInC /\ UNCHANGED netCodecVars
  \/ ReadInNet

CodecsSpec == CodecsInit /\ [][CodecsNext]_allVars
-----------------------------------------------------------------------------
\* An area as the format wants it: each field's bits above the logical ones
\* repeat the sign within the storage bits, all others are zero.
InCanonicalForm(area, o) ==
  /\ area \subseteq 0 .. UsedBits(block, o) - 1
  /\ \A p \in DOMAIN o :
       LET c == ChannelOf(o, p)
           v == Read(block, o, area, p)
           sign == c.type = "signed" /\ (v \div 2 ^ (c.logical - 1)) % 2 = 1
       IN  v \div 2 ^ c.logical
             = IF sign THEN 2 ^ (c.storage - c.logical) - 1 ELSE 0

(***************************************************************************)
(* What either reader gets back from the transforms has the logical bits   *)
(* the writer was given and is in canonical form, whichever library wrote  *)
(* it; so an area in canonical form comes back bit for bit, and without    *)
(* transforms every area does.                                             *)
(***************************************************************************)
Restored(area, o) ==
  IF block.profile = "none" THEN area = given
    ELSE /\ InCanonicalForm(area, o)
         /\ \A p \in DOMAIN o :
              (Read(block, o, area, p) - Read(block, o, given, p))
                % 2 ^ ChannelOf(o, p).logical = 0
TransformsAreUndone ==
  /\ reading \in {"decoded", "done"} => Restored(canonical, order)
  /\ netReading = "done" => Restored(netCanonical, order)

\* Where the libraries are known to differ: bits above the storage bits of
\* an aligned field, ticks beyond INT64_MAX before a negative start, sample
\* indexes that wrap.
NoStrayBits ==
  LET o == order
  IN  \A p \in DOMAIN o : Read(block, o, canonical, p) < 2 ^ ChannelOf(o, p).storage
TicksFitInt ==
  header.mode = "periodic" =>
    \A n \in 0 .. count - 1 :
      (n * header.numerator) \div header.denominator <= MaxInt

(***************************************************************************)
(* The two readers agree on every record: both refuse it, or both deliver  *)
(* the same indexes, times and values, but for the differences just named. *)
(***************************************************************************)
ReadersAgree ==
  /\ {reading, netReading} \subseteq {"done", "failed"}
  /\ IndexesFit /\ TicksFitInt
  => /\ reading = netReading
     /\ reading = "done" /\ NoStrayBits => samples = netSamples

(***************************************************************************)
(* The values the .NET reader delivers do not depend on how they were      *)
(* stored: an area it would read without transforms yields the same        *)
(* samples with them.                                                      *)
(***************************************************************************)
StorageIsInvisible ==
  block.profile # "none" /\ coding = "stored" /\ netReading # "waiting"
  /\ NetAccepts(given, netOrder) =>
    /\ netReading = "done"
    /\ netSamples = NetDecodeSamples(given, netOrder)

(***************************************************************************)
(* A value the C reader delivers is one its logical bits can express:      *)
(* unused high bits carry no value, and an aligned field's follow the same *)
(* rule as a dense one's.                                                  *)
(***************************************************************************)
ValuesFitLogicalBits ==
  reading = "done" =>
    LET o == order
    IN  \A p \in DOMAIN o :
          samples[o[p].sample + 1].values[o[p].lane + 1].raw
            < 2 ^ ChannelOf(o, p).logical
=============================================================================
