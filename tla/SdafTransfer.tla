---------------------------- MODULE SdafTransfer ----------------------------
(***************************************************************************)
(* What one side encodes and the other decodes, with an unreliable medium  *)
(* in between: the decoder is given the buffer of the encoder cut off at   *)
(* any point (a truncated file, power lost in the middle of a write) and   *)
(* with up to MaxDamage of its cells altered.                              *)
(***************************************************************************)
EXTENDS SdafPair

CONSTANTS
  MaxDamage,   \* bound: cells altered on the way
  WrongSizes   \* payload sizes an altered header may claim

ASSUME DamageAssumption == MaxDamage \in Nat /\ WrongSizes \subseteq Nat

VARIABLE damaged  \* history: the positions of the input that were altered

transferVars == <<encoderVars, decoderVars, damaged>>

TransferInit == ZeroEncoder /\ NoDocument /\ damaged = {}

-----------------------------------------------------------------------------
(* The medium.  No checksum is forged: an altered header keeps the CRC of  *)
(* what it said before, or has another CRC.                                *)

AlteredHeads(h) ==
  {[h EXCEPT !.is.size = n] : n \in WrongSizes \ {h.is.size}}
    \cup {[h EXCEPT !.is.trailer = ~@],
          [h EXCEPT !.is.excess = @ + 1],
          [h EXCEPT !.is.seq = (@ + 1) % SequenceMod],
          [h EXCEPT !.crc[2].size = @ + 1]}

Altered(c) ==
  {Junk} \cup
  CASE c.cell = "head" -> AlteredHeads(c) \ {c}
    [] c.cell = "tail" -> {[c EXCEPT !.seq = (@ + 1) % SequenceMod]} \ {c}
    [] OTHER -> {}

\* The ways to alter at most MaxDamage cells of some bytes.
DamageTo(bytes) ==
  {d \in SUBSET (1 .. Len(bytes)) : Cardinality(d) <= MaxDamage}

Alterations(bytes, d) ==
  {a \in [d -> UNION {Altered(bytes[i]) : i \in d}] :
     \A i \in d : a[i] \in Altered(bytes[i])}

Alter(bytes, a) ==
  [i \in 1 .. Len(bytes) |-> IF i \in DOMAIN a THEN a[i] ELSE bytes[i]]

HandOver ==
  /\ documentStatus = "idle"
  /\ data # <<>>
  /\ \E n \in 0 .. Len(data) :
       LET bytes == SubSeq(data, 1, n) IN
       \E d \in DamageTo(bytes) :
         \E a \in Alterations(bytes, d) :
           Start(Alter(bytes, a)) /\ damaged' = d
  /\ UNCHANGED encoderVars

-----------------------------------------------------------------------------

Encode ==
  /\ documentStatus = "idle"
  /\ EncoderCall
  /\ UNCHANGED <<decoderVars, damaged>>

Decode == DecodeStep /\ UNCHANGED <<encoderVars, damaged>>

Forget == FreeDocument /\ damaged' = {} /\ UNCHANGED encoderVars

TransferNext == Encode \/ HandOver \/ Decode \/ Forget

TransferSpec == TransferInit /\ [][TransferNext]_transferVars

-----------------------------------------------------------------------------
(* What the decoder promises, whatever it is given. *)

(***************************************************************************)
(* No silent loss: when sdaf_decode returns SDAF_OK for an input that was  *)
(* only cut off, every record the input holds whole is in the document.    *)
(***************************************************************************)
CutLosesOnlyTail ==
  documentStatus = "OK" /\ damaged = {}
    => Len(document) = Cardinality(HeldWhole(Len(input)))

(***************************************************************************)
(* An intact record is never blamed: when the application keeps the rules  *)
(* and stops at an error, and sdaf_decode calls the input malformed, the   *)
(* record at error_offset (or the file header) really was altered, or the  *)
(* input is empty; every record before it is in the document.  The code    *)
(* has one exception, which sdaf_codec.c:361 makes: an intact record with  *)
(* fixed-bytes values, for one of which no memory was left.                *)
(***************************************************************************)
BlameIsJust ==
  Careful /\ StopsOnError /\ documentStatus = "FORMAT" =>
    \/ input = <<>>
    \/ offset = 0 /\ 1 \in damaged
    \/ errorOffset = offset /\ FixedBytesWanted
    \/ /\ errorOffset = offset
       /\ \E p \in damaged :
            /\ p > errorOffset
            /\ Len(document) < Len(written) =>
                 p <= EndOf(written[Len(document) + 1])

(***************************************************************************)
(* A document contradicts itself in nothing, however careless the writer.  *)
(* One (schema_id, schema_revision) pair has one content throughout: a     *)
(* second schema is compared with the last one of its pair only, and that  *)
(* is enough.                                                              *)
(***************************************************************************)
SchemasAgree ==
  \A i, j \in 1 .. Len(document) :
    /\ document[i].type = "SCMA"
    /\ document[j].type = "SCMA"
    /\ document[i].fields = document[j].fields
    => document[i].payload = document[j].payload

(***************************************************************************)
(* Item indexes of a blob stream increase from each item to every later    *)
(* one, although last_blob_index lets the code compare neighbours only.    *)
(***************************************************************************)
ItemsIncrease ==
  \A i, j \in 1 .. Len(document) :
    /\ i < j
    /\ document[i].type = "BLOB"
    /\ document[j].type = "BLOB"
    /\ document[i].fields.id = document[j].fields.id
    /\ document[i].fields.stream = document[j].fields.stream
    => document[i].fields.first < document[j].fields.first

(***************************************************************************)
(* An index entry that reached the document points at a DATA or BLOB       *)
(* record before the index and describes it in every field: it can be used *)
(* for seeking without looking at the target first.                        *)
(***************************************************************************)
EntriesPointBack ==
  \A j \in 1 .. Len(document) :
    document[j].type = "INDX" =>
      \A k \in 1 .. Len(document[j].payload) :
        \E i \in 1 .. j - 1 :
          /\ document[i].type \in {"DATA", "BLOB"}
          /\ document[j].payload[k] = EntryFor(document[i])

(***************************************************************************)
(* A DATA record that was decoded was decoded by a schema that stands      *)
(* before it and has room for exactly its samples; later schemas, torn     *)
(* ones and repeated ones change nothing about it.                         *)
(***************************************************************************)
DecodedByEarlierSchema ==
  \A j \in (1 .. Len(document)) \ opaque :
    document[j].type = "DATA" =>
      \E i \in 1 .. j - 1 :
        LET f == document[j].fields IN
        /\ document[i].type = "SCMA"
        /\ document[i].fields = [id |-> f.id, rev |-> f.rev]
        /\ HoldsData(document[i].payload[1].layout, f.stream, f.mode)
        /\ f.decoded = ExpectedSize(document[i].payload[1].layout,
                                    f.stream, f.count, f.stamps)

(***************************************************************************)
(* The README: "On a complete malformed record, sdaf_decode returns an     *)
(* error while leaving earlier valid records in the document"; only "an    *)
(* incomplete final record returns SDAF_OK".  So SDAF_OK would mean that   *)
(* every complete record of the input was delivered.                       *)
(***************************************************************************)
OkMeansAllDelivered ==
  documentStatus = "OK" => Len(document) = Cardinality(HeldWhole(Len(input)))

-----------------------------------------------------------------------------
(* What these promises rest on: where it is not damaged, the input is what *)
(* the encoder holds, and a scan that came to its end left nothing whole.  *)

Undamaged ==
  \A p \in 1 .. Len(input) : p \notin damaged => input[p] = data[p]

TransferInv ==
  /\ PairInv
  /\ Undamaged
  /\ documentStatus = "OK" /\ damaged = {}
       => HeldWhole(Len(input)) = 1 .. Len(document)

BlameInv ==
  /\ TransferInv
  /\ CarefulLog
  /\ CarefulSamples
  /\ StoppedAtTear
  /\ BlameIsJust
=============================================================================
