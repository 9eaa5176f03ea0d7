--------------------------- MODULE SdafPairProofs ---------------------------
(***************************************************************************)
(* Theorems about the C encoder, for every value of the constants, and why *)
(* a decoder delivers nothing but the beginning of what it wrote.          *)
(*                                                                         *)
(* The invariants of the encoder follow from one that is inductive,        *)
(* EncoderInv: nothing that can happen to a write call disturbs the        *)
(* records already stored or the counters that number them.  BufferInv     *)
(* extends it to what a reader of the buffer relies on.  The theorems of   *)
(* SdafTransfer and of SdafRecording, where the bytes get from one to the  *)
(* other in different ways, rest on the lemmas of this module.             *)
(***************************************************************************)
EXTENDS SdafPair, SdafFormatProofs, FiniteSetTheorems

-----------------------------------------------------------------------------
(* The encoder. *)

(***************************************************************************)
(* A record that sdaf_encoder_record may be asked to store.                *)
(***************************************************************************)
Storable(r) ==
  /\ r \in Records
  /\ r.offset = Len(data)
  /\ r.seq = nextSequence
  /\ FieldsFit(r)
  /\ r.type = "END!" => /\ r.fields.total = recordCount + 1
                        /\ r.fields.datas = dataRecordCount

-----------------------------------------------------------------------------
(* The appends. *)

(***************************************************************************)
(* Appending one record to the history leaves the earlier ones as they     *)
(* were, and counts one DATA record more exactly when it is one.           *)
(***************************************************************************)
LEMMA HistoryGrows ==
  ASSUME written \in Seq(Records), NEW r \in Records,
         written' = Append(written, r)
  PROVE  /\ written' \in Seq(Records)
         /\ Len(written) \in Nat
         /\ Len(written') = Len(written) + 1
         /\ \A i \in 1 .. Len(written) : written'[i] = written[i]
         /\ written'[Len(written) + 1] = r
         /\ \A i \in 1 .. Len(written) : DatasAmong(i)' = DatasAmong(i)
         /\ DatasAmong(0) = {}
         /\ \A i \in 0 .. Len(written) : IsFiniteSet(DatasAmong(i))
         /\ \A n \in Nat :
              n = Len(written) =>
                DatasAmong(n + 1)' =
                  IF r.type = "DATA"
                  THEN DatasAmong(n) \cup {n + 1} ELSE DatasAmong(n)
<1>1. /\ written' \in Seq(Records)
      /\ Len(written) \in Nat
      /\ Len(written') = Len(written) + 1
      /\ \A i \in 1 .. Len(written) : written'[i] = written[i]
      /\ written'[Len(written) + 1] = r
  BY AppendProperties, LenProperties
<1>2. \A i \in 1 .. Len(written) : DatasAmong(i)' = DatasAmong(i)
  BY <1>1 DEF DatasAmong
<1>3. \A i \in 0 .. Len(written) : IsFiniteSet(DatasAmong(i))
  <2> TAKE i \in 0 .. Len(written)
  <2>1. IsFiniteSet(1 .. i)
    BY <1>1, FS_Interval
  <2>2. DatasAmong(i) \in SUBSET (1 .. i)
    BY DEF DatasAmong
  <2> QED
    BY <2>1, <2>2, FS_Subset
<1>4. DatasAmong(0) = {}
  BY DEF DatasAmong
<1>5. ASSUME NEW n \in Nat, n = Len(written)
      PROVE  DatasAmong(n + 1)' =
               IF r.type = "DATA"
               THEN DatasAmong(n) \cup {n + 1} ELSE DatasAmong(n)
  <2>1. ASSUME NEW i
        PROVE  i \in DatasAmong(n + 1)' <=>
                 \/ i \in DatasAmong(n)
                 \/ i = n + 1 /\ r.type = "DATA"
    BY <1>1, <1>5 DEF DatasAmong
  <2> QED
    BY <2>1
<1> QED
  BY <1>1, <1>2, <1>3, <1>4, <1>5

(***************************************************************************)
(* The loop of sdaf_encoder_append, without an appeal to how often it goes *)
(* round: it ends at a capacity with room for what is needed and less than *)
(* twice that, or at the one it started from.                              *)
(***************************************************************************)
Fits(c, size) ==
  /\ c \in Nat
  /\ size <= c
  /\ c <= SizeMax
  /\ c > InitialCapacity => c < 2 * size

LEMMA GrownFits ==
  ASSUME NEW old, NEW size \in Nat, NEW needed \in Nat,
         Fits(old, size), size <= needed, needed <= SizeMax
  PROVE  Fits(Grown(old, needed), needed)
<1> DEFINE start == IF old = 0 THEN InitialCapacity ELSE old
           enough == {d \in Doublings(start) :
                        /\ d \in needed .. SizeMax
                        /\ d = start \/ d < 2 * needed}
<1>1. /\ old \in Nat /\ size <= old /\ old <= SizeMax
      /\ old > InitialCapacity => old < 2 * size
      /\ SizeMax \in Nat /\ InitialCapacity \in 1 .. SizeMax
  BY EncoderAssumption DEF Fits
<1>2. CASE needed <= old
  BY <1>1, <1>2 DEF Grown, Fits
<1>3. CASE needed > old /\ enough = {}
  <2>1. Grown(old, needed) = needed
    BY <1>1, <1>3 DEF Grown
  <2> QED
    BY <1>1, <1>3, <2>1 DEF Fits
<1>4. CASE needed > old /\ enough # {}
  <2>1. Grown(old, needed) = CHOOSE d \in enough : TRUE
    BY <1>1, <1>4 DEF Grown
  <2>2. PICK d : d = Grown(old, needed) /\ d \in enough
    BY <1>4, <2>1
  <2>3. d \in needed .. SizeMax /\ (d = start \/ d < 2 * needed)
    BY <2>2
  <2>4. d > InitialCapacity => d < 2 * needed
    BY <1>1, <1>4, <2>3
  <2> QED
    BY <1>1, <2>2, <2>3, <2>4 DEF Fits
<1> QED
  BY <1>1, <1>2, <1>3, <1>4

(***************************************************************************)
(* After any number of the appends of a record, the buffer is what it was  *)
(* with some cells behind it, and its capacity fits.                       *)
(***************************************************************************)
LEMMA AfterAppends ==
  ASSUME data \in Seq(Cells), capacity \in Nat, CapacityHolds,
         NEW r \in Records, NEW n \in 0 .. 3, Len(After(r, n)) <= SizeMax
  PROVE  /\ \E more \in Seq(Cells) : After(r, n) = data \o more
         /\ After(r, n) \in Seq(Cells)
         /\ Fits(CapacityAfter(r, n), Len(After(r, n)))
         /\ After(r, 3) = data \o Stored(r)
<1>1. /\ <<HeadCell(r)>> \in Seq(Cells) /\ r.payload \in Seq(Cells)
      /\ Stored(r) \in Seq(Cells)
      /\ Len(Stored(r)) = TotalSize(Len(r.payload), r.trailer)
  BY StoredType
<1>2. /\ Len(<<HeadCell(r)>>) = 1 /\ Len(r.payload) \in Nat
      /\ <<HeadCell(r)>> \o r.payload \in Seq(Cells)
      /\ Len(<<HeadCell(r)>> \o r.payload) = 1 + Len(r.payload)
  BY <1>1, ConcatProperties, LenProperties
<1>3. Len(Stored(r)) >= 1 + Len(r.payload) /\ Len(Stored(r)) \in Nat
  <2>1. PICK k \in Nat : k = Len(r.payload)
    BY <1>2
  <2>2. \/ TotalSize(k, r.trailer) = 1 + k + 1
        \/ TotalSize(k, r.trailer) = 1 + k + 0
    BY DEF TotalSize
  <2> QED
    BY <1>1, <2>1, <2>2
<1>4. /\ After(r, 0) = data \o <<>>
      /\ After(r, 1) = data \o <<HeadCell(r)>>
      /\ After(r, 2) = data \o (<<HeadCell(r)>> \o r.payload)
      /\ After(r, 3) = data \o Stored(r)
  <2> DEFINE parts == <<<<>>, <<HeadCell(r)>>, <<HeadCell(r)>> \o r.payload,
                        Stored(r)>>
  <2>1. \A k : After(r, k) = data \o parts[k + 1]
    BY DEF After
  <2>2. /\ parts[0 + 1] = <<>> /\ parts[1 + 1] = <<HeadCell(r)>>
        /\ parts[2 + 1] = <<HeadCell(r)>> \o r.payload
        /\ parts[3 + 1] = Stored(r)
    OBVIOUS
  <2> HIDE DEF parts
  <2> QED
    BY <2>1, <2>2
<1>5. Len(data) \in Nat /\ After(r, 0) = data
  BY <1>4, LenProperties, ConcatEmptySeq
<1>6. /\ Len(After(r, 1)) = Len(data) + 1
      /\ Len(After(r, 2)) = Len(data) + (1 + Len(r.payload))
      /\ Len(After(r, 3)) = Len(data) + Len(Stored(r))
  BY <1>1, <1>2, <1>4, ConcatProperties
<1>7. \E more \in Seq(Cells) : After(r, n) = data \o more
  <2>1. <<>> \in Seq(Cells) /\ n \in {0, 1, 2, 3}
    OBVIOUS
  <2> QED
    BY <1>1, <1>2, <1>4, <2>1
<1>8. Fits(capacity, Len(data))
  BY DEF CapacityHolds, Fits
<1>9. Fits(CapacityAfter(r, n), Len(After(r, n)))
  <2> DEFINE head == Grown(capacity, Len(After(r, 1)))
             body == Grown(head, Len(After(r, 2)))
             tail == Grown(body, Len(After(r, 3)))
  <2>1. /\ CapacityAfter(r, 0) = capacity /\ CapacityAfter(r, 1) = head
        /\ CapacityAfter(r, 2) = body /\ CapacityAfter(r, 3) = tail
    BY DEF CapacityAfter
  <2>2. n >= 1 => Fits(head, Len(After(r, 1)))
    <3> SUFFICES ASSUME n >= 1 PROVE Fits(head, Len(After(r, 1)))
      OBVIOUS
    <3>1. n \in {1, 2, 3}
      OBVIOUS
    <3>2. Len(After(r, 1)) <= SizeMax
      BY <1>2, <1>3, <1>5, <1>6, <3>1, EncoderAssumption
    <3>3. Len(After(r, 1)) \in Nat /\ Len(data) <= Len(After(r, 1))
      BY <1>5, <1>6
    <3> QED
      BY <1>5, <1>8, <3>2, <3>3, GrownFits
  <2>3. n >= 2 => Fits(body, Len(After(r, 2)))
    <3> SUFFICES ASSUME n >= 2 PROVE Fits(body, Len(After(r, 2)))
      OBVIOUS
    <3>1. n \in {2, 3}
      OBVIOUS
    <3>2. Len(After(r, 2)) <= SizeMax
      BY <1>2, <1>3, <1>5, <1>6, <3>1, EncoderAssumption
    <3>3. /\ Len(After(r, 1)) \in Nat /\ Len(After(r, 2)) \in Nat
          /\ Len(After(r, 1)) <= Len(After(r, 2))
      BY <1>2, <1>5, <1>6
    <3>4. Fits(head, Len(After(r, 1)))
      BY <2>2
    <3> HIDE DEF head
    <3> QED
      BY <3>2, <3>3, <3>4, GrownFits
  <2>4. n = 3 => Fits(tail, Len(After(r, 3)))
    <3> SUFFICES ASSUME n = 3 PROVE Fits(tail, Len(After(r, 3)))
      OBVIOUS
    <3>1. /\ Len(After(r, 2)) \in Nat /\ Len(After(r, 3)) \in Nat
          /\ Len(After(r, 2)) <= Len(After(r, 3))
          /\ Len(After(r, 3)) <= SizeMax
      BY <1>2, <1>3, <1>5, <1>6
    <3>2. Fits(body, Len(After(r, 2)))
      BY <2>3
    <3> HIDE DEF body
    <3> QED
      BY <3>1, <3>2, GrownFits
  <2> HIDE DEF head, body, tail
  <2>5. n \in {0, 1, 2, 3}
    OBVIOUS
  <2> QED
    BY <1>5, <1>8, <2>1, <2>2, <2>3, <2>4, <2>5
<1> QED
  BY <1>4, <1>7, <1>9, ConcatProperties

-----------------------------------------------------------------------------
(* What a write call does. *)

(***************************************************************************)
(* The three outcomes of a write call: a record is stored whole, and       *)
(* counts as a DATA record exactly when it is one; a record is torn; or    *)
(* nothing happens, but for an error that may be recorded.                 *)
(***************************************************************************)
Stores(r) ==
  /\ Storable(r)
  /\ StoreWhole(r)
  /\ dataRecordCount' =
       IF r.type = "DATA" THEN dataRecordCount + 1 ELSE dataRecordCount

Tears(r) ==
  /\ Storable(r)
  /\ StopShort(r)
  /\ dataRecordCount' = dataRecordCount

Declines ==
  \E status \in EncoderStatuses :
    Refuse(status) /\ (status = encoderStatus \/ status # "OK")

Outcome == Declines \/ \E r : Stores(r) \/ Tears(r)

LEMMA RefuseDeclines ==
  ASSUME EncoderInv,
         \/ Refuse(encoderStatus)
         \/ \E status \in EncoderStatuses \ {"OK"} : Refuse(status)
  PROVE  Outcome
<1>1. encoderStatus \in EncoderStatuses
  BY DEF EncoderInv, EncoderTypeOK
<1> QED
  BY <1>1 DEF Outcome, Declines

LEMMA OutOfMemoryDeclines ==
  ASSUME EncoderInv,
         \/ PayloadOutOfMemory \/ PayloadOutOfMemoryUnrecorded
         \/ Refuse("MEMORY")
  PROVE  Outcome
<1>1. "MEMORY" \in EncoderStatuses \ {"OK"}
  BY DEF EncoderStatuses
<1> QED
  BY <1>1, RefuseDeclines DEF PayloadOutOfMemory, PayloadOutOfMemoryUnrecorded

(***************************************************************************)
(* sdaf_encoder_record has these outcomes, for a record it may be asked to *)
(* store.                                                                  *)
(***************************************************************************)
LEMMA RecordOutcome ==
  ASSUME EncoderInv, NEW r, Storable(r),
         \/ /\ StoreWhole(r)
            /\ dataRecordCount' =
                 IF r.type = "DATA" THEN dataRecordCount + 1
                                    ELSE dataRecordCount
         \/ /\ StopShort(r) \/ NoBuffer
            /\ dataRecordCount' = dataRecordCount
  PROVE  Outcome
<1>1. CASE NoBuffer /\ dataRecordCount' = dataRecordCount
  <2>1. Refuse(encoderStatus)
    BY <1>1 DEF NoBuffer, Refuse
  <2> QED
    BY <2>1, RefuseDeclines
<1> QED
  BY <1>1 DEF Outcome, Stores, Tears

LEMMA EncodeRecordOutcome ==
  ASSUME EncoderInv, NEW r, Storable(r), r.type # "DATA", EncodeRecord(r)
  PROVE  Outcome
<1>1. /\ StoreWhole(r) \/ StopShort(r) \/ NoBuffer
      /\ dataRecordCount' = dataRecordCount
  BY DEF EncodeRecord
<1> QED
  BY <1>1, RecordOutcome

(***************************************************************************)
(* A new record with fields and payload of the right kind can be stored.   *)
(***************************************************************************)
LEMMA NewRecordStorable ==
  ASSUME EncoderInv,
         NEW type \in RecordTypes, NEW trailer \in BOOLEAN,
         NEW fields \in Fields, NEW payload \in Seq(PayloadCells),
         FieldsFit(NewRecord(type, trailer, fields, payload)),
         type = "END!" => /\ fields.total = recordCount + 1
                          /\ fields.datas = dataRecordCount
  PROVE  /\ Storable(NewRecord(type, trailer, fields, payload))
         /\ NewRecord(type, trailer, fields, payload).type = type
<1> DEFINE r == NewRecord(type, trailer, fields, payload)
<1>1. /\ data \in Seq(Cells) /\ Len(data) \in Nat
      /\ nextSequence \in 0 .. SequenceMod - 1
  BY LenProperties DEF EncoderInv, EncoderTypeOK
<1>2. /\ r.type = type /\ r.trailer = trailer /\ r.seq = nextSequence
      /\ r.offset = Len(data) /\ r.fields = fields /\ r.payload = payload
  BY DEF NewRecord
<1>3. r \in Records
  BY <1>1 DEF NewRecord, Records
<1> HIDE DEF r
<1>4. Storable(r)
  BY <1>2, <1>3 DEF Storable, r
<1> QED
  BY <1>2, <1>4 DEF r

LEMMA SchemaOutcome ==
  ASSUME EncoderInv, NEW c \in SchemaCalls, WriteSchema(c)
  PROVE  Outcome
<1> DEFINE fields == [id |-> c.schema.id, rev |-> c.schema.rev]
           payload == <<[cell |-> "layout", layout |-> c.schema.layout]>>
           r == NewRecord("SCMA", c.trailer, fields, payload)
<1>1. c.schema \in Schemas /\ c.trailer \in BOOLEAN
  BY EncoderAssumption
<1>2. CASE Refuse("FORMAT") \/ Refuse("LIMIT")
  BY <1>2, RefuseDeclines DEF EncoderStatuses
<1>3. CASE Refuse("MEMORY")
  BY <1>3, OutOfMemoryDeclines
<1>4. CASE /\ EncodeRecord(r)
           /\ c.schema.id # 0 /\ c.schema.rev # 0
           /\ c.schema.layout \in ValidLayouts
  <2>1. fields \in SchemaFields
    BY <1>1 DEF Schemas, SchemaFields
  <2>2. fields \in Fields
    BY <2>1 DEF Fields
  <2>3. payload \in Seq(PayloadCells)
    BY <1>1 DEF Schemas, LayoutCells, PayloadCells
  <2>4. /\ r.type = "SCMA" /\ r.fields = fields /\ r.payload = payload
        /\ "SCMA" \in RecordTypes
    BY DEF NewRecord, RecordTypes
  <2>5. FieldsFit(r)
    BY <1>4, <2>1, <2>4 DEF FieldsFit
  <2> HIDE DEF fields, payload
  <2> QED
    BY <1>1, <1>4, <2>2, <2>3, <2>4, <2>5, NewRecordStorable,
       EncodeRecordOutcome
<1> QED
  BY <1>2, <1>3, <1>4 DEF WriteSchema

LEMMA DataOutcome ==
  ASSUME EncoderInv, NEW c \in DataCalls, WriteData(c)
  PROVE  Outcome
<1> DEFINE fields ==
             [id |-> c.id, rev |-> c.rev, stream |-> c.stream,
              first |-> c.first, count |-> c.count, mode |-> c.mode,
              times |-> c.times, stamps |-> c.stamps,
              decoded |-> Len(c.values), profile |-> c.profile]
<1>1. /\ c.id \in Nat /\ c.rev \in Nat /\ c.stream \in Nat /\ c.first \in Nat
      /\ c.count \in Nat /\ c.mode \in TimeModes /\ c.times \in Times
      /\ c.stamps \in Nat
      /\ c.profile \in Profiles /\ c.values \in Seq(Values)
      /\ c.trailer \in BOOLEAN
  BY EncoderAssumption
<1>2. CASE Refuse(encoderStatus) \/ Refuse("ARGUMENT")
  BY <1>2, RefuseDeclines DEF EncoderStatuses
<1>3. CASE PayloadOutOfMemory
  BY <1>3, OutOfMemoryDeclines
<1>4. Storable(DataRecord(c)) /\ DataRecord(c).type = "DATA"
  <2>1. fields \in DataFields
    BY <1>1, LenProperties DEF DataFields
  <2>2. fields \in Fields
    BY <2>1 DEF Fields
  <2>3. Encoded(c.profile, c.values) \in Seq(PayloadCells)
    BY <1>1, EncodedType
  <2>4. DataRecord(c) = NewRecord("DATA", c.trailer, fields,
                                  Encoded(c.profile, c.values))
    BY DEF DataRecord
  <2>5. /\ DataRecord(c).type = "DATA" /\ DataRecord(c).fields = fields
        /\ "DATA" \in RecordTypes
    BY DEF DataRecord, NewRecord, RecordTypes
  <2> HIDE DEF fields
  <2>6. FieldsFit(DataRecord(c))
    BY <2>1, <2>5 DEF FieldsFit
  <2> QED
    BY <1>1, <2>2, <2>3, <2>4, <2>5, <2>6, NewRecordStorable
<1>5. CASE \/ /\ StoreWhole(DataRecord(c))
              /\ dataRecordCount' = dataRecordCount + 1
           \/ /\ StopShort(DataRecord(c)) \/ NoBuffer
              /\ UNCHANGED dataRecordCount
  BY <1>4, <1>5, RecordOutcome
<1> QED
  BY <1>2, <1>3, <1>5 DEF WriteData

LEMMA TextOutcome ==
  ASSUME EncoderInv, NEW c \in TextCalls, WriteText(c)
  PROVE  Outcome
<1> DEFINE fields == [id |-> c.id, rev |-> c.rev, stream |-> c.stream]
           r == NewRecord("TEXT", c.trailer, fields, AsCells(c.values))
<1>1. /\ c.id \in Nat /\ c.rev \in Nat /\ c.stream \in Nat
      /\ c.values \in Seq(Values) /\ c.trailer \in BOOLEAN
  BY EncoderAssumption
<1>2. CASE Refuse("ARGUMENT")
  BY <1>2, RefuseDeclines DEF EncoderStatuses
<1>3. CASE EncodeRecord(r)
  <2>1. fields \in TextFields
    BY <1>1 DEF TextFields
  <2>2. fields \in Fields
    BY <2>1 DEF Fields
  <2>3. /\ r.type = "TEXT" /\ r.fields = fields
        /\ "TEXT" \in RecordTypes
    BY DEF NewRecord, RecordTypes
  <2> HIDE DEF fields
  <2>4. FieldsFit(r)
    BY <2>1, <2>3 DEF FieldsFit
  <2> QED
    BY <1>1, <1>3, <2>2, <2>3, <2>4, CellsType, NewRecordStorable,
       EncodeRecordOutcome
<1> QED
  BY <1>2, <1>3 DEF WriteText

LEMMA BlobOutcome ==
  ASSUME EncoderInv, NEW c \in BlobCalls, WriteBlob(c)
  PROVE  Outcome
<1> DEFINE fields ==
             [id |-> c.id, rev |-> c.rev, stream |-> c.stream,
              first |-> c.first, decoded |-> Len(c.values),
              profile |-> c.profile]
           r == NewRecord("BLOB", c.trailer, fields,
                          Encoded(c.profile, c.values))
<1>1. /\ c.id \in Nat /\ c.rev \in Nat /\ c.stream \in Nat /\ c.first \in Nat
      /\ c.profile \in Profiles /\ c.values \in Seq(Values)
      /\ c.trailer \in BOOLEAN
  BY EncoderAssumption
<1>2. CASE Refuse(encoderStatus)
  BY <1>2, RefuseDeclines
<1>3. CASE PayloadOutOfMemoryUnrecorded
  BY <1>3, OutOfMemoryDeclines
<1>4. CASE EncodeRecord(r)
  <2>1. fields \in BlobFields
    BY <1>1, LenProperties DEF BlobFields
  <2>2. fields \in Fields
    BY <2>1 DEF Fields
  <2>3. Encoded(c.profile, c.values) \in Seq(PayloadCells)
    BY <1>1, EncodedType
  <2>4. /\ r.type = "BLOB" /\ r.fields = fields
        /\ "BLOB" \in RecordTypes
    BY DEF NewRecord, RecordTypes
  <2> HIDE DEF fields
  <2>5. FieldsFit(r)
    BY <2>1, <2>4 DEF FieldsFit
  <2> QED
    BY <1>1, <1>4, <2>2, <2>3, <2>4, <2>5, NewRecordStorable,
       EncodeRecordOutcome
<1> QED
  BY <1>2, <1>3, <1>4 DEF WriteBlob

LEMMA PlainOutcome ==
  ASSUME EncoderInv,
         \/ \E c \in NoteCalls : WriteNote(c)
         \/ \E c \in PrivateCalls : WritePrivate(c)
  PROVE  Outcome
<1>1. NoFields \in Fields /\ {"NOTE", "PRIV"} \subseteq RecordTypes
  BY DEF Fields, RecordTypes
<1>2. ASSUME NEW type \in {"NOTE", "PRIV"}, NEW values \in Seq(Values),
             NEW trailer \in BOOLEAN,
             EncodeRecord(NewRecord(type, trailer, NoFields,
                                    AsCells(values)))
      PROVE  Outcome
  <2>1. NewRecord(type, trailer, NoFields, AsCells(values)).type = type
    BY DEF NewRecord
  <2>2. FieldsFit(NewRecord(type, trailer, NoFields, AsCells(values)))
    BY <2>1 DEF FieldsFit
  <2> QED
    BY <1>1, <1>2, <2>1, <2>2, CellsType, NewRecordStorable,
       EncodeRecordOutcome
<1>3. CASE \E c \in NoteCalls : WriteNote(c)
  <2>1. PICK c \in NoteCalls : WriteNote(c)
    BY <1>3
  <2>2. c.values \in Seq(Values) /\ c.trailer \in BOOLEAN
    BY EncoderAssumption
  <2> QED
    BY <1>2, <2>1, <2>2 DEF WriteNote
<1>4. CASE \E c \in PrivateCalls : WritePrivate(c)
  <2>1. PICK c \in PrivateCalls : WritePrivate(c)
    BY <1>4
  <2>2. c.values \in Seq(Values) /\ c.trailer \in BOOLEAN
    BY EncoderAssumption
  <2> QED
    BY <1>2, <2>1, <2>2 DEF WritePrivate
<1> QED
  BY <1>3, <1>4

LEMMA IndexOutcome ==
  ASSUME EncoderInv, NEW entries \in IndexArguments,
         NEW trailer \in IndexTrailers, WriteIndex(entries, trailer)
  PROVE  Outcome
<1>1. TrueEntries \subseteq EntryCells
  <2> SUFFICES ASSUME NEW i \in 1 .. Len(written),
                      written[i].type \in {"DATA", "BLOB"}
               PROVE  EntryFor(written[i]) \in EntryCells
    BY DEF TrueEntries
  <2>1. /\ written[i] \in Records
        /\ FieldsFit(written[i])
    BY ElementOfSeq DEF EncoderInv, EncoderTypeOK
  <2>2. written[i].offset \in Nat /\ written[i].seq \in Nat
    BY <2>1, SequenceAssumption DEF Records
  <2>3. CASE written[i].type = "DATA"
    <3>1. written[i].fields \in DataFields
      BY <2>1, <2>3 DEF FieldsFit
    <3> QED
      BY <2>2, <2>3, <3>1 DEF DataFields, EntryFor, EntryCells
  <2>4. CASE written[i].type = "BLOB"
    <3>1. written[i].fields \in BlobFields
      BY <2>1, <2>4 DEF FieldsFit
    <3> QED
      BY <2>2, <2>4, <3>1 DEF BlobFields, EntryFor, EntryCells
  <2> QED
    BY <2>3, <2>4
<1>2. entries \in Seq(EntryCells) /\ entries \in Seq(PayloadCells)
  <2>1. StrayEntries \subseteq EntryCells
    BY EncoderAssumption
  <2>2. entries = <<>> \/ \E e \in EntryCells : entries = <<e>>
    BY <1>1, <2>1 DEF IndexArguments
  <2>3. entries \in Seq(EntryCells)
    <3>1. CASE entries = <<>>
      BY <3>1
    <3>2. CASE \E e \in EntryCells : entries = <<e>>
      <4>1. PICK e \in EntryCells : entries = <<e>>
        BY <3>2
      <4> QED
        BY <4>1
    <3> QED
      BY <2>2, <3>1, <3>2
  <2>4. EntryCells \subseteq PayloadCells
    BY DEF PayloadCells
  <2> QED
    BY <2>3, <2>4, SeqMonotonic
<1>3. CASE PayloadOutOfMemoryUnrecorded
  BY <1>3, OutOfMemoryDeclines
<1>4. CASE EncodeRecord(NewRecord("INDX", trailer, NoFields, entries))
  <2>1. NoFields \in Fields /\ "INDX" \in RecordTypes /\ trailer \in BOOLEAN
    BY EncoderAssumption DEF Fields, RecordTypes
  <2>2. /\ NewRecord("INDX", trailer, NoFields, entries).type = "INDX"
        /\ NewRecord("INDX", trailer, NoFields, entries).payload = entries
    BY DEF NewRecord
  <2>3. FieldsFit(NewRecord("INDX", trailer, NoFields, entries))
    BY <1>2, <2>2 DEF FieldsFit
  <2> QED
    BY <1>2, <1>4, <2>1, <2>2, <2>3, NewRecordStorable, EncodeRecordOutcome
<1> QED
  BY <1>3, <1>4 DEF WriteIndex

LEMMA EndOutcome ==
  ASSUME EncoderInv, NEW lastIndex \in LastIndexes, WriteEnd(lastIndex)
  PROVE  Outcome
<1> DEFINE fields == [total |-> recordCount + 1, datas |-> dataRecordCount,
                      lastIndex |-> lastIndex]
           r == NewRecord("END!", FALSE, fields, <<>>)
<1>1. lastIndex \in Nat
  <2>1. \A i \in 1 .. Len(written) : written[i].offset \in Nat
    <3> TAKE i \in 1 .. Len(written)
    <3>1. written[i] \in Records
      BY ElementOfSeq DEF EncoderInv, EncoderTypeOK
    <3> QED
      BY <3>1 DEF Records
  <2> QED
    BY <2>1 DEF LastIndexes, IndexOffsets
<1>2. recordCount \in Nat /\ dataRecordCount \in Nat
  BY DEF EncoderInv, EncoderTypeOK
<1>3. fields \in EndFields
  BY <1>1, <1>2 DEF EndFields
<1>4. fields \in Fields
  BY <1>3 DEF Fields
<1>5. <<>> \in Seq(PayloadCells) /\ "END!" \in RecordTypes
  BY DEF RecordTypes
<1>6. fields.total = recordCount + 1 /\ fields.datas = dataRecordCount
  OBVIOUS
<1>7. r.type = "END!" /\ r.fields = fields
  BY DEF NewRecord
<1>8. EncodeRecord(r)
  BY DEF WriteEnd
<1> HIDE DEF fields
<1>9. FieldsFit(r)
  BY <1>3, <1>7 DEF FieldsFit
<1> QED
  BY <1>4, <1>5, <1>6, <1>7, <1>8, <1>9, NewRecordStorable,
     EncodeRecordOutcome

(***************************************************************************)
(* A call on an encoder that has a buffer has one of the outcomes; only    *)
(* sdaf_encoder_init does something else.                                  *)
(***************************************************************************)
LEMMA CallOutcome ==
  ASSUME EncoderInv, EncoderCall
  PROVE  Outcome \/ Initialize
<1>1. CASE \E c \in SchemaCalls : WriteSchema(c)
  BY <1>1, SchemaOutcome
<1>2. CASE \E c \in DataCalls : WriteData(c)
  BY <1>2, DataOutcome
<1>3. CASE \E c \in TextCalls : WriteText(c)
  BY <1>3, TextOutcome
<1>4. CASE \E c \in BlobCalls : WriteBlob(c)
  BY <1>4, BlobOutcome
<1>5. CASE \/ \E c \in NoteCalls : WriteNote(c)
           \/ \E c \in PrivateCalls : WritePrivate(c)
  BY <1>5, PlainOutcome
<1>6. CASE \E e \in IndexArguments, t \in IndexTrailers : WriteIndex(e, t)
  BY <1>6, IndexOutcome
<1>7. CASE \E o \in LastIndexes : WriteEnd(o)
  BY <1>7, EndOutcome
<1> QED
  BY <1>1, <1>2, <1>3, <1>4, <1>5, <1>6, <1>7 DEF EncoderCall

-----------------------------------------------------------------------------
(* The steps. *)

(***************************************************************************)
(* A record stored whole keeps the invariant.                              *)
(***************************************************************************)
LEMMA StoreWholeKeeps ==
  ASSUME EncoderInv, NEW r, Storable(r), StoreWhole(r),
         dataRecordCount' =
           IF r.type = "DATA" THEN dataRecordCount + 1 ELSE dataRecordCount
  PROVE  EncoderInv'
<1>1. /\ r \in Records /\ r.offset = Len(data) /\ r.seq = nextSequence
      /\ FieldsFit(r)
      /\ r.type = "END!" => /\ r.fields.total = recordCount + 1
                            /\ r.fields.datas = dataRecordCount
  BY DEF Storable
<1>2. /\ data # <<>>
      /\ data' = data \o Stored(r)
      /\ Fits(capacity', Len(data'))
      /\ nextSequence' = (nextSequence + 1) % SequenceMod
      /\ recordCount' = recordCount + 1
      /\ written' = Append(written, r)
      /\ encoderStatus' = encoderStatus
  <2>1. /\ data # <<>> /\ Len(After(r, 3)) <= SizeMax
        /\ data' = After(r, 3) /\ capacity' = CapacityAfter(r, 3)
        /\ nextSequence' = (nextSequence + 1) % SequenceMod
        /\ recordCount' = recordCount + 1
        /\ written' = Append(written, r)
        /\ encoderStatus' = encoderStatus
    BY DEF StoreWhole
  <2>2. 3 \in 0 .. 3
    OBVIOUS
  <2> QED
    BY <1>1, <2>1, <2>2, AfterAppends
       DEF EncoderInv, EncoderTypeOK
<1>3. /\ data \in Seq(Cells) /\ written \in Seq(Records)
      /\ nextSequence \in 0 .. SequenceMod - 1
      /\ recordCount \in Nat /\ dataRecordCount \in Nat
      /\ encoderStatus \in EncoderStatuses
  BY DEF EncoderInv, EncoderTypeOK
<1>4. PICK n \in Nat :
        /\ n = Len(written)
        /\ written' \in Seq(Records)
        /\ Len(written') = n + 1
        /\ \A i \in 1 .. n : written'[i] = written[i]
        /\ written'[n + 1] = r
        /\ \A i \in 1 .. n : DatasAmong(i)' = DatasAmong(i)
        /\ DatasAmong(0) = {}
        /\ \A i \in 0 .. n : IsFiniteSet(DatasAmong(i))
        /\ DatasAmong(n + 1)' =
             IF r.type = "DATA"
             THEN DatasAmong(n) \cup {n + 1} ELSE DatasAmong(n)
  BY <1>1, <1>2, <1>3, HistoryGrows
<1>5. SequenceMod \in Nat \ {0}
  BY SequenceAssumption
<1>6. /\ data' \in Seq(Cells) /\ Len(data) \in Nat
      /\ EndOf(r) = Len(data')
      /\ SubSeq(data', r.offset + 1, EndOf(r)) = Stored(r)
  BY <1>1, <1>2, <1>3, StoredInPlace, LenProperties
<1>7. EncoderTypeOK'
  <2>1. nextSequence' \in 0 .. SequenceMod - 1
    BY <1>2, <1>3, <1>5, CountingModulo
  <2> QED
    BY <1>2, <1>3, <1>4, <1>6, <2>1 DEF EncoderTypeOK, Fits
<1>8. \A i \in 1 .. Len(written') : FieldsFit(written'[i])
  BY <1>1, <1>4 DEF EncoderInv
<1>9. CountersAgree'
  <2>1. nextSequence' = (n + 1) % SequenceMod
    BY <1>2, <1>4, <1>5, CountingModulo DEF EncoderInv, CountersAgree
  <2>2. recordCount' = n + 1
    BY <1>2, <1>4 DEF EncoderInv, CountersAgree
  <2>3. dataRecordCount = Cardinality(DatasAmong(n))
    BY <1>4 DEF EncoderInv, CountersAgree
  <2>4. n + 1 \notin DatasAmong(n)
    BY DEF DatasAmong
  <2>5. dataRecordCount' = Cardinality(DatasAmong(n + 1)')
    <3>1. Cardinality(DatasAmong(n) \cup {n + 1})
            = Cardinality(DatasAmong(n)) + 1
      <4>1. IsFiniteSet(DatasAmong(n))
        BY <1>4
      <4> QED
        BY <2>4, <4>1, FS_AddElement
    <3>2. CASE r.type = "DATA"
      BY <1>4, <2>3, <3>1, <3>2
    <3>3. CASE r.type # "DATA"
      BY <1>4, <2>3, <3>3
    <3> QED
      BY <3>2, <3>3
  <2> QED
    BY <1>4, <2>1, <2>2, <2>5 DEF CountersAgree
<1>10. CountsAreTrue'
  <2>1. ASSUME NEW i \in 1 .. n
        PROVE  /\ written'[i].seq = (i - 1) % SequenceMod
               /\ written'[i].type = "END!" =>
                    /\ written'[i].fields.total = i
                    /\ written'[i].fields.datas = Cardinality(DatasAmong(i)')
    BY <1>4 DEF EncoderInv, CountsAreTrue
  <2>2. r.seq = n % SequenceMod
    BY <1>1, <1>4 DEF EncoderInv, CountersAgree
  <2>3. r.type = "END!" => /\ r.fields.total = n + 1
                           /\ r.fields.datas = Cardinality(DatasAmong(n + 1)')
    BY <1>1, <1>4 DEF EncoderInv, CountersAgree
  <2>4. ASSUME NEW i \in 1 .. n + 1
        PROVE  /\ written'[i].seq = (i - 1) % SequenceMod
               /\ written'[i].type = "END!" =>
                    /\ written'[i].fields.total = i
                    /\ written'[i].fields.datas = Cardinality(DatasAmong(i)')
    <3>1. CASE i \in 1 .. n
      BY <2>1, <3>1
    <3>2. CASE i = n + 1
      <4>1. (n + 1) - 1 = n
        OBVIOUS
      <4> QED
        BY <1>4, <2>2, <2>3, <3>2, <4>1
    <3> QED
      BY <3>1, <3>2
  <2> QED
    BY <1>4, <2>4 DEF CountsAreTrue
<1>11. RecordsInPlace'
  <2>1. ASSUME NEW i \in 1 .. n
        PROVE  /\ EndOf(written[i]) <= Len(data')
               /\ SubSeq(data', written[i].offset + 1, EndOf(written[i]))
                    = Stored(written[i])
               /\ EndOf(written[i]) <= Len(data)
    <3>1. written[i] \in Records /\ Stored(r) \in Seq(Cells)
      BY <1>1, <1>3, <1>4, ElementOfSeq, StoredType
    <3>2. /\ EndOf(written[i]) <= Len(data)
          /\ SubSeq(data, written[i].offset + 1, EndOf(written[i]))
               = Stored(written[i])
      BY <1>4 DEF EncoderInv, RecordsInPlace
    <3> QED
      BY <1>2, <1>3, <3>1, <3>2, AppendKeepsRecord
  <2>2. \A i \in 1 .. n : i < n =>
          EndOf(written[i]) <= written[i + 1].offset
    BY <1>4 DEF EncoderInv, RecordsInPlace
  <2>3. ASSUME NEW i \in 1 .. n + 1
        PROVE  /\ EndOf(written'[i]) <= Len(data')
               /\ SubSeq(data', written'[i].offset + 1, EndOf(written'[i]))
                    = Stored(written'[i])
               /\ i < n + 1 => EndOf(written'[i]) <= written'[i + 1].offset
    <3>1. CASE i \in 1 .. n
      <4>1. written'[i] = written[i]
        BY <1>4, <3>1
      <4>2. EndOf(written[i]) <= written'[i + 1].offset
        <5>1. CASE i < n
          BY <1>4, <2>2, <3>1, <5>1
        <5>2. CASE i = n
          BY <1>1, <1>4, <2>1, <3>1, <5>2
        <5> QED
          BY <3>1, <5>1, <5>2
      <4> QED
        BY <2>1, <3>1, <4>1, <4>2
    <3>2. CASE i = n + 1
      <4>1. written'[i] = r /\ ~(i < n + 1)
        BY <1>4, <3>2
      <4>2. Len(data') \in Nat
        BY <1>6, LenProperties
      <4> QED
        BY <1>6, <4>1, <4>2
    <3> QED
      BY <3>1, <3>2
  <2> QED
    BY <1>4, <2>3 DEF RecordsInPlace
<1>12. TornIsRecorded'
  <2>1. SUFFICES ASSUME Contiguous
                 PROVE  Contiguous'
    BY <1>2 DEF EncoderInv, TornIsRecorded
  <2>2. written'[1].offset = 1
    <3>1. CASE n = 0
      <4>1. Len(data) = 1
        <5>1. PICK k \in Nat : k = Len(data) /\ k # 0
          BY <1>2, <1>3, EmptySeq
        <5>2. written = <<>>
          BY <1>3, <1>4, <3>1, EmptySeq
        <5>3. k <= 1
          BY <2>1, <5>1, <5>2 DEF Contiguous
        <5> QED
          BY <5>1, <5>3
      <4> QED
        BY <1>1, <1>4, <3>1, <4>1
    <3>2. CASE n # 0
      BY <1>4, <2>1, <3>2 DEF Contiguous
    <3> QED
      BY <3>1, <3>2
  <2>3. ASSUME NEW i \in 1 .. n
        PROVE  EndOf(written'[i]) = written'[i + 1].offset
    <3>1. written # <<>>
      BY <1>4
    <3>2. CASE i < n
      BY <1>4, <2>1, <3>1, <3>2 DEF Contiguous
    <3>3. CASE i = n
      BY <1>1, <1>4, <2>1, <3>1, <3>3 DEF Contiguous
    <3> QED
      BY <3>2, <3>3
  <2>4. EndOf(written'[n + 1]) = Len(data')
    BY <1>4, <1>6
  <2>5. written' # <<>>
    BY <1>4
  <2> QED
    BY <1>4, <2>2, <2>3, <2>4, <2>5 DEF Contiguous
<1>13. CapacityHolds'
  BY <1>2 DEF CapacityHolds, Fits
<1> QED
  BY <1>7, <1>8, <1>9, <1>10, <1>11, <1>12, <1>13 DEF EncoderInv

(***************************************************************************)
(* A record torn by a failed append keeps it: the buffer grows by cells    *)
(* the history does not account for, and encoder->status says so.          *)
(***************************************************************************)
LEMMA StopShortKeeps ==
  ASSUME EncoderInv, NEW r \in Records, StopShort(r),
         dataRecordCount' = dataRecordCount
  PROVE  EncoderInv'
<1>1. PICK n \in 0 .. 2, status \in {"MEMORY", "LIMIT"} :
        /\ Len(After(r, n)) <= SizeMax
        /\ data' = After(r, n)
        /\ capacity' = CapacityAfter(r, n)
        /\ encoderStatus' = status
  BY DEF StopShort
<1>2. /\ encoderStatus' \in {"MEMORY", "LIMIT"}
      /\ nextSequence' = nextSequence
      /\ recordCount' = recordCount /\ written' = written
  BY <1>1 DEF StopShort
<1>3. /\ data \in Seq(Cells) /\ written \in Seq(Records)
      /\ capacity \in Nat /\ CapacityHolds
  BY DEF EncoderInv, EncoderTypeOK
<1>4. n \in 0 .. 3
  OBVIOUS
<1>5. PICK torn \in Seq(Cells) : data' = data \o torn
  BY <1>1, <1>3, <1>4, AfterAppends
<1>6. data' \in Seq(Cells) /\ Fits(capacity', Len(data'))
  BY <1>1, <1>3, <1>4, AfterAppends
<1>6a. EncoderTypeOK'
  BY <1>2, <1>6 DEF EncoderInv, EncoderTypeOK, EncoderStatuses, Fits
<1>6b. CapacityHolds'
  BY <1>6 DEF CapacityHolds, Fits
<1>7. \A i \in 1 .. Len(written') : FieldsFit(written'[i])
  BY <1>2 DEF EncoderInv
<1>8. CountersAgree' /\ CountsAreTrue'
  BY <1>2 DEF EncoderInv, CountersAgree, CountsAreTrue, DatasAmong
<1>9. RecordsInPlace'
  <2>1. ASSUME NEW i \in 1 .. Len(written)
        PROVE  /\ EndOf(written[i]) <= Len(data')
               /\ SubSeq(data', written[i].offset + 1, EndOf(written[i]))
                    = Stored(written[i])
    <3>1. /\ EndOf(written[i]) <= Len(data)
          /\ SubSeq(data, written[i].offset + 1, EndOf(written[i]))
               = Stored(written[i])
      BY DEF EncoderInv, RecordsInPlace
    <3>2. written[i] \in Records
      BY <1>3, ElementOfSeq
    <3> QED
      BY <1>3, <1>5, <3>1, <3>2, AppendKeepsRecord
  <2>2. \A i \in 1 .. Len(written) :
          i < Len(written) => EndOf(written[i]) <= written[i + 1].offset
    BY DEF EncoderInv, RecordsInPlace
  <2> QED
    BY <1>2, <2>1, <2>2 DEF RecordsInPlace
<1>10. TornIsRecorded'
  BY <1>2 DEF TornIsRecorded
<1> QED
  BY <1>6a, <1>6b, <1>7, <1>8, <1>9, <1>10 DEF EncoderInv

(***************************************************************************)
(* A refused call keeps it: at most the recorded error changes, and never  *)
(* back to SDAF_OK.                                                        *)
(***************************************************************************)
LEMMA RefuseKeeps ==
  ASSUME EncoderInv, NEW status \in EncoderStatuses, Refuse(status),
         status = encoderStatus \/ status # "OK"
  PROVE  EncoderInv'
<1>1. /\ encoderStatus' = status /\ data' = data /\ written' = written
      /\ nextSequence' = nextSequence /\ recordCount' = recordCount
      /\ dataRecordCount' = dataRecordCount /\ capacity' = capacity
  BY DEF Refuse
<1>2. EncoderTypeOK'
  BY <1>1 DEF EncoderInv, EncoderTypeOK
<1>3. \A i \in 1 .. Len(written') : FieldsFit(written'[i])
  BY <1>1 DEF EncoderInv
<1>4. CountersAgree' /\ CountsAreTrue' /\ RecordsInPlace'
  BY <1>1 DEF EncoderInv, CountersAgree, CountsAreTrue, DatasAmong,
              RecordsInPlace
<1>5. TornIsRecorded' /\ CapacityHolds'
  BY <1>1 DEF EncoderInv, TornIsRecorded, Contiguous, CapacityHolds
<1> QED
  BY <1>2, <1>3, <1>4, <1>5 DEF EncoderInv

(***************************************************************************)
(* An encoder with an empty history and at most a file header keeps it.    *)
(***************************************************************************)
LEMMA EmptyHistory ==
  ASSUME data \in {<<>>, <<FileHeader>>}, written = <<>>,
         Fits(capacity, Len(data)),
         nextSequence = 0, recordCount = 0, dataRecordCount = 0,
         encoderStatus \in EncoderStatuses
  PROVE  EncoderInv
<1>1. FileHeader \in Cells
  BY DEF Cells
<1>2. data \in Seq(Cells) /\ Len(data) <= 1
  <2>1. /\ <<>> \in Seq(Cells) /\ Len(<<>>) = 0
        /\ <<FileHeader>> \in Seq(Cells) /\ Len(<<FileHeader>>) = 1
    BY <1>1
  <2>2. CASE data = <<>>
    BY <2>1, <2>2
  <2>3. CASE data = <<FileHeader>>
    BY <2>1, <2>3
  <2> QED
    BY <2>2, <2>3
<1>3. written \in Seq(Records) /\ Len(written) = 0
  OBVIOUS
<1>4. SequenceMod \in Nat \ {0}
  BY SequenceAssumption
<1>5. EncoderTypeOK /\ CapacityHolds
  BY <1>2, <1>3, <1>4 DEF EncoderTypeOK, CapacityHolds, Fits
<1>6. CountersAgree
  <2>1. 0 % SequenceMod = 0
    BY <1>4
  <2>2. DatasAmong(0) = {}
    BY DEF DatasAmong
  <2> QED
    BY <1>3, <2>1, <2>2, FS_EmptySet DEF CountersAgree
<1>7. Contiguous
  BY <1>2 DEF Contiguous
<1> QED
  BY <1>3, <1>5, <1>6, <1>7
     DEF EncoderInv, RecordsInPlace, TornIsRecorded, CountsAreTrue

(***************************************************************************)
(* Nothing in the buffer needs no capacity, and the file header fits the   *)
(* first allocation.                                                       *)
(***************************************************************************)
LEMMA FirstCapacity ==
  /\ Fits(0, 0)
  /\ Fits(Grown(0, 1), 1)
<1>1. SizeMax \in Nat /\ InitialCapacity \in 1 .. SizeMax
  BY EncoderAssumption
<1>2. Fits(0, 0)
  BY <1>1 DEF Fits
<1> QED
  BY <1>1, <1>2, GrownFits

LEMMA ResetKeeps ==
  ASSUME EncoderInv, Initialize \/ Free
  PROVE  EncoderInv'
<1>1. /\ data' \in {<<>>, <<FileHeader>>} /\ written' = <<>>
      /\ nextSequence' = 0 /\ recordCount' = 0 /\ dataRecordCount' = 0
      /\ encoderStatus' \in EncoderStatuses
  BY DEF Initialize, Free, EncoderStatuses
<1>2. data' \in Seq(Cells) /\ Len(data') <= 1
  <2>1. FileHeader \in Cells
    BY DEF Cells
  <2>2. /\ <<>> \in Seq(Cells) /\ Len(<<>>) = 0
        /\ <<FileHeader>> \in Seq(Cells) /\ Len(<<FileHeader>>) = 1
    BY <2>1
  <2>3. CASE data' = <<>>
    BY <2>2, <2>3
  <2>4. CASE data' = <<FileHeader>>
    BY <2>2, <2>4
  <2> QED
    BY <1>1, <2>3, <2>4
<1>3. written' \in Seq(Records) /\ Len(written') = 0
  BY <1>1
<1>4. SequenceMod \in Nat \ {0}
  BY SequenceAssumption
<1>4a. Fits(capacity', Len(data'))
  <2>1. CASE data' = <<>> /\ capacity' = 0
    BY <2>1, FirstCapacity
  <2>2. CASE data' = <<FileHeader>> /\ capacity' = Grown(0, 1)
    BY <2>2, FirstCapacity
  <2>3. CASE data = <<>> /\ UNCHANGED <<data, capacity>>
    BY <2>3 DEF EncoderInv, EncoderTypeOK, CapacityHolds, Fits
  <2> QED
    BY <2>1, <2>2, <2>3 DEF Initialize, Free
<1>5. EncoderTypeOK' /\ CapacityHolds'
  BY <1>1, <1>2, <1>3, <1>4, <1>4a DEF EncoderTypeOK, CapacityHolds, Fits
<1>6. CountersAgree'
  <2>1. 0 % SequenceMod = 0
    BY <1>4
  <2>2. DatasAmong(Len(written))' = {}
    BY <1>3 DEF DatasAmong
  <2> QED
    BY <1>1, <1>3, <2>1, <2>2, FS_EmptySet DEF CountersAgree
<1>7. Contiguous'
  BY <1>1, <1>2 DEF Contiguous
<1> QED
  BY <1>3, <1>5, <1>6, <1>7
     DEF EncoderInv, RecordsInPlace, TornIsRecorded, CountsAreTrue

-----------------------------------------------------------------------------
(* The theorems. *)

(***************************************************************************)
(* No call breaks EncoderInv, however it ends and whatever its arguments,  *)
(* careless or not.                                                        *)
(***************************************************************************)
LEMMA CallKeeps ==
  ASSUME EncoderInv, EncoderCall
  PROVE  EncoderInv'
<1>1. CASE Declines
  BY <1>1, RefuseKeeps DEF Declines
<1>2. CASE \E r : Stores(r)
  BY <1>2, StoreWholeKeeps DEF Stores
<1>3. CASE \E r : Tears(r)
  <2>1. PICK r : Tears(r)
    BY <1>3
  <2>2. r \in Records
    BY <2>1 DEF Tears, Storable
  <2> QED
    BY <2>1, <2>2, StopShortKeeps DEF Tears
<1>4. CASE Initialize
  BY <1>4, ResetKeeps
<1> QED
  BY <1>1, <1>2, <1>3, <1>4, CallOutcome DEF Outcome

(***************************************************************************)
(* The inductive invariant holds throughout every life of an encoder.      *)
(***************************************************************************)
THEOREM EncoderInvariant == EncoderSpec => []EncoderInv
<1>1. ZeroEncoder => EncoderInv
  BY EmptyHistory, FirstCapacity DEF ZeroEncoder, EncoderStatuses
<1>2. EncoderInv /\ [EncoderNext]_encoderVars => EncoderInv'
  <2> SUFFICES ASSUME EncoderInv, [EncoderNext]_encoderVars
               PROVE  EncoderInv'
    OBVIOUS
  <2>1. CASE EncoderCall
    BY <2>1, CallKeeps
  <2>2. CASE Free
    BY <2>2, ResetKeeps
  <2>3. CASE UNCHANGED encoderVars
    <3>1. Refuse(encoderStatus)
      BY <2>3 DEF encoderVars, Refuse
    <3>2. encoderStatus \in EncoderStatuses
      BY DEF EncoderInv, EncoderTypeOK
    <3> QED
      BY <3>1, <3>2, RefuseKeeps
  <2> QED
    BY <2>1, <2>2, <2>3 DEF EncoderNext
<1> QED
  BY <1>1, <1>2, PTL DEF EncoderSpec

(***************************************************************************)
(* Type correctness: in particular the sequence number never leaves the    *)
(* width of its field.                                                     *)
(***************************************************************************)
THEOREM EncoderTypeCorrect == EncoderSpec => []EncoderTypeOK
<1>1. EncoderInv => EncoderTypeOK
  BY DEF EncoderInv
<1> QED
  BY <1>1, EncoderInvariant, PTL

(***************************************************************************)
(* Records the encoder accepted stay in the buffer whole and apart,        *)
(* whatever later calls do and wherever they run out of memory             *)
(* (sdaf_encoder_append, sdaf_encoder_record).                             *)
(***************************************************************************)
THEOREM RecordsStayInPlace == EncoderSpec => []RecordsInPlace
<1>1. EncoderInv => RecordsInPlace
  BY DEF EncoderInv
<1> QED
  BY <1>1, EncoderInvariant, PTL

(***************************************************************************)
(* The buffer always has room for what is in it, its capacity stays within *)
(* size_t, and it is never more than twice what is stored, for size_t of   *)
(* any width and whatever first allocation.                                *)
(***************************************************************************)
THEOREM CapacityAlwaysHolds == EncoderSpec => []CapacityHolds
<1>1. EncoderInv => CapacityHolds
  BY DEF EncoderInv
<1> QED
  BY <1>1, EncoderInvariant, PTL

(***************************************************************************)
(* A buffer with a torn record in it has an error in encoder->status, for  *)
(* as long as the encoder lives.                                           *)
(***************************************************************************)
THEOREM TornStaysRecorded == EncoderSpec => []TornIsRecorded
<1>1. EncoderInv => TornIsRecorded
  BY DEF EncoderInv
<1> QED
  BY <1>1, EncoderInvariant, PTL

(***************************************************************************)
(* The sequence numbers and the totals of END records agree with the       *)
(* records, for a sequence field of any width and whatever calls failed.   *)
(***************************************************************************)
THEOREM CountsStayTrue == EncoderSpec => []CountsAreTrue
<1>1. EncoderInv => CountsAreTrue
  BY DEF EncoderInv
<1> QED
  BY <1>1, EncoderInvariant, PTL
-----------------------------------------------------------------------------
(* The buffer as a reader finds it. *)

(***************************************************************************)
(* What a call does to the buffer and the history: a record is stored; one *)
(* is torn, so that fewer cells of it are there than its header claims;    *)
(* neither changes; or the file header is put down.                        *)
(***************************************************************************)
StoredNow(r) ==
  /\ r \in Records /\ FieldsFit(r) /\ r.offset = Len(data)
  /\ data # <<>>
  /\ data' = data \o Stored(r)
  /\ written' = Append(written, r)

TornNow(r) ==
  /\ r \in Records /\ FieldsFit(r)
  /\ data # <<>>
  /\ written' = written
  /\ \E s \in {<<HeadCell(r)>>, <<HeadCell(r)>> \o r.payload} :
       /\ data' = data \o s
       /\ Len(s) < TotalSize(Len(r.payload), r.trailer)

Untouched == data' = data /\ written' = written

Begun ==
  /\ data = <<>> /\ written = <<>>
  /\ data' = <<FileHeader>> /\ written' = <<>>

LEMMA StoreEffect ==
  ASSUME EncoderInv, NEW r, Stores(r)
  PROVE  StoredNow(r)
<1>1. /\ r \in Records /\ FieldsFit(r) /\ r.offset = Len(data)
      /\ data # <<>>
      /\ data' = After(r, 3) /\ Len(After(r, 3)) <= SizeMax
      /\ written' = Append(written, r)
  BY DEF Stores, Storable, StoreWhole
<1>2. data \in Seq(Cells) /\ capacity \in Nat /\ CapacityHolds
  BY DEF EncoderInv, EncoderTypeOK
<1>3. 3 \in 0 .. 3
  OBVIOUS
<1>4. After(r, 3) = data \o Stored(r)
  BY <1>1, <1>2, <1>3, AfterAppends
<1> QED
  BY <1>1, <1>4 DEF StoredNow

(***************************************************************************)
(* An append that fails had something to append: a torn record is missing  *)
(* cells.                                                                  *)
(***************************************************************************)
LEMMA TearEffect ==
  ASSUME EncoderInv, NEW r, Tears(r)
  PROVE  TornNow(r) \/ Untouched
<1>1. r \in Records /\ FieldsFit(r) /\ data # <<>> /\ written' = written
  BY DEF Tears, Storable, StopShort
<1>2. data \in Seq(Cells) /\ capacity \in Nat /\ CapacityHolds
  BY DEF EncoderInv, EncoderTypeOK
<1>3. PICK n \in 0 .. 2, status \in {"MEMORY", "LIMIT"} :
        /\ Len(After(r, n)) <= SizeMax
        /\ AppendFails(r, n, status)
        /\ data' = After(r, n)
  BY DEF Tears, StopShort
<1>4. PICK total \in Nat : total = TotalSize(Len(r.payload), r.trailer)
  BY <1>1, StoredType
<1>5. /\ <<HeadCell(r)>> \in Seq(Cells) /\ Len(<<HeadCell(r)>>) = 1
      /\ <<HeadCell(r)>> \o r.payload \in Seq(Cells)
      /\ Stored(r) \in Seq(Cells) /\ Len(Stored(r)) = total
      /\ Len(data) \in Nat
  BY <1>1, <1>2, <1>4, StoredType, LenProperties
<1>6. /\ After(r, 0) = data \o <<>>
      /\ After(r, 1) = data \o <<HeadCell(r)>>
      /\ After(r, 2) = data \o (<<HeadCell(r)>> \o r.payload)
      /\ After(r, 3) = data \o Stored(r)
  BY DEF After
<1>7. PICK body \in Nat :
        /\ body = Len(<<HeadCell(r)>> \o r.payload)
        /\ body <= total
  <2>1. PICK size \in Nat : size = Len(r.payload)
    BY <1>1, LenProperties DEF Records
  <2>2. r.payload \in Seq(Cells)
    BY <1>1, SeqMonotonic DEF Records, Cells
  <2>3. Len(<<HeadCell(r)>> \o r.payload) = 1 + size
    BY <1>5, <2>1, <2>2, ConcatProperties
  <2>4. total = size + 1 \/ total = size + 2
    BY <1>1, <1>4, <2>1, TotalSizes DEF Records
  <2>5. 1 + size \in Nat /\ 1 + size <= total
    BY <2>4
  <2>6. /\ Len(<<HeadCell(r)>> \o r.payload) \in Nat
        /\ Len(<<HeadCell(r)>> \o r.payload) <= total
    BY <2>3, <2>5
  <2> QED
    BY <2>6, Zenon
<1>8. /\ Len(After(r, 1)) = Len(data) + 1
      /\ Len(After(r, 2)) = Len(data) + body
      /\ Len(After(r, 3)) = Len(data) + total
  BY <1>2, <1>5, <1>6, <1>7, ConcatProperties
<1>9. CASE n = 0
  <2>1. After(r, 0) = data
    BY <1>2, <1>6, ConcatEmptySeq
  <2> QED
    BY <1>1, <1>3, <1>9, <2>1 DEF Untouched
<1>10. CASE n # 0
  <2>1. /\ n \in 0 .. 3 /\ n \in {1, 2}
        /\ SizeMax \in Nat
    BY <1>10, EncoderAssumption
  <2>2. Fits(CapacityAfter(r, n), Len(After(r, n)))
    BY <1>1, <1>2, <1>3, <2>1, AfterAppends
  <2>3. \/ Len(After(r, n + 1)) > SizeMax
        \/ Len(After(r, n + 1)) > CapacityAfter(r, n)
    BY <1>3, <1>10 DEF AppendFails
  <2>4. CASE n = 1
    <3>1. Len(After(r, 2)) > Len(After(r, 1))
      BY <1>3, <1>5, <1>7, <1>8, <2>1, <2>2, <2>3, <2>4 DEF Fits
    <3>2. Len(<<HeadCell(r)>>) < total
      BY <1>5, <1>7, <1>8, <3>1
    <3> QED
      BY <1>1, <1>3, <1>4, <1>6, <2>4, <3>2 DEF TornNow
  <2>5. CASE n = 2
    <3>1. Len(After(r, 3)) > Len(After(r, 2))
      BY <1>3, <1>4, <1>5, <1>7, <1>8, <2>1, <2>2, <2>3, <2>5 DEF Fits
    <3>2. Len(<<HeadCell(r)>> \o r.payload) < total
      BY <1>4, <1>5, <1>7, <1>8, <3>1
    <3> QED
      BY <1>1, <1>3, <1>4, <1>6, <2>5, <3>2 DEF TornNow
  <2> QED
    BY <2>1, <2>4, <2>5
<1> QED
  BY <1>9, <1>10

LEMMA CallEffect ==
  ASSUME EncoderInv, EncoderCall
  PROVE  Untouched \/ Begun \/ \E r : StoredNow(r) \/ TornNow(r)
<1>1. CASE Declines
  BY <1>1 DEF Declines, Refuse, Untouched
<1>2. CASE \E r : Stores(r)
  BY <1>2, StoreEffect
<1>3. CASE \E r : Tears(r)
  BY <1>3, TearEffect
<1>4. CASE Initialize
  <2>1. data = <<>> /\ written' = <<>> /\ data' \in {<<>>, <<FileHeader>>}
    BY <1>4 DEF Initialize
  <2>2. written = <<>>
    <3>1. written \in Seq(Records) /\ Len(data) = 0
      BY <2>1 DEF EncoderInv, EncoderTypeOK
    <3>2. ASSUME written # <<>> PROVE FALSE
      <4>1. 1 \in 1 .. Len(written) /\ written[1] \in Records
        BY <3>1, <3>2, EmptySeq, LenProperties, ElementOfSeq
      <4>2. EndOf(written[1]) <= 0
        BY <3>1, <4>1 DEF EncoderInv, RecordsInPlace
      <4>3. /\ written[1].offset \in Nat
            /\ TotalSize(Len(written[1].payload), written[1].trailer)
                 \in Nat \ {0}
        BY <4>1, StoredType DEF Records
      <4> QED
        BY <4>2, <4>3 DEF EndOf
    <3> QED
      BY <3>2
  <2> QED
    BY <2>1, <2>2 DEF Untouched, Begun
<1> QED
  BY <1>1, <1>2, <1>3, <1>4, CallOutcome DEF Outcome
(***************************************************************************)
(* A header cell says how long its record is.                              *)
(***************************************************************************)
LEMMA ClaimType ==
  ASSUME data \in Seq(Cells), NEW p \in 1 .. Len(data), HeadAt(p)
  PROVE  /\ data[p] \in HeadCells
         /\ data[p].is \in Contents
         /\ ClaimedEnd(p) \in Nat
         /\ ClaimedEnd(p) >= p
<1>1. data[p] \in HeadCells
  BY ElementOfSeq, CellKinds DEF HeadAt
<1>2. data[p].is \in Contents
  BY <1>1 DEF HeadCells
<1>3. data[p].is.size \in Nat /\ data[p].is.trailer \in BOOLEAN
  BY <1>2 DEF Contents
<1>4. PICK total \in Nat :
        /\ total = TotalSize(data[p].is.size, data[p].is.trailer)
        /\ total >= 1
  <2>1. /\ TotalSize(data[p].is.size, data[p].is.trailer) \in Nat
        /\ TotalSize(data[p].is.size, data[p].is.trailer) >= 1
    BY <1>3, TotalSizes
  <2> QED
    BY <2>1
<1>5. ClaimedEnd(p) = p - 1 + total /\ p \in Nat /\ p >= 1
  BY <1>4, LenProperties DEF ClaimedEnd
<1> QED
  BY <1>1, <1>2, <1>4, <1>5

(***************************************************************************)
(* A record appended to the buffer, whole or torn, leaves every header     *)
(* accounted for: the extent of a record torn earlier now runs into the    *)
(* new header, or still past the end.                                      *)
(***************************************************************************)
LEMMA AppendAccounts ==
  ASSUME BufferInv, NEW r \in Records,
         NEW s \in {<<HeadCell(r)>>, <<HeadCell(r)>> \o r.payload, Stored(r)},
         data' = data \o s,
         \/ written' = Append(written, r) /\ r.offset = Len(data)
         \/ /\ written' = written
            /\ Len(s) < TotalSize(Len(r.payload), r.trailer)
  PROVE  HeadsAccounted'
<1>1. data \in Seq(Cells) /\ written \in Seq(Records) /\ HeadsAccounted
  BY DEF BufferInv, EncoderInv, EncoderTypeOK
<1>2. /\ s \in Seq(Cells) /\ Len(s) >= 1
      /\ s[1] = HeadCell(r)
      /\ \A k \in 2 .. Len(s) : s[k].cell # "head"
  BY StoredHeads
<1>3. PICK n \in Nat : n = Len(data)
  BY <1>1, LenProperties
<1>4. PICK m \in Nat : m = Len(s) /\ m >= 1
  BY <1>2, LenProperties
<1>5. /\ data' \in Seq(Cells)
      /\ Len(data') = n + m
      /\ \A p \in 1 .. n : data'[p] = data[p]
      /\ data'[n + 1] = HeadCell(r)
      /\ \A p \in n + 2 .. n + m : data'[p].cell # "head"
  BY <1>1, <1>2, <1>3, <1>4, OneHeadAppended
<1>6. /\ HeadCell(r).cell = "head"
      /\ HeadCell(r).is = HeaderContent(r)
      /\ HeadCell(r).crc = Crc32c(HeaderContent(r))
      /\ HeaderContent(r).excess = 0
      /\ HeaderContent(r).size = Len(r.payload)
      /\ HeaderContent(r).trailer = r.trailer
  BY DEF HeadCell, HeaderContent
<1>7. /\ Len(written') >= Len(written)
      /\ \A i \in 1 .. Len(written) :
           i \in 1 .. Len(written') /\ written'[i] = written[i]
  BY <1>1, AppendProperties, LenProperties
<1>8. ASSUME NEW p \in 1 .. n, HeadAt(p)'
      PROVE  /\ data'[p].crc = Crc32c(data'[p].is)
             /\ data'[p].is.excess = 0
             /\ WrittenAt(p)' \/ TornAt(p)'
  <2>1. /\ HeadAt(p)
        /\ data[p].crc = Crc32c(data[p].is)
        /\ data[p].is.excess = 0
        /\ WrittenAt(p) \/ TornAt(p)
    BY <1>1, <1>3, <1>5, <1>8 DEF HeadAt, HeadsAccounted
  <2>2. WrittenAt(p) => WrittenAt(p)'
    BY <1>7 DEF WrittenAt
  <2>3. ClaimedEnd(p)' = ClaimedEnd(p) /\ ClaimedEnd(p) \in Nat
    <3>1. ClaimedEnd(p)' = ClaimedEnd(p)
      BY <1>5 DEF ClaimedEnd
    <3> QED
      BY <1>1, <1>3, <2>1, <3>1, ClaimType
  <2>4. CASE ClaimedEnd(p) > Len(data)
    <3>1. n + 1 \in p + 1 .. Len(data') /\ n + 1 <= ClaimedEnd(p)'
      BY <1>3, <1>4, <1>5, <2>3, <2>4
    <3>2. HeadAt(n + 1)'
      BY <1>5, <1>6 DEF HeadAt
    <3> QED
      BY <1>5, <2>1, <3>1, <3>2 DEF TornAt
  <2>5. CASE \E q \in p + 1 .. Len(data) : q <= ClaimedEnd(p) /\ HeadAt(q)
    <3>1. PICK q \in p + 1 .. Len(data) : q <= ClaimedEnd(p) /\ HeadAt(q)
      BY <2>5
    <3>2. q \in p + 1 .. Len(data') /\ q \in 1 .. n
      BY <1>3, <1>4, <1>5
    <3>3. HeadAt(q)'
      BY <1>5, <3>1, <3>2 DEF HeadAt
    <3> QED
      BY <1>5, <2>1, <2>3, <3>1, <3>2, <3>3 DEF TornAt
  <2> QED
    BY <1>5, <2>1, <2>2, <2>4, <2>5 DEF TornAt
<1>9. WrittenAt(n + 1)' \/ TornAt(n + 1)'
  <2>1. CASE written' = Append(written, r) /\ r.offset = Len(data)
    <3>1. /\ Len(written') \in 1 .. Len(written')
          /\ written'[Len(written')] = r
      BY <1>1, <2>1, AppendProperties, LenProperties
    <3>2. r.offset = (n + 1) - 1
      BY <1>3, <2>1
    <3> QED
      BY <3>1, <3>2 DEF WrittenAt
  <2>2. CASE Len(s) < TotalSize(Len(r.payload), r.trailer)
    <3>1. PICK t \in Nat : t = TotalSize(Len(r.payload), r.trailer)
      BY StoredType
    <3>2. ClaimedEnd(n + 1)' = (n + 1) - 1 + t
      BY <1>5, <1>6, <3>1 DEF ClaimedEnd
    <3>3. ClaimedEnd(n + 1)' > Len(data')
      BY <1>4, <1>5, <2>2, <3>1, <3>2
    <3> QED
      BY <3>3 DEF TornAt
  <2> QED
    BY <2>1, <2>2
<1>10. ASSUME NEW p \in 1 .. Len(data'), HeadAt(p)'
       PROVE  /\ data'[p].crc = Crc32c(data'[p].is)
              /\ data'[p].is.excess = 0
              /\ WrittenAt(p)' \/ TornAt(p)'
  <2>1. CASE p \in 1 .. n
    BY <1>8, <1>10, <2>1
  <2>2. CASE p = n + 1
    BY <1>5, <1>6, <1>9, <2>2
  <2>3. CASE p \in n + 2 .. n + m
    BY <1>5, <1>10, <2>3 DEF HeadAt
  <2> QED
    BY <1>4, <1>5, <2>1, <2>2, <2>3
<1> QED
  BY <1>10 DEF HeadsAccounted

(***************************************************************************)
(* A new record lies behind all the others, and behind the file header.    *)
(***************************************************************************)
LEMMA StoredFollows ==
  ASSUME BufferInv, NEW r, StoredNow(r)
  PROVE  RecordsFollow'
<1>1. /\ written \in Seq(Records) /\ data \in Seq(Cells)
      /\ RecordsInPlace /\ RecordsFollow
  BY DEF BufferInv, EncoderInv, EncoderTypeOK
<1>2. /\ r \in Records /\ r.offset = Len(data) /\ data # <<>>
      /\ written' = Append(written, r)
  BY DEF StoredNow
<1>3. Len(data) \in Nat /\ Len(data) >= 1
  BY <1>1, <1>2, EmptySeq, LenProperties
<1>4. PICK n \in Nat :
        /\ n = Len(written) /\ Len(written') = n + 1
        /\ \A i \in 1 .. n : written'[i] = written[i]
        /\ written'[n + 1] = r
  BY <1>1, <1>2, AppendProperties, LenProperties
<1>5. ASSUME NEW i \in 1 .. n + 1
      PROVE  /\ written'[i].offset >= 1
             /\ \A j \in i + 1 .. n + 1 :
                  EndOf(written'[i]) <= written'[j].offset
  <2>1. CASE i \in 1 .. n
    <3>1. /\ written[i].offset >= 1
          /\ \A j \in i + 1 .. n : EndOf(written[i]) <= written[j].offset
          /\ EndOf(written[i]) <= Len(data)
      BY <1>1, <1>4, <2>1 DEF RecordsFollow, RecordsInPlace
    <3>2. ASSUME NEW j \in i + 1 .. n + 1
          PROVE  EndOf(written'[i]) <= written'[j].offset
      <4>1. CASE j \in i + 1 .. n
        <5>1. j \in 1 .. n
          BY <2>1, <4>1
        <5> QED
          BY <1>4, <2>1, <3>1, <4>1, <5>1
      <4>2. CASE j = n + 1
        BY <1>2, <1>4, <2>1, <3>1, <4>2
      <4> QED
        BY <2>1, <4>1, <4>2
    <3> QED
      BY <1>4, <2>1, <3>1, <3>2
  <2>2. CASE i = n + 1
    BY <1>2, <1>3, <1>4, <2>2
  <2> QED
    BY <2>1, <2>2
<1> QED
  BY <1>4, <1>5 DEF RecordsFollow

(***************************************************************************)
(* Whatever the outcome of a call, BufferInv is kept.                      *)
(***************************************************************************)
LEMMA CallKeepsBuffer ==
  ASSUME BufferInv, EncoderCall
  PROVE  BufferInv'
<1>1. EncoderInv /\ data \in Seq(Cells) /\ (data # <<>> => data[1] = FileHeader)
  BY DEF BufferInv, EncoderInv, EncoderTypeOK
<1>2. EncoderInv'
  BY <1>1, CallKeeps
<1>3. ASSUME data # <<>>, NEW more \in Seq(Cells), data' = data \o more
      PROVE  data'[1] = FileHeader
  <2>1. 1 \in 1 .. Len(data) + Len(more) /\ 1 <= Len(data)
    BY <1>1, <1>3, EmptySeq, LenProperties
  <2>2. (data \o more)[1] = data[1]
    BY <1>1, <2>1, ConcatProperties
  <2> QED
    BY <1>1, <1>3, <2>2
<1>4. CASE Untouched
  BY <1>2, <1>4
     DEF BufferInv, Untouched, RecordsFollow, HeadsAccounted, HeadAt, WrittenAt,
         TornAt, ClaimedEnd
<1>5. CASE Begun
  <2>1. Len(data') = 1 /\ data'[1] = FileHeader /\ Len(written') = 0
    BY <1>5 DEF Begun
  <2>2. FileHeader.cell # "head"
    BY DEF FileHeader
  <2> QED
    BY <1>2, <2>1, <2>2 DEF BufferInv, RecordsFollow, HeadsAccounted, HeadAt
<1>6. ASSUME NEW r, StoredNow(r)
      PROVE  BufferInv'
  <2>1. /\ r \in Records /\ r.offset = Len(data) /\ data # <<>>
        /\ data' = data \o Stored(r) /\ written' = Append(written, r)
    BY <1>6 DEF StoredNow
  <2>2. HeadsAccounted'
    BY <2>1, AppendAccounts
  <2>3. RecordsFollow'
    BY <1>6, StoredFollows
  <2>4. data'[1] = FileHeader
    BY <1>3, <2>1, StoredType
  <2> QED
    BY <1>2, <2>2, <2>3, <2>4 DEF BufferInv
<1>7. ASSUME NEW r, TornNow(r)
      PROVE  BufferInv'
  <2>1. r \in Records /\ data # <<>> /\ written' = written
    BY <1>7 DEF TornNow
  <2>2. PICK s \in {<<HeadCell(r)>>, <<HeadCell(r)>> \o r.payload} :
          /\ data' = data \o s
          /\ Len(s) < TotalSize(Len(r.payload), r.trailer)
    BY <1>7 DEF TornNow
  <2>3. HeadsAccounted'
    BY <2>1, <2>2, AppendAccounts
  <2>4. RecordsFollow'
    BY <2>1 DEF BufferInv, RecordsFollow
  <2>5. s \in Seq(Cells)
    BY <2>1, StoredType
  <2>6. data'[1] = FileHeader
    BY <1>3, <2>1, <2>2, <2>5
  <2> QED
    BY <1>2, <2>3, <2>4, <2>6 DEF BufferInv
<1> QED
  BY <1>1, <1>4, <1>5, <1>6, <1>7, CallEffect

(***************************************************************************)
(* An encoder without a buffer has one, trivially, that a reader can trust.*)
(***************************************************************************)
LEMMA NothingToRead ==
  ASSUME EncoderInv, data = <<>>, written = <<>>
  PROVE  BufferInv
BY DEF BufferInv, RecordsFollow, HeadsAccounted

(***************************************************************************)
(* What a reader relies on holds of every buffer an encoder ever has: no   *)
(* record header in it can be taken for a record that was not written,     *)
(* wherever the writing of one was cut short.                              *)
(***************************************************************************)
THEOREM BufferInvariant == EncoderSpec => []BufferInv
<1>1. ZeroEncoder => BufferInv
  <2>1. ZeroEncoder => EncoderInv
    BY EmptyHistory, FirstCapacity DEF ZeroEncoder, EncoderStatuses
  <2> QED
    BY <2>1, NothingToRead DEF ZeroEncoder
<1>2. BufferInv /\ [EncoderNext]_encoderVars => BufferInv'
  <2> SUFFICES ASSUME BufferInv, [EncoderNext]_encoderVars
               PROVE  BufferInv'
    OBVIOUS
  <2>1. CASE EncoderCall
    BY <2>1, CallKeepsBuffer
  <2>2. CASE Free
    <3>1. EncoderInv'
      BY <2>2, ResetKeeps DEF BufferInv
    <3>2. data' = <<>> /\ written' = <<>>
      BY <2>2 DEF Free
    <3> QED
      BY <3>1, <3>2 DEF BufferInv, RecordsFollow, HeadsAccounted
  <2>3. CASE UNCHANGED encoderVars
    BY <2>3
       DEF encoderVars, BufferInv, EncoderInv, EncoderTypeOK, CapacityHolds,
           RecordsInPlace, TornIsRecorded, Contiguous, CountersAgree,
           CountsAreTrue, DatasAmong, RecordsFollow, HeadsAccounted, HeadAt,
           WrittenAt, TornAt, ClaimedEnd
  <2> QED
    BY <2>1, <2>2, <2>3 DEF EncoderNext
<1> QED
  BY <1>1, <1>2, PTL DEF EncoderSpec
-----------------------------------------------------------------------------
(* What a careful application writes. *)

(***************************************************************************)
(* In a lawful log, a schema has one content, which is the only one in     *)
(* SchemasWritten.                                                         *)
(***************************************************************************)
LEMMA OneContent ==
  ASSUME EncoderInv, LawfulLog(written), NEW id, NEW rev,
         NEW i \in SchemasBefore(written, Len(written), id, rev),
         NEW k \in SchemasBefore(written, Len(written), id, rev)
  PROVE  LayoutOf(written[i]) = LayoutOf(written[k])
<1>1. PICK n \in Nat : n = Len(written)
  BY LenProperties DEF EncoderInv, EncoderTypeOK
<1>2. ASSUME NEW a \in SchemasBefore(written, n, id, rev),
             NEW b \in SchemasBefore(written, n, id, rev), a < b
      PROVE  LayoutOf(written[a]) = LayoutOf(written[b])
  <2>1. /\ a \in 1 .. n /\ b \in 1 .. n
        /\ written[a].type = "SCMA" /\ written[b].type = "SCMA"
        /\ written[a].fields.id = id /\ written[a].fields.rev = rev
        /\ written[b].fields.id = id /\ written[b].fields.rev = rev
    BY <1>2 DEF SchemasBefore
  <2>2. LawfulSchema(written, b - 1, written[b])
    BY <1>1, <2>1 DEF LawfulLog, Lawful
  <2>3. a \in 1 .. b - 1
    BY <1>2, <2>1
  <2>4. a \in SchemasBefore(written, b - 1, written[b].fields.id,
                            written[b].fields.rev)
    BY <2>1, <2>3 DEF SchemasBefore
  <2> QED
    BY <2>2, <2>4 DEF LawfulSchema
<1>3. i \in 1 .. n /\ k \in 1 .. n
  BY <1>1 DEF SchemasBefore
<1>4. i < k \/ k < i \/ i = k
  BY <1>3
<1> QED
  BY <1>1, <1>2, <1>4

LEMMA WrittenLayouts ==
  ASSUME NEW id, NEW rev
  PROVE  SchemasWritten(id, rev) =
           {LayoutOf(written[i]) :
              i \in SchemasBefore(written, Len(written), id, rev)}
BY DEF SchemasWritten, SchemasBefore, LayoutOf

(***************************************************************************)
(* A layout among those written for a pair is the layout of all of them.   *)
(***************************************************************************)
LEMMA WrittenLayout ==
  ASSUME EncoderInv, LawfulLog(written), NEW id, NEW rev,
         NEW l \in SchemasWritten(id, rev)
  PROVE  /\ SchemasBefore(written, Len(written), id, rev) # {}
         /\ \A i \in SchemasBefore(written, Len(written), id, rev) :
              LayoutOf(written[i]) = l
<1>1. PICK k \in SchemasBefore(written, Len(written), id, rev) :
        LayoutOf(written[k]) = l
  BY WrittenLayouts
<1> QED
  BY <1>1, OneContent

LEMMA CarefulSchema ==
  ASSUME NEW c, SchemaAllowed(c), NEW r,
         r.type = "SCMA", r.fields = [id |-> c.schema.id, rev |-> c.schema.rev],
         r.payload = <<[cell |-> "layout", layout |-> c.schema.layout]>>
  PROVE  Lawful(written, Len(written), r)
<1>1. /\ Len(r.payload) = 1
      /\ r.payload[1].cell = "layout"
      /\ LayoutOf(r) = c.schema.layout
      /\ r.fields.id = c.schema.id /\ r.fields.rev = c.schema.rev
  BY DEF LayoutOf
<1>2. \A i \in SchemasBefore(written, Len(written), c.schema.id,
                             c.schema.rev) :
        LayoutOf(written[i]) = c.schema.layout
  BY WrittenLayouts DEF SchemaAllowed
<1> QED
  BY <1>1, <1>2 DEF Lawful, LawfulSchema

LEMMA CarefulData ==
  ASSUME EncoderInv, LawfulLog(written), NEW c \in DataCalls, DataAllowed(c),
         ValidDataInfo(c), FitsSchema(c), NEW r,
         r.type = "DATA",
         r.fields = [id |-> c.id, rev |-> c.rev, stream |-> c.stream,
                     first |-> c.first, count |-> c.count, mode |-> c.mode,
                     times |-> c.times, stamps |-> c.stamps,
                     decoded |-> Len(c.values), profile |-> c.profile],
         r.payload = Encoded(c.profile, c.values)
  PROVE  /\ Lawful(written, Len(written), r)
         /\ SoundSamples(written, Len(written), r)
<1>1. c.schema.layout \in SchemasWritten(c.id, c.rev)
  BY DEF DataAllowed
<1>2. /\ SchemasBefore(written, Len(written), c.id, c.rev) # {}
      /\ \A i \in SchemasBefore(written, Len(written), c.id, c.rev) :
           LayoutOf(written[i]) = c.schema.layout
  BY <1>1, WrittenLayout
<1>3. /\ HoldsData(c.schema.layout, c.stream, c.mode)
      /\ Len(c.values) =
           ExpectedSize(c.schema.layout, c.stream, c.count, c.stamps)
      /\ c.id # 0 /\ c.rev # 0 /\ c.stream # 0
      /\ TimesAgree(c.mode, c.stamps, c.count)
  BY DEF FitsSchema, ValidDataInfo
<1>4. DecodedSize(c.profile, Encoded(c.profile, c.values)) = Len(c.values)
  <2>1. c.values \in Seq(Values)
    BY EncoderAssumption
  <2> QED
    BY <2>1, EncodedSize
<1>5. /\ r.fields.id = c.id /\ r.fields.rev = c.rev
      /\ r.fields.stream = c.stream /\ r.fields.count = c.count
      /\ r.fields.mode = c.mode /\ r.fields.stamps = c.stamps
      /\ r.fields.decoded = Len(c.values) /\ r.fields.profile = c.profile
  OBVIOUS
<1>6. LawfulData(written, Len(written), r)
  BY <1>2, <1>3, <1>4, <1>5 DEF LawfulData
<1>7. r.fields.first = c.first /\ r.fields.times = c.times
  OBVIOUS
<1>8. /\ ~IndexesWrap(r.fields)
      /\ SamplesInOrder(c.schema.layout, r.fields, r.payload)
  BY <1>5, <1>7 DEF DataAllowed, IndexesWrap, SamplesInOrder, SpareBitsFit,
                    TimesOverflow
<1>9. SoundSamples(written, Len(written), r)
  BY <1>2, <1>5, <1>8 DEF SoundSamples
<1> QED
  BY <1>6, <1>9 DEF Lawful

LEMMA CarefulText ==
  ASSUME EncoderInv, LawfulLog(written), NEW c, TextAllowed(c),
         TextRefersWhole(c), NEW r, r.type = "TEXT",
         r.fields = [id |-> c.id, rev |-> c.rev, stream |-> c.stream]
  PROVE  Lawful(written, Len(written), r)
<1>1. /\ r.fields.id = c.id /\ r.fields.rev = c.rev
      /\ r.fields.stream = c.stream
  OBVIOUS
<1>2. CASE c.id = 0
  BY <1>1, <1>2 DEF TextRefersWhole, Lawful, LawfulText
<1>3. CASE c.id # 0
  <2>1. PICK l \in SchemasWritten(c.id, c.rev) : KindOf(l, c.stream) = "text"
    BY <1>3 DEF TextAllowed
  <2>2. /\ SchemasBefore(written, Len(written), c.id, c.rev) # {}
        /\ \A i \in SchemasBefore(written, Len(written), c.id, c.rev) :
             LayoutOf(written[i]) = l
    BY WrittenLayout
  <2> QED
    BY <1>1, <1>3, <2>1, <2>2 DEF TextRefersWhole, Lawful, LawfulText
<1> QED
  BY <1>2, <1>3

LEMMA CarefulItem ==
  ASSUME EncoderInv, LawfulLog(written), NEW c \in BlobCalls, BlobAllowed(c),
         ValidBlobInfo(c), NEW r,
         r.type = "BLOB",
         r.fields = [id |-> c.id, rev |-> c.rev, stream |-> c.stream,
                     first |-> c.first, decoded |-> Len(c.values),
                     profile |-> c.profile],
         r.payload = Encoded(c.profile, c.values)
  PROVE  Lawful(written, Len(written), r)
<1>1. PICK l \in SchemasWritten(c.id, c.rev) : KindOf(l, c.stream) = "blob"
  BY DEF BlobAllowed
<1>2. /\ SchemasBefore(written, Len(written), c.id, c.rev) # {}
      /\ \A i \in SchemasBefore(written, Len(written), c.id, c.rev) :
           LayoutOf(written[i]) = l
  BY WrittenLayout
<1>3. DecodedSize(c.profile, Encoded(c.profile, c.values)) = Len(c.values)
  <2>1. c.values \in Seq(Values)
    BY EncoderAssumption
  <2> QED
    BY <2>1, EncodedSize
<1>4. \A i \in ItemsBefore(written, Len(written), c.id, c.stream) :
        written[i].fields.first < c.first
  BY DEF ItemsBefore, BlobAllowed
<1>5. /\ r.fields.id = c.id /\ r.fields.rev = c.rev
      /\ r.fields.stream = c.stream /\ r.fields.first = c.first
      /\ r.fields.decoded = Len(c.values) /\ r.fields.profile = c.profile
  OBVIOUS
<1>6. LawfulItem(written, Len(written), r)
  BY <1>1, <1>2, <1>3, <1>4, <1>5 DEF LawfulItem, ValidBlobInfo
<1> QED
  BY <1>6 DEF Lawful

LEMMA CarefulIndex ==
  ASSUME Careful, NEW entries \in IndexArguments,
         NEW r, r.type = "INDX", r.payload = entries
  PROVE  Lawful(written, Len(written), r)
<1>1. \/ entries = <<>>
      \/ \E i \in 1 .. Len(written) : /\ written[i].type \in {"DATA", "BLOB"}
                                      /\ entries = <<EntryFor(written[i])>>
  BY DEF IndexArguments, TrueEntries
<1>2. CASE entries = <<>>
  BY <1>2 DEF Lawful
<1>3. CASE entries # <<>>
  <2>1. PICK i \in 1 .. Len(written) :
          /\ written[i].type \in {"DATA", "BLOB"}
          /\ entries = <<EntryFor(written[i])>>
    BY <1>1, <1>3
  <2>2. TrueEntry(written, Len(written), EntryFor(written[i]))
    BY <2>1 DEF TrueEntry, EntryFor
  <2>3. Len(r.payload) = 1 /\ r.payload[1] = EntryFor(written[i])
    BY <2>1
  <2> QED
    BY <2>2, <2>3 DEF Lawful
<1> QED
  BY <1>2, <1>3

LEMMA CarefulEnd ==
  ASSUME EncoderInv, Careful, NEW lastIndex \in LastIndexes,
         NEW r, r.type = "END!", r.payload = <<>>,
         r.fields = [total |-> recordCount + 1, datas |-> dataRecordCount,
                     lastIndex |-> lastIndex]
  PROVE  Lawful(written, Len(written), r)
<1>1. DatasBefore(written, Len(written)) = DatasAmong(Len(written))
  BY DEF DatasBefore, DatasAmong
<1>2. /\ r.fields.total = Len(written) + 1
      /\ r.fields.datas = Cardinality(DatasBefore(written, Len(written)))
      /\ r.fields.lastIndex = lastIndex
  BY <1>1 DEF EncoderInv, CountersAgree
<1>3. \/ lastIndex = 0
      \/ \E i \in 1 .. Len(written) : /\ written[i].type = "INDX"
                                      /\ written[i].offset = lastIndex
  BY DEF LastIndexes, IndexOffsets
<1> QED
  BY <1>2, <1>3 DEF Lawful, LawfulEnd

(***************************************************************************)
(* A call of a careful application writes nothing, or one record, which    *)
(* may follow those before it; sdaf_encoder_init begins a history.         *)
(***************************************************************************)
WritesCarefully ==
  \/ written' \in {written, <<>>}
  \/ \E r : /\ written' = Append(written, r)
            /\ Lawful(written, Len(written), r)
            /\ SoundSamples(written, Len(written), r)

LEMMA CallIsCareful ==
  ASSUME EncoderInv, Careful, LawfulLog(written), EncoderCall
  PROVE  WritesCarefully
<1>1. ASSUME NEW type, NEW trailer, NEW fields, NEW payload
      PROVE  /\ NewRecord(type, trailer, fields, payload).type = type
             /\ NewRecord(type, trailer, fields, payload).fields = fields
             /\ NewRecord(type, trailer, fields, payload).payload = payload
  BY DEF NewRecord
<1>2. ASSUME NEW r, StoreWhole(r) \/ StopShort(r) \/ NoBuffer,
             Lawful(written, Len(written), r),
             SoundSamples(written, Len(written), r)
      PROVE  WritesCarefully
  BY <1>2 DEF StoreWhole, StopShort, NoBuffer, WritesCarefully
<1>3. CASE \/ \E status \in EncoderStatuses : Refuse(status)
           \/ Refuse(encoderStatus)
           \/ PayloadOutOfMemory
           \/ PayloadOutOfMemoryUnrecorded
           \/ Initialize
  BY <1>3 DEF Refuse, PayloadOutOfMemory, PayloadOutOfMemoryUnrecorded,
              Initialize, WritesCarefully
<1>4. ASSUME NEW c \in SchemaCalls, SchemaAllowed(c), WriteSchema(c)
      PROVE  WritesCarefully
  <2> DEFINE r == NewRecord("SCMA", c.trailer,
                    [id |-> c.schema.id, rev |-> c.schema.rev],
                    <<[cell |-> "layout", layout |-> c.schema.layout]>>)
  <2>1. \/ Refuse("FORMAT") \/ Refuse("LIMIT") \/ Refuse("MEMORY")
        \/ EncodeRecord(r)
    BY <1>4 DEF WriteSchema
  <2>2. /\ r.type = "SCMA"
        /\ r.fields = [id |-> c.schema.id, rev |-> c.schema.rev]
        /\ r.payload = <<[cell |-> "layout", layout |-> c.schema.layout]>>
    BY <1>1
  <2> HIDE DEF r
  <2>3. Lawful(written, Len(written), r)
    BY <1>4, <2>2, CarefulSchema
  <2> QED
    BY <1>2, <1>3, <2>1, <2>2, <2>3 DEF EncodeRecord, EncoderStatuses, SoundSamples
<1>5. ASSUME NEW c \in DataCalls, DataAllowed(c), WriteData(c)
      PROVE  WritesCarefully
  <2>1. \/ Refuse(encoderStatus) \/ Refuse("ARGUMENT") \/ PayloadOutOfMemory
        \/ /\ ValidDataInfo(c) /\ FitsSchema(c)
           /\ StoreWhole(DataRecord(c)) \/ StopShort(DataRecord(c)) \/ NoBuffer
    BY <1>5 DEF WriteData
  <2>2. /\ DataRecord(c).type = "DATA"
        /\ DataRecord(c).fields =
             [id |-> c.id, rev |-> c.rev, stream |-> c.stream,
              first |-> c.first, count |-> c.count, mode |-> c.mode,
              times |-> c.times, stamps |-> c.stamps,
              decoded |-> Len(c.values), profile |-> c.profile]
        /\ DataRecord(c).payload = Encoded(c.profile, c.values)
    BY DEF DataRecord, NewRecord
  <2>3. CASE ValidDataInfo(c) /\ FitsSchema(c)
    <3>1. /\ Lawful(written, Len(written), DataRecord(c))
          /\ SoundSamples(written, Len(written), DataRecord(c))
      BY <1>5, <2>2, <2>3, CarefulData
    <3> QED
      BY <1>2, <1>3, <2>1, <3>1 DEF EncoderStatuses
  <2>4. CASE Refuse(encoderStatus) \/ Refuse("ARGUMENT") \/ PayloadOutOfMemory
    BY <1>3, <2>4 DEF EncoderStatuses
  <2> QED
    BY <2>1, <2>3, <2>4
<1>6. ASSUME NEW c \in TextCalls, TextAllowed(c), WriteText(c)
      PROVE  WritesCarefully
  <2> DEFINE fields == [id |-> c.id, rev |-> c.rev, stream |-> c.stream]
             r == NewRecord("TEXT", c.trailer, fields, AsCells(c.values))
  <2>1. Refuse("ARGUMENT") \/ (TextRefersWhole(c) /\ EncodeRecord(r))
    BY <1>6 DEF WriteText
  <2>2. r.type = "TEXT" /\ r.fields = fields
    BY <1>1
  <2> HIDE DEF r
  <2>3. TextRefersWhole(c) => Lawful(written, Len(written), r)
    BY <1>6, <2>2, CarefulText
  <2> QED
    BY <1>2, <1>3, <2>1, <2>2, <2>3 DEF EncodeRecord, EncoderStatuses, SoundSamples
<1>7. ASSUME NEW c \in BlobCalls, BlobAllowed(c), WriteBlob(c)
      PROVE  WritesCarefully
  <2> DEFINE fields == [id |-> c.id, rev |-> c.rev, stream |-> c.stream,
                        first |-> c.first, decoded |-> Len(c.values),
                        profile |-> c.profile]
             r == NewRecord("BLOB", c.trailer, fields,
                            Encoded(c.profile, c.values))
  <2>1. \/ Refuse(encoderStatus) \/ PayloadOutOfMemoryUnrecorded
        \/ ValidBlobInfo(c) /\ EncodeRecord(r)
    BY <1>7 DEF WriteBlob
  <2>2. /\ r.type = "BLOB" /\ r.fields = fields
        /\ r.payload = Encoded(c.profile, c.values)
    BY <1>1
  <2> HIDE DEF r
  <2>3. ValidBlobInfo(c) => Lawful(written, Len(written), r)
    BY <1>7, <2>2, CarefulItem
  <2> QED
    BY <1>2, <1>3, <2>1, <2>2, <2>3 DEF EncodeRecord, SoundSamples
<1>8. ASSUME NEW type \in {"NOTE", "PRIV"}, NEW trailer, NEW payload,
             EncodeRecord(NewRecord(type, trailer, NoFields, payload))
      PROVE  WritesCarefully
  <2>1. Lawful(written, Len(written),
               NewRecord(type, trailer, NoFields, payload))
    BY <1>1 DEF Lawful
  <2>2. NewRecord(type, trailer, NoFields, payload).type # "DATA"
    BY <1>1
  <2> QED
    BY <1>2, <1>8, <2>1, <2>2 DEF EncodeRecord, SoundSamples
<1>9. ASSUME NEW entries \in IndexArguments, NEW trailer \in IndexTrailers,
             WriteIndex(entries, trailer)
      PROVE  WritesCarefully
  <2>1. Lawful(written, Len(written),
               NewRecord("INDX", trailer, NoFields, entries))
    BY <1>1, CarefulIndex
  <2>2. \/ PayloadOutOfMemoryUnrecorded
        \/ EncodeRecord(NewRecord("INDX", trailer, NoFields, entries))
    BY <1>9 DEF WriteIndex
  <2>3. NewRecord("INDX", trailer, NoFields, entries).type # "DATA"
    BY <1>1
  <2> QED
    BY <1>2, <1>3, <2>1, <2>2, <2>3 DEF EncodeRecord, SoundSamples
<1>10. ASSUME NEW lastIndex \in LastIndexes, WriteEnd(lastIndex)
       PROVE  WritesCarefully
  <2> DEFINE fields == [total |-> recordCount + 1, datas |-> dataRecordCount,
                        lastIndex |-> lastIndex]
  <2>1. PICK none \in BOOLEAN, nothing \in Seq(PayloadCells) :
          none = FALSE /\ nothing = <<>>
    <3>1. <<>> \in Seq(PayloadCells) /\ FALSE \in BOOLEAN
      OBVIOUS
    <3> QED
      BY <3>1, Zenon
  <2> DEFINE r == NewRecord("END!", none, fields, nothing)
  <2>2. EncodeRecord(r)
    BY <1>10, <2>1 DEF WriteEnd
  <2>3. r.type = "END!" /\ r.fields = fields /\ r.payload = nothing
    BY <1>1
  <2> HIDE DEF r
  <2> QED
    BY <1>2, <2>1, <2>2, <2>3, CarefulEnd DEF EncodeRecord, SoundSamples
<1>11. ASSUME \/ \E c \in NoteCalls : WriteNote(c)
              \/ \E c \in PrivateCalls : WritePrivate(c)
       PROVE  WritesCarefully
  BY <1>8, <1>11 DEF WriteNote, WritePrivate
<1> QED
  BY <1>3, <1>4, <1>5, <1>6, <1>7, <1>9, <1>10, <1>11 DEF EncoderCall

LEMMA CallKeepsCare ==
  ASSUME EncoderInv, CarefulLog, CarefulSamples, EncoderCall
  PROVE  CarefulLog' /\ CarefulSamples'
<1> SUFFICES ASSUME Careful PROVE LawfulLog(written') /\ SoundLog(written')
  BY DEF CarefulLog, CarefulSamples
<1>1. LawfulLog(written) /\ SoundLog(written) /\ written \in Seq(Records)
  BY DEF CarefulLog, CarefulSamples, EncoderInv, EncoderTypeOK
<1>2. WritesCarefully
  BY <1>1, CallIsCareful
<1>3. CASE written' = written
  BY <1>1, <1>3
<1>4. CASE written' = <<>>
  BY <1>4 DEF LawfulLog, SoundLog
<1>5. ASSUME NEW r, written' = Append(written, r),
             Lawful(written, Len(written), r),
             SoundSamples(written, Len(written), r)
      PROVE  LawfulLog(written') /\ SoundLog(written')
  <2>1. PICK n \in Nat : n = Len(written)
    BY <1>1, LenProperties
  <2>2. Len(written') = n + 1 /\ written'[n + 1] = r
    BY <1>1, <1>5, <2>1
  <2>3. n + 1 \in 1 .. Len(written')
    BY <2>2
  <2>4. written' \in Seq(Records)
    BY CallKeeps DEF EncoderInv, EncoderTypeOK
  <2>5. r \in Records
    BY <2>2, <2>3, <2>4, ElementOfSeq
  <2> QED
    BY <1>1, <1>5, <2>5, LawfulGrows, SoundGrows
<1> QED
  BY <1>2, <1>3, <1>4, <1>5 DEF WritesCarefully

(***************************************************************************)
(* A buffer without a torn record ends with the last record written.       *)
(***************************************************************************)
LEMMA ContiguousEnds ==
  ASSUME EncoderInv, Contiguous, data # <<>>
  PROVE  /\ Len(data) = WrittenEnd
         /\ Consecutive
<1>1. /\ data \in Seq(Cells) /\ written \in Seq(Records)
  BY DEF EncoderInv, EncoderTypeOK
<1>2. PICK n \in Nat, m \in Nat : n = Len(data) /\ n # 0 /\ m = Len(written)
  BY <1>1, EmptySeq, LenProperties
<1>3. CASE written = <<>>
  <2>1. n <= 1 /\ m = 0
    BY <1>2, <1>3 DEF Contiguous
  <2> QED
    BY <1>2, <1>3, <2>1 DEF WrittenEnd, Consecutive
<1>4. CASE written # <<>>
  <2>1. /\ written[1].offset = 1
        /\ \A i \in 1 .. m - 1 : EndOf(written[i]) = written[i + 1].offset
        /\ EndOf(written[m]) = n
    BY <1>2, <1>4 DEF Contiguous
  <2>2. ASSUME NEW i \in 1 .. m, i # 1
        PROVE  written[i].offset = EndOf(written[i - 1])
    <3>1. i - 1 \in 1 .. m - 1 /\ (i - 1) + 1 = i
      BY <2>2
    <3> QED
      BY <2>1, <3>1
  <2>3. Consecutive
    BY <1>2, <2>1, <2>2 DEF Consecutive
  <2> QED
    BY <1>2, <1>4, <2>1, <2>3 DEF WrittenEnd
<1> QED
  BY <1>3, <1>4

(***************************************************************************)
(* An application that stops at an error leaves at most one torn record,   *)
(* at the end of the buffer, whose extent no bytes fill.                   *)
(***************************************************************************)
LEMMA CallKeepsTear ==
  ASSUME EncoderInv, StoppedAtTear, EncoderCall
  PROVE  StoppedAtTear'
<1> SUFFICES ASSUME StopsOnError PROVE Consecutive' /\ TornTail'
  BY DEF StoppedAtTear
<1>1. /\ data \in Seq(Cells) /\ written \in Seq(Records)
      /\ Consecutive /\ TornTail /\ Contiguous
  <2>1. encoderStatus = "OK"
    BY DEF EncoderCall, MayCall
  <2> QED
    BY <2>1 DEF EncoderInv, EncoderTypeOK, TornIsRecorded, StoppedAtTear
<1>2. PICK n \in Nat, m \in Nat : n = Len(data) /\ m = Len(written)
  BY <1>1, LenProperties
<1>3. CASE Untouched
  BY <1>1, <1>3 DEF Untouched, Consecutive, TornTail, WrittenEnd, HeadAt,
                    ClaimedEnd
<1>4. CASE Begun
  <2>1. Len(data') = 1 /\ written' = <<>> /\ Len(written') = 0
    BY <1>4 DEF Begun
  <2> QED
    BY <2>1 DEF Consecutive, TornTail, WrittenEnd
<1>5. ASSUME NEW r, StoredNow(r)
      PROVE  Consecutive' /\ TornTail'
  <2>1. /\ r \in Records /\ r.offset = n /\ data # <<>>
        /\ data' = data \o Stored(r) /\ written' = Append(written, r)
    BY <1>2, <1>5 DEF StoredNow
  <2>2. n = WrittenEnd
    BY <1>1, <1>2, <2>1, ContiguousEnds
  <2>3. /\ Len(written') = m + 1
        /\ \A i \in 1 .. m : written'[i] = written[i]
        /\ written'[m + 1] = r
        /\ written' # <<>>
    BY <1>1, <1>2, <2>1, AppendProperties
  <2>4. EndOf(r) = Len(data') /\ Len(data') \in Nat
    <3>1. EndOf(r) = Len(data') /\ data' \in Seq(Cells)
      BY <1>1, <1>2, <2>1, StoredInPlace, StoredType, ConcatProperties
    <3> QED
      BY <3>1, LenProperties
  <2>5. WrittenEnd' = Len(data')
    BY <2>3, <2>4 DEF WrittenEnd
  <2>6. TornTail'
    BY <2>4, <2>5 DEF TornTail
  <2>7. ASSUME NEW i \in 1 .. m + 1
        PROVE  written'[i].offset = IF i = 1 THEN 1 ELSE EndOf(written'[i - 1])
    <3>1. CASE i \in 1 .. m
      <4>1. i = 1 \/ i - 1 \in 1 .. m
        BY <3>1
      <4> QED
        BY <1>1, <1>2, <2>3, <3>1, <4>1 DEF Consecutive
    <3>2. CASE i = m + 1 /\ m = 0
      <4>1. written = <<>>
        BY <1>1, <1>2, <3>2, EmptySeq
      <4> QED
        BY <2>1, <2>2, <2>3, <3>2, <4>1 DEF WrittenEnd
    <3>3. CASE i = m + 1 /\ m # 0
      <4>1. written # <<>> /\ m \in 1 .. m /\ i - 1 = m /\ i # 1
        BY <1>2, <3>3
      <4>2. n = EndOf(written[m])
        BY <1>2, <2>2, <4>1 DEF WrittenEnd
      <4> QED
        BY <2>1, <2>3, <3>3, <4>1, <4>2
    <3> QED
      BY <3>1, <3>2, <3>3
  <2> QED
    BY <2>3, <2>6, <2>7 DEF Consecutive
<1>6. ASSUME NEW r, TornNow(r)
      PROVE  Consecutive' /\ TornTail'
  <2>1. r \in Records /\ data # <<>> /\ written' = written
    BY <1>6 DEF TornNow
  <2>2. PICK s \in {<<HeadCell(r)>>, <<HeadCell(r)>> \o r.payload} :
          /\ data' = data \o s
          /\ Len(s) < TotalSize(Len(r.payload), r.trailer)
    BY <1>6 DEF TornNow
  <2>3. n = WrittenEnd /\ WrittenEnd' = WrittenEnd
    BY <1>1, <1>2, <2>1, ContiguousEnds DEF WrittenEnd
  <2>4. /\ s \in Seq(Cells) /\ Len(s) >= 1
        /\ s[1] = HeadCell(r)
        /\ \A k \in 2 .. Len(s) : s[k].cell # "head"
    BY <2>1, StoredHeads
  <2>5. PICK k \in Nat : k = Len(s) /\ k >= 1
    BY <2>4, LenProperties
  <2>6. Len(data') = n + k /\ data'[n + 1] = HeadCell(r)
    BY <1>1, <1>2, <2>2, <2>4, <2>5, OneHeadAppended
  <2>7. /\ HeadCell(r).cell = "head"
        /\ HeadCell(r).is.size = Len(r.payload)
        /\ HeadCell(r).is.trailer = r.trailer
        /\ r.trailer => HeadCell(r).is.pcrc = NoCrc
    BY DEF HeadCell, HeaderContent
  <2>8. PICK t \in Nat : t = TotalSize(Len(r.payload), r.trailer)
    BY <2>1, StoredType
  <2>9. ClaimedEnd(n + 1)' = (n + 1) - 1 + t
    BY <2>6, <2>7, <2>8 DEF ClaimedEnd
  <2>10. ClaimedEnd(n + 1)' > Len(data')
    BY <2>2, <2>5, <2>6, <2>8, <2>9
  <2>11. TornTail'
    BY <2>3, <2>6, <2>7, <2>10 DEF TornTail, HeadAt
  <2> QED
    BY <1>1, <2>1, <2>11 DEF Consecutive
<1> QED
  BY <1>3, <1>4, <1>5, <1>6, CallEffect

(***************************************************************************)
(* A gap in the buffer stays: no later record closes it.                   *)
(***************************************************************************)
LEMMA GapStays ==
  ASSUME EncoderInv, EncoderCall, Contiguous'
  PROVE  Contiguous
<1>1. /\ data \in Seq(Cells) /\ written \in Seq(Records) /\ RecordsInPlace
  BY DEF EncoderInv, EncoderTypeOK
<1>2. PICK n \in Nat, m \in Nat : n = Len(data) /\ m = Len(written)
  BY <1>1, LenProperties
<1>3. CASE Untouched
  BY <1>3 DEF Untouched, Contiguous
<1>4. CASE Begun
  <2>1. n = 0 /\ written = <<>>
    BY <1>2, <1>4 DEF Begun
  <2> QED
    BY <1>2, <2>1 DEF Contiguous
<1>5. ASSUME NEW r, StoredNow(r)
      PROVE  Contiguous
  <2>1. r \in Records /\ r.offset = n /\ written' = Append(written, r)
    BY <1>2, <1>5 DEF StoredNow
  <2>2. /\ Len(written') = m + 1
        /\ \A i \in 1 .. m : written'[i] = written[i]
        /\ written'[m + 1] = r
        /\ written' # <<>>
    BY <1>1, <1>2, <2>1, AppendProperties
  <2>3. /\ written'[1].offset = 1
        /\ \A i \in 1 .. m : EndOf(written'[i]) = written'[i + 1].offset
    BY <2>2 DEF Contiguous
  <2>4. CASE m = 0
    <3>1. written = <<>>
      BY <1>1, <1>2, <2>4, EmptySeq
    <3>2. n = 1
      BY <2>1, <2>2, <2>3, <2>4
    <3> QED
      BY <1>2, <3>1, <3>2 DEF Contiguous
  <2>5. CASE m # 0
    <3>1. written # <<>> /\ m \in 1 .. m /\ 1 \in 1 .. m
      BY <1>2, <2>5
    <3>2. EndOf(written[m]) = n /\ written[1].offset = 1
      BY <2>1, <2>2, <2>3, <3>1
    <3>3. ASSUME NEW i \in 1 .. m - 1
          PROVE  EndOf(written[i]) = written[i + 1].offset
      <4>1. i \in 1 .. m /\ i + 1 \in 1 .. m
        BY <3>3
      <4> QED
        BY <2>2, <2>3, <4>1
    <3> QED
      BY <1>2, <3>1, <3>2, <3>3 DEF Contiguous
  <2> QED
    BY <2>4, <2>5
<1>6. ASSUME NEW r, TornNow(r)
      PROVE  FALSE
  <2>1. r \in Records /\ data # <<>> /\ written' = written
    BY <1>6 DEF TornNow
  <2>2. PICK s \in {<<HeadCell(r)>>, <<HeadCell(r)>> \o r.payload} :
          data' = data \o s
    BY <1>6 DEF TornNow
  <2>3. s \in Seq(Cells) /\ Len(s) >= 1
    BY <2>1, StoredHeads
  <2>4. PICK k \in Nat : k = Len(s) /\ k >= 1
    BY <2>3, LenProperties
  <2>5. Len(data') = n + k /\ n # 0
    BY <1>1, <1>2, <2>1, <2>2, <2>3, <2>4, ConcatProperties, EmptySeq
  <2>6. CASE written = <<>>
    <3>1. Len(data') <= 1
      BY <2>1, <2>6 DEF Contiguous
    <3> QED
      BY <2>4, <2>5, <3>1
  <2>7. CASE written # <<>>
    <3>1. m # 0
      BY <1>1, <1>2, <2>7, EmptySeq
    <3>2. m \in 1 .. m /\ EndOf(written[m]) = Len(data')
      BY <1>2, <2>1, <2>7, <3>1 DEF Contiguous
    <3>3. EndOf(written[m]) <= n
      BY <1>1, <1>2, <3>2 DEF RecordsInPlace
    <3> QED
      BY <2>4, <2>5, <3>2, <3>3
  <2> QED
    BY <2>6, <2>7
<1> QED
  BY <1>3, <1>4, <1>5, <1>6, CallEffect

-----------------------------------------------------------------------------
(* Every cell is whole, and every header of its type. *)

(***************************************************************************)
(* What a call adds to the buffer is a header, payload and a trailer.      *)
(***************************************************************************)
LEMMA AddedCells ==
  ASSUME NEW r \in Records,
         NEW s \in {<<HeadCell(r)>>, <<HeadCell(r)>> \o r.payload, Stored(r)},
         NEW k \in 1 .. Len(s)
  PROVE  \/ s[k] = HeadCell(r)
         \/ s[k].cell \notin {"head", "fragment"}
<1>1. /\ r.payload \in Seq(PayloadCells)
      /\ <<HeadCell(r)>> \in Seq(Cells) /\ Len(<<HeadCell(r)>>) = 1
      /\ <<HeadCell(r)>>[1] = HeadCell(r)
      /\ r.payload \in Seq(Cells)
  BY StoredType DEF Records
<1>2. PICK n \in Nat : n = Len(r.payload)
  BY <1>1, LenProperties
<1>3. ASSUME NEW i \in 1 .. n
      PROVE  r.payload[i].cell \notin {"head", "fragment"}
  BY <1>1, <1>2, <1>3, ElementOfSeq, CellKinds
<1>4. CASE s = <<HeadCell(r)>>
  BY <1>1, <1>4
<1>5. CASE s = <<HeadCell(r)>> \o r.payload
  <2>1. /\ Len(s) = 1 + n /\ s[1] = HeadCell(r)
        /\ \A i \in 1 + 1 .. 1 + n : s[i] = r.payload[i - 1]
    BY <1>1, <1>2, <1>5, ConcatProperties
  <2>2. k = 1 \/ (k \in 1 + 1 .. 1 + n /\ k - 1 \in 1 .. n)
    BY <1>2, <2>1
  <2> QED
    BY <1>3, <2>1, <2>2
<1>6. CASE s = Stored(r)
  <2>1. /\ s[1] = HeadCell(r)
        /\ \A i \in 1 .. n : s[1 + i] = r.payload[i]
        /\ r.trailer => s[n + 2] = TailCell(r)
    BY <1>2, <1>6, StoredCells
  <2>2. Len(s) = TotalSize(n, r.trailer) /\ r.trailer \in BOOLEAN
    BY <1>2, <1>6, StoredType DEF Records
  <2>3. \/ r.trailer /\ Len(s) = n + 2
        \/ ~r.trailer /\ Len(s) = n + 1
    BY <1>2, <2>2, TotalSizes
  <2>4. \/ k = 1
        \/ k - 1 \in 1 .. n /\ 1 + (k - 1) = k
        \/ r.trailer /\ k = n + 2
    BY <1>2, <2>3
  <2>5. TailCell(r).cell = "tail"
    BY DEF TailCell
  <2> QED
    BY <1>3, <2>1, <2>4, <2>5
<1> QED
  BY <1>4, <1>5, <1>6

LEMMA CallKeepsCells ==
  ASSUME EncoderInv, CellsFit, EncoderCall
  PROVE  CellsFit'
<1>1. data \in Seq(Cells)
  BY DEF EncoderInv, EncoderTypeOK
<1>2. CASE Untouched
  BY <1>2 DEF Untouched, CellsFit, HeadAt
<1>3. CASE Begun
  <2>1. Len(data') = 1 /\ data'[1] = FileHeader
    BY <1>3 DEF Begun
  <2>2. FileHeader # Fragment /\ FileHeader.cell # "head"
    <3>1. FileHeader.cell = "file" /\ Fragment.cell = "fragment"
      BY DEF FileHeader, Fragment
    <3> QED
      BY <3>1
  <2> QED
    BY <2>1, <2>2 DEF CellsFit, HeadAt
<1>4. ASSUME NEW r \in Records, FieldsFit(r),
             NEW s \in {<<HeadCell(r)>>, <<HeadCell(r)>> \o r.payload,
                        Stored(r)},
             data' = data \o s
      PROVE  CellsFit'
  <2>1. s \in Seq(Cells)
    BY <1>4, StoredType
  <2>2. PICK n \in Nat, m \in Nat : n = Len(data) /\ m = Len(s)
    BY <1>1, <2>1, LenProperties
  <2>3. /\ Len(data') = n + m
        /\ \A p \in 1 .. n : data'[p] = data[p]
        /\ \A p \in n + 1 .. n + m : data'[p] = s[p - n]
    BY <1>1, <1>4, <2>1, <2>2, ConcatProperties
  <2>4. /\ HeadCell(r).cell = "head"
        /\ HeadCell(r).is.type = r.type
        /\ HeadCell(r).is.fields = r.fields
    BY DEF HeadCell, HeaderContent
  <2>5. Fragment.cell = "fragment"
    BY DEF Fragment
  <2>6. ASSUME NEW p \in n + 1 .. n + m
        PROVE  /\ data'[p] # Fragment
               /\ HeadAt(p)' =>
                    /\ data'[p].is.type = "DATA" => data'[p].is.fields \in DataFields
                    /\ data'[p].is.type = "BLOB" => data'[p].is.fields \in BlobFields
    <3>1. p - n \in 1 .. m /\ data'[p] = s[p - n]
      BY <2>3
    <3>2. \/ data'[p] = HeadCell(r)
          \/ data'[p].cell \notin {"head", "fragment"}
      BY <1>4, <2>2, <3>1, AddedCells
    <3>3. CASE data'[p] = HeadCell(r)
      BY <1>4, <2>4, <2>5, <3>3 DEF FieldsFit
    <3>4. CASE data'[p].cell \notin {"head", "fragment"}
      BY <2>5, <3>4 DEF HeadAt
    <3> QED
      BY <3>2, <3>3, <3>4
  <2>7. ASSUME NEW p \in 1 .. n
        PROVE  /\ data'[p] # Fragment
               /\ HeadAt(p)' =>
                    /\ data'[p].is.type = "DATA" => data'[p].is.fields \in DataFields
                    /\ data'[p].is.type = "BLOB" => data'[p].is.fields \in BlobFields
    BY <2>2, <2>3 DEF CellsFit, HeadAt
  <2>8. \A p \in 1 .. n + m : p \in 1 .. n \/ p \in n + 1 .. n + m
    OBVIOUS
  <2> QED
    BY <2>3, <2>6, <2>7, <2>8 DEF CellsFit
<1>5. ASSUME NEW r, StoredNow(r)
      PROVE  CellsFit'
  <2>1. r \in Records /\ FieldsFit(r) /\ data' = data \o Stored(r)
    BY <1>5 DEF StoredNow
  <2> QED
    BY <1>4, <2>1
<1>6. ASSUME NEW r, TornNow(r)
      PROVE  CellsFit'
  <2>1. /\ r \in Records /\ FieldsFit(r)
        /\ \E s \in {<<HeadCell(r)>>, <<HeadCell(r)>> \o r.payload} :
             data' = data \o s
    BY <1>6 DEF TornNow
  <2> QED
    BY <1>4, <2>1
<1> QED
  BY <1>2, <1>3, <1>5, <1>6, CallEffect

-----------------------------------------------------------------------------
(* What the decoder meets. *)

LEMMA WrittenCells ==
  ASSUME BufferInv, NEW i \in 1 .. Len(written)
  PROVE  /\ written[i] \in Records
         /\ written[i].offset \in Nat \ {0}
         /\ Len(written[i].payload) \in Nat
         /\ EndOf(written[i]) \in written[i].offset + 1 .. Len(data)
         /\ data[written[i].offset + 1] = HeadCell(written[i])
         /\ \A k \in 1 .. Len(written[i].payload) :
              data[written[i].offset + 1 + k] = written[i].payload[k]
         /\ written[i].trailer =>
              data[written[i].offset + 2 + Len(written[i].payload)]
                = TailCell(written[i])
<1>1. /\ written \in Seq(Records) /\ data \in Seq(Cells)
      /\ RecordsInPlace /\ RecordsFollow
  BY DEF BufferInv, EncoderInv, EncoderTypeOK
<1>2. PICK r \in Records : r = written[i]
  BY <1>1, ElementOfSeq
<1>3. r.offset >= 1
  BY <1>1, <1>2 DEF RecordsFollow
<1>4. /\ EndOf(r) <= Len(data)
      /\ SubSeq(data, r.offset + 1, EndOf(r)) = Stored(r)
  BY <1>1, <1>2 DEF RecordsInPlace
<1>5. /\ r.offset \in Nat
      /\ Len(r.payload) \in Nat
      /\ EndOf(r) \in r.offset + 1 .. Len(data)
      /\ data[r.offset + 1] = HeadCell(r)
      /\ \A k \in 1 .. Len(r.payload) : data[r.offset + 1 + k] = r.payload[k]
      /\ r.trailer => data[r.offset + 2 + Len(r.payload)] = TailCell(r)
  BY <1>1, <1>4, RecordInBytes
<1> QED
  BY <1>2, <1>3, <1>5

(***************************************************************************)
(* What a call of the encoder leaves alone: the cells and the records that *)
(* are there.  At most one record is new, and it lies behind the cells     *)
(* that were there.                                                        *)
(***************************************************************************)
HistoryKept ==
  /\ data' \in Seq(Cells) /\ Len(data) <= Len(data')
  /\ \A p \in 1 .. Len(data) : data'[p] = data[p]
  /\ Len(written') \in {Len(written), Len(written) + 1}
  /\ \A i \in 1 .. Len(written) : written'[i] = written[i]
  /\ Len(written') = Len(written) => written' = written
  /\ \A i \in Len(written) + 1 .. Len(written') :
       written'[i].offset = Len(data)

LEMMA CallKeepsHistory ==
  ASSUME BufferInv, EncoderCall
  PROVE  BufferInv' /\ HistoryKept
<1>1. data \in Seq(Cells) /\ written \in Seq(Records) /\ EncoderInv
  BY DEF BufferInv, EncoderInv, EncoderTypeOK
<1>2. BufferInv'
  BY CallKeepsBuffer
<1>3. data' \in Seq(Cells)
  BY <1>2 DEF BufferInv, EncoderInv, EncoderTypeOK
<1>4. PICK n \in Nat, m \in Nat : n = Len(data) /\ m = Len(written)
  BY <1>1, LenProperties
<1>5. CASE Untouched
  BY <1>1, <1>2, <1>3, <1>4, <1>5 DEF Untouched, HistoryKept
<1>6. CASE Begun
  <2>1. n = 0 /\ Len(data') = 1 /\ written' = written
    BY <1>4, <1>6 DEF Begun
  <2> QED
    BY <1>2, <1>3, <1>4, <2>1 DEF HistoryKept
<1>7. ASSUME NEW r \in Records,
             NEW s \in {<<HeadCell(r)>>, <<HeadCell(r)>> \o r.payload,
                        Stored(r)},
             data' = data \o s
      PROVE  /\ Len(data) <= Len(data')
             /\ \A p \in 1 .. Len(data) : data'[p] = data[p]
  <2>1. /\ Len(data \o s) = Len(data) + Len(s)
        /\ \A p \in 1 .. Len(data) : (data \o s)[p] = data[p]
        /\ Len(s) >= 1 /\ Len(s) \in Nat
    BY <1>1, StoredHeads, OneHeadAppended, LenProperties
  <2> QED
    BY <1>4, <1>7, <2>1
<1>8. CASE \E r : StoredNow(r)
  <2>1. PICK r : StoredNow(r)
    BY <1>8
  <2>2. /\ r \in Records /\ r.offset = Len(data)
        /\ data' = data \o Stored(r) /\ written' = Append(written, r)
    BY <2>1 DEF StoredNow
  <2>3. /\ Len(written') = m + 1
        /\ \A i \in 1 .. m : written'[i] = written[i]
        /\ written'[m + 1] = r
    BY <1>1, <1>4, <2>2, AppendProperties
  <2>4. \A i \in m + 1 .. m + 1 : written'[i].offset = Len(data)
    BY <2>2, <2>3
  <2>5. /\ Len(data) <= Len(data')
        /\ \A p \in 1 .. Len(data) : data'[p] = data[p]
    BY <1>7, <2>2
  <2> QED
    BY <1>2, <1>3, <1>4, <2>3, <2>4, <2>5 DEF HistoryKept
<1>9. CASE \E r : TornNow(r)
  <2>1. PICK r : TornNow(r)
    BY <1>9
  <2>2. /\ r \in Records /\ written' = written
        /\ \E s \in {<<HeadCell(r)>>, <<HeadCell(r)>> \o r.payload} :
             data' = data \o s
    BY <2>1 DEF TornNow
  <2>3. /\ Len(data) <= Len(data')
        /\ \A p \in 1 .. Len(data) : data'[p] = data[p]
    BY <1>7, <2>2
  <2> QED
    BY <1>2, <1>3, <1>4, <2>2, <2>3 DEF HistoryKept
<1> QED
  BY <1>1, <1>2, <1>5, <1>6, <1>8, <1>9, CallEffect

-----------------------------------------------------------------------------
(* The bytes on their way. *)

(***************************************************************************)
(* The bytes of the buffer itself are carried, and the encoder appends to  *)
(* what was carried.                                                       *)
(***************************************************************************)
LEMMA BeginningCarries ==
  ASSUME BufferInv, NEW bytes \in Seq(Cells), Len(bytes) <= Len(data),
         \A p \in 1 .. Len(bytes) : bytes[p] = data[p]
  PROVE  ComesFromBuffer(bytes)
BY DEF ComesFromBuffer, Carried

LEMMA HistoryKeepsCarried ==
  ASSUME BufferInv, HistoryKept, UNCHANGED input, ComesFromBuffer(input)
  PROVE  ComesFromBuffer(input)'
<1>1. data \in Seq(Cells)
  BY DEF BufferInv, EncoderInv, EncoderTypeOK
<1>2. /\ Len(data) \in Nat /\ Len(data') \in Nat /\ Len(input) \in Nat
      /\ Len(data) <= Len(data')
  BY <1>1, LenProperties DEF HistoryKept, ComesFromBuffer
<1>3. \A p \in 1 .. Len(input) : Carried(input[p], data'[p])
  BY <1>2 DEF HistoryKept, ComesFromBuffer
<1>4. input' = input
  OBVIOUS
<1> QED
  BY <1>2, <1>3, <1>4 DEF ComesFromBuffer, Carried

(***************************************************************************)
(* A header that passes its checksum was not altered.  One that was does   *)
(* not pass, and neither a trailer nor anything else becomes a header.     *)
(***************************************************************************)
LEMMA AcceptedHeadIsOriginal ==
  ASSUME BufferInv, ComesFromBuffer(input), NEW p \in 1 .. Len(input),
         input[p].cell = "head", input[p].crc = Crc32c(input[p].is)
  PROVE  /\ p \in 1 .. Len(data)
         /\ input[p] = data[p]
         /\ HeadAt(p)
         /\ data[p].is.excess = 0
         /\ WrittenAt(p) \/ TornAt(p)
<1>1. /\ data \in Seq(Cells) /\ input \in Seq(Cells)
      /\ Len(input) <= Len(data) /\ Carried(input[p], data[p])
      /\ HeadsAccounted
  BY DEF BufferInv, EncoderInv, EncoderTypeOK, ComesFromBuffer
<1>2. p \in 1 .. Len(data)
  BY <1>1, LenProperties
<1>3. Junk.cell # "head"
  BY DEF Junk
<1>4. input[p] = data[p]
  BY <1>1, <1>3 DEF Carried
<1>5. HeadAt(p)
  BY <1>4 DEF HeadAt
<1> QED
  BY <1>1, <1>2, <1>4, <1>5 DEF HeadsAccounted

(***************************************************************************)
(* Where the buffer has a header, what is carried has one too, or junk.    *)
(***************************************************************************)
LEMMA HeadStaysHead ==
  ASSUME ComesFromBuffer(input), NEW q \in 1 .. Len(input), HeadAt(q)
  PROVE  input[q].cell \in {"head", "junk"}
BY DEF ComesFromBuffer, Carried, HeadAt, Junk

-----------------------------------------------------------------------------
(* The decoder's side. *)

(***************************************************************************)
(* What sdaf_decode has checked when it accepts a record.                  *)
(***************************************************************************)
LEMMA AcceptedVerdict ==
  ASSUME Verdict = "OK"
  PROVE  /\ Marked /\ ValidEnvelope /\ WithinLimits
         /\ HeadHere.crc = Crc32c(Says)
         /\ PayloadIntact
         /\ ParseRecord(Says.type, Says.fields, PayloadHere) = "OK"
<1> DEFINE parsed == ParseRecord(Says.type, Says.fields, PayloadHere)
           judged == IF parsed = "OK" /\ Len(document) >= MaxRecords
                     THEN "LIMIT" ELSE parsed
<1>1. "OK" # "FORMAT" /\ "OK" # "LIMIT"
  OBVIOUS
<1>2. Verdict = IF ~Marked \/ ~ValidEnvelope THEN "FORMAT"
                ELSE IF ~WithinLimits THEN "LIMIT"
                ELSE IF HeadHere.crc # Crc32c(Says) THEN "FORMAT"
                ELSE IF ~PayloadIntact THEN "FORMAT"
                ELSE judged
  BY DEF Verdict
<1>3. judged = "OK" => parsed = "OK"
  BY <1>1
<1> HIDE DEF judged, parsed
<1>4. /\ Marked /\ ValidEnvelope /\ WithinLimits
      /\ HeadHere.crc = Crc32c(Says)
      /\ PayloadIntact
      /\ judged = "OK"
  BY <1>1, <1>2, Zenon
<1> QED
  BY <1>3, <1>4 DEF parsed

(***************************************************************************)
(* What an accepted record looks like in the input: a header, payload      *)
(* cells, and a trailer when there is one; no header among the latter.     *)
(***************************************************************************)
LEMMA AcceptedRecord ==
  ASSUME PairInv, DeliverRecord
  PROVE  /\ offset + 1 \in 1 .. Len(input)
         /\ Says \in Contents
         /\ HeadHere.cell = "head"
         /\ HeadHere.crc = Crc32c(Says)
         /\ Total \in Nat
         /\ offset + Total <= Len(input)
         /\ PayloadIntact
         /\ PayloadHere \in Seq(PayloadCells)
         /\ \A q \in offset + 2 .. offset + TotalSize(Says.size, Says.trailer) :
              q \in 1 .. Len(input) /\ input[q].cell \notin {"head", "junk"}
<1>1. /\ input \in Seq(Cells) /\ offset \in Nat
      /\ ~InputExhausted /\ Verdict = "OK"
  BY DEF PairInv, ComesFromBuffer, DeliverRecord
<1>2. /\ Marked /\ ValidEnvelope /\ WithinLimits
      /\ HeadHere.crc = Crc32c(Says)
      /\ PayloadIntact
  BY <1>1, AcceptedVerdict
<1>3. PICK len \in Nat : len = Len(input)
  BY <1>1, LenProperties
<1>4. /\ offset + 1 \in 1 .. len
      /\ HeadHere.cell = "head"
  BY <1>1, <1>2, <1>3 DEF Marked, Available, HeadHere
<1>5. Says \in Contents
  <2>1. HeadHere \in HeadCells
    BY <1>1, <1>3, <1>4, ElementOfSeq, CellKinds DEF HeadHere
  <2> QED
    BY <2>1 DEF Says, HeadCells
<1>6. PICK size \in Nat, trailer \in BOOLEAN, excess \in Nat :
        size = Says.size /\ trailer = Says.trailer /\ excess = Says.excess
  BY <1>5 DEF Contents
<1>7. PICK total \in Nat :
        /\ total = TotalSize(size, trailer)
        /\ trailer => total = size + 2
        /\ ~trailer => total = size + 1
  <2>1. /\ TotalSize(size, trailer) \in Nat
        /\ trailer => TotalSize(size, trailer) = size + 2
        /\ ~trailer => TotalSize(size, trailer) = size + 1
    BY TotalSizes
  <2> QED
    BY <2>1
<1>8. Total = total + excess
  BY <1>6, <1>7 DEF Total
<1>9. offset + Total <= len
  <2>1. ~(Total > Available)
    BY <1>1, <1>2 DEF InputExhausted
  <2>2. Available = len - offset
    BY <1>3 DEF Available
  <2> QED
    BY <1>1, <1>8, <2>1, <2>2
<1>10. PayloadHere \in Seq(PayloadCells)
  <2>1. CASE trailer
    <3>1. /\ input[offset + 2 + size].cell = "tail"
          /\ input[offset + 2 + size].crc = Crc32c(PayloadHere)
      BY <1>2, <1>6, <2>1 DEF PayloadIntact, TrailerHere
    <3>2. offset + 2 + size \in 1 .. len
      <4>1. total = size + 2
        BY <1>7, <2>1
      <4> QED
        BY <1>1, <1>8, <1>9, <4>1
    <3>3. input[offset + 2 + size] \in TailCells
      BY <1>1, <1>3, <3>1, <3>2, ElementOfSeq, CellKinds
    <3> QED
      BY <3>1, <3>3 DEF TailCells, PayloadCrcs, Crc32c
  <2>2. CASE ~trailer
    <3>1. Crc32c(PayloadHere) = Says.pcrc
      BY <1>2, <1>6, <2>2 DEF PayloadIntact
    <3>2. Says.pcrc \in PayloadCrcs
      BY <1>5 DEF Contents
    <3> QED
      BY <3>1, <3>2 DEF PayloadCrcs, Crc32c
  <2> QED
    BY <2>1, <2>2
<1>11. ASSUME NEW q \in offset + 2 .. offset + total
       PROVE  q \in 1 .. len /\ input[q].cell \notin {"head", "junk"}
  <2>1. q \in 1 .. len
    BY <1>1, <1>8, <1>9
  <2>2. CASE q <= offset + 1 + size
    <3>1. \A i \in offset + 2 .. offset + 1 + size : input[i] \in Cells
      <4>1. offset + 1 + size <= len
        <5>1. total = size + 2 \/ total = size + 1
          BY <1>7
        <5> QED
          BY <1>1, <1>8, <1>9, <5>1
      <4>2. \A i \in 1 .. len : input[i] \in Cells
        BY <1>1, <1>3, ElementOfSeq
      <4> QED
        BY <1>1, <4>1, <4>2
    <3>2. \A i \in 1 .. (offset + 1 + size) - (offset + 2) + 1 :
            SubSeq(input, offset + 2, offset + 1 + size)[i]
              = input[(offset + 2) + i - 1]
      BY <1>1, <3>1, SubSeqProperties
    <3>3. Len(SubSeq(input, offset + 2, offset + 1 + size)) >= q - offset - 1
      <4>1. Len(SubSeq(input, offset + 2, offset + 1 + size))
              = IF offset + 2 <= offset + 1 + size
                THEN (offset + 1 + size) - (offset + 2) + 1 ELSE 0
        BY <1>1, <3>1, SubSeqProperties
      <4> QED
        BY <1>1, <2>2, <4>1
    <3>4. PayloadHere = SubSeq(input, offset + 2, offset + 1 + size)
      BY <1>6 DEF PayloadHere
    <3>5. q - offset - 1 \in 1 .. Len(PayloadHere)
      BY <1>1, <1>10, <3>3, <3>4, LenProperties
    <3>6. PayloadHere[q - offset - 1] = input[q]
      <4>1. /\ q - offset - 1 \in 1 .. (offset + 1 + size) - (offset + 2) + 1
            /\ (offset + 2) + (q - offset - 1) - 1 = q
        BY <1>1, <2>2
      <4> QED
        BY <3>2, <3>4, <4>1
    <3>7. PayloadHere[q - offset - 1] \in PayloadCells
      BY <1>10, <3>5, ElementOfSeq
    <3> QED
      BY <2>1, <3>6, <3>7, CellKinds
  <2>3. CASE q > offset + 1 + size
    <3>1. trailer /\ q = offset + 2 + size
      <4>1. CASE trailer
        <5>1. total = size + 2
          BY <1>7, <4>1
        <5>2. q = offset + 2 + size
          BY <1>1, <2>3, <5>1
        <5> QED
          BY <4>1, <5>2
      <4>2. CASE ~trailer
        <5>1. total = size + 1
          BY <1>7, <4>2
        <5> QED
          BY <1>1, <2>3, <5>1
      <4> QED
        BY <4>1, <4>2
    <3>2. input[q].cell = "tail"
      BY <1>2, <1>6, <3>1 DEF PayloadIntact, TrailerHere
    <3> QED
      BY <2>1, <3>2
  <2> QED
    BY <1>1, <2>2, <2>3
<1>12. Total \in Nat
  BY <1>8
<1> QED
  BY <1>2, <1>3, <1>4, <1>5, <1>6, <1>7, <1>9, <1>10, <1>11, <1>12
(***************************************************************************)
(* The header of an accepted record belongs to a written record, never to  *)
(* a torn one: the extent of a torn record holds another header or runs    *)
(* past the end of the buffer.                                             *)
(***************************************************************************)
LEMMA AcceptedIsWritten ==
  ASSUME PairInv, DeliverRecord
  PROVE  \E i \in 1 .. Len(written) : written[i].offset = offset
<1>1. /\ BufferInv /\ ComesFromBuffer(input) /\ offset \in Nat
      /\ data \in Seq(Cells) /\ input \in Seq(Cells)
      /\ Len(input) <= Len(data)
  BY DEF PairInv, BufferInv, EncoderInv, EncoderTypeOK, ComesFromBuffer
<1>2. PICK p \in Nat : p = offset + 1
  BY <1>1
<1>3. /\ p \in 1 .. Len(input) /\ input[p].cell = "head"
      /\ input[p].crc = Crc32c(input[p].is)
  BY <1>2, AcceptedRecord DEF HeadHere, Says
<1>4. /\ p \in 1 .. Len(data) /\ input[p] = data[p] /\ HeadAt(p)
      /\ data[p].is.excess = 0
      /\ WrittenAt(p) \/ TornAt(p)
  BY <1>1, <1>3, AcceptedHeadIsOriginal
<1>5. Says = data[p].is
  BY <1>2, <1>4 DEF Says, HeadHere
<1>6. PICK total \in Nat : total = TotalSize(Says.size, Says.trailer)
  <2>1. Says.size \in Nat /\ Says.trailer \in BOOLEAN
    BY AcceptedRecord DEF Contents
  <2> QED
    BY <2>1, TotalSizes
<1>7. ClaimedEnd(p) = offset + total
  BY <1>1, <1>2, <1>5, <1>6 DEF ClaimedEnd
<1>8. offset + total <= Len(input)
  <2>1. Total = total
    BY <1>4, <1>5, <1>6 DEF Total
  <2> QED
    BY <2>1, AcceptedRecord
<1>9. ~TornAt(p)
  <2>1. Len(input) \in Nat /\ Len(data) \in Nat
    BY <1>1, LenProperties
  <2>2. ~(ClaimedEnd(p) > Len(data))
    BY <1>1, <1>7, <1>8, <2>1
  <2>3. ASSUME NEW q \in p + 1 .. Len(data), q <= ClaimedEnd(p), HeadAt(q)
        PROVE  FALSE
    <3>1. q \in offset + 2 .. offset + total
      BY <1>1, <1>2, <1>7, <2>3
    <3>2. q \in 1 .. Len(input) /\ input[q].cell \notin {"head", "junk"}
      BY <1>6, <3>1, AcceptedRecord
    <3> QED
      BY <1>1, <2>3, <3>2, HeadStaysHead
  <2> QED
    BY <2>2, <2>3 DEF TornAt
<1>10. p - 1 = offset
  BY <1>1, <1>2
<1> QED
  BY <1>4, <1>9, <1>10 DEF WrittenAt

(***************************************************************************)
(* The written record at the cursor is the next one: the records before it *)
(* end at the cursor, and those behind it begin later.                     *)
(***************************************************************************)
LEMMA CursorIsAtNext ==
  ASSUME PairInv, documentStatus = "scanning",
         NEW i \in 1 .. Len(written), written[i].offset = offset
  PROVE  i = Len(document) + 1
<1>1. /\ BufferInv /\ DeliveredIsPrefix /\ RecordsFollow
      /\ written \in Seq(Records) /\ document \in Seq(Records)
      /\ offset = CursorAfter(Len(document))
  BY DEF PairInv, BufferInv, EncoderInv, EncoderTypeOK, Chained
<1>2. PICK n \in Nat, d \in Nat : n = Len(written) /\ d = Len(document)
  BY <1>1, LenProperties
<1>3. \A k \in 1 .. n : /\ written[k].offset \in Nat /\ EndOf(written[k]) \in Nat
                        /\ written[k].offset >= 1
                        /\ EndOf(written[k]) > written[k].offset
  <2> TAKE k \in 1 .. n
  <2>1. /\ written[k].offset \in Nat \ {0}
        /\ EndOf(written[k]) \in written[k].offset + 1 .. Len(data)
    BY <1>1, <1>2, WrittenCells
  <2> QED
    BY <2>1
<1>4. \A j, k \in 1 .. n : j < k => EndOf(written[j]) <= written[k].offset
  BY <1>1, <1>2 DEF RecordsFollow
<1>5. CASE d = 0
  <2>1. offset = 1
    BY <1>1, <1>2, <1>5 DEF CursorAfter
  <2>2. 1 \in 1 .. n
    BY <1>2
  <2>3. ~(1 < i)
    <3> SUFFICES ASSUME 1 < i PROVE FALSE
      OBVIOUS
    <3>1. EndOf(written[1]) <= written[i].offset
      BY <1>2, <1>4, <2>2
    <3>2. written[1].offset >= 1 /\ EndOf(written[1]) > written[1].offset
      BY <1>3, <2>2
    <3> QED
      BY <1>2, <1>3, <2>1, <2>2, <3>1, <3>2
  <2> QED
    BY <1>2, <1>5, <2>3
<1>6. CASE d # 0
  <2>1. d \in 1 .. n /\ document[d] = written[d]
    BY <1>1, <1>2, <1>6 DEF DeliveredIsPrefix
  <2>2. offset = EndOf(written[d])
    BY <1>1, <1>2, <1>6, <2>1 DEF CursorAfter
  <2>3. ~(i <= d)
    <3>1. CASE i = d
      BY <1>3, <2>1, <2>2, <3>1
    <3>2. CASE i < d
      BY <1>2, <1>3, <1>4, <2>1, <2>2, <3>2
    <3> QED
      BY <1>2, <3>1, <3>2
  <2>4. ~(i > d + 1)
    <3> SUFFICES ASSUME i > d + 1 PROVE FALSE
      OBVIOUS
    <3>1. d + 1 \in 1 .. n
      BY <1>2, <2>1
    <3>2. /\ EndOf(written[d]) <= written[d + 1].offset
          /\ EndOf(written[d + 1]) <= written[i].offset
      BY <1>2, <1>4, <2>1, <3>1
    <3> QED
      BY <1>2, <1>3, <2>1, <2>2, <3>1, <3>2
  <2> QED
    BY <1>2, <2>3, <2>4
<1> QED
  BY <1>5, <1>6

(***************************************************************************)
(* What sdaf_decode accepts is the next written record, in every field and *)
(* payload cell: each of them is covered by a checksum that was not        *)
(* altered.                                                                *)
(***************************************************************************)
LEMMA DeliversNext ==
  ASSUME PairInv, DeliverRecord
  PROVE  /\ Len(document) + 1 \in 1 .. Len(written)
         /\ RecordHere = written[Len(document) + 1]
         /\ offset + Total = EndOf(RecordHere)
         /\ RecordHere \in Records
<1>1. PICK i \in 1 .. Len(written) : written[i].offset = offset
  BY AcceptedIsWritten
<1>2. i = Len(document) + 1
  BY <1>1, CursorIsAtNext DEF DeliverRecord
<1>3. PICK r \in Records : r = written[i]
  BY WrittenCells DEF PairInv
<1>4. /\ r.type \in RecordTypes /\ r.trailer \in BOOLEAN
      /\ r.offset = offset /\ offset \in Nat
      /\ r.payload \in Seq(PayloadCells)
      /\ ComesFromBuffer(input) /\ BufferInv
  BY <1>1, <1>3 DEF Records, PairInv
<1>5. /\ data[offset + 1] = HeadCell(r)
      /\ r.trailer => data[offset + 2 + Len(r.payload)] = TailCell(r)
  BY <1>3, <1>4, WrittenCells
<1>6. Says = HeaderContent(r)
  <2>1. PICK p \in Nat : p = offset + 1
    BY <1>4
  <2>2. /\ p \in 1 .. Len(input) /\ input[p].cell = "head"
        /\ input[p].crc = Crc32c(input[p].is)
    BY <2>1, AcceptedRecord DEF HeadHere, Says
  <2>3. input[p] = HeadCell(r)
    BY <1>4, <1>5, <2>1, <2>2, AcceptedHeadIsOriginal
  <2> QED
    BY <2>1, <2>3 DEF Says, HeadHere, HeadCell
<1>7. /\ Says.type = r.type /\ Says.trailer = r.trailer /\ Says.seq = r.seq
      /\ Says.fields = r.fields /\ Says.size = Len(r.payload)
      /\ Says.excess = 0
      /\ ~r.trailer => Says.pcrc = Crc32c(r.payload)
  BY <1>6 DEF HeaderContent
<1>8. PayloadHere = r.payload
  <2>1. CASE ~r.trailer
    <3>1. Crc32c(PayloadHere) = Crc32c(r.payload)
      BY <1>7, <2>1, AcceptedRecord DEF PayloadIntact
    <3> QED
      BY <3>1 DEF Crc32c
  <2>2. CASE r.trailer
    <3>1. PICK q \in Nat : q = offset + 2 + Len(r.payload)
      <4>1. PICK n \in Nat : n = Len(r.payload)
        BY <1>4, LenProperties
      <4>2. PICK o \in Nat : o = offset
        BY <1>4
      <4>3. o + 2 + n \in Nat
        OBVIOUS
      <4> QED
        BY <4>1, <4>2, <4>3
    <3>2. /\ input[q].cell = "tail"
          /\ input[q].crc = Crc32c(PayloadHere)
      BY <1>7, <2>2, <3>1, AcceptedRecord DEF PayloadIntact, TrailerHere
    <3>3. data[q] = TailCell(r)
      BY <1>5, <2>2, <3>1
    <3>4. Carried(input[q], data[q])
      <4>1. q \in 1 .. Len(input)
        <5>1. PICK n \in Nat : n = Len(r.payload) /\ n = Says.size
          BY <1>4, <1>7, LenProperties
        <5>2. TotalSize(Says.size, Says.trailer) = n + 2
          BY <1>7, <2>2, <5>1, TotalSizes, Zenon
        <5>3. q \in offset + 2 .. offset + (n + 2)
          BY <1>4, <3>1, <5>1
        <5> QED
          BY <5>2, <5>3, AcceptedRecord
      <4> QED
        BY <1>4, <4>1 DEF ComesFromBuffer
    <3>5. /\ TailCell(r).cell = "tail" /\ TailCell(r).crc = Crc32c(r.payload)
          /\ Junk.cell = "junk"
      BY DEF TailCell, Junk
    <3>6. input[q].crc = Crc32c(r.payload)
      BY <3>2, <3>3, <3>4, <3>5 DEF Carried
    <3> QED
      BY <3>2, <3>6 DEF Crc32c
  <2> QED
    BY <2>1, <2>2
<1>9. RecordHere = r
  <2>1. RecordHere =
          [type |-> r.type, trailer |-> r.trailer, seq |-> r.seq,
           offset |-> r.offset, fields |-> r.fields, payload |-> r.payload]
    BY <1>4, <1>7, <1>8 DEF RecordHere
  <2> QED
    BY <2>1 DEF Records
<1>10. offset + Total = EndOf(r)
  <2>1. PICK total \in Nat : total = TotalSize(Len(r.payload), r.trailer)
    BY StoredType
  <2> QED
    BY <1>4, <1>7, <2>1 DEF Total, EndOf
<1> QED
  BY <1>2, <1>3, <1>9, <1>10

-----------------------------------------------------------------------------
(* The steps of the pair. *)

(***************************************************************************)
(* Nothing the encoder does takes back what was delivered.                 *)
(***************************************************************************)
LEMMA CallKeepsPair ==
  ASSUME PairInv, EncoderCall, UNCHANGED decoderVars
  PROVE  PairInv' /\ HistoryKept
<1>1. /\ BufferInv' /\ HistoryKept
  BY CallKeepsHistory DEF PairInv
<1>2. /\ input' = input /\ offset' = offset /\ document' = document
      /\ documentStatus' = documentStatus
  BY DEF decoderVars
<1>3. ComesFromBuffer(input)'
  BY <1>1, <1>2, HistoryKeepsCarried DEF PairInv
<1>4. DeliveredIsPrefix'
  <2>1. /\ document \in Seq(Records) /\ written \in Seq(Records)
        /\ DeliveredIsPrefix
    BY DEF PairInv, BufferInv, EncoderInv, EncoderTypeOK
  <2>2. PICK n \in Nat, d \in Nat : n = Len(written) /\ d = Len(document)
    BY <2>1, LenProperties
  <2>3. /\ d <= n /\ Len(written') \in {n, n + 1}
        /\ \A i \in 1 .. d : document[i] = written[i]
        /\ \A i \in 1 .. n : written'[i] = written[i]
    BY <1>1, <2>1, <2>2 DEF DeliveredIsPrefix, HistoryKept
  <2> QED
    BY <1>2, <2>2, <2>3 DEF DeliveredIsPrefix
<1>5. Chained'
  BY <1>2 DEF PairInv, Chained, CursorAfter
<1> QED
  BY <1>1, <1>2, <1>3, <1>4, <1>5 DEF PairInv

LEMMA BufferUnchanged ==
  ASSUME BufferInv, UNCHANGED encoderVars
  PROVE  BufferInv'
<1>1. EncoderInv'
  <2>1. /\ EncoderTypeOK' /\ CapacityHolds'
        /\ \A i \in 1 .. Len(written') : FieldsFit(written'[i])
    BY DEF encoderVars, BufferInv, EncoderInv, EncoderTypeOK, CapacityHolds
  <2>2. RecordsInPlace' /\ TornIsRecorded'
    BY DEF encoderVars, BufferInv, EncoderInv, RecordsInPlace,
           TornIsRecorded, Contiguous
  <2>3. CountersAgree' /\ CountsAreTrue'
    BY DEF encoderVars, BufferInv, EncoderInv, CountersAgree, CountsAreTrue,
           DatasAmong
  <2> QED
    BY <2>1, <2>2, <2>3 DEF EncoderInv
<1>2. RecordsFollow' /\ (data' # <<>> => data'[1] = FileHeader)
  BY DEF encoderVars, BufferInv, RecordsFollow
<1>3. HeadsAccounted'
  BY DEF encoderVars, BufferInv, HeadsAccounted, HeadAt, WrittenAt, TornAt,
         ClaimedEnd
<1> QED
  BY <1>1, <1>2, <1>3 DEF BufferInv

(***************************************************************************)
(* A step of the decoder delivers the next written record or none.         *)
(***************************************************************************)
LEMMA DeliverKeepsPair ==
  ASSUME PairInv, DeliverRecord, UNCHANGED encoderVars
  PROVE  /\ PairInv'
         /\ Len(document) < Len(written)
         /\ document' = Append(document, written[Len(document) + 1])
<1>1. /\ document \in Seq(Records) /\ written \in Seq(Records)
      /\ DeliveredIsPrefix /\ Chained /\ ComesFromBuffer(input)
      /\ offset \in Nat
  BY DEF PairInv, BufferInv, EncoderInv, EncoderTypeOK
<1>2. PICK n \in Nat, d \in Nat : n = Len(written) /\ d = Len(document)
  BY <1>1, LenProperties
<1>3. PICK r \in Records :
        /\ r = RecordHere /\ d + 1 \in 1 .. n
        /\ r = written[d + 1] /\ offset + Total = EndOf(r)
        /\ r.offset = offset
  <2>1. RecordHere.offset = offset
    BY DEF RecordHere
  <2> QED
    BY <1>2, <2>1, DeliversNext
<1>4. /\ document' = Append(document, r) /\ offset' = EndOf(r)
      /\ input' = input /\ documentStatus' = "scanning"
      /\ documentStatus = "scanning"
  BY <1>3 DEF DeliverRecord
<1>5. /\ written' = written /\ data' = data
  BY DEF encoderVars
<1>6. /\ document' \in Seq(Records) /\ Len(document') = d + 1
      /\ \A i \in 1 .. d : document'[i] = document[i]
      /\ document'[d + 1] = r
  BY <1>1, <1>2, <1>4, AppendProperties
<1>7. DeliveredIsPrefix'
  <2>1. /\ d <= n
        /\ \A i \in 1 .. d : document[i] = written[i]
    BY <1>1, <1>2 DEF DeliveredIsPrefix
  <2>2. ASSUME NEW i \in 1 .. d + 1 PROVE document'[i] = written[i]
    <3>1. CASE i \in 1 .. d
      BY <1>6, <2>1, <3>1
    <3>2. CASE i = d + 1
      BY <1>3, <1>6, <3>2
    <3> QED
      BY <3>1, <3>2
  <2> QED
    BY <1>2, <1>3, <1>5, <1>6, <2>2 DEF DeliveredIsPrefix
<1>8. Chained'
  <2>1. \A i \in 1 .. d : document[i].offset = CursorAfter(i - 1)
    BY <1>1, <1>2 DEF Chained
  <2>2. ASSUME NEW i \in 0 .. d
        PROVE  CursorAfter(i)' = CursorAfter(i)
    <3>1. CASE i = 0
      BY <3>1 DEF CursorAfter
    <3>2. CASE i \in 1 .. d
      <4>1. document'[i] = document[i]
        BY <1>6, <3>2
      <4> QED
        BY <3>2, <4>1 DEF CursorAfter
    <3> QED
      BY <3>1, <3>2
  <2>3. offset = CursorAfter(d)
    BY <1>1, <1>2, <1>4 DEF Chained
  <2>4. ASSUME NEW i \in 1 .. d + 1
        PROVE  document'[i].offset = CursorAfter(i - 1)'
    <3>1. CASE i \in 1 .. d
      <4>1. i - 1 \in 0 .. d /\ document'[i] = document[i]
        BY <1>6, <3>1
      <4> QED
        BY <2>1, <2>2, <3>1, <4>1
    <3>2. CASE i = d + 1
      <4>1. i - 1 = d /\ d \in 0 .. d
        BY <3>2
      <4> QED
        BY <1>3, <1>6, <2>2, <2>3, <3>2, <4>1
    <3> QED
      BY <3>1, <3>2
  <2>5. offset' = CursorAfter(d + 1)'
    BY <1>4, <1>6 DEF CursorAfter
  <2>6. offset' <= Len(input')
    BY <1>3, <1>4, AcceptedRecord
  <2> QED
    BY <1>6, <2>4, <2>5, <2>6 DEF Chained
<1>9. offset' \in Nat
  <2>1. Total \in Nat
    BY AcceptedRecord
  <2> QED
    BY <1>1, <1>3, <1>4, <2>1
<1>10. BufferInv'
  BY BufferUnchanged DEF PairInv
<1>11. ComesFromBuffer(input)'
  BY <1>1, <1>4, <1>5 DEF ComesFromBuffer
<1>12. PairInv'
  BY <1>6, <1>7, <1>8, <1>9, <1>10, <1>11 DEF PairInv
<1> QED
  BY <1>2, <1>3, <1>4, <1>12

(***************************************************************************)
(* The other steps leave the document and the cursor alone.                *)
(***************************************************************************)
LEMMA StandStillKeepsPair ==
  ASSUME PairInv, UNCHANGED <<encoderVars, input, offset, document>>,
         documentStatus' \in {"scanning", "OK"}
           => documentStatus \in {"scanning", "OK"}
  PROVE  PairInv'
<1>1. /\ input' = input /\ offset' = offset /\ document' = document
      /\ data' = data /\ written' = written
  BY DEF encoderVars
<1>2. BufferInv'
  BY BufferUnchanged DEF PairInv
<1>3. ComesFromBuffer(input)' /\ DeliveredIsPrefix'
  BY <1>1 DEF PairInv, ComesFromBuffer, DeliveredIsPrefix
<1>4. Chained'
  BY <1>1 DEF PairInv, Chained, CursorAfter
<1> QED
  BY <1>1, <1>2, <1>3, <1>4 DEF PairInv

LEMMA DecodeKeepsPair ==
  ASSUME PairInv, DecodeStep, UNCHANGED encoderVars
  PROVE  /\ PairInv'
         /\ \/ document' = document
            \/ /\ Len(document) < Len(written)
               /\ document' = Append(document, written[Len(document) + 1])
<1>1. CASE DeliverRecord
  BY <1>1, DeliverKeepsPair
<1>2. CASE \/ StopAtEnd \/ RejectRecord \/ DecodeOutOfMemory
           \/ FixedBytesOutOfMemory
  <2>1. /\ documentStatus = "scanning"
        /\ UNCHANGED <<input, offset, document>>
    BY <1>2 DEF StopAtEnd, RejectRecord, DecodeOutOfMemory,
                FixedBytesOutOfMemory
  <2> QED
    BY <2>1, StandStillKeepsPair
<1> QED
  BY <1>1, <1>2 DEF DecodeStep

(***************************************************************************)
(* A decoder that starts on carried bytes, or whose document is freed, has *)
(* delivered nothing.                                                      *)
(***************************************************************************)
LEMMA FreshKeepsPair ==
  ASSUME PairInv, UNCHANGED encoderVars, document' = <<>>,
         input' \in Seq(Cells), ComesFromBuffer(input'), offset' \in Nat,
         documentStatus' \in {"scanning", "OK"}
           => offset' = 1 /\ Len(input') >= 1
  PROVE  PairInv'
<1>1. data' = data /\ written' = written
  BY DEF encoderVars
<1>2. BufferInv'
  BY BufferUnchanged DEF PairInv
<1>3. ComesFromBuffer(input)'
  BY <1>1 DEF ComesFromBuffer
<1>4. document' \in Seq(Records) /\ Len(document') = 0
  OBVIOUS
<1>5. DeliveredIsPrefix'
  <2>1. Len(written) \in Nat
    BY LenProperties DEF PairInv, BufferInv, EncoderInv, EncoderTypeOK
  <2> QED
    BY <1>1, <1>4, <2>1 DEF DeliveredIsPrefix
<1>6. Chained'
  BY <1>4 DEF Chained, CursorAfter
<1> QED
  BY <1>2, <1>3, <1>4, <1>5, <1>6 DEF PairInv

LEMMA StartKeepsPair ==
  ASSUME PairInv, UNCHANGED encoderVars, NEW bytes, ComesFromBuffer(bytes),
         Start(bytes)
  PROVE  PairInv' /\ input' = bytes /\ document' = <<>>
<1>1. /\ input' = bytes /\ document' = <<>> /\ offset' \in {0, 1}
      /\ documentStatus' \in {"scanning", "FORMAT", "MEMORY"}
      /\ documentStatus' = "scanning" => offset' = 1 /\ bytes # <<>>
  BY DEF Start, HasFileHeader
<1>2. bytes \in Seq(Cells)
  BY DEF ComesFromBuffer
<1>3. bytes # <<>> => Len(bytes) >= 1
  BY <1>2, EmptySeq, LenProperties
<1> QED
  BY <1>1, <1>2, <1>3, FreshKeepsPair

LEMMA FreeKeepsPair ==
  ASSUME PairInv, UNCHANGED encoderVars, FreeDocument
  PROVE  PairInv' /\ document' = <<>>
<1>1. /\ input' = <<>> /\ document' = <<>> /\ offset' = 0
      /\ documentStatus' = "idle"
  BY DEF FreeDocument
<1>2. input' \in Seq(Cells) /\ ComesFromBuffer(input')
  <2>1. data \in Seq(Cells)
    BY DEF PairInv, BufferInv, EncoderInv, EncoderTypeOK
  <2>2. Len(<<>>) = 0 /\ <<>> \in Seq(Cells) /\ Len(data) >= 0
    BY <2>1, LenProperties
  <2> QED
    BY <1>1, <2>2 DEF ComesFromBuffer
<1> QED
  BY <1>1, <1>2, FreshKeepsPair

LEMMA PairBegins ==
  ASSUME ZeroEncoder, NoDocument
  PROVE  PairInv
<1>1. EncoderInv
  BY EmptyHistory, FirstCapacity DEF ZeroEncoder, EncoderStatuses
<1>2. BufferInv /\ data = <<>> /\ written = <<>>
  BY <1>1, NothingToRead DEF ZeroEncoder
<1>3. /\ input = <<>> /\ document = <<>> /\ offset = 0
      /\ documentStatus = "idle"
  BY DEF NoDocument
<1> QED
  BY <1>2, <1>3 DEF PairInv, ComesFromBuffer, DeliveredIsPrefix, Chained
-----------------------------------------------------------------------------
(* What a scan that has come to the end has delivered. *)

(***************************************************************************)
(* The records that lie whole in the first cells do not change when the    *)
(* encoder goes on behind them.                                            *)
(***************************************************************************)
LEMMA HeldWholeStays ==
  ASSUME PairInv, EncoderCall, UNCHANGED decoderVars,
         NEW n \in Nat, n <= Len(data)
  PROVE  HeldWhole(n)' = HeldWhole(n)
<1>1. PairInv' /\ HistoryKept
  BY CallKeepsPair
<1>2. /\ written \in Seq(Records) /\ data \in Seq(Cells)
  BY DEF PairInv, BufferInv, EncoderInv, EncoderTypeOK
<1>3. PICK m \in Nat : m = Len(written)
  BY <1>2, LenProperties
<1>4. /\ Len(written') \in {m, m + 1}
      /\ \A i \in 1 .. m : written'[i] = written[i]
      /\ \A i \in m + 1 .. Len(written') : written'[i].offset = Len(data)
  BY <1>1, <1>3 DEF HistoryKept
<1>5. ASSUME NEW i \in HeldWhole(n)'
      PROVE  i \in 1 .. m
  <2>1. /\ i \in 1 .. Len(written')
        /\ EndOf(written'[i]) <= n
    BY <1>5 DEF HeldWhole
  <2>2. CASE i \in 1 .. m
    BY <2>2
  <2>3. CASE i = m + 1
    <3>1. written'[i].offset = Len(data)
      BY <1>4, <2>1, <2>3
    <3>2. PICK r \in Records : r = written'[i]
      <4>1. written' \in Seq(Records)
        BY <1>1 DEF PairInv, BufferInv, EncoderInv, EncoderTypeOK
      <4> QED
        BY <2>1, <4>1, ElementOfSeq
    <3>3. PICK total \in Nat \ {0} :
            total = TotalSize(Len(r.payload), r.trailer)
      BY StoredType
    <3>4. EndOf(r) = Len(data) + total /\ Len(data) \in Nat
      BY <1>2, <3>1, <3>2, <3>3, LenProperties DEF EndOf
    <3> QED
      BY <2>1, <3>2, <3>4
  <2> QED
    BY <1>4, <2>1, <2>2, <2>3
<1>6. ASSUME NEW i \in 1 .. m
      PROVE  i \in HeldWhole(n)' <=> i \in HeldWhole(n)
  <2>1. /\ written'[i] = written[i] /\ written'[1] = written[1]
        /\ i \in 1 .. Len(written')
    BY <1>4
  <2>2. \A j \in 1 .. i - 1 : /\ written'[j] = written[j]
                              /\ written'[j + 1] = written[j + 1]
    BY <1>4
  <2> QED
    BY <1>3, <2>1, <2>2 DEF HeldWhole
<1>7. HeldWhole(n) \subseteq 1 .. m
  BY <1>3 DEF HeldWhole
<1> QED
  BY <1>5, <1>6, <1>7

(***************************************************************************)
(* sdaf_decode that returns SDAF_OK for bytes nothing was done to has      *)
(* delivered exactly the records that lie whole in them: had the next one  *)
(* been there, its header would be at the cursor, and the scan would not   *)
(* have been over.                                                         *)
(***************************************************************************)
LEMMA EndHoldsAll ==
  ASSUME PairInv, StopAtEnd,
         \A p \in 1 .. Len(input) : input[p] = data[p]
  PROVE  HeldWhole(Len(input)) = 1 .. Len(document)
<1>1. /\ BufferInv /\ DeliveredIsPrefix /\ Chained /\ RecordsFollow
      /\ written \in Seq(Records) /\ document \in Seq(Records)
      /\ input \in Seq(Cells) /\ offset \in Nat
      /\ documentStatus = "scanning" /\ InputExhausted
  BY DEF PairInv, BufferInv, EncoderInv, EncoderTypeOK, ComesFromBuffer,
         StopAtEnd
<1>2. PICK m \in Nat, d \in Nat, n \in Nat :
        m = Len(written) /\ d = Len(document) /\ n = Len(input)
  BY <1>1, LenProperties
<1>3. /\ d <= m
      /\ \A i \in 1 .. d : document[i] = written[i]
      /\ \A i \in 1 .. d : document[i].offset = CursorAfter(i - 1)
      /\ offset = CursorAfter(d) /\ offset <= n
  BY <1>1, <1>2 DEF DeliveredIsPrefix, Chained
<1>4. \A k \in 1 .. m : /\ written[k].offset \in Nat /\ EndOf(written[k]) \in Nat
                        /\ EndOf(written[k]) > written[k].offset
  <2> TAKE k \in 1 .. m
  <2>1. /\ written[k].offset \in Nat \ {0}
        /\ EndOf(written[k]) \in written[k].offset + 1 .. Len(data)
    BY <1>1, <1>2, WrittenCells
  <2> QED
    BY <2>1
<1>5. \A j, k \in 1 .. m : j < k => EndOf(written[j]) <= written[k].offset
  BY <1>1, <1>2 DEF RecordsFollow
<1>6. ASSUME NEW j \in 1 .. d - 1
      PROVE  EndOf(written[j]) = written[j + 1].offset
  <2>1. /\ j \in 1 .. d /\ j + 1 \in 1 .. d /\ (j + 1) - 1 = j /\ j # 0
    BY <1>2
  <2>2. document[j + 1].offset = CursorAfter(j)
    BY <1>3, <2>1
  <2>3. CursorAfter(j) = EndOf(document[j])
    BY <2>1 DEF CursorAfter
  <2> QED
    BY <1>3, <2>1, <2>2, <2>3
<1>7. d >= 1 => written[1].offset = 1 /\ offset = EndOf(written[d])
  <2> SUFFICES ASSUME d >= 1
               PROVE  written[1].offset = 1 /\ offset = EndOf(written[d])
    OBVIOUS
  <2>1. 1 \in 1 .. d /\ d \in 1 .. d /\ 1 - 1 = 0 /\ d # 0
    BY <1>2
  <2>2. CursorAfter(0) = 1 /\ CursorAfter(d) = EndOf(document[d])
    BY <2>1 DEF CursorAfter
  <2>3. document[1].offset = 1
    BY <1>3, <2>1, <2>2
  <2> QED
    BY <1>3, <2>1, <2>2, <2>3
<1>8. ASSUME NEW i \in 1 .. d
      PROVE  i \in HeldWhole(n)
  <2>1. i \in 1 .. m /\ d \in 1 .. m /\ d >= 1
    BY <1>2, <1>3
  <2>2. EndOf(written[i]) <= n
    <3>1. EndOf(written[i]) <= EndOf(written[d])
      BY <1>4, <1>5, <2>1
    <3> QED
      BY <1>1, <1>3, <1>4, <1>7, <2>1, <3>1
  <2>3. \A j \in 1 .. i - 1 : EndOf(written[j]) = written[j + 1].offset
    BY <1>6, <2>1
  <2> QED
    BY <1>2, <1>7, <2>1, <2>2, <2>3 DEF HeldWhole
<1>9. ASSUME NEW i \in HeldWhole(n), i > d
      PROVE  FALSE
  <2>1. /\ i \in 1 .. m
        /\ EndOf(written[i]) <= n
        /\ written[1].offset = 1
        /\ \A j \in 1 .. i - 1 : EndOf(written[j]) = written[j + 1].offset
    BY <1>2, <1>9 DEF HeldWhole
  <2>2. PICK r \in Records : r = written[d + 1] /\ d + 1 \in 1 .. m
    <3>1. d + 1 \in 1 .. m
      BY <1>2, <1>9, <2>1
    <3> QED
      BY <1>1, <1>2, <3>1, ElementOfSeq
  <2>3. r.offset = offset
    <3>1. CASE d = 0
      <4>1. offset = 1
        BY <1>3, <3>1 DEF CursorAfter
      <4> QED
        BY <2>1, <2>2, <3>1, <4>1
    <3>2. CASE d >= 1
      <4>1. d \in 1 .. i - 1
        BY <1>2, <1>9, <2>1, <3>2
      <4> QED
        BY <1>7, <2>1, <2>2, <3>2, <4>1
    <3> QED
      BY <1>2, <3>1, <3>2
  <2>4. EndOf(r) <= n
    <3>1. EndOf(r) <= EndOf(written[i])
      <4>1. CASE i = d + 1
        BY <1>4, <2>1, <2>2, <4>1
      <4>2. CASE i > d + 1
        <5>1. EndOf(r) <= written[i].offset
          BY <1>5, <2>1, <2>2, <4>2
        <5> QED
          BY <1>4, <2>1, <2>2, <5>1
      <4> QED
        BY <1>2, <1>9, <2>1, <4>1, <4>2
    <3> QED
      BY <1>2, <1>4, <2>1, <2>2, <3>1
  <2>5. PICK total \in Nat :
          /\ total = TotalSize(Len(r.payload), r.trailer)
          /\ total >= 1
    <3>1. /\ TotalSize(Len(r.payload), r.trailer) \in Nat \ {0}
      BY StoredType
    <3> QED
      BY <3>1
  <2>6. offset + total <= n
    BY <2>3, <2>4, <2>5 DEF EndOf
  <2>7. input[offset + 1] = HeadCell(r)
    <3>1. data[offset + 1] = HeadCell(r)
      BY <1>1, <1>2, <2>2, <2>3, WrittenCells
    <3>2. offset + 1 \in 1 .. n
      BY <1>1, <2>5, <2>6
    <3> QED
      BY <1>2, <3>1, <3>2
  <2>8. Total = total
    BY <2>5, <2>7 DEF Total, Says, HeadHere, HeadCell, HeaderContent
  <2>9. Available = n - offset
    BY <1>2 DEF Available
  <2> QED
    BY <1>1, <2>5, <2>6, <2>8, <2>9 DEF InputExhausted
<1>10. HeldWhole(n) \subseteq 1 .. m
  BY <1>2 DEF HeldWhole
<1>11. ASSUME NEW i
       PROVE  i \in HeldWhole(n) <=> i \in 1 .. d
  BY <1>2, <1>8, <1>9, <1>10
<1> QED
  BY <1>2, <1>11

-----------------------------------------------------------------------------
(* The record log. *)

(***************************************************************************)
(* Every step of the pair is a step of the record log: a record is written *)
(* or taken, the reader starts over, or the log does not move.             *)
(***************************************************************************)
LEMMA CallImplementsLog ==
  ASSUME PairInv, EncoderCall, UNCHANGED decoderVars
  PROVE  [Log!LogNext]_(Log!logVars)
<1>1. HistoryKept /\ document' = document
  BY CallKeepsPair DEF decoderVars
<1>2. CASE Len(written') = Len(written)
  <2>1. written' = written
    BY <1>1, <1>2 DEF HistoryKept
  <2> QED
    BY <1>1, <2>1 DEF Log!logVars
<1>3. CASE Len(written') = Len(written) + 1
  <2>1. Log!Write
    BY <1>1, <1>3 DEF HistoryKept, Log!Write
  <2> QED
    BY <2>1 DEF Log!LogNext
<1> QED
  BY <1>1, <1>2, <1>3 DEF HistoryKept

LEMMA DecodeImplementsLog ==
  ASSUME PairInv, DecodeStep, UNCHANGED encoderVars
  PROVE  [Log!LogNext]_(Log!logVars)
<1>1. written' = written
  BY DEF encoderVars
<1>2. \/ document' = document
      \/ /\ Len(document) < Len(written)
         /\ document' = Append(document, written[Len(document) + 1])
  BY DecodeKeepsPair
<1> QED
  BY <1>1, <1>2 DEF Log!LogNext, Log!Take, Log!logVars

LEMMA FreshImplementsLog ==
  ASSUME UNCHANGED encoderVars, document' = <<>>
  PROVE  [Log!LogNext]_(Log!logVars)
BY DEF encoderVars, Log!LogNext, Log!Restart, Log!logVars
-----------------------------------------------------------------------------
(* What the parser knows of a delivered record. *)

(***************************************************************************)
(* The delivered record is a written one, with the fields and the payload  *)
(* of its type, and parse_known_record accepted it.                        *)
(***************************************************************************)
LEMMA DeliveredParsed ==
  ASSUME PairInv, DeliverRecord
  PROVE  \E r \in Records :
           /\ FieldsFit(r)
           /\ ParseRecord(r.type, r.fields, r.payload) = "OK"
           /\ document' = Append(document, r)
           /\ opaque' = IF KeptOpaque(r.type, r.fields)
                        THEN opaque \cup {Len(document) + 1} ELSE opaque
<1>1. PICK r \in Records :
        /\ r = RecordHere
        /\ Len(document) + 1 \in 1 .. Len(written)
        /\ r = written[Len(document) + 1]
  BY DeliversNext
<1>2. FieldsFit(r)
  BY <1>1 DEF PairInv, BufferInv, EncoderInv
<1>3. /\ r.type = Says.type /\ r.fields = Says.fields
      /\ r.payload = PayloadHere
  BY <1>1 DEF RecordHere
<1>4. ParseRecord(r.type, r.fields, r.payload) = "OK"
  <2>1. Verdict = "OK"
    BY DEF DeliverRecord
  <2> QED
    BY <1>3, <2>1, AcceptedVerdict
<1> QED
  BY <1>1, <1>2, <1>3, <1>4 DEF DeliverRecord

LEMMA DocumentRecords ==
  ASSUME PairInv, NEW i \in 1 .. Len(document)
  PROVE  document[i] \in Records /\ FieldsFit(document[i])
<1>1. /\ document \in Seq(Records) /\ written \in Seq(Records)
      /\ DeliveredIsPrefix
      /\ \A k \in 1 .. Len(written) : FieldsFit(written[k])
  BY DEF PairInv, BufferInv, EncoderInv, EncoderTypeOK
<1>2. i \in 1 .. Len(written) /\ document[i] = written[i]
  BY <1>1, LenProperties DEF DeliveredIsPrefix
<1> QED
  BY <1>1, <1>2, ElementOfSeq

(***************************************************************************)
(* sdaf_find_schema and last_blob_index find something where there is      *)
(* something to be found.                                                  *)
(***************************************************************************)
LEMMA FoundSchema ==
  ASSUME document \in Seq(Records), NEW id, NEW rev, SchemaSeen(id, rev)
  PROVE  \E i \in SchemaAt(id, rev) :
           LayoutFor(id, rev) = document[i].payload[1].layout
<1>1. Len(document) \in Nat
  BY LenProperties
<1>2. SchemaAt(id, rev) \subseteq 1 .. Len(document)
  BY DEF SchemaAt
<1>3. \E i \in SchemaAt(id, rev) : \A j \in SchemaAt(id, rev) : j <= i
  BY <1>1, <1>2, LastExists DEF SchemaSeen
<1> QED
  BY <1>3 DEF LayoutFor

LEMMA FoundItem ==
  ASSUME document \in Seq(Records), NEW id, NEW stream,
         EarlierItems(id, stream) # {}
  PROVE  \E i \in EarlierItems(id, stream) :
           \A j \in EarlierItems(id, stream) : j <= i
<1>1. Len(document) \in Nat
  BY LenProperties
<1>2. EarlierItems(id, stream) \subseteq 1 .. Len(document)
  BY DEF EarlierItems
<1> QED
  BY <1>1, <1>2, LastExists
-----------------------------------------------------------------------------
(* A record that keeps the rules is never called malformed.                *)

(***************************************************************************)
(* parse_known_record finds in the document all that a lawful record       *)
(* refers to: such a record is accepted, or over a limit.                  *)
(***************************************************************************)
LEMMA LawfulParses ==
  ASSUME PairInv, NEW r \in Records, FieldsFit(r),
         Lawful(document, Len(document), r),
         SoundSamples(document, Len(document), r)
  PROVE  ParseRecord(r.type, r.fields, r.payload) # "FORMAT"
<1> DEFINE f == r.fields
<1>1. document \in Seq(Records) /\ Len(document) \in Nat
  BY LenProperties DEF PairInv
<1>2. SchemaAt(f.id, f.rev)
        = SchemasBefore(document, Len(document), f.id, f.rev)
  BY DEF SchemaAt, SchemasBefore
<1>3. ASSUME SchemaSeen(f.id, f.rev)
      PROVE  \E i \in SchemasBefore(document, Len(document), f.id, f.rev) :
               LayoutFor(f.id, f.rev) = LayoutOf(document[i])
  BY <1>1, <1>2, <1>3, FoundSchema DEF LayoutOf
<1>4. CASE r.type = "SCMA"
  <2>1. /\ f.id # 0 /\ f.rev # 0
        /\ Len(r.payload) = 1 /\ r.payload[1].cell = "layout"
        /\ r.payload[1].layout \in ValidLayouts
    <3>1. /\ f.id # 0 /\ f.rev # 0
          /\ \E l \in ValidLayouts :
               r.payload = <<[cell |-> "layout", layout |-> l]>>
      BY <1>4 DEF FieldsFit
    <3>2. PICK l \in ValidLayouts :
            r.payload = <<[cell |-> "layout", layout |-> l]>>
      BY <3>1
    <3> QED
      BY <3>1, <3>2
  <2>2. SchemaSeen(f.id, f.rev) => LayoutFor(f.id, f.rev) = r.payload[1].layout
    BY <1>3, <1>4 DEF Lawful, LawfulSchema, LayoutOf
  <2>3. ParseSchema(f, r.payload) = "OK"
    BY <2>1, <2>2 DEF ParseSchema
  <2> QED
    BY <1>4, <2>3 DEF ParseRecord
<1>5. CASE r.type = "DATA"
  <2>1. /\ f.id # 0 /\ f.rev # 0 /\ f.stream # 0
        /\ TimesAgree(f.mode, f.stamps, f.count)
        /\ DecodedSize(f.profile, r.payload) = f.decoded
    BY <1>5 DEF Lawful, LawfulData
  <2>2. SchemaSeen(f.id, f.rev) => DataMatchesSchema(f)
    BY <1>3, <1>5 DEF Lawful, LawfulData, DataMatchesSchema
  <2>3. /\ ~IndexesWrap(f)
        /\ SchemaSeen(f.id, f.rev)
             => SamplesInOrder(LayoutFor(f.id, f.rev), f, r.payload)
    BY <1>3, <1>5 DEF SoundSamples
  <2>4. ParseData(f, r.payload) # "FORMAT"
    BY <2>1, <2>2, <2>3 DEF ParseData
  <2> QED
    BY <1>5, <2>4 DEF ParseRecord
<1>6. CASE r.type = "TEXT"
  <2>1. \/ f.id = 0 /\ f.rev = 0 /\ f.stream = 0
        \/ f.id # 0 /\ f.rev # 0 /\ f.stream # 0
    BY <1>6 DEF Lawful, LawfulText
  <2>2. f.id # 0 /\ SchemaSeen(f.id, f.rev)
          => KindOf(LayoutFor(f.id, f.rev), f.stream) = "text"
    BY <1>3, <1>6 DEF Lawful, LawfulText
  <2>3. ParseText(f, r.payload) # "FORMAT"
    BY <2>1, <2>2 DEF ParseText
  <2> QED
    BY <1>6, <2>3 DEF ParseRecord
<1>7. CASE r.type = "BLOB"
  <2>1. /\ f.profile \in {"none", "zstd"}
        /\ SchemasBefore(document, Len(document), f.id, f.rev) # {}
        /\ \A i \in SchemasBefore(document, Len(document), f.id, f.rev) :
             KindOf(LayoutOf(document[i]), f.stream) = "blob"
        /\ \A i \in ItemsBefore(document, Len(document), f.id, f.stream) :
             document[i].fields.first < f.first
        /\ DecodedSize(f.profile, r.payload) = f.decoded
    BY <1>7 DEF Lawful, LawfulItem
  <2>2. PICK i \in SchemasBefore(document, Len(document), f.id, f.rev) : TRUE
    BY <2>1
  <2>3. f.id # 0 /\ f.rev # 0
    <3>1. /\ i \in 1 .. Len(document) /\ document[i].type = "SCMA"
          /\ document[i].fields.id = f.id /\ document[i].fields.rev = f.rev
      BY <2>2 DEF SchemasBefore
    <3> QED
      BY <3>1, DocumentRecords DEF FieldsFit
  <2>4. f.stream # 0
    <3>1. f.stream \in StreamIds
      BY <2>1, <2>2 DEF KindOf
    <3> QED
      BY <3>1, SchemaAssumption
  <2>5. ItemIndexGrows(f)
    <3>1. EarlierItems(f.id, f.stream)
            = ItemsBefore(document, Len(document), f.id, f.stream)
      BY DEF EarlierItems, ItemsBefore
    <3> QED
      BY <2>1, <3>1 DEF ItemIndexGrows
  <2>6. SchemaSeen(f.id, f.rev)
          => KindOf(LayoutFor(f.id, f.rev), f.stream) = "blob"
    BY <1>3, <2>1
  <2>7. ParseBlob(f, r.payload) # "FORMAT"
    BY <2>1, <2>3, <2>4, <2>5, <2>6 DEF ParseBlob
  <2> QED
    BY <1>7, <2>7 DEF ParseRecord
<1>8. CASE r.type = "INDX"
  <2>1. ASSUME NEW e, TrueEntry(document, Len(document), e)
        PROVE  EntryMatches(e)
    <3>1. PICK i \in 1 .. Len(document) :
            /\ document[i].type \in {"DATA", "BLOB"}
            /\ e.offset = document[i].offset
            /\ e.seq = document[i].seq
            /\ e.stream = document[i].fields.stream
            /\ e.first = document[i].fields.first
            /\ e.count = IF document[i].type = "BLOB" THEN 1
                         ELSE document[i].fields.count
      BY <2>1 DEF TrueEntry
    <3>2. e.cell = "entry" /\ i \in RecordsAt(e.offset)
      BY <2>1, <3>1 DEF TrueEntry, RecordsAt
    <3> QED
      BY <3>1, <3>2 DEF EntryMatches
  <2>2. ParseIndex(r.payload) = "OK"
    BY <1>8, <2>1 DEF Lawful, ParseIndex
  <2> QED
    BY <1>8, <2>2 DEF ParseRecord
<1>9. CASE r.type = "END!"
  <2>1. /\ r.payload = <<>>
        /\ f.total = Len(document) + 1
        /\ f.datas = Cardinality({i \in 1 .. Len(document) :
                                    document[i].type = "DATA"})
        /\ \/ f.lastIndex = 0
           \/ \E i \in 1 .. Len(document) : /\ document[i].type = "INDX"
                                          /\ document[i].offset = f.lastIndex
    BY <1>9 DEF Lawful, LawfulEnd, DatasBefore
  <2>2. ParseEnd(f, r.payload) = "OK"
    BY <2>1 DEF ParseEnd, RecordsAt
  <2> QED
    BY <1>9, <2>2 DEF ParseRecord
<1>10. CASE r.type = "NOTE"
  BY <1>10 DEF ParseRecord
<1>11. CASE r.type = "PRIV"
  BY <1>11 DEF ParseRecord
<1>12. r.type \in RecordTypes
  BY DEF Records
<1> QED
  BY <1>4, <1>5, <1>6, <1>7, <1>8, <1>9, <1>10, <1>11, <1>12 DEF RecordTypes

(***************************************************************************)
(* What a verdict needs not to be SDAF_ERROR_FORMAT.                       *)
(***************************************************************************)
LEMMA NotMalformed ==
  ASSUME Marked, ValidEnvelope,
         WithinLimits =>
           /\ HeadHere.crc = Crc32c(Says)
           /\ PayloadIntact
           /\ ParseRecord(Says.type, Says.fields, PayloadHere) # "FORMAT"
  PROVE  Verdict # "FORMAT"
<1> DEFINE parsed == ParseRecord(Says.type, Says.fields, PayloadHere)
           judged == IF parsed = "OK" /\ Len(document) >= MaxRecords
                     THEN "LIMIT" ELSE parsed
<1>1. Verdict = IF ~Marked \/ ~ValidEnvelope THEN "FORMAT"
                ELSE IF ~WithinLimits THEN "LIMIT"
                ELSE IF HeadHere.crc # Crc32c(Says) THEN "FORMAT"
                ELSE IF ~PayloadIntact THEN "FORMAT"
                ELSE judged
  BY DEF Verdict
<1>2. "LIMIT" # "FORMAT"
  OBVIOUS
<1>3. parsed # "FORMAT" => judged # "FORMAT"
  BY <1>2
<1> HIDE DEF judged
<1>4. CASE ~WithinLimits
  BY <1>1, <1>2, <1>4, Zenon
<1>5. CASE WithinLimits
  <2>1. HeadHere.crc = Crc32c(Says) /\ PayloadIntact /\ judged # "FORMAT"
    BY <1>3, <1>5
  <2> QED
    BY <1>1, <1>5, <2>1, Zenon
<1> QED
  BY <1>4, <1>5

(***************************************************************************)
(* A written record whose cells arrive unchanged, as far as they arrive,   *)
(* is not called malformed: either the input ends inside it, or all of it  *)
(* is there and it follows in the document the records it followed when it *)
(* was written.                                                            *)
(***************************************************************************)
LEMMA IntactIsAccepted ==
  ASSUME PairInv, documentStatus = "scanning", ~InputExhausted,
         LawfulLog(written), SoundLog(written),
         Len(document) + 1 \in 1 .. Len(written),
         written[Len(document) + 1].offset = offset,
         \A p \in offset + 1 .. EndOf(written[Len(document) + 1]) :
           p <= Len(input) => input[p] = data[p]
  PROVE  Verdict # "FORMAT"
<1>1. /\ BufferInv /\ input \in Seq(Cells) /\ document \in Seq(Records)
      /\ offset \in Nat /\ offset <= Len(input) /\ DeliveredIsPrefix
  BY DEF PairInv, ComesFromBuffer, Chained
<1>2. PICK d \in Nat, o \in Nat, len \in Nat :
        d = Len(document) /\ o = offset /\ len = Len(input)
  BY <1>1, LenProperties
<1>3. PICK r \in Records : r = written[d + 1]
  BY <1>1, <1>2, WrittenCells
<1>4. PICK n \in Nat, end \in Nat : n = Len(r.payload) /\ end = EndOf(r)
  <2>1. Len(r.payload) \in Nat /\ EndOf(r) \in r.offset + 1 .. Len(data)
    BY <1>1, <1>2, <1>3, WrittenCells
  <2>2. r.offset \in Nat
    BY DEF Records
  <2> QED
    BY <2>1, <2>2
<1>5. /\ r.payload \in Seq(PayloadCells) /\ r.trailer \in BOOLEAN
      /\ r.offset = o
      /\ data[o + 1] = HeadCell(r)
      /\ \A k \in 1 .. n : data[o + 1 + k] = r.payload[k]
      /\ r.trailer => data[o + 2 + n] = TailCell(r)
  BY <1>1, <1>2, <1>3, <1>4, WrittenCells DEF Records
<1>6. PICK total \in Nat :
        /\ total = TotalSize(n, r.trailer)
        /\ end = o + total
        /\ r.trailer => total = n + 2
        /\ ~r.trailer => total = n + 1
  <2>1. PICK total \in Nat :
          /\ total = TotalSize(n, r.trailer)
          /\ r.trailer => total = n + 2
          /\ ~r.trailer => total = n + 1
    <3>1. /\ TotalSize(n, r.trailer) \in Nat
          /\ r.trailer => TotalSize(n, r.trailer) = n + 2
          /\ ~r.trailer => TotalSize(n, r.trailer) = n + 1
      BY <1>5, TotalSizes
    <3> QED
      BY <3>1
  <2> QED
    BY <1>4, <1>5, <2>1 DEF EndOf
<1>7. total = n + 1 \/ total = n + 2
  BY <1>6
<1>8. end >= o + n + 1
  BY <1>6, <1>7
<1>9. \A p \in o + 1 .. end : p <= len => input[p] = data[p]
  BY <1>2, <1>3, <1>4
<1>10. o < len /\ o + 1 \in o + 1 .. end
  <2>1. Available # 0 /\ Available = len - o
    BY <1>2 DEF InputExhausted, Available
  <2> QED
    BY <1>1, <1>2, <1>8, <2>1
<1>11. HeadHere = HeadCell(r)
  BY <1>2, <1>5, <1>9, <1>10 DEF HeadHere
<1>12. /\ Says = HeaderContent(r) /\ HeadHere.crc = Crc32c(Says)
       /\ HeadHere.cell = "head"
       /\ Says.type = r.type /\ Says.trailer = r.trailer /\ Says.seq = r.seq
       /\ Says.fields = r.fields /\ Says.size = n /\ Says.excess = 0
       /\ Says.pcrc = IF r.trailer THEN NoCrc ELSE Crc32c(r.payload)
  BY <1>4, <1>11 DEF Says, HeadCell, HeaderContent
<1>13. Marked /\ ValidEnvelope
  BY <1>2, <1>10, <1>12 DEF Marked, Available, HeadHere, ValidEnvelope
<1>14. ASSUME WithinLimits
       PROVE  /\ PayloadIntact
              /\ ParseRecord(Says.type, Says.fields, PayloadHere) # "FORMAT"
  <2>1. end <= len
    <3>2. ~(Total > Available)
      BY <1>13, <1>14 DEF InputExhausted
    <3>3. Total = total /\ Available = len - o
      BY <1>2, <1>6, <1>12 DEF Total, Available
    <3> QED
      BY <1>6, <3>2, <3>3
  <2>2. PayloadHere = r.payload
    <3> DEFINE body == SubSeq(input, o + 2, o + 1 + n)
    <3>1. \A q \in o + 2 .. o + 1 + n : input[q] \in Cells
      <4>1. \A q \in 1 .. len : input[q] \in Cells
        BY <1>1, <1>2, ElementOfSeq
      <4> QED
        BY <1>8, <2>1, <4>1
    <3>2. /\ body \in Seq(Cells)
          /\ Len(body) = IF o + 2 <= o + 1 + n
                         THEN (o + 1 + n) - (o + 2) + 1 ELSE 0
          /\ \A k \in 1 .. (o + 1 + n) - (o + 2) + 1 :
               body[k] = input[(o + 2) + k - 1]
      BY <3>1, SubSeqProperties
    <3>3. Len(body) = n
      BY <3>2
    <3>4. ASSUME NEW k \in 1 .. n
          PROVE  body[k] = r.payload[k]
      <4>1. /\ k \in 1 .. (o + 1 + n) - (o + 2) + 1
            /\ (o + 2) + k - 1 = o + 1 + k
        OBVIOUS
      <4>2. body[k] = input[o + 1 + k]
        BY <3>2, <4>1
      <4>3. o + 1 + k \in o + 1 .. end
        BY <1>8
      <4>4. o + 1 + k <= len
        BY <2>1, <4>3
      <4> QED
        BY <1>5, <1>9, <4>2, <4>3, <4>4
    <3> HIDE DEF body
    <3>5. r.payload \in Seq(Cells)
      <4>1. PayloadCells \subseteq Cells
        BY DEF Cells
      <4> QED
        BY <1>5, <4>1, SeqMonotonic
    <3>6. body \in Seq(Cells) /\ Len(body) = Len(r.payload)
          /\ \A k \in 1 .. Len(body) : body[k] = r.payload[k]
      BY <1>4, <3>2, <3>3, <3>4
    <3>7. body = r.payload
      BY <3>5, <3>6, SeqEqual
    <3> QED
      BY <1>2, <1>12, <3>7 DEF body, PayloadHere
  <2>3. PayloadIntact
    <3>1. CASE r.trailer
      <4>1. o + 2 + n \in o + 1 .. end /\ o + 2 + n <= len
        <5>1. total = n + 2
          BY <1>6, <3>1
        <5> QED
          BY <1>6, <2>1, <5>1
      <4>2. TrailerHere = TailCell(r)
        BY <1>2, <1>5, <1>9, <1>12, <3>1, <4>1 DEF TrailerHere
      <4> QED
        BY <1>12, <2>2, <3>1, <4>2 DEF PayloadIntact, TailCell
    <3>2. CASE ~r.trailer
      BY <1>12, <2>2, <3>2 DEF PayloadIntact
    <3> QED
      BY <3>1, <3>2
  <2>4. Lawful(document, d, r) /\ SoundSamples(document, d, r)
    <3>1. /\ Lawful(written, (d + 1) - 1, written[d + 1])
          /\ SoundSamples(written, (d + 1) - 1, written[d + 1])
      BY <1>2 DEF LawfulLog, SoundLog
    <3>2. (d + 1) - 1 = d
      OBVIOUS
    <3>3. \A i \in 1 .. d : written[i] = document[i]
      BY <1>1, <1>2 DEF DeliveredIsPrefix
    <3> QED
      BY <1>3, <3>1, <3>2, <3>3, OnlyBeforeMatters, OnlySchemasMatter
  <2>5. FieldsFit(r)
    BY <1>1, <1>2, <1>3 DEF BufferInv, EncoderInv
  <2>6. ParseRecord(r.type, r.fields, r.payload) # "FORMAT"
    BY <1>2, <2>4, <2>5, LawfulParses
  <2> QED
    BY <1>12, <2>2, <2>3, <2>6
<1> QED
  BY <1>12, <1>13, <1>14, NotMalformed

(***************************************************************************)
(* Neither is a torn record at the end of the buffer: no input fills the   *)
(* extent its header claims.                                               *)
(***************************************************************************)
LEMMA TornIsPassedOver ==
  ASSUME PairInv, documentStatus = "scanning", ~InputExhausted,
         offset = WrittenEnd, TornTail,
         offset + 1 <= Len(input) => input[offset + 1] = data[offset + 1]
  PROVE  Verdict # "FORMAT"
<1>1. /\ BufferInv /\ input \in Seq(Cells) /\ data \in Seq(Cells)
      /\ offset \in Nat /\ offset <= Len(input)
      /\ Len(input) <= Len(data) /\ HeadsAccounted
  BY DEF PairInv, BufferInv, EncoderInv, EncoderTypeOK, ComesFromBuffer,
         Chained
<1>2. PICK o \in Nat, len \in Nat, all \in Nat :
        o = offset /\ len = Len(input) /\ all = Len(data)
  BY <1>1, LenProperties
<1>3. PICK p \in Nat : p = o + 1
  OBVIOUS
<1>4. o < len /\ len <= all /\ p \in 1 .. all
  <2>1. Available # 0 /\ Available = len - o
    BY <1>2 DEF InputExhausted, Available
  <2> QED
    BY <1>1, <1>2, <1>3, <2>1
<1>5. /\ HeadAt(p) /\ ClaimedEnd(p) > all
      /\ data[p].is.trailer => data[p].is.pcrc = NoCrc
      /\ data[p].is.excess = 0
  BY <1>1, <1>2, <1>3, <1>4 DEF TornTail, HeadsAccounted
<1>6. HeadHere = data[p] /\ Says = data[p].is
  BY <1>2, <1>3, <1>4 DEF HeadHere, Says
<1>7. data[p].is \in Contents
  <2>1. data[p] \in HeadCells
    BY <1>1, <1>2, <1>4, <1>5, ElementOfSeq, CellKinds DEF HeadAt
  <2> QED
    BY <2>1 DEF HeadCells
<1>8. PICK size \in Nat, total \in Nat :
        /\ size = Says.size
        /\ total = TotalSize(Says.size, Says.trailer)
  <2>1. Says.size \in Nat /\ Says.trailer \in BOOLEAN
    BY <1>6, <1>7 DEF Contents
  <2> QED
    BY <2>1, TotalSizes
<1>9. Marked /\ ValidEnvelope
  BY <1>2, <1>4, <1>5, <1>6 DEF Marked, Available, HeadHere, ValidEnvelope,
                               HeadAt
<1>10. ~WithinLimits
  <2> SUFFICES ASSUME WithinLimits PROVE FALSE
    OBVIOUS
  <2>2. Total = total /\ Available = len - o
    BY <1>2, <1>5, <1>6, <1>8 DEF Total, Available
  <2>3. ClaimedEnd(p) = o + total
    BY <1>3, <1>6, <1>8 DEF ClaimedEnd
  <2>4. Total > Available
    BY <1>4, <1>5, <2>2, <2>3
  <2> QED
    BY <1>9, <2>4 DEF InputExhausted
<1> QED
  BY <1>9, <1>10, NotMalformed

(***************************************************************************)
(* Where no torn record stands between the written ones, the decoder is at *)
(* the next written record, or behind the last.                            *)
(***************************************************************************)
LEMMA CursorMeetsNext ==
  ASSUME PairInv, documentStatus = "scanning", Consecutive
  PROVE  \/ /\ Len(document) + 1 \in 1 .. Len(written)
            /\ Len(document) < Len(written)
            /\ written[Len(document) + 1].offset = offset
         \/ /\ Len(document) = Len(written)
            /\ offset = WrittenEnd
<1>1. /\ written \in Seq(Records) /\ document \in Seq(Records)
      /\ DeliveredIsPrefix /\ offset = CursorAfter(Len(document))
  BY DEF PairInv, BufferInv, EncoderInv, EncoderTypeOK, Chained
<1>2. PICK d \in Nat, m \in Nat : d = Len(document) /\ m = Len(written)
  BY <1>1, LenProperties
<1>3. d <= m /\ \A i \in 1 .. d : document[i] = written[i]
  BY <1>1, <1>2 DEF DeliveredIsPrefix
<1>4. offset = IF d = 0 THEN 1 ELSE EndOf(written[d])
  BY <1>1, <1>2, <1>3 DEF CursorAfter
<1>5. CASE d < m
  <2>1. d + 1 \in 1 .. m /\ (d + 1) - 1 = d /\ (d + 1 = 1 <=> d = 0)
    BY <1>5
  <2>2. written[d + 1].offset = IF d = 0 THEN 1 ELSE EndOf(written[d])
    BY <1>2, <2>1 DEF Consecutive
  <2> QED
    BY <1>2, <1>4, <1>5, <2>1, <2>2
<1>6. CASE d = m
  <2>1. written = <<>> <=> m = 0
    BY <1>1, <1>2, EmptySeq
  <2> QED
    BY <1>2, <1>4, <1>6, <2>1 DEF WrittenEnd
<1> QED
  BY <1>3, <1>5, <1>6

(***************************************************************************)
(* While the encoder rests, what it has promised its readers stays.        *)
(***************************************************************************)
LEMMA RestKeepsPromises ==
  ASSUME UNCHANGED encoderVars
  PROVE  /\ CarefulLog => CarefulLog'
         /\ CarefulSamples => CarefulSamples'
         /\ StoppedAtTear => StoppedAtTear'
<1>1. data' = data /\ written' = written
  BY DEF encoderVars
<1>2. /\ CarefulLog => CarefulLog'
      /\ CarefulSamples => CarefulSamples'
  BY <1>1 DEF CarefulLog, CarefulSamples
<1>3. Consecutive => Consecutive'
  BY <1>1 DEF Consecutive
<1>4. TornTail => TornTail'
  BY <1>1 DEF TornTail, HeadAt, ClaimedEnd, WrittenEnd
<1> QED
  BY <1>2, <1>3, <1>4 DEF StoppedAtTear

(***************************************************************************)
(* The record the decoder stopped at stays the one it stopped at.          *)
(***************************************************************************)
LEMMA WantedStays ==
  ASSUME UNCHANGED <<input, offset, document>>
  PROVE  FixedBytesWanted' <=> FixedBytesWanted
<1>1. input' = input /\ offset' = offset /\ document' = document
  OBVIOUS
<1>2. /\ Marked' <=> Marked
      /\ HeadHere' = HeadHere
      /\ Says' = Says
      /\ PayloadHere' = PayloadHere
      /\ TrailerHere' = TrailerHere
  BY <1>1 DEF Marked, Available, HeadHere, Says, PayloadHere, TrailerHere
<1>3. ValidEnvelope' <=> ValidEnvelope
  BY <1>2 DEF ValidEnvelope
<1>4. WithinLimits' <=> WithinLimits
  BY <1>2 DEF WithinLimits
<1>5. PayloadIntact' <=> PayloadIntact
  BY <1>2 DEF PayloadIntact
<1>6. \A id, rev : /\ SchemaSeen(id, rev)' <=> SchemaSeen(id, rev)
                   /\ LayoutFor(id, rev)' = LayoutFor(id, rev)
  BY <1>1 DEF SchemaSeen, LayoutFor, SchemaAt
<1>7. \A f, payload : ParseData(f, payload)' = ParseData(f, payload)
  BY <1>6 DEF ParseData, DataMatchesSchema
<1>8. \A type, f : KeptOpaque(type, f)' <=> KeptOpaque(type, f)
  BY <1>6 DEF KeptOpaque
<1>9. ParseData(Says.fields, PayloadHere)' = ParseData(Says.fields, PayloadHere)
  BY <1>1, <1>2, <1>7
<1>10. KeptOpaque(Says.type, Says.fields)' <=> KeptOpaque(Says.type, Says.fields)
  BY <1>1, <1>2, <1>8
<1>11. LayoutFor(Says.fields.id, Says.fields.rev)'
         = LayoutFor(Says.fields.id, Says.fields.rev)
  BY <1>1, <1>2, <1>6
<1> QED
  BY <1>2, <1>3, <1>4, <1>5, <1>9, <1>10, <1>11 DEF FixedBytesWanted
=============================================================================
