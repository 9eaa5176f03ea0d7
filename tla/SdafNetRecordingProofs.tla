----------------------- MODULE SdafNetRecordingProofs -----------------------
(***************************************************************************)
(* Theorems about the .NET writer and about a .NET reader of a file that a *)
(* writer is still at work on, for every value of the constants.           *)
(*                                                                         *)
(* Whatever calls throw and wherever a Write of the Stream does, the       *)
(* records written stay in place and are counted, and the writer goes on   *)
(* keeping the rules it checks.  What the reader yields is what was        *)
(* written, in order, torn records or not, and an enumeration that ends    *)
(* has missed nothing that was there when it was begun.                    *)
(***************************************************************************)
EXTENDS SdafNetRecording, SdafFormatProofs, FiniteSetTheorems

-----------------------------------------------------------------------------
(* The history. *)

(***************************************************************************)
(* Appending one record to the history leaves the earlier ones as they     *)
(* were, and counts one DATA record more exactly when it is one.           *)
(***************************************************************************)
LEMMA StreamedGrows ==
  ASSUME written \in Seq(Records), NEW r \in Records,
         written' = Append(written, r)
  PROVE  \E n \in Nat :
           /\ n = Len(written)
           /\ written' \in Seq(Records)
           /\ Len(written') = n + 1
           /\ \A i \in 1 .. n : written'[i] = written[i]
           /\ written'[n + 1] = r
           /\ \A i \in 1 .. n : DatasStreamed(i)' = DatasStreamed(i)
           /\ Cardinality(DatasStreamed(n + 1)') =
                IF r.type = "DATA" THEN Cardinality(DatasStreamed(n)) + 1
                                   ELSE Cardinality(DatasStreamed(n))
           /\ Cardinality(DatasStreamed(n)) \in Nat
<1>1. PICK n \in Nat :
        /\ n = Len(written)
        /\ written' \in Seq(Records)
        /\ Len(written') = n + 1
        /\ \A i \in 1 .. n : written'[i] = written[i]
        /\ written'[n + 1] = r
  BY AppendProperties, LenProperties
<1>2. \A i \in 1 .. n : DatasStreamed(i)' = DatasStreamed(i)
  BY <1>1 DEF DatasStreamed
<1>3. DatasStreamed(n + 1)' =
        IF r.type = "DATA" THEN DatasStreamed(n) \cup {n + 1}
                           ELSE DatasStreamed(n)
  <2>1. ASSUME NEW i
        PROVE  i \in DatasStreamed(n + 1)' <=>
                 \/ i \in DatasStreamed(n)
                 \/ i = n + 1 /\ r.type = "DATA"
    BY <1>1 DEF DatasStreamed
  <2> QED
    BY <2>1
<1>4. IsFiniteSet(DatasStreamed(n))
  <2>1. IsFiniteSet(1 .. n)
    BY FS_Interval
  <2>2. DatasStreamed(n) \in SUBSET (1 .. n)
    BY DEF DatasStreamed
  <2> QED
    BY <2>1, <2>2, FS_Subset
<1>5. Cardinality(DatasStreamed(n) \cup {n + 1})
        = Cardinality(DatasStreamed(n)) + 1
  <2>1. n + 1 \notin DatasStreamed(n)
    BY DEF DatasStreamed
  <2> QED
    BY <1>4, <2>1, FS_AddElement
<1>6. Cardinality(DatasStreamed(n)) \in Nat
  BY <1>4, FS_CardinalityType
<1>7. Cardinality(DatasStreamed(n + 1)') =
        IF r.type = "DATA" THEN Cardinality(DatasStreamed(n)) + 1
                           ELSE Cardinality(DatasStreamed(n))
  <2>1. CASE r.type = "DATA"
    BY <1>3, <1>5, <2>1
  <2>2. CASE r.type # "DATA"
    BY <1>3, <2>2
  <2> QED
    BY <2>1, <2>2
<1> QED
  BY <1>1, <1>2, <1>6, <1>7

-----------------------------------------------------------------------------
(* What a call does. *)

(***************************************************************************)
(* A record that WriteRecord may be asked to write, with the place and the *)
(* number it gets; the record's own rules are checked, and remembered, by  *)
(* the call that makes it.                                                 *)
(***************************************************************************)
Writable(r) ==
  /\ r \in Records
  /\ stream # <<>>
  /\ r.offset = Len(stream)
  /\ r.seq = sequence
  /\ r.type = "END!" => /\ r.fields.total = recordCount + 1
                        /\ r.fields.datas = dataRecordCount
  /\ r.type = "DATA" => r.fields \in DataFields

NotesSchema(r) ==
  IF r.type = "SCMA"
  THEN \E s \in Schemas :
         /\ SchemasOf(s.id, s.rev) \subseteq {s}
         /\ schemas' = schemas \cup {s}
         /\ r.fields = [id |-> s.id, rev |-> s.rev]
         /\ r.payload = <<LayoutCell(s.layout)>>
  ELSE schemas' = schemas

NotesItem(r) ==
  IF r.type = "BLOB"
  THEN /\ r.fields \in BlobFields
       /\ \A i \in ItemsOf(r.fields.id, r.fields.stream) :
            i.index < r.fields.first
       /\ lastBlobIndexes' =
            (lastBlobIndexes \ ItemsOf(r.fields.id, r.fields.stream))
              \cup {[id |-> r.fields.id, stream |-> r.fields.stream,
                     index |-> r.fields.first]}
  ELSE lastBlobIndexes' = lastBlobIndexes

Streams(r) ==
  /\ Writable(r)
  /\ WriteRecord(r)
  /\ dataRecordCount' =
       IF r.type = "DATA" THEN dataRecordCount + 1 ELSE dataRecordCount
  /\ NotesSchema(r)
  /\ NotesItem(r)
  /\ disposed' = disposed

Throws(r) == Writable(r) /\ WriteThrows(r) /\ disposed' = disposed

WriteOutcome == \E r : Streams(r) \/ Throws(r)

(***************************************************************************)
(* A new record with fields and payload of the right kind can be written.  *)
(***************************************************************************)
LEMMA NewRecordWritable ==
  ASSUME NetWriterTypeOK, stream # <<>>,
         NEW type \in RecordTypes, NEW trailer \in BOOLEAN,
         NEW fields \in Fields, NEW payload \in Seq(PayloadCells),
         type = "END!" => /\ fields.total = recordCount + 1
                          /\ fields.datas = dataRecordCount,
         type = "DATA" => fields \in DataFields
  PROVE  /\ Writable(NewRecord(type, trailer, fields, payload))
         /\ NewRecord(type, trailer, fields, payload).type = type
         /\ NewRecord(type, trailer, fields, payload).fields = fields
         /\ NewRecord(type, trailer, fields, payload).payload = payload
<1> DEFINE r == NewRecord(type, trailer, fields, payload)
<1>1. Len(stream) \in Nat /\ sequence \in 0 .. SequenceMod - 1
  BY LenProperties DEF NetWriterTypeOK
<1>2. /\ r.type = type /\ r.trailer = trailer /\ r.seq = sequence
      /\ r.offset = Len(stream) /\ r.fields = fields /\ r.payload = payload
  BY DEF NewRecord
<1>3. r \in Records
  BY <1>1 DEF NewRecord, Records
<1> HIDE DEF r
<1>4. Writable(r)
  BY <1>2, <1>3 DEF Writable
<1> QED
  BY <1>2, <1>4 DEF r

(***************************************************************************)
(* A record that is neither a schema nor DATA nor an item changes nothing  *)
(* but the stream and the counters.                                        *)
(***************************************************************************)
LEMMA PlainWritten ==
  ASSUME NetWriterTypeOK, NEW r, Writable(r),
         r.type \notin {"SCMA", "DATA", "BLOB"},
         WritePlain(r), disposed' = disposed
  PROVE  WriteOutcome
BY DEF WritePlain, WriteOutcome, Streams, Throws, NotesSchema, NotesItem

LEMMA SchemaWritten ==
  ASSUME NetWriterTypeOK, stream # <<>>, NEW c \in SchemaCalls,
         WriteSchema(c), disposed' = disposed
  PROVE  WriteOutcome
<1> DEFINE fields == [id |-> c.schema.id, rev |-> c.schema.rev]
           payload == <<LayoutCell(c.schema.layout)>>
           r == NewRecord("SCMA", c.trailer, fields, payload)
<1>1. c.schema \in Schemas /\ c.trailer \in BOOLEAN
  BY NetWriterAssumption
<1>2. /\ c.schema.id \in Nat /\ c.schema.rev \in Nat
      /\ c.schema.layout \in Layouts
  BY <1>1 DEF Schemas
<1>3. fields \in Fields /\ "SCMA" \in RecordTypes
  BY <1>2 DEF SchemaFields, Fields, RecordTypes
<1>4. payload \in Seq(PayloadCells)
  <2>1. LayoutCell(c.schema.layout) \in PayloadCells
    BY <1>2 DEF LayoutCell, LayoutCells, PayloadCells
  <2> QED
    BY <2>1
<1>5. /\ SchemasOf(c.schema.id, c.schema.rev) \subseteq {c.schema}
      /\ \/ /\ WriteRecord(r)
            /\ schemas' = schemas \cup {c.schema}
            /\ UNCHANGED <<dataRecordCount, lastBlobIndexes>>
         \/ WriteThrows(r)
  BY DEF WriteSchema, LayoutCell
<1> HIDE DEF fields, payload
<1>6. /\ Writable(r) /\ r.type = "SCMA"
      /\ r.fields = fields /\ r.payload = payload
  BY <1>1, <1>3, <1>4, NewRecordWritable
<1> HIDE DEF r
<1>7. CASE /\ WriteRecord(r)
           /\ schemas' = schemas \cup {c.schema}
           /\ UNCHANGED <<dataRecordCount, lastBlobIndexes>>
  <2>1. NotesSchema(r)
    BY <1>1, <1>5, <1>6, <1>7 DEF NotesSchema, fields, payload
  <2>2. NotesItem(r)
    BY <1>6, <1>7 DEF NotesItem
  <2> QED
    BY <1>6, <1>7, <2>1, <2>2 DEF Streams, WriteOutcome
<1> QED
  BY <1>5, <1>6, <1>7 DEF Throws, WriteOutcome

LEMMA DataWritten ==
  ASSUME NetWriterTypeOK, stream # <<>>, NEW c \in DataCalls,
         WriteData(c), disposed' = disposed
  PROVE  WriteOutcome
<1> DEFINE fields ==
             [id |-> c.id, rev |-> c.rev, stream |-> c.stream,
              first |-> c.first, count |-> c.count, mode |-> c.mode,
              times |-> c.times, stamps |-> c.stamps,
              decoded |-> Len(c.values), profile |-> c.profile]
           payload == Encoded(c.profile, c.values)
           r == NewRecord("DATA", c.trailer, fields, payload)
<1>1. /\ c.id \in Nat /\ c.rev \in Nat /\ c.stream \in Nat /\ c.first \in Nat
      /\ c.count \in Nat /\ c.mode \in TimeModes /\ c.times \in Times
      /\ c.stamps \in Nat
      /\ c.profile \in Profiles /\ c.values \in Seq(Values)
      /\ c.trailer \in BOOLEAN
  BY NetWriterAssumption
<1>2. fields \in DataFields
  BY <1>1, LenProperties DEF DataFields
<1>3. fields \in Fields /\ "DATA" \in RecordTypes
  BY <1>2 DEF Fields, RecordTypes
<1>4. payload \in Seq(PayloadCells)
  BY <1>1, EncodedType
<1>5. \/ /\ WriteRecord(r)
         /\ dataRecordCount' = dataRecordCount + 1
         /\ UNCHANGED <<schemas, lastBlobIndexes>>
      \/ WriteThrows(r)
  BY DEF WriteData
<1> HIDE DEF fields, payload
<1>6. Writable(r) /\ r.type = "DATA"
  BY <1>1, <1>2, <1>3, <1>4, NewRecordWritable
<1> HIDE DEF r
<1> QED
  BY <1>5, <1>6 DEF Streams, Throws, WriteOutcome, NotesSchema, NotesItem

LEMMA TextWritten ==
  ASSUME NetWriterTypeOK, stream # <<>>, NEW c \in TextCalls,
         WriteText(c), disposed' = disposed
  PROVE  WriteOutcome
<1> DEFINE fields == [id |-> c.id, rev |-> c.rev, stream |-> c.stream]
           r == NewRecord("TEXT", c.trailer, fields, AsCells(c.values))
<1>1. /\ c.id \in Nat /\ c.rev \in Nat /\ c.stream \in Nat
      /\ c.values \in Seq(Values) /\ c.trailer \in BOOLEAN
  BY NetWriterAssumption
<1>2. fields \in Fields /\ "TEXT" \in RecordTypes
  BY <1>1 DEF TextFields, Fields, RecordTypes
<1>3. AsCells(c.values) \in Seq(PayloadCells)
  BY <1>1, CellsType
<1>4. WritePlain(r)
  BY DEF WriteText
<1> HIDE DEF fields
<1>5. Writable(r) /\ r.type = "TEXT"
  BY <1>1, <1>2, <1>3, NewRecordWritable
<1> QED
  BY <1>4, <1>5, PlainWritten

LEMMA BlobWritten ==
  ASSUME NetWriterTypeOK, stream # <<>>, NEW c \in BlobCalls,
         WriteBlob(c), disposed' = disposed
  PROVE  WriteOutcome
<1> DEFINE fields ==
             [id |-> c.id, rev |-> c.rev, stream |-> c.stream,
              first |-> c.first, decoded |-> Len(c.values),
              profile |-> c.profile]
           payload == Encoded(c.profile, c.values)
           r == NewRecord("BLOB", c.trailer, fields, payload)
<1>1. /\ c.id \in Nat /\ c.rev \in Nat /\ c.stream \in Nat /\ c.first \in Nat
      /\ c.profile \in Profiles /\ c.values \in Seq(Values)
      /\ c.trailer \in BOOLEAN
  BY NetWriterAssumption
<1>2. fields \in BlobFields
  BY <1>1, LenProperties DEF BlobFields
<1>3. fields \in Fields /\ "BLOB" \in RecordTypes
  BY <1>2 DEF Fields, RecordTypes
<1>4. payload \in Seq(PayloadCells)
  BY <1>1, EncodedType
<1>5. /\ \A i \in ItemsOf(c.id, c.stream) : i.index < c.first
      /\ \/ /\ WriteRecord(r)
            /\ lastBlobIndexes' =
                 (lastBlobIndexes \ ItemsOf(c.id, c.stream))
                   \cup {[id |-> c.id, stream |-> c.stream,
                          index |-> c.first]}
            /\ UNCHANGED <<dataRecordCount, schemas>>
         \/ WriteThrows(r)
  BY DEF WriteBlob, NextItem
<1>6. fields.id = c.id /\ fields.stream = c.stream /\ fields.first = c.first
  OBVIOUS
<1> HIDE DEF fields, payload
<1>7. Writable(r) /\ r.type = "BLOB" /\ r.fields = fields
  BY <1>1, <1>2, <1>3, <1>4, NewRecordWritable
<1> HIDE DEF r
<1> QED
  BY <1>2, <1>5, <1>6, <1>7
     DEF Streams, Throws, WriteOutcome, NotesSchema, NotesItem

LEMMA CellsWritten ==
  ASSUME NetWriterTypeOK, stream # <<>>, disposed' = disposed,
         \/ \E c \in NoteCalls : WriteNote(c)
         \/ \E c \in PrivateCalls : WritePrivateRecord(c)
  PROVE  WriteOutcome
<1>1. NoFields \in Fields /\ {"NOTE", "PRIV"} \subseteq RecordTypes
  BY DEF Fields, RecordTypes
<1>2. ASSUME NEW type \in {"NOTE", "PRIV"},
             NEW c \in NoteCalls \cup PrivateCalls,
             WritePlain(NewRecord(type, c.trailer, NoFields,
                                  AsCells(c.values)))
      PROVE  WriteOutcome
  <2>1. c.values \in Seq(Values) /\ c.trailer \in BOOLEAN
    BY NetWriterAssumption
  <2>2. AsCells(c.values) \in Seq(PayloadCells)
    BY <2>1, CellsType
  <2>3. /\ Writable(NewRecord(type, c.trailer, NoFields, AsCells(c.values)))
        /\ NewRecord(type, c.trailer, NoFields, AsCells(c.values)).type = type
    BY <1>1, <2>1, <2>2, NewRecordWritable
  <2> QED
    BY <1>2, <2>3, PlainWritten
<1> QED
  BY <1>2 DEF WriteNote, WritePrivateRecord

LEMMA IndexWritten ==
  ASSUME NetWriterTypeOK, WriterRemembers, stream # <<>>,
         NEW entries \in IndexArguments,
         WriteIndex(entries, FALSE), disposed' = disposed
  PROVE  WriteOutcome
<1>1. ASSUME NEW i \in 1 .. Len(written),
             written[i].type \in {"DATA", "BLOB"}
      PROVE  EntryFor(written[i]) \in EntryCells
  <2>1. written[i] \in Records /\ Remembered(written[i])
    BY ElementOfSeq DEF NetWriterTypeOK, WriterRemembers
  <2>2. written[i].offset \in Nat /\ written[i].seq \in Nat
    BY <2>1, SequenceAssumption DEF Records
  <2>3. CASE written[i].type = "DATA"
    <3>1. written[i].fields \in DataFields
      BY <2>1, <2>3 DEF Remembered
    <3> QED
      BY <2>2, <2>3, <3>1 DEF DataFields, EntryFor, EntryCells
  <2>4. CASE written[i].type = "BLOB"
    <3>1. written[i].fields \in BlobFields
      BY <2>1, <2>4 DEF Remembered
    <3> QED
      BY <2>2, <2>4, <3>1 DEF BlobFields, EntryFor, EntryCells
  <2> QED
    BY <1>1, <2>3, <2>4
<1>2. entries \in Seq(PayloadCells)
  <2>1. StrayEntries \subseteq EntryCells
    BY NetWriterAssumption
  <2>2. entries = <<>> \/ \E e \in EntryCells : entries = <<e>>
    BY <1>1, <2>1 DEF IndexArguments
  <2>3. EntryCells \subseteq PayloadCells
    BY DEF PayloadCells
  <2>4. CASE entries = <<>>
    BY <2>4
  <2>5. CASE \E e \in EntryCells : entries = <<e>>
    <3>1. PICK e \in PayloadCells : entries = <<e>>
      BY <2>3, <2>5
    <3> QED
      BY <3>1
  <2> QED
    BY <2>2, <2>4, <2>5
<1>3. NoFields \in Fields /\ "INDX" \in RecordTypes
  BY DEF Fields, RecordTypes
<1>4. PICK none \in BOOLEAN : none = FALSE
  OBVIOUS
<1>5. /\ Writable(NewRecord("INDX", none, NoFields, entries))
      /\ NewRecord("INDX", none, NoFields, entries).type = "INDX"
  BY <1>2, <1>3, NewRecordWritable
<1>6. WritePlain(NewRecord("INDX", none, NoFields, entries))
  BY <1>4 DEF WriteIndex
<1> QED
  BY <1>5, <1>6, PlainWritten

LEMMA EndWritten ==
  ASSUME NetWriterTypeOK, stream # <<>>, NEW lastIndex \in LastIndexes,
         WriteEnd(lastIndex), disposed' = disposed
  PROVE  WriteOutcome
<1>0. PICK none \in BOOLEAN, nothing \in Seq(PayloadCells) :
        none = FALSE /\ nothing = <<>>
  <2>1. <<>> \in Seq(PayloadCells) /\ FALSE \in BOOLEAN
    OBVIOUS
  <2> QED
    BY <2>1, Zenon
<1> DEFINE fields == [total |-> recordCount + 1, datas |-> dataRecordCount,
                      lastIndex |-> lastIndex]
           r == NewRecord("END!", none, fields, nothing)
<1>1. lastIndex \in Nat
  <2>1. \A i \in 1 .. Len(written) : written[i].offset \in Nat
    <3> TAKE i \in 1 .. Len(written)
    <3>1. written[i] \in Records
      BY ElementOfSeq DEF NetWriterTypeOK
    <3> QED
      BY <3>1 DEF Records
  <2> QED
    BY <2>1 DEF LastIndexes
<1>2. recordCount \in Nat /\ dataRecordCount \in Nat
  BY DEF NetWriterTypeOK
<1>3. fields \in Fields
  BY <1>1, <1>2 DEF EndFields, Fields
<1>4. "END!" \in RecordTypes
  BY DEF RecordTypes
<1>5. fields.total = recordCount + 1 /\ fields.datas = dataRecordCount
  OBVIOUS
<1>6. WritePlain(r)
  BY <1>0 DEF WriteEnd
<1> HIDE DEF fields
<1>7. Writable(r) /\ r.type = "END!"
  BY <1>3, <1>4, <1>5, NewRecordWritable
<1> QED
  BY <1>6, <1>7, PlainWritten

(***************************************************************************)
(* A write call that goes through or throws has one of two outcomes: a     *)
(* record is in the stream, whole and noted, or whole or torn and not      *)
(* noted.                                                                  *)
(***************************************************************************)
LEMMA NetCallOutcome ==
  ASSUME NetWriterTypeOK, WriterRemembers, NetWriterCall
  PROVE  WriteOutcome \/ Construct \/ Dispose
BY SchemaWritten, DataWritten, TextWritten, BlobWritten, CellsWritten,
   IndexWritten, EndWritten DEF NetWriterCall

-----------------------------------------------------------------------------
(* The steps. *)

(***************************************************************************)
(* What a Write that throws leaves in the stream: nothing of the record, a *)
(* fragment, or its header with less behind it than it claims.             *)
(***************************************************************************)
LEMMA TornShape ==
  ASSUME NEW r \in Records, NEW torn \in TornCells(r)
  PROVE  /\ torn \in Seq(Cells)
         /\ \A k \in 2 .. Len(torn) : torn[k].cell # "head"
         /\ Len(torn) >= 1 =>
              \/ torn[1] = Fragment
              \/ /\ torn[1] = HeadCell(r)
                 /\ \/ Len(torn) < TotalSize(Len(r.payload), r.trailer)
                    \/ \E q \in 2 .. Len(torn) :
                         /\ q <= TotalSize(Len(r.payload), r.trailer)
                         /\ torn[q] = Fragment
<1>1. PICK total \in Nat :
        /\ total = TotalSize(Len(r.payload), r.trailer)
        /\ total = Len(Stored(r))
        /\ Stored(r) \in Seq(Cells)
        /\ Stored(r)[1] = HeadCell(r)
        /\ \A k \in 2 .. total : Stored(r)[k].cell # "head"
  BY StoredType, StoredHeads
<1>2. PICK n \in 0 .. total - 1 :
        torn \in {SubSeq(Stored(r), 1, n),
                  SubSeq(Stored(r), 1, n) \o <<Fragment>>}
  BY <1>1 DEF TornCells
<1>3. PICK begun \in Seq(Cells) :
        /\ begun = SubSeq(Stored(r), 1, n)
        /\ Len(begun) = n
        /\ \A k \in 1 .. n : begun[k] = Stored(r)[k]
  <2>1. n \in 0 .. Len(Stored(r))
    BY <1>1
  <2>2. /\ SubSeq(Stored(r), 1, n) \in Seq(Cells)
        /\ Len(SubSeq(Stored(r), 1, n)) = n
        /\ \A k \in 1 .. n : SubSeq(Stored(r), 1, n)[k] = Stored(r)[k]
    BY <1>1, <2>1, Beginning
  <2> QED
    BY <2>2
<1>4. Fragment \in Cells /\ Fragment.cell = "fragment"
  BY DEF Fragment, Cells
<1>5. CASE torn = SubSeq(Stored(r), 1, n)
  <2>1. torn = begun
    BY <1>3, <1>5
  <2> QED
    BY <1>1, <1>3, <2>1
<1>6. CASE torn = SubSeq(Stored(r), 1, n) \o <<Fragment>>
  <2>1. PICK one \in Seq(Cells) :
          one = <<Fragment>> /\ Len(one) = 1 /\ one[1] = Fragment
    <3>1. <<Fragment>> \in Seq(Cells)
      BY <1>4
    <3>2. Len(<<Fragment>>) = 1 /\ <<Fragment>>[1] = Fragment
      OBVIOUS
    <3> QED
      BY <3>1, <3>2
  <2>2. /\ torn \in Seq(Cells)
        /\ Len(torn) = n + 1
        /\ \A k \in 1 .. n + 1 :
             torn[k] = IF k <= n THEN begun[k] ELSE one[k - n]
    BY <1>3, <1>6, <2>1, ConcatProperties
  <2>3. torn[n + 1] = Fragment
    <3>1. n + 1 \in 1 .. n + 1 /\ ~(n + 1 <= n) /\ (n + 1) - n = 1
      OBVIOUS
    <3> QED
      BY <2>1, <2>2, <3>1
  <2>4. \A k \in 1 .. n : torn[k] = Stored(r)[k]
    BY <1>3, <2>2
  <2>5. ASSUME NEW k \in 2 .. n + 1
        PROVE  torn[k].cell # "head"
    <3>1. CASE k = n + 1
      BY <1>4, <2>3, <3>1
    <3>2. CASE k # n + 1
      <4>1. k \in 1 .. n /\ k \in 2 .. total
        BY <3>2
      <4> QED
        BY <1>1, <2>4, <4>1
    <3> QED
      BY <3>1, <3>2
  <2>6. CASE n = 0
    BY <2>2, <2>3, <2>5, <2>6
  <2>7. CASE n # 0
    <3>1. torn[1] = HeadCell(r)
      BY <1>1, <2>4, <2>7
    <3>2. n + 1 \in 2 .. Len(torn) /\ n + 1 <= total
      BY <2>2, <2>7
    <3> QED
      BY <1>1, <2>2, <2>3, <2>5, <3>1, <3>2
  <2> QED
    BY <2>6, <2>7
<1> QED
  BY <1>2, <1>5, <1>6

(***************************************************************************)
(* What the writer remembers covers a new record, too.                     *)
(***************************************************************************)
LEMMA StillRemembers ==
  ASSUME NetWriterInv, NEW r, Streams(r)
  PROVE  /\ schemas' \subseteq Schemas
         /\ lastBlobIndexes' \subseteq Items
         /\ WriterRemembers'
         /\ WrittenKeepsRules'
<1>1. /\ r \in Records /\ written' = Append(written, r)
      /\ written \in Seq(Records)
      /\ schemas \subseteq Schemas /\ lastBlobIndexes \subseteq Items
      /\ NotesSchema(r) /\ NotesItem(r) /\ WriterRemembers
      /\ r.type = "DATA" => r.fields \in DataFields
  BY DEF Streams, Writable, WriteRecord, NetWriterInv, NetWriterTypeOK
<1>2. PICK n \in Nat :
        /\ n = Len(written)
        /\ Len(written') = n + 1
        /\ \A i \in 1 .. n : written'[i] = written[i]
        /\ written'[n + 1] = r
  BY <1>1, StreamedGrows
<1>3. schemas' \subseteq Schemas /\ schemas \subseteq schemas'
  BY <1>1 DEF NotesSchema
<1>4. ASSUME NEW s \in schemas', NEW t \in schemas',
             s.id = t.id, s.rev = t.rev
      PROVE  s = t
  <2>1. CASE r.type = "SCMA"
    <3>1. PICK new \in Schemas :
            /\ SchemasOf(new.id, new.rev) \subseteq {new}
            /\ schemas' = schemas \cup {new}
      BY <1>1, <2>1 DEF NotesSchema
    <3>2. \A u \in schemas : u.id = new.id /\ u.rev = new.rev => u = new
      BY <3>1 DEF SchemasOf
    <3> QED
      BY <1>1, <1>4, <3>1, <3>2 DEF WriterRemembers
  <2>2. CASE r.type # "SCMA"
    BY <1>1, <1>4, <2>2 DEF NotesSchema, WriterRemembers
  <2> QED
    BY <2>1, <2>2
<1>5. lastBlobIndexes' \subseteq Items
  <2>1. CASE r.type = "BLOB"
    <3>1. /\ r.fields.id \in Nat /\ r.fields.stream \in Nat
          /\ r.fields.first \in Nat
      BY <1>1, <2>1 DEF NotesItem, BlobFields
    <3> QED
      BY <1>1, <2>1, <3>1 DEF NotesItem, Items
  <2> QED
    BY <1>1, <2>1 DEF NotesItem
<1>6. ASSUME NEW i \in 1 .. n
      PROVE  Remembered(written[i])'
  <2>1. Remembered(written[i]) /\ written'[i] = written[i]
    BY <1>1, <1>2 DEF WriterRemembers
  <2>2. CASE written[i].type = "BLOB"
    <3>1. PICK k \in ItemsOf(written[i].fields.id, written[i].fields.stream) :
            written[i].fields.first <= k.index
      BY <2>1, <2>2 DEF Remembered
    <3>2. /\ written[i].fields \in BlobFields
          /\ k \in Items /\ k \in lastBlobIndexes
          /\ k.id = written[i].fields.id /\ k.stream = written[i].fields.stream
      BY <1>1, <2>1, <2>2, <3>1 DEF Remembered, ItemsOf
    <3>3. CASE k \in lastBlobIndexes'
      BY <2>1, <2>2, <3>1, <3>2, <3>3 DEF Remembered, ItemsOf
    <3>4. CASE k \notin lastBlobIndexes'
      <4>1. /\ r.type = "BLOB" /\ r.fields \in BlobFields
            /\ k \in ItemsOf(r.fields.id, r.fields.stream)
        BY <1>1, <3>2, <3>4 DEF NotesItem
      <4>2. k.index < r.fields.first
        BY <1>1, <4>1 DEF NotesItem
      <4>3. PICK new \in lastBlobIndexes' :
              /\ new.id = r.fields.id /\ new.stream = r.fields.stream
              /\ new.index = r.fields.first
        <5> DEFINE item == [id |-> r.fields.id, stream |-> r.fields.stream,
                            index |-> r.fields.first]
        <5>1. item \in lastBlobIndexes'
          BY <1>1, <4>1 DEF NotesItem
        <5> QED
          BY <5>1
      <4>4. k.id = r.fields.id /\ k.stream = r.fields.stream
        BY <4>1 DEF ItemsOf
      <4>5. /\ written[i].fields.first \in Nat /\ k.index \in Nat
            /\ r.fields.first \in Nat
        BY <3>2, <4>1 DEF BlobFields, Items
      <4>6. written[i].fields.first <= new.index
        BY <3>1, <4>2, <4>3, <4>5
      <4> QED
        BY <2>1, <2>2, <3>2, <4>3, <4>4, <4>6 DEF Remembered, ItemsOf
    <3> QED
      BY <3>3, <3>4
  <2>3. CASE written[i].type # "BLOB"
    BY <1>3, <2>1, <2>3 DEF Remembered
  <2> QED
    BY <2>2, <2>3
<1>7. Remembered(r)'
  <2>1. CASE r.type = "SCMA"
    BY <1>1, <2>1 DEF NotesSchema, Remembered
  <2>2. CASE r.type = "BLOB"
    <3> DEFINE item == [id |-> r.fields.id, stream |-> r.fields.stream,
                        index |-> r.fields.first]
    <3>1. r.fields \in BlobFields /\ r.fields.first \in Nat
      BY <1>1, <2>2 DEF NotesItem, BlobFields
    <3>2. item \in lastBlobIndexes'
      BY <1>1, <2>2 DEF NotesItem
    <3>3. /\ item \in ItemsOf(r.fields.id, r.fields.stream)'
          /\ r.fields.first <= item.index
      BY <3>1, <3>2 DEF ItemsOf
    <3> QED
      BY <2>2, <3>1, <3>3 DEF Remembered
  <2>3. CASE r.type \notin {"SCMA", "BLOB"}
    BY <1>1, <2>3 DEF Remembered
  <2> QED
    BY <2>1, <2>2, <2>3
<1>8. WriterRemembers'
  <2>1. ASSUME NEW i \in 1 .. n + 1 PROVE Remembered(written[i])'
    <3>1. CASE i \in 1 .. n
      BY <1>6, <3>1
    <3>2. CASE i = n + 1
      BY <1>2, <1>7, <3>2 DEF Remembered, ItemsOf
    <3> QED
      BY <3>1, <3>2
  <2> QED
    BY <1>2, <1>4, <2>1 DEF WriterRemembers
<1>9. ASSUME NEW i \in 1 .. n, written[i].type = "SCMA", r.type = "SCMA",
             written[i].fields = r.fields
      PROVE  written[i].payload = r.payload
  <2>1. PICK s \in Schemas :
          /\ SchemasOf(s.id, s.rev) \subseteq {s}
          /\ r.fields = [id |-> s.id, rev |-> s.rev]
          /\ r.payload = <<LayoutCell(s.layout)>>
    BY <1>1, <1>9 DEF NotesSchema
  <2>2. PICK t \in schemas :
          /\ written[i].fields = [id |-> t.id, rev |-> t.rev]
          /\ written[i].payload = <<LayoutCell(t.layout)>>
    BY <1>1, <1>2, <1>9 DEF WriterRemembers, Remembered
  <2>3. t.id = s.id /\ t.rev = s.rev
    BY <1>9, <2>1, <2>2
  <2>4. t = s
    BY <2>1, <2>3 DEF SchemasOf
  <2> QED
    BY <2>1, <2>2, <2>4
<1>10. ASSUME NEW i \in 1 .. n, written[i].type = "BLOB", r.type = "BLOB",
              written[i].fields.id = r.fields.id,
              written[i].fields.stream = r.fields.stream
       PROVE  written[i].fields.first < r.fields.first
  <2>1. /\ written[i].fields \in BlobFields /\ r.fields \in BlobFields
        /\ \E k \in ItemsOf(r.fields.id, r.fields.stream) :
             written[i].fields.first <= k.index
    BY <1>1, <1>2, <1>10 DEF WriterRemembers, Remembered, NotesItem
  <2>2. PICK k \in ItemsOf(r.fields.id, r.fields.stream) :
          written[i].fields.first <= k.index
    BY <2>1
  <2>3. k.index < r.fields.first /\ k \in Items
    BY <1>1, <1>10, <2>2 DEF NotesItem, ItemsOf
  <2>4. /\ written[i].fields.first \in Nat /\ k.index \in Nat
        /\ r.fields.first \in Nat
    BY <2>1, <2>3 DEF BlobFields, Items
  <2> QED
    BY <2>2, <2>3, <2>4
<1>11. WrittenKeepsRules'
  <2>1. ASSUME NEW i \in 1 .. n + 1, NEW j \in 1 .. n + 1,
               written'[i].type = "SCMA", written'[j].type = "SCMA",
               written'[i].fields = written'[j].fields
        PROVE  written'[i].payload = written'[j].payload
    <3>1. CASE i \in 1 .. n /\ j \in 1 .. n
      BY <1>2, <2>1, <3>1 DEF NetWriterInv, WrittenKeepsRules
    <3>2. CASE i \in 1 .. n /\ j = n + 1
      BY <1>2, <1>9, <2>1, <3>2
    <3>3. CASE i = n + 1 /\ j \in 1 .. n
      BY <1>2, <1>9, <2>1, <3>3
    <3>4. CASE i = n + 1 /\ j = n + 1
      BY <3>4
    <3> QED
      BY <3>1, <3>2, <3>3, <3>4
  <2>2. ASSUME NEW i \in 1 .. n + 1, NEW j \in 1 .. n + 1, i < j,
               written'[i].type = "BLOB", written'[j].type = "BLOB",
               written'[i].fields.id = written'[j].fields.id,
               written'[i].fields.stream = written'[j].fields.stream
        PROVE  written'[i].fields.first < written'[j].fields.first
    <3>1. i \in 1 .. n
      BY <2>2
    <3>2. CASE j \in 1 .. n
      BY <1>2, <2>2, <3>1, <3>2 DEF NetWriterInv, WrittenKeepsRules
    <3>3. CASE j = n + 1
      BY <1>2, <1>10, <2>2, <3>1, <3>3
    <3> QED
      BY <3>2, <3>3
  <2> QED
    BY <1>2, <2>1, <2>2 DEF WrittenKeepsRules
<1> QED
  BY <1>3, <1>5, <1>8, <1>11

(***************************************************************************)
(* A stream that is written to does not become empty.                      *)
(***************************************************************************)
LEMMA LongerIsNotEmpty ==
  ASSUME NEW a \in Seq(Cells), NEW b \in Seq(Cells), a # <<>>
  PROVE  a \o b # <<>>
<1>1. PICK k \in Nat : k = Len(a) /\ k # 0
  BY EmptySeq
<1>2. PICK m \in Nat : m = Len(b)
  BY LenProperties
<1>3. Len(a \o b) = k + m
  BY <1>1, <1>2, ConcatProperties
<1> QED
  BY <1>1, <1>3, EmptySeq

(***************************************************************************)
(* A record that goes through keeps the invariant: it lies behind all the  *)
(* others, and the counters and what is remembered take it in.             *)
(***************************************************************************)
LEMMA StreamsKeeps ==
  ASSUME NetWriterInv, NEW r, Streams(r)
  PROVE  NetWriterInv'
<1>1. /\ r \in Records /\ r.offset = Len(stream) /\ r.seq = sequence
      /\ r.type = "END!" => /\ r.fields.total = recordCount + 1
                            /\ r.fields.datas = dataRecordCount
      /\ stream' = stream \o Stored(r)
      /\ sequence' = (sequence + 1) % SequenceMod
      /\ recordCount' = recordCount + 1
      /\ dataRecordCount' =
           IF r.type = "DATA" THEN dataRecordCount + 1 ELSE dataRecordCount
      /\ written' = Append(written, r)
      /\ disposed' = disposed
  BY DEF Streams, Writable, WriteRecord
<1>2. /\ stream \in Seq(Cells) /\ written \in Seq(Records)
      /\ sequence \in 0 .. SequenceMod - 1
      /\ recordCount \in Nat /\ dataRecordCount \in Nat
      /\ disposed \in BOOLEAN
  BY DEF NetWriterInv, NetWriterTypeOK
<1>3. PICK n \in Nat :
        /\ n = Len(written)
        /\ written' \in Seq(Records)
        /\ Len(written') = n + 1
        /\ \A i \in 1 .. n : written'[i] = written[i]
        /\ written'[n + 1] = r
        /\ \A i \in 1 .. n : DatasStreamed(i)' = DatasStreamed(i)
        /\ Cardinality(DatasStreamed(n + 1)') =
             IF r.type = "DATA" THEN Cardinality(DatasStreamed(n)) + 1
                                ELSE Cardinality(DatasStreamed(n))
        /\ Cardinality(DatasStreamed(n)) \in Nat
  BY <1>1, <1>2, StreamedGrows
<1>4. SequenceMod \in Nat \ {0}
  BY SequenceAssumption
<1>5. /\ stream' \in Seq(Cells) /\ Len(stream) \in Nat
      /\ EndOf(r) = Len(stream')
      /\ SubSeq(stream', r.offset + 1, EndOf(r)) = Stored(r)
  BY <1>1, <1>2, StoredInPlace, LenProperties
<1>6. /\ schemas' \subseteq Schemas /\ lastBlobIndexes' \subseteq Items
      /\ WriterRemembers' /\ WrittenKeepsRules'
  BY StillRemembers
<1>7. NetWriterTypeOK'
  <2>1. sequence' \in 0 .. SequenceMod - 1
    <3> DEFINE k == sequence + 1
    <3>1. k \in Nat
      BY <1>2, <1>4
    <3>2. sequence' = k % SequenceMod
      BY <1>1
    <3> HIDE DEF k
    <3>3. k % SequenceMod \in 0 .. SequenceMod - 1
      BY <1>4, <3>1, CountingModulo
    <3> QED
      BY <3>2, <3>3
  <2> QED
    BY <1>1, <1>2, <1>3, <1>5, <1>6, <2>1 DEF NetWriterTypeOK
<1>8. /\ sequence = n % SequenceMod /\ recordCount = n
      /\ dataRecordCount = Cardinality(DatasStreamed(n))
  BY <1>3 DEF NetWriterInv, CountersFollow
<1>9. CountersFollow'
  <2>1. sequence' = (n + 1) % SequenceMod
    <3>1. ((n % SequenceMod) + 1) % SequenceMod = (n + 1) % SequenceMod
      BY <1>4, CountingModulo
    <3>2. sequence' = ((n % SequenceMod) + 1) % SequenceMod
      BY <1>1, <1>8
    <3> QED
      BY <3>1, <3>2
  <2> QED
    BY <1>1, <1>3, <1>8, <2>1 DEF CountersFollow
<1>10. StreamedCounts'
  <2>1. ASSUME NEW i \in 1 .. n
        PROVE  /\ written'[i].seq = (i - 1) % SequenceMod
               /\ written'[i].type = "END!" =>
                    /\ written'[i].fields.total = i
                    /\ written'[i].fields.datas =
                         Cardinality(DatasStreamed(i)')
    BY <1>3 DEF NetWriterInv, StreamedCounts
  <2>2. r.type = "END!" =>
          /\ r.fields.total = n + 1
          /\ r.fields.datas = Cardinality(DatasStreamed(n + 1)')
    BY <1>1, <1>3, <1>8
  <2>3. ASSUME NEW i \in 1 .. n + 1
        PROVE  /\ written'[i].seq = (i - 1) % SequenceMod
               /\ written'[i].type = "END!" =>
                    /\ written'[i].fields.total = i
                    /\ written'[i].fields.datas =
                         Cardinality(DatasStreamed(i)')
    <3>1. CASE i \in 1 .. n
      BY <2>1, <3>1
    <3>2. CASE i = n + 1
      <4>1. (n + 1) - 1 = n
        OBVIOUS
      <4> QED
        BY <1>1, <1>3, <1>8, <2>2, <3>2, <4>1
    <3> QED
      BY <3>1, <3>2
  <2> QED
    BY <1>3, <2>3 DEF StreamedCounts
<1>11. StreamedInPlace'
  <2>1. ASSUME NEW i \in 1 .. n
        PROVE  /\ EndOf(written[i]) <= Len(stream')
               /\ SubSeq(stream', written[i].offset + 1, EndOf(written[i]))
                    = Stored(written[i])
               /\ EndOf(written[i]) <= Len(stream)
    <3>1. written[i] \in Records /\ Stored(r) \in Seq(Cells)
      BY <1>1, <1>2, <1>3, ElementOfSeq, StoredType
    <3>2. /\ EndOf(written[i]) <= Len(stream)
          /\ SubSeq(stream, written[i].offset + 1, EndOf(written[i]))
               = Stored(written[i])
      BY <1>3 DEF NetWriterInv, StreamedInPlace
    <3> QED
      BY <1>1, <1>2, <3>1, <3>2, AppendKeepsRecord
  <2>2. \A i \in 1 .. n : i < n =>
          EndOf(written[i]) <= written[i + 1].offset
    BY <1>3 DEF NetWriterInv, StreamedInPlace
  <2>3. ASSUME NEW i \in 1 .. n + 1
        PROVE  /\ EndOf(written'[i]) <= Len(stream')
               /\ SubSeq(stream', written'[i].offset + 1, EndOf(written'[i]))
                    = Stored(written'[i])
               /\ i < n + 1 => EndOf(written'[i]) <= written'[i + 1].offset
    <3>1. CASE i \in 1 .. n
      <4>1. written'[i] = written[i]
        BY <1>3, <3>1
      <4>2. EndOf(written[i]) <= written'[i + 1].offset
        <5>1. CASE i < n
          BY <1>3, <2>2, <3>1, <5>1
        <5>2. CASE i = n
          BY <1>1, <1>3, <2>1, <3>1, <5>2
        <5> QED
          BY <3>1, <5>1, <5>2
      <4> QED
        BY <2>1, <3>1, <4>1, <4>2
    <3>2. CASE i = n + 1
      <4>1. written'[i] = r /\ ~(i < n + 1)
        BY <1>3, <3>2
      <4>2. Len(stream') \in Nat
        BY <1>5, LenProperties
      <4> QED
        BY <1>5, <4>1, <4>2
    <3> QED
      BY <3>1, <3>2
  <2> QED
    BY <1>3, <2>3 DEF StreamedInPlace
<1>12. stream' # <<>>
  BY <1>2, <1>5, LongerIsNotEmpty, <1>1, StoredType DEF Streams, Writable
<1> QED
  BY <1>6, <1>7, <1>9, <1>10, <1>11, <1>12 DEF NetWriterInv, EmptyIsNew

(***************************************************************************)
(* So does a call that throws: the writer forgets its record, and what it  *)
(* left in the stream lies behind the records that were written.           *)
(***************************************************************************)
LEMMA ThrowsKeeps ==
  ASSUME NetWriterInv, NEW r, Throws(r)
  PROVE  NetWriterInv'
<1>1. /\ r \in Records
      /\ disposed' = disposed
      /\ UNCHANGED <<sequence, recordCount, dataRecordCount, schemas,
                     lastBlobIndexes, written>>
  BY DEF Throws, Writable, WriteThrows
<1>2. PICK left \in TornCells(r) \cup {Stored(r)} : stream' = stream \o left
  BY DEF Throws, WriteThrows, Interrupted
<1>3. left \in Seq(Cells)
  BY <1>1, TornShape, StoredType
<1>4. stream \in Seq(Cells) /\ written \in Seq(Records)
  BY DEF NetWriterInv, NetWriterTypeOK
<1>5. NetWriterTypeOK'
  BY <1>1, <1>2, <1>3, <1>4, ConcatProperties DEF NetWriterInv, NetWriterTypeOK
<1>6. CountersFollow' /\ StreamedCounts'
  BY <1>1 DEF NetWriterInv, CountersFollow, StreamedCounts, DatasStreamed
<1>7. WriterRemembers'
  BY <1>1 DEF NetWriterInv, WriterRemembers, Remembered, ItemsOf
<1>8. WrittenKeepsRules'
  BY <1>1 DEF NetWriterInv, WrittenKeepsRules
<1>9. StreamedInPlace'
  <2>1. ASSUME NEW i \in 1 .. Len(written)
        PROVE  /\ EndOf(written[i]) <= Len(stream')
               /\ SubSeq(stream', written[i].offset + 1, EndOf(written[i]))
                    = Stored(written[i])
               /\ i < Len(written) =>
                    EndOf(written[i]) <= written[i + 1].offset
    <3>1. written[i] \in Records
      BY <1>4, ElementOfSeq
    <3>2. /\ EndOf(written[i]) <= Len(stream)
          /\ SubSeq(stream, written[i].offset + 1, EndOf(written[i]))
               = Stored(written[i])
          /\ i < Len(written) => EndOf(written[i]) <= written[i + 1].offset
      BY DEF NetWriterInv, StreamedInPlace
    <3> QED
      BY <1>2, <1>3, <1>4, <3>1, <3>2, AppendKeepsRecord
  <2> QED
    BY <1>1, <2>1 DEF StreamedInPlace
<1>10. stream' # <<>>
  BY <1>2, <1>3, <1>4, LongerIsNotEmpty DEF Throws, Writable
<1> QED
  BY <1>5, <1>6, <1>7, <1>8, <1>9, <1>10 DEF NetWriterInv, EmptyIsNew

(***************************************************************************)
(* A writer that has written nothing keeps its promises, whatever is in    *)
(* the stream.                                                             *)
(***************************************************************************)
LEMMA NothingWritten ==
  ASSUME stream \in Seq(Cells), sequence = 0, recordCount = 0,
         dataRecordCount = 0, schemas = {}, lastBlobIndexes = {},
         disposed \in BOOLEAN, written = <<>>
  PROVE  NetWriterInv
<1>1. Len(written) = 0 /\ written \in Seq(Records)
  BY EmptySeq
<1>2. SequenceMod \in Nat \ {0} /\ 0 % SequenceMod = 0
  <2>1. SequenceMod \in Nat \ {0}
    BY SequenceAssumption
  <2> QED
    BY <2>1
<1>3. Cardinality(DatasStreamed(0)) = 0
  BY FS_EmptySet DEF DatasStreamed
<1> QED
  BY <1>1, <1>2, <1>3
     DEF NetWriterInv, NetWriterTypeOK, EmptyIsNew, CountersFollow,
         WriterRemembers, StreamedInPlace, StreamedCounts, WrittenKeepsRules

(***************************************************************************)
(* Nothing in the invariant depends on whether the writer is disposed of.  *)
(***************************************************************************)
LEMMA NothingMoves ==
  ASSUME NetWriterInv,
         UNCHANGED <<stream, sequence, recordCount, dataRecordCount,
                     schemas, lastBlobIndexes, written>>,
         disposed' \in BOOLEAN
  PROVE  NetWriterInv'
<1>1. NetWriterTypeOK' /\ EmptyIsNew'
  BY DEF NetWriterInv, NetWriterTypeOK, EmptyIsNew
<1>2. CountersFollow' /\ StreamedCounts'
  BY DEF NetWriterInv, CountersFollow, StreamedCounts, DatasStreamed
<1>3. WriterRemembers'
  BY DEF NetWriterInv, WriterRemembers, Remembered, ItemsOf
<1>4. StreamedInPlace' /\ WrittenKeepsRules'
  <2>1. StreamedInPlace'
    BY DEF NetWriterInv, StreamedInPlace
  <2>2. WrittenKeepsRules'
    <3>1. written' = written /\ WrittenKeepsRules
      BY DEF NetWriterInv
    <3> QED
      BY <3>1 DEF WrittenKeepsRules
  <2> QED
    BY <2>1, <2>2
<1> QED
  BY <1>1, <1>2, <1>3, <1>4 DEF NetWriterInv

(***************************************************************************)
(* Every call keeps the invariant.                                         *)
(***************************************************************************)
LEMMA NetCallKeeps ==
  ASSUME NetWriterInv, NetWriterCall
  PROVE  NetWriterInv'
<1>1. NetWriterTypeOK /\ WriterRemembers /\ stream \in Seq(Cells)
  BY DEF NetWriterInv, NetWriterTypeOK
<1>3. CASE WriteOutcome
  <2>1. PICK r : Streams(r) \/ Throws(r)
    BY <1>3 DEF WriteOutcome
  <2> QED
    BY <2>1, StreamsKeeps, ThrowsKeeps
<1>4. CASE Construct
  <2>1. FileHeader \in Cells
    BY DEF Cells
  <2>2. stream' \in Seq(Cells) /\ stream' # <<>>
    BY <1>4, <2>1 DEF Construct
  <2>3. /\ written = <<>> /\ Len(written) = 0
        /\ UNCHANGED <<sequence, recordCount, dataRecordCount, schemas,
                       lastBlobIndexes, disposed, written>>
    BY <1>4, EmptySeq DEF Construct, NetWriterInv, EmptyIsNew
  <2>4. NetWriterTypeOK' /\ EmptyIsNew'
    BY <1>1, <2>2, <2>3 DEF NetWriterTypeOK, EmptyIsNew
  <2>5. CountersFollow' /\ StreamedCounts'
    BY <2>3
       DEF NetWriterInv, CountersFollow, StreamedCounts, DatasStreamed
  <2>6. WriterRemembers'
    BY <2>3 DEF NetWriterInv, WriterRemembers
  <2>7. StreamedInPlace' /\ WrittenKeepsRules'
    BY <2>3 DEF StreamedInPlace, WrittenKeepsRules
  <2> QED
    BY <2>2, <2>4, <2>5, <2>6, <2>7 DEF NetWriterInv
<1>5. CASE Dispose
  <2>1. /\ UNCHANGED <<stream, sequence, recordCount, dataRecordCount,
                       schemas, lastBlobIndexes, written>>
        /\ stream # <<>> /\ disposed' \in BOOLEAN
    BY <1>5 DEF Dispose
  <2> QED
    BY <2>1, NothingMoves
<1> QED
  BY <1>1, <1>3, <1>4, <1>5, NetCallOutcome

(***************************************************************************)
(* What a .NET writer promises holds throughout its life, whatever calls   *)
(* are refused or throw.                                                   *)
(***************************************************************************)
THEOREM NetWriterInvariant == NetWriterSpec => []NetWriterInv
<1>1. NetWriterInit => NetWriterInv
  <2> SUFFICES ASSUME NetWriterInit PROVE NetWriterInv
    OBVIOUS
  <2>1. stream \in Seq(Cells)
    BY EmptySeq DEF NetWriterInit
  <2> QED
    BY <2>1, NothingWritten DEF NetWriterInit
<1>2. NetWriterInv /\ [NetWriterCall]_netWriterVars => NetWriterInv'
  <2> SUFFICES ASSUME NetWriterInv, [NetWriterCall]_netWriterVars
               PROVE  NetWriterInv'
    OBVIOUS
  <2>1. CASE NetWriterCall
    BY <2>1, NetCallKeeps
  <2>2. CASE UNCHANGED netWriterVars
    <3>1. disposed' \in BOOLEAN
      BY <2>2 DEF netWriterVars, NetWriterInv, NetWriterTypeOK
    <3> QED
      BY <2>2, <3>1, NothingMoves DEF netWriterVars
  <2> QED
    BY <2>1, <2>2
<1> QED
  BY <1>1, <1>2, PTL DEF NetWriterSpec

(***************************************************************************)
(* Records whose write calls returned stay in the stream whole and apart,  *)
(* whatever Writes of the Stream throw before and after (SdafWriter.cs,    *)
(* WriteRecord).                                                           *)
(***************************************************************************)
THEOREM StreamedStaysInPlace == NetWriterSpec => []StreamedInPlace
<1>1. NetWriterInv => StreamedInPlace
  BY DEF NetWriterInv
<1> QED
  BY <1>1, NetWriterInvariant, PTL

(***************************************************************************)
(* Sequence numbers and the totals of END records count exactly the        *)
(* records whose calls returned, for a sequence field of any width.        *)
(***************************************************************************)
THEOREM StreamedCountsStayTrue == NetWriterSpec => []StreamedCounts
<1>1. NetWriterInv => StreamedCounts
  BY DEF NetWriterInv
<1> QED
  BY <1>1, NetWriterInvariant, PTL

(***************************************************************************)
(* The .NET writer never writes two contents for one schema revision, nor  *)
(* the items of a blob stream out of order: what it remembers (_schemas,   *)
(* _lastBlobIndexes) covers every record it has written.                   *)
(***************************************************************************)
THEOREM WriterKeepsRules == NetWriterSpec => []WrittenKeepsRules
<1>1. NetWriterInv => WrittenKeepsRules
  BY DEF NetWriterInv
<1> QED
  BY <1>1, NetWriterInvariant, PTL

-----------------------------------------------------------------------------
(* The stream as a reader finds it. *)

(***************************************************************************)
(* A header cell says how long its record is.                              *)
(***************************************************************************)
LEMMA StreamClaim ==
  ASSUME stream \in Seq(Cells), NEW p \in 1 .. Len(stream), HeadAt(p)
  PROVE  /\ stream[p] \in HeadCells
         /\ stream[p].is \in Contents
         /\ ClaimedEnd(p) \in Nat
         /\ ClaimedEnd(p) >= p
<1>1. stream[p] \in HeadCells
  BY ElementOfSeq, CellKinds DEF HeadAt
<1>2. stream[p].is \in Contents
  BY <1>1 DEF HeadCells
<1>3. stream[p].is.size \in Nat /\ stream[p].is.trailer \in BOOLEAN
  BY <1>2 DEF Contents
<1>4. PICK total \in Nat :
        /\ total = TotalSize(stream[p].is.size, stream[p].is.trailer)
        /\ total >= 1
  <2>1. /\ TotalSize(stream[p].is.size, stream[p].is.trailer) \in Nat
        /\ TotalSize(stream[p].is.size, stream[p].is.trailer) >= 1
    BY <1>3, TotalSizes
  <2> QED
    BY <2>1
<1>5. ClaimedEnd(p) = p - 1 + total /\ p \in Nat /\ p >= 1
  BY <1>4, LenProperties DEF ClaimedEnd
<1> QED
  BY <1>1, <1>2, <1>4, <1>5

(***************************************************************************)
(* Whatever is appended begins with a header or a fragment, so a header    *)
(* whose extent ran past the end of the stream now runs into that.         *)
(***************************************************************************)
LEMMA EarlierHeadsStay ==
  ASSUME StreamInv, NEW s \in Seq(Cells), Len(s) >= 1,
         s[1].cell \in {"head", "fragment"},
         stream' = stream \o s,
         landed' = landed \/ \E r \in Records : landed' = Append(landed, r),
         NEW p \in 1 .. Len(stream), HeadAt(p)'
  PROVE  /\ stream'[p].crc = Crc32c(stream'[p].is)
         /\ stream'[p].is.excess = 0
         /\ LandedAt(p)' \/ TornAt(p)'
<1>1. stream \in Seq(Cells) /\ landed \in Seq(Records) /\ HeadsAccounted
  BY DEF StreamInv, NetWriterInv, NetWriterTypeOK
<1>2. PICK n \in Nat : n = Len(stream)
  BY <1>1, LenProperties
<1>3. PICK m \in Nat : m = Len(s) /\ m >= 1
  BY LenProperties
<1>4. /\ Len(stream') = n + m
      /\ \A q \in 1 .. n : stream'[q] = stream[q]
      /\ stream'[n + 1] = s[1]
  <2>1. /\ stream' \in Seq(Cells)
        /\ Len(stream') = n + m
        /\ \A q \in 1 .. n + m :
             stream'[q] = IF q <= n THEN stream[q] ELSE s[q - n]
    BY <1>1, <1>2, <1>3, ConcatProperties
  <2>2. n + 1 \in 1 .. n + m /\ ~(n + 1 <= n) /\ (n + 1) - n = 1
    BY <1>3
  <2>3. stream'[n + 1] = s[1]
    BY <2>1, <2>2
  <2>4. \A q \in 1 .. n : q \in 1 .. n + m /\ q <= n
    OBVIOUS
  <2> QED
    BY <2>1, <2>3, <2>4
<1>5. /\ HeadAt(p)
      /\ stream[p].crc = Crc32c(stream[p].is)
      /\ stream[p].is.excess = 0
      /\ LandedAt(p) \/ TornAt(p)
  BY <1>1, <1>2, <1>4 DEF HeadAt, HeadsAccounted
<1>6. LandedAt(p) => LandedAt(p)'
  <2>1. \A i \in 1 .. Len(landed) :
          i \in 1 .. Len(landed') /\ landed'[i] = landed[i]
    <3>1. landed \in Seq(Records)
      BY DEF StreamInv
    <3>2. ASSUME NEW r \in Records, landed' = Append(landed, r)
          PROVE  \A i \in 1 .. Len(landed) :
                   i \in 1 .. Len(landed') /\ landed'[i] = landed[i]
      <4>1. PICK l \in Nat : l = Len(landed)
        BY <3>1, LenProperties
      <4>2. /\ Len(landed') = l + 1
            /\ \A i \in 1 .. l : landed'[i] = landed[i]
        BY <3>1, <3>2, <4>1, AppendProperties
      <4>3. \A i \in 1 .. l : i \in 1 .. l + 1
        OBVIOUS
      <4> QED
        BY <4>1, <4>2, <4>3
    <3> QED
      BY <3>2
  <2> QED
    BY <2>1 DEF LandedAt
<1>7. ClaimedEnd(p)' = ClaimedEnd(p) /\ ClaimedEnd(p) \in Nat
  <2>1. ClaimedEnd(p)' = ClaimedEnd(p)
    BY <1>2, <1>4 DEF ClaimedEnd
  <2> QED
    BY <1>1, <1>5, <2>1, StreamClaim
<1>8. CASE ClaimedEnd(p) > Len(stream)
  <2>1. n + 1 \in p + 1 .. Len(stream') /\ n + 1 <= ClaimedEnd(p)'
    BY <1>2, <1>3, <1>4, <1>7, <1>8
  <2> QED
    BY <1>2, <1>4, <1>5, <2>1 DEF TornAt
<1>9. CASE \E q \in p + 1 .. Len(stream) :
             q <= ClaimedEnd(p) /\ stream[q].cell \in {"head", "fragment"}
  <2>1. PICK q \in p + 1 .. Len(stream) :
          q <= ClaimedEnd(p) /\ stream[q].cell \in {"head", "fragment"}
    BY <1>9
  <2>2. q \in p + 1 .. Len(stream') /\ q \in 1 .. n
    BY <1>2, <1>3, <1>4
  <2> QED
    BY <1>2, <1>4, <1>5, <1>7, <2>1, <2>2 DEF TornAt
<1> QED
  BY <1>2, <1>4, <1>5, <1>6, <1>8, <1>9 DEF TornAt

(***************************************************************************)
(* A record appended whole leaves every header accounted for.              *)
(***************************************************************************)
LEMMA WholeAccounts ==
  ASSUME StreamInv, NEW r \in Records, r.offset = Len(stream),
         stream' = stream \o Stored(r), landed' = Append(landed, r)
  PROVE  HeadsAccounted'
<1>1. stream \in Seq(Cells) /\ landed \in Seq(Records)
  BY DEF StreamInv, NetWriterInv, NetWriterTypeOK
<1>2. PICK s \in Seq(Cells) :
        /\ s = Stored(r) /\ Len(s) >= 1 /\ s[1] = HeadCell(r)
        /\ \A k \in 2 .. Len(s) : s[k].cell # "head"
  BY StoredHeads
<1>3. /\ HeadCell(r).cell = "head"
      /\ HeadCell(r).crc = Crc32c(HeadCell(r).is)
      /\ HeadCell(r).is.excess = 0
  BY DEF HeadCell, HeaderContent
<1>4. PICK n \in Nat : n = Len(stream)
  BY <1>1, LenProperties
<1>5. PICK m \in Nat : m = Len(s) /\ m >= 1
  BY <1>2, LenProperties
<1>6. /\ Len(stream') = n + m
      /\ stream'[n + 1] = HeadCell(r)
      /\ \A p \in n + 2 .. n + m : stream'[p].cell # "head"
  BY <1>1, <1>2, <1>4, <1>5, OneHeadAppended
<1>7. LandedAt(n + 1)'
  <2>1. /\ Len(landed') \in 1 .. Len(landed')
        /\ landed'[Len(landed')] = r
    BY <1>1, AppendProperties, LenProperties
  <2>2. r.offset = (n + 1) - 1
    BY <1>4
  <2> QED
    BY <2>1, <2>2 DEF LandedAt
<1>8. ASSUME NEW p \in 1 .. Len(stream'), HeadAt(p)'
      PROVE  /\ stream'[p].crc = Crc32c(stream'[p].is)
             /\ stream'[p].is.excess = 0
             /\ LandedAt(p)' \/ TornAt(p)'
  <2>1. CASE p \in 1 .. n
    BY <1>2, <1>3, <1>4, <1>8, <2>1, EarlierHeadsStay
  <2>2. CASE p = n + 1
    BY <1>3, <1>6, <1>7, <2>2
  <2>3. CASE p \in n + 2 .. n + m
    BY <1>6, <1>8, <2>3 DEF HeadAt
  <2> QED
    BY <1>5, <1>6, <2>1, <2>2, <2>3
<1> QED
  BY <1>8 DEF HeadsAccounted

(***************************************************************************)
(* So does what a Write that throws leaves behind.                         *)
(***************************************************************************)
LEMMA TornAccounts ==
  ASSUME StreamInv, NEW r \in Records, NEW torn \in TornCells(r),
         stream' = stream \o torn, landed' = landed
  PROVE  HeadsAccounted'
<1>1. stream \in Seq(Cells) /\ HeadsAccounted
  BY DEF StreamInv, NetWriterInv, NetWriterTypeOK
<1>2. /\ torn \in Seq(Cells)
      /\ \A k \in 2 .. Len(torn) : torn[k].cell # "head"
  BY TornShape
<1>3. PICK n \in Nat : n = Len(stream)
  BY <1>1, LenProperties
<1>4. PICK m \in Nat : m = Len(torn)
  BY <1>2, LenProperties
<1>5. CASE m = 0
  <2>1. torn = <<>>
    BY <1>2, <1>4, <1>5, EmptySeq
  <2>2. stream' = stream
    BY <1>1, <2>1, ConcatEmptySeq
  <2> QED
    BY <1>1, <2>2
       DEF HeadsAccounted, HeadAt, LandedAt, TornAt, ClaimedEnd
<1>6. CASE m >= 1
  <2>1. PICK t \in Nat : t = TotalSize(Len(r.payload), r.trailer)
    BY StoredType
  <2>2. \/ torn[1] = Fragment
        \/ /\ torn[1] = HeadCell(r)
           /\ m < t \/ \E q \in 2 .. m : q <= t /\ torn[q] = Fragment
    BY <1>4, <1>6, <2>1, TornShape
  <2>3. /\ Fragment.cell = "fragment"
        /\ HeadCell(r).cell = "head"
        /\ HeadCell(r).crc = Crc32c(HeadCell(r).is)
        /\ HeadCell(r).is.excess = 0
        /\ HeadCell(r).is.size = Len(r.payload)
        /\ HeadCell(r).is.trailer = r.trailer
    BY DEF Fragment, HeadCell, HeaderContent
  <2>4. /\ Len(stream') = n + m
        /\ \A k \in 1 .. m : stream'[n + k] = torn[k]
    <3>1. /\ Len(stream') = n + m
          /\ \A q \in 1 .. n + m :
               stream'[q] = IF q <= n THEN stream[q] ELSE torn[q - n]
      BY <1>1, <1>2, <1>3, <1>4, ConcatProperties
    <3>2. ASSUME NEW k \in 1 .. m PROVE stream'[n + k] = torn[k]
      <4>1. n + k \in 1 .. n + m /\ ~(n + k <= n) /\ (n + k) - n = k
        OBVIOUS
      <4> QED
        BY <3>1, <4>1
    <3> QED
      BY <3>1, <3>2
  <2>5. stream'[n + 1] = torn[1]
    BY <1>6, <2>4
  <2>6. ASSUME torn[1] = HeadCell(r)
        PROVE  TornAt(n + 1)'
    <3>1. ClaimedEnd(n + 1)' = (n + 1) - 1 + t
      BY <2>1, <2>3, <2>5, <2>6 DEF ClaimedEnd
    <3>2. ClaimedEnd(n + 1)' = n + t
      BY <3>1
    <3>3. CASE m < t
      BY <2>4, <3>2, <3>3 DEF TornAt
    <3>4. CASE \E q \in 2 .. m : q <= t /\ torn[q] = Fragment
      <4>1. PICK q \in 2 .. m : q <= t /\ torn[q] = Fragment
        BY <3>4
      <4>2. /\ n + q \in (n + 1) + 1 .. Len(stream')
            /\ n + q <= ClaimedEnd(n + 1)'
            /\ stream'[n + q].cell = "fragment"
        BY <2>3, <2>4, <3>2, <4>1
      <4> QED
        BY <4>2 DEF TornAt
    <3>5. torn[1] # Fragment
      BY <2>3, <2>6
    <3> QED
      BY <2>2, <3>3, <3>4, <3>5
  <2>7. ASSUME NEW p \in 1 .. Len(stream'), HeadAt(p)'
        PROVE  /\ stream'[p].crc = Crc32c(stream'[p].is)
               /\ stream'[p].is.excess = 0
               /\ LandedAt(p)' \/ TornAt(p)'
    <3>1. CASE p \in 1 .. n
      <4>1. Len(torn) >= 1 /\ torn[1].cell \in {"head", "fragment"}
        BY <1>4, <1>6, <2>2, <2>3
      <4> QED
        BY <1>2, <1>3, <2>7, <3>1, <4>1, EarlierHeadsStay
    <3>2. CASE p = n + 1
      <4>1. torn[1] = HeadCell(r)
        BY <2>2, <2>3, <2>5, <2>7, <3>2 DEF HeadAt
      <4> QED
        BY <2>3, <2>5, <2>6, <3>2, <4>1
    <3>3. CASE p \in n + 2 .. n + m
      <4>1. PICK k \in 2 .. m : p = n + k
        <5>1. p - n \in 2 .. m /\ p = n + (p - n)
          BY <3>3
        <5> QED
          BY <5>1
      <4>2. stream'[p] = torn[k]
        BY <2>4, <4>1
      <4> QED
        BY <1>2, <1>4, <2>7, <4>1, <4>2 DEF HeadAt
    <3> QED
      BY <1>6, <2>4, <3>1, <3>2, <3>3
  <2> QED
    BY <2>7 DEF HeadsAccounted
<1> QED
  BY <1>4, <1>5, <1>6

(***************************************************************************)
(* A new record lies behind all the others, and behind the file header.    *)
(***************************************************************************)
LEMMA WholeFollows ==
  ASSUME StreamInv, NEW r \in Records, r.offset = Len(stream),
         stream # <<>>, landed' = Append(landed, r)
  PROVE  RecordsFollow'
<1>1. /\ landed \in Seq(Records) /\ stream \in Seq(Cells)
      /\ LandedInPlace /\ RecordsFollow
  BY DEF StreamInv, NetWriterInv, NetWriterTypeOK
<1>2. Len(stream) \in Nat /\ Len(stream) >= 1
  BY <1>1, EmptySeq, LenProperties
<1>3. PICK n \in Nat :
        /\ n = Len(landed) /\ Len(landed') = n + 1
        /\ \A i \in 1 .. n : landed'[i] = landed[i]
        /\ landed'[n + 1] = r
  BY <1>1, AppendProperties, LenProperties
<1>4. ASSUME NEW i \in 1 .. n + 1
      PROVE  /\ landed'[i].offset >= 1
             /\ \A j \in i + 1 .. n + 1 :
                  EndOf(landed'[i]) <= landed'[j].offset
  <2>1. CASE i \in 1 .. n
    <3>1. /\ landed[i].offset >= 1
          /\ \A j \in i + 1 .. n : EndOf(landed[i]) <= landed[j].offset
          /\ EndOf(landed[i]) <= Len(stream)
      BY <1>1, <1>3, <2>1 DEF RecordsFollow, LandedInPlace
    <3>2. ASSUME NEW j \in i + 1 .. n + 1
          PROVE  EndOf(landed'[i]) <= landed'[j].offset
      <4>1. CASE j \in i + 1 .. n
        <5>1. j \in 1 .. n
          BY <2>1, <4>1
        <5> QED
          BY <1>3, <2>1, <3>1, <4>1, <5>1
      <4>2. CASE j = n + 1
        BY <1>3, <2>1, <3>1, <4>2
      <4>3. i \in Nat /\ j <= n + 1
        BY <2>1
      <4>4. j \in i + 1 .. n \/ j = n + 1
        BY <4>3
      <4> QED
        BY <4>1, <4>2, <4>4
    <3> QED
      BY <1>3, <2>1, <3>1, <3>2
  <2>2. CASE i = n + 1
    BY <1>2, <1>3, <2>2
  <2>3. i \in 1 .. n \/ i = n + 1
    OBVIOUS
  <2> QED
    BY <2>1, <2>2, <2>3
<1> QED
  BY <1>3, <1>4 DEF RecordsFollow

(***************************************************************************)
(* What has landed stays where it is, and a record appended whole lies     *)
(* whole in the stream.                                                    *)
(***************************************************************************)
LEMMA LandedStays ==
  ASSUME StreamInv, NEW s \in Seq(Cells), stream' = stream \o s,
         NEW i \in 1 .. Len(landed)
  PROVE  /\ EndOf(landed[i]) <= Len(stream')
         /\ SubSeq(stream', landed[i].offset + 1, EndOf(landed[i]))
              = Stored(landed[i])
<1>1. stream \in Seq(Cells) /\ landed[i] \in Records
  BY ElementOfSeq DEF StreamInv, NetWriterInv, NetWriterTypeOK
<1>2. /\ EndOf(landed[i]) <= Len(stream)
      /\ SubSeq(stream, landed[i].offset + 1, EndOf(landed[i]))
           = Stored(landed[i])
  BY DEF StreamInv, LandedInPlace
<1> QED
  BY <1>1, <1>2, AppendKeepsRecord

LEMMA WholeLands ==
  ASSUME StreamInv, NEW r \in Records, r.offset = Len(stream),
         stream' = stream \o Stored(r), landed' = Append(landed, r)
  PROVE  LandedInPlace' /\ landed' \in Seq(Records)
<1>1. stream \in Seq(Cells) /\ landed \in Seq(Records)
  BY DEF StreamInv, NetWriterInv, NetWriterTypeOK
<1>2. PICK n \in Nat :
        /\ n = Len(landed) /\ Len(landed') = n + 1 /\ landed' \in Seq(Records)
        /\ \A i \in 1 .. n : landed'[i] = landed[i]
        /\ landed'[n + 1] = r
  BY <1>1, AppendProperties, LenProperties
<1>3. ASSUME NEW i \in 1 .. n + 1
      PROVE  /\ EndOf(landed'[i]) <= Len(stream')
             /\ SubSeq(stream', landed'[i].offset + 1, EndOf(landed'[i]))
                  = Stored(landed'[i])
  <2>1. CASE i \in 1 .. n
    <3>1. landed'[i] = landed[i] /\ Stored(r) \in Seq(Cells)
      BY <1>2, <2>1, StoredType
    <3> QED
      BY <1>2, <2>1, <3>1, LandedStays
  <2>2. CASE i = n + 1
    <3>1. /\ EndOf(r) = Len(stream') /\ Len(stream') \in Nat
          /\ SubSeq(stream', r.offset + 1, EndOf(r)) = Stored(r)
      BY <1>1, StoredInPlace, LenProperties
    <3> QED
      BY <1>2, <2>2, <3>1
  <2>3. i \in 1 .. n \/ i = n + 1
    OBVIOUS
  <2> QED
    BY <2>1, <2>2, <2>3
<1> QED
  BY <1>2, <1>3 DEF LandedInPlace

LEMMA TornLands ==
  ASSUME StreamInv, NEW s \in Seq(Cells), stream' = stream \o s,
         landed' = landed
  PROVE  LandedInPlace' /\ RecordsFollow'
<1>1. LandedInPlace'
  BY LandedStays DEF LandedInPlace
<1>2. RecordsFollow'
  BY DEF StreamInv, RecordsFollow
<1> QED
  BY <1>1, <1>2

(***************************************************************************)
(* A record that is new to the stream is none of those that have landed.   *)
(***************************************************************************)
LEMMA NewToTheStream ==
  ASSUME StreamInv, NEW r, r.offset = Len(stream), NEW k \in 1 .. Len(landed)
  PROVE  r # landed[k]
<1>1. landed[k] \in Records /\ Len(stream) \in Nat
  BY ElementOfSeq, LenProperties DEF StreamInv, NetWriterInv, NetWriterTypeOK
<1>2. PICK total \in Nat \ {0} :
        total = TotalSize(Len(landed[k].payload), landed[k].trailer)
  BY <1>1, StoredType
<1>3. landed[k].offset \in Nat /\ EndOf(landed[k]) = landed[k].offset + total
  BY <1>1, <1>2 DEF Records, EndOf
<1>4. EndOf(landed[k]) <= Len(stream)
  BY DEF StreamInv, LandedInPlace
<1>5. landed[k].offset < Len(stream)
  BY <1>1, <1>3, <1>4
<1> QED
  BY <1>1, <1>3, <1>5

(***************************************************************************)
(* The two histories take in a record whose call returns, and one that     *)
(* landed although its call threw is stranded.                             *)
(***************************************************************************)
LEMMA ReturningAgrees ==
  ASSUME StreamInv, NEW r, r.offset = Len(stream),
         written' = Append(written, r), landed' = Append(landed, r)
  PROVE  HistoriesAgree'
<1>1. /\ written \in Seq(Records) /\ landed \in Seq(Records)
      /\ HistoriesAgree
  BY DEF StreamInv, NetWriterInv, NetWriterTypeOK
<1>2. PICK n \in Nat :
        /\ n = Len(written) /\ Len(written') = n + 1
        /\ \A i \in 1 .. n : written'[i] = written[i]
        /\ written'[n + 1] = r
  BY <1>1, AppendProperties, LenProperties
<1>3. PICK m \in Nat :
        /\ m = Len(landed) /\ Len(landed') = m + 1 /\ n <= m
        /\ \A k \in 1 .. m : landed'[k] = landed[k]
        /\ landed'[m + 1] = r
  <2>1. Len(landed) \in Nat /\ n <= Len(landed)
    BY <1>1, <1>2, LenProperties DEF HistoriesAgree
  <2>2. /\ Len(landed') = Len(landed) + 1
        /\ \A k \in 1 .. Len(landed) : landed'[k] = landed[k]
        /\ landed'[Len(landed) + 1] = r
    BY <1>1, AppendProperties, LenProperties
  <2> QED
    BY <2>1, <2>2
<1>4. ASSUME NEW i \in 1 .. n + 1
      PROVE  \E k \in 1 .. m + 1 : landed'[k] = written'[i]
  <2>1. CASE i \in 1 .. n
    <3>1. PICK k \in 1 .. m : landed[k] = written[i]
      BY <1>1, <1>2, <1>3, <2>1 DEF HistoriesAgree
    <3>2. k \in 1 .. m + 1
      OBVIOUS
    <3> QED
      BY <1>2, <1>3, <2>1, <3>1, <3>2
  <2>2. CASE i = n + 1
    <3>1. m + 1 \in 1 .. m + 1
      OBVIOUS
    <3> QED
      BY <1>2, <1>3, <2>2, <3>1
  <2>3. i \in 1 .. n \/ i = n + 1
    OBVIOUS
  <2> QED
    BY <2>1, <2>2, <2>3
<1>5. ASSUME NEW k \in 1 .. m, ~Stranded(k)'
      PROVE  ~Stranded(k)
  <2>1. PICK i \in 1 .. n + 1 : written'[i] = landed[k]
    BY <1>2, <1>3, <1>5 DEF Stranded
  <2>2. i # n + 1
    BY <1>2, <1>3, <2>1, NewToTheStream
  <2> QED
    BY <1>2, <2>1, <2>2 DEF Stranded
<1>6. ASSUME NEW l \in 1 .. m, \A k \in 1 .. l : ~Stranded(k)'
      PROVE  l <= n /\ landed[l] = written[l]
  <2>1. \A k \in 1 .. l : k \in 1 .. m
    OBVIOUS
  <2>2. \A k \in 1 .. l : ~Stranded(k)
    BY <1>5, <1>6, <2>1
  <2> QED
    BY <1>1, <1>2, <1>3, <2>2 DEF HistoriesAgree
<1>7. ASSUME NEW l \in 1 .. m + 1, \A k \in 1 .. l : ~Stranded(k)'
      PROVE  l <= n + 1 /\ landed'[l] = written'[l]
  <2>1. CASE l \in 1 .. m
    <3>1. l <= n /\ landed[l] = written[l]
      BY <1>6, <1>7, <2>1
    <3>2. l \in 1 .. n
      BY <3>1
    <3> QED
      BY <1>2, <1>3, <2>1, <3>1, <3>2
  <2>2. CASE l = m + 1
    <3>1. m = n
      <4>1. CASE m = 0
        BY <1>3, <4>1
      <4>2. CASE m # 0
        <5>1. m \in 1 .. m /\ \A k \in 1 .. m : k \in 1 .. l
          BY <2>2, <4>2
        <5>2. m <= n
          BY <1>6, <1>7, <5>1
        <5> QED
          BY <1>3, <5>2
      <4> QED
        BY <4>1, <4>2
    <3> QED
      BY <1>2, <1>3, <2>2, <3>1
  <2>3. l \in 1 .. m \/ l = m + 1
    OBVIOUS
  <2> QED
    BY <2>1, <2>2, <2>3
<1> QED
  BY <1>2, <1>3, <1>4, <1>7 DEF HistoriesAgree

LEMMA ThrowingAgrees ==
  ASSUME StreamInv, NEW r, r.offset = Len(stream),
         written' = written, landed' = Append(landed, r)
  PROVE  HistoriesAgree'
<1>1. /\ written \in Seq(Records) /\ landed \in Seq(Records)
      /\ HistoriesAgree
  BY DEF StreamInv, NetWriterInv, NetWriterTypeOK
<1>2. PICK n \in Nat : n = Len(written)
  BY <1>1, LenProperties
<1>3. PICK m \in Nat :
        /\ m = Len(landed) /\ Len(landed') = m + 1 /\ n <= m
        /\ \A k \in 1 .. m : landed'[k] = landed[k]
        /\ landed'[m + 1] = r
  BY <1>1, <1>2, AppendProperties, LenProperties DEF HistoriesAgree
<1>4. ASSUME NEW i \in 1 .. n
      PROVE  \E k \in 1 .. m + 1 : landed'[k] = written[i]
  <2>1. PICK k \in 1 .. m : landed[k] = written[i]
    BY <1>1, <1>2, <1>3 DEF HistoriesAgree
  <2>2. k \in 1 .. m + 1
    OBVIOUS
  <2> QED
    BY <1>3, <2>1, <2>2
<1>5. Stranded(m + 1)'
  <2>1. ASSUME NEW i \in 1 .. n
        PROVE  written[i] # r
    BY <1>1, <1>2, NewToTheStream DEF HistoriesAgree
  <2> QED
    BY <1>2, <1>3, <2>1 DEF Stranded
<1>6. ASSUME NEW l \in 1 .. m + 1, \A k \in 1 .. l : ~Stranded(k)'
      PROVE  l <= n /\ landed'[l] = written[l]
  <2>1. l # m + 1
    BY <1>5, <1>6
  <2>2. l \in 1 .. m /\ \A k \in 1 .. l : k \in 1 .. m
    BY <2>1
  <2>3. \A k \in 1 .. l : ~Stranded(k)
    BY <1>3, <1>6, <2>2 DEF Stranded
  <2> QED
    BY <1>1, <1>2, <1>3, <2>2, <2>3 DEF HistoriesAgree
<1> QED
  BY <1>2, <1>3, <1>4, <1>6 DEF HistoriesAgree

LEMMA TornAgrees ==
  ASSUME StreamInv, UNCHANGED <<written, landed>>
  PROVE  HistoriesAgree'
BY DEF StreamInv, HistoriesAgree, Stranded

(***************************************************************************)
(* Every call keeps the stream as a reader needs it.                       *)
(***************************************************************************)
LEMMA NetCallKeepsStream ==
  ASSUME StreamInv, NetWriterCall
  PROVE  StreamInv'
<1>1. /\ NetWriterInv /\ stream \in Seq(Cells) /\ RecordsFollow
      /\ HeadsAccounted
      /\ stream # <<>> => stream[1] = FileHeader
      /\ NetWriterTypeOK /\ WriterRemembers
  BY DEF StreamInv, NetWriterInv, NetWriterTypeOK
<1>2. NetWriterInv'
  BY <1>1, NetCallKeeps
<1>3. ASSUME stream # <<>>, NEW more \in Seq(Cells), stream' = stream \o more
      PROVE  stream'[1] = FileHeader
  <2>1. 1 \in 1 .. Len(stream) + Len(more) /\ 1 <= Len(stream)
    BY <1>1, <1>3, EmptySeq, LenProperties
  <2>2. (stream \o more)[1] = stream[1]
    BY <1>1, <2>1, ConcatProperties
  <2> QED
    BY <1>1, <1>3, <2>2
<1>4. ASSUME NEW r, Streams(r)
      PROVE  StreamInv'
  <2>1. /\ r \in Records /\ r.offset = Len(stream) /\ stream # <<>>
        /\ stream' = stream \o Stored(r) /\ written' = Append(written, r)
        /\ landed' = Append(landed, r)
    BY <1>4 DEF Streams, Writable, WriteRecord
  <2>2. stream'[1] = FileHeader
    BY <1>3, <2>1, StoredType
  <2>3. stream' # <<>>
    BY <1>1, <2>1, LongerIsNotEmpty, StoredType
  <2>4. LandedInPlace' /\ landed' \in Seq(Records)
    BY <2>1, WholeLands
  <2>5. RecordsFollow' /\ HeadsAccounted'
    BY <2>1, WholeAccounts, WholeFollows
  <2>6. HistoriesAgree'
    BY <2>1, ReturningAgrees
  <2> QED
    BY <1>2, <2>2, <2>3, <2>4, <2>5, <2>6 DEF StreamInv
<1>5. ASSUME NEW r, Throws(r)
      PROVE  StreamInv'
  <2>1. /\ r \in Records /\ r.offset = Len(stream) /\ stream # <<>>
        /\ written' = written /\ Interrupted(r)
    BY <1>5 DEF Throws, Writable, WriteThrows
  <2>2. ASSUME NEW torn \in TornCells(r), stream' = stream \o torn,
               landed' = landed
        PROVE  StreamInv'
    <3>1. torn \in Seq(Cells)
      BY <2>1, TornShape
    <3>2. stream'[1] = FileHeader /\ stream' # <<>>
      BY <1>1, <1>3, <2>1, <2>2, <3>1, LongerIsNotEmpty
    <3>3. LandedInPlace' /\ RecordsFollow' /\ landed' \in Seq(Records)
      BY <2>2, <3>1, TornLands DEF StreamInv
    <3>4. HeadsAccounted' /\ HistoriesAgree'
      BY <2>1, <2>2, TornAccounts, TornAgrees
    <3> QED
      BY <1>2, <3>2, <3>3, <3>4 DEF StreamInv
  <2>3. ASSUME stream' = stream \o Stored(r), landed' = Append(landed, r)
        PROVE  StreamInv'
    <3>1. stream'[1] = FileHeader /\ stream' # <<>>
      BY <1>1, <1>3, <2>1, <2>3, StoredType, LongerIsNotEmpty
    <3>2. LandedInPlace' /\ RecordsFollow' /\ landed' \in Seq(Records)
      BY <2>1, <2>3, WholeLands, WholeFollows
    <3>3. HeadsAccounted' /\ HistoriesAgree'
      BY <2>1, <2>3, WholeAccounts, ThrowingAgrees
    <3> QED
      BY <1>2, <3>1, <3>2, <3>3 DEF StreamInv
  <2> QED
    BY <2>1, <2>2, <2>3 DEF Interrupted
<1>6. CASE Construct
  <2>1. FileHeader.cell # "head"
    BY DEF FileHeader
  <2>2. Len(stream') = 1 /\ stream'[1] = FileHeader
    BY <1>6 DEF Construct
  <2>3. HeadsAccounted'
    BY <2>1, <2>2 DEF HeadsAccounted, HeadAt
  <2>4. /\ landed = <<>> /\ landed' = <<>> /\ Len(<<>>) = 0
        /\ landed' \in Seq(Records)
    BY <1>6 DEF Construct, StreamInv
  <2>5. RecordsFollow' /\ LandedInPlace'
    BY <2>4 DEF RecordsFollow, LandedInPlace
  <2>6. HistoriesAgree'
    BY <1>6, TornAgrees DEF Construct
  <2> QED
    BY <1>2, <2>2, <2>3, <2>4, <2>5, <2>6 DEF StreamInv
<1>7. CASE Dispose
  BY <1>1, <1>2, <1>7
     DEF Dispose, StreamInv, RecordsFollow, HeadsAccounted, HeadAt, LandedAt,
         TornAt, ClaimedEnd, LandedInPlace, HistoriesAgree, Stranded
<1> QED
  BY <1>1, <1>4, <1>5, <1>6, <1>7, NetCallOutcome DEF WriteOutcome

(***************************************************************************)
(* A writer that does nothing keeps it, too.                               *)
(***************************************************************************)
LEMMA WriterStandsStill ==
  ASSUME StreamInv, UNCHANGED netWriterVars
  PROVE  StreamInv'
<1>1. disposed' \in BOOLEAN
  BY DEF netWriterVars, StreamInv, NetWriterInv, NetWriterTypeOK
<1>2. NetWriterInv'
  BY <1>1, NothingMoves DEF netWriterVars, StreamInv
<1>3. /\ (landed \in Seq(Records))'
      /\ (stream # <<>> => stream[1] = FileHeader)'
      /\ (stream = <<>> => landed = <<>>)'
  BY DEF netWriterVars, StreamInv
<1>4. LandedInPlace' /\ HistoriesAgree'
  BY DEF netWriterVars, StreamInv, LandedInPlace, HistoriesAgree, Stranded
<1>5. RecordsFollow' /\ HeadsAccounted'
  BY DEF netWriterVars, StreamInv, RecordsFollow, HeadsAccounted, HeadAt,
         LandedAt, TornAt, ClaimedEnd
<1> QED
  BY <1>2, <1>3, <1>4, <1>5 DEF StreamInv

(***************************************************************************)
(* An empty stream is one a reader can trust.                              *)
(***************************************************************************)
LEMMA StreamBegins == NetWriterInit => StreamInv
<1> SUFFICES ASSUME NetWriterInit PROVE StreamInv
  OBVIOUS
<1>1. /\ stream \in Seq(Cells) /\ Len(stream) = 0 /\ Len(written) = 0
      /\ landed \in Seq(Records) /\ Len(landed) = 0
  BY EmptySeq DEF NetWriterInit
<1>2. NetWriterInv
  BY <1>1, NothingWritten DEF NetWriterInit
<1> QED
  BY <1>1, <1>2
     DEF NetWriterInit, StreamInv, RecordsFollow, HeadsAccounted,
         LandedInPlace, HistoriesAgree

(***************************************************************************)
(* No record header in the stream can be taken for a record that does not  *)
(* lie there whole, wherever Writes have thrown, and up to the first call  *)
(* that threw when its last byte was taken those are the records whose     *)
(* calls returned.                                                         *)
(***************************************************************************)
THEOREM StreamInvariant == NetWriterSpec => []StreamInv
<1>1. StreamInv /\ [NetWriterCall]_netWriterVars => StreamInv'
  BY NetCallKeepsStream, WriterStandsStill
<1> QED
  BY <1>1, StreamBegins, PTL DEF NetWriterSpec

-----------------------------------------------------------------------------
(* The rules between records. *)

(***************************************************************************)
(* What the writer remembers of a schema is what was written of it.        *)
(***************************************************************************)
LEMMA WrittenSchemas ==
  ASSUME NetWriterInv, SchemasWereWritten, NEW s \in schemas
  PROVE  /\ SchemasBefore(written, Len(written), s.id, s.rev) # {}
         /\ \A i \in SchemasBefore(written, Len(written), s.id, s.rev) :
              LayoutOf(written[i]) = s.layout
<1>1. SchemasBefore(written, Len(written), s.id, s.rev) # {}
  BY DEF SchemasWereWritten
<1>2. ASSUME NEW i \in SchemasBefore(written, Len(written), s.id, s.rev)
      PROVE  LayoutOf(written[i]) = s.layout
  <2>1. /\ i \in 1 .. Len(written)
        /\ written[i].type = "SCMA"
        /\ written[i].fields.id = s.id /\ written[i].fields.rev = s.rev
    BY <1>2 DEF SchemasBefore
  <2>2. PICK t \in schemas :
          /\ written[i].fields = [id |-> t.id, rev |-> t.rev]
          /\ written[i].payload = <<LayoutCell(t.layout)>>
    BY <2>1 DEF NetWriterInv, WriterRemembers, Remembered
  <2>3. t.id = s.id /\ t.rev = s.rev
    BY <2>1, <2>2
  <2>4. t = s
    BY <2>3 DEF NetWriterInv, WriterRemembers
  <2> QED
    BY <2>2, <2>4 DEF LayoutOf, LayoutCell
<1> QED
  BY <1>1, <1>2

(***************************************************************************)
(* A schema the writer takes does not redefine an earlier one.             *)
(***************************************************************************)
LEMMA SchemaIsLawful ==
  ASSUME NetWriterInv, NEW c \in SchemaCalls,
         SchemasOf(c.schema.id, c.schema.rev) \subseteq {c.schema}, NEW r,
         r.type = "SCMA", r.fields = [id |-> c.schema.id, rev |-> c.schema.rev],
         r.payload = <<LayoutCell(c.schema.layout)>>
  PROVE  Lawful(written, Len(written), r)
<1>1. /\ Len(r.payload) = 1
      /\ r.payload[1].cell = "layout"
      /\ LayoutOf(r) = c.schema.layout
      /\ r.fields.id = c.schema.id /\ r.fields.rev = c.schema.rev
  BY DEF LayoutOf, LayoutCell
<1>2. ASSUME NEW i \in SchemasBefore(written, Len(written), c.schema.id,
                                    c.schema.rev)
      PROVE  LayoutOf(written[i]) = c.schema.layout
  <2>1. /\ i \in 1 .. Len(written)
        /\ written[i].type = "SCMA"
        /\ written[i].fields.id = c.schema.id
        /\ written[i].fields.rev = c.schema.rev
    BY <1>2 DEF SchemasBefore
  <2>2. PICK t \in schemas :
          /\ written[i].fields = [id |-> t.id, rev |-> t.rev]
          /\ written[i].payload = <<LayoutCell(t.layout)>>
    BY <2>1 DEF NetWriterInv, WriterRemembers, Remembered
  <2>3. t \in SchemasOf(c.schema.id, c.schema.rev)
    BY <2>1, <2>2 DEF SchemasOf
  <2>4. t = c.schema
    BY <2>3
  <2> QED
    BY <2>2, <2>4 DEF LayoutOf, LayoutCell
<1> QED
  BY <1>1, <1>2 DEF Lawful, LawfulSchema

(***************************************************************************)
(* DATA the writer takes fits the schema that was written for it.          *)
(***************************************************************************)
LEMMA DataIsLawful ==
  ASSUME NetWriterInv, SchemasWereWritten, NEW c \in DataCalls,
         c.id # 0, c.rev # 0, c.stream # 0,
         DataFits(c), TimesAgree(c.mode, c.stamps, c.count), NEW r,
         r.type = "DATA",
         r.fields = [id |-> c.id, rev |-> c.rev, stream |-> c.stream,
                     first |-> c.first, count |-> c.count, mode |-> c.mode,
                     times |-> c.times, stamps |-> c.stamps,
                     decoded |-> Len(c.values), profile |-> c.profile],
         r.payload = Encoded(c.profile, c.values)
  PROVE  Lawful(written, Len(written), r)
<1>1. PICK s \in schemas :
        /\ s.id = c.id /\ s.rev = c.rev
        /\ HoldsData(s.layout, c.stream, c.mode)
        /\ Len(c.values) =
             ExpectedSize(s.layout, c.stream, c.count, c.stamps)
  BY DEF DataFits, SchemasOf
<1>2. /\ SchemasBefore(written, Len(written), c.id, c.rev) # {}
      /\ \A i \in SchemasBefore(written, Len(written), c.id, c.rev) :
           LayoutOf(written[i]) = s.layout
  BY <1>1, WrittenSchemas
<1>3. DecodedSize(c.profile, Encoded(c.profile, c.values)) = Len(c.values)
  <2>1. c.values \in Seq(Values)
    BY NetWriterAssumption
  <2> QED
    BY <2>1, EncodedSize
<1>4. /\ r.fields.id = c.id /\ r.fields.rev = c.rev
      /\ r.fields.stream = c.stream /\ r.fields.count = c.count
      /\ r.fields.mode = c.mode /\ r.fields.stamps = c.stamps
      /\ r.fields.decoded = Len(c.values) /\ r.fields.profile = c.profile
  OBVIOUS
<1>5. LawfulData(written, Len(written), r)
  BY <1>1, <1>2, <1>3, <1>4 DEF LawfulData
<1> QED
  BY <1>5 DEF Lawful

(***************************************************************************)
(* So does a text, or it refers to nothing.                                *)
(***************************************************************************)
LEMMA TextIsLawful ==
  ASSUME NetWriterInv, SchemasWereWritten, NEW c,
         \/ c.id = 0 /\ c.rev = 0 /\ c.stream = 0
         \/ /\ c.id # 0 /\ c.rev # 0 /\ c.stream # 0
            /\ StreamIsA(c.id, c.rev, c.stream, {"text"}),
         NEW r, r.type = "TEXT",
         r.fields = [id |-> c.id, rev |-> c.rev, stream |-> c.stream]
  PROVE  Lawful(written, Len(written), r)
<1>1. /\ r.fields.id = c.id /\ r.fields.rev = c.rev
      /\ r.fields.stream = c.stream
  OBVIOUS
<1>2. CASE c.id = 0 /\ c.rev = 0 /\ c.stream = 0
  BY <1>1, <1>2 DEF Lawful, LawfulText
<1>3. CASE /\ c.id # 0 /\ c.rev # 0 /\ c.stream # 0
           /\ StreamIsA(c.id, c.rev, c.stream, {"text"})
  <2>1. PICK s \in schemas : /\ s.id = c.id /\ s.rev = c.rev
                             /\ KindOf(s.layout, c.stream) = "text"
    BY <1>3 DEF StreamIsA, SchemasOf
  <2>2. /\ SchemasBefore(written, Len(written), c.id, c.rev) # {}
        /\ \A i \in SchemasBefore(written, Len(written), c.id, c.rev) :
             LayoutOf(written[i]) = s.layout
    BY <2>1, WrittenSchemas
  <2> QED
    BY <1>1, <1>3, <2>1, <2>2 DEF Lawful, LawfulText
<1> QED
  BY <1>2, <1>3

(***************************************************************************)
(* An item the writer takes has a larger index than those written.         *)
(***************************************************************************)
LEMMA ItemIsLawful ==
  ASSUME NetWriterInv, SchemasWereWritten, NEW c \in BlobCalls,
         StreamIsA(c.id, c.rev, c.stream, {"blob"}), NextItem(c),
         c.profile \in {"none", "zstd"}, NEW r,
         r.type = "BLOB",
         r.fields = [id |-> c.id, rev |-> c.rev, stream |-> c.stream,
                     first |-> c.first, decoded |-> Len(c.values),
                     profile |-> c.profile],
         r.payload = Encoded(c.profile, c.values)
  PROVE  Lawful(written, Len(written), r)
<1>1. PICK s \in schemas : /\ s.id = c.id /\ s.rev = c.rev
                           /\ KindOf(s.layout, c.stream) = "blob"
  BY DEF StreamIsA, SchemasOf
<1>2. /\ SchemasBefore(written, Len(written), c.id, c.rev) # {}
      /\ \A i \in SchemasBefore(written, Len(written), c.id, c.rev) :
           LayoutOf(written[i]) = s.layout
  BY <1>1, WrittenSchemas
<1>3. /\ DecodedSize(c.profile, Encoded(c.profile, c.values)) = Len(c.values)
      /\ c.first \in Nat
  <2>1. c.values \in Seq(Values) /\ c.first \in Nat
    BY NetWriterAssumption
  <2> QED
    BY <2>1, EncodedSize
<1>4. ASSUME NEW i \in ItemsBefore(written, Len(written), c.id, c.stream)
      PROVE  written[i].fields.first < c.first
  <2>1. /\ i \in 1 .. Len(written)
        /\ written[i].type = "BLOB"
        /\ written[i].fields.id = c.id /\ written[i].fields.stream = c.stream
    BY <1>4 DEF ItemsBefore
  <2>2. /\ written[i].fields \in BlobFields
        /\ \E k \in ItemsOf(c.id, c.stream) :
             written[i].fields.first <= k.index
    BY <2>1 DEF NetWriterInv, WriterRemembers, Remembered
  <2>3. PICK k \in ItemsOf(c.id, c.stream) :
          written[i].fields.first <= k.index
    BY <2>2
  <2>4. k.index < c.first /\ k \in Items
    BY <2>3 DEF NextItem, ItemsOf, NetWriterInv, NetWriterTypeOK
  <2>5. written[i].fields.first \in Nat /\ k.index \in Nat
    BY <2>2, <2>4 DEF BlobFields, Items
  <2> QED
    BY <1>3, <2>3, <2>4, <2>5
<1>5. /\ r.fields.id = c.id /\ r.fields.rev = c.rev
      /\ r.fields.stream = c.stream /\ r.fields.first = c.first
      /\ r.fields.decoded = Len(c.values) /\ r.fields.profile = c.profile
  OBVIOUS
<1>6. LawfulItem(written, Len(written), r)
  BY <1>1, <1>2, <1>3, <1>4, <1>5 DEF LawfulItem
<1> QED
  BY <1>6 DEF Lawful

(***************************************************************************)
(* An index made from what was written is true, and END counts right.      *)
(***************************************************************************)
LEMMA IndexIsLawful ==
  ASSUME StrayEntries = {}, NEW entries \in IndexArguments,
         NEW r, r.type = "INDX", r.payload = entries
  PROVE  Lawful(written, Len(written), r)
<1>1. \/ entries = <<>>
      \/ \E i \in 1 .. Len(written) : /\ written[i].type \in {"DATA", "BLOB"}
                                      /\ entries = <<EntryFor(written[i])>>
  BY DEF IndexArguments
<1>2. CASE entries = <<>>
  BY <1>2 DEF Lawful
<1>3. CASE entries # <<>>
  <2>1. PICK i \in 1 .. Len(written) :
          /\ written[i].type \in {"DATA", "BLOB"}
          /\ entries = <<EntryFor(written[i])>>
    BY <1>1, <1>3
  <2>2. TrueEntry(written, Len(written), EntryFor(written[i]))
    BY <2>1 DEF TrueEntry, EntryFor
  <2>3. Len(r.payload) = 1 /\ r.payload[1] = EntryFor(written[i])
    BY <2>1
  <2> QED
    BY <2>2, <2>3 DEF Lawful
<1> QED
  BY <1>2, <1>3

LEMMA EndIsLawful ==
  ASSUME NetWriterInv, NEW lastIndex \in LastIndexes,
         NEW r, r.type = "END!", r.payload = <<>>,
         r.fields = [total |-> recordCount + 1, datas |-> dataRecordCount,
                     lastIndex |-> lastIndex]
  PROVE  Lawful(written, Len(written), r)
<1>1. DatasBefore(written, Len(written)) = DatasStreamed(Len(written))
  BY DEF DatasBefore, DatasStreamed
<1>2. /\ r.fields.total = Len(written) + 1
      /\ r.fields.datas = Cardinality(DatasBefore(written, Len(written)))
      /\ r.fields.lastIndex = lastIndex
  BY <1>1 DEF NetWriterInv, CountersFollow
<1>3. \/ lastIndex = 0
      \/ \E i \in 1 .. Len(written) : /\ written[i].type = "INDX"
                                      /\ written[i].offset = lastIndex
  BY DEF LastIndexes
<1> QED
  BY <1>2, <1>3 DEF Lawful, LawfulEnd

(***************************************************************************)
(* A call writes nothing, or one record, which may follow those before it. *)
(***************************************************************************)
WritesLawfully ==
  \/ written' = written
  \/ \E r : written' = Append(written, r) /\ Lawful(written, Len(written), r)

LEMMA CallIsLawful ==
  ASSUME NetWriterInv, SchemasWereWritten, StrayEntries = {}, NetWriterCall
  PROVE  WritesLawfully
<1>1. ASSUME NEW type, NEW trailer, NEW fields, NEW payload
      PROVE  /\ NewRecord(type, trailer, fields, payload).type = type
             /\ NewRecord(type, trailer, fields, payload).fields = fields
             /\ NewRecord(type, trailer, fields, payload).payload = payload
  BY DEF NewRecord
<1>2. ASSUME NEW r, WriteRecord(r) \/ WriteThrows(r),
             Lawful(written, Len(written), r)
      PROVE  WritesLawfully
  BY <1>2 DEF WriteRecord, WriteThrows, WritesLawfully
<1>3. CASE Construct \/ Dispose
  BY <1>3 DEF Construct, Dispose, WritesLawfully
<1>4. ASSUME NEW c \in SchemaCalls, WriteSchema(c)
      PROVE  WritesLawfully
  <2> DEFINE r == NewRecord("SCMA", c.trailer,
                    [id |-> c.schema.id, rev |-> c.schema.rev],
                    <<LayoutCell(c.schema.layout)>>)
  <2>1. /\ SchemasOf(c.schema.id, c.schema.rev) \subseteq {c.schema}
        /\ WriteRecord(r) \/ WriteThrows(r)
    BY <1>4 DEF WriteSchema, LayoutCell
  <2>2. /\ r.type = "SCMA"
        /\ r.fields = [id |-> c.schema.id, rev |-> c.schema.rev]
        /\ r.payload = <<LayoutCell(c.schema.layout)>>
    BY <1>1
  <2> HIDE DEF r
  <2> QED
    BY <1>2, <2>1, <2>2, SchemaIsLawful
<1>5. ASSUME NEW c \in DataCalls, WriteData(c)
      PROVE  WritesLawfully
  <2> DEFINE fields == [id |-> c.id, rev |-> c.rev, stream |-> c.stream,
                        first |-> c.first, count |-> c.count, mode |-> c.mode,
                        times |-> c.times, stamps |-> c.stamps,
                        decoded |-> Len(c.values), profile |-> c.profile]
             r == NewRecord("DATA", c.trailer, fields,
                            Encoded(c.profile, c.values))
  <2>1. /\ c.id # 0 /\ c.rev # 0 /\ c.stream # 0
        /\ DataFits(c) /\ TimesAgree(c.mode, c.stamps, c.count)
        /\ WriteRecord(r) \/ WriteThrows(r)
    BY <1>5 DEF WriteData
  <2>2. /\ r.type = "DATA" /\ r.fields = fields
        /\ r.payload = Encoded(c.profile, c.values)
    BY <1>1
  <2> HIDE DEF r
  <2> QED
    BY <1>2, <2>1, <2>2, DataIsLawful
<1>6. ASSUME NEW c \in TextCalls, WriteText(c)
      PROVE  WritesLawfully
  <2> DEFINE fields == [id |-> c.id, rev |-> c.rev, stream |-> c.stream]
             r == NewRecord("TEXT", c.trailer, fields, AsCells(c.values))
  <2>1. /\ \/ c.id = 0 /\ c.rev = 0 /\ c.stream = 0
           \/ /\ c.id # 0 /\ c.rev # 0 /\ c.stream # 0
              /\ StreamIsA(c.id, c.rev, c.stream, {"text"})
        /\ WriteRecord(r) \/ WriteThrows(r)
    BY <1>6 DEF WriteText, WritePlain
  <2>2. r.type = "TEXT" /\ r.fields = fields
    BY <1>1
  <2> HIDE DEF r
  <2> QED
    BY <1>2, <2>1, <2>2, TextIsLawful
<1>7. ASSUME NEW c \in BlobCalls, WriteBlob(c)
      PROVE  WritesLawfully
  <2> DEFINE fields == [id |-> c.id, rev |-> c.rev, stream |-> c.stream,
                        first |-> c.first, decoded |-> Len(c.values),
                        profile |-> c.profile]
             r == NewRecord("BLOB", c.trailer, fields,
                            Encoded(c.profile, c.values))
  <2>1. /\ StreamIsA(c.id, c.rev, c.stream, {"blob"}) /\ NextItem(c)
        /\ c.profile \in {"none", "zstd"}
        /\ WriteRecord(r) \/ WriteThrows(r)
    BY <1>7 DEF WriteBlob
  <2>2. /\ r.type = "BLOB" /\ r.fields = fields
        /\ r.payload = Encoded(c.profile, c.values)
    BY <1>1
  <2> HIDE DEF r
  <2> QED
    BY <1>2, <2>1, <2>2, ItemIsLawful
<1>8. ASSUME NEW type \in {"NOTE", "PRIV"}, NEW trailer, NEW payload,
             WritePlain(NewRecord(type, trailer, NoFields, payload))
      PROVE  WritesLawfully
  <2>1. Lawful(written, Len(written),
               NewRecord(type, trailer, NoFields, payload))
    BY <1>1 DEF Lawful
  <2> QED
    BY <1>2, <1>8, <2>1 DEF WritePlain
<1>9. ASSUME NEW entries \in IndexArguments, WriteIndex(entries, FALSE)
      PROVE  WritesLawfully
  <2>1. PICK none \in BOOLEAN : none = FALSE
    OBVIOUS
  <2>2. Lawful(written, Len(written),
               NewRecord("INDX", none, NoFields, entries))
    BY <1>1, IndexIsLawful
  <2>3. WritePlain(NewRecord("INDX", none, NoFields, entries))
    BY <1>9, <2>1 DEF WriteIndex
  <2> QED
    BY <1>2, <2>2, <2>3 DEF WritePlain
<1>10. ASSUME NEW lastIndex \in LastIndexes, WriteEnd(lastIndex)
       PROVE  WritesLawfully
  <2> DEFINE fields == [total |-> recordCount + 1, datas |-> dataRecordCount,
                        lastIndex |-> lastIndex]
  <2>1. PICK none \in BOOLEAN, nothing \in Seq(PayloadCells) :
          none = FALSE /\ nothing = <<>>
    <3>1. <<>> \in Seq(PayloadCells) /\ FALSE \in BOOLEAN
      OBVIOUS
    <3> QED
      BY <3>1, Zenon
  <2> DEFINE r == NewRecord("END!", none, fields, nothing)
  <2>2. WritePlain(r)
    BY <1>10, <2>1 DEF WriteEnd
  <2>3. r.type = "END!" /\ r.fields = fields /\ r.payload = nothing
    BY <1>1
  <2> HIDE DEF r
  <2> QED
    BY <1>2, <2>1, <2>2, <2>3, EndIsLawful DEF WritePlain
<1> QED
  BY <1>3, <1>4, <1>5, <1>6, <1>7, <1>8, <1>9, <1>10
     DEF NetWriterCall, WriteNote, WritePrivateRecord

(***************************************************************************)
(* Every call keeps the rules, and what the writer remembers of schemas is *)
(* still what was written.                                                 *)
(***************************************************************************)
LEMMA CallKeepsSchemas ==
  ASSUME NetWriterInv, SchemasWereWritten, NetWriterCall
  PROVE  SchemasWereWritten'
<1>1. /\ NetWriterTypeOK /\ WriterRemembers /\ written \in Seq(Records)
  BY DEF NetWriterInv, NetWriterTypeOK
<1>2. ASSUME NEW r, Streams(r)
      PROVE  SchemasWereWritten'
  <2>1. r \in Records /\ written' = Append(written, r) /\ NotesSchema(r)
    BY <1>2 DEF Streams, Writable, WriteRecord
  <2>2. PICK n \in Nat : n = Len(written)
    BY <1>1, LenProperties
  <2>3. /\ Len(written') = n + 1
        /\ \A i \in 1 .. n : written'[i] = written[i]
        /\ written'[n + 1] = r
    BY <1>1, <2>1, <2>2, AppendProperties
  <2>4. ASSUME NEW s \in schemas'
        PROVE  SchemasBefore(written', Len(written'), s.id, s.rev) # {}
    <3>1. CASE s \in schemas
      <4>1. PICK i \in 1 .. n : /\ written[i].type = "SCMA"
                                /\ written[i].fields.id = s.id
                                /\ written[i].fields.rev = s.rev
        BY <2>2, <3>1 DEF SchemasWereWritten, SchemasBefore
      <4>2. i \in 1 .. n + 1 /\ written'[i] = written[i]
        BY <2>3
      <4> QED
        BY <2>3, <4>1, <4>2 DEF SchemasBefore
    <3>2. CASE s \notin schemas
      <4>1. r.type = "SCMA" /\ r.fields = [id |-> s.id, rev |-> s.rev]
        BY <2>1, <2>4, <3>2 DEF NotesSchema
      <4>2. r.fields.id = s.id /\ r.fields.rev = s.rev
        BY <4>1
      <4>3. n + 1 \in 1 .. n + 1
        OBVIOUS
      <4> QED
        BY <2>3, <4>1, <4>2, <4>3 DEF SchemasBefore
    <3> QED
      BY <3>1, <3>2
  <2> QED
    BY <2>4 DEF SchemasWereWritten
<1>3. CASE UNCHANGED <<schemas, written>>
  BY <1>3 DEF SchemasWereWritten
<1>4. UNCHANGED <<schemas, written>> \/ \E r : Streams(r)
  BY <1>1, NetCallOutcome
     DEF WriteOutcome, Throws, WriteThrows, Construct, Dispose
<1> QED
  BY <1>2, <1>3, <1>4

LEMMA CallKeepsRules ==
  ASSUME RulesInv, NetWriterCall
  PROVE  RulesInv'
<1>1. NetWriterInv' /\ SchemasWereWritten'
  BY NetCallKeeps, CallKeepsSchemas DEF RulesInv
<1>2. StreamedIsLawful'
  <2> SUFFICES ASSUME StrayEntries = {} PROVE LawfulLog(written')
    BY DEF StreamedIsLawful
  <2>1. LawfulLog(written) /\ written \in Seq(Records)
    BY DEF RulesInv, StreamedIsLawful, NetWriterInv, NetWriterTypeOK
  <2>2. WritesLawfully
    BY CallIsLawful DEF RulesInv
  <2>3. CASE written' = written
    BY <2>1, <2>3
  <2>4. ASSUME NEW r, written' = Append(written, r),
               Lawful(written, Len(written), r)
        PROVE  LawfulLog(written')
    <3>1. r \in Records
      <4>1. PICK n \in Nat : n = Len(written)
        BY <2>1, LenProperties
      <4>2. Len(written') = n + 1 /\ written'[n + 1] = r
        BY <2>1, <2>4, <4>1
      <4>3. n + 1 \in 1 .. Len(written')
        BY <4>2
      <4>4. written' \in Seq(Records)
        BY <1>1 DEF NetWriterInv, NetWriterTypeOK
      <4> QED
        BY <4>2, <4>3, <4>4, ElementOfSeq
    <3> QED
      BY <2>1, <2>4, <3>1, LawfulGrows
  <2> QED
    BY <2>2, <2>3, <2>4 DEF WritesLawfully
<1> QED
  BY <1>1, <1>2 DEF RulesInv

(***************************************************************************)
(* A writer that stands still keeps them, too.                             *)
(***************************************************************************)
LEMMA RulesStandStill ==
  ASSUME RulesInv, UNCHANGED netWriterVars
  PROVE  RulesInv'
<1>1. /\ UNCHANGED <<stream, sequence, recordCount, dataRecordCount, schemas,
                     lastBlobIndexes, written, disposed>>
      /\ disposed' \in BOOLEAN
  BY DEF netWriterVars, RulesInv, NetWriterInv, NetWriterTypeOK
<1>2. NetWriterInv'
  BY <1>1, NothingMoves DEF RulesInv
<1>3. SchemasWereWritten'
  BY <1>1 DEF RulesInv, SchemasWereWritten
<1>4. StreamedIsLawful'
  BY <1>1 DEF RulesInv, StreamedIsLawful
<1> QED
  BY <1>2, <1>3, <1>4 DEF RulesInv

LEMMA RulesBegin == NetWriterInit => RulesInv
<1> SUFFICES ASSUME NetWriterInit PROVE RulesInv
  OBVIOUS
<1>1. stream \in Seq(Cells) /\ Len(written) = 0
  BY EmptySeq DEF NetWriterInit
<1>2. NetWriterInv
  BY <1>1, NothingWritten DEF NetWriterInit
<1>3. SchemasWereWritten
  BY DEF NetWriterInit, SchemasWereWritten
<1>4. StreamedIsLawful
  BY <1>1 DEF StreamedIsLawful, LawfulLog
<1> QED
  BY <1>2, <1>3, <1>4 DEF RulesInv

(***************************************************************************)
(* What the .NET writer lets through keeps the rules between records, with *)
(* any arguments, any layouts and any exceptions: DATA, texts and items    *)
(* come after a schema that has room for them (RequireStreamKind and the   *)
(* size check of WriteData), item indexes grow, END counts right.          *)
(***************************************************************************)
THEOREM StreamedStaysLawful == NetWriterSpec => []StreamedIsLawful
<1>1. RulesInv /\ [NetWriterCall]_netWriterVars => RulesInv'
  BY CallKeepsRules, RulesStandStill
<1>2. RulesInv => StreamedIsLawful
  BY DEF RulesInv
<1> QED
  BY <1>1, <1>2, RulesBegin, PTL DEF NetWriterSpec

-----------------------------------------------------------------------------
(* What the writer adds. *)

(***************************************************************************)
(* A call adds to the stream and to the history, and takes nothing back; a *)
(* record it adds ends behind all that was there.                          *)
(***************************************************************************)
StreamKept ==
  /\ Len(stream) <= Len(stream')
  /\ \A p \in 1 .. Len(stream) : stream'[p] = stream[p]
  /\ Len(landed) <= Len(landed')
  /\ \A i \in 1 .. Len(landed) : landed'[i] = landed[i]
  /\ \A i \in Len(landed) + 1 .. Len(landed') :
       EndOf(landed'[i]) > Len(stream)

LEMMA CallKeepsStream ==
  ASSUME StreamInv, NetWriterCall
  PROVE  StreamInv' /\ StreamKept
<1>1. /\ stream \in Seq(Cells) /\ landed \in Seq(Records)
      /\ NetWriterTypeOK /\ WriterRemembers /\ EmptyIsNew
  BY DEF StreamInv, NetWriterInv, NetWriterTypeOK
<1>2. StreamInv'
  BY NetCallKeepsStream
<1>3. PICK n \in Nat, m \in Nat : n = Len(stream) /\ m = Len(landed)
  BY <1>1, LenProperties
<1>4. ASSUME NEW s \in Seq(Cells), stream' = stream \o s
      PROVE  /\ Len(stream) <= Len(stream')
             /\ \A p \in 1 .. Len(stream) : stream'[p] = stream[p]
  <2>1. PICK k \in Nat : k = Len(s)
    BY LenProperties
  <2>2. /\ Len(stream') = n + k
        /\ \A p \in 1 .. n + k :
             stream'[p] = IF p <= n THEN stream[p] ELSE s[p - n]
    BY <1>1, <1>3, <1>4, <2>1, ConcatProperties
  <2>3. \A p \in 1 .. n : p \in 1 .. n + k /\ p <= n
    BY <2>1
  <2> QED
    BY <1>3, <2>1, <2>2, <2>3
<1>5. ASSUME NEW r \in Records, r.offset = n,
             stream' = stream \o Stored(r), landed' = Append(landed, r)
      PROVE  StreamKept
  <2>1. Stored(r) \in Seq(Cells)
    BY StoredType
  <2>2. EndOf(r) > n
    <3>1. PICK total \in Nat :
            total = TotalSize(Len(r.payload), r.trailer) /\ total >= 1
      BY StoredType
    <3> QED
      BY <1>5, <3>1 DEF EndOf
  <2>3. /\ Len(landed') = m + 1
        /\ \A i \in 1 .. m : landed'[i] = landed[i]
        /\ landed'[m + 1] = r
    BY <1>1, <1>3, <1>5, AppendProperties
  <2>4. \A i \in m + 1 .. m + 1 : EndOf(landed'[i]) > n
    BY <2>2, <2>3
  <2> QED
    BY <1>3, <1>4, <1>5, <2>1, <2>3, <2>4 DEF StreamKept
<1>6. ASSUME NEW r, Streams(r) \/ Throws(r)
      PROVE  StreamKept
  <2>1. r \in Records /\ r.offset = n
    BY <1>3, <1>6 DEF Streams, Throws, Writable
  <2>2. CASE stream' = stream \o Stored(r) /\ landed' = Append(landed, r)
    BY <1>5, <2>1, <2>2
  <2>3. ASSUME NEW torn \in TornCells(r), stream' = stream \o torn,
               landed' = landed
        PROVE  StreamKept
    <3>1. torn \in Seq(Cells)
      BY <2>1, TornShape
    <3> QED
      BY <1>3, <1>4, <2>3, <3>1 DEF StreamKept
  <2> QED
    BY <1>6, <2>2, <2>3 DEF Streams, WriteRecord, Throws, WriteThrows, Interrupted
<1>7. CASE Construct
  <2>1. n = 0 /\ Len(stream') = 1 /\ landed' = landed
    BY <1>3, <1>7, EmptySeq DEF Construct
  <2> QED
    BY <1>2, <1>3, <2>1 DEF StreamKept
<1>8. CASE Dispose
  BY <1>2, <1>3, <1>8 DEF Dispose, StreamKept
<1> QED
  BY <1>1, <1>2, <1>6, <1>7, <1>8, NetCallOutcome DEF WriteOutcome

(***************************************************************************)
(* Where the records that have landed lie in the stream.                   *)
(***************************************************************************)
LEMMA StreamedCells ==
  ASSUME StreamInv, NEW i \in 1 .. Len(landed)
  PROVE  /\ landed[i] \in Records
         /\ landed[i].offset \in Nat \ {0}
         /\ Len(landed[i].payload) \in Nat
         /\ EndOf(landed[i]) \in landed[i].offset + 1 .. Len(stream)
         /\ stream[landed[i].offset + 1] = HeadCell(landed[i])
         /\ \A k \in 1 .. Len(landed[i].payload) :
              stream[landed[i].offset + 1 + k] = landed[i].payload[k]
         /\ landed[i].trailer =>
              stream[landed[i].offset + 2 + Len(landed[i].payload)]
                = TailCell(landed[i])
<1>1. /\ stream \in Seq(Cells) /\ landed[i] \in Records
      /\ EndOf(landed[i]) <= Len(stream)
      /\ SubSeq(stream, landed[i].offset + 1, EndOf(landed[i]))
           = Stored(landed[i])
  BY ElementOfSeq DEF StreamInv, NetWriterInv, NetWriterTypeOK, LandedInPlace
<1>2. landed[i].offset >= 1
  BY DEF StreamInv, RecordsFollow
<1>3. PICK r \in Records : r = landed[i]
  BY <1>1
<1>4. /\ r.offset \in Nat
      /\ Len(r.payload) \in Nat
      /\ EndOf(r) \in r.offset + 1 .. Len(stream)
      /\ stream[r.offset + 1] = HeadCell(r)
      /\ \A k \in 1 .. Len(r.payload) : stream[r.offset + 1 + k] = r.payload[k]
      /\ r.trailer => stream[r.offset + 2 + Len(r.payload)] = TailCell(r)
  BY <1>1, <1>3, RecordInBytes
<1>5. r.offset \in Nat \ {0}
  BY <1>2, <1>3, <1>4
<1> QED
  BY <1>3, <1>4, <1>5

-----------------------------------------------------------------------------
(* What the reader yields. *)

(***************************************************************************)
(* A record whose checksums the reader has found right: a header, payload  *)
(* cells and a trailer when there is one, no header or fragment among them.*)
(***************************************************************************)
ChecksumsRight ==
  /\ phase \in {"payload", "trailer"}
  /\ ~RunsShort(TotalSize(Claims.size, Claims.trailer))
  /\ IF Claims.trailer THEN TrailerFits ELSE Crc32c(Payload) = Claims.pcrc

LEMMA RecordRead ==
  ASSUME NetRecordingInv, ChecksumsRight
  PROVE  /\ place + 1 \in 1 .. Len(source)
         /\ Claims \in Contents
         /\ Here(1).cell = "head"
         /\ place + TotalSize(Claims.size, Claims.trailer) <= Len(source)
         /\ Payload \in Seq(PayloadCells)
         /\ \A q \in place + 2 .. place + TotalSize(Claims.size, Claims.trailer) :
              q \in 1 .. Len(source) /\ source[q].cell \notin {"head", "fragment"}
<1>1. source \in Seq(Cells) /\ place \in Nat /\ HeaderIsIntact
  BY DEF NetRecordingInv
<1>2. PICK len \in Nat : len = Len(source)
  BY <1>1, LenProperties
<1>3. /\ place + 1 \in 1 .. len
      /\ Here(1).cell = "head"
  BY <1>1, <1>2 DEF HeaderIsIntact, ChecksumsRight, Here
<1>4. Claims \in Contents
  <2>1. Here(1) \in HeadCells
    BY <1>1, <1>2, <1>3, ElementOfSeq, CellKinds DEF Here
  <2> QED
    BY <2>1 DEF Claims, HeadCells
<1>5. PICK size \in Nat, trailer \in BOOLEAN :
        size = Claims.size /\ trailer = Claims.trailer
  BY <1>4 DEF Contents
<1>6. PICK total \in Nat :
        /\ total = TotalSize(size, trailer)
        /\ trailer => total = size + 2
        /\ ~trailer => total = size + 1
  <2>1. /\ TotalSize(size, trailer) \in Nat
        /\ trailer => TotalSize(size, trailer) = size + 2
        /\ ~trailer => TotalSize(size, trailer) = size + 1
    BY TotalSizes
  <2> QED
    BY <2>1
<1>7. place + total <= len
  BY <1>1, <1>2, <1>5, <1>6 DEF ChecksumsRight, RunsShort, Has
<1>8. Payload \in Seq(PayloadCells)
  <2>1. CASE trailer
    <3>1. /\ source[place + (2 + size)].cell = "tail"
          /\ source[place + (2 + size)].crc = Crc32c(Payload)
      BY <1>5, <2>1 DEF ChecksumsRight, TrailerFits, Here
    <3>2. place + (2 + size) \in 1 .. len
      <4>1. total = size + 2
        BY <1>6, <2>1
      <4> QED
        BY <1>1, <1>7, <4>1
    <3>3. source[place + (2 + size)] \in TailCells
      BY <1>1, <1>2, <3>1, <3>2, ElementOfSeq, CellKinds
    <3> QED
      BY <3>1, <3>3 DEF TailCells, PayloadCrcs, Crc32c
  <2>2. CASE ~trailer
    <3>1. Crc32c(Payload) = Claims.pcrc
      BY <1>5, <2>2 DEF ChecksumsRight
    <3>2. Claims.pcrc \in PayloadCrcs
      BY <1>4 DEF Contents
    <3> QED
      BY <3>1, <3>2 DEF PayloadCrcs, Crc32c
  <2> QED
    BY <2>1, <2>2
<1>9. ASSUME NEW q \in place + 2 .. place + total
      PROVE  q \in 1 .. len /\ source[q].cell \notin {"head", "fragment"}
  <2>1. q \in 1 .. len
    BY <1>1, <1>7
  <2>2. CASE q <= place + 1 + size
    <3>1. \A i \in place + 2 .. place + 1 + size : source[i] \in Cells
      <4>1. place + 1 + size <= len
        <5>1. total = size + 2 \/ total = size + 1
          BY <1>6
        <5> QED
          BY <1>1, <1>7, <5>1
      <4>2. \A i \in 1 .. len : source[i] \in Cells
        BY <1>1, <1>2, ElementOfSeq
      <4> QED
        BY <1>1, <4>1, <4>2
    <3>2. \A i \in 1 .. (place + 1 + size) - (place + 2) + 1 :
            SubSeq(source, place + 2, place + 1 + size)[i]
              = source[(place + 2) + i - 1]
      BY <1>1, <3>1, SubSeqProperties
    <3>3. Len(SubSeq(source, place + 2, place + 1 + size)) >= q - place - 1
      <4>1. Len(SubSeq(source, place + 2, place + 1 + size))
              = IF place + 2 <= place + 1 + size
                THEN (place + 1 + size) - (place + 2) + 1 ELSE 0
        BY <1>1, <3>1, SubSeqProperties
      <4> QED
        BY <1>1, <2>2, <4>1
    <3>4. Payload = SubSeq(source, place + 2, place + 1 + size)
      BY <1>5 DEF Payload
    <3>5. q - place - 1 \in 1 .. Len(Payload)
      BY <1>1, <1>8, <3>3, <3>4, LenProperties
    <3>6. Payload[q - place - 1] = source[q]
      <4>1. /\ q - place - 1 \in 1 .. (place + 1 + size) - (place + 2) + 1
            /\ (place + 2) + (q - place - 1) - 1 = q
        BY <1>1, <2>2
      <4> QED
        BY <3>2, <3>4, <4>1
    <3>7. Payload[q - place - 1] \in PayloadCells
      BY <1>8, <3>5, ElementOfSeq
    <3> QED
      BY <2>1, <3>6, <3>7, CellKinds
  <2>3. CASE q > place + 1 + size
    <3>1. trailer /\ q = place + (2 + size)
      <4>1. CASE trailer
        <5>1. total = size + 2
          BY <1>6, <4>1
        <5> QED
          BY <1>1, <2>3, <4>1, <5>1
      <4>2. CASE ~trailer
        <5>1. total = size + 1
          BY <1>6, <4>2
        <5> QED
          BY <1>1, <2>3, <5>1
      <4> QED
        BY <4>1, <4>2
    <3>2. source[q].cell = "tail"
      BY <1>5, <3>1 DEF ChecksumsRight, TrailerFits, Here
    <3> QED
      BY <2>1, <3>2
  <2> QED
    BY <1>1, <2>2, <2>3
<1> QED
  BY <1>2, <1>3, <1>4, <1>5, <1>6, <1>7, <1>8, <1>9

(***************************************************************************)
(* The header of such a record belongs to one that landed, never to a torn *)
(* one: the extent of a torn record runs into a fragment or another header *)
(* or past the end of the stream.                                          *)
(***************************************************************************)
LEMMA ReadIsWritten ==
  ASSUME NetRecordingInv, ChecksumsRight
  PROVE  \E i \in 1 .. Len(landed) : landed[i].offset = place
<1>1. /\ HeadsAccounted /\ IsPassedOn /\ place \in Nat
      /\ stream \in Seq(Cells) /\ source \in Seq(Cells)
  BY DEF NetRecordingInv, StreamInv, NetWriterInv, NetWriterTypeOK
<1>2. PICK p \in Nat : p = place + 1 /\ p - 1 = place
  BY <1>1
<1>3. PICK len \in Nat, n \in Nat :
        len = Len(source) /\ n = Len(stream) /\ len <= n
  BY <1>1, LenProperties DEF IsPassedOn
<1>4. p \in 1 .. len /\ source[p].cell = "head" /\ Claims = source[p].is
  BY <1>2, <1>3, RecordRead DEF Here, Claims
<1>5. p \in 1 .. n /\ stream[p] = source[p]
  BY <1>1, <1>3, <1>4 DEF IsPassedOn
<1>6. HeadAt(p) /\ (LandedAt(p) \/ TornAt(p))
  BY <1>1, <1>3, <1>4, <1>5 DEF HeadAt, HeadsAccounted
<1>7. PICK total \in Nat : total = TotalSize(Claims.size, Claims.trailer)
  <2>1. Claims.size \in Nat /\ Claims.trailer \in BOOLEAN
    BY RecordRead DEF Contents
  <2> QED
    BY <2>1, TotalSizes
<1>8. ClaimedEnd(p) = place + total
  BY <1>1, <1>2, <1>4, <1>5, <1>7 DEF ClaimedEnd
<1>9. place + total <= len
  BY <1>3, <1>7, RecordRead
<1>10. ~TornAt(p)
  <2>1. ~(ClaimedEnd(p) > n)
    BY <1>1, <1>3, <1>8, <1>9
  <2>2. ASSUME NEW q \in p + 1 .. n, q <= ClaimedEnd(p),
               stream[q].cell \in {"head", "fragment"}
        PROVE  FALSE
    <3>1. q \in place + 2 .. place + total
      BY <1>1, <1>2, <1>8, <2>2
    <3>2. q \in 1 .. len /\ source[q].cell \notin {"head", "fragment"}
      BY <1>3, <1>7, <3>1, RecordRead
    <3> QED
      BY <1>1, <1>3, <2>2, <3>2 DEF IsPassedOn
  <2> QED
    BY <1>3, <2>1, <2>2 DEF TornAt
<1> QED
  BY <1>2, <1>6, <1>10 DEF LandedAt

(***************************************************************************)
(* The landed record there is the next one: those before it end where it   *)
(* begins, and those behind it begin later.                                *)
(***************************************************************************)
LEMMA PlaceIsNext ==
  ASSUME NetRecordingInv, phase \in {"between", "payload", "trailer"},
         NEW i \in 1 .. Len(landed), landed[i].offset = place
  PROVE  i = Len(yielded) + 1
<1>1. /\ StreamInv /\ YieldedIsPrefix /\ RecordsFollow
      /\ landed \in Seq(Records) /\ yielded \in Seq(Records)
      /\ place = PlaceAfter(Len(yielded))
  BY DEF NetRecordingInv, StreamInv, NetWriterInv, NetWriterTypeOK, PlaceFollows
<1>2. PICK n \in Nat, d \in Nat : n = Len(landed) /\ d = Len(yielded)
  BY <1>1, LenProperties
<1>3. \A k \in 1 .. n : /\ landed[k].offset \in Nat /\ EndOf(landed[k]) \in Nat
                        /\ landed[k].offset >= 1
                        /\ EndOf(landed[k]) > landed[k].offset
  <2> TAKE k \in 1 .. n
  <2>1. /\ landed[k].offset \in Nat \ {0}
        /\ EndOf(landed[k]) \in landed[k].offset + 1 .. Len(stream)
    BY <1>1, <1>2, StreamedCells
  <2> QED
    BY <2>1
<1>4. \A j, k \in 1 .. n : j < k => EndOf(landed[j]) <= landed[k].offset
  BY <1>1, <1>2 DEF RecordsFollow
<1>5. CASE d = 0
  <2>1. place = 1
    BY <1>1, <1>2, <1>5 DEF PlaceAfter
  <2>2. 1 \in 1 .. n
    BY <1>2
  <2>3. ~(1 < i)
    <3> SUFFICES ASSUME 1 < i PROVE FALSE
      OBVIOUS
    <3>1. EndOf(landed[1]) <= landed[i].offset
      BY <1>2, <1>4, <2>2
    <3>2. landed[1].offset >= 1 /\ EndOf(landed[1]) > landed[1].offset
      BY <1>3, <2>2
    <3> QED
      BY <1>2, <1>3, <2>1, <2>2, <3>1, <3>2
  <2> QED
    BY <1>2, <1>5, <2>3
<1>6. CASE d # 0
  <2>1. d \in 1 .. n /\ yielded[d] = landed[d]
    BY <1>1, <1>2, <1>6 DEF YieldedIsPrefix
  <2>2. place = EndOf(landed[d])
    BY <1>1, <1>2, <1>6, <2>1 DEF PlaceAfter
  <2>3. ~(i <= d)
    <3>1. CASE i = d
      BY <1>3, <2>1, <2>2, <3>1
    <3>2. CASE i < d
      BY <1>2, <1>3, <1>4, <2>1, <2>2, <3>2
    <3> QED
      BY <1>2, <3>1, <3>2
  <2>4. ~(i > d + 1)
    <3> SUFFICES ASSUME i > d + 1 PROVE FALSE
      OBVIOUS
    <3>1. d + 1 \in 1 .. n
      BY <1>2, <2>1
    <3>2. /\ EndOf(landed[d]) <= landed[d + 1].offset
          /\ EndOf(landed[d + 1]) <= landed[i].offset
      BY <1>2, <1>4, <2>1, <3>1
    <3> QED
      BY <1>2, <1>3, <2>1, <2>2, <3>1, <3>2
  <2> QED
    BY <1>2, <2>3, <2>4
<1> QED
  BY <1>5, <1>6

(***************************************************************************)
(* So what the reader yields is the next record landed, in every field     *)
(* and payload cell, and its last byte is in the file.                     *)
(***************************************************************************)
RecordHere ==
  [type |-> Claims.type, trailer |-> Claims.trailer, seq |-> Claims.seq,
   offset |-> place, fields |-> Claims.fields, payload |-> Payload]

LEMMA YieldsNext ==
  ASSUME NetRecordingInv, ChecksumsRight
  PROVE  /\ Len(yielded) + 1 \in 1 .. Len(landed)
         /\ RecordHere = landed[Len(yielded) + 1]
         /\ place + TotalSize(Claims.size, Claims.trailer) = EndOf(RecordHere)
         /\ EndOf(RecordHere) \in 0 .. Len(source)
         /\ RecordHere \in Records
<1>1. PICK i \in 1 .. Len(landed) : landed[i].offset = place
  BY ReadIsWritten
<1>2. i = Len(yielded) + 1
  BY <1>1, PlaceIsNext DEF ChecksumsRight
<1>3. /\ StreamInv /\ IsPassedOn /\ place \in Nat
      /\ stream \in Seq(Cells) /\ source \in Seq(Cells)
  BY DEF NetRecordingInv, StreamInv, NetWriterInv, NetWriterTypeOK
<1>4. PICK r \in Records : r = landed[i]
  BY <1>3, StreamedCells
<1>5. /\ r.type \in RecordTypes /\ r.trailer \in BOOLEAN
      /\ r.offset = place
      /\ r.payload \in Seq(PayloadCells)
  BY <1>1, <1>4 DEF Records
<1>6. /\ stream[place + 1] = HeadCell(r)
      /\ r.trailer => stream[place + 2 + Len(r.payload)] = TailCell(r)
  BY <1>3, <1>4, <1>5, StreamedCells
<1>7. Claims = HeaderContent(r)
  <2>1. place + 1 \in 1 .. Len(source)
    BY RecordRead
  <2>2. source[place + 1] = HeadCell(r)
    BY <1>3, <1>6, <2>1 DEF IsPassedOn
  <2> QED
    BY <2>2 DEF Claims, Here, HeadCell
<1>8. /\ Claims.type = r.type /\ Claims.trailer = r.trailer
      /\ Claims.seq = r.seq /\ Claims.fields = r.fields
      /\ Claims.size = Len(r.payload)
      /\ ~r.trailer => Claims.pcrc = Crc32c(r.payload)
  BY <1>7 DEF HeaderContent
<1>9. PICK n \in Nat, total \in Nat :
        /\ n = Len(r.payload) /\ total = TotalSize(n, r.trailer)
        /\ r.trailer => total = n + 2
  <2>1. PICK n \in Nat : n = Len(r.payload)
    BY <1>5, LenProperties
  <2>2. TotalSize(n, r.trailer) \in Nat
        /\ (r.trailer => TotalSize(n, r.trailer) = n + 2)
    BY <1>5, <2>1, TotalSizes
  <2> QED
    BY <2>1, <2>2
<1>10. place + total <= Len(source)
  BY <1>8, <1>9, RecordRead
<1>11. Payload = r.payload
  <2>1. CASE ~r.trailer
    <3>1. Crc32c(Payload) = Crc32c(r.payload)
      BY <1>8, <2>1 DEF ChecksumsRight
    <3> QED
      BY <3>1 DEF Crc32c
  <2>2. CASE r.trailer
    <3>1. PICK q \in Nat : q = place + (2 + n) /\ q = place + 2 + n
      BY <1>3
    <3>2. source[q].crc = Crc32c(Payload)
      BY <1>8, <1>9, <2>2, <3>1 DEF ChecksumsRight, TrailerFits, Here
    <3>3. q \in 1 .. Len(source)
      <4>1. total = n + 2
        BY <1>9, <2>2
      <4>2. q = place + total /\ q >= 1
        BY <1>3, <3>1, <4>1
      <4>3. Len(source) \in Nat
        BY <1>3, LenProperties
      <4> QED
        BY <1>10, <4>2, <4>3
    <3>4. source[q] = TailCell(r)
      BY <1>3, <1>6, <1>9, <2>2, <3>1, <3>3 DEF IsPassedOn
    <3>5. TailCell(r).crc = Crc32c(r.payload)
      BY DEF TailCell
    <3> QED
      BY <3>2, <3>4, <3>5 DEF Crc32c
  <2> QED
    BY <2>1, <2>2
<1>12. RecordHere = r
  <2>1. RecordHere =
          [type |-> r.type, trailer |-> r.trailer, seq |-> r.seq,
           offset |-> r.offset, fields |-> r.fields, payload |-> r.payload]
    BY <1>5, <1>8, <1>11 DEF RecordHere
  <2> QED
    BY <2>1 DEF Records
<1>13. place + TotalSize(Claims.size, Claims.trailer) = EndOf(r)
       /\ EndOf(r) = place + total
  BY <1>5, <1>8, <1>9 DEF EndOf
<1>14. EndOf(r) \in 0 .. Len(source)
  <2>1. Len(source) \in Nat
    BY <1>3, LenProperties
  <2> QED
    BY <1>3, <1>10, <1>13, <2>1
<1> QED
  BY <1>1, <1>2, <1>4, <1>12, <1>13, <1>14

-----------------------------------------------------------------------------
(* Where the enumeration ends. *)

(***************************************************************************)
(* If a record that is not yet yielded was whole in the file when it was   *)
(* opened, with no torn one before it, then all of the next record is in   *)
(* the file, and no fragment in it.                                        *)
(***************************************************************************)
LEMMA NextIsWhole ==
  ASSUME NetRecordingInv, phase \in {"between", "payload", "trailer"},
         NEW i \in WholeIn(opened), i > Len(yielded)
  PROVE  /\ Claims.excess = 0
         /\ Claims.size \in Nat
         /\ Claims.trailer \in BOOLEAN
         /\ ~RunsShort(1)
         /\ ~RunsShort(1 + Claims.size)
         /\ Claims.trailer => ~RunsShort(2 + Claims.size)
<1>1. /\ StreamInv /\ IsPassedOn /\ YieldedIsPrefix /\ place \in Nat
      /\ opened \in 0 .. Len(source)
      /\ landed \in Seq(Records) /\ yielded \in Seq(Records)
      /\ stream \in Seq(Cells) /\ source \in Seq(Cells)
      /\ place = PlaceAfter(Len(yielded))
      /\ RecordsFollow
  BY DEF NetRecordingInv, StreamInv, NetWriterInv, NetWriterTypeOK, PlaceFollows
<1>2. PICK m \in Nat, d \in Nat, n \in Nat :
        m = Len(landed) /\ d = Len(yielded) /\ n = Len(source)
  BY <1>1, LenProperties
<1>3. /\ i \in 1 .. m
      /\ EndOf(landed[i]) <= opened
      /\ landed[1].offset = 1
      /\ \A j \in 1 .. i - 1 : EndOf(landed[j]) = landed[j + 1].offset
  BY <1>2 DEF WholeIn
<1>4. PICK r \in Records : r = landed[d + 1] /\ d + 1 \in 1 .. m
  <2>1. d + 1 \in 1 .. m
    BY <1>2, <1>3
  <2> QED
    BY <1>1, <1>2, <2>1, StreamedCells
<1>5. r.offset = place
  <2>1. CASE d = 0
    BY <1>1, <1>2, <1>3, <1>4, <2>1 DEF PlaceAfter
  <2>2. CASE d # 0
    <3>1. d \in 1 .. i - 1 /\ d \in 1 .. d
      BY <1>2, <1>3, <2>2
    <3>2. yielded[d] = landed[d]
      BY <1>1, <1>2, <3>1 DEF YieldedIsPrefix
    <3> QED
      BY <1>1, <1>2, <1>3, <1>4, <2>2, <3>1, <3>2 DEF PlaceAfter
  <2> QED
    BY <2>1, <2>2
<1>6. /\ EndOf(r) \in Nat
      /\ stream[place + 1] = HeadCell(r)
      /\ Len(r.payload) \in Nat
      /\ \A k \in 1 .. Len(r.payload) : stream[place + 1 + k] = r.payload[k]
      /\ r.trailer => stream[place + 2 + Len(r.payload)] = TailCell(r)
  <2>1. Len(stream) \in Nat
    BY <1>1, LenProperties
  <2>2. d + 1 \in 1 .. Len(landed) /\ landed[d + 1] = r /\ r.offset = place
    BY <1>2, <1>4, <1>5
  <2>3. EndOf(r) \in r.offset + 1 .. Len(stream) /\ r.offset \in Nat
    BY <1>1, <2>2, StreamedCells
  <2>4. EndOf(r) \in Nat
    BY <2>1, <2>3
  <2> QED
    BY <1>1, <2>2, <2>4, StreamedCells
<1>7. EndOf(r) <= n
  <2>1. CASE i = d + 1
    BY <1>1, <1>2, <1>3, <1>4, <1>6, <2>1
  <2>2. CASE i > d + 1
    <3>1. EndOf(r) <= landed[i].offset
      <4>1. i \in (d + 1) + 1 .. m
        BY <1>3, <2>2
      <4> QED
        BY <1>1, <1>2, <1>4, <4>1 DEF RecordsFollow
    <3>2. /\ landed[i].offset \in Nat
          /\ EndOf(landed[i]) \in landed[i].offset + 1 .. Len(stream)
          /\ Len(stream) \in Nat
      BY <1>1, <1>2, <1>3, StreamedCells, LenProperties
    <3> QED
      BY <1>1, <1>2, <1>3, <1>6, <3>1, <3>2
  <2> QED
    BY <1>2, <1>3, <2>1, <2>2
<1>8. PICK size \in Nat : size = Len(r.payload)
  BY <1>6
<1>9. PICK trailer \in BOOLEAN, total \in Nat :
        /\ trailer = r.trailer
        /\ EndOf(r) = place + total
        /\ total >= size + 1
        /\ trailer => total = size + 2
        /\ ~trailer => total = size + 1
  <2>1. PICK trailer \in BOOLEAN : trailer = r.trailer
    BY DEF Records
  <2>2. PICK total \in Nat :
          /\ total = TotalSize(size, trailer)
          /\ trailer => total = size + 2
          /\ ~trailer => total = size + 1
    <3>1. /\ TotalSize(size, trailer) \in Nat
          /\ trailer => TotalSize(size, trailer) = size + 2
          /\ ~trailer => TotalSize(size, trailer) = size + 1
      BY TotalSizes
    <3> QED
      BY <3>1
  <2>3. total >= size + 1
    BY <2>2
  <2>4. EndOf(r) = place + total
    BY <1>5, <1>8, <2>1, <2>2 DEF EndOf
  <2> QED
    BY <2>1, <2>2, <2>3, <2>4
<1>10. place + total <= n
  BY <1>7, <1>9
<1>11. \A k \in 1 .. total : Has(k) /\ Here(k) = stream[place + k]
  BY <1>1, <1>2, <1>10 DEF Has, Here, IsPassedOn
<1>12. Claims = HeaderContent(r)
  <2>1. 1 \in 1 .. total
    BY <1>9
  <2> QED
    BY <1>6, <1>11, <2>1 DEF Claims, HeadCell
<1>13. Claims.excess = 0 /\ Claims.size = size /\ Claims.trailer = trailer
  BY <1>8, <1>9, <1>12 DEF HeaderContent
<1>14. ASSUME NEW k \in 1 .. total
       PROVE  Here(k) # Fragment
  <2>1. Fragment.cell = "fragment" /\ HeadCell(r).cell = "head"
        /\ TailCell(r).cell = "tail"
    BY DEF Fragment, HeadCell, TailCell
  <2>2. CASE k = 1
    BY <1>6, <1>11, <2>1, <2>2
  <2>3. CASE k \in 2 .. size + 1
    <3>1. PICK j \in 1 .. size : k = 1 + j /\ place + k = place + 1 + j
      <4>1. /\ k - 1 \in 1 .. size /\ k = 1 + (k - 1)
            /\ place + k = place + 1 + (k - 1)
        BY <1>1, <2>3
      <4> QED
        BY <4>1
    <3>2. Here(k) = r.payload[j]
      BY <1>6, <1>8, <1>11, <3>1
    <3>3. r.payload[j] \in PayloadCells
      BY <1>8, <3>1, ElementOfSeq DEF Records
    <3> QED
      BY <2>1, <3>2, <3>3, CellKinds
  <2>4. CASE k = size + 2
    <3>1. trailer /\ place + k = place + 2 + size
      BY <1>1, <1>9, <2>4
    <3> QED
      BY <1>6, <1>8, <1>9, <1>11, <2>1, <3>1
  <2>5. k = 1 \/ k \in 2 .. size + 1 \/ k = size + 2
    <3>1. total = size + 1 \/ total = size + 2
      BY <1>9
    <3> QED
      BY <3>1
  <2> QED
    BY <2>2, <2>3, <2>4, <2>5
<1>15. ASSUME NEW k \in 1 .. total PROVE ~RunsShort(k)
  <2>1. \A j \in 1 .. k : j \in 1 .. total
    OBVIOUS
  <2> QED
    BY <1>11, <1>14, <2>1 DEF RunsShort, Broken
<1>16. /\ 1 \in 1 .. total /\ 1 + size \in 1 .. total
       /\ trailer => 2 + size \in 1 .. total
  <2>1. trailer => total = size + 2
    BY <1>9
  <2>2. CASE trailer
    BY <2>1, <2>2
  <2>3. CASE ~trailer
    BY <1>9, <2>3
  <2> QED
    BY <2>2, <2>3
<1> QED
  BY <1>13, <1>15, <1>16

(***************************************************************************)
(* So an enumeration that ends for want of bytes has yielded everything    *)
(* that was whole when the file was opened.                                *)
(***************************************************************************)
LEMMA EndMeansNothingLeft ==
  ASSUME NetRecordingInv, phase \in {"between", "payload", "trailer"},
         \/ RunsShort(1)
         \/ ~RunsShort(1) /\ ~Has(1 + Claims.excess)
         \/ RunsShort(1 + Claims.size)
         \/ Claims.trailer /\ RunsShort(2 + Claims.size)
  PROVE  WholeIn(opened) \subseteq 1 .. Len(yielded)
<1> SUFFICES ASSUME NEW i \in WholeIn(opened), ~(i \in 1 .. Len(yielded))
             PROVE  FALSE
  OBVIOUS
<1>1. i > Len(yielded)
  <2>1. i \in Nat /\ i >= 1 /\ Len(yielded) \in Nat
    BY LenProperties DEF WholeIn, NetRecordingInv
  <2> QED
    BY <2>1
<1>2. /\ Claims.excess = 0 /\ ~RunsShort(1) /\ ~RunsShort(1 + Claims.size)
      /\ Claims.trailer => ~RunsShort(2 + Claims.size)
  BY <1>1, NextIsWhole
<1>3. Has(1 + Claims.excess)
  <2>1. 1 + Claims.excess = 1
    BY <1>2
  <2> QED
    BY <1>2, <2>1 DEF RunsShort
<1> QED
  BY <1>2, <1>3

-----------------------------------------------------------------------------
(* The steps. *)

(***************************************************************************)
(* A write call keeps the invariant: it changes nothing the reader has     *)
(* seen, and what it writes lies behind all that the file held when it was *)
(* opened.                                                                 *)
(***************************************************************************)
LEMMA RecordKeeps ==
  ASSUME NetRecordingInv, Record
  PROVE  NetRecordingInv'
<1>1. /\ StreamInv /\ YieldedIsPrefix /\ IsPassedOn
      /\ stream \in Seq(Cells) /\ source \in Seq(Cells)
      /\ landed \in Seq(Records) /\ yielded \in Seq(Records)
      /\ opened \in 0 .. Len(source)
  BY DEF NetRecordingInv, StreamInv, NetWriterInv, NetWriterTypeOK
<1>2. StreamInv' /\ StreamKept
  BY <1>1, CallKeepsStream DEF Record
<1>3. /\ UNCHANGED <<source, phase, place, schemasRead, itemsRead, yielded,
                     opened>>
      /\ stream' \in Seq(Cells) /\ landed' \in Seq(Records)
  BY <1>2
     DEF Record, netReaderVars, readerVars, StreamInv, NetWriterInv,
         NetWriterTypeOK
<1>4. PICK n \in Nat, m \in Nat, len \in Nat, new \in Nat :
        /\ n = Len(stream) /\ m = Len(landed) /\ len = Len(source)
        /\ new = Len(landed')
  BY <1>1, <1>3, LenProperties
<1>5. IsPassedOn'
  <2>1. Len(stream') \in Nat
    BY <1>3, LenProperties
  <2> QED
    <3>1. /\ len <= n /\ n <= Len(stream')
          /\ \A p \in 1 .. n : stream'[p] = stream[p]
          /\ \A p \in 1 .. len : source[p] = stream[p]
      BY <1>1, <1>2, <1>4 DEF IsPassedOn, StreamKept
    <3>2. len <= Len(stream') /\ \A p \in 1 .. len : source[p] = stream'[p]
      BY <2>1, <3>1
    <3> QED
      BY <1>3, <1>4, <3>2 DEF IsPassedOn
<1>6. YieldedIsPrefix'
  <2>1. PICK d \in Nat : d = Len(yielded)
    BY <1>1, LenProperties
  <2> QED
    <3>1. /\ d <= m /\ m <= new
          /\ \A i \in 1 .. d : yielded[i] = landed[i]
                              /\ EndOf(landed[i]) <= Len(source)
          /\ \A i \in 1 .. m : landed'[i] = landed[i]
      BY <1>1, <1>2, <1>4, <2>1 DEF YieldedIsPrefix, StreamKept
    <3>2. \A i \in 1 .. d : yielded[i] = landed'[i]
                            /\ EndOf(landed'[i]) <= Len(source)
      BY <3>1
    <3> QED
      BY <1>3, <1>4, <2>1, <3>1, <3>2 DEF YieldedIsPrefix
<1>7. WholeIn(opened)' \subseteq WholeIn(opened)
  <2> SUFFICES ASSUME NEW i \in 1 .. new,
                      EndOf(landed'[i]) <= opened,
                      landed'[1].offset = 1,
                      \A j \in 1 .. i - 1 :
                        EndOf(landed'[j]) = landed'[j + 1].offset
               PROVE  i \in WholeIn(opened)
    BY <1>3, <1>4 DEF WholeIn
  <2>1. i \in 1 .. m
    <3> SUFFICES ASSUME i \in m + 1 .. new PROVE FALSE
      BY <1>4
    <3>1. EndOf(landed'[i]) > n
      BY <1>2, <1>4 DEF StreamKept
    <3>2. len <= n
      BY <1>1, <1>4 DEF IsPassedOn
    <3>3. EndOf(landed'[i]) \in Nat
      <4>1. PICK r \in Records : r = landed'[i]
        BY <1>3, <1>4, ElementOfSeq
      <4>2. PICK total \in Nat : total = TotalSize(Len(r.payload), r.trailer)
        BY StoredType
      <4> QED
        BY <4>1, <4>2 DEF EndOf, Records
    <3> QED
      BY <1>1, <1>4, <3>1, <3>2, <3>3
  <2>2. \A j \in 1 .. i : j \in 1 .. m /\ landed'[j] = landed[j]
    BY <1>2, <1>4, <2>1 DEF StreamKept
  <2>3. \A j \in 1 .. i - 1 : j \in 1 .. i /\ j + 1 \in 1 .. i
    BY <2>1
  <2>4. 1 \in 1 .. i /\ i \in 1 .. i
    BY <2>1
  <2> QED
    BY <1>4, <2>1, <2>2, <2>3, <2>4 DEF WholeIn
<1>8. PlaceFollows' /\ HeaderIsIntact'
  BY <1>3
     DEF NetRecordingInv, PlaceFollows, PlaceAfter, HeaderIsIntact
<1> QED
  BY <1>2, <1>3, <1>5, <1>6, <1>7, <1>8 DEF NetRecordingInv

(***************************************************************************)
(* So does the Stream that passes bytes on: the file only grows.           *)
(***************************************************************************)
LEMMA PassOnKeeps ==
  ASSUME NetRecordingInv, PassOn
  PROVE  NetRecordingInv'
<1>1. /\ StreamInv /\ YieldedIsPrefix /\ IsPassedOn
      /\ stream \in Seq(Cells) /\ source \in Seq(Cells)
      /\ landed \in Seq(Records) /\ yielded \in Seq(Records)
      /\ opened \in 0 .. Len(source) /\ place \in Nat
  BY DEF NetRecordingInv, StreamInv, NetWriterInv, NetWriterTypeOK
<1>2. /\ UNCHANGED <<phase, place, schemasRead, itemsRead, yielded, opened,
                     landed>>
      /\ UNCHANGED netWriterVars
  BY DEF PassOn, readerVars, netWriterVars
<1>3. StreamInv'
  BY <1>1, <1>2, WriterStandsStill
<1>4. PICK n \in Len(source) + 1 .. Len(stream) : source' = SubSeq(stream, 1, n)
  BY DEF PassOn
<1>5. PICK all \in Nat, len \in Nat :
        all = Len(stream) /\ len = Len(source) /\ n \in len + 1 .. all
  BY <1>1, <1>4, LenProperties
<1>6. /\ source' \in Seq(Cells) /\ Len(source') = n
      /\ \A p \in 1 .. n : source'[p] = stream[p]
  <2>1. n \in 0 .. Len(stream)
    BY <1>5
  <2> QED
    BY <1>1, <1>4, <2>1, Beginning
<1>7. \A p \in 1 .. len : source'[p] = source[p]
  BY <1>1, <1>5, <1>6 DEF IsPassedOn
<1>8. IsPassedOn'
  BY <1>2, <1>5, <1>6 DEF IsPassedOn, netWriterVars
<1>9. YieldedIsPrefix'
  <2>1. \A i \in 1 .. Len(yielded) :
          /\ yielded[i] = landed[i]
          /\ EndOf(landed[i]) \in Nat
          /\ EndOf(landed[i]) <= len
    <3> TAKE i \in 1 .. Len(yielded)
    <3>1. i \in 1 .. Len(landed)
      BY <1>1, LenProperties DEF YieldedIsPrefix
    <3>2. /\ landed[i].offset \in Nat
          /\ EndOf(landed[i]) \in landed[i].offset + 1 .. Len(stream)
      BY <1>1, <3>1, StreamedCells
    <3> QED
      BY <1>1, <1>5, <3>2 DEF YieldedIsPrefix
  <2>2. \A i \in 1 .. Len(yielded) : EndOf(landed[i]) <= n
    BY <1>5, <2>1
  <2> QED
    BY <1>1, <1>2, <1>6, <2>1, <2>2 DEF YieldedIsPrefix
<1>10. PlaceFollows'
  BY <1>1, <1>2, <1>5, <1>6 DEF NetRecordingInv, PlaceFollows, PlaceAfter
<1>11. HeaderIsIntact'
  <2> SUFFICES ASSUME phase \in {"payload", "trailer"}
               PROVE  HeaderIsIntact'
    BY <1>2 DEF HeaderIsIntact
  <2>1. place + 1 \in 1 .. len
    BY <1>1, <1>5 DEF NetRecordingInv, HeaderIsIntact
  <2>2. source'[place + 1] = source[place + 1] /\ place + 1 <= n
    BY <1>5, <1>7, <2>1
  <2> QED
    BY <1>2, <1>6, <2>2 DEF NetRecordingInv, HeaderIsIntact
<1>12. opened' \in 0 .. Len(source')
  BY <1>1, <1>2, <1>5, <1>6
<1>13. WholeIn(opened)' = WholeIn(opened)
  BY <1>2 DEF WholeIn
<1> QED
  BY <1>1, <1>2, <1>3, <1>6, <1>8, <1>9, <1>10, <1>11, <1>12, <1>13
     DEF NetRecordingInv

(***************************************************************************)
(* As long as nothing is written or passed on, what was yielded stays, and *)
(* the steps of the reader only need a look at where it stands.            *)
(***************************************************************************)
LEMMA ReaderMoves ==
  ASSUME NetRecordingInv,
         UNCHANGED <<netWriterVars, source, opened, yielded>>,
         phase' \in Phases, place' \in Nat,
         phase' \in {"between", "payload", "trailer"} =>
           place' = PlaceAfter(Len(yielded)) /\ place' <= Len(source),
         phase' \in {"payload", "trailer"} =>
           /\ place' + 1 <= Len(source)
           /\ source[place' + 1].cell = "head"
           /\ phase' = "trailer" => source[place' + 1].is.trailer,
         phase' = "closed" => yielded = <<>>,
         phase' = "ended" => WholeIn(opened) \subseteq 1 .. Len(yielded)
  PROVE  NetRecordingInv'
<1>1. StreamInv'
  BY WriterStandsStill DEF NetRecordingInv
<1>2. /\ landed' = landed /\ stream' = stream /\ source' = source
      /\ opened' = opened /\ yielded' = yielded
  BY DEF netWriterVars
<1>3. IsPassedOn' /\ YieldedIsPrefix'
  BY <1>2 DEF NetRecordingInv, IsPassedOn, YieldedIsPrefix
<1>4. PlaceFollows'
  BY <1>2 DEF NetRecordingInv, PlaceFollows, PlaceAfter
<1>5. HeaderIsIntact'
  BY <1>2 DEF HeaderIsIntact
<1>6. WholeIn(opened)' = WholeIn(opened)
  BY <1>2 DEF WholeIn
<1> QED
  BY <1>1, <1>2, <1>3, <1>4, <1>5, <1>6 DEF NetRecordingInv

(***************************************************************************)
(* A record is yielded: the one that is next.                              *)
(***************************************************************************)
LEMMA YieldKeeps ==
  ASSUME NetRecordingInv, ChecksumsRight, Yield,
         UNCHANGED <<netWriterVars, source, opened>>
  PROVE  NetRecordingInv'
<1>1. /\ StreamInv /\ YieldedIsPrefix /\ IsPassedOn
      /\ source \in Seq(Cells) /\ yielded \in Seq(Records)
      /\ place \in Nat /\ PlaceFollows
      /\ place = PlaceAfter(Len(yielded))
      /\ phase \in {"payload", "trailer"}
  BY DEF NetRecordingInv, PlaceFollows, ChecksumsRight
<1>2. CASE phase' = "failed" /\ UNCHANGED <<place, schemasRead, yielded>>
  <2>1. /\ UNCHANGED <<netWriterVars, source, opened, yielded>>
        /\ phase' = "failed" /\ place' \in Nat
    BY <1>1, <1>2
  <2> QED
    BY <2>1, ReaderMoves DEF Phases
<1>3. CASE /\ yielded' = Append(yielded, RecordHere)
           /\ place' = place + TotalSize(Claims.size, Claims.trailer)
           /\ phase' = "between"
  <2>1. PICK d \in Nat, n \in Nat :
          /\ d = Len(yielded) /\ n = Len(source) /\ d <= Len(landed)
    BY <1>1, LenProperties DEF YieldedIsPrefix
  <2>2. /\ d + 1 \in 1 .. Len(landed)
        /\ RecordHere = landed[d + 1]
        /\ RecordHere \in Records
        /\ place' = EndOf(RecordHere)
        /\ EndOf(RecordHere) \in 0 .. n
    BY <1>3, <2>1, YieldsNext
  <2>3. /\ yielded' \in Seq(Records) /\ Len(yielded') = d + 1
        /\ \A i \in 1 .. d : yielded'[i] = yielded[i]
        /\ yielded'[d + 1] = RecordHere
    BY <1>1, <1>3, <2>1, <2>2, AppendProperties
  <2>4. /\ landed' = landed /\ stream' = stream /\ source' = source
        /\ opened' = opened
    BY DEF netWriterVars
  <2>5. YieldedIsPrefix'
    <3>1. ASSUME NEW i \in 1 .. d + 1
          PROVE  yielded'[i] = landed[i] /\ EndOf(landed[i]) <= n
      <4>1. CASE i \in 1 .. d
        BY <1>1, <2>1, <2>3, <4>1 DEF YieldedIsPrefix
      <4>2. CASE i = d + 1
        BY <2>2, <2>3, <4>2
      <4> QED
        BY <4>1, <4>2
    <3>2. d + 1 <= Len(landed)
      BY <2>2
    <3> QED
      BY <2>1, <2>3, <2>4, <3>1, <3>2 DEF YieldedIsPrefix
  <2>6. PlaceFollows'
    <3>1. RecordHere.offset = place
      BY DEF RecordHere
    <3>2. \A i \in 0 .. d : PlaceAfter(i)' = PlaceAfter(i)
      <4> TAKE i \in 0 .. d
      <4>1. CASE i = 0
        BY <4>1 DEF PlaceAfter
      <4>2. CASE i # 0
        <5>1. yielded'[i] = yielded[i]
          BY <2>3, <4>2
        <5> QED
          BY <4>2, <5>1 DEF PlaceAfter
      <4> QED
        BY <4>1, <4>2
    <3>3. ASSUME NEW i \in 1 .. d + 1
          PROVE  yielded'[i].offset = PlaceAfter(i - 1)'
      <4>1. i - 1 \in 0 .. d
        OBVIOUS
      <4>2. CASE i \in 1 .. d
        <5>1. yielded[i].offset = PlaceAfter(i - 1)
          BY <1>1, <2>1, <4>2 DEF PlaceFollows
        <5> QED
          BY <2>3, <3>2, <4>1, <4>2, <5>1
      <4>3. CASE i = d + 1
        <5>1. i - 1 = d
          BY <4>3
        <5> QED
          BY <1>1, <2>1, <2>3, <3>1, <3>2, <4>1, <4>3, <5>1
      <4> QED
        BY <4>2, <4>3
    <3>4. place' = PlaceAfter(d + 1)'
      BY <2>2, <2>3 DEF PlaceAfter
    <3> QED
      BY <2>1, <2>2, <2>3, <2>4, <3>3, <3>4 DEF PlaceFollows
  <2>7. StreamInv' /\ IsPassedOn'
    BY <1>1, <2>4, WriterStandsStill DEF IsPassedOn
  <2>8. HeaderIsIntact'
    BY <1>3 DEF HeaderIsIntact
  <2>9. place' \in Nat /\ phase' \in Phases
    BY <1>3, <2>2 DEF Phases
  <2> QED
    BY <1>3, <2>3, <2>4, <2>5, <2>6, <2>7, <2>8, <2>9 DEF NetRecordingInv
<1> QED
  BY <1>2, <1>3 DEF Yield, RecordHere

(***************************************************************************)
(* How many cells a record has whose header the reader went past.          *)
(***************************************************************************)
LEMMA HeadCounts ==
  ASSUME NetRecordingInv, phase \in {"payload", "trailer"}
  PROVE  /\ Claims.trailer =>
              TotalSize(Claims.size, Claims.trailer) = 2 + Claims.size
         /\ ~Claims.trailer =>
              TotalSize(Claims.size, Claims.trailer) = 1 + Claims.size
<1>1. /\ source \in Seq(Cells) /\ place \in Nat
      /\ place + 1 <= Len(source) /\ Here(1).cell = "head"
  BY DEF NetRecordingInv, HeaderIsIntact, Here
<1>2. Here(1) \in HeadCells
  <2>1. place + 1 \in 1 .. Len(source)
    BY <1>1, LenProperties
  <2> QED
    BY <1>1, <2>1, ElementOfSeq, CellKinds DEF Here
<1>3. PICK size \in Nat, trailer \in BOOLEAN :
        size = Claims.size /\ trailer = Claims.trailer
  BY <1>2 DEF Claims, HeadCells, Contents
<1>4. /\ trailer => TotalSize(size, trailer) = size + 2
      /\ ~trailer => TotalSize(size, trailer) = size + 1
  BY TotalSizes
<1>5. size + 2 = 2 + size /\ size + 1 = 1 + size
  OBVIOUS
<1> QED
  BY <1>3, <1>4, <1>5

(***************************************************************************)
(* Every step of an enumeration keeps the invariant.                       *)
(***************************************************************************)
LEMMA EnumerateKeeps ==
  ASSUME NetRecordingInv, Enumerate
  PROVE  NetRecordingInv'
<1>1. /\ UNCHANGED <<netWriterVars, source, opened>>
      /\ place \in Nat /\ HeaderIsIntact /\ PlaceFollows
      /\ source \in Seq(Cells)
  BY DEF Enumerate, NetRecordingInv
<1>2. phase \in {"between", "payload", "trailer"}
  BY DEF Enumerate, ReadStep, ReadHeader, ReadPayload, ReadTrailer
<1>3. place = PlaceAfter(Len(yielded)) /\ place <= Len(source)
  BY <1>1, <1>2 DEF PlaceFollows
<1>4. CASE Throw
  <2>1. /\ UNCHANGED <<netWriterVars, source, opened, yielded>>
        /\ phase' = "failed" /\ place' \in Nat
    BY <1>1, <1>4 DEF Throw
  <2> QED
    BY <2>1, ReaderMoves DEF Phases
<1>5. ASSUME End, WholeIn(opened) \subseteq 1 .. Len(yielded)
      PROVE  NetRecordingInv'
  <2>1. /\ UNCHANGED <<netWriterVars, source, opened, yielded>>
        /\ phase' = "ended" /\ place' \in Nat
    BY <1>1, <1>5 DEF End
  <2> QED
    BY <1>5, <2>1, ReaderMoves DEF Phases
<1>6. CASE ReadHeader
  <2>1. CASE RunsShort(1) /\ End
    BY <1>2, <1>5, <2>1, EndMeansNothingLeft
  <2>2. CASE ~RunsShort(1) /\ ~Has(1 + Claims.excess) /\ End
    BY <1>2, <1>5, <2>2, EndMeansNothingLeft
  <2>3. CASE Has(1) /\ ValidCommon /\ Go("payload")
    <3>1. place + 1 <= Len(source) /\ source[place + 1].cell = "head"
      <4>1. PICK n \in Nat : n = Len(source)
        BY <1>1, LenProperties
      <4> QED
        BY <1>1, <2>3, <4>1 DEF Has, ValidCommon, Here
    <3>2. /\ UNCHANGED <<netWriterVars, source, opened, yielded>>
          /\ phase' = "payload" /\ place' = place
      BY <1>1, <2>3 DEF Go
    <3> QED
      BY <1>1, <1>3, <3>1, <3>2, ReaderMoves DEF Phases
  <2>4. Has(1) /\ Here(1) # Fragment => ~RunsShort(1)
    BY DEF RunsShort, Broken
  <2> QED
    BY <1>4, <1>6, <2>1, <2>2, <2>3, <2>4 DEF ReadHeader
<1>7. CASE ReadPayload
  <2>1. CASE RunsShort(1 + Claims.size) /\ End
    BY <1>2, <1>5, <2>1, EndMeansNothingLeft
  <2>2. CASE Claims.trailer /\ Go("trailer")
    <3>1. /\ place + 1 <= Len(source) /\ source[place + 1].cell = "head"
          /\ source[place + 1].is.trailer
      BY <1>1, <1>7, <2>2 DEF HeaderIsIntact, ReadPayload, Claims, Here
    <3>2. /\ UNCHANGED <<netWriterVars, source, opened, yielded>>
          /\ phase' = "trailer" /\ place' = place
      BY <1>1, <2>2 DEF Go
    <3> QED
      BY <1>1, <1>3, <3>1, <3>2, ReaderMoves DEF Phases
  <2>3. CASE /\ ~RunsShort(1 + Claims.size) /\ ~Claims.trailer
             /\ Crc32c(Payload) = Claims.pcrc
             /\ Yield
    <3>1. TotalSize(Claims.size, Claims.trailer) = 1 + Claims.size
      BY <1>1, <1>7, <2>3, HeadCounts DEF ReadPayload
    <3>2. ChecksumsRight
      BY <1>7, <2>3, <3>1 DEF ChecksumsRight, ReadPayload
    <3> QED
      BY <1>1, <2>3, <3>2, YieldKeeps
  <2> QED
    BY <1>4, <1>7, <2>1, <2>2, <2>3 DEF ReadPayload
<1>8. CASE ReadTrailer
  <2>1. Claims.trailer
    BY <1>1, <1>8 DEF HeaderIsIntact, ReadTrailer, Claims, Here
  <2>2. CASE RunsShort(2 + Claims.size) /\ End
    BY <1>2, <1>5, <2>1, <2>2, EndMeansNothingLeft
  <2>3. CASE ~RunsShort(2 + Claims.size) /\ TrailerFits /\ Yield
    <3>1. TotalSize(Claims.size, Claims.trailer) = 2 + Claims.size
      BY <1>1, <1>8, <2>1, HeadCounts DEF ReadTrailer
    <3>2. ChecksumsRight
      BY <1>8, <2>1, <2>3, <3>1 DEF ChecksumsRight, ReadTrailer
    <3> QED
      BY <1>1, <2>3, <3>2, YieldKeeps
  <2> QED
    BY <1>4, <1>8, <2>2, <2>3 DEF ReadTrailer
<1> QED
  BY <1>6, <1>7, <1>8 DEF Enumerate, ReadStep

(***************************************************************************)
(* Only a record whose checksums are right is yielded.                     *)
(***************************************************************************)
EnumerateYields ==
  ChecksumsRight /\ yielded' = Append(yielded, RecordHere)

LEMMA OnlyYieldsAdd ==
  ASSUME NetRecordingInv, Enumerate, yielded' # yielded
  PROVE  EnumerateYields
<1>1. Yield => yielded' = Append(yielded, RecordHere)
  BY DEF Yield, RecordHere
<1>2. CASE ReadHeader
  BY <1>2 DEF ReadHeader, End, Throw, Go
<1>3. CASE ReadPayload
  <2>1. /\ ~RunsShort(1 + Claims.size) /\ ~Claims.trailer
        /\ Crc32c(Payload) = Claims.pcrc /\ Yield
        /\ phase \in {"payload", "trailer"}
    BY <1>3 DEF ReadPayload, End, Throw, Go
  <2>2. TotalSize(Claims.size, Claims.trailer) = 1 + Claims.size
    BY <2>1, HeadCounts
  <2> QED
    BY <1>1, <2>1, <2>2 DEF EnumerateYields, ChecksumsRight
<1>4. CASE ReadTrailer
  <2>1. /\ ~RunsShort(2 + Claims.size) /\ TrailerFits /\ Yield
        /\ phase = "trailer"
    BY <1>4 DEF ReadTrailer, End, Throw
  <2>2. Claims.trailer
    BY <2>1 DEF NetRecordingInv, HeaderIsIntact, Claims, Here
  <2>3. TotalSize(Claims.size, Claims.trailer) = 2 + Claims.size
    BY <2>1, <2>2, HeadCounts
  <2> QED
    BY <1>1, <2>1, <2>2, <2>3 DEF EnumerateYields, ChecksumsRight
<1> QED
  BY <1>2, <1>3, <1>4 DEF Enumerate, ReadStep

(***************************************************************************)
(* Opening and closing keep it.                                            *)
(***************************************************************************)
LEMMA OpenKeeps ==
  ASSUME NetRecordingInv, OpenReader
  PROVE  NetRecordingInv'
<1>1. /\ UNCHANGED <<netWriterVars, source, yielded>>
      /\ opened' = Len(source) /\ phase = "closed"
  BY DEF OpenReader, Open
<1>2. /\ yielded = <<>> /\ Len(yielded) = 0
      /\ source \in Seq(Cells) /\ StreamInv
  BY <1>1, EmptySeq DEF NetRecordingInv
<1>3. PICK n \in Nat : n = Len(source)
  BY <1>2, LenProperties
<1>4. StreamInv'
  BY <1>1, <1>2, WriterStandsStill
<1>5. /\ landed' = landed /\ stream' = stream /\ source' = source
  BY <1>1 DEF netWriterVars
<1>6. IsPassedOn' /\ YieldedIsPrefix'
  BY <1>1, <1>5 DEF NetRecordingInv, IsPassedOn, YieldedIsPrefix
<1>7. \/ phase' = "between" /\ place' = 1 /\ 1 <= n
      \/ phase' = "failed" /\ place' = 0
  <2>1. source # <<>> => n # 0
    BY <1>2, <1>3, EmptySeq
  <2>2. source # <<>> => 1 <= n
    BY <2>1
  <2> QED
    BY <2>2 DEF OpenReader, Open, StartsWithHeader
<1>8. PlaceFollows' /\ HeaderIsIntact'
  BY <1>1, <1>2, <1>3, <1>5, <1>7 DEF PlaceFollows, PlaceAfter, HeaderIsIntact
<1>9. phase' \in Phases /\ place' \in Nat
  BY <1>7 DEF Phases
<1> QED
  BY <1>1, <1>2, <1>3, <1>4, <1>5, <1>6, <1>7, <1>8, <1>9 DEF NetRecordingInv

LEMMA CloseKeeps ==
  ASSUME NetRecordingInv, CloseReader
  PROVE  NetRecordingInv'
<1>1. /\ UNCHANGED <<netWriterVars, source>>
      /\ opened' = 0 /\ phase' = "closed" /\ place' = 0 /\ yielded' = <<>>
  BY DEF CloseReader, Close
<1>2. Len(yielded') = 0 /\ yielded' \in Seq(Records)
  BY <1>1, EmptySeq
<1>3. StreamInv'
  BY <1>1, WriterStandsStill DEF NetRecordingInv
<1>4. /\ landed' = landed /\ stream' = stream /\ source' = source
      /\ source \in Seq(Cells) /\ Len(source) \in Nat
  BY <1>1, LenProperties DEF netWriterVars, NetRecordingInv
<1>5. IsPassedOn'
  BY <1>4 DEF NetRecordingInv, IsPassedOn
<1>6. YieldedIsPrefix'
  <2>1. Len(landed) \in Nat
    BY LenProperties
       DEF NetRecordingInv, StreamInv, NetWriterInv, NetWriterTypeOK
  <2> QED
    BY <1>2, <1>4, <2>1 DEF YieldedIsPrefix
<1>7. PlaceFollows' /\ HeaderIsIntact'
  BY <1>1, <1>2 DEF PlaceFollows, HeaderIsIntact
<1> QED
  BY <1>1, <1>2, <1>3, <1>4, <1>5, <1>6, <1>7 DEF NetRecordingInv, Phases

(***************************************************************************)
(* Before there is a file there is nothing to be wrong about.              *)
(***************************************************************************)
LEMMA NetRecordingBegins == NetRecordingInit => NetRecordingInv
<1> SUFFICES ASSUME NetRecordingInit PROVE NetRecordingInv
  OBVIOUS
<1>1. /\ StreamInv /\ source = <<>> /\ phase = "closed" /\ place = 0
      /\ yielded = <<>> /\ opened = 0
  BY StreamBegins DEF NetRecordingInit, NoReader
<1>2. /\ Len(source) = 0 /\ source \in Seq(Cells)
      /\ Len(yielded) = 0 /\ yielded \in Seq(Records)
  BY <1>1, EmptySeq
<1>3. Len(stream) \in Nat /\ Len(landed) \in Nat
  BY <1>1, LenProperties DEF StreamInv, NetWriterInv, NetWriterTypeOK
<1>4. IsPassedOn /\ YieldedIsPrefix
  BY <1>2, <1>3 DEF IsPassedOn, YieldedIsPrefix
<1>5. PlaceFollows /\ HeaderIsIntact
  BY <1>1, <1>2 DEF PlaceFollows, HeaderIsIntact
<1> QED
  BY <1>1, <1>2, <1>4, <1>5 DEF NetRecordingInv, Phases

LEMMA NothingHappens ==
  ASSUME NetRecordingInv, UNCHANGED netRecordingVars
  PROVE  NetRecordingInv'
<1>1. UNCHANGED <<netWriterVars, source, opened, yielded, phase, place>>
  BY DEF netRecordingVars, netReaderVars, readerVars
<1>2. StreamInv'
  BY <1>1, WriterStandsStill DEF NetRecordingInv
<1> QED
  BY <1>1, <1>2
     DEF NetRecordingInv, netWriterVars, IsPassedOn, YieldedIsPrefix,
         PlaceFollows, PlaceAfter, HeaderIsIntact, WholeIn

(***************************************************************************)
(* Whatever a writer that is at work and a reader of its file do, in any   *)
(* order: the reader stands behind the records it has yielded, and those   *)
(* are the ones that landed first, written or stranded.                    *)
(***************************************************************************)
THEOREM NetRecordingInvariant == NetRecordingSpec => []NetRecordingInv
<1>1. NetRecordingInv /\ [NetRecordingNext]_netRecordingVars => NetRecordingInv'
  BY RecordKeeps, PassOnKeeps, OpenKeeps, EnumerateKeeps, CloseKeeps,
     NothingHappens DEF NetRecordingNext
<1> QED
  BY <1>1, NetRecordingBegins, PTL DEF NetRecordingSpec

-----------------------------------------------------------------------------
(* The theorems. *)

(***************************************************************************)
(* No false delivery (SdafReader.cs, ReadRecord): what a reader has        *)
(* yielded is the beginning of what the Stream has taken whole, and no     *)
(* record is yielded before its last byte is in the file, whatever was torn *)
(* in it and whichever calls threw.                                        *)
(***************************************************************************)
THEOREM NetNoFalseDelivery == NetRecordingSpec => []YieldedIsPrefix
<1>1. NetRecordingInv => YieldedIsPrefix
  BY DEF NetRecordingInv
<1> QED
  BY <1>1, NetRecordingInvariant, PTL

(***************************************************************************)
(* An enumeration that ends for want of bytes (yield break) has yielded    *)
(* every record that was whole when the file was opened and has no torn    *)
(* one before it.                                                          *)
(***************************************************************************)
THEOREM NetNoSilentLoss == NetRecordingSpec => []EndMissesNothing
<1>1. NetRecordingInv => EndMissesNothing
  <2> SUFFICES ASSUME NetRecordingInv, phase = "ended"
               PROVE  Cardinality(WholeIn(opened)) <= Len(yielded)
    BY DEF EndMissesNothing
  <2>1. PICK d \in Nat : d = Len(yielded)
    BY LenProperties DEF NetRecordingInv
  <2>2. WholeIn(opened) \in SUBSET (1 .. d)
    BY <2>1 DEF NetRecordingInv
  <2>3. IsFiniteSet(1 .. d) /\ Cardinality(1 .. d) = d
    <3>1. Cardinality(1 .. d) = IF 1 > d THEN 0 ELSE d - 1 + 1
      BY FS_Interval
    <3> QED
      BY <3>1, FS_Interval
  <2>4. Cardinality(WholeIn(opened)) <= Cardinality(1 .. d)
    BY <2>2, <2>3, FS_Subset
  <2> QED
    BY <2>1, <2>3, <2>4
<1> QED
  BY <1>1, NetRecordingInvariant, PTL

(***************************************************************************)
(* What is proved of a writer holds of one whose file is being read.       *)
(***************************************************************************)
THEOREM NetRecordingWrites == NetRecordingSpec => NetWriterSpec
<1>1. NetRecordingInit => NetWriterInit
  BY DEF NetRecordingInit
<1>2. [NetRecordingNext]_netRecordingVars => [NetWriterCall]_netWriterVars
  BY DEF NetRecordingNext, netRecordingVars, Record, PassOn, OpenReader,
         Enumerate, CloseReader
<1> QED
  BY <1>1, <1>2, PTL DEF NetRecordingSpec, NetWriterSpec

(***************************************************************************)
(* The streaming pair implements the record log: a call that returns adds  *)
(* one record, and so does one that throws when the Stream has taken its   *)
(* last byte; a yield takes the next one, closing starts over, and nothing *)
(* else, no torn record and no byte passed on, is visible.                 *)
(***************************************************************************)
THEOREM NetRecordingImplementsLog == NetRecordingSpec => NetImplementsLog
<1>1. NetRecordingInit => NetLog!LogInit
  BY DEF NetRecordingInit, NetWriterInit, NoReader, NetLog!LogInit
<1>2. NetRecordingInv /\ [NetRecordingNext]_netRecordingVars
        => [NetLog!LogNext]_(NetLog!logVars)
  <2> SUFFICES ASSUME NetRecordingInv, [NetRecordingNext]_netRecordingVars
               PROVE  [NetLog!LogNext]_(NetLog!logVars)
    OBVIOUS
  <2>1. CASE Record
    <3>1. NetWriterCall /\ yielded' = yielded /\ NetWriterTypeOK
          /\ WriterRemembers /\ landed \in Seq(Records)
      BY <2>1
         DEF Record, netReaderVars, readerVars, NetRecordingInv, StreamInv,
             NetWriterInv
    <3>2. ASSUME NEW r \in Records, landed' = Append(landed, r)
          PROVE  [NetLog!LogNext]_(NetLog!logVars)
      <4>1. /\ Len(landed') = Len(landed) + 1
            /\ \A i \in 1 .. Len(landed) : landed'[i] = landed[i]
        BY <3>1, <3>2, AppendProperties
      <4> QED
        BY <3>1, <4>1 DEF NetLog!LogNext, NetLog!Write
    <3>3. CASE landed' = landed
      BY <3>1, <3>3 DEF NetLog!logVars
    <3>4. ASSUME NEW r, Streams(r) \/ Throws(r)
          PROVE  [NetLog!LogNext]_(NetLog!logVars)
      <4>1. r \in Records /\ (landed' = Append(landed, r) \/ landed' = landed)
        BY <3>4 DEF Streams, Throws, Writable, WriteRecord, WriteThrows,
                    Interrupted
      <4> QED
        BY <3>2, <3>3, <4>1
    <3>5. Construct \/ Dispose => landed' = landed
      BY DEF Construct, Dispose
    <3> QED
      BY <3>1, <3>3, <3>4, <3>5, NetCallOutcome DEF WriteOutcome
  <2>2. CASE Enumerate
    <3>1. landed' = landed
      BY <2>2 DEF Enumerate, netWriterVars
    <3>2. CASE yielded' = yielded
      BY <3>1, <3>2 DEF NetLog!logVars
    <3>3. CASE yielded' # yielded
      <4>1. EnumerateYields
        BY <2>2, <3>3, OnlyYieldsAdd
      <4>2. /\ Len(yielded) + 1 \in 1 .. Len(landed)
            /\ RecordHere = landed[Len(yielded) + 1]
            /\ yielded' = Append(yielded, RecordHere)
        BY <4>1, YieldsNext DEF EnumerateYields
      <4>3. Len(yielded) < Len(landed)
        <5>1. Len(yielded) \in Nat /\ Len(landed) \in Nat
          BY LenProperties
             DEF NetRecordingInv, StreamInv, NetWriterInv, NetWriterTypeOK
        <5> QED
          BY <4>2, <5>1
      <4> QED
        BY <3>1, <4>2, <4>3 DEF NetLog!LogNext, NetLog!Take
    <3> QED
      BY <3>2, <3>3
  <2>3. CASE CloseReader
    BY <2>3
       DEF CloseReader, Close, netWriterVars, NetLog!LogNext, NetLog!Restart
  <2>4. CASE PassOn \/ OpenReader \/ UNCHANGED netRecordingVars
    BY <2>4
       DEF PassOn, OpenReader, Open, netRecordingVars, netWriterVars,
           netReaderVars, readerVars, NetLog!logVars
  <2> QED
    BY <2>1, <2>2, <2>3, <2>4 DEF NetRecordingNext
<1> QED
  BY <1>1, <1>2, NetRecordingInvariant, PTL DEF NetRecordingSpec,
     NetImplementsLog, NetLog!LogSpec

-----------------------------------------------------------------------------
(* The library accepts its own output. *)

(***************************************************************************)
(* The writer knows the layouts by which the reader judges a record, and   *)
(* no record up to the one the reader is at is stranded.                   *)
(***************************************************************************)
YieldedIsKnown(r) ==
  \A i \in SchemasBefore(yielded, Len(yielded), r.fields.id, r.fields.rev) :
    \E s \in SchemasOf(r.fields.id, r.fields.rev) :
      s.layout = LayoutOf(yielded[i])

NoneStranded == \A k \in 1 .. Len(yielded) + 1 : ~Stranded(k)

(***************************************************************************)
(* What keeps the rules is accepted, if the reader takes such records at   *)
(* all: all it looks up it finds in what it has yielded.                   *)
(***************************************************************************)
LEMMA LawfulIsAccepted ==
  ASSUME SchemasAreRead, ItemsAreRead, SchemasAreNumbered,
         phase # "failed", NEW r \in Records, YieldedIsKnown(r),
         r.type = "DATA" => r.fields \in DataFields,
         r.type = "BLOB" => r.fields \in BlobFields,
         Lawful(yielded, Len(yielded), r), ~RefusedByReader(r)
  PROVE  Accepts(r.type, r.fields, r.payload)
<1> DEFINE f == r.fields
<1>1. ASSUME NEW s \in Known(f.id, f.rev)
      PROVE  \E i \in SchemasBefore(yielded, Len(yielded), f.id, f.rev) :
               LayoutOf(yielded[i]) = s.layout
  BY DEF Known, SchemasAreRead
<1>2. /\ MaxDecodedSize \in Nat /\ MaxUtf8Bytes \in Nat
      /\ Len(r.payload) \in Nat
  BY NetReaderAssumption, LenProperties DEF Records
<1>3. CASE r.type = "SCMA"
  <2>1. /\ f.id # 0 /\ f.rev # 0
        /\ Len(r.payload) = 1 /\ r.payload[1].cell = "layout"
        /\ r.payload[1].layout \in ValidLayouts
    BY <1>3 DEF RefusedByReader, Lawful, LawfulSchema, LayoutOf
  <2>2. \A i \in SchemasBefore(yielded, Len(yielded), f.id, f.rev) :
          LayoutOf(yielded[i]) = r.payload[1].layout
    BY <1>3 DEF Lawful, LawfulSchema, LayoutOf
  <2>3. AcceptsSchema(f, r.payload)
    BY <1>1, <2>1, <2>2 DEF AcceptsSchema
  <2> QED
    BY <1>3, <2>3 DEF Accepts
<1>4. ASSUME r.type \in {"DATA", "BLOB"}
      PROVE  /\ f.decoded <= MaxDecodedSize
             /\ Decodes(f, r.payload)
  <2>1. f.decoded \in Nat /\ DecodedSize(f.profile, r.payload) = f.decoded
    BY <1>4 DEF DataFields, BlobFields, Lawful, LawfulData, LawfulItem
  <2>2. ~(f.decoded > MaxDecodedSize)
    BY <1>4 DEF RefusedByReader
  <2>3. f.profile = "none" \/ ReaderFindsZstd
    BY <1>4 DEF RefusedByReader
  <2> QED
    BY <1>2, <2>1, <2>2, <2>3 DEF Decodes
<1>5. CASE r.type = "DATA"
  <2>1. /\ f.id # 0 /\ f.rev # 0 /\ f.stream # 0
        /\ TimesAgree(f.mode, f.stamps, f.count)
        /\ \A i \in SchemasBefore(yielded, Len(yielded), f.id, f.rev) :
             /\ HoldsData(LayoutOf(yielded[i]), f.stream, f.mode)
             /\ f.decoded = ExpectedSize(LayoutOf(yielded[i]), f.stream,
                                         f.count, f.stamps)
    BY <1>5 DEF Lawful, LawfulData
  <2>2. AcceptsData(f, r.payload)
    <3>1. ~TimesDistant(f)
      BY <1>5 DEF RefusedByReader
    <3>2. ASSUME NEW s \in Known(f.id, f.rev)
          PROVE  /\ HoldsData(s.layout, f.stream, f.mode)
                 /\ f.decoded = ExpectedSize(s.layout, f.stream, f.count,
                                             f.stamps)
                 /\ SamplesInOrder(s.layout, f, r.payload)
      <4>1. PICK i \in SchemasBefore(yielded, Len(yielded), f.id, f.rev) :
              LayoutOf(yielded[i]) = s.layout
        BY <1>1
      <4>2. PICK t \in SchemasOf(f.id, f.rev) : t.layout = s.layout
        BY <1>5, <4>1 DEF YieldedIsKnown
      <4>3. SamplesInOrder(t.layout, f, r.payload)
        BY <1>5, <4>2 DEF RefusedByReader
      <4> QED
        BY <2>1, <4>1, <4>2, <4>3
    <3> QED
      BY <1>4, <1>5, <2>1, <3>1, <3>2 DEF AcceptsData
  <2> QED
    BY <1>5, <2>2 DEF Accepts
<1>6. CASE r.type = "TEXT"
  <2>1. Len(r.payload) <= MaxUtf8Bytes
    BY <1>2, <1>6 DEF RefusedByReader
  <2>2. \/ f.id = 0 /\ f.rev = 0 /\ f.stream = 0
        \/ /\ f.id # 0 /\ f.rev # 0 /\ f.stream # 0
           /\ \A i \in SchemasBefore(yielded, Len(yielded), f.id, f.rev) :
                KindOf(LayoutOf(yielded[i]), f.stream) = "text"
    BY <1>6 DEF Lawful, LawfulText
  <2>3. AcceptsText(f, r.payload)
    BY <1>1, <2>1, <2>2 DEF AcceptsText, StreamAgrees
  <2> QED
    BY <1>6, <2>3 DEF Accepts
<1>7. CASE r.type = "BLOB"
  <2>1. /\ f.profile \in {"none", "zstd"}
        /\ SchemasBefore(yielded, Len(yielded), f.id, f.rev) # {}
        /\ \A i \in SchemasBefore(yielded, Len(yielded), f.id, f.rev) :
             KindOf(LayoutOf(yielded[i]), f.stream) = "blob"
        /\ \A i \in ItemsBefore(yielded, Len(yielded), f.id, f.stream) :
             yielded[i].fields.first < f.first
    BY <1>7 DEF Lawful, LawfulItem
  <2>2. PICK i \in SchemasBefore(yielded, Len(yielded), f.id, f.rev) : TRUE
    BY <2>1
  <2>3. f.id # 0 /\ f.rev # 0
    BY <2>2 DEF SchemasBefore, SchemasAreNumbered
  <2>4. f.stream # 0
    <3>1. KindOf(LayoutOf(yielded[i]), f.stream) = "blob"
      BY <2>1, <2>2
    <3>2. f.stream \in StreamIds
      BY <3>1 DEF KindOf
    <3> QED
      BY <3>2, SchemaAssumption
  <2>5. StreamAgrees(f.id, f.rev, f.stream, {"blob"})
    BY <1>1, <2>1 DEF StreamAgrees
  <2>6. ASSUME NEW k \in ItemsRead(f.id, f.stream)
        PROVE  k.index < f.first
    <3>1. PICK m \in ItemsBefore(yielded, Len(yielded), f.id, f.stream) :
            yielded[m].fields.first = k.index
      BY <2>6 DEF ItemsRead, ItemsAreRead
    <3>2. yielded[m].fields.first < f.first
      BY <2>1, <3>1
    <3> QED
      BY <3>1, <3>2
  <2>7. AcceptsItem(f)
    BY <1>4, <1>7, <2>1, <2>3, <2>4, <2>5, <2>6 DEF AcceptsItem
  <2> QED
    BY <1>4, <1>7, <2>7 DEF Accepts
<1>8. CASE r.type = "INDX"
  <2>1. ASSUME NEW e, TrueEntry(yielded, Len(yielded), e)
        PROVE  AcceptsEntry(e)
    <3>1. PICK i \in 1 .. Len(yielded) :
            /\ yielded[i].type \in {"DATA", "BLOB"}
            /\ e.offset = yielded[i].offset
            /\ e.seq = yielded[i].seq
            /\ e.stream = yielded[i].fields.stream
            /\ e.first = yielded[i].fields.first
            /\ e.count = IF yielded[i].type = "BLOB" THEN 1
                         ELSE yielded[i].fields.count
      BY <2>1 DEF TrueEntry
    <3>2. e.cell = "entry" /\ i \in YieldedAt(e.offset)
      BY <2>1, <3>1 DEF TrueEntry, YieldedAt
    <3> QED
      BY <3>1, <3>2 DEF AcceptsEntry
  <2> QED
    BY <1>8, <2>1 DEF Lawful, Accepts
<1>9. CASE r.type = "END!"
  <2>1. DatasBefore(yielded, Len(yielded)) = DatasYielded
    BY DEF DatasBefore, DatasYielded
  <2>2. AcceptsEnd(f, r.payload)
    BY <1>9, <2>1 DEF Lawful, LawfulEnd, AcceptsEnd, YieldedAt
  <2> QED
    BY <1>9, <2>2 DEF Accepts
<1>10. CASE r.type = "NOTE"
  BY <1>2, <1>10 DEF RefusedByReader, Accepts
<1>11. CASE r.type = "PRIV"
  BY <1>11 DEF Accepts
<1>12. r.type \in RecordTypes
  BY DEF Records
<1> QED
  BY <1>3, <1>5, <1>6, <1>7, <1>8, <1>9, <1>10, <1>11, <1>12 DEF RecordTypes

(***************************************************************************)
(* Where a record has landed, the reader finds its cells as far as the     *)
(* file goes, and no fragment among them.                                  *)
(***************************************************************************)
LEMMA CellsAreHere ==
  ASSUME NetRecordingInv, NEW i \in 1 .. Len(landed),
         landed[i].offset = place,
         NEW size, size = Len(landed[i].payload)
  PROVE  /\ size \in Nat
         /\ Has(1) => Here(1) = HeadCell(landed[i])
         /\ ~RunsShort(1 + size) =>
              SubSeq(source, place + 2, place + 1 + size) = landed[i].payload
         /\ Has(2 + size) /\ landed[i].trailer =>
              Here(2 + size) = TailCell(landed[i])
         /\ ~Broken(1) /\ ~Broken(1 + size)
         /\ landed[i].trailer => ~Broken(2 + size)
<1>1. /\ StreamInv /\ IsPassedOn /\ place \in Nat
      /\ stream \in Seq(Cells) /\ source \in Seq(Cells)
  BY DEF NetRecordingInv, StreamInv, NetWriterInv, NetWriterTypeOK
<1>2. PICK r \in Records, at \in Nat, n \in Nat :
        r = landed[i] /\ at = place /\ n = size
  <2>1. Len(landed[i].payload) \in Nat
    BY <1>1, StreamedCells
  <2> QED
    BY <1>1, <2>1, StreamedCells
<1>3. /\ r.payload \in Seq(PayloadCells) /\ n = Len(r.payload)
      /\ stream[at + 1] = HeadCell(r)
      /\ \A k \in 1 .. n : stream[at + 1 + k] = r.payload[k]
      /\ r.trailer => stream[at + 2 + n] = TailCell(r)
  BY <1>1, <1>2, StreamedCells DEF Records
<1>4. PICK len \in Nat : len = Len(source)
  BY <1>1, LenProperties
<1>5. \A k : (Has(k) <=> at + k <= len) /\ Here(k) = source[at + k]
  BY <1>2, <1>4 DEF Has, Here
<1>6. ASSUME NEW k \in Nat \ {0}, Has(k)
      PROVE  Here(k) = stream[at + k] /\ at + k \in 1 .. len
  <2>1. at + k \in 1 .. len
    BY <1>6, <1>5
  <2> QED
    BY <1>1, <1>4, <1>5, <2>1 DEF IsPassedOn
<1>7. Has(1) => Here(1) = HeadCell(r)
  BY <1>3, <1>6
<1>8. ASSUME NEW k \in 1 .. n, Has(1 + k)
      PROVE  Here(1 + k) = r.payload[k]
  <2>1. at + (1 + k) = at + 1 + k /\ 1 + k \in Nat \ {0}
    OBVIOUS
  <2> QED
    BY <1>3, <1>6, <1>8, <2>1
<1>9. Has(2 + n) /\ r.trailer => Here(2 + n) = TailCell(r)
  <2>1. at + (2 + n) = at + 2 + n /\ 2 + n \in Nat \ {0}
    OBVIOUS
  <2> QED
    BY <1>3, <1>6, <2>1
<1>10. Fragment.cell = "fragment" /\ HeadCell(r).cell = "head"
      /\ TailCell(r).cell = "tail"
  BY DEF Fragment, HeadCell, TailCell
<1>11. ASSUME NEW k \in 1 .. n + 1, Has(k)
       PROVE  Here(k) # Fragment
  <2>1. CASE k = 1
    BY <1>7, <1>10, <1>11, <2>1
  <2>2. CASE k # 1
    <3>1. k - 1 \in 1 .. n /\ 1 + (k - 1) = k
      BY <1>3, <2>2
    <3>2. Here(k) = r.payload[k - 1]
      BY <1>8, <1>11, <3>1
    <3>3. r.payload[k - 1] \in PayloadCells
      BY <1>3, <3>1, ElementOfSeq
    <3> QED
      BY <1>10, <3>2, <3>3, CellKinds
  <2> QED
    BY <2>1, <2>2
<1>12. /\ ~Broken(1) /\ ~Broken(1 + n)
       /\ r.trailer => ~Broken(2 + n)
  <2>1. \A k \in 1 .. 1 : k \in 1 .. n + 1
    BY <1>3
  <2>2. \A k \in 1 .. 1 + n : k \in 1 .. n + 1
    BY <1>3
  <2>3. \A k \in 1 .. 2 + n : k \in 1 .. n + 1 \/ k = 2 + n
    BY <1>3
  <2> QED
    BY <1>9, <1>10, <1>11, <2>1, <2>2, <2>3 DEF Broken
<1>13. ASSUME ~RunsShort(1 + n)
       PROVE  SubSeq(source, at + 2, at + 1 + n) = r.payload
  <2> DEFINE body == SubSeq(source, at + 2, at + 1 + n)
  <2>1. at + (1 + n) <= len
    BY <1>13, <1>5 DEF RunsShort
  <2>2. at + 1 + n <= len
    BY <2>1
  <2>3. \A q \in at + 2 .. at + 1 + n : source[q] \in Cells
    <3>1. \A q \in 1 .. len : source[q] \in Cells
      BY <1>1, <1>4, ElementOfSeq
    <3> QED
      BY <2>2, <3>1
  <2>4. /\ body \in Seq(Cells)
        /\ Len(body) = IF at + 2 <= at + 1 + n
                       THEN (at + 1 + n) - (at + 2) + 1 ELSE 0
        /\ \A k \in 1 .. (at + 1 + n) - (at + 2) + 1 :
             body[k] = source[(at + 2) + k - 1]
    BY <2>3, SubSeqProperties
  <2>5. Len(body) = n
    BY <2>4
  <2>6. ASSUME NEW k \in 1 .. n
        PROVE  body[k] = r.payload[k]
    <3>1. /\ k \in 1 .. (at + 1 + n) - (at + 2) + 1
          /\ (at + 2) + k - 1 = at + (1 + k)
      OBVIOUS
    <3>2. body[k] = source[at + (1 + k)]
      BY <2>4, <3>1
    <3>3. Has(1 + k)
      BY <1>5, <2>1
    <3> QED
      BY <1>5, <1>8, <3>2, <3>3
  <2> HIDE DEF body
  <2>7. r.payload \in Seq(Cells)
    <3>1. PayloadCells \subseteq Cells
      BY DEF Cells
    <3> QED
      BY <1>3, <3>1, SeqMonotonic
  <2>8. body \in Seq(Cells) /\ Len(body) = Len(r.payload)
        /\ \A k \in 1 .. Len(body) : body[k] = r.payload[k]
    BY <1>3, <2>4, <2>5, <2>6
  <2>9. body = r.payload
    BY <2>7, <2>8, SeqEqual
  <2> QED
    BY <2>9 DEF body
<1> QED
  BY <1>2, <1>3, <1>7, <1>9, <1>12, <1>13

(***************************************************************************)
(* A written record whose checksums the reader has found right is accepted *)
(* by a reader that takes such records: with no stranded record before it, *)
(* it follows the same records in the view as when it was written.         *)
(***************************************************************************)
LEMMA ReadIsAccepted ==
  ASSUME AcceptanceInv, ChecksumsRight, StrayEntries = {}, NoneStranded,
         ~RefusedByReader(RecordHere)
  PROVE  Accepts(Claims.type, Claims.fields, Payload)
<1>1. /\ NetRecordingInv /\ YieldedIsPrefix /\ StreamedIsLawful
      /\ WriterRemembers /\ HistoriesAgree
      /\ SchemasAreRead /\ ItemsAreRead /\ SchemasAreNumbered
  BY DEF AcceptanceInv, NetRecordingInv, StreamInv, RulesInv, NetWriterInv
<1>2. PICK d \in Nat : d = Len(yielded)
  BY <1>1, LenProperties DEF NetRecordingInv
<1>3. /\ d + 1 \in 1 .. Len(landed) /\ RecordHere = landed[d + 1]
      /\ RecordHere \in Records
  BY <1>1, <1>2, YieldsNext
<1>4. PICK m \in Nat, w \in Nat : m = Len(landed) /\ w = Len(written)
  BY LenProperties
     DEF AcceptanceInv, NetRecordingInv, StreamInv, NetWriterInv,
         NetWriterTypeOK
<1>5. ASSUME NEW i \in 1 .. d + 1
      PROVE  i \in 1 .. w /\ landed[i] = written[i]
  <2>1. i \in 1 .. m /\ \A k \in 1 .. i : k \in 1 .. d + 1
    BY <1>3, <1>4
  <2>2. \A k \in 1 .. i : ~Stranded(k)
    BY <1>2, <2>1 DEF NoneStranded
  <2>3. i <= w /\ landed[i] = written[i]
    BY <1>1, <1>4, <2>1, <2>2 DEF HistoriesAgree
  <2> QED
    BY <2>3
<1>6. d + 1 \in 1 .. w /\ RecordHere = written[d + 1]
  <2>1. d + 1 \in 1 .. d + 1
    OBVIOUS
  <2> QED
    BY <1>3, <1>5, <2>1
<1>7. \A i \in 1 .. d : i \in 1 .. w /\ written[i] = yielded[i]
  <2> TAKE i \in 1 .. d
  <2>1. i \in 1 .. d + 1 /\ yielded[i] = landed[i]
    BY <1>1, <1>2 DEF YieldedIsPrefix
  <2> QED
    BY <1>5, <2>1
<1>8. Lawful(yielded, d, RecordHere)
  <2>1. Lawful(written, (d + 1) - 1, written[d + 1])
    BY <1>1, <1>4, <1>6 DEF StreamedIsLawful, LawfulLog
  <2>2. (d + 1) - 1 = d
    OBVIOUS
  <2>3. Lawful(written, d, RecordHere)
    BY <1>6, <2>1, <2>2
  <2> QED
    BY <1>7, <2>3, OnlyBeforeMatters
<1>9. Remembered(RecordHere)
  BY <1>1, <1>4, <1>6 DEF WriterRemembers
<1>10. phase # "failed"
  BY DEF ChecksumsRight
<1>11. YieldedIsKnown(RecordHere)
  <2> DEFINE f == RecordHere.fields
  <2> SUFFICES ASSUME NEW i \in SchemasBefore(yielded, d, f.id, f.rev)
               PROVE  \E s \in SchemasOf(f.id, f.rev) :
                        s.layout = LayoutOf(yielded[i])
    BY <1>2 DEF YieldedIsKnown
  <2>1. /\ i \in 1 .. d /\ yielded[i].type = "SCMA"
        /\ yielded[i].fields.id = f.id /\ yielded[i].fields.rev = f.rev
    BY DEF SchemasBefore
  <2>2. Remembered(yielded[i])
    BY <1>1, <1>4, <1>7, <2>1 DEF WriterRemembers
  <2>3. PICK s \in schemas :
          /\ yielded[i].fields = [id |-> s.id, rev |-> s.rev]
          /\ yielded[i].payload = <<LayoutCell(s.layout)>>
    BY <2>1, <2>2 DEF Remembered
  <2>4. s.id = f.id /\ s.rev = f.rev
    BY <2>1, <2>3
  <2>5. LayoutOf(yielded[i]) = s.layout
    BY <2>3 DEF LayoutOf, LayoutCell
  <2> QED
    BY <2>4, <2>5 DEF SchemasOf
<1>12. Accepts(RecordHere.type, RecordHere.fields, RecordHere.payload)
  BY <1>1, <1>2, <1>3, <1>8, <1>9, <1>10, <1>11, LawfulIsAccepted DEF Remembered
<1> QED
  BY <1>12 DEF RecordHere

(***************************************************************************)
(* If no stranded record lies before one written where the reader is, then *)
(* that one is the next to be yielded, and no record up to it is stranded. *)
(***************************************************************************)
LEMMA WrittenIsNext ==
  ASSUME NetRecordingInv, phase \in {"between", "payload", "trailer"},
         NEW i \in 1 .. Len(written), written[i].offset = place,
         \A k \in 1 .. Len(landed) : Stranded(k) => ~(landed[k].offset < place)
  PROVE  /\ NoneStranded
         /\ Len(yielded) + 1 \in 1 .. Len(landed)
         /\ landed[Len(yielded) + 1] = written[i]
<1>1. /\ HistoriesAgree /\ RecordsFollow /\ StreamInv /\ YieldedIsPrefix
      /\ landed \in Seq(Records) /\ yielded \in Seq(Records)
  BY DEF NetRecordingInv, StreamInv
<1>2. PICK d \in Nat, m \in Nat : d = Len(yielded) /\ m = Len(landed)
  BY <1>1, LenProperties
<1>3. PICK j \in 1 .. m : landed[j] = written[i]
  BY <1>1, <1>2 DEF HistoriesAgree
<1>4. j = d + 1
  BY <1>2, <1>3, PlaceIsNext
<1>5. ASSUME NEW k \in 1 .. d + 1
      PROVE  ~Stranded(k)
  <2>1. CASE k = d + 1
    BY <1>3, <1>4, <2>1 DEF Stranded
  <2>2. CASE k # d + 1
    <3>1. k \in 1 .. m /\ d + 1 \in k + 1 .. m
      BY <1>3, <1>4, <2>2
    <3>2. EndOf(landed[k]) <= place
      BY <1>1, <1>2, <1>3, <1>4, <3>1 DEF RecordsFollow
    <3>3. /\ landed[k].offset \in Nat \ {0} /\ Len(stream) \in Nat
          /\ EndOf(landed[k]) \in landed[k].offset + 1 .. Len(stream)
      BY <1>1, <1>2, <3>1, StreamedCells, LenProperties
         DEF StreamInv, NetWriterInv, NetWriterTypeOK
    <3>4. place \in Nat
      BY DEF NetRecordingInv
    <3>5. landed[k].offset < place
      BY <3>2, <3>3, <3>4
    <3> QED
      BY <1>2, <3>1, <3>5
  <2> QED
    BY <2>1, <2>2
<1> QED
  BY <1>2, <1>3, <1>4, <1>5 DEF NoneStranded

(***************************************************************************)
(* An enumeration that throws has found bytes at the record it is at, and  *)
(* a record written there is one that this reader does not take, or comes  *)
(* after a stranded one: its header, payload and trailer are as they were  *)
(* written.                                                                *)
(***************************************************************************)
LEMMA ThrowIsJust ==
  ASSUME AcceptanceInv, Enumerate, phase' = "failed"
  PROVE  OwnOutputAccepted'
<1>1. /\ NetRecordingInv /\ place \in Nat /\ source \in Seq(Cells)
      /\ HeaderIsIntact
  BY DEF AcceptanceInv, NetRecordingInv
<1>2. /\ UNCHANGED <<source, written, landed, schemas>>
      /\ phase \in {"between", "payload", "trailer"}
  BY DEF Enumerate, ReadStep, ReadHeader, ReadPayload, ReadTrailer, netWriterVars
<1>3. PICK len \in Nat : len = Len(source)
  BY <1>1, LenProperties
<1>4. place' = place /\ Has(1)
  <2>1. Broken(1) => Has(1)
    <3>1. \A k \in 1 .. 1 : k = 1
      OBVIOUS
    <3> QED
      BY <3>1 DEF Broken
  <2>2. phase \in {"payload", "trailer"} => Has(1)
    BY <1>1, <1>3 DEF HeaderIsIntact, Has
  <2>3. Throw \/ Yield => place' = place
    BY DEF Throw, Yield
  <2>4. ~End /\ ~Go("payload") /\ ~Go("trailer")
    BY DEF End, Go
  <2> QED
    BY <2>1, <2>2, <2>3, <2>4
       DEF Enumerate, ReadStep, ReadHeader, ReadPayload, ReadTrailer, ReadsWrong
<1>5. place < len
  BY <1>1, <1>3, <1>4 DEF Has
<1>6. ASSUME StrayEntries = {}, NEW w \in 1 .. Len(written),
             written[w].offset = place,
             \A k \in 1 .. Len(landed) :
               Stranded(k) => ~(landed[k].offset < place)
      PROVE  RefusedByReader(written[w])
  <2> DEFINE i == Len(yielded) + 1
  <2>0. /\ NoneStranded /\ i \in 1 .. Len(landed) /\ landed[i] = written[w]
        /\ landed[i].offset = place
    BY <1>1, <1>2, <1>6, WrittenIsNext
  <2> HIDE DEF i
  <2> SUFFICES ASSUME ~RefusedByReader(landed[i]) PROVE FALSE
    BY <2>0
  <2>1. PICK r \in Records, n \in Nat :
          r = landed[i] /\ n = Len(r.payload) /\ r.trailer \in BOOLEAN
    <3>1. landed[i] \in Records
      BY <1>1, <2>0, StreamedCells DEF NetRecordingInv
    <3> QED
      BY <3>1, LenProperties DEF Records
  <2>2. /\ Here(1) = HeadCell(r)
        /\ ~RunsShort(1 + n) => Payload = r.payload
        /\ Has(2 + n) /\ r.trailer => Here(2 + n) = TailCell(r)
        /\ ~Broken(1) /\ ~Broken(1 + n)
        /\ r.trailer => ~Broken(2 + n)
        /\ Claims = HeaderContent(r) /\ Claims.size = n
        /\ Claims.trailer = r.trailer
    <3>1. /\ Has(1) => Here(1) = HeadCell(r)
          /\ ~RunsShort(1 + n) =>
               SubSeq(source, place + 2, place + 1 + n) = r.payload
          /\ Has(2 + n) /\ r.trailer => Here(2 + n) = TailCell(r)
          /\ ~Broken(1) /\ ~Broken(1 + n)
          /\ r.trailer => ~Broken(2 + n)
      BY <1>1, <2>0, <2>1, CellsAreHere
    <3>2. Here(1) = HeadCell(r)
      BY <1>4, <3>1
    <3>3. Claims = HeaderContent(r)
      BY <3>2 DEF Claims, HeadCell
    <3>4. Claims.size = n /\ Claims.trailer = r.trailer
      BY <2>1, <3>3 DEF HeaderContent
    <3> QED
      BY <3>1, <3>2, <3>3, <3>4 DEF Payload
  <2>3. ChecksumsRight => Accepts(Claims.type, Claims.fields, Payload)
    <3>1. ASSUME ChecksumsRight PROVE RecordHere = landed[i]
      BY <1>1, <3>1, YieldsNext DEF i
    <3> QED
      BY <1>6, <2>0, <3>1, ReadIsAccepted
  <2>4. ~(ChecksumsRight /\ Yield)
    BY <2>3 DEF Yield
  <2>5. CASE ReadHeader
    <3>1. ValidCommon
      <4>1. n <= MaxPayloadSize
        BY <2>1, NetReaderAssumption DEF RefusedByReader
      <4>2. r.trailer => Claims.pcrc = NoCrc
        BY <2>2 DEF HeaderContent
      <4>3. Claims.excess <= MaxHeaderExcess
        <5>1. Claims.excess = 0 /\ MaxHeaderExcess \in Nat
          BY <2>2, NetReaderAssumption DEF HeaderContent
        <5> QED
          BY <5>1
      <4> QED
        BY <2>2, <4>1, <4>2, <4>3 DEF ValidCommon, HeadCell
    <3>2. Here(1).crc = Crc32c(Claims)
      BY <2>2 DEF HeadCell
    <3> QED
      BY <2>2, <2>5, <3>1, <3>2 DEF ReadHeader, ReadsWrong, End, Go
  <2>6. CASE ReadPayload
    <3>1. ~ReadsWrong(1 + Claims.size)
      BY <2>2 DEF ReadsWrong
    <3>2. ~Claims.trailer /\ ~RunsShort(1 + Claims.size)
      BY <2>6, <3>1 DEF ReadPayload, End, Go
    <3>3. Crc32c(Payload) = Claims.pcrc
      BY <2>2, <3>2 DEF HeaderContent
    <3>4. Yield
      BY <2>6, <3>1, <3>2, <3>3 DEF ReadPayload, End
    <3>5. TotalSize(Claims.size, Claims.trailer) = 1 + Claims.size
      BY <1>1, <2>6, <3>2, HeadCounts DEF ReadPayload
    <3>6. ChecksumsRight
      BY <2>6, <3>2, <3>3, <3>5 DEF ChecksumsRight, ReadPayload
    <3> QED
      BY <2>4, <3>4, <3>6
  <2>7. CASE ReadTrailer
    <3>1. Claims.trailer
      BY <1>1, <2>7 DEF HeaderIsIntact, ReadTrailer, Claims, Here
    <3>2. ~ReadsWrong(2 + Claims.size)
      BY <2>2, <3>1 DEF ReadsWrong
    <3>3. ~RunsShort(2 + Claims.size)
      BY <2>7, <3>2 DEF ReadTrailer, End
    <3>4. Has(2 + n) /\ Has(1 + n)
      <4>1. len >= place + (2 + n)
        BY <1>3, <2>2, <3>3 DEF RunsShort, Has
      <4>2. len >= place + (1 + n)
        BY <1>1, <4>1
      <4> QED
        BY <1>3, <4>1, <4>2 DEF Has
    <3>5. Payload = r.payload
      BY <2>2, <3>4 DEF RunsShort
    <3>6. Here(2 + Claims.size) = TailCell(r) /\ Claims.seq = r.seq
      BY <2>2, <3>1, <3>4 DEF HeaderContent
    <3>7. TrailerFits
      BY <3>5, <3>6 DEF TrailerFits, TailCell
    <3>8. Yield
      BY <2>7, <3>2, <3>3, <3>7 DEF ReadTrailer, End
    <3>9. TotalSize(Claims.size, Claims.trailer) = 2 + Claims.size
      BY <1>1, <2>7, <3>1, HeadCounts DEF ReadTrailer
    <3>10. ChecksumsRight
      BY <2>7, <3>1, <3>3, <3>7, <3>9 DEF ChecksumsRight, ReadTrailer
    <3> QED
      BY <2>4, <3>8, <3>10
  <2> QED
    BY <2>5, <2>6, <2>7 DEF Enumerate, ReadStep
<1>7. \A r : RefusedByReader(r)' <=> RefusedByReader(r)
  BY <1>2 DEF RefusedByReader, SchemasOf
<1>8. \A k : Stranded(k)' <=> Stranded(k)
  BY <1>2 DEF Stranded
<1> QED
  BY <1>2, <1>3, <1>4, <1>5, <1>6, <1>7, <1>8 DEF OwnOutputAccepted

(***************************************************************************)
(* A step of the enumeration takes what it notes from the record it        *)
(* yields; only one that throws may note an item and yield nothing.        *)
(***************************************************************************)
LEMMA MemoryKeeps ==
  ASSUME AcceptanceInv, Enumerate
  PROVE  SchemasAreRead' /\ ItemsAreRead' /\ SchemasAreNumbered'
<1>1. /\ NetRecordingInv /\ yielded \in Seq(Records)
      /\ SchemasAreRead /\ ItemsAreRead /\ SchemasAreNumbered
      /\ phase # "failed"
  BY DEF AcceptanceInv, NetRecordingInv, Enumerate, ReadStep, ReadHeader,
         ReadPayload, ReadTrailer
<1>2. CASE /\ UNCHANGED <<schemasRead, yielded>>
           /\ itemsRead' = itemsRead \/ phase' = "failed"
  BY <1>1, <1>2 DEF SchemasAreRead, ItemsAreRead, SchemasAreNumbered
<1>3. CASE /\ Accepts(Claims.type, Claims.fields, Payload)
           /\ NoteSchema /\ NoteItem
           /\ yielded' = Append(yielded, RecordHere)
  <2>1. PICK d \in Nat : d = Len(yielded)
    BY <1>1, LenProperties
  <2>2. /\ Len(yielded') = d + 1
        /\ \A i \in 1 .. d : yielded'[i] = yielded[i]
        /\ yielded'[d + 1] = RecordHere
    BY <1>1, <1>3, <2>1, AppendProperties
  <2>3. d + 1 \in 1 .. d + 1 /\ \A i \in 1 .. d : i \in 1 .. d + 1
    OBVIOUS
  <2>4. /\ RecordHere.type = Claims.type /\ RecordHere.fields = Claims.fields
        /\ RecordHere.payload = Payload
    BY DEF RecordHere
  <2>5. ASSUME NEW s \in schemasRead'
        PROVE  \E i \in SchemasBefore(yielded', Len(yielded'), s.id, s.rev) :
                 LayoutOf(yielded'[i]) = s.layout
    <3>1. CASE s \in schemasRead
      <4>1. PICK i \in SchemasBefore(yielded, d, s.id, s.rev) :
              LayoutOf(yielded[i]) = s.layout
        BY <1>1, <2>1, <3>1 DEF SchemasAreRead
      <4> QED
        BY <2>2, <2>3, <4>1 DEF SchemasBefore
    <3>2. CASE s \notin schemasRead
      <4>1. /\ Claims.type = "SCMA"
            /\ s.id = Claims.fields.id /\ s.rev = Claims.fields.rev
            /\ s.layout = Payload[1].layout
        BY <1>3, <2>5, <3>2 DEF NoteSchema
      <4>2. d + 1 \in SchemasBefore(yielded', d + 1, s.id, s.rev)
        BY <2>2, <2>3, <2>4, <4>1 DEF SchemasBefore
      <4> QED
        BY <2>2, <2>4, <4>1, <4>2 DEF LayoutOf
    <3> QED
      BY <3>1, <3>2
  <2>6. ASSUME NEW k \in itemsRead'
        PROVE  \E i \in ItemsBefore(yielded', Len(yielded'), k.id, k.stream) :
                 yielded'[i].fields.first = k.index
    <3>1. CASE k \in itemsRead
      <4>1. PICK i \in ItemsBefore(yielded, d, k.id, k.stream) :
              yielded[i].fields.first = k.index
        BY <1>1, <2>1, <3>1 DEF ItemsAreRead
      <4> QED
        BY <2>2, <2>3, <4>1 DEF ItemsBefore
    <3>2. CASE k \notin itemsRead
      <4>1. /\ Claims.type = "BLOB"
            /\ k.id = Claims.fields.id /\ k.stream = Claims.fields.stream
            /\ k.index = Claims.fields.first
        BY <1>3, <2>6, <3>2 DEF NoteItem
      <4>2. d + 1 \in ItemsBefore(yielded', d + 1, k.id, k.stream)
        BY <2>2, <2>3, <2>4, <4>1 DEF ItemsBefore
      <4> QED
        BY <2>2, <2>4, <4>1, <4>2
    <3> QED
      BY <3>1, <3>2
  <2>7. ASSUME NEW i \in 1 .. d + 1, yielded'[i].type = "SCMA"
        PROVE  yielded'[i].fields.id # 0 /\ yielded'[i].fields.rev # 0
    <3>1. CASE i \in 1 .. d
      BY <1>1, <2>1, <2>2, <2>7, <3>1 DEF SchemasAreNumbered
    <3>2. CASE i = d + 1
      <4>1. Claims.type = "SCMA"
        BY <2>2, <2>4, <2>7, <3>2
      <4>2. AcceptsSchema(Claims.fields, Payload)
        BY <1>3, <4>1 DEF Accepts
      <4> QED
        BY <2>2, <2>4, <3>2, <4>2 DEF AcceptsSchema
    <3> QED
      BY <2>7, <3>1, <3>2
  <2> QED
    BY <2>2, <2>5, <2>6, <2>7
       DEF SchemasAreRead, ItemsAreRead, SchemasAreNumbered
<1> QED
  BY <1>2, <1>3
     DEF Enumerate, ReadStep, ReadHeader, ReadPayload, ReadTrailer, End, Throw,
         Go, Yield, RecordHere

(***************************************************************************)
(* What a call does to the history of the writer: at most one record more, *)
(* which lies at what was the end of the stream, and no schema forgotten.  *)
(***************************************************************************)
WriteStep ==
  /\ schemas \subseteq schemas'
  /\ \/ written' = written
     \/ \E r : r.offset = Len(stream) /\ written' = Append(written, r)

LEMMA CallIsWriteStep ==
  ASSUME NetWriterTypeOK, WriterRemembers, NetWriterCall
  PROVE  WriteStep
<1>1. ASSUME NEW r, Streams(r)
      PROVE  WriteStep
  BY <1>1 DEF Streams, Writable, WriteRecord, NotesSchema, WriteStep
<1>2. ASSUME NEW r, Throws(r)
      PROVE  WriteStep
  BY <1>2 DEF Throws, WriteThrows, WriteStep
<1>3. Construct \/ Dispose => WriteStep
  BY DEF Construct, Dispose, WriteStep
<1> QED
  BY <1>1, <1>2, <1>3, NetCallOutcome DEF WriteOutcome

(***************************************************************************)
(* What the writer adds lies behind all that the file held when the reader *)
(* threw; more of the file does not move a record.                         *)
(***************************************************************************)
LEMMA ThrowStaysJust ==
  ASSUME NetRecordingInv, OwnOutputAccepted, Record \/ PassOn
  PROVE  OwnOutputAccepted'
<1>1. /\ StreamInv /\ IsPassedOn /\ place \in Nat /\ source \in Seq(Cells)
      /\ stream \in Seq(Cells) /\ written \in Seq(Records)
      /\ landed \in Seq(Records)
      /\ NetWriterTypeOK /\ WriterRemembers
  BY DEF NetRecordingInv, StreamInv, NetWriterInv, NetWriterTypeOK
<1>2. PICK n \in Nat, m \in Nat, len \in Nat, w \in Nat :
        /\ n = Len(stream) /\ m = Len(landed) /\ len = Len(source)
        /\ len <= n /\ w = Len(written)
  BY <1>1, LenProperties DEF IsPassedOn
<1>3. CASE PassOn
  <2>1. /\ UNCHANGED <<written, landed, schemas, phase, place>>
        /\ \E k \in len + 1 .. n : source' = SubSeq(stream, 1, k)
    BY <1>2, <1>3 DEF PassOn, netWriterVars, readerVars
  <2>2. PICK k \in len + 1 .. n : source' = SubSeq(stream, 1, k)
    BY <2>1
  <2>3. Len(source') = k
    BY <1>1, <1>2, <2>2, Beginning
  <2>4. place < len => place < k
    BY <1>1, <1>2, <2>2
  <2>5. \A r : RefusedByReader(r)' <=> RefusedByReader(r)
    BY <2>1 DEF RefusedByReader, SchemasOf
  <2>6. \A l : Stranded(l)' <=> Stranded(l)
    BY <2>1 DEF Stranded
  <2> QED
    BY <1>2, <2>1, <2>3, <2>4, <2>5, <2>6 DEF OwnOutputAccepted
<1>4. CASE Record
  <2>1. NetWriterCall /\ UNCHANGED <<source, phase, place>> /\ StreamKept
    BY <1>1, <1>4, CallKeepsStream DEF Record, netReaderVars, readerVars
  <2>2. SUFFICES ASSUME phase = "failed", place # 0, StrayEntries = {}
                 PROVE  /\ place < len
                        /\ \A i \in 1 .. Len(written') :
                             written'[i].offset = place =>
                               \/ RefusedByReader(written[i])'
                               \/ \E k \in 1 .. Len(landed') :
                                    Stranded(k)' /\ landed'[k].offset < place
    BY <1>2, <2>1 DEF OwnOutputAccepted
  <2>3. place < len
    BY <1>2, <2>2 DEF OwnOutputAccepted
  <2>4. WriteStep
    BY <1>1, <2>1, CallIsWriteStep
  <2>5. ASSUME NEW i \in 1 .. Len(written'), written'[i].offset = place
        PROVE  i \in 1 .. w /\ written'[i] = written[i]
    <3>1. CASE written' = written
      BY <1>2, <2>5, <3>1
    <3>2. ASSUME NEW r, r.offset = Len(stream), written' = Append(written, r)
          PROVE  i \in 1 .. w /\ written'[i] = written[i]
      <4>1. /\ Len(written') = w + 1
            /\ \A j \in 1 .. w : written'[j] = written[j]
            /\ written'[w + 1] = r
        BY <1>1, <1>2, <3>2, AppendProperties
      <4>2. i # w + 1
        BY <1>1, <1>2, <2>3, <2>5, <3>2, <4>1
      <4> QED
        BY <1>2, <4>1, <4>2
    <3> QED
      BY <2>4, <3>1, <3>2 DEF WriteStep
  <2>6. ASSUME NEW k \in 1 .. m, Stranded(k)
        PROVE  Stranded(k)' /\ landed'[k] = landed[k] /\ k \in 1 .. Len(landed')
    <3>1. /\ landed'[k] = landed[k] /\ k \in 1 .. Len(landed')
      <4>1. landed' \in Seq(Records)
        BY <1>1, <2>1, CallKeepsStream DEF StreamInv
      <4>2. Len(landed') \in Nat /\ m <= Len(landed')
        BY <1>2, <2>1, <4>1, LenProperties DEF StreamKept
      <4> QED
        BY <1>2, <2>1, <4>2 DEF StreamKept
    <3>2. CASE written' = written
      BY <2>6, <3>1, <3>2 DEF Stranded
    <3>3. ASSUME NEW r, r.offset = Len(stream), written' = Append(written, r)
          PROVE  Stranded(k)'
      <4>1. /\ Len(written') = w + 1
            /\ \A j \in 1 .. w : written'[j] = written[j]
            /\ written'[w + 1] = r
        BY <1>1, <1>2, <3>3, AppendProperties
      <4>2. r # landed[k]
        BY <1>1, <1>2, <3>3, NewToTheStream
      <4>3. ASSUME NEW j \in 1 .. w + 1
            PROVE  written'[j] # landed[k]
        <5>1. CASE j = w + 1
          BY <4>1, <4>2, <5>1
        <5>2. CASE j # w + 1
          <6>1. j \in 1 .. w
            BY <5>2
          <6> QED
            BY <1>2, <2>6, <4>1, <6>1 DEF Stranded
        <5> QED
          BY <5>1, <5>2
      <4> QED
        BY <3>1, <4>1, <4>3 DEF Stranded
    <3> QED
      BY <2>4, <3>1, <3>2, <3>3 DEF WriteStep
  <2>7. \A r : RefusedByReader(r) => RefusedByReader(r)'
    <3>1. schemas \subseteq schemas'
      BY <2>4 DEF WriteStep
    <3>2. \A id, rev : SchemasOf(id, rev) \subseteq SchemasOf(id, rev)'
      BY <3>1 DEF SchemasOf
    <3> QED
      BY <3>2 DEF RefusedByReader
  <2>8. ASSUME NEW i \in 1 .. Len(written'), written'[i].offset = place
        PROVE  \/ RefusedByReader(written[i])'
               \/ \E k \in 1 .. Len(landed') :
                    Stranded(k)' /\ landed'[k].offset < place
    <3>1. i \in 1 .. w /\ written'[i] = written[i]
      BY <2>5, <2>8
    <3>2. \/ RefusedByReader(written[i])
          \/ \E k \in 1 .. m : Stranded(k) /\ landed[k].offset < place
      BY <1>2, <2>2, <2>8, <3>1 DEF OwnOutputAccepted
    <3>3. CASE RefusedByReader(written[i])
      BY <2>7, <3>1, <3>3
    <3>4. CASE \E k \in 1 .. m : Stranded(k) /\ landed[k].offset < place
      BY <2>6, <3>4
    <3> QED
      BY <3>2, <3>3, <3>4
  <2> QED
    BY <2>3, <2>8
<1> QED
  BY <1>3, <1>4

LEMMA AcceptanceKeeps ==
  ASSUME AcceptanceInv, [NetRecordingNext]_netRecordingVars
  PROVE  AcceptanceInv'
<1>1. /\ NetRecordingInv /\ RulesInv
      /\ SchemasAreRead /\ ItemsAreRead /\ SchemasAreNumbered
      /\ OwnOutputAccepted
  BY DEF AcceptanceInv
<1>2. NetRecordingInv'
  BY <1>1, RecordKeeps, PassOnKeeps, OpenKeeps, EnumerateKeeps, CloseKeeps,
     NothingHappens DEF NetRecordingNext
<1>3. RulesInv'
  <2>1. NetWriterCall \/ UNCHANGED netWriterVars
    BY DEF NetRecordingNext, netRecordingVars, Record, PassOn, OpenReader,
           Enumerate, CloseReader
  <2> QED
    BY <1>1, <2>1, CallKeepsRules, RulesStandStill
<1>4. CASE Record \/ PassOn
  <2>1. UNCHANGED readerVars
    BY <1>4 DEF Record, PassOn, netReaderVars
  <2>2. SchemasAreRead' /\ ItemsAreRead' /\ SchemasAreNumbered'
    BY <1>1, <2>1 DEF readerVars, SchemasAreRead, ItemsAreRead, SchemasAreNumbered
  <2> QED
    BY <1>1, <1>2, <1>3, <1>4, <2>2, ThrowStaysJust DEF AcceptanceInv
<1>5. CASE OpenReader
  <2>1. /\ UNCHANGED <<schemasRead, itemsRead, yielded>> /\ phase # "failed"
        /\ phase' = "failed" => place' = 0
    BY <1>5 DEF OpenReader, Open
  <2> QED
    BY <1>1, <1>2, <1>3, <2>1
       DEF AcceptanceInv, SchemasAreRead, ItemsAreRead, SchemasAreNumbered,
           OwnOutputAccepted
<1>6. CASE Enumerate
  <2>1. phase' # "failed" => OwnOutputAccepted'
    BY DEF OwnOutputAccepted
  <2> QED
    BY <1>2, <1>3, <1>6, <2>1, ThrowIsJust, MemoryKeeps DEF AcceptanceInv
<1>7. CASE CloseReader
  <2>1. /\ schemasRead' = {} /\ itemsRead' = {} /\ Len(yielded') = 0
        /\ phase' = "closed"
    BY <1>7, EmptySeq DEF CloseReader, Close
  <2> QED
    BY <1>2, <1>3, <2>1
       DEF AcceptanceInv, SchemasAreRead, ItemsAreRead, SchemasAreNumbered,
           OwnOutputAccepted
<1>8. CASE UNCHANGED netRecordingVars
  <2>1. UNCHANGED <<source, phase, place, schemasRead, itemsRead, yielded,
                    written, landed, schemas>>
    BY <1>8 DEF netRecordingVars, netReaderVars, readerVars, netWriterVars
  <2>2. \A r : RefusedByReader(r)' <=> RefusedByReader(r)
    BY <2>1 DEF RefusedByReader, SchemasOf
  <2>3. \A k : Stranded(k)' <=> Stranded(k)
    BY <2>1 DEF Stranded
  <2>4. OwnOutputAccepted'
    BY <1>1, <2>1, <2>2, <2>3 DEF OwnOutputAccepted
  <2> QED
    BY <1>1, <1>2, <1>3, <2>1, <2>4
       DEF AcceptanceInv, SchemasAreRead, ItemsAreRead, SchemasAreNumbered
<1> QED
  BY <1>4, <1>5, <1>6, <1>7, <1>8 DEF NetRecordingNext

(***************************************************************************)
(* The library accepts its own output, from a file that is still growing   *)
(* and with torn records in it: a reader throws only where it finds bytes  *)
(* of no record that a call has written, or a record it does not take, or  *)
(* the writer did not know of a record before it.                          *)
(***************************************************************************)
THEOREM OwnOutputIsAccepted == NetRecordingSpec => []OwnOutputAccepted
<1>1. NetRecordingInit => AcceptanceInv
  <2> SUFFICES ASSUME NetRecordingInit PROVE AcceptanceInv
    OBVIOUS
  <2>1. NetRecordingInv /\ RulesInv
    BY NetRecordingBegins, RulesBegin DEF NetRecordingInit
  <2>2. /\ schemasRead = {} /\ itemsRead = {} /\ Len(yielded) = 0
        /\ phase = "closed"
    BY EmptySeq DEF NetRecordingInit, NoReader
  <2> QED
    BY <2>1, <2>2
       DEF AcceptanceInv, SchemasAreRead, ItemsAreRead, SchemasAreNumbered,
           OwnOutputAccepted
<1>2. AcceptanceInv /\ [NetRecordingNext]_netRecordingVars => AcceptanceInv'
  BY AcceptanceKeeps
<1>3. AcceptanceInv => OwnOutputAccepted
  BY DEF AcceptanceInv
<1> QED
  BY <1>1, <1>2, <1>3, PTL DEF NetRecordingSpec
=============================================================================
