---------------------------- MODULE SdafEncoder ----------------------------
(***************************************************************************)
(* The C encoder (sdaf_writer.c): an in-memory buffer to which every write *)
(* call appends one record.  One action is one call of the API, with each  *)
(* way the call can end; a call that changes nothing is a stuttering step. *)
(*                                                                         *)
(* A record goes into the buffer as up to three appends (header, payload,  *)
(* trailer), each of which may fail to grow the buffer.  The cells of the  *)
(* appends before the failed one stay behind: the record is torn.          *)
(***************************************************************************)
EXTENDS SdafRules

CONSTANTS
  SchemaCalls, DataCalls, TextCalls, BlobCalls, NoteCalls, PrivateCalls,
               \* the arguments the application passes to each write call
  IndexTrailers,\* the trailer flags of its index calls; none, no index call
  StrayEntries,\* index entries the application may make up
  HaveZstd,    \* built with libzstd
  Careful,     \* the application keeps the rules of the format
  StopsOnError,\* it makes no call after one that set encoder->status
  MemoryFails, \* allocations can fail
  MaxCells,    \* bound: no call is made once the buffer holds this much
  SizeBits,    \* the width of size_t
  InitialCapacity  \* what an empty buffer grows to first

SizeMax == 2 ^ SizeBits - 1

ASSUME EncoderAssumption ==
  /\ SchemaCalls \subseteq [schema : Schemas, trailer : BOOLEAN]
  /\ DataCalls \subseteq
       [schema : Schemas, id : Nat, rev : Nat, stream : Nat, first : Nat,
        count : Nat, mode : TimeModes, times : Times, stamps : Nat,
        profile : Profiles, values : Seq(Values), trailer : BOOLEAN]
  /\ TextCalls \subseteq
       [id : Nat, rev : Nat, stream : Nat, values : Seq(Values),
        trailer : BOOLEAN]
  /\ BlobCalls \subseteq
       [id : Nat, rev : Nat, stream : Nat, first : Nat, profile : Profiles,
        values : Seq(Values), trailer : BOOLEAN]
  /\ NoteCalls \subseteq [values : Seq(Values), trailer : BOOLEAN]
  /\ PrivateCalls \subseteq [values : Seq(Values), trailer : BOOLEAN]
  /\ IndexTrailers \subseteq BOOLEAN
  /\ StrayEntries \subseteq EntryCells
  /\ HaveZstd \in BOOLEAN
  /\ Careful \in BOOLEAN
  /\ StopsOnError \in BOOLEAN
  /\ MemoryFails \in BOOLEAN
  /\ MaxCells \in Nat
  /\ SizeBits \in Nat
  /\ SizeMax \in Nat
  /\ InitialCapacity \in 1 .. SizeMax

VARIABLES
  data,             \* the buffer; empty before init and after free
  capacity,         \* how much the allocation behind it has room for
  nextSequence,
  recordCount,
  dataRecordCount,
  encoderStatus,    \* encoder->status: the last error that was recorded
  written           \* history: the records whose write call returned SDAF_OK

encoderVars ==
  <<data, capacity, nextSequence, recordCount, dataRecordCount,
    encoderStatus, written>>

EncoderStatuses == {"OK", "ARGUMENT", "MEMORY", "FORMAT", "LIMIT"}

(* Type correctness; nextSequence stays within its field. *)
EncoderTypeOK ==
  /\ data \in Seq(Cells)
  /\ capacity \in Nat
  /\ nextSequence \in 0 .. SequenceMod - 1
  /\ recordCount \in Nat
  /\ dataRecordCount \in Nat
  /\ encoderStatus \in EncoderStatuses
  /\ written \in Seq(Records)

\* A zero-initialised sdaf_encoder.
ZeroEncoder ==
  /\ data = <<>>
  /\ capacity = 0
  /\ nextSequence = 0
  /\ recordCount = 0
  /\ dataRecordCount = 0
  /\ encoderStatus = "OK"
  /\ written = <<>>

-----------------------------------------------------------------------------
(* sdaf_encoder_append. *)

\* The capacities the loop passes through, without its limit.
Doublings(start) == {start * 2 ^ k : k \in 0 .. SizeBits}

\* (a defective variant, for the mutation runs)
GrownPastWidth(old, needed) ==   \* doubled also where that is too much
  LET start == IF old = 0 THEN InitialCapacity ELSE old
      enough == {d \in Doublings(start) :
                   d >= needed /\ (d = start \/ d < 2 * needed)}
  IN  IF needed <= old THEN old
      ELSE CHOOSE d \in enough : TRUE

\* The first doubling with room for what is needed, or exactly that when
\* size_t does not hold such a doubling.
Grown(old, needed) ==
  LET start == IF old = 0 THEN InitialCapacity ELSE old
      enough == {d \in Doublings(start) :
                   /\ d \in needed .. SizeMax
                   /\ d = start \/ d < 2 * needed}
  IN  IF needed <= old THEN old
      ELSE IF enough = {} THEN needed ELSE CHOOSE d \in enough : TRUE

-----------------------------------------------------------------------------
(* sdaf_encoder_record. *)

NewRecord(type, trailer, fields, payload) ==
  [type |-> type, trailer |-> trailer, seq |-> nextSequence,
   offset |-> Len(data), fields |-> fields, payload |-> payload]

\* The buffer and its capacity after n of the three appends of a record.
After(r, n) == data \o <<<<>>, <<HeadCell(r)>>, <<HeadCell(r)>> \o r.payload,
                        Stored(r)>>[n + 1]

CapacityAfter(r, n) ==
  LET head == Grown(capacity, Len(After(r, 1)))
      body == Grown(head, Len(After(r, 2)))
  IN  <<capacity, head, body, Grown(body, Len(After(r, 3)))>>[n + 1]

\* (a defective variant, for the mutation runs)
StoreWholeUnwrapped(r) ==   \* the sequence number does not wrap
  /\ data # <<>>
  /\ Len(After(r, 3)) <= SizeMax
  /\ data' = After(r, 3)
  /\ capacity' = CapacityAfter(r, 3)
  /\ nextSequence' = nextSequence + 1
  /\ recordCount' = recordCount + 1
  /\ written' = Append(written, r)
  /\ UNCHANGED encoderStatus

StoreWholeNoTrailer(r) ==   \* the trailer is announced and not appended
  /\ data # <<>>
  /\ Len(After(r, 2)) <= SizeMax
  /\ data' = After(r, 2)
  /\ capacity' = CapacityAfter(r, 2)
  /\ nextSequence' = (nextSequence + 1) % SequenceMod
  /\ recordCount' = recordCount + 1
  /\ written' = Append(written, r)
  /\ UNCHANGED encoderStatus

StoreWhole(r) ==
  /\ data # <<>>
  /\ Len(After(r, 3)) <= SizeMax
  /\ data' = After(r, 3)
  /\ capacity' = CapacityAfter(r, 3)
  /\ nextSequence' = (nextSequence + 1) % SequenceMod
  /\ recordCount' = recordCount + 1
  /\ written' = Append(written, r)
  /\ UNCHANGED encoderStatus

\* What ends append n + 1: a size size_t cannot hold, or no memory for the
\* larger buffer; the first append also needs memory for the header.
AppendFails(r, n, status) ==
  \/ status = "LIMIT" /\ Len(After(r, n + 1)) > SizeMax
  \/ /\ status = "MEMORY"
     /\ MemoryFails
     /\ n = 0 \/ Len(After(r, n + 1)) > CapacityAfter(r, n)

\* (a defective variant, for the mutation runs)
StopShortUnnoticed(r) ==   \* encoder->status is not set
  /\ data # <<>>
  /\ \E n \in 0 .. 2, status \in {"MEMORY", "LIMIT"} :
       /\ Len(After(r, n)) <= SizeMax
       /\ AppendFails(r, n, status)
       /\ data' = After(r, n)
       /\ capacity' = CapacityAfter(r, n)
  /\ UNCHANGED <<nextSequence, recordCount, encoderStatus, written>>

StopShortNumbered(r) ==    \* the failed record keeps its number
  /\ data # <<>>
  /\ \E n \in 0 .. 2, status \in {"MEMORY", "LIMIT"} :
       /\ Len(After(r, n)) <= SizeMax
       /\ AppendFails(r, n, status)
       /\ data' = After(r, n)
       /\ capacity' = CapacityAfter(r, n)
       /\ encoderStatus' = status
  /\ nextSequence' = (nextSequence + 1) % SequenceMod
  /\ UNCHANGED <<recordCount, written>>

\* What the appends before the failed one stored stays in the buffer.
StopShort(r) ==
  /\ data # <<>>
  /\ \E n \in 0 .. 2, status \in {"MEMORY", "LIMIT"} :
       /\ Len(After(r, n)) <= SizeMax
       /\ AppendFails(r, n, status)
       /\ data' = After(r, n)
       /\ capacity' = CapacityAfter(r, n)
       /\ encoderStatus' = status
  /\ UNCHANGED <<nextSequence, recordCount, written>>

\* A call on an encoder that has no buffer returns SDAF_ERROR_ARGUMENT.
NoBuffer ==
  /\ data = <<>>
  /\ UNCHANGED <<data, capacity, nextSequence, recordCount, encoderStatus,
                 written>>

EncodeRecord(r) ==
  /\ StoreWhole(r) \/ StopShort(r) \/ NoBuffer
  /\ UNCHANGED dataRecordCount

\* A call that is refused before anything is stored; some refusals are
\* recorded in encoder->status and some are only returned.
Refuse(status) ==
  /\ encoderStatus' = status
  /\ UNCHANGED <<data, capacity, nextSequence, recordCount, dataRecordCount,
                 written>>

\* The buffers the payload is prepared in cannot be allocated.
PayloadOutOfMemory ==
  MemoryFails /\ (Refuse("MEMORY") \/ Refuse(encoderStatus))

\* The same, in a call that returns the error without recording it.
PayloadOutOfMemoryUnrecorded == MemoryFails /\ Refuse(encoderStatus)

-----------------------------------------------------------------------------
(* The write calls. *)

\* Validation may find a limit exceeded, and takes memory of its own.
WriteSchema(c) ==
  \/ /\ c.schema.id = 0 \/ c.schema.rev = 0
     /\ Refuse("FORMAT")
  \/ /\ c.schema.id # 0
     /\ c.schema.rev # 0
     /\ \/ /\ c.schema.layout \notin ValidLayouts
           /\ Refuse("FORMAT") \/ Refuse("LIMIT")
        \/ MemoryFails /\ Refuse("MEMORY")
        \/ /\ c.schema.layout \in ValidLayouts
           /\ EncodeRecord(NewRecord("SCMA", c.trailer,
                [id |-> c.schema.id, rev |-> c.schema.rev],
                <<[cell |-> "layout", layout |-> c.schema.layout]>>))

ValidDataInfo(c) ==
  /\ c.id # 0
  /\ c.rev # 0
  /\ c.stream # 0
  /\ TimesAgree(c.mode, c.stamps, c.count)

\* The schema argument is the one the options name and has room for the
\* samples.  It need not be a schema that was written.
FitsSchema(c) ==
  /\ c.schema.id = c.id
  /\ c.schema.rev = c.rev
  /\ HoldsData(c.schema.layout, c.stream, c.mode)
  /\ Len(c.values) =
       ExpectedSize(c.schema.layout, c.stream, c.count, c.stamps)

DataRecord(c) ==
  NewRecord("DATA", c.trailer,
    [id |-> c.id, rev |-> c.rev, stream |-> c.stream, first |-> c.first,
     count |-> c.count, mode |-> c.mode, times |-> c.times,
     stamps |-> c.stamps, decoded |-> Len(c.values), profile |-> c.profile],
    Encoded(c.profile, c.values))

WriteData(c) ==
  \/ ~ValidDataInfo(c) /\ Refuse(encoderStatus)
  \/ ValidDataInfo(c) /\ ~FitsSchema(c) /\ Refuse("ARGUMENT")
  \/ /\ ValidDataInfo(c)
     /\ FitsSchema(c)
     /\ c.profile # "none" => HaveZstd
     /\ \/ PayloadOutOfMemory
        \/ StoreWhole(DataRecord(c)) /\ dataRecordCount' = dataRecordCount + 1
        \/ /\ StopShort(DataRecord(c)) \/ NoBuffer
           /\ UNCHANGED dataRecordCount
  \/ /\ ValidDataInfo(c)
     /\ FitsSchema(c)
     /\ c.profile # "none" /\ ~HaveZstd
     /\ Refuse(encoderStatus)

\* All references of a TEXT call are zero, or none is.
TextRefersWhole(c) ==
  IF c.id = 0 THEN c.rev = 0 /\ c.stream = 0 ELSE c.rev # 0 /\ c.stream # 0

WriteText(c) ==
  \/ ~TextRefersWhole(c) /\ Refuse("ARGUMENT")
  \/ /\ TextRefersWhole(c)
     /\ EncodeRecord(NewRecord("TEXT", c.trailer,
                       [id |-> c.id, rev |-> c.rev, stream |-> c.stream],
                       AsCells(c.values)))

ValidBlobInfo(c) ==
  /\ c.id # 0
  /\ c.rev # 0
  /\ c.stream # 0
  /\ c.profile \in {"none", "zstd"}

WriteBlob(c) ==
  \/ ~ValidBlobInfo(c) /\ Refuse(encoderStatus)
  \/ /\ ValidBlobInfo(c)
     /\ c.profile = "zstd" => HaveZstd
     /\ \/ PayloadOutOfMemoryUnrecorded
        \/ EncodeRecord(NewRecord("BLOB", c.trailer,
             [id |-> c.id, rev |-> c.rev, stream |-> c.stream,
              first |-> c.first, decoded |-> Len(c.values),
              profile |-> c.profile],
             Encoded(c.profile, c.values)))
  \/ ValidBlobInfo(c) /\ c.profile = "zstd" /\ ~HaveZstd /\ Refuse(encoderStatus)

WriteNote(c) ==
  EncodeRecord(NewRecord("NOTE", c.trailer, NoFields, AsCells(c.values)))

WriteIndex(entries, trailer) ==
  \/ PayloadOutOfMemoryUnrecorded
  \/ EncodeRecord(NewRecord("INDX", trailer, NoFields, entries))

WriteEnd(lastIndex) ==
  EncodeRecord(NewRecord("END!", FALSE,
    [total |-> recordCount + 1, datas |-> dataRecordCount,
     lastIndex |-> lastIndex], <<>>))

WritePrivate(c) ==
  EncodeRecord(NewRecord("PRIV", c.trailer, NoFields, AsCells(c.values)))

-----------------------------------------------------------------------------
(* sdaf_encoder_init and sdaf_encoder_free. *)

Initialize ==
  /\ data = <<>>
  /\ \/ /\ data' = <<FileHeader>>
        /\ capacity' = Grown(0, 1)
        /\ encoderStatus' = "OK"
     \/ /\ MemoryFails
        /\ UNCHANGED <<data, capacity>>
        /\ encoderStatus' = "MEMORY"
  /\ nextSequence' = 0
  /\ recordCount' = 0
  /\ dataRecordCount' = 0
  /\ written' = <<>>

Free ==
  /\ data # <<>>
  /\ data' = <<>>
  /\ capacity' = 0
  /\ nextSequence' = 0
  /\ recordCount' = 0
  /\ dataRecordCount' = 0
  /\ encoderStatus' = "OK"
  /\ written' = <<>>

-----------------------------------------------------------------------------
(***************************************************************************)
(* The application.  A careful one keeps the rules the format gives to     *)
(* writers and the encoder leaves to its caller: it writes a schema before *)
(* the records that refer to it and never redefines one, numbers the items *)
(* of a stream upwards, sends each record to a stream of its kind, with    *)
(* spare bits, indexes and times in order, and indexes records it has      *)
(* really written.                                                         *)
(***************************************************************************)
SchemasWritten(id, rev) ==
  {written[i].payload[1].layout : i \in
     {k \in 1 .. Len(written) :
        /\ written[k].type = "SCMA"
        /\ written[k].fields.id = id
        /\ written[k].fields.rev = rev}}

SchemaAllowed(c) ==
  SchemasWritten(c.schema.id, c.schema.rev) \subseteq {c.schema.layout}

DataAllowed(c) ==
  /\ SchemasWritten(c.id, c.rev) = {c.schema.layout}
  /\ ~IndexesWrap(c)
  /\ SamplesInOrder(c.schema.layout, c, Encoded(c.profile, c.values))

TextAllowed(c) ==
  c.id = 0 \/ \E l \in SchemasWritten(c.id, c.rev) :
                 KindOf(l, c.stream) = "text"

BlobAllowed(c) ==
  /\ \E l \in SchemasWritten(c.id, c.rev) : KindOf(l, c.stream) = "blob"
  /\ \A i \in 1 .. Len(written) :
       written[i].type = "BLOB" =>
         \/ written[i].fields.id # c.id
         \/ written[i].fields.stream # c.stream
         \/ written[i].fields.first < c.first

\* The index entry for a record: a BLOB is one item.
EntryFor(r) ==
  [cell |-> "entry", offset |-> r.offset, seq |-> r.seq,
   stream |-> r.fields.stream, first |-> r.fields.first,
   count |-> IF r.type = "BLOB" THEN 1 ELSE r.fields.count]

TrueEntries ==
  {EntryFor(written[i]) : i \in
     {k \in 1 .. Len(written) : written[k].type \in {"DATA", "BLOB"}}}

\* An index lists one entry, or nothing.
IndexArguments ==
  {<<>>} \cup {<<e>> : e \in TrueEntries \cup
                           (IF Careful THEN {} ELSE StrayEntries)}

IndexOffsets ==
  {0} \cup {written[i].offset : i \in
              {k \in 1 .. Len(written) : written[k].type = "INDX"}}

\* Where the application may say the last index is: a careless one may also
\* name the first record, whatever that is.
LastIndexes == IndexOffsets \cup (IF Careful THEN {} ELSE {1})

MayCall ==
  /\ Len(data) < MaxCells
  /\ StopsOnError => encoderStatus = "OK"

EncoderCall ==
  /\ MayCall
  /\ \/ Initialize
     \/ \E c \in SchemaCalls : (Careful => SchemaAllowed(c)) /\ WriteSchema(c)
     \/ \E c \in DataCalls : (Careful => DataAllowed(c)) /\ WriteData(c)
     \/ \E c \in TextCalls : (Careful => TextAllowed(c)) /\ WriteText(c)
     \/ \E c \in BlobCalls : (Careful => BlobAllowed(c)) /\ WriteBlob(c)
     \/ \E c \in NoteCalls : WriteNote(c)
     \/ \E c \in PrivateCalls : WritePrivate(c)
     \/ \E e \in IndexArguments, t \in IndexTrailers : WriteIndex(e, t)
     \/ \E o \in LastIndexes : WriteEnd(o)

EncoderNext == EncoderCall \/ Free

EncoderSpec == ZeroEncoder /\ [][EncoderNext]_encoderVars

-----------------------------------------------------------------------------
(* What the encoder promises. *)

(***************************************************************************)
(* Every record whose write call returned SDAF_OK lies in the buffer whole *)
(* at the offset it was given, and no two of them overlap: neither later   *)
(* calls nor failed ones disturb what is already there                     *)
(* (sdaf_encoder_append copies to the end, and its size moves only when    *)
(* the copy was made).                                                     *)
(***************************************************************************)
RecordsInPlace ==
  \A i \in 1 .. Len(written) :
    /\ EndOf(written[i]) <= Len(data)
    /\ SubSeq(data, written[i].offset + 1, EndOf(written[i]))
         = Stored(written[i])
    /\ i < Len(written) => EndOf(written[i]) <= written[i + 1].offset

\* The buffer is the file header and the written records, nothing between.
Contiguous ==
  IF written = <<>>
  THEN Len(data) <= 1
  ELSE /\ written[1].offset = 1
       /\ \A i \in 1 .. Len(written) - 1 :
            EndOf(written[i]) = written[i + 1].offset
       /\ EndOf(written[Len(written)]) = Len(data)

(***************************************************************************)
(* The buffer has room for what is in it, its capacity is a size_t, and    *)
(* growing never takes more than the first allocation or twice what is     *)
(* stored, also where doubling would overflow and after a realloc that     *)
(* failed (sdaf_encoder_append).                                           *)
(***************************************************************************)
CapacityHolds ==
  /\ Len(data) <= capacity
  /\ capacity <= SizeMax
  /\ capacity > InitialCapacity => capacity < 2 * Len(data)

(***************************************************************************)
(* A buffer with a torn record in it never looks healthy: encoder->status  *)
(* stays an error however many calls succeed afterwards, so a caller that  *)
(* looks at it once, before saving, learns of the damage.                  *)
(***************************************************************************)
TornIsRecorded == ~Contiguous => encoderStatus # "OK"

(***************************************************************************)
(* The counters and the sequence numbers agree with the records: an END    *)
(* record, wherever it stands, counts the records up to itself and the     *)
(* DATA records among them, and sequence numbers number the records modulo *)
(* the width of the field, whatever calls failed in between.               *)
(***************************************************************************)
DatasAmong(n) == {i \in 1 .. n : written[i].type = "DATA"}

CountsAreTrue ==
  \A i \in 1 .. Len(written) :
    /\ written[i].seq = (i - 1) % SequenceMod
    /\ written[i].type = "END!" =>
         /\ written[i].fields.total = i
         /\ written[i].fields.datas = Cardinality(DatasAmong(i))

-----------------------------------------------------------------------------
(* What the promises rest on: the encoder's counters are functions of the  *)
(* records it has stored, and a record has the fields and the payload of   *)
(* its type.                                                               *)

CountersAgree ==
  /\ nextSequence = Len(written) % SequenceMod
  /\ recordCount = Len(written)
  /\ dataRecordCount = Cardinality(DatasAmong(Len(written)))

FieldsFit(r) ==
  /\ r.type = "SCMA" =>
       /\ r.fields \in SchemaFields
       /\ r.fields.id # 0 /\ r.fields.rev # 0
       /\ \E l \in ValidLayouts : r.payload = <<[cell |-> "layout", layout |-> l]>>
  /\ r.type = "DATA" => r.fields \in DataFields
  /\ r.type = "TEXT" => r.fields \in TextFields
  /\ r.type = "BLOB" => r.fields \in BlobFields
  /\ r.type = "INDX" => r.payload \in Seq(EntryCells)
  /\ r.type = "END!" => r.fields \in EndFields

EncoderInv ==
  /\ EncoderTypeOK
  /\ \A i \in 1 .. Len(written) : FieldsFit(written[i])
  /\ CapacityHolds
  /\ RecordsInPlace
  /\ TornIsRecorded
  /\ CountersAgree
  /\ CountsAreTrue

(***************************************************************************)
(* What a reader of the buffer can rely on: it begins with the file        *)
(* header, records follow each other, and a record header in it belongs to *)
(* a written record or to a torn one.  A torn record is missing cells, so  *)
(* that the extent its header claims runs into the header of a later       *)
(* record or past the end of the buffer.                                   *)
(***************************************************************************)
HeadAt(p) == data[p].cell = "head"

ClaimedEnd(p) == p - 1 + TotalSize(data[p].is.size, data[p].is.trailer)

WrittenAt(p) == \E i \in 1 .. Len(written) : written[i].offset = p - 1

TornAt(p) ==
  ClaimedEnd(p) > Len(data)
    \/ \E q \in p + 1 .. Len(data) : q <= ClaimedEnd(p) /\ HeadAt(q)

HeadsAccounted ==
  \A p \in 1 .. Len(data) :
    HeadAt(p) => /\ data[p].crc = Crc32c(data[p].is)
                 /\ data[p].is.excess = 0
                 /\ WrittenAt(p) \/ TornAt(p)

RecordsFollow ==
  \A i \in 1 .. Len(written) :
    /\ written[i].offset >= 1
    /\ \A j \in i + 1 .. Len(written) : EndOf(written[i]) <= written[j].offset

\* A cell is in the buffer as a whole or not at all, and the header of a torn
\* record has the fields of its type as well.
CellsFit ==
  \A p \in 1 .. Len(data) :
    /\ data[p] # Fragment
    /\ HeadAt(p) =>
         /\ data[p].is.type = "DATA" => data[p].is.fields \in DataFields
         /\ data[p].is.type = "BLOB" => data[p].is.fields \in BlobFields

BufferInv ==
  /\ EncoderInv
  /\ data # <<>> => data[1] = FileHeader
  /\ RecordsFollow
  /\ HeadsAccounted

(***************************************************************************)
(* What a reader of a careful application's buffer can rely on besides:    *)
(* the records keep the rules of the format, and when the application also *)
(* stops at an error, they follow each other without a gap, with at most a *)
(* torn one behind the last.                                               *)
(***************************************************************************)
CarefulLog == Careful => LawfulLog(written)

CarefulSamples == Careful => SoundLog(written)

WrittenEnd == IF written = <<>> THEN 1 ELSE EndOf(written[Len(written)])

Consecutive ==
  \A i \in 1 .. Len(written) :
    written[i].offset = IF i = 1 THEN 1 ELSE EndOf(written[i - 1])

TornTail ==
  Len(data) > WrittenEnd =>
    /\ HeadAt(WrittenEnd + 1)
    /\ ClaimedEnd(WrittenEnd + 1) > Len(data)
    /\ data[WrittenEnd + 1].is.trailer => data[WrittenEnd + 1].is.pcrc = NoCrc

StoppedAtTear == StopsOnError => Consecutive /\ TornTail
=============================================================================
