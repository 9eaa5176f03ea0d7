---------------------------- MODULE SdafDecoder ----------------------------
(***************************************************************************)
(* The C decoder (sdaf_reader.c): sdaf_decode walks the input from its     *)
(* header, one record a step, checks each record in the order of the code  *)
(* and appends it to the document, until the input ends, ends inside a     *)
(* record, or a check fails.  What was appended before stays.              *)
(***************************************************************************)
EXTENDS SdafFormat, FiniteSets

CONSTANTS
  MaxPayload,    \* limits->max_payload_size
  MaxExcess,     \* what limits->max_header_size allows beyond a header
  MaxDecoded,    \* limits->max_decoded_size
  MaxUtf8,       \* limits->max_utf8_size
  MaxRecords,    \* limits->max_records
  ReaderHasZstd, \* built with libzstd
  FixedBytes     \* layouts and streams that have a fixed-bytes channel

ASSUME DecoderAssumption ==
  /\ MaxPayload \in Nat
  /\ MaxDecoded \in Nat
  /\ MaxUtf8 \in Nat
  /\ MaxRecords \in Nat
  /\ ReaderHasZstd \in BOOLEAN
  /\ MaxExcess \in Nat
  /\ FixedBytes \subseteq Layouts \X StreamIds

VARIABLES
  input,          \* the bytes given to sdaf_decode
  offset,         \* where the next record starts
  document,       \* document->records
  opaque,         \* positions of DATA and BLOB records kept undecoded
  documentStatus, \* document->status, or the progress of the call
  errorOffset     \* document->error_offset

decoderVars ==
  <<input, offset, document, opaque, documentStatus, errorOffset>>

Failures == {"FORMAT", "LIMIT", "MEMORY", "IO"}

\* A zeroed sdaf_document: nothing decoded yet, or sdaf_document_free called.
NoDocument ==
  /\ input = <<>>
  /\ offset = 0
  /\ document = <<>>
  /\ opaque = {}
  /\ documentStatus = "idle"
  /\ errorOffset = 0

-----------------------------------------------------------------------------
(* Looking back at the document. *)

\* sdaf_find_schema: the layout of the last schema with this id and revision.
SchemaAt(id, rev) ==
  {i \in 1 .. Len(document) :
     /\ document[i].type = "SCMA"
     /\ document[i].fields.id = id
     /\ document[i].fields.rev = rev}

LayoutFor(id, rev) ==
  LET last == CHOOSE i \in SchemaAt(id, rev) :
                \A j \in SchemaAt(id, rev) : j <= i
  IN  document[last].payload[1].layout

SchemaSeen(id, rev) == SchemaAt(id, rev) # {}

\* last_blob_index, whatever the schema revision.
EarlierItems(id, stream) ==
  {i \in 1 .. Len(document) :
     /\ document[i].type = "BLOB"
     /\ document[i].fields.id = id
     /\ document[i].fields.stream = stream}

\* (a defective variant, for the mutation runs)
ItemIndexGrowsFromFirst(f) ==   \* compares with the first item, not the last
  \A i \in EarlierItems(f.id, f.stream) :
    (\A j \in EarlierItems(f.id, f.stream) : i <= j)
      => document[i].fields.first < f.first

ItemIndexGrows(f) ==
  \A i \in EarlierItems(f.id, f.stream) :
    (\A j \in EarlierItems(f.id, f.stream) : j <= i)
      => document[i].fields.first < f.first

RecordsAt(where) ==
  {i \in 1 .. Len(document) : document[i].offset = where}

-----------------------------------------------------------------------------
(* parse_known_record: the verdict on a record whose checksums are right.  *)

\* (a defective variant, for the mutation runs)
ParseSchemaRedefined(f, payload) ==   \* earlier schemas are not looked at
  IF \/ f.id = 0 \/ f.rev = 0
     \/ Len(payload) # 1
     \/ payload[1].cell # "layout"
     \/ payload[1].layout \notin ValidLayouts
  THEN "FORMAT" ELSE "OK"

ParseSchema(f, payload) ==
  IF \/ f.id = 0 \/ f.rev = 0
     \/ Len(payload) # 1
     \/ payload[1].cell # "layout"
     \/ payload[1].layout \notin ValidLayouts
     \/ SchemaSeen(f.id, f.rev)
          /\ LayoutFor(f.id, f.rev) # payload[1].layout
  THEN "FORMAT" ELSE "OK"

\* (a defective variant, for the mutation runs)
DataMatchesKindOnly(f) ==   \* the decoded size is not checked
  HoldsData(LayoutFor(f.id, f.rev), f.stream, f.mode)

DataMatchesSchema(f) ==
  LET l == LayoutFor(f.id, f.rev) IN
  /\ HoldsData(l, f.stream, f.mode)
  /\ f.decoded = ExpectedSize(l, f.stream, f.count, f.stamps)

ParseData(f, payload) ==
  IF f.id = 0 \/ f.rev = 0 \/ f.stream = 0 THEN "FORMAT"
  ELSE IF f.decoded > MaxDecoded THEN "LIMIT"
  ELSE IF ~TimesAgree(f.mode, f.stamps, f.count) THEN "FORMAT"
  ELSE IF ~SchemaSeen(f.id, f.rev) THEN "OK"
  ELSE IF ~DataMatchesSchema(f) THEN "FORMAT"
  ELSE IF f.profile # "none" /\ ~ReaderHasZstd THEN "OK"
  ELSE IF DecodedSize(f.profile, payload) # f.decoded THEN "FORMAT"
  ELSE IF \/ IndexesWrap(f)
          \/ ~SamplesInOrder(LayoutFor(f.id, f.rev), f, payload)
  THEN "FORMAT" ELSE "OK"

ParseText(f, payload) ==
  IF Len(payload) > MaxUtf8 THEN "LIMIT"
  ELSE IF f.id = 0
  THEN IF f.rev = 0 /\ f.stream = 0 THEN "OK" ELSE "FORMAT"
  ELSE IF \/ f.rev = 0 \/ f.stream = 0
          \/ SchemaSeen(f.id, f.rev)
               /\ KindOf(LayoutFor(f.id, f.rev), f.stream) # "text"
  THEN "FORMAT" ELSE "OK"

ParseBlob(f, payload) ==
  IF f.id = 0 \/ f.rev = 0 \/ f.stream = 0 THEN "FORMAT"
  ELSE IF f.decoded > MaxDecoded THEN "LIMIT"
  ELSE IF \/ f.profile \notin {"none", "zstd"}
          \/ ~ItemIndexGrows(f)
          \/ SchemaSeen(f.id, f.rev)
               /\ KindOf(LayoutFor(f.id, f.rev), f.stream) # "blob"
  THEN "FORMAT"
  ELSE IF f.profile # "none" /\ ~ReaderHasZstd THEN "OK"
  ELSE IF DecodedSize(f.profile, payload) # f.decoded THEN "FORMAT"
  ELSE "OK"

\* (a defective variant, for the mutation runs)
EntryMatchesRecordOnly(e) ==   \* the item index is not compared
  /\ e.cell = "entry"
  /\ \E i \in RecordsAt(e.offset) :
       LET target == document[i] IN
       /\ target.type \in {"DATA", "BLOB"}
       /\ target.seq = e.seq
       /\ target.fields.stream = e.stream

\* An index entry names an earlier DATA or BLOB record and agrees with it.
EntryMatches(e) ==
  /\ e.cell = "entry"
  /\ \E i \in RecordsAt(e.offset) :
       LET target == document[i] IN
       /\ target.type \in {"DATA", "BLOB"}
       /\ target.seq = e.seq
       /\ target.fields.stream = e.stream
       /\ target.fields.first = e.first
       /\ e.count = IF target.type = "BLOB" THEN 1 ELSE target.fields.count

ParseIndex(payload) ==
  IF \A i \in 1 .. Len(payload) : EntryMatches(payload[i])
  THEN "OK" ELSE "FORMAT"

\* (a defective variant, for the mutation runs)
ParseEndOffByOne(f, payload) ==   \* END is taken not to count itself
  IF /\ payload = <<>>
     /\ f.total = Len(document)
     /\ f.datas =
          Cardinality({i \in 1 .. Len(document) : document[i].type = "DATA"})
     /\ \/ f.lastIndex = 0
        \/ \E i \in RecordsAt(f.lastIndex) : document[i].type = "INDX"
  THEN "OK" ELSE "FORMAT"

ParseEnd(f, payload) ==
  IF /\ payload = <<>>
     /\ f.total = Len(document) + 1
     /\ f.datas =
          Cardinality({i \in 1 .. Len(document) : document[i].type = "DATA"})
     /\ \/ f.lastIndex = 0
        \/ \E i \in RecordsAt(f.lastIndex) : document[i].type = "INDX"
  THEN "OK" ELSE "FORMAT"

ParseRecord(type, f, payload) ==
  CASE type = "SCMA" -> ParseSchema(f, payload)
    [] type = "DATA" -> ParseData(f, payload)
    [] type = "TEXT" -> ParseText(f, payload)
    [] type = "BLOB" -> ParseBlob(f, payload)
    [] type = "INDX" -> ParseIndex(payload)
    [] type = "END!" -> ParseEnd(f, payload)
    [] type = "NOTE" -> IF Len(payload) > MaxUtf8 THEN "LIMIT" ELSE "OK"
    [] type = "PRIV" -> "OK"

\* The record is kept, but without a decoded payload.
KeptOpaque(type, f) ==
  \/ type = "DATA" /\ ~SchemaSeen(f.id, f.rev)
  \/ type \in {"DATA", "BLOB"} /\ f.profile # "none" /\ ~ReaderHasZstd

-----------------------------------------------------------------------------
(* sdaf_decode. *)

HasFileHeader(bytes) == bytes # <<>> /\ bytes[1] = FileHeader

\* The checks of the file header, before any record is looked at.
Start(bytes) ==
  /\ input' = bytes
  /\ document' = <<>>
  /\ opaque' = {}
  /\ errorOffset' = 0
  /\ \/ /\ ~HasFileHeader(bytes)
        /\ documentStatus' = "FORMAT"
        /\ offset' = 0
     \/ /\ HasFileHeader(bytes)
        /\ documentStatus' = "scanning"
        /\ offset' = 1
     \/ /\ HasFileHeader(bytes)    \* no memory for a copy of the header
        /\ documentStatus' = "MEMORY"
        /\ offset' = 0

Available == Len(input) - offset

\* The cell at the offset, when there is one with the record marker.
Marked == Available > 0 /\ input[offset + 1].cell = "head"
HeadHere == input[offset + 1]
Says == HeadHere.is

ValidEnvelope == ~(Says.trailer /\ Says.pcrc # NoCrc)

\* payload_size and header_size keep to the caller's limits.
WithinLimits == Says.size <= MaxPayload /\ Says.excess <= MaxExcess

Total == TotalSize(Says.size, Says.trailer) + Says.excess

PayloadHere == SubSeq(input, offset + 2, offset + 1 + Says.size)

TrailerHere == input[offset + 2 + Says.size]

\* (a defective variant, for the mutation runs)
PayloadAssumedIntact == TRUE   \* the payload CRC is not checked

PayloadIntact ==
  IF Says.trailer
  THEN /\ TrailerHere.cell = "tail"
       /\ TrailerHere.seq = Says.seq
       /\ TrailerHere.crc = Crc32c(PayloadHere)
  ELSE Crc32c(PayloadHere) = Says.pcrc

\* (a defective variant, for the mutation runs)
InputExhaustedEarly ==   \* a record that ends with the input is left out
  \/ Available = 0
  \/ /\ Marked
     /\ ValidEnvelope
     /\ WithinLimits
     /\ Total >= Available

\* The scan is over: nothing is left, or what is left is too short for the
\* record it starts.  The extent is judged before the header checksum is.
InputExhausted ==
  \/ Available = 0
  \/ /\ Marked
     /\ ValidEnvelope
     /\ WithinLimits
     /\ Total > Available

\* (a defective variant, for the mutation runs)
VerdictHeaderUnchecked ==   \* the header CRC is not checked
  IF ~Marked \/ ~ValidEnvelope THEN "FORMAT"
  ELSE IF ~WithinLimits THEN "LIMIT"
  ELSE IF ~PayloadIntact THEN "FORMAT"
  ELSE LET parsed == ParseRecord(Says.type, Says.fields, PayloadHere) IN
       IF parsed = "OK" /\ Len(document) >= MaxRecords THEN "LIMIT" ELSE parsed

\* The verdict on the record at the offset, all of it being there.
Verdict ==
  IF ~Marked \/ ~ValidEnvelope THEN "FORMAT"
  ELSE IF ~WithinLimits THEN "LIMIT"
  ELSE IF HeadHere.crc # Crc32c(Says) THEN "FORMAT"
  ELSE IF ~PayloadIntact THEN "FORMAT"
  ELSE LET parsed == ParseRecord(Says.type, Says.fields, PayloadHere) IN
       IF parsed = "OK" /\ Len(document) >= MaxRecords THEN "LIMIT" ELSE parsed

RecordHere ==
  [type |-> Says.type, trailer |-> Says.trailer, seq |-> Says.seq,
   offset |-> offset, fields |-> Says.fields, payload |-> PayloadHere]

StopAtEnd ==
  /\ documentStatus = "scanning"
  /\ InputExhausted
  /\ documentStatus' = "OK"
  /\ UNCHANGED <<input, offset, document, opaque, errorOffset>>

RejectRecord ==
  /\ documentStatus = "scanning"
  /\ ~InputExhausted
  /\ Verdict # "OK"
  /\ documentStatus' = Verdict
  /\ errorOffset' = offset
  /\ UNCHANGED <<input, offset, document, opaque>>

\* (a defective variant, for the mutation runs)
DeliverRecordAgain ==   \* the offset does not advance past a schema
  /\ documentStatus = "scanning"
  /\ ~InputExhausted
  /\ Verdict = "OK"
  /\ document' = Append(document, RecordHere)
  /\ opaque' = IF KeptOpaque(Says.type, Says.fields)
               THEN opaque \cup {Len(document) + 1} ELSE opaque
  /\ offset' = IF Says.type = "SCMA" THEN offset ELSE offset + Total
  /\ UNCHANGED <<input, documentStatus, errorOffset>>

DeliverRecord ==
  /\ documentStatus = "scanning"
  /\ ~InputExhausted
  /\ Verdict = "OK"
  /\ document' = Append(document, RecordHere)
  /\ opaque' = IF KeptOpaque(Says.type, Says.fields)
               THEN opaque \cup {Len(document) + 1} ELSE opaque
  /\ offset' = offset + Total
  /\ UNCHANGED <<input, documentStatus, errorOffset>>

\* A copy of the header, of the payload or of the record list cannot be
\* allocated.
DecodeOutOfMemory ==
  /\ documentStatus = "scanning"
  /\ ~InputExhausted
  /\ Marked
  /\ ValidEnvelope
  /\ WithinLimits
  /\ documentStatus' = "MEMORY"
  /\ errorOffset' = offset
  /\ UNCHANGED <<input, offset, document, opaque>>

\* The record at the offset is intact, and each value of a fixed-bytes
\* channel in it takes an allocation.
FixedBytesWanted ==
  /\ Marked
  /\ ValidEnvelope
  /\ WithinLimits
  /\ HeadHere.crc = Crc32c(Says)
  /\ PayloadIntact
  /\ Says.type = "DATA"
  /\ ParseData(Says.fields, PayloadHere) = "OK"
  /\ ~KeptOpaque(Says.type, Says.fields)
  /\ Says.fields.count > 0
  /\ <<LayoutFor(Says.fields.id, Says.fields.rev), Says.fields.stream>>
       \in FixedBytes

\* That allocation fails.  The code reports it as it does a value that is cut
\* short.
FixedBytesOutOfMemory ==
  /\ documentStatus = "scanning"
  /\ ~InputExhausted
  /\ FixedBytesWanted
  /\ documentStatus' = "FORMAT"
  /\ errorOffset' = offset
  /\ UNCHANGED <<input, offset, document, opaque>>

DecodeStep ==
  \/ StopAtEnd \/ RejectRecord \/ DeliverRecord
  \/ DecodeOutOfMemory \/ FixedBytesOutOfMemory

\* sdaf_document_free.
FreeDocument ==
  /\ documentStatus \notin {"idle", "scanning"}
  /\ input' = <<>>
  /\ offset' = 0
  /\ document' = <<>>
  /\ opaque' = {}
  /\ documentStatus' = "idle"
  /\ errorOffset' = 0
=============================================================================
