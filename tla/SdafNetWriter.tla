--------------------------- MODULE SdafNetWriter ---------------------------
(***************************************************************************)
(* The .NET writer (SdafWriter.cs): it hands every record to its Stream at *)
(* once, in up to three Write calls (header, payload, trailer), and keeps  *)
(* the schemas and the item indexes it has written.  An exception between  *)
(* two Write calls, or in one, tears the record, or comes after its last   *)
(* byte was taken: then the record is in the stream although its call did  *)
(* not return.  There is no status that remembers either, and the          *)
(* application may go on, also with the same record again.                 *)
(*                                                                         *)
(* One action is one call.  A call the writer refuses throws before it     *)
(* changes anything: it is a stuttering step.                              *)
(***************************************************************************)
EXTENDS SdafRules

CONSTANTS
  SchemaCalls, DataCalls, TextCalls, BlobCalls, NoteCalls, PrivateCalls,
                \* the arguments the application passes to each write call
  StrayEntries, \* index entries the application may make up
  EmptyIndexes, \* the application also writes an index without entries
  WriterHasZstd,\* libzstd can be loaded
  StreamFails,  \* Stream.Write can throw
  MaxStream     \* bound: no call is made once the stream holds this much

ASSUME NetWriterAssumption ==
  /\ SchemaCalls \subseteq [schema : Schemas, trailer : BOOLEAN]
  /\ DataCalls \subseteq
       [id : Nat, rev : Nat, stream : Nat, first : Nat, count : Nat,
        mode : TimeModes, times : Times, stamps : Nat, profile : Profiles,
        values : Seq(Values), trailer : BOOLEAN]
  /\ TextCalls \subseteq
       [id : Nat, rev : Nat, stream : Nat, values : Seq(Values),
        trailer : BOOLEAN]
  /\ BlobCalls \subseteq
       [id : Nat, rev : Nat, stream : Nat, first : Nat, profile : Profiles,
        values : Seq(Values), trailer : BOOLEAN]
  /\ NoteCalls \subseteq [values : Seq(Values), trailer : BOOLEAN]
  /\ PrivateCalls \subseteq [values : Seq(Values), trailer : BOOLEAN]
  /\ StrayEntries \subseteq EntryCells
  /\ EmptyIndexes \in BOOLEAN
  /\ WriterHasZstd \in BOOLEAN
  /\ StreamFails \in BOOLEAN
  /\ MaxStream \in Nat

VARIABLES
  stream,          \* what the Stream has taken; empty before construction
  sequence,        \* _sequence
  recordCount,     \* _recordCount
  dataRecordCount, \* _dataRecordCount
  schemas,         \* _schemas and _schemaPayloads: the schemas written
  lastBlobIndexes, \* _lastBlobIndexes: last item index of each blob stream
  disposed,        \* _disposed
  written,         \* history: the records whose write call returned
  landed           \* history: the records the Stream has taken every byte of

netWriterVars ==
  <<stream, sequence, recordCount, dataRecordCount, schemas, lastBlobIndexes,
    disposed, written, landed>>

Items == [id : Nat, stream : Nat, index : Nat]

NetWriterInit ==
  /\ stream = <<>>
  /\ sequence = 0
  /\ recordCount = 0
  /\ dataRecordCount = 0
  /\ schemas = {}
  /\ lastBlobIndexes = {}
  /\ disposed = FALSE
  /\ written = <<>>
  /\ landed = <<>>

\* The constructor writes the file header; when that throws there is no
\* writer.
Construct ==
  /\ stream = <<>>
  /\ stream' = <<FileHeader>>
  /\ UNCHANGED <<sequence, recordCount, dataRecordCount, schemas,
                 lastBlobIndexes, disposed, written, landed>>

-----------------------------------------------------------------------------
(* WriteRecord. *)

NewRecord(type, trailer, fields, payload) ==
  [type |-> type, trailer |-> trailer, seq |-> sequence,
   offset |-> Len(stream), fields |-> fields, payload |-> payload]

\* (a defective variant, for the mutation runs)
WriteRecordUncounted(r) ==   \* an item is not counted
  /\ stream' = stream \o Stored(r)
  /\ sequence' = (sequence + 1) % SequenceMod
  /\ recordCount' = IF r.type = "BLOB" THEN recordCount ELSE recordCount + 1
  /\ written' = Append(written, r)
  /\ landed' = Append(landed, r)

\* (a defective variant, for the mutation runs)
WriteRecordNoTrailer(r) ==   \* the trailer is announced and not written
  /\ stream' = stream \o <<HeadCell(r)>> \o r.payload
  /\ sequence' = (sequence + 1) % SequenceMod
  /\ recordCount' = recordCount + 1
  /\ written' = Append(written, r)
  /\ landed' = Append(landed, r)

WriteRecord(r) ==
  /\ stream' = stream \o Stored(r)
  /\ sequence' = (sequence + 1) % SequenceMod
  /\ recordCount' = recordCount + 1
  /\ written' = Append(written, r)
  /\ landed' = Append(landed, r)

\* What the Stream may have taken of a record when a Write throws that has not
\* taken the record's last byte: some of its cells, and perhaps a part of the
\* next one.
TornCells(r) ==
  UNION {{SubSeq(Stored(r), 1, n), SubSeq(Stored(r), 1, n) \o <<Fragment>>} :
           n \in 0 .. Len(Stored(r)) - 1}

\* The Stream has a part of the record, or all of it: a Write may throw after
\* it has taken its bytes, and the payload's has none to take when it is empty.
Interrupted(r) ==
  \/ \E torn \in TornCells(r) : stream' = stream \o torn /\ UNCHANGED landed
  \/ stream' = stream \o Stored(r) /\ landed' = Append(landed, r)

\* (a defective variant, for the mutation runs)
WriteThrowsNumbered(r) ==   \* the record that threw keeps its number
  /\ StreamFails
  /\ Interrupted(r)
  /\ sequence' = (sequence + 1) % SequenceMod
  /\ UNCHANGED <<recordCount, dataRecordCount, schemas, lastBlobIndexes,
                 written>>

WriteThrows(r) ==
  /\ StreamFails
  /\ Interrupted(r)
  /\ UNCHANGED <<sequence, recordCount, dataRecordCount, schemas,
                 lastBlobIndexes, written>>

-----------------------------------------------------------------------------
(* What the writer looks up. *)

SchemasOf(id, rev) == {s \in schemas : s.id = id /\ s.rev = rev}

\* RequireStreamKind: the schema was written and has the stream as one of
\* these kinds.
StreamIsA(id, rev, streamId, kinds) ==
  \E s \in SchemasOf(id, rev) : KindOf(s.layout, streamId) \in kinds

CanCompress(profile) == profile = "none" \/ WriterHasZstd

-----------------------------------------------------------------------------
(* The write calls. *)

WriteSchema(c) ==
  LET r == NewRecord("SCMA", c.trailer,
             [id |-> c.schema.id, rev |-> c.schema.rev],
             <<[cell |-> "layout", layout |-> c.schema.layout]>>)
  IN
  /\ SchemasOf(c.schema.id, c.schema.rev) \subseteq {c.schema}
  /\ \/ /\ WriteRecord(r)
        /\ schemas' = schemas \cup {c.schema}
        /\ UNCHANGED <<dataRecordCount, lastBlobIndexes>>
     \/ WriteThrows(r)

DataFits(c) ==
  \E s \in SchemasOf(c.id, c.rev) :
    /\ HoldsData(s.layout, c.stream, c.mode)
    /\ Len(c.values) = ExpectedSize(s.layout, c.stream, c.count, c.stamps)

\* (a defective variant, for the mutation runs)
WriteDataUnfitted(c) ==   \* a schema is there, the samples are not compared
  LET r == NewRecord("DATA", c.trailer,
             [id |-> c.id, rev |-> c.rev, stream |-> c.stream,
              first |-> c.first, count |-> c.count, mode |-> c.mode,
              times |-> c.times, stamps |-> c.stamps,
              decoded |-> Len(c.values), profile |-> c.profile],
             Encoded(c.profile, c.values))
  IN
  /\ c.id # 0 /\ c.rev # 0 /\ c.stream # 0
  /\ \E s \in SchemasOf(c.id, c.rev) : HoldsData(s.layout, c.stream, c.mode)
  /\ TimesAgree(c.mode, c.stamps, c.count)
  /\ CanCompress(c.profile)
  /\ \/ /\ WriteRecord(r)
        /\ dataRecordCount' = dataRecordCount + 1
        /\ UNCHANGED <<schemas, lastBlobIndexes>>
     \/ WriteThrows(r)

WriteData(c) ==
  LET r == NewRecord("DATA", c.trailer,
             [id |-> c.id, rev |-> c.rev, stream |-> c.stream,
              first |-> c.first, count |-> c.count, mode |-> c.mode,
              times |-> c.times, stamps |-> c.stamps,
              decoded |-> Len(c.values), profile |-> c.profile],
             Encoded(c.profile, c.values))
  IN
  /\ c.id # 0 /\ c.rev # 0 /\ c.stream # 0
  /\ DataFits(c)
  /\ TimesAgree(c.mode, c.stamps, c.count)
  /\ CanCompress(c.profile)
  /\ \/ /\ WriteRecord(r)
        /\ dataRecordCount' = dataRecordCount + 1
        /\ UNCHANGED <<schemas, lastBlobIndexes>>
     \/ WriteThrows(r)

\* A record that changes nothing but the stream and the counters.
WritePlain(r) ==
  \/ /\ WriteRecord(r)
     /\ UNCHANGED <<dataRecordCount, schemas, lastBlobIndexes>>
  \/ WriteThrows(r)

WriteText(c) ==
  /\ \/ c.id = 0 /\ c.rev = 0 /\ c.stream = 0
     \/ /\ c.id # 0 /\ c.rev # 0 /\ c.stream # 0
        /\ StreamIsA(c.id, c.rev, c.stream, {"text"})
  /\ WritePlain(NewRecord("TEXT", c.trailer,
                  [id |-> c.id, rev |-> c.rev, stream |-> c.stream],
                  AsCells(c.values)))

ItemsOf(id, streamId) ==
  {i \in lastBlobIndexes : i.id = id /\ i.stream = streamId}

NextItem(c) == \A i \in ItemsOf(c.id, c.stream) : i.index < c.first

WriteBlob(c) ==
  LET r == NewRecord("BLOB", c.trailer,
             [id |-> c.id, rev |-> c.rev, stream |-> c.stream,
              first |-> c.first, decoded |-> Len(c.values),
              profile |-> c.profile],
             Encoded(c.profile, c.values))
  IN
  /\ StreamIsA(c.id, c.rev, c.stream, {"blob"})
  /\ NextItem(c)
  /\ c.profile \in {"none", "zstd"}
  /\ CanCompress(c.profile)
  /\ \/ /\ WriteRecord(r)
        /\ lastBlobIndexes' =
             (lastBlobIndexes \ ItemsOf(c.id, c.stream))
               \cup {[id |-> c.id, stream |-> c.stream, index |-> c.first]}
        /\ UNCHANGED <<dataRecordCount, schemas>>
     \/ WriteThrows(r)

WriteNote(c) ==
  WritePlain(NewRecord("NOTE", c.trailer, NoFields, AsCells(c.values)))

WriteIndex(entries, trailer) ==
  WritePlain(NewRecord("INDX", trailer, NoFields, entries))

WriteEnd(lastIndex) ==
  WritePlain(NewRecord("END!", FALSE,
    [total |-> recordCount + 1, datas |-> dataRecordCount,
     lastIndex |-> lastIndex], <<>>))

WritePrivateRecord(c) ==
  WritePlain(NewRecord("PRIV", c.trailer, NoFields, AsCells(c.values)))

\* Dispose closes the Stream; WriteRecord refuses to write afterwards.
Dispose ==
  /\ stream # <<>>
  /\ ~disposed
  /\ disposed' = TRUE
  /\ UNCHANGED <<stream, sequence, recordCount, dataRecordCount, schemas,
                 lastBlobIndexes, written, landed>>

-----------------------------------------------------------------------------
(* The application: the writer leaves two things to it, what a schema says *)
(* and what an index points at.                                            *)

\* The index entry for a record: a BLOB is one item.
EntryFor(r) ==
  [cell |-> "entry", offset |-> r.offset, seq |-> r.seq,
   stream |-> r.fields.stream, first |-> r.fields.first,
   count |-> IF r.type = "BLOB" THEN 1 ELSE r.fields.count]

IndexArguments ==
  (IF EmptyIndexes THEN {<<>>} ELSE {}) \cup {<<e>> : e \in StrayEntries} \cup
  {<<EntryFor(written[i])>> : i \in
     {k \in 1 .. Len(written) : written[k].type \in {"DATA", "BLOB"}}}

LastIndexes ==
  {0} \cup {written[i].offset : i \in
              {k \in 1 .. Len(written) : written[k].type = "INDX"}}

NetWriterCall ==
  \/ Construct
  \/ /\ stream # <<>>
     /\ ~disposed
     /\ Len(stream) < MaxStream
     /\ \/ \E c \in SchemaCalls : WriteSchema(c)
        \/ \E c \in DataCalls : WriteData(c)
        \/ \E c \in TextCalls : WriteText(c)
        \/ \E c \in BlobCalls : WriteBlob(c)
        \/ \E c \in NoteCalls : WriteNote(c)
        \/ \E c \in PrivateCalls : WritePrivateRecord(c)
        \/ \E e \in IndexArguments : WriteIndex(e, FALSE)
        \/ \E o \in LastIndexes : WriteEnd(o)
     /\ UNCHANGED disposed
  \/ Dispose

NetWriterSpec == NetWriterInit /\ [][NetWriterCall]_netWriterVars

-----------------------------------------------------------------------------
(* What the writer promises. *)

(***************************************************************************)
(* Every record whose write call returned lies in the stream whole, at the *)
(* offset an index entry may give it, whatever was torn before or after.   *)
(***************************************************************************)
StreamedInPlace ==
  \A i \in 1 .. Len(written) :
    /\ EndOf(written[i]) <= Len(stream)
    /\ SubSeq(stream, written[i].offset + 1, EndOf(written[i]))
         = Stored(written[i])
    /\ i < Len(written) => EndOf(written[i]) <= written[i + 1].offset

(***************************************************************************)
(* END records count the records whose calls returned, themselves included *)
(* and the DATA records among them, and sequence numbers number the same   *)
(* records; a call that threw leaves no gap and no count behind.           *)
(***************************************************************************)
DatasStreamed(n) == {k \in 1 .. n : written[k].type = "DATA"}

StreamedCounts ==
  \A i \in 1 .. Len(written) :
    /\ written[i].seq = (i - 1) % SequenceMod
    /\ written[i].type = "END!" =>
         /\ written[i].fields.total = i
         /\ written[i].fields.datas = Cardinality(DatasStreamed(i))

(***************************************************************************)
(* The writer keeps two rules of the format itself, over any sequence of   *)
(* calls and through calls that threw: a (schema_id, schema_revision) pair *)
(* is written with one content, and the items of a blob stream are written *)
(* with growing indexes.                                                   *)
(***************************************************************************)
WrittenKeepsRules ==
  \A i, j \in 1 .. Len(written) :
    /\ /\ written[i].type = "SCMA"
       /\ written[j].type = "SCMA"
       /\ written[i].fields = written[j].fields
       => written[i].payload = written[j].payload
    /\ /\ i < j
       /\ written[i].type = "BLOB"
       /\ written[j].type = "BLOB"
       /\ written[i].fields.id = written[j].fields.id
       /\ written[i].fields.stream = written[j].fields.stream
       => written[i].fields.first < written[j].fields.first

(***************************************************************************)
(* As long as the application makes up no index entries, every record is   *)
(* one that the format allows to follow those before it: it comes after a  *)
(* schema it fits, its entries and totals are true.  The writer refuses    *)
(* all else by what it remembers (RequireStreamKind, _lastBlobIndexes).    *)
(***************************************************************************)
StreamedIsLawful == StrayEntries = {} => LawfulLog(written)

-----------------------------------------------------------------------------
(* What the promises rest on: the counters are functions of the records    *)
(* written, and what the writer remembers covers all of them.              *)

NetWriterTypeOK ==
  /\ stream \in Seq(Cells)
  /\ sequence \in 0 .. SequenceMod - 1
  /\ recordCount \in Nat
  /\ dataRecordCount \in Nat
  /\ schemas \subseteq Schemas
  /\ lastBlobIndexes \subseteq Items
  /\ disposed \in BOOLEAN
  /\ written \in Seq(Records)

CountersFollow ==
  /\ sequence = Len(written) % SequenceMod
  /\ recordCount = Len(written)
  /\ dataRecordCount = Cardinality(DatasStreamed(Len(written)))

LayoutCell(layout) == [cell |-> "layout", layout |-> layout]

Remembered(r) ==
  /\ r.type = "SCMA" =>
       \E s \in schemas : /\ r.fields = [id |-> s.id, rev |-> s.rev]
                          /\ r.payload = <<LayoutCell(s.layout)>>
  /\ r.type = "DATA" => r.fields \in DataFields
  /\ r.type = "BLOB" =>
       /\ r.fields \in BlobFields
       /\ \E k \in ItemsOf(r.fields.id, r.fields.stream) :
            r.fields.first <= k.index

WriterRemembers ==
  /\ \A i \in 1 .. Len(written) : Remembered(written[i])
  /\ \A s, t \in schemas : s.id = t.id /\ s.rev = t.rev => s = t

\* Only before the constructor has written the file header is there nothing.
EmptyIsNew == stream = <<>> => schemas = {} /\ written = <<>>

\* Nothing is remembered that was not written.
SchemasWereWritten ==
  \A s \in schemas : SchemasBefore(written, Len(written), s.id, s.rev) # {}

NetWriterInv ==
  /\ NetWriterTypeOK
  /\ EmptyIsNew
  /\ CountersFollow
  /\ WriterRemembers
  /\ StreamedInPlace
  /\ StreamedCounts
  /\ WrittenKeepsRules

RulesInv ==
  /\ NetWriterInv
  /\ SchemasWereWritten
  /\ StreamedIsLawful

(***************************************************************************)
(* What a reader of the stream can rely on: a record header in it belongs  *)
(* to a record that lies there whole or to a torn one, and a torn one is   *)
(* missing cells: the extent its header claims runs into a fragment, into  *)
(* the header of a later record or past the end of the stream.             *)
(***************************************************************************)
LandedInPlace ==
  \A i \in 1 .. Len(landed) :
    /\ EndOf(landed[i]) <= Len(stream)
    /\ SubSeq(stream, landed[i].offset + 1, EndOf(landed[i])) = Stored(landed[i])

HeadAt(p) == stream[p].cell = "head"

ClaimedEnd(p) == p - 1 + TotalSize(stream[p].is.size, stream[p].is.trailer)

LandedAt(p) == \E i \in 1 .. Len(landed) : landed[i].offset = p - 1

TornAt(p) ==
  \/ ClaimedEnd(p) > Len(stream)
  \/ \E q \in p + 1 .. Len(stream) :
       q <= ClaimedEnd(p) /\ stream[q].cell \in {"head", "fragment"}

HeadsAccounted ==
  \A p \in 1 .. Len(stream) :
    HeadAt(p) => /\ stream[p].crc = Crc32c(stream[p].is)
                 /\ stream[p].is.excess = 0
                 /\ LandedAt(p) \/ TornAt(p)

RecordsFollow ==
  \A i \in 1 .. Len(landed) :
    /\ landed[i].offset >= 1
    /\ \A j \in i + 1 .. Len(landed) : EndOf(landed[i]) <= landed[j].offset

\* Landed records whose call threw all the same: the writer does not know them.
Stranded(k) == \A i \in 1 .. Len(written) : written[i] # landed[k]

\* Up to the first such record the two histories are one.
HistoriesAgree ==
  /\ Len(written) <= Len(landed)
  /\ \A i \in 1 .. Len(written) :
       \E k \in 1 .. Len(landed) : landed[k] = written[i]
  /\ \A n \in 1 .. Len(landed) :
       (\A k \in 1 .. n : ~Stranded(k)) => n <= Len(written) /\ landed[n] = written[n]

StreamInv ==
  /\ NetWriterInv
  /\ landed \in Seq(Records)
  /\ stream # <<>> => stream[1] = FileHeader
  /\ stream = <<>> => landed = <<>>
  /\ LandedInPlace
  /\ RecordsFollow
  /\ HeadsAccounted
  /\ HistoriesAgree
=============================================================================
