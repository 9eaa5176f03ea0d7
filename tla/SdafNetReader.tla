--------------------------- MODULE SdafNetReader ---------------------------
(***************************************************************************)
(* The .NET reader (SdafReader.cs): a forward-only enumeration over a      *)
(* Stream.  Each record is read in steps, header, payload and trailer, and *)
(* yielded before the next is looked at.  Where the Stream has no more     *)
(* bytes the enumeration just ends; anything else that is wrong throws.    *)
(*                                                                         *)
(* The Stream may have more bytes at a later step than at an earlier one,  *)
(* as it has when a writer is still at work.  It never takes bytes back,   *)
(* so what the reader has read it can be looked up in it again.            *)
(***************************************************************************)
EXTENDS SdafFormat, FiniteSets

CONSTANTS
  MaxPayloadSize, MaxDecodedSize, MaxUtf8Bytes,  \* SdafLimits
  MaxHeaderExcess,    \* what SdafLimits.MaxHeaderSize allows beyond a header
  ReaderFindsZstd     \* libzstd can be loaded

ASSUME NetReaderAssumption ==
  /\ MaxPayloadSize \in Nat
  /\ MaxDecodedSize \in Nat
  /\ MaxUtf8Bytes \in Nat
  /\ MaxHeaderExcess \in Nat
  /\ ReaderFindsZstd \in BOOLEAN

VARIABLES
  source,      \* the bytes the Stream has so far
  phase,       \* what the enumerator does next, or how it ended
  place,       \* the local offset: where the record begins
  schemasRead, \* _schemas and _schemaPayloads
  itemsRead,   \* _lastBlobIndexes
  yielded      \* the records yielded, also those of _recordsByOffset

readerVars == <<phase, place, schemasRead, itemsRead, yielded>>
netReaderVars == <<source, readerVars>>

Phases == {"closed", "between", "payload", "trailer", "ended", "failed"}

\* There is no reader.
NoReader ==
  /\ phase = "closed"
  /\ place = 0
  /\ schemasRead = {}
  /\ itemsRead = {}
  /\ yielded = <<>>

-----------------------------------------------------------------------------
(* Looking back. *)

Known(id, rev) == {s \in schemasRead : s.id = id /\ s.rev = rev}

\* ValidateStream: a schema that is known has the stream as one of these.
StreamAgrees(id, rev, streamId, kinds) ==
  \A s \in Known(id, rev) : KindOf(s.layout, streamId) \in kinds

ItemsRead(id, streamId) ==
  {i \in itemsRead : i.id = id /\ i.stream = streamId}

YieldedAt(where) == {i \in 1 .. Len(yielded) : yielded[i].offset = where}

-----------------------------------------------------------------------------
(* ParseRecord: what is accepted of a record whose checksums are right.    *)

\* (a defective variant, for the mutation runs)
AcceptsSchemaAgain(f, payload) ==   \* a known pair is not compared
  /\ f.id # 0 /\ f.rev # 0
  /\ Len(payload) = 1
  /\ payload[1].cell = "layout"
  /\ payload[1].layout \in ValidLayouts

AcceptsSchema(f, payload) ==
  /\ f.id # 0 /\ f.rev # 0
  /\ Len(payload) = 1
  /\ payload[1].cell = "layout"
  /\ payload[1].layout \in ValidLayouts
  /\ \A s \in Known(f.id, f.rev) : s.layout = payload[1].layout

\* Decompress throws without libzstd; otherwise the size has to be right.
Decodes(f, payload) ==
  /\ f.profile = "none" \/ ReaderFindsZstd
  /\ DecodedSize(f.profile, payload) = f.decoded

AcceptsData(f, payload) ==
  /\ f.id # 0 /\ f.rev # 0 /\ f.stream # 0
  /\ f.decoded <= MaxDecodedSize
  /\ TimesAgree(f.mode, f.stamps, f.count)
  /\ \A s \in Known(f.id, f.rev) :
       /\ HoldsData(s.layout, f.stream, f.mode)
       /\ f.decoded = ExpectedSize(s.layout, f.stream, f.count, f.stamps)
       /\ Decodes(f, payload)
       /\ SamplesInOrder(s.layout, f, payload)
       /\ ~TimesDistant(f)

AcceptsText(f, payload) ==
  /\ Len(payload) <= MaxUtf8Bytes
  /\ \/ f.id = 0 /\ f.rev = 0 /\ f.stream = 0
     \/ /\ f.id # 0 /\ f.rev # 0 /\ f.stream # 0
        /\ StreamAgrees(f.id, f.rev, f.stream, {"text"})

\* The part of ParseBlob before _lastBlobIndexes is set.
AcceptsItem(f) ==
  /\ f.id # 0 /\ f.rev # 0 /\ f.stream # 0
  /\ f.decoded <= MaxDecodedSize
  /\ f.profile \in {"none", "zstd"}
  /\ StreamAgrees(f.id, f.rev, f.stream, {"blob"})
  /\ \A i \in ItemsRead(f.id, f.stream) : i.index < f.first

AcceptsEntry(e) ==
  /\ e.cell = "entry"
  /\ \E i \in YieldedAt(e.offset) :
       LET target == yielded[i] IN
       \/ /\ target.type = "DATA"
          /\ e.seq = target.seq
          /\ e.stream = target.fields.stream
          /\ e.first = target.fields.first
          /\ e.count = target.fields.count
       \/ /\ target.type = "BLOB"
          /\ e.seq = target.seq
          /\ e.stream = target.fields.stream
          /\ e.first = target.fields.first
          /\ e.count = 1

DatasYielded == {i \in 1 .. Len(yielded) : yielded[i].type = "DATA"}

AcceptsEnd(f, payload) ==
  /\ payload = <<>>
  /\ f.total = Len(yielded) + 1
  /\ f.datas = Cardinality(DatasYielded)
  /\ f.lastIndex # 0 =>
       \E i \in YieldedAt(f.lastIndex) : yielded[i].type = "INDX"

Accepts(type, f, payload) ==
  CASE type = "SCMA" -> AcceptsSchema(f, payload)
    [] type = "DATA" -> AcceptsData(f, payload)
    [] type = "TEXT" -> AcceptsText(f, payload)
    [] type = "BLOB" -> AcceptsItem(f) /\ Decodes(f, payload)
    [] type = "INDX" -> \A k \in 1 .. Len(payload) : AcceptsEntry(payload[k])
    [] type = "END!" -> AcceptsEnd(f, payload)
    [] type = "NOTE" -> Len(payload) <= MaxUtf8Bytes
    [] type = "PRIV" -> TRUE

-----------------------------------------------------------------------------
(* Reading.  A cell is where the reader expects it when the Stream has     *)
(* that many; a fragment in its way shifts everything behind it, so that   *)
(* what is read next is not what was written, or not there.                *)

Here(n) == source[place + n]

Has(n) == Len(source) >= place + n

\* Reading n cells stumbles over a fragment.
Broken(n) == \E k \in 1 .. n : Has(k) /\ Here(k) = Fragment

\* (a defective variant, for the mutation runs)
RunsShortEarly(n) == Len(source) <= place + n \/ Broken(n)   \* <= for <

\* The bytes of n cells are not there: yield break.
RunsShort(n) == ~Has(n) \/ Broken(n)

\* The bytes of n cells are there, and they are wrong.
ReadsWrong(n) == Broken(n) /\ source[Len(source)] # Fragment

Claims == Here(1).is

End == phase' = "ended" /\ UNCHANGED <<place, schemasRead, itemsRead, yielded>>

Throw ==
  phase' = "failed" /\ UNCHANGED <<place, schemasRead, itemsRead, yielded>>

Go(next) ==
  phase' = next /\ UNCHANGED <<place, schemasRead, itemsRead, yielded>>

StartsWithHeader == source # <<>> /\ source[1] = FileHeader

\* SdafReader(stream): ReadFileHeader.
Open ==
  /\ phase = "closed"
  /\ \/ /\ StartsWithHeader
        /\ phase' = "between"
        /\ place' = 1
     \/ /\ ~StartsWithHeader
        /\ phase' = "failed"
        /\ place' = 0
  /\ UNCHANGED <<schemasRead, itemsRead, yielded>>

\* The common 32 bytes say something that can be a record of this version.
ValidCommon ==
  /\ Here(1).cell = "head"
  /\ Claims.size <= MaxPayloadSize
  /\ Claims.excess <= MaxHeaderExcess
  /\ ~(Claims.trailer /\ Claims.pcrc # NoCrc)

\* (a defective variant, for the mutation runs)
ReadHeaderWaiting ==   \* where nothing is left, more is waited for
  /\ phase = "between"
  /\ \/ ReadsWrong(1) /\ Throw
     \/ Has(1) /\ Here(1) # Fragment /\ ~ValidCommon /\ Throw
     \/ /\ Has(1) /\ Here(1) # Fragment /\ ValidCommon
        /\ \/ ~Has(1 + Claims.excess) /\ End
           \/ /\ Has(1 + Claims.excess)
              /\ IF Here(1).crc = Crc32c(Claims) THEN Go("payload") ELSE Throw

\* header_size bytes are read before the header CRC is checked.
ReadHeader ==
  /\ phase = "between"
  /\ \/ RunsShort(1) /\ End
     \/ ReadsWrong(1) /\ Throw
     \/ Has(1) /\ Here(1) # Fragment /\ ~ValidCommon /\ Throw
     \/ /\ Has(1) /\ Here(1) # Fragment /\ ValidCommon
        /\ \/ ~Has(1 + Claims.excess) /\ End
           \/ /\ Has(1 + Claims.excess)
              /\ IF Here(1).crc = Crc32c(Claims) THEN Go("payload") ELSE Throw

Payload == SubSeq(source, place + 2, place + 1 + Claims.size)

\* _lastBlobIndexes is set before the item is decompressed.
NoteItem ==
  itemsRead' =
    IF Claims.type = "BLOB" /\ AcceptsItem(Claims.fields)
    THEN (itemsRead \ ItemsRead(Claims.fields.id, Claims.fields.stream))
           \cup {[id |-> Claims.fields.id, stream |-> Claims.fields.stream,
                  index |-> Claims.fields.first]}
    ELSE itemsRead

NoteSchema ==
  schemasRead' =
    IF Claims.type = "SCMA"
    THEN (schemasRead \ Known(Claims.fields.id, Claims.fields.rev))
           \cup {[id |-> Claims.fields.id, rev |-> Claims.fields.rev,
                  layout |-> Payload[1].layout]}
    ELSE schemasRead

\* ParseRecord and yield return; the offset moves when the next record is
\* asked for.
Yield ==
  \/ /\ Accepts(Claims.type, Claims.fields, Payload)
     /\ NoteSchema
     /\ NoteItem
     /\ yielded' =
          Append(yielded,
            [type |-> Claims.type, trailer |-> Claims.trailer, seq |-> Claims.seq,
             offset |-> place, fields |-> Claims.fields, payload |-> Payload])
     /\ place' = place + TotalSize(Claims.size, Claims.trailer)
     /\ phase' = "between"
  \/ /\ ~Accepts(Claims.type, Claims.fields, Payload)
     /\ NoteItem
     /\ phase' = "failed"
     /\ UNCHANGED <<place, schemasRead, yielded>>

\* (a defective variant, for the mutation runs)
ReadPayloadUntrailed ==   \* the trailer is not waited for
  /\ phase = "payload"
  /\ \/ RunsShort(1 + Claims.size) /\ End
     \/ ReadsWrong(1 + Claims.size) /\ Throw
     \/ /\ ~RunsShort(1 + Claims.size)
        /\ IF Claims.trailer \/ Crc32c(Payload) = Claims.pcrc THEN Yield ELSE Throw

ReadPayload ==
  /\ phase = "payload"
  /\ \/ RunsShort(1 + Claims.size) /\ End
     \/ ReadsWrong(1 + Claims.size) /\ Throw
     \/ /\ ~RunsShort(1 + Claims.size)
        /\ IF Claims.trailer THEN Go("trailer")
           ELSE IF Crc32c(Payload) # Claims.pcrc THEN Throw
           ELSE Yield

TrailerFits ==
  /\ Here(2 + Claims.size).cell = "tail"
  /\ Here(2 + Claims.size).seq = Claims.seq
  /\ Here(2 + Claims.size).crc = Crc32c(Payload)

ReadTrailer ==
  /\ phase = "trailer"
  /\ \/ RunsShort(2 + Claims.size) /\ End
     \/ ReadsWrong(2 + Claims.size) /\ Throw
     \/ /\ ~RunsShort(2 + Claims.size)
        /\ IF TrailerFits THEN Yield ELSE Throw

ReadStep == ReadHeader \/ ReadPayload \/ ReadTrailer

\* (a defective variant, for the mutation runs)
CloseForgetful ==   \* the records are still there for the next reader
  /\ phase # "closed"
  /\ phase' = "closed"
  /\ place' = 0
  /\ schemasRead' = {}
  /\ itemsRead' = {}
  /\ UNCHANGED yielded

\* The application gives the reader up; it may make another one.
Close ==
  /\ phase # "closed"
  /\ phase' = "closed"
  /\ place' = 0
  /\ schemasRead' = {}
  /\ itemsRead' = {}
  /\ yielded' = <<>>
=============================================================================
