---------------------------- MODULE SdafReaders ----------------------------
(***************************************************************************)
(* The same bytes for both readers: what the C encoder wrote, cut off and  *)
(* altered on the way, is given to sdaf_decode and to a .NET SdafReader.   *)
(* The two share nothing but the bytes, so it does not matter which is     *)
(* first: the .NET reader waits for the C decoder.                         *)
(***************************************************************************)
EXTENDS SdafTransfer, SdafNetReader

readersVars == <<transferVars, netReaderVars>>

ReadersInit == TransferInit /\ source = <<>> /\ NoReader

EncodeForBoth == Encode /\ UNCHANGED netReaderVars

HandToBoth == HandOver /\ source' = input' /\ UNCHANGED readerVars

DecodeInC == Decode /\ UNCHANGED netReaderVars

Finished == documentStatus \notin {"idle", "scanning"}

OpenInNet == Finished /\ Open /\ UNCHANGED <<transferVars, source>>

EnumerateInNet == ReadStep /\ UNCHANGED <<transferVars, source>>

ForgetBoth ==
  /\ phase \in {"ended", "failed"}
  /\ Forget
  /\ Close
  /\ source' = <<>>

ReadersNext ==
  \/ EncodeForBoth \/ HandToBoth \/ DecodeInC
  \/ OpenInNet \/ EnumerateInNet \/ ForgetBoth

ReadersSpec == ReadersInit /\ [][ReadersNext]_readersVars

-----------------------------------------------------------------------------

(***************************************************************************)
(* Two implementations, one file.  Given the same bytes and limits, and    *)
(* both with libzstd, the .NET reader yields exactly the records the C     *)
(* decoder puts into its document, however careless the writer was and     *)
(* also where a cell was altered: the rules the one keeps in dictionaries  *)
(* and the other looks up in its list of records are the same rules.  Two  *)
(* kinds of samples part them, and nothing else does: C refuses indexes    *)
(* that wrap (sdaf_codec.c:302) where .NET goes on, and .NET refuses a     *)
(* count of ticks beyond a long (SampleCodec.cs:394) where C goes on.  (A  *)
(* C decoder that runs out of memory or into max_records, which the .NET   *)
(* reader does not have, is left out.)                                     *)
(***************************************************************************)
SameSetting ==
  /\ ReaderHasZstd /\ ReaderFindsZstd
  /\ MaxPayload = MaxPayloadSize
  /\ MaxExcess = MaxHeaderExcess
  /\ MaxDecoded = MaxDecodedSize
  /\ MaxUtf8 = MaxUtf8Bytes

\* The C decoder had no memory for a fixed-bytes value, or may have had none.
Starved == documentStatus = "FORMAT" /\ FixedBytesWanted

Comparable ==
  /\ SameSetting
  /\ documentStatus \in {"OK", "FORMAT", "LIMIT"}
  /\ ~Starved
  /\ Len(document) < MaxRecords
  /\ phase \in {"ended", "failed"}

Begins(s, t) == Len(s) < Len(t) /\ \A i \in 1 .. Len(s) : s[i] = t[i]

\* The .NET reader has gone on behind a record where the C decoder stopped.
NetBeyond ==
  /\ documentStatus = "FORMAT"
  /\ Begins(document, yielded)
  /\ yielded[Len(document) + 1].type = "DATA"
  /\ IndexesWrap(yielded[Len(document) + 1].fields)

\* The C decoder has gone on behind a record where the .NET reader threw.
NetShort ==
  /\ phase = "failed"
  /\ Begins(yielded, document)
  /\ document[Len(yielded) + 1].type = "DATA"
  /\ TimesDistant(document[Len(yielded) + 1].fields)

SameRecords == Comparable => yielded = document \/ NetBeyond \/ NetShort

(***************************************************************************)
(* They judge the bytes alike: an enumeration that just ends means that    *)
(* sdaf_decode returns SDAF_OK, and as long as nothing was altered SDAF_OK *)
(* means in turn that the enumeration ends; the same two kinds of samples  *)
(* apart.  Over altered bytes the .NET reader is the stricter one, since   *)
(* it looks at the header CRC before it trusts the payload size.           *)
(***************************************************************************)
SameVerdict ==
  Comparable =>
    /\ phase = "ended" => documentStatus = "OK" \/ NetBeyond
    /\ documentStatus = "OK" /\ damaged = {} => phase = "ended" \/ NetShort

(***************************************************************************)
(* The README of the .NET library: "An EOF inside the final record is      *)
(* treated as an abrupt but valid end; a complete corrupt record throws    *)
(* SdafFormatException".  An enumeration that just ends would then have    *)
(* yielded every complete record.                                          *)
(***************************************************************************)
EndMeansAllYielded ==
  phase = "ended" => Len(yielded) = Cardinality(HeldWhole(Len(source)))

-----------------------------------------------------------------------------
(* What the comparison rests on. *)

(***************************************************************************)
(* What both libraries ask of a record r behind the first n of d: a rule   *)
(* of the format as far as a schema was seen, a limit, a number that is    *)
(* not zero.                                                               *)
(***************************************************************************)
Numbered(f) == f.id # 0 /\ f.rev # 0 /\ f.stream # 0

TakesSchema(d, n, r) ==
  /\ r.fields.id # 0 /\ r.fields.rev # 0
  /\ LawfulSchema(d, n, r)
  /\ LayoutOf(r) \in ValidLayouts

TakesData(d, n, r) ==
  LET f == r.fields
      schemas == SchemasBefore(d, n, f.id, f.rev) IN
  /\ Numbered(f)
  /\ f.decoded <= MaxDecoded
  /\ TimesAgree(f.mode, f.stamps, f.count)
  /\ \A i \in schemas :
       /\ HoldsData(LayoutOf(d[i]), f.stream, f.mode)
       /\ f.decoded = ExpectedSize(LayoutOf(d[i]), f.stream, f.count, f.stamps)
       /\ DecodedSize(f.profile, r.payload) = f.decoded
       /\ SamplesInOrder(LayoutOf(d[i]), f, r.payload)

TakesText(d, n, r) ==
  LET f == r.fields IN
  /\ Len(r.payload) <= MaxUtf8
  /\ \/ f.id = 0 /\ f.rev = 0 /\ f.stream = 0
     \/ /\ Numbered(f)
        /\ \A i \in SchemasBefore(d, n, f.id, f.rev) :
             KindOf(LayoutOf(d[i]), f.stream) = "text"

TakesItem(d, n, r) ==
  LET f == r.fields IN
  /\ Numbered(f)
  /\ f.decoded <= MaxDecoded
  /\ f.profile \in {"none", "zstd"}
  /\ \A i \in SchemasBefore(d, n, f.id, f.rev) :
       KindOf(LayoutOf(d[i]), f.stream) = "blob"
  /\ \A i \in ItemsBefore(d, n, f.id, f.stream) : d[i].fields.first < f.first
  /\ DecodedSize(f.profile, r.payload) = f.decoded

Takes(d, n, r) ==
  /\ r.type = "SCMA" => TakesSchema(d, n, r)
  /\ r.type = "DATA" => TakesData(d, n, r)
  /\ r.type = "TEXT" => TakesText(d, n, r)
  /\ r.type = "BLOB" => TakesItem(d, n, r)
  /\ r.type = "INDX" =>
       \A k \in 1 .. Len(r.payload) : TrueEntry(d, n, r.payload[k])
  /\ r.type = "END!" => LawfulEnd(d, n, r)
  /\ r.type = "NOTE" => Len(r.payload) <= MaxUtf8

\* What one library asks of the samples of a record and the other does not.
SamplesAreRead(d, n, r) ==
  r.type = "DATA" /\ SchemasBefore(d, n, r.fields.id, r.fields.rev) # {}

TakesInC(d, n, r) == SamplesAreRead(d, n, r) => ~IndexesWrap(r.fields)

TakesInNet(d, n, r) == SamplesAreRead(d, n, r) => ~TimesDistant(r.fields)

\* The record lies in the input as it is stored, and is not too long.
LiesInInput(r) ==
  /\ r.offset + TotalSize(Len(r.payload), r.trailer) <= Len(input)
  /\ input[r.offset + 1] = HeadCell(r)
  /\ SubSeq(input, r.offset + 2, r.offset + 1 + Len(r.payload)) = r.payload
  /\ r.trailer => input[r.offset + 2 + Len(r.payload)] = TailCell(r)
  /\ Len(r.payload) <= MaxPayload

\* The document is what both take, record by record.
DocumentTaken ==
  \A i \in 1 .. Len(document) :
    LiesInInput(document[i]) /\ Takes(document, i - 1, document[i])

\* Where the decoder stands, and why it went no further.
StandsBehind ==
  documentStatus \in {"scanning", "OK", "FORMAT", "LIMIT"} =>
    \/ /\ HasFileHeader(input)
       /\ offset = CursorAfter(Len(document))
       /\ documentStatus = "OK" => InputExhausted
       /\ documentStatus \in {"FORMAT", "LIMIT"} =>
            ~InputExhausted /\ (Verdict = documentStatus \/ Starved)
    \/ /\ documentStatus = "FORMAT"
       /\ ~HasFileHeader(input)
       /\ document = <<>>

\* The dictionaries hold the schemas yielded, and the last item of a stream.
DictionariesAgree ==
  /\ \A s \in schemasRead :
       \E i \in SchemasBefore(yielded, Len(yielded), s.id, s.rev) :
         LayoutOf(yielded[i]) = s.layout
  /\ \A i \in 1 .. Len(yielded) :
       yielded[i].type = "SCMA" =>
         \E s \in Known(yielded[i].fields.id, yielded[i].fields.rev) :
           LayoutOf(yielded[i]) = s.layout
  /\ \A x \in itemsRead :
       \E i \in ItemsBefore(yielded, Len(yielded), x.id, x.stream) :
         yielded[i].fields.first = x.index
  /\ \A i \in 1 .. Len(yielded) :
       yielded[i].type = "BLOB" =>
         \E x \in ItemsRead(yielded[i].fields.id, yielded[i].fields.stream) :
           yielded[i].fields.first <= x.index

\* What ReadHeader and ReadPayload leave for the next step to rely on.
HeaderRead ==
  /\ Has(1)
  /\ Has(1 + Claims.excess)
  /\ ValidCommon
  /\ Here(1).crc = Crc32c(Claims)

PayloadRead == Claims.trailer /\ ~RunsShort(1 + Claims.size)

NetInPlace ==
  /\ HasFileHeader(input)
  /\ place = IF yielded = <<>> THEN 1 ELSE EndOf(yielded[Len(yielded)])
  /\ DictionariesAgree
  /\ phase \in {"payload", "trailer"} => HeaderRead
  /\ phase = "trailer" => PayloadRead

NetFollows ==
  /\ Len(yielded) <= Len(document)
  /\ \A i \in 1 .. Len(yielded) : yielded[i] = document[i]
  /\ phase \in {"between", "payload", "trailer"} => NetInPlace
  /\ phase \in {"ended", "failed"} => yielded = document \/ NetShort
  /\ phase = "ended" => yielded = document /\ documentStatus = "OK"
  /\ phase = "failed" /\ damaged = {} /\ yielded = document
       => documentStatus # "OK"

Compared ==
  /\ documentStatus \in {"OK", "FORMAT", "LIMIT"}
  /\ ~Starved
  /\ Len(document) < MaxRecords

\* Whatever the bytes were, it is a list of records that is yielded.
ListYielded ==
  /\ Len(yielded) \in Nat
  /\ yielded = [i \in 1 .. Len(yielded) |-> yielded[i]]

ReadersInv ==
  /\ source = input
  /\ phase = "closed" => NoReader
  /\ phase # "closed" => Finished
  /\ CellsFit
  /\ SameSetting => DocumentTaken
  /\ StandsBehind
  /\ ListYielded
  /\ SameSetting /\ Compared => NetFollows \/ NetBeyond
=============================================================================
