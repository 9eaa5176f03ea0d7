------------------------- MODULE SdafTransferProofs -------------------------
(***************************************************************************)
(* Theorems about a decoder that is given the encoder's bytes cut off and  *)
(* altered, for every value of the constants: any number of cells may be   *)
(* altered.                                                                *)
(***************************************************************************)
EXTENDS SdafReaders, SdafPairProofs

-----------------------------------------------------------------------------
(* The medium. *)

(***************************************************************************)
(* However a header is altered, its checksum does not fit it any more.     *)
(***************************************************************************)
LEMMA AlteredHeadFails ==
  ASSUME NEW h \in HeadCells, h.crc = Crc32c(h.is),
         NEW c \in AlteredHeads(h), c # h
  PROVE  c \in HeadCells /\ c.cell = "head" /\ c.crc # Crc32c(c.is)
<1>1. /\ h.cell = "head" /\ h.is \in Contents
      /\ h = [cell |-> "head", is |-> h.is, crc |-> <<"crc32c", h.is>>]
  BY DEF HeadCells, Crc32c
<1>2. /\ h.is.size \in Nat /\ h.is.trailer \in BOOLEAN
      /\ h.is.excess \in Nat /\ h.is.seq \in 0 .. SequenceMod - 1
  BY <1>1 DEF Contents
<1>3. ASSUME NEW other \in Contents, other # h.is,
             \/ c = [cell |-> "head", is |-> other, crc |-> <<"crc32c", h.is>>]
             \/ c = [cell |-> "head", is |-> h.is, crc |-> <<"crc32c", other>>]
      PROVE  c \in HeadCells /\ c.cell = "head" /\ c.crc # Crc32c(c.is)
  BY <1>1, <1>3 DEF HeadCells, Crc32c
<1>4. CASE \E n \in WrongSizes \ {h.is.size} : c = [h EXCEPT !.is.size = n]
  <2>1. PICK n \in WrongSizes \ {h.is.size} : c = [h EXCEPT !.is.size = n]
    BY <1>4
  <2>2. [h.is EXCEPT !.size = n] \in Contents /\ [h.is EXCEPT !.size = n] # h.is
    BY <1>1, DamageAssumption DEF Contents
  <2>3. c = [cell |-> "head", is |-> [h.is EXCEPT !.size = n],
             crc |-> <<"crc32c", h.is>>]
    BY <1>1, <2>1
  <2> QED
    BY <1>3, <2>2, <2>3
<1>5. CASE c = [h EXCEPT !.is.trailer = ~@]
  <2>1. /\ [h.is EXCEPT !.trailer = ~@] \in Contents
        /\ [h.is EXCEPT !.trailer = ~@] # h.is
    BY <1>1 DEF Contents
  <2>2. c = [cell |-> "head", is |-> [h.is EXCEPT !.trailer = ~@],
             crc |-> <<"crc32c", h.is>>]
    BY <1>1, <1>5
  <2> QED
    BY <1>3, <2>1, <2>2
<1>6. CASE c = [h EXCEPT !.is.excess = @ + 1]
  <2>1. /\ [h.is EXCEPT !.excess = @ + 1] \in Contents
        /\ [h.is EXCEPT !.excess = @ + 1] # h.is
    BY <1>1, <1>2 DEF Contents
  <2>2. c = [cell |-> "head", is |-> [h.is EXCEPT !.excess = @ + 1],
             crc |-> <<"crc32c", h.is>>]
    BY <1>1, <1>6
  <2> QED
    BY <1>3, <2>1, <2>2
<1>7. CASE c = [h EXCEPT !.is.seq = (@ + 1) % SequenceMod]
  <2> DEFINE s == (h.is.seq + 1) % SequenceMod
  <2>1. s \in 0 .. SequenceMod - 1
    BY <1>2, SequenceAssumption
  <2>2. [h.is EXCEPT !.seq = s] \in Contents
    BY <1>1, <2>1 DEF Contents
  <2>3. c = [cell |-> "head", is |-> [h.is EXCEPT !.seq = s],
             crc |-> <<"crc32c", h.is>>]
    BY <1>1, <1>7
  <2>4. [h.is EXCEPT !.seq = s] # h.is
    BY <1>1, <2>3
  <2> QED
    BY <1>3, <2>2, <2>3, <2>4
<1>8. CASE c = [h EXCEPT !.crc[2].size = @ + 1]
  <2>1. /\ [h.is EXCEPT !.size = @ + 1] \in Contents
        /\ [h.is EXCEPT !.size = @ + 1] # h.is
    BY <1>1, <1>2 DEF Contents
  <2>2. c = [cell |-> "head", is |-> h.is,
             crc |-> <<"crc32c", [h.is EXCEPT !.size = @ + 1]>>]
    BY <1>1, <1>8
  <2> QED
    BY <1>3, <2>1, <2>2
<1> QED
  BY <1>4, <1>5, <1>6, <1>7, <1>8 DEF AlteredHeads

(***************************************************************************)
(* No alteration forges a checksum.                                        *)
(***************************************************************************)
LEMMA AlteredCell ==
  ASSUME NEW c \in Cells, c.cell = "head" => c.crc = Crc32c(c.is),
         NEW a \in Altered(c)
  PROVE  a \in Cells /\ Carried(a, c)
<1>1. CASE a = Junk
  BY <1>1 DEF Cells, Carried
<1>2. CASE c.cell = "head" /\ a \in AlteredHeads(c) \ {c}
  <2>1. c \in HeadCells
    BY <1>2, CellKinds
  <2>2. a \in HeadCells /\ a.cell = "head" /\ a.crc # Crc32c(a.is)
    BY <1>2, <2>1, AlteredHeadFails
  <2> QED
    BY <1>2, <2>2 DEF Cells, Carried
<1>3. CASE c.cell = "tail" /\ a = [c EXCEPT !.seq = (@ + 1) % SequenceMod]
  <2>1. /\ c \in TailCells /\ c.seq \in 0 .. SequenceMod - 1
        /\ SequenceMod \in Nat \ {0}
    BY <1>3, CellKinds, SequenceAssumption DEF TailCells
  <2>2. (c.seq + 1) % SequenceMod \in 0 .. SequenceMod - 1
    BY <2>1
  <2>3. a \in TailCells /\ a.cell = "tail" /\ a.crc = c.crc
    BY <1>3, <2>1, <2>2 DEF TailCells
  <2> QED
    BY <1>3, <2>3 DEF Cells, Carried
<1>4. \/ a = Junk
      \/ c.cell = "head" /\ a \in AlteredHeads(c) \ {c}
      \/ c.cell = "tail" /\ a = [c EXCEPT !.seq = (@ + 1) % SequenceMod]
  <2>1. CASE c.cell = "head"
    BY <2>1 DEF Altered
  <2>2. CASE c.cell = "tail"
    BY <2>2 DEF Altered
  <2>3. CASE c.cell \notin {"head", "tail"}
    BY <2>3 DEF Altered
  <2> QED
    BY <2>1, <2>2, <2>3
<1> QED
  BY <1>1, <1>2, <1>3, <1>4

(***************************************************************************)
(* The beginning of the buffer, with any cells of it altered.              *)
(***************************************************************************)
LEMMA MediumCarries ==
  ASSUME BufferInv, NEW n \in 0 .. Len(data), NEW d, NEW a,
         d \in DamageTo(SubSeq(data, 1, n)),
         a \in Alterations(SubSeq(data, 1, n), d)
  PROVE  /\ ComesFromBuffer(Alter(SubSeq(data, 1, n), a))
         /\ \A p \in 1 .. Len(Alter(SubSeq(data, 1, n), a)) :
              p \notin d => Alter(SubSeq(data, 1, n), a)[p] = data[p]
<1>1. /\ data \in Seq(Cells) /\ HeadsAccounted
  BY DEF BufferInv, EncoderInv, EncoderTypeOK
<1>2. PICK bytes \in Seq(Cells) :
        /\ bytes = SubSeq(data, 1, n)
        /\ Len(bytes) = n
        /\ \A p \in 1 .. n : bytes[p] = data[p]
  BY <1>1, Beginning
<1>3. /\ d \subseteq 1 .. n
      /\ DOMAIN a = d
      /\ \A p \in d : a[p] \in Altered(bytes[p])
  BY <1>2 DEF DamageTo, Alterations
<1>4. PICK carried : /\ carried = Alter(bytes, a)
                     /\ carried = [p \in 1 .. n |-> IF p \in d THEN a[p]
                                                    ELSE bytes[p]]
  BY <1>2, <1>3 DEF Alter
<1>5. ASSUME NEW p \in 1 .. n
      PROVE  /\ carried[p] \in Cells
             /\ Carried(carried[p], data[p])
             /\ p \notin d => carried[p] = data[p]
  <2>1. data[p] \in Cells /\ bytes[p] = data[p] /\ p \in 1 .. Len(data)
    BY <1>1, <1>2, ElementOfSeq, LenProperties
  <2>2. data[p].cell = "head" => data[p].crc = Crc32c(data[p].is)
    BY <1>1, <2>1 DEF HeadsAccounted, HeadAt
  <2>3. CASE p \in d
    <3>1. carried[p] \in Altered(data[p])
      BY <1>3, <1>4, <2>1, <2>3
    <3> QED
      BY <2>1, <2>2, <2>3, <3>1, AlteredCell
  <2>4. CASE p \notin d
    <3>1. carried[p] = data[p]
      BY <1>4, <2>1, <2>4
    <3> QED
      BY <2>1, <3>1 DEF Carried
  <2> QED
    BY <2>3, <2>4
<1>6. carried \in Seq(Cells) /\ Len(carried) = n
  <2>1. carried \in [1 .. n -> Cells]
    BY <1>4, <1>5
  <2>2. n \in Nat
    BY <1>1, LenProperties
  <2> QED
    BY <2>1, <2>2
<1>7. n <= Len(data)
  BY <1>1, LenProperties
<1>8. ComesFromBuffer(carried)
  BY <1>5, <1>6, <1>7 DEF ComesFromBuffer
<1>9. \A p \in 1 .. Len(carried) : p \notin d => carried[p] = data[p]
  BY <1>5, <1>6
<1> QED
  BY <1>2, <1>4, <1>8, <1>9

-----------------------------------------------------------------------------
(* The steps. *)

LEMMA HandOverKeeps ==
  ASSUME TransferInv, HandOver
  PROVE  TransferInv' /\ document' = <<>>
<1>1. PICK n \in 0 .. Len(data) :
        \E d \in DamageTo(SubSeq(data, 1, n)) :
          \E a \in Alterations(SubSeq(data, 1, n), d) :
            Start(Alter(SubSeq(data, 1, n), a)) /\ damaged' = d
  BY DEF HandOver
<1>2. PICK d, a :
        /\ d \in DamageTo(SubSeq(data, 1, n))
        /\ a \in Alterations(SubSeq(data, 1, n), d)
        /\ Start(Alter(SubSeq(data, 1, n), a)) /\ damaged' = d
  BY <1>1
<1>3. PICK bytes : bytes = Alter(SubSeq(data, 1, n), a)
  OBVIOUS
<1>4. /\ PairInv /\ BufferInv
      /\ encoderVars' = encoderVars /\ data' = data
  BY DEF TransferInv, PairInv, HandOver, encoderVars
<1>5. /\ ComesFromBuffer(bytes)
      /\ \A p \in 1 .. Len(bytes) : p \notin d => bytes[p] = data[p]
  BY <1>2, <1>3, <1>4, MediumCarries
<1>6. PairInv' /\ input' = bytes /\ document' = <<>>
  BY <1>2, <1>3, <1>4, <1>5, StartKeepsPair
<1>7. Undamaged'
  BY <1>2, <1>4, <1>5, <1>6 DEF Undamaged
<1>8. documentStatus' # "OK"
  BY <1>2 DEF Start
<1> QED
  BY <1>6, <1>7, <1>8 DEF TransferInv

LEMMA EncodeKeeps ==
  ASSUME TransferInv, Encode
  PROVE  TransferInv'
<1>1. /\ PairInv /\ EncoderCall /\ UNCHANGED decoderVars
      /\ input' = input /\ damaged' = damaged
      /\ documentStatus' = "idle"
      /\ ComesFromBuffer(input) /\ data \in Seq(Cells)
  BY DEF TransferInv, Encode, decoderVars, PairInv, BufferInv, EncoderInv,
         EncoderTypeOK
<1>2. PairInv' /\ HistoryKept
  BY <1>1, CallKeepsPair
<1>3. Undamaged'
  <2>1. \A p \in 1 .. Len(input) : p \in 1 .. Len(data)
    BY <1>1, LenProperties DEF ComesFromBuffer
  <2> QED
    BY <1>1, <1>2, <2>1 DEF TransferInv, Undamaged, HistoryKept
<1> QED
  BY <1>1, <1>2, <1>3 DEF TransferInv

LEMMA DecodeKeeps ==
  ASSUME TransferInv, Decode
  PROVE  TransferInv'
<1>1. /\ PairInv /\ DecodeStep /\ UNCHANGED encoderVars
      /\ damaged' = damaged /\ data' = data /\ written' = written
      /\ input' = input
  BY DEF TransferInv, Decode, encoderVars, DecodeStep, StopAtEnd,
         RejectRecord, DeliverRecord, DecodeOutOfMemory,
         FixedBytesOutOfMemory
<1>2. PairInv'
  BY <1>1, DecodeKeepsPair
<1>3. Undamaged'
  BY <1>1 DEF TransferInv, Undamaged
<1>4. ASSUME documentStatus' = "OK", damaged' = {}
      PROVE  HeldWhole(Len(input))' = 1 .. Len(document')
  <2>1. StopAtEnd
    <3>1. Verdict # "OK" => documentStatus' # "OK" \/ ~RejectRecord
      BY DEF RejectRecord
    <3> QED
      BY <1>1, <1>4, <3>1
         DEF DecodeStep, RejectRecord, DeliverRecord, DecodeOutOfMemory,
             FixedBytesOutOfMemory
  <2>2. \A p \in 1 .. Len(input) : input[p] = data[p]
    BY <1>1, <1>4 DEF TransferInv, Undamaged
  <2>3. HeldWhole(Len(input)) = 1 .. Len(document)
    BY <1>1, <2>1, <2>2, EndHoldsAll
  <2>4. document' = document
    BY <2>1 DEF StopAtEnd
  <2> QED
    BY <1>1, <2>3, <2>4 DEF HeldWhole
<1> QED
  BY <1>2, <1>3, <1>4 DEF TransferInv

LEMMA ForgetKeeps ==
  ASSUME TransferInv, Forget
  PROVE  TransferInv' /\ document' = <<>>
<1>1. /\ PairInv /\ FreeDocument /\ UNCHANGED encoderVars
  BY DEF TransferInv, Forget
<1>2. PairInv' /\ document' = <<>>
  BY <1>1, FreeKeepsPair
<1>3. input' = <<>> /\ Len(<<>>) = 0 /\ documentStatus' = "idle"
  BY <1>1 DEF FreeDocument
<1> QED
  BY <1>2, <1>3 DEF TransferInv, Undamaged

LEMMA StutterKeeps ==
  ASSUME TransferInv, UNCHANGED transferVars
  PROVE  TransferInv'
<1>1. /\ PairInv /\ encoderVars' = encoderVars
      /\ input' = input /\ offset' = offset /\ document' = document
      /\ documentStatus' = documentStatus /\ damaged' = damaged
      /\ data' = data /\ written' = written
  BY DEF TransferInv, transferVars, decoderVars, encoderVars
<1>2. PairInv'
  BY <1>1, StandStillKeepsPair
<1> QED
  BY <1>1, <1>2 DEF TransferInv, Undamaged, HeldWhole

LEMMA TransferBegins ==
  ASSUME TransferInit
  PROVE  TransferInv
<1>1. PairInv
  BY PairBegins DEF TransferInit
<1>2. input = <<>> /\ Len(<<>>) = 0 /\ documentStatus = "idle"
  BY DEF TransferInit, NoDocument
<1> QED
  BY <1>1, <1>2 DEF TransferInv, Undamaged

(***************************************************************************)
(* The inductive invariant: whatever the medium does, what was delivered   *)
(* is the beginning of what was written, without a gap.                    *)
(***************************************************************************)
THEOREM TransferInvariant == TransferSpec => []TransferInv
<1>1. TransferInit => TransferInv
  BY TransferBegins
<1>2. TransferInv /\ [TransferNext]_transferVars => TransferInv'
  BY HandOverKeeps, EncodeKeeps, DecodeKeeps, ForgetKeeps, StutterKeeps
     DEF TransferNext
<1> QED
  BY <1>1, <1>2, PTL DEF TransferSpec

-----------------------------------------------------------------------------
(* The theorems. *)

(***************************************************************************)
(* No false delivery, however the bytes are cut and altered and wherever   *)
(* the encoder ran out of memory: sdaf_decode puts nothing into the        *)
(* document but the beginning of what was written.                         *)
(***************************************************************************)
THEOREM NoFalseDelivery == TransferSpec => []DeliveredIsPrefix
<1>1. TransferInv => DeliveredIsPrefix
  BY DEF TransferInv, PairInv
<1> QED
  BY <1>1, TransferInvariant, PTL

(***************************************************************************)
(* No silent loss: SDAF_OK for an input that was only cut off means that   *)
(* every record it holds whole is in the document.                         *)
(***************************************************************************)
THEOREM NoSilentLoss == TransferSpec => []CutLosesOnlyTail
<1>1. TransferInv => CutLosesOnlyTail
  <2> SUFFICES ASSUME TransferInv, documentStatus = "OK", damaged = {}
               PROVE  Len(document) = Cardinality(HeldWhole(Len(input)))
    BY DEF CutLosesOnlyTail
  <2>1. HeldWhole(Len(input)) = 1 .. Len(document)
    BY DEF TransferInv
  <2>2. Len(document) \in Nat
    BY LenProperties DEF TransferInv, PairInv
  <2>3. Cardinality(1 .. Len(document)) = Len(document)
    <3>1. PICK d \in Nat : d = Len(document)
      BY <2>2
    <3>2. Cardinality(1 .. d) = d
      BY FS_Interval
    <3> QED
      BY <3>1, <3>2
  <2> QED
    BY <2>1, <2>3
<1> QED
  BY <1>1, TransferInvariant, PTL

(***************************************************************************)
(* The encoder, the medium and the decoder together implement the record   *)
(* log: the log of written records only grows, and the document takes them *)
(* one by one in order, or starts over.                                    *)
(***************************************************************************)
THEOREM TransferImplementsLog == TransferSpec => ImplementsLog
<1>1. TransferInit => Log!LogInit
  BY DEF TransferInit, ZeroEncoder, NoDocument, Log!LogInit
<1>2. TransferInv /\ [TransferNext]_transferVars
        => [Log!LogNext]_(Log!logVars)
  <2> SUFFICES ASSUME TransferInv, [TransferNext]_transferVars
               PROVE  [Log!LogNext]_(Log!logVars)
    OBVIOUS
  <2>1. CASE Encode
    BY <2>1, CallImplementsLog DEF Encode, TransferInv
  <2>2. CASE HandOver
    BY <2>2, HandOverKeeps, FreshImplementsLog DEF HandOver
  <2>3. CASE Decode
    BY <2>3, DecodeImplementsLog DEF Decode, TransferInv
  <2>4. CASE Forget
    BY <2>4, ForgetKeeps, FreshImplementsLog DEF Forget
  <2>5. CASE UNCHANGED transferVars
    BY <2>5 DEF transferVars, encoderVars, decoderVars, Log!logVars
  <2> QED
    BY <2>1, <2>2, <2>3, <2>4, <2>5 DEF TransferNext
<1> QED
  BY <1>1, <1>2, TransferInvariant, PTL
     DEF TransferSpec, ImplementsLog, Log!LogSpec

-----------------------------------------------------------------------------
(* What a document says.  The four properties below are kept by every step *)
(* because a record is compared with a single earlier one, and the earlier *)
(* ones already agree among themselves.                                    *)

(***************************************************************************)
(* A schema that is compared with the last one of its pair agrees with all *)
(* of them.                                                                *)
(***************************************************************************)
LEMMA DeliverKeepsSchemas ==
  ASSUME PairInv, SchemasAgree, DeliverRecord
  PROVE  SchemasAgree'
<1>1. document \in Seq(Records)
  BY DEF PairInv
<1>2. PICK d \in Nat : d = Len(document)
  BY <1>1, LenProperties
<1>3. PICK r \in Records :
        /\ FieldsFit(r)
        /\ ParseRecord(r.type, r.fields, r.payload) = "OK"
        /\ document' = Append(document, r)
  BY DeliveredParsed
<1>4. /\ Len(document') = d + 1
      /\ \A i \in 1 .. d : document'[i] = document[i]
      /\ document'[d + 1] = r
  BY <1>1, <1>2, <1>3, AppendProperties
<1>5. ASSUME NEW i \in 1 .. d, document[i].type = "SCMA", r.type = "SCMA",
             document[i].fields = r.fields
      PROVE  document[i].payload = r.payload
  <2>1. ParseSchema(r.fields, r.payload) = "OK"
    BY <1>3, <1>5 DEF ParseRecord
  <2>2. i \in SchemaAt(r.fields.id, r.fields.rev)
    BY <1>2, <1>5 DEF SchemaAt
  <2>3. PICK k \in SchemaAt(r.fields.id, r.fields.rev) :
          LayoutFor(r.fields.id, r.fields.rev) = document[k].payload[1].layout
    BY <1>1, <2>2, FoundSchema DEF SchemaSeen
  <2>4. document[k].payload[1].layout = r.payload[1].layout
    BY <2>1, <2>2, <2>3 DEF ParseSchema, SchemaSeen
  <2>5. /\ k \in 1 .. d /\ document[k].type = "SCMA"
        /\ document[k].fields.id = r.fields.id
        /\ document[k].fields.rev = r.fields.rev
    BY <1>2 DEF SchemaAt
  <2>6. FieldsFit(document[k])
    BY <1>2, <2>5, DocumentRecords
  <2>7. document[k].fields = r.fields
    BY <1>3, <1>5, <2>5, <2>6 DEF FieldsFit, SchemaFields
  <2>8. document[k].payload = r.payload
    <3>1. PICK l1 \in ValidLayouts :
            document[k].payload = <<[cell |-> "layout", layout |-> l1]>>
      BY <2>5, <2>6 DEF FieldsFit
    <3>2. PICK l2 \in ValidLayouts :
            r.payload = <<[cell |-> "layout", layout |-> l2]>>
      BY <1>3, <1>5 DEF FieldsFit
    <3>3. document[k].payload[1].layout = l1
      BY <3>1
    <3>4. r.payload[1].layout = l2
      BY <3>2
    <3> QED
      BY <2>4, <3>1, <3>2, <3>3, <3>4
  <2>9. document[i].payload = document[k].payload
    BY <1>2, <1>5, <2>5, <2>7 DEF SchemasAgree
  <2> QED
    BY <2>8, <2>9
<1>6. ASSUME NEW i \in 1 .. d + 1, NEW j \in 1 .. d + 1,
             document'[i].type = "SCMA", document'[j].type = "SCMA",
             document'[i].fields = document'[j].fields
      PROVE  document'[i].payload = document'[j].payload
  <2>1. CASE i \in 1 .. d /\ j \in 1 .. d
    BY <1>2, <1>4, <1>6, <2>1 DEF SchemasAgree
  <2>2. CASE i \in 1 .. d /\ j = d + 1
    BY <1>4, <1>5, <1>6, <2>2
  <2>3. CASE i = d + 1 /\ j \in 1 .. d
    BY <1>4, <1>5, <1>6, <2>3
  <2>4. CASE i = d + 1 /\ j = d + 1
    BY <2>4
  <2> QED
    BY <2>1, <2>2, <2>3, <2>4
<1> QED
  BY <1>4, <1>6 DEF SchemasAgree

(***************************************************************************)
(* An item that comes after the last one of its stream comes after all of  *)
(* them.                                                                   *)
(***************************************************************************)
LEMMA DeliverKeepsItems ==
  ASSUME PairInv, ItemsIncrease, DeliverRecord
  PROVE  ItemsIncrease'
<1>1. document \in Seq(Records)
  BY DEF PairInv
<1>2. PICK d \in Nat : d = Len(document)
  BY <1>1, LenProperties
<1>3. PICK r \in Records :
        /\ FieldsFit(r)
        /\ ParseRecord(r.type, r.fields, r.payload) = "OK"
        /\ document' = Append(document, r)
  BY DeliveredParsed
<1>4. /\ Len(document') = d + 1
      /\ \A i \in 1 .. d : document'[i] = document[i]
      /\ document'[d + 1] = r
  BY <1>1, <1>2, <1>3, AppendProperties
<1>5. ASSUME NEW i \in 1 .. d, document[i].type = "BLOB", r.type = "BLOB",
             document[i].fields.id = r.fields.id,
             document[i].fields.stream = r.fields.stream
      PROVE  document[i].fields.first < r.fields.first
  <2> DEFINE earlier == EarlierItems(r.fields.id, r.fields.stream)
  <2>1. ItemIndexGrows(r.fields)
    <3>1. ParseBlob(r.fields, r.payload) = "OK"
      BY <1>3, <1>5 DEF ParseRecord
    <3> QED
      BY <3>1 DEF ParseBlob
  <2>2. i \in earlier
    BY <1>2, <1>5 DEF EarlierItems
  <2>3. PICK k \in earlier : \A j \in earlier : j <= k
    BY <1>1, <2>2, FoundItem
  <2>4. document[k].fields.first < r.fields.first
    BY <2>1, <2>3 DEF ItemIndexGrows
  <2>5. /\ k \in 1 .. d /\ document[k].type = "BLOB"
        /\ document[k].fields.id = r.fields.id
        /\ document[k].fields.stream = r.fields.stream
    BY <1>2, <2>3 DEF EarlierItems
  <2>6. /\ document[i].fields \in BlobFields
        /\ document[k].fields \in BlobFields
        /\ r.fields \in BlobFields
    BY <1>2, <1>3, <1>5, <2>5, DocumentRecords DEF FieldsFit
  <2>7. /\ document[i].fields.first \in Nat
        /\ document[k].fields.first \in Nat
        /\ r.fields.first \in Nat
    BY <2>6 DEF BlobFields
  <2>8. CASE i = k
    BY <2>4, <2>8
  <2>9. CASE i # k
    <3>1. i < k
      BY <2>2, <2>3, <2>5, <2>9
    <3>2. document[i].fields.first < document[k].fields.first
      BY <1>2, <1>5, <2>5, <3>1 DEF ItemsIncrease
    <3> QED
      BY <2>4, <2>7, <3>2
  <2> QED
    BY <2>8, <2>9
<1>6. ASSUME NEW i \in 1 .. d + 1, NEW j \in 1 .. d + 1, i < j,
             document'[i].type = "BLOB", document'[j].type = "BLOB",
             document'[i].fields.id = document'[j].fields.id,
             document'[i].fields.stream = document'[j].fields.stream
      PROVE  document'[i].fields.first < document'[j].fields.first
  <2>1. CASE j \in 1 .. d
    <3>1. i \in 1 .. d
      BY <1>6, <2>1
    <3> QED
      BY <1>2, <1>4, <1>6, <2>1, <3>1 DEF ItemsIncrease
  <2>2. CASE j = d + 1
    <3>1. i \in 1 .. d
      BY <1>6, <2>2
    <3> QED
      BY <1>4, <1>5, <1>6, <2>2, <3>1
  <2> QED
    BY <2>1, <2>2
<1> QED
  BY <1>4, <1>6 DEF ItemsIncrease

(***************************************************************************)
(* The entries of an accepted index are those of records before it.        *)
(***************************************************************************)
LEMMA DeliverKeepsEntries ==
  ASSUME PairInv, EntriesPointBack, DeliverRecord
  PROVE  EntriesPointBack'
<1>1. document \in Seq(Records)
  BY DEF PairInv
<1>2. PICK d \in Nat : d = Len(document)
  BY <1>1, LenProperties
<1>3. PICK r \in Records :
        /\ FieldsFit(r)
        /\ ParseRecord(r.type, r.fields, r.payload) = "OK"
        /\ document' = Append(document, r)
  BY DeliveredParsed
<1>4. /\ Len(document') = d + 1
      /\ \A i \in 1 .. d : document'[i] = document[i]
      /\ document'[d + 1] = r
  BY <1>1, <1>2, <1>3, AppendProperties
<1>5. ASSUME r.type = "INDX", NEW k \in 1 .. Len(r.payload)
      PROVE  \E i \in 1 .. d :
               /\ document[i].type \in {"DATA", "BLOB"}
               /\ r.payload[k] = EntryFor(document[i])
  <2>1. ParseIndex(r.payload) = "OK"
    BY <1>3, <1>5 DEF ParseRecord
  <2>2. EntryMatches(r.payload[k])
    BY <2>1 DEF ParseIndex
  <2>3. r.payload[k] \in EntryCells
    BY <1>3, <1>5, ElementOfSeq DEF FieldsFit
  <2>4. PICK e \in EntryCells : e = r.payload[k]
    BY <2>3
  <2>5. PICK i \in RecordsAt(e.offset) :
          /\ document[i].type \in {"DATA", "BLOB"}
          /\ document[i].seq = e.seq
          /\ document[i].fields.stream = e.stream
          /\ document[i].fields.first = e.first
          /\ e.count = IF document[i].type = "BLOB" THEN 1
                       ELSE document[i].fields.count
    BY <2>2, <2>4 DEF EntryMatches
  <2>6. i \in 1 .. d /\ document[i].offset = e.offset
    BY <1>2 DEF RecordsAt
  <2>7. e = [cell |-> "entry", offset |-> e.offset, seq |-> e.seq,
             stream |-> e.stream, first |-> e.first, count |-> e.count]
    BY DEF EntryCells
  <2>8. EntryFor(document[i]) =
          [cell |-> "entry", offset |-> e.offset, seq |-> e.seq,
           stream |-> e.stream, first |-> e.first, count |-> e.count]
    BY <2>5, <2>6 DEF EntryFor
  <2> QED
    BY <2>4, <2>5, <2>6, <2>7, <2>8
<1>6. ASSUME NEW j \in 1 .. d + 1, document'[j].type = "INDX",
             NEW k \in 1 .. Len(document'[j].payload)
      PROVE  \E i \in 1 .. j - 1 :
               /\ document'[i].type \in {"DATA", "BLOB"}
               /\ document'[j].payload[k] = EntryFor(document'[i])
  <2>1. CASE j \in 1 .. d
    <3>1. PICK i \in 1 .. j - 1 :
            /\ document[i].type \in {"DATA", "BLOB"}
            /\ document[j].payload[k] = EntryFor(document[i])
      BY <1>2, <1>4, <1>6, <2>1 DEF EntriesPointBack
    <3>2. document'[i] = document[i] /\ document'[j] = document[j]
      BY <1>4, <2>1
    <3> QED
      BY <3>1, <3>2
  <2>2. CASE j = d + 1
    <3>1. document'[j] = r /\ j - 1 = d
      BY <1>4, <2>2
    <3>2. PICK i \in 1 .. d :
            /\ document[i].type \in {"DATA", "BLOB"}
            /\ r.payload[k] = EntryFor(document[i])
      BY <1>5, <1>6, <3>1
    <3> QED
      BY <1>4, <3>1, <3>2
  <2> QED
    BY <2>1, <2>2
<1> QED
  BY <1>4, <1>6 DEF EntriesPointBack

(***************************************************************************)
(* A DATA record that is decoded is decoded by the last schema of its pair *)
(* that stands before it.                                                  *)
(***************************************************************************)
LEMMA DeliverKeepsDecoding ==
  ASSUME PairInv, DecodedByEarlierSchema, DeliverRecord
  PROVE  DecodedByEarlierSchema'
<1>1. document \in Seq(Records)
  BY DEF PairInv
<1>2. PICK d \in Nat : d = Len(document)
  BY <1>1, LenProperties
<1>3. PICK r \in Records :
        /\ FieldsFit(r)
        /\ ParseRecord(r.type, r.fields, r.payload) = "OK"
        /\ document' = Append(document, r)
        /\ opaque' = IF KeptOpaque(r.type, r.fields)
                     THEN opaque \cup {Len(document) + 1} ELSE opaque
  BY DeliveredParsed
<1>4. /\ Len(document') = d + 1
      /\ \A i \in 1 .. d : document'[i] = document[i]
      /\ document'[d + 1] = r
  BY <1>1, <1>2, <1>3, AppendProperties
<1> DEFINE MadeFor(i, f) ==
             /\ document[i].type = "SCMA"
             /\ document[i].fields = [id |-> f.id, rev |-> f.rev]
             /\ HoldsData(document[i].payload[1].layout, f.stream, f.mode)
             /\ f.decoded = ExpectedSize(document[i].payload[1].layout,
                                         f.stream, f.count, f.stamps)
<1>5. ASSUME r.type = "DATA", ~KeptOpaque(r.type, r.fields)
      PROVE  \E i \in 1 .. d : MadeFor(i, r.fields)
  <2>1. SchemaSeen(r.fields.id, r.fields.rev)
    BY <1>5 DEF KeptOpaque
  <2>2. PICK k \in SchemaAt(r.fields.id, r.fields.rev) :
          LayoutFor(r.fields.id, r.fields.rev) = document[k].payload[1].layout
    BY <1>1, <2>1, FoundSchema
  <2>3. DataMatchesSchema(r.fields)
    <3>1. ParseData(r.fields, r.payload) = "OK"
      BY <1>3, <1>5 DEF ParseRecord
    <3> QED
      BY <2>1, <3>1 DEF ParseData
  <2>4. /\ k \in 1 .. d /\ document[k].type = "SCMA"
        /\ document[k].fields.id = r.fields.id
        /\ document[k].fields.rev = r.fields.rev
    BY <1>2 DEF SchemaAt
  <2>5. document[k].fields \in SchemaFields
    BY <1>2, <2>4, DocumentRecords DEF FieldsFit
  <2>6. document[k].fields = [id |-> r.fields.id, rev |-> r.fields.rev]
    BY <2>4, <2>5 DEF SchemaFields
  <2> QED
    BY <2>2, <2>3, <2>4, <2>6 DEF DataMatchesSchema
<1>6. ASSUME NEW j \in (1 .. d + 1) \ opaque', document'[j].type = "DATA"
      PROVE  \E i \in 1 .. j - 1 : MadeFor(i, document'[j].fields)
  <2>1. CASE j \in 1 .. d
    <3>1. j \notin opaque
      BY <1>3, <1>6
    <3>2. document'[j] = document[j]
      BY <1>4, <2>1
    <3> QED
      BY <1>2, <1>6, <2>1, <3>1, <3>2 DEF DecodedByEarlierSchema
  <2>2. CASE j = d + 1
    <3>1. document'[j] = r /\ j - 1 = d
      BY <1>4, <2>2
    <3>2. ~KeptOpaque(r.type, r.fields)
      BY <1>2, <1>3, <1>6, <2>2
    <3> QED
      BY <1>5, <1>6, <3>1, <3>2
  <2> QED
    BY <2>1, <2>2
<1>7. ASSUME NEW j \in (1 .. Len(document')) \ opaque',
             document'[j].type = "DATA"
      PROVE  \E i \in 1 .. j - 1 :
               LET f == document'[j].fields IN
               /\ document'[i].type = "SCMA"
               /\ document'[i].fields = [id |-> f.id, rev |-> f.rev]
               /\ HoldsData(document'[i].payload[1].layout, f.stream, f.mode)
               /\ f.decoded = ExpectedSize(document'[i].payload[1].layout,
                                           f.stream, f.count, f.stamps)
  <2>1. PICK i \in 1 .. j - 1 : MadeFor(i, document'[j].fields)
    BY <1>4, <1>6, <1>7
  <2>2. document'[i] = document[i]
    BY <1>4
  <2> QED
    BY <2>1, <2>2
<1> QED
  BY <1>7 DEF DecodedByEarlierSchema

(***************************************************************************)
(* A step delivers a record, leaves the document alone, or starts over.    *)
(***************************************************************************)
LEMMA DocumentSteps ==
  ASSUME TransferInv, [TransferNext]_transferVars
  PROVE  DeliverRecord \/ UNCHANGED <<document, opaque>> \/ document' = <<>>
<1>1. CASE Encode
  BY <1>1 DEF Encode, decoderVars
<1>2. CASE HandOver
  BY <1>2, HandOverKeeps
<1>3. CASE Decode
  BY <1>3 DEF Decode, DecodeStep, StopAtEnd, RejectRecord,
              DecodeOutOfMemory, FixedBytesOutOfMemory
<1>4. CASE Forget
  BY <1>4, ForgetKeeps
<1>5. CASE UNCHANGED transferVars
  BY <1>5 DEF transferVars, decoderVars
<1> QED
  BY <1>1, <1>2, <1>3, <1>4, <1>5 DEF TransferNext

LEMMA NothingSaid ==
  /\ TransferInit => document = <<>>
  /\ document = <<>> => /\ SchemasAgree /\ ItemsIncrease
                        /\ EntriesPointBack /\ DecodedByEarlierSchema
<1>1. TransferInit => document = <<>>
  BY DEF TransferInit, NoDocument
<1>2. ASSUME document = <<>>
      PROVE  1 .. Len(document) = {}
  BY <1>2
<1> QED
  BY <1>1, <1>2 DEF SchemasAgree, ItemsIncrease, EntriesPointBack,
                    DecodedByEarlierSchema

(***************************************************************************)
(* Comparing a schema with the last one of its pair only is enough:        *)
(* however long the document and however careless the writer, all schemas  *)
(* of one (schema_id, schema_revision) pair have one content.              *)
(***************************************************************************)
THEOREM OneContentPerSchema == TransferSpec => []SchemasAgree
<1>1. TransferInit => SchemasAgree
  BY NothingSaid
<1>2. TransferInv /\ SchemasAgree /\ [TransferNext]_transferVars => SchemasAgree'
  <2> SUFFICES ASSUME TransferInv, SchemasAgree, [TransferNext]_transferVars
               PROVE  SchemasAgree'
    OBVIOUS
  <2>1. CASE DeliverRecord
    BY <2>1, DeliverKeepsSchemas DEF TransferInv
  <2>2. CASE UNCHANGED <<document, opaque>>
    BY <2>2 DEF SchemasAgree
  <2>3. CASE document' = <<>>
    <3>1. 1 .. Len(document') = {}
      BY <2>3
    <3> QED
      BY <3>1 DEF SchemasAgree
  <2> QED
    BY <2>1, <2>2, <2>3, DocumentSteps
<1> QED
  BY <1>1, <1>2, TransferInvariant, PTL DEF TransferSpec

(***************************************************************************)
(* Comparing an item with last_blob_index only is enough: the indexes of a *)
(* blob stream increase from every item to every later one.                *)
(***************************************************************************)
THEOREM ItemIndexesIncrease == TransferSpec => []ItemsIncrease
<1>1. TransferInit => ItemsIncrease
  BY NothingSaid
<1>2. TransferInv /\ ItemsIncrease /\ [TransferNext]_transferVars => ItemsIncrease'
  <2> SUFFICES ASSUME TransferInv, ItemsIncrease, [TransferNext]_transferVars
               PROVE  ItemsIncrease'
    OBVIOUS
  <2>1. CASE DeliverRecord
    BY <2>1, DeliverKeepsItems DEF TransferInv
  <2>2. CASE UNCHANGED <<document, opaque>>
    BY <2>2 DEF ItemsIncrease
  <2>3. CASE document' = <<>>
    <3>1. 1 .. Len(document') = {}
      BY <2>3
    <3> QED
      BY <3>1 DEF ItemsIncrease
  <2> QED
    BY <2>1, <2>2, <2>3, DocumentSteps
<1> QED
  BY <1>1, <1>2, TransferInvariant, PTL DEF TransferSpec

(***************************************************************************)
(* Every entry of an index in the document describes, in every field, a    *)
(* DATA or BLOB record that stands before the index.                       *)
(***************************************************************************)
THEOREM IndexesCanBeTrusted == TransferSpec => []EntriesPointBack
<1>1. TransferInit => EntriesPointBack
  BY NothingSaid
<1>2. TransferInv /\ EntriesPointBack /\ [TransferNext]_transferVars => EntriesPointBack'
  <2> SUFFICES ASSUME TransferInv, EntriesPointBack, [TransferNext]_transferVars
               PROVE  EntriesPointBack'
    OBVIOUS
  <2>1. CASE DeliverRecord
    BY <2>1, DeliverKeepsEntries DEF TransferInv
  <2>2. CASE UNCHANGED <<document, opaque>>
    BY <2>2 DEF EntriesPointBack, EntryFor
  <2>3. CASE document' = <<>>
    <3>1. 1 .. Len(document') = {}
      BY <2>3
    <3> QED
      BY <3>1 DEF EntriesPointBack
  <2> QED
    BY <2>1, <2>2, <2>3, DocumentSteps
<1> QED
  BY <1>1, <1>2, TransferInvariant, PTL DEF TransferSpec

(***************************************************************************)
(* A DATA record that was decoded was decoded by a schema before it that   *)
(* has room for exactly its samples, whatever follows in the input.        *)
(***************************************************************************)
THEOREM DecodingStandsOnSchema == TransferSpec => []DecodedByEarlierSchema
<1>1. TransferInit => DecodedByEarlierSchema
  BY NothingSaid
<1>2. TransferInv /\ DecodedByEarlierSchema /\ [TransferNext]_transferVars => DecodedByEarlierSchema'
  <2> SUFFICES ASSUME TransferInv, DecodedByEarlierSchema, [TransferNext]_transferVars
               PROVE  DecodedByEarlierSchema'
    OBVIOUS
  <2>1. CASE DeliverRecord
    BY <2>1, DeliverKeepsDecoding DEF TransferInv
  <2>2. CASE UNCHANGED <<document, opaque>>
    BY <2>2 DEF DecodedByEarlierSchema
  <2>3. CASE document' = <<>>
    <3>1. 1 .. Len(document') = {}
      BY <2>3
    <3> QED
      BY <3>1 DEF DecodedByEarlierSchema
  <2> QED
    BY <2>1, <2>2, <2>3, DocumentSteps
<1> QED
  BY <1>1, <1>2, TransferInvariant, PTL DEF TransferSpec
-----------------------------------------------------------------------------
(* Who is to blame for an input that is called malformed.                  *)

(***************************************************************************)
(* The file header is found wrong only where it is missing or altered.     *)
(***************************************************************************)
LEMMA HandOverBlamesDamage ==
  ASSUME TransferInv, HandOver
  PROVE  BlameIsJust'
<1> SUFFICES ASSUME documentStatus' = "FORMAT", input' # <<>>
             PROVE  offset' = 0 /\ 1 \in damaged'
  BY DEF BlameIsJust
<1>1. PICK bytes : Start(bytes)
  BY DEF HandOver
<1>2. /\ input' = bytes /\ offset' = 0
      /\ ~HasFileHeader(bytes)
  BY <1>1 DEF Start
<1>3. /\ PairInv' /\ Undamaged' /\ data' # <<>>
  BY HandOverKeeps DEF TransferInv, HandOver, encoderVars
<1>4. data'[1] = FileHeader /\ input' \in Seq(Cells)
  BY <1>3 DEF PairInv, BufferInv, ComesFromBuffer
<1>5. 1 \in 1 .. Len(input')
  BY <1>4, EmptySeq, LenProperties
<1>6. input'[1] # FileHeader
  BY <1>2 DEF HasFileHeader
<1>7. 1 \in damaged'
  BY <1>3, <1>4, <1>5, <1>6 DEF Undamaged
<1> QED
  BY <1>2, <1>7

(***************************************************************************)
(* A record is found malformed only where a cell of it was altered: the    *)
(* scan is at the next written record, which is accepted where it is       *)
(* intact, or behind the last one, where a torn record ends the scan.      *)
(***************************************************************************)
LEMMA DecodeBlamesDamage ==
  ASSUME BlameInv, Decode
  PROVE  BlameIsJust'
<1> SUFFICES ASSUME Careful, StopsOnError, documentStatus' = "FORMAT"
             PROVE  /\ errorOffset' = offset'
                    /\ \/ FixedBytesWanted'
                       \/ \E p \in damaged' :
                            /\ p > errorOffset'
                            /\ Len(document') < Len(written') =>
                                 p <= EndOf(written'[Len(document') + 1])
  BY DEF BlameIsJust
<1>1. /\ PairInv /\ Undamaged /\ LawfulLog(written)
      /\ SoundLog(written)
      /\ Consecutive /\ TornTail
      /\ input \in Seq(Cells) /\ offset \in Nat
  BY DEF BlameInv, TransferInv, CarefulLog, CarefulSamples, StoppedAtTear,
         PairInv, ComesFromBuffer
<1>2. RejectRecord \/ FixedBytesOutOfMemory
  BY DEF Decode, DecodeStep, StopAtEnd, DeliverRecord, DecodeOutOfMemory
<1>3. CASE FixedBytesOutOfMemory
  BY <1>3, WantedStays DEF FixedBytesOutOfMemory
<1>4. CASE RejectRecord
  <2>1. /\ documentStatus = "scanning" /\ ~InputExhausted /\ Verdict = "FORMAT"
        /\ errorOffset' = offset /\ offset' = offset /\ document' = document
    BY <1>4 DEF RejectRecord
  <2>2. damaged' = damaged /\ written' = written
    BY DEF Decode, encoderVars
  <2>3. PICK o \in Nat : o = offset
    BY <1>1
  <2>4. CASE /\ Len(document) + 1 \in 1 .. Len(written)
             /\ Len(document) < Len(written)
             /\ written[Len(document) + 1].offset = offset
    <3>1. PICK end : end = EndOf(written[Len(document) + 1])
      OBVIOUS
    <3>2. \E p \in damaged : p > o /\ p <= end
      <4> SUFFICES ASSUME \A p \in damaged : ~(p > o /\ p <= end)
                   PROVE  FALSE
        OBVIOUS
      <4>1. PICK last \in Nat : last = end
        <5>1. end \in written[Len(document) + 1].offset + 1 .. Len(data)
          BY <1>1, <2>4, <3>1, WrittenCells DEF PairInv
        <5> QED
          BY <2>3, <2>4, <5>1
      <4>2. ASSUME NEW p \in o + 1 .. last, p <= Len(input)
            PROVE  input[p] = data[p]
        <5>1. p \notin damaged
          BY <4>1, <4>2
        <5>2. p \in 1 .. Len(input)
          BY <1>1, <4>2, LenProperties
        <5> QED
          BY <1>1, <5>1, <5>2 DEF Undamaged
      <4>3. Verdict # "FORMAT"
        BY <1>1, <2>1, <2>3, <2>4, <3>1, <4>1, <4>2, IntactIsAccepted
      <4> QED
        BY <2>1, <4>3
    <3> QED
      BY <2>1, <2>2, <2>3, <3>1, <3>2
  <2>5. CASE Len(document) = Len(written) /\ offset = WrittenEnd
    <3>1. \E p \in damaged : p > o
      <4> SUFFICES ASSUME \A p \in damaged : ~(p > o)
                   PROVE  FALSE
        OBVIOUS
      <4>1. o + 1 <= Len(input) => input[o + 1] = data[o + 1]
        <5>1. o + 1 \notin damaged
          OBVIOUS
        <5>2. o + 1 <= Len(input) => o + 1 \in 1 .. Len(input)
          BY <1>1, LenProperties
        <5> QED
          BY <1>1, <5>1, <5>2 DEF Undamaged
      <4>2. Verdict # "FORMAT"
        BY <1>1, <2>1, <2>3, <2>5, <4>1, TornIsPassedOver
      <4> QED
        BY <2>1, <4>2
    <3>2. ~(Len(document) < Len(written))
      <4>1. Len(document) \in Nat
        BY <1>1, LenProperties DEF PairInv
      <4> QED
        BY <2>5, <4>1
    <3> QED
      BY <2>1, <2>2, <2>3, <3>1, <3>2
  <2> QED
    BY <1>1, <2>1, <2>4, <2>5, CursorMeetsNext
<1> QED
  BY <1>2, <1>3, <1>4

LEMMA BlameKeeps ==
  ASSUME BlameInv, [TransferNext]_transferVars
  PROVE  BlameInv'
<1>1. /\ TransferInv /\ EncoderInv /\ CarefulLog /\ CarefulSamples
      /\ StoppedAtTear
      /\ BlameIsJust
  BY DEF BlameInv, TransferInv, PairInv, BufferInv
<1>2. TransferInv'
  BY <1>1, HandOverKeeps, EncodeKeeps, DecodeKeeps, ForgetKeeps, StutterKeeps
     DEF TransferNext
<1>3. CASE Encode
  <2>1. EncoderCall /\ documentStatus' = "idle"
    BY <1>3 DEF Encode, decoderVars
  <2>2. CarefulLog' /\ CarefulSamples' /\ StoppedAtTear'
    BY <1>1, <2>1, CallKeepsCare, CallKeepsTear
  <2>3. BlameIsJust'
    BY <2>1 DEF BlameIsJust
  <2> QED
    BY <1>2, <2>2, <2>3 DEF BlameInv
<1>4. CASE HandOver \/ Decode \/ Forget \/ UNCHANGED transferVars
  <2>1. UNCHANGED encoderVars
    BY <1>4 DEF HandOver, Decode, Forget, transferVars
  <2>2. CarefulLog' /\ CarefulSamples' /\ StoppedAtTear'
    BY <1>1, <2>1, RestKeepsPromises
  <2>3. BlameIsJust'
    <3>1. CASE HandOver
      BY <1>1, <3>1, HandOverBlamesDamage
    <3>2. CASE Decode
      BY <3>2, DecodeBlamesDamage
    <3>3. CASE Forget
      BY <3>3 DEF Forget, FreeDocument, BlameIsJust
    <3>4. CASE UNCHANGED transferVars
      <4>1. FixedBytesWanted' <=> FixedBytesWanted
        BY <3>4, WantedStays DEF transferVars, decoderVars
      <4> QED
        BY <1>1, <3>4, <4>1
           DEF transferVars, decoderVars, encoderVars, BlameIsJust
    <3> QED
      BY <1>4, <3>1, <3>2, <3>3, <3>4
  <2> QED
    BY <1>2, <2>2, <2>3 DEF BlameInv
<1> QED
  BY <1>3, <1>4 DEF TransferNext

LEMMA BlameBegins ==
  ASSUME TransferInit
  PROVE  BlameInv
<1>1. TransferInv
  BY TransferBegins
<1>2. /\ data = <<>> /\ written = <<>> /\ documentStatus = "idle"
      /\ Len(<<>>) = 0
  BY DEF TransferInit, ZeroEncoder, NoDocument
<1>3. CarefulLog /\ CarefulSamples
  BY <1>2 DEF CarefulLog, CarefulSamples, LawfulLog, SoundLog
<1>4. StoppedAtTear
  BY <1>2 DEF StoppedAtTear, Consecutive, TornTail, WrittenEnd
<1>5. BlameIsJust
  BY <1>2 DEF BlameIsJust
<1> QED
  BY <1>1, <1>3, <1>4, <1>5 DEF BlameInv

(***************************************************************************)
(* An intact record is never blamed, however many records and schemas      *)
(* there are, wherever the input is cut and whatever else in it was        *)
(* altered: when a careful application stops at an error, a verdict        *)
(* SDAF_ERROR_FORMAT points at an altered file header or record, or at one *)
(* with fixed-bytes values for which the reader had no memory.             *)
(***************************************************************************)
THEOREM BlameStaysJust == TransferSpec => []BlameIsJust
<1>1. TransferInit => BlameInv
  BY BlameBegins
<1>2. BlameInv /\ [TransferNext]_transferVars => BlameInv'
  BY BlameKeeps
<1>3. BlameInv => BlameIsJust
  BY DEF BlameInv
<1> QED
  BY <1>1, <1>2, <1>3, PTL DEF TransferSpec

-----------------------------------------------------------------------------
(* A .NET reader of the same bytes changes nothing about all this.         *)

(***************************************************************************)
(* Two readers of the same bytes share nothing else: what is proved of the *)
(* transfer to the C decoder holds with a .NET SdafReader beside it.       *)
(***************************************************************************)
THEOREM ReadersTransfer == ReadersSpec => TransferSpec
<1>1. ReadersInit => TransferInit
  BY DEF ReadersInit
<1>2. [ReadersNext]_readersVars => [TransferNext]_transferVars
  <2> SUFFICES ASSUME [ReadersNext]_readersVars
               PROVE  [TransferNext]_transferVars
    OBVIOUS
  <2>1. CASE EncodeForBoth
    BY <2>1 DEF EncodeForBoth, TransferNext
  <2>2. CASE HandToBoth
    BY <2>2 DEF HandToBoth, TransferNext
  <2>3. CASE DecodeInC
    BY <2>3 DEF DecodeInC, TransferNext
  <2>4. CASE OpenInNet
    BY <2>4 DEF OpenInNet
  <2>5. CASE EnumerateInNet
    BY <2>5 DEF EnumerateInNet
  <2>6. CASE ForgetBoth
    BY <2>6 DEF ForgetBoth, TransferNext
  <2>7. CASE UNCHANGED readersVars
    BY <2>7 DEF readersVars
  <2> QED
    BY <2>1, <2>2, <2>3, <2>4, <2>5, <2>6, <2>7 DEF ReadersNext
<1> QED
  BY <1>1, <1>2, PTL DEF ReadersSpec, TransferSpec

-----------------------------------------------------------------------------
(* Two libraries, one rule.  Takes says what both ask of a record; each of *)
(* them finds the answer in what it remembers of the records before.       *)

(***************************************************************************)
(* What is taken depends only on the records before.                       *)
(***************************************************************************)
LEMMA TakenByRecordsBefore ==
  ASSUME NEW d, NEW e, NEW n \in Nat, NEW r,
         \A i \in 1 .. n : d[i] = e[i],
         Takes(d, n, r)
  PROVE  Takes(e, n, r)
<1>1. \A id, rev : SchemasBefore(d, n, id, rev) = SchemasBefore(e, n, id, rev)
  BY DEF SchemasBefore
<1>2. \A id, stream : ItemsBefore(d, n, id, stream)
                        = ItemsBefore(e, n, id, stream)
  BY DEF ItemsBefore
<1>3. DatasBefore(d, n) = DatasBefore(e, n)
  BY DEF DatasBefore
<1>4. \A id, rev : \A i \in SchemasBefore(d, n, id, rev) : d[i] = e[i]
  BY DEF SchemasBefore
<1>5. \A id, stream : \A i \in ItemsBefore(d, n, id, stream) : d[i] = e[i]
  BY DEF ItemsBefore
<1>6. CASE r.type = "SCMA"
  BY <1>1, <1>4, <1>6 DEF Takes, TakesSchema, LawfulSchema
<1>7. CASE r.type = "DATA"
  BY <1>1, <1>4, <1>7 DEF Takes, TakesData
<1>8. CASE r.type = "TEXT"
  BY <1>1, <1>4, <1>8 DEF Takes, TakesText
<1>9. CASE r.type = "BLOB"
  BY <1>1, <1>2, <1>4, <1>5, <1>9 DEF Takes, TakesItem
<1>10. CASE r.type = "INDX"
  <2>1. \A c : TrueEntry(d, n, c) => TrueEntry(e, n, c)
    BY DEF TrueEntry
  <2> QED
    BY <1>10, <2>1 DEF Takes
<1>11. CASE r.type = "END!"
  BY <1>3, <1>11 DEF Takes, LawfulEnd
<1>12. CASE r.type = "NOTE"
  BY <1>12 DEF Takes
<1> QED
  BY <1>6, <1>7, <1>8, <1>9, <1>10, <1>11, <1>12 DEF Takes

\* A record as a header and its payload give it, written or torn.
Typed(r) ==
  /\ r.type \in RecordTypes
  /\ Len(r.payload) \in Nat
  /\ r.type = "DATA" => r.fields \in DataFields
  /\ r.type = "BLOB" => r.fields \in BlobFields

(***************************************************************************)
(* The list of records: sdaf_find_schema finds the last schema of a pair,  *)
(* and any other has the same layout; last_blob_index finds the last item, *)
(* and the ones before it have smaller indexes.                            *)
(***************************************************************************)
LEMMA LastSchemaTells ==
  ASSUME PairInv, SchemasAgree, NEW id, NEW rev
  PROVE  /\ SchemaSeen(id, rev)
              <=> SchemasBefore(document, Len(document), id, rev) # {}
         /\ \A i \in SchemasBefore(document, Len(document), id, rev) :
              LayoutOf(document[i]) = LayoutFor(id, rev)
<1>1. document \in Seq(Records)
  BY DEF PairInv
<1>2. SchemaAt(id, rev) = SchemasBefore(document, Len(document), id, rev)
  BY DEF SchemaAt, SchemasBefore
<1>3. ASSUME NEW i \in SchemasBefore(document, Len(document), id, rev)
      PROVE  LayoutOf(document[i]) = LayoutFor(id, rev)
  <2>1. PICK k \in SchemaAt(id, rev) :
          LayoutFor(id, rev) = document[k].payload[1].layout
    BY <1>1, <1>2, <1>3, FoundSchema DEF SchemaSeen
  <2>2. /\ i \in 1 .. Len(document) /\ k \in 1 .. Len(document)
        /\ document[i].type = "SCMA" /\ document[k].type = "SCMA"
        /\ document[i].fields.id = id /\ document[k].fields.id = id
        /\ document[i].fields.rev = rev /\ document[k].fields.rev = rev
    BY <1>3, <2>1 DEF SchemaAt, SchemasBefore
  <2>3. /\ document[i].fields \in SchemaFields
        /\ document[k].fields \in SchemaFields
    BY <2>2, DocumentRecords DEF FieldsFit
  <2>4. document[i].fields = document[k].fields
    BY <2>2, <2>3 DEF SchemaFields
  <2>5. document[i].payload = document[k].payload
    BY <2>2, <2>4 DEF SchemasAgree
  <2> QED
    BY <2>1, <2>5 DEF LayoutOf
<1> QED
  BY <1>2, <1>3 DEF SchemaSeen

LEMMA LastItemTells ==
  ASSUME PairInv, ItemsIncrease, NEW f, f.first \in Nat
  PROVE  ItemIndexGrows(f)
           <=> \A i \in ItemsBefore(document, Len(document), f.id, f.stream) :
                 document[i].fields.first < f.first
<1> DEFINE items == ItemsBefore(document, Len(document), f.id, f.stream)
<1>1. document \in Seq(Records)
  BY DEF PairInv
<1>2. EarlierItems(f.id, f.stream) = items
  BY DEF EarlierItems, ItemsBefore
<1>3. ASSUME NEW i \in items
      PROVE  /\ i \in 1 .. Len(document)
             /\ document[i].type = "BLOB"
             /\ document[i].fields.id = f.id
             /\ document[i].fields.stream = f.stream
             /\ document[i].fields.first \in Nat
  <2>1. /\ i \in 1 .. Len(document) /\ document[i].type = "BLOB"
        /\ document[i].fields.id = f.id /\ document[i].fields.stream = f.stream
    BY <1>3 DEF ItemsBefore
  <2>2. document[i].fields \in BlobFields
    BY <2>1, DocumentRecords DEF FieldsFit
  <2> QED
    BY <2>1, <2>2 DEF BlobFields
<1>4. ASSUME ItemIndexGrows(f), NEW i \in items
      PROVE  document[i].fields.first < f.first
  <2>1. PICK last \in items : \A j \in items : j <= last
    BY <1>1, <1>2, <1>4, FoundItem
  <2>2. document[last].fields.first < f.first
    BY <1>2, <1>4, <2>1 DEF ItemIndexGrows
  <2>3. i = last \/ i < last
    BY <1>3, <1>4, <2>1
  <2>4. i < last => document[i].fields.first < document[last].fields.first
    BY <1>3, <1>4, <2>1 DEF ItemsIncrease
  <2>5. /\ document[i].fields.first \in Nat
        /\ document[last].fields.first \in Nat
    BY <1>3, <1>4, <2>1
  <2> QED
    BY <2>2, <2>3, <2>4, <2>5
<1>5. (\A i \in items : document[i].fields.first < f.first)
        => ItemIndexGrows(f)
  BY <1>2 DEF ItemIndexGrows
<1> QED
  BY <1>4, <1>5

(***************************************************************************)
(* parse_known_record accepts what both take, given libzstd, unless the    *)
(* sample indexes wrap.                                                    *)
(***************************************************************************)
LEMMA DecoderTakes ==
  ASSUME PairInv, SchemasAgree, ItemsIncrease, ReaderHasZstd,
         NEW r, Typed(r)
  PROVE  ParseRecord(r.type, r.fields, r.payload) = "OK"
           <=> /\ Takes(document, Len(document), r)
               /\ TakesInC(document, Len(document), r)
<1> DEFINE f == r.fields
           n == Len(document)
           schemas == SchemasBefore(document, n, f.id, f.rev)
<1>1. /\ SchemaSeen(f.id, f.rev) <=> schemas # {}
      /\ \A i \in schemas : LayoutOf(document[i]) = LayoutFor(f.id, f.rev)
  BY LastSchemaTells
<1>2. /\ Len(r.payload) \in Nat /\ MaxUtf8 \in Nat /\ MaxDecoded \in Nat
      /\ "OK" # "FORMAT" /\ "OK" # "LIMIT"
      /\ r.type # "DATA" => TakesInC(document, Len(document), r)
  BY DecoderAssumption DEF Typed, TakesInC, SamplesAreRead
<1>3. CASE r.type = "SCMA"
  <2>1. ParseSchema(f, r.payload) = "OK" <=> TakesSchema(document, n, r)
    BY <1>1, <1>2 DEF ParseSchema, TakesSchema, LawfulSchema, LayoutOf
  <2> QED
    BY <1>2, <1>3, <2>1 DEF ParseRecord, Takes
<1>4. ASSUME r.type \in {"DATA", "BLOB"}
      PROVE  f.decoded \in Nat
  BY <1>4 DEF Typed, DataFields, BlobFields
<1>5. CASE r.type = "DATA"
  <2>1. ~(f.decoded > MaxDecoded) <=> f.decoded <= MaxDecoded
    BY <1>2, <1>4, <1>5
  <2>2. DataMatchesSchema(f)
          <=> /\ HoldsData(LayoutFor(f.id, f.rev), f.stream, f.mode)
              /\ f.decoded = ExpectedSize(LayoutFor(f.id, f.rev), f.stream,
                                          f.count, f.stamps)
    BY DEF DataMatchesSchema
  <2>3. ParseData(f, r.payload) = "OK"
          <=> /\ Numbered(f)
              /\ f.decoded <= MaxDecoded
              /\ TimesAgree(f.mode, f.stamps, f.count)
              /\ SchemaSeen(f.id, f.rev) =>
                   /\ DataMatchesSchema(f)
                   /\ DecodedSize(f.profile, r.payload) = f.decoded
                   /\ ~IndexesWrap(f)
                   /\ SamplesInOrder(LayoutFor(f.id, f.rev), f, r.payload)
    BY <1>2, <2>1, Zenon DEF ParseData, Numbered
  <2>4. TakesData(document, n, r)
          <=> /\ Numbered(f)
              /\ f.decoded <= MaxDecoded
              /\ TimesAgree(f.mode, f.stamps, f.count)
              /\ schemas # {} =>
                   /\ HoldsData(LayoutFor(f.id, f.rev), f.stream, f.mode)
                   /\ f.decoded = ExpectedSize(LayoutFor(f.id, f.rev), f.stream,
                                               f.count, f.stamps)
                   /\ DecodedSize(f.profile, r.payload) = f.decoded
                   /\ SamplesInOrder(LayoutFor(f.id, f.rev), f, r.payload)
    BY <1>1 DEF TakesData
  <2>5. TakesInC(document, n, r) <=> (schemas # {} => ~IndexesWrap(f))
    BY <1>5 DEF TakesInC, SamplesAreRead
  <2>6. ParseData(f, r.payload) = "OK"
          <=> TakesData(document, n, r) /\ TakesInC(document, n, r)
    BY <1>1, <2>2, <2>3, <2>4, <2>5
  <2> QED
    BY <1>5, <2>6 DEF ParseRecord, Takes
<1>6. CASE r.type = "TEXT"
  <2>1. ~(Len(r.payload) > MaxUtf8) <=> Len(r.payload) <= MaxUtf8
    BY <1>2
  <2>2. ParseText(f, r.payload) = "OK"
          <=> /\ ~(Len(r.payload) > MaxUtf8)
              /\ \/ f.id = 0 /\ f.rev = 0 /\ f.stream = 0
                 \/ /\ Numbered(f)
                    /\ SchemaSeen(f.id, f.rev) =>
                         KindOf(LayoutFor(f.id, f.rev), f.stream) = "text"
    BY <1>2, Zenon DEF ParseText, Numbered
  <2>3. TakesText(document, n, r)
          <=> /\ Len(r.payload) <= MaxUtf8
              /\ \/ f.id = 0 /\ f.rev = 0 /\ f.stream = 0
                 \/ /\ Numbered(f)
                    /\ schemas # {} =>
                         KindOf(LayoutFor(f.id, f.rev), f.stream) = "text"
    BY <1>1 DEF TakesText
  <2>4. ParseText(f, r.payload) = "OK" <=> TakesText(document, n, r)
    BY <1>1, <2>1, <2>2, <2>3
  <2> QED
    BY <1>2, <1>6, <2>4 DEF ParseRecord, Takes
<1>7. CASE r.type = "BLOB"
  <2>1. ~(f.decoded > MaxDecoded) <=> f.decoded <= MaxDecoded
    BY <1>2, <1>4, <1>7
  <2>2. f.first \in Nat
    BY <1>7 DEF Typed, BlobFields
  <2>3. ParseBlob(f, r.payload) = "OK"
          <=> /\ Numbered(f)
              /\ ~(f.decoded > MaxDecoded)
              /\ f.profile \in {"none", "zstd"}
              /\ ItemIndexGrows(f)
              /\ SchemaSeen(f.id, f.rev) =>
                   KindOf(LayoutFor(f.id, f.rev), f.stream) = "blob"
              /\ DecodedSize(f.profile, r.payload) = f.decoded
    BY <1>2, Zenon DEF ParseBlob, Numbered
  <2>4. TakesItem(document, n, r)
          <=> /\ Numbered(f)
              /\ f.decoded <= MaxDecoded
              /\ f.profile \in {"none", "zstd"}
              /\ ItemIndexGrows(f)
              /\ schemas # {} =>
                   KindOf(LayoutFor(f.id, f.rev), f.stream) = "blob"
              /\ DecodedSize(f.profile, r.payload) = f.decoded
    BY <1>1, <2>2, LastItemTells DEF TakesItem
  <2>5. ParseBlob(f, r.payload) = "OK" <=> TakesItem(document, n, r)
    BY <1>1, <2>1, <2>3, <2>4
  <2> QED
    BY <1>2, <1>7, <2>5 DEF ParseRecord, Takes
<1>8. CASE r.type = "INDX"
  <2>1. ASSUME NEW e
        PROVE  EntryMatches(e) <=> TrueEntry(document, n, e)
    BY DEF EntryMatches, TrueEntry, RecordsAt
  <2>2. ParseIndex(r.payload) = "OK"
          <=> \A k \in 1 .. Len(r.payload) : TrueEntry(document, n, r.payload[k])
    BY <1>2, <2>1 DEF ParseIndex
  <2> QED
    BY <1>2, <1>8, <2>2 DEF ParseRecord, Takes
<1>9. CASE r.type = "END!"
  <2>1. ParseEnd(f, r.payload) = "OK" <=> LawfulEnd(document, n, r)
    BY <1>2 DEF ParseEnd, LawfulEnd, DatasBefore, RecordsAt
  <2> QED
    BY <1>2, <1>9, <2>1 DEF ParseRecord, Takes
<1>10. CASE r.type = "NOTE"
  <2>1. ~(Len(r.payload) > MaxUtf8) <=> Len(r.payload) <= MaxUtf8
    BY <1>2
  <2> QED
    BY <1>2, <1>10, <2>1 DEF ParseRecord, Takes
<1>11. CASE r.type = "PRIV"
  BY <1>2, <1>11 DEF ParseRecord, Takes
<1> QED
  BY <1>3, <1>5, <1>6, <1>7, <1>8, <1>9, <1>10, <1>11 DEF Typed, RecordTypes

(***************************************************************************)
(* ParseRecord of the .NET library does, from its dictionaries, unless a   *)
(* count of ticks is beyond a long.                                        *)
(***************************************************************************)
LEMMA ReaderTakes ==
  ASSUME yielded \in Seq(Records), DictionariesAgree, SameSetting,
         \A i \in 1 .. Len(yielded) : FieldsFit(yielded[i]),
         NEW r, Typed(r)
  PROVE  Accepts(r.type, r.fields, r.payload)
           <=> /\ Takes(yielded, Len(yielded), r)
               /\ TakesInNet(yielded, Len(yielded), r)
<1> DEFINE f == r.fields
           n == Len(yielded)
           schemas == SchemasBefore(yielded, n, f.id, f.rev)
<1>1. {s.layout : s \in Known(f.id, f.rev)} = {LayoutOf(yielded[i]) : i \in schemas}
  <2>1. ASSUME NEW s \in Known(f.id, f.rev)
        PROVE  \E i \in schemas : LayoutOf(yielded[i]) = s.layout
    BY DEF Known, DictionariesAgree
  <2>2. ASSUME NEW i \in schemas
        PROVE  \E s \in Known(f.id, f.rev) : LayoutOf(yielded[i]) = s.layout
    BY DEF SchemasBefore, DictionariesAgree
  <2> QED
    BY <2>1, <2>2
<1>2. /\ \A s \in Known(f.id, f.rev) :
           \E i \in schemas : LayoutOf(yielded[i]) = s.layout
      /\ \A i \in schemas :
           \E s \in Known(f.id, f.rev) : LayoutOf(yielded[i]) = s.layout
  BY <1>1
<1>3. /\ MaxDecoded = MaxDecodedSize /\ MaxUtf8 = MaxUtf8Bytes
      /\ ReaderFindsZstd
      /\ r.type # "DATA" => TakesInNet(yielded, n, r)
  BY DEF SameSetting, TakesInNet, SamplesAreRead
<1>4. CASE r.type = "SCMA"
  <2>1. AcceptsSchema(f, r.payload) <=> TakesSchema(yielded, n, r)
    BY <1>2 DEF AcceptsSchema, TakesSchema, LawfulSchema, LayoutOf
  <2> QED
    BY <1>3, <1>4, <2>1 DEF Accepts, Takes
<1>5. Decodes(f, r.payload) <=> DecodedSize(f.profile, r.payload) = f.decoded
  BY <1>3 DEF Decodes
<1>6. CASE r.type = "DATA"
  <2>1. Known(f.id, f.rev) # {} <=> schemas # {}
    BY <1>2
  <2>2. TakesInNet(yielded, n, r) <=> (schemas # {} => ~TimesDistant(f))
    BY <1>6 DEF TakesInNet, SamplesAreRead
  <2> DEFINE Suits(l) == /\ HoldsData(l, f.stream, f.mode)
                         /\ f.decoded = ExpectedSize(l, f.stream, f.count, f.stamps)
                         /\ Decodes(f, r.payload)
                         /\ SamplesInOrder(l, f, r.payload)
  <2>3. AcceptsData(f, r.payload)
          <=> /\ Numbered(f)
              /\ f.decoded <= MaxDecoded
              /\ TimesAgree(f.mode, f.stamps, f.count)
              /\ \A s \in Known(f.id, f.rev) : Suits(s.layout)
              /\ Known(f.id, f.rev) # {} => ~TimesDistant(f)
    BY <1>3 DEF AcceptsData, Numbered
  <2>4. TakesData(yielded, n, r)
          <=> /\ Numbered(f)
              /\ f.decoded <= MaxDecoded
              /\ TimesAgree(f.mode, f.stamps, f.count)
              /\ \A i \in schemas : Suits(LayoutOf(yielded[i]))
    BY <1>5 DEF TakesData
  <2> HIDE DEF Suits
  <2>5. (\A s \in Known(f.id, f.rev) : Suits(s.layout))
          <=> (\A i \in schemas : Suits(LayoutOf(yielded[i])))
    BY <1>2
  <2>6. AcceptsData(f, r.payload)
          <=> TakesData(yielded, n, r) /\ TakesInNet(yielded, n, r)
    BY <2>1, <2>2, <2>3, <2>4, <2>5
  <2> QED
    BY <1>6, <2>6 DEF Accepts, Takes
<1>7. ASSUME NEW kind
      PROVE  StreamAgrees(f.id, f.rev, f.stream, {kind})
               <=> \A i \in schemas :
                     KindOf(LayoutOf(yielded[i]), f.stream) = kind
  BY <1>2 DEF StreamAgrees
<1>8. CASE r.type = "TEXT"
  <2>1. AcceptsText(f, r.payload) <=> TakesText(yielded, n, r)
    BY <1>3, <1>7 DEF AcceptsText, TakesText, Numbered
  <2> QED
    BY <1>3, <1>8, <2>1 DEF Accepts, Takes
<1>9. CASE r.type = "BLOB"
  <2> DEFINE items == ItemsBefore(yielded, n, f.id, f.stream)
  <2>1. f.first \in Nat
    BY <1>9 DEF Typed, BlobFields
  <2>2. ASSUME NEW i \in 1 .. n, yielded[i].type = "BLOB"
        PROVE  yielded[i].fields.first \in Nat
    BY <2>2 DEF FieldsFit, BlobFields
  <2>3. ASSUME NEW x \in ItemsRead(f.id, f.stream)
        PROVE  \E i \in items : yielded[i].fields.first = x.index
    BY DEF ItemsRead, DictionariesAgree
  <2>4. ASSUME NEW i \in items
        PROVE  /\ yielded[i].fields.first \in Nat
               /\ \E x \in ItemsRead(f.id, f.stream) :
                    x.index \in Nat /\ yielded[i].fields.first <= x.index
    <3>1. /\ i \in 1 .. n /\ yielded[i].type = "BLOB"
          /\ yielded[i].fields.id = f.id /\ yielded[i].fields.stream = f.stream
      BY DEF ItemsBefore
    <3>2. PICK x \in ItemsRead(f.id, f.stream) : yielded[i].fields.first <= x.index
      BY <3>1 DEF DictionariesAgree
    <3>3. x.index \in Nat
      BY <2>2, <2>3 DEF ItemsBefore
    <3> QED
      BY <2>2, <3>1, <3>2, <3>3
  <2>5. (\A x \in ItemsRead(f.id, f.stream) : x.index < f.first)
          <=> \A i \in items : yielded[i].fields.first < f.first
    <3>1. ASSUME \A x \in ItemsRead(f.id, f.stream) : x.index < f.first,
                 NEW i \in items
          PROVE  yielded[i].fields.first < f.first
      <4>1. PICK x \in ItemsRead(f.id, f.stream) :
              x.index \in Nat /\ yielded[i].fields.first <= x.index
        BY <2>4, <3>1
      <4>2. x.index < f.first /\ yielded[i].fields.first \in Nat
        BY <2>4, <3>1
      <4> QED
        BY <2>1, <4>1, <4>2
    <3> QED
      BY <2>3, <3>1
  <2>6. AcceptsItem(f) /\ Decodes(f, r.payload) <=> TakesItem(yielded, n, r)
    BY <1>3, <1>5, <1>7, <2>5 DEF AcceptsItem, TakesItem, Numbered
  <2> QED
    BY <1>3, <1>9, <2>6 DEF Accepts, Takes
<1>10. CASE r.type = "INDX"
  <2>1. ASSUME NEW e
        PROVE  AcceptsEntry(e) <=> TrueEntry(yielded, n, e)
    BY DEF AcceptsEntry, TrueEntry, YieldedAt
  <2> QED
    BY <1>3, <1>10, <2>1 DEF Accepts, Takes
<1>11. CASE r.type = "END!"
  <2>1. AcceptsEnd(f, r.payload) <=> LawfulEnd(yielded, n, r)
    BY DEF AcceptsEnd, LawfulEnd, DatasBefore, DatasYielded, YieldedAt
  <2> QED
    BY <1>3, <1>11, <2>1 DEF Accepts, Takes
<1>12. CASE r.type = "NOTE"
  BY <1>3, <1>12 DEF Accepts, Takes
<1>13. CASE r.type = "PRIV"
  BY <1>3, <1>13 DEF Accepts, Takes
<1> QED
  BY <1>4, <1>6, <1>8, <1>9, <1>10, <1>11, <1>12, <1>13 DEF Typed, RecordTypes

-----------------------------------------------------------------------------
(* The C decoder's half of the comparison. *)

LEMMA RecordsAreTyped ==
  ASSUME NEW r \in Records, FieldsFit(r)
  PROVE  Typed(r)
<1>1. r.type \in RecordTypes /\ Len(r.payload) \in Nat
  BY LenProperties DEF Records
<1> QED
  BY <1>1 DEF Typed, FieldsFit

(***************************************************************************)
(* A delivered record lies in the input, cell by cell.                     *)
(***************************************************************************)
LEMMA DeliveredLies ==
  ASSUME PairInv, DeliverRecord
  PROVE  /\ RecordHere \in Records
         /\ FieldsFit(RecordHere)
         /\ RecordHere.offset = offset
         /\ offset + Total = EndOf(RecordHere)
         /\ LiesInInput(RecordHere)
<1>1. PICK r \in Records :
        /\ r = RecordHere
        /\ Len(document) + 1 \in 1 .. Len(written)
        /\ r = written[Len(document) + 1]
        /\ offset + Total = EndOf(r)
  BY DeliversNext
<1>2. FieldsFit(r)
  BY <1>1 DEF PairInv, BufferInv, EncoderInv
<1>3. /\ r.offset = offset /\ r.payload = PayloadHere
      /\ r.trailer = Says.trailer /\ r.seq = Says.seq
      /\ r.payload \in Seq(PayloadCells) /\ r.trailer \in BOOLEAN
  BY <1>1 DEF RecordHere, Records
<1>4. /\ input \in Seq(Cells) /\ ComesFromBuffer(input) /\ BufferInv
      /\ offset \in Nat
  BY DEF PairInv, ComesFromBuffer
<1>5. input[offset + 1] = HeadCell(r)
  <2>1. PICK p \in Nat : p = offset + 1
    BY <1>4
  <2>2. /\ p \in 1 .. Len(input) /\ input[p].cell = "head"
        /\ input[p].crc = Crc32c(input[p].is)
    BY <2>1, AcceptedRecord DEF HeadHere, Says
  <2>3. input[p] = data[p]
    BY <1>4, <2>2, AcceptedHeadIsOriginal
  <2>4. data[offset + 1] = HeadCell(r)
    BY <1>1, <1>3, <1>4, WrittenCells
  <2> QED
    BY <2>1, <2>3, <2>4
<1>6. Says.size = Len(r.payload) /\ Says = HeaderContent(r)
  BY <1>5 DEF Says, HeadHere, HeadCell, HeaderContent
<1>7. PICK n \in Nat : n = Len(r.payload)
  BY <1>3, LenProperties
<1>8. SubSeq(input, offset + 2, offset + 1 + Len(r.payload)) = r.payload
  BY <1>3, <1>6 DEF PayloadHere
<1>9. r.offset + TotalSize(Len(r.payload), r.trailer) <= Len(input)
  BY <1>1, AcceptedRecord DEF EndOf
<1>10. ASSUME r.trailer
       PROVE  input[offset + 2 + Len(r.payload)] = TailCell(r)
  <2>1. PICK q \in Nat : q = offset + 2 + n
    BY <1>4
  <2>2. /\ input[q].cell = "tail" /\ input[q].seq = r.seq
        /\ input[q].crc = Crc32c(r.payload)
    <3>1. PayloadIntact
      BY AcceptedRecord
    <3>2. TrailerHere = input[q]
      BY <1>6, <1>7, <2>1 DEF TrailerHere
    <3> QED
      BY <1>3, <1>10, <3>1, <3>2 DEF PayloadIntact
  <2>3. q \in 1 .. Len(input)
    <3>1. TotalSize(n, r.trailer) = n + 2
      BY <1>3, <1>10, TotalSizes
    <3>2. q \in offset + 2 .. offset + (n + 2)
      BY <1>4, <2>1
    <3> QED
      BY <1>3, <1>6, <1>7, <3>1, <3>2, AcceptedRecord
  <2>4. input[q] \in TailCells
    BY <1>4, <2>2, <2>3, ElementOfSeq, CellKinds
  <2>5. input[q] = TailCell(r)
    BY <2>2, <2>4 DEF TailCells, TailCell
  <2> QED
    BY <1>7, <2>1, <2>5
<1>11. Len(r.payload) <= MaxPayload
  <2>1. WithinLimits
    BY AcceptedVerdict DEF DeliverRecord
  <2> QED
    BY <1>6, <2>1 DEF WithinLimits
<1> QED
  BY <1>1, <1>2, <1>3, <1>5, <1>8, <1>9, <1>10, <1>11 DEF LiesInInput

LEMMA DeliverKeepsTaken ==
  ASSUME PairInv, SchemasAgree, ItemsIncrease, ReaderHasZstd, DocumentTaken,
         DeliverRecord
  PROVE  DocumentTaken'
<1>1. document \in Seq(Records)
  BY DEF PairInv
<1>2. PICK d \in Nat : d = Len(document)
  BY <1>1, LenProperties
<1>3. PICK r \in Records :
        r = RecordHere /\ FieldsFit(r) /\ LiesInInput(r)
  BY DeliveredLies
<1>4. document' = Append(document, r) /\ input' = input
  BY <1>3 DEF DeliverRecord
<1>5. /\ Len(document') = d + 1
      /\ \A i \in 1 .. d : document'[i] = document[i]
      /\ document'[d + 1] = r
  BY <1>1, <1>2, <1>4, AppendProperties
<1>6. Takes(document, d, r)
  <2>1. /\ r.type = Says.type /\ r.fields = Says.fields
        /\ r.payload = PayloadHere
    BY <1>3 DEF RecordHere
  <2>2. ParseRecord(r.type, r.fields, r.payload) = "OK"
    BY <2>1, AcceptedVerdict DEF DeliverRecord
  <2> QED
    BY <1>2, <1>3, <2>2, DecoderTakes, RecordsAreTyped
<1>7. ASSUME NEW i \in 1 .. d + 1
      PROVE  (LiesInInput(document[i]) /\ Takes(document, i - 1, document[i]))'
  <2>1. i - 1 \in Nat /\ \A k \in 1 .. i - 1 : document[k] = document'[k]
    BY <1>5
  <2>2. PICK c : c = document'[i]
    OBVIOUS
  <2>3. LiesInInput(c) /\ Takes(document, i - 1, c)
    <3>1. CASE i \in 1 .. d
      BY <1>2, <1>5, <2>2, <3>1 DEF DocumentTaken
    <3>2. CASE i = d + 1
      <4>1. i - 1 = d /\ c = r
        BY <1>5, <2>2, <3>2
      <4> QED
        BY <1>3, <1>6, <4>1
    <3> QED
      BY <3>1, <3>2
  <2>4. Takes(document', i - 1, c)
    BY <2>1, <2>3, TakenByRecordsBefore
  <2>5. LiesInInput(document[i])'
    BY <1>4, <2>2, <2>3 DEF LiesInInput
  <2> QED
    BY <2>2, <2>4, <2>5
<1> QED
  BY <1>5, <1>7 DEF DocumentTaken

(***************************************************************************)
(* What the decoder judges depends on the input, on where it stands and on *)
(* its document only.                                                      *)
(***************************************************************************)
LEMMA JudgementStays ==
  ASSUME UNCHANGED <<input, offset, document>>
  PROVE  /\ InputExhausted' = InputExhausted /\ Verdict' = Verdict
         /\ CursorAfter(Len(document))' = CursorAfter(Len(document))
         /\ documentStatus' = documentStatus => (Starved' <=> Starved)
<1>1. /\ Marked' = Marked /\ ValidEnvelope' = ValidEnvelope
      /\ Says' = Says /\ HeadHere' = HeadHere /\ Total' = Total
      /\ Available' = Available /\ WithinLimits' = WithinLimits
      /\ PayloadHere' = PayloadHere /\ PayloadIntact' = PayloadIntact
  BY DEF Available, Marked, HeadHere, Says, ValidEnvelope, WithinLimits, Total,
         PayloadHere, PayloadIntact, TrailerHere
<1>2. ASSUME NEW type, NEW f, NEW payload
      PROVE  ParseRecord(type, f, payload)' = ParseRecord(type, f, payload)
  BY DEF ParseRecord, ParseSchema, ParseData, ParseText, ParseBlob, ParseIndex,
         ParseEnd, SchemaSeen, SchemaAt, LayoutFor, ItemIndexGrows,
         EarlierItems, EntryMatches, RecordsAt, DataMatchesSchema
<1>3. documentStatus' = documentStatus => (Starved' <=> Starved)
  BY WantedStays DEF Starved
<1> QED
  BY <1>1, <1>2, <1>3 DEF InputExhausted, Verdict, CursorAfter

(***************************************************************************)
(* A decode that stops, stops behind its records, for the reason that its  *)
(* status gives.                                                           *)
(***************************************************************************)
LEMMA DecodeStandsBehind ==
  ASSUME PairInv, StandsBehind, DecodeStep
  PROVE  StandsBehind'
<1>1. /\ documentStatus = "scanning" /\ input' = input
      /\ HasFileHeader(input) /\ offset = CursorAfter(Len(document))
  BY DEF DecodeStep, StopAtEnd, RejectRecord, DeliverRecord, DecodeOutOfMemory,
         FixedBytesOutOfMemory, StandsBehind
<1>2. CASE StopAtEnd
  <2>1. UNCHANGED <<input, offset, document>> /\ documentStatus' = "OK"
        /\ InputExhausted
    BY <1>2 DEF StopAtEnd
  <2> QED
    BY <1>1, <2>1, JudgementStays DEF StandsBehind
<1>3. CASE RejectRecord
  <2>1. UNCHANGED <<input, offset, document>> /\ documentStatus' = Verdict
        /\ ~InputExhausted /\ Verdict # "OK"
    BY <1>3 DEF RejectRecord
  <2> QED
    BY <1>1, <2>1, JudgementStays DEF StandsBehind
<1>4. CASE DeliverRecord
  <2>1. PICK r \in Records : r = RecordHere /\ offset + Total = EndOf(r)
    BY <1>4, DeliveredLies
  <2>2. /\ document' = Append(document, r) /\ offset' = EndOf(r)
        /\ documentStatus' = "scanning"
    BY <1>1, <1>4, <2>1 DEF DeliverRecord
  <2>3. CursorAfter(Len(document))' = EndOf(r)
    <3>1. document \in Seq(Records)
      BY DEF PairInv
    <3>2. /\ Len(document') # 0
          /\ document'[Len(document')] = r
      BY <2>2, <3>1, AppendProperties, LenProperties
    <3> QED
      BY <3>2 DEF CursorAfter
  <2> QED
    BY <1>1, <2>2, <2>3 DEF StandsBehind
<1>5. CASE DecodeOutOfMemory
  BY <1>5 DEF DecodeOutOfMemory, StandsBehind
<1>6. CASE FixedBytesOutOfMemory
  <2>1. UNCHANGED <<input, offset, document>> /\ documentStatus' = "FORMAT"
        /\ ~InputExhausted /\ FixedBytesWanted
    BY <1>6 DEF FixedBytesOutOfMemory
  <2>2. Starved'
    BY <2>1, WantedStays DEF Starved
  <2> QED
    BY <1>1, <2>1, <2>2, JudgementStays DEF StandsBehind
<1> QED
  BY <1>2, <1>3, <1>4, <1>5, <1>6 DEF DecodeStep

-----------------------------------------------------------------------------
(* The .NET reader's half of the comparison. *)

\* Where a .NET reader is that has not ended, beside a decoder that has.
InComparison ==
  /\ TransferInv /\ SchemasAgree /\ ItemsIncrease
  /\ ReadersInv
  /\ SameSetting /\ Compared /\ NetFollows
  /\ phase \in {"between", "payload", "trailer"}

\* What is yielded so far is a part of the document.
LEMMA PartOfDocument ==
  ASSUME ListYielded, document \in Seq(Records),
         Len(yielded) <= Len(document),
         \A i \in 1 .. Len(yielded) : yielded[i] = document[i]
  PROVE  yielded \in Seq(Records)
<1>1. PICK k \in Nat, d \in Nat : k = Len(yielded) /\ d = Len(document) /\ k <= d
  BY LenProperties DEF ListYielded
<1>2. yielded = [i \in 1 .. k |-> yielded[i]]
  BY <1>1 DEF ListYielded
<1>3. ASSUME NEW i \in 1 .. k
      PROVE  yielded[i] \in Records
  <2>1. i \in 1 .. d
    BY <1>1
  <2> QED
    BY <1>1, <2>1, ElementOfSeq
<1> DEFINE list == [i \in 1 .. k |-> yielded[i]]
<1>4. list \in [1 .. k -> Records]
  BY <1>3
<1>5. yielded \in [1 .. k -> Records]
  BY <1>2, <1>4
<1> QED
  BY <1>5, IsASeq

LEMMA ComparisonStands ==
  ASSUME InComparison
  PROVE  /\ PairInv /\ input \in Seq(Cells) /\ source = input
         /\ document \in Seq(Records) /\ yielded \in Seq(Records)
         /\ Len(yielded) <= Len(document)
         /\ \A i \in 1 .. Len(yielded) :
              yielded[i] = document[i] /\ FieldsFit(yielded[i])
         /\ place \in Nat /\ place = CursorAfter(Len(yielded))
         /\ DictionariesAgree
         /\ HasFileHeader(input)
         /\ offset = CursorAfter(Len(document))
         /\ documentStatus = "OK" => InputExhausted
         /\ documentStatus # "OK" => ~InputExhausted /\ Verdict = documentStatus
<1>1. /\ PairInv /\ ReadersInv /\ SameSetting /\ Compared /\ NetFollows
      /\ StandsBehind /\ NetInPlace /\ ListYielded
  BY DEF InComparison, TransferInv, ReadersInv, NetFollows
<1>2. /\ input \in Seq(Cells) /\ source = input /\ document \in Seq(Records)
      /\ yielded \in Seq(Records) /\ DictionariesAgree /\ HasFileHeader(input)
      /\ Len(yielded) <= Len(document)
      /\ \A i \in 1 .. Len(yielded) : yielded[i] = document[i]
  BY <1>1, PartOfDocument
     DEF PairInv, ComesFromBuffer, ReadersInv, NetFollows, NetInPlace
<1>3. PICK k \in Nat, d \in Nat : k = Len(yielded) /\ d = Len(document) /\ k <= d
  BY <1>2, LenProperties
<1>4. \A i \in 1 .. Len(yielded) : FieldsFit(yielded[i])
  BY <1>1, <1>2, <1>3, DocumentRecords
<1>5. place \in Nat /\ place = CursorAfter(k)
  <2>1. place = IF yielded = <<>> THEN 1 ELSE EndOf(yielded[k])
    BY <1>1, <1>3 DEF NetInPlace
  <2>2. CASE k = 0
    <3>1. yielded = <<>>
      BY <1>2, <1>3, <2>2, EmptySeq
    <3> QED
      BY <2>1, <2>2, <3>1 DEF CursorAfter
  <2>3. CASE k # 0
    <3>1. k \in 1 .. k /\ k \in 1 .. d /\ yielded # <<>>
      BY <1>3, <2>3
    <3>2. yielded[k] = document[k] /\ document[k] \in Records
      BY <1>2, <1>3, <3>1, ElementOfSeq
    <3>3. EndOf(document[k]) \in Nat
      <4>1. /\ document[k].offset \in Nat
            /\ TotalSize(Len(document[k].payload), document[k].trailer) \in Nat
        BY <3>2, StoredType DEF Records
      <4> QED
        BY <4>1 DEF EndOf
    <3> QED
      BY <2>1, <2>3, <3>1, <3>2, <3>3 DEF CursorAfter
  <2> QED
    BY <2>2, <2>3
<1>6. /\ offset = CursorAfter(Len(document))
      /\ documentStatus = "OK" => InputExhausted
      /\ documentStatus # "OK" => ~InputExhausted /\ Verdict = documentStatus
  BY <1>1, <1>2 DEF StandsBehind, Compared
<1> QED
  BY <1>1, <1>2, <1>3, <1>4, <1>5, <1>6

(***************************************************************************)
(* No cell of these bytes is a fragment: the C encoder leaves none, and    *)
(* the medium makes none.                                                  *)
(***************************************************************************)
LEMMA NothingBroken ==
  ASSUME InComparison, NEW n
  PROVE  /\ ~Broken(n) /\ ~ReadsWrong(n)
         /\ RunsShort(n) <=> ~Has(n)
<1>1. /\ ComesFromBuffer(input) /\ CellsFit /\ source = input /\ place \in Nat
      /\ input \in Seq(Cells) /\ data \in Seq(Cells)
  BY ComparisonStands DEF InComparison, ReadersInv, PairInv, BufferInv,
     EncoderInv, EncoderTypeOK
<1>2. PICK a \in Nat, b \in Nat : a = Len(input) /\ b = Len(data) /\ a <= b
  BY <1>1, LenProperties DEF ComesFromBuffer
<1>3. ASSUME NEW p \in 1 .. a
      PROVE  input[p] # Fragment
  <2>1. data[p] # Fragment /\ Carried(input[p], data[p])
    BY <1>1, <1>2 DEF CellsFit, ComesFromBuffer
  <2>2. Fragment.cell = "fragment" /\ Junk.cell = "junk"
    BY DEF Fragment, Junk
  <2> QED
    BY <2>1, <2>2 DEF Carried
<1>4. ASSUME NEW k \in 1 .. n, Has(k), Here(k) = Fragment, k \in Nat
      PROVE  FALSE
  <2>1. place + k \in 1 .. a
    BY <1>1, <1>2, <1>4 DEF Has
  <2> QED
    BY <1>1, <1>3, <1>4, <2>1 DEF Here
<1>5. ~Broken(n)
  BY <1>4 DEF Broken
<1> QED
  BY <1>5 DEF ReadsWrong, RunsShort

(***************************************************************************)
(* A record of the document, read by the .NET library.                     *)
(***************************************************************************)
LEMMA RecordIsRead ==
  ASSUME InComparison, NEW r \in Records, r.offset = place, LiesInInput(r)
  PROVE  /\ Has(1) /\ Claims = HeaderContent(r) /\ HeaderRead
         /\ Payload = r.payload
         /\ Has(1 + Claims.size)
         /\ ~Claims.trailer => Crc32c(Payload) = Claims.pcrc
         /\ Claims.trailer => Has(2 + Claims.size) /\ TrailerFits
<1>1. source = input /\ place \in Nat /\ input \in Seq(Cells)
  BY ComparisonStands
<1>2. PICK n \in Nat, t \in Nat, a \in Nat :
        /\ n = Len(r.payload) /\ t = TotalSize(n, r.trailer) /\ a = Len(input)
        /\ r.trailer => t = n + 2
        /\ ~r.trailer => t = n + 1
  <2>1. PICK n \in Nat : n = Len(r.payload)
    BY LenProperties DEF Records
  <2>2. r.trailer \in BOOLEAN
    BY DEF Records
  <2>3. /\ TotalSize(n, r.trailer) \in Nat
        /\ r.trailer => TotalSize(n, r.trailer) = n + 2
        /\ ~r.trailer => TotalSize(n, r.trailer) = n + 1
    BY <2>2, TotalSizes
  <2> QED
    BY <1>1, <2>1, <2>3, LenProperties
<1>3. /\ place + t <= a
      /\ input[place + 1] = HeadCell(r)
      /\ SubSeq(input, place + 2, place + 1 + n) = r.payload
      /\ r.trailer => input[place + 2 + n] = TailCell(r)
      /\ n <= MaxPayload
  BY <1>2 DEF LiesInInput
<1>4. \A k \in 0 .. t : Has(k)
  BY <1>1, <1>2, <1>3 DEF Has
<1>5. Here(1) = HeadCell(r) /\ Claims = HeaderContent(r)
  BY <1>1, <1>3 DEF Here, Claims, HeadCell
<1>6. /\ Here(1).cell = "head" /\ Here(1).crc = Crc32c(Claims)
      /\ Claims.size = n /\ Claims.excess = 0 /\ Claims.trailer = r.trailer
      /\ Claims.seq = r.seq
      /\ Claims.pcrc = IF r.trailer THEN NoCrc ELSE Crc32c(r.payload)
  BY <1>2, <1>5 DEF HeadCell, HeaderContent
<1>7. Has(1) /\ Has(1 + Claims.excess) /\ Has(1 + Claims.size)
  <2>1. 1 \in 0 .. t /\ 1 + 0 = 1 /\ 1 + n \in 0 .. t
    BY <1>2
  <2> QED
    BY <1>4, <1>6, <2>1
<1>8. ValidCommon
  <2>1. 0 <= MaxHeaderExcess
    BY NetReaderAssumption
  <2> QED
    BY <1>3, <1>6, <2>1 DEF ValidCommon, InComparison, SameSetting
<1>9. Payload = r.payload
  BY <1>1, <1>3, <1>6 DEF Payload
<1>10. ASSUME r.trailer
       PROVE  Has(2 + Claims.size) /\ TrailerFits
  <2>0. t = n + 2
    BY <1>2, <1>10
  <2>1. 2 + n \in 0 .. t /\ place + (2 + n) = place + 2 + n
    BY <1>1, <2>0
  <2>2. Here(2 + Claims.size) = TailCell(r)
    BY <1>1, <1>3, <1>6, <1>10, <2>1 DEF Here
  <2> QED
    BY <1>4, <1>6, <1>9, <2>1, <2>2 DEF TrailerFits, TailCell
<1> QED
  BY <1>5, <1>6, <1>7, <1>8, <1>9, <1>10 DEF HeaderRead

(***************************************************************************)
(* The dictionaries keep agreeing when a record is accepted: a schema only *)
(* replaces an equal one, an item one with a smaller index.                *)
(***************************************************************************)
LEMMA YieldKeepsDictionaries ==
  ASSUME InComparison, NEW r \in Records, FieldsFit(r),
         r.type = Claims.type, r.fields = Claims.fields, r.payload = Payload,
         Accepts(Claims.type, Claims.fields, Payload),
         NoteSchema, NoteItem, yielded' = Append(yielded, r)
  PROVE  DictionariesAgree'
<1>1. /\ yielded \in Seq(Records) /\ DictionariesAgree
      /\ \A i \in 1 .. Len(yielded) : FieldsFit(yielded[i])
  BY ComparisonStands
<1>2. PICK k \in Nat : k = Len(yielded)
  BY <1>1, LenProperties
<1>3. /\ Len(yielded') = k + 1
      /\ \A i \in 1 .. k : yielded'[i] = yielded[i]
      /\ yielded'[k + 1] = r
  BY <1>1, <1>2, AppendProperties
<1>4. /\ k + 1 \in 1 .. k + 1
      /\ \A i \in 1 .. k : i \in 1 .. k + 1
      /\ \A i \in 1 .. k + 1 : i \in 1 .. k \/ i = k + 1
  OBVIOUS
<1>5. schemasRead' =
        IF r.type = "SCMA"
        THEN (schemasRead \ Known(r.fields.id, r.fields.rev))
               \cup {[id |-> r.fields.id, rev |-> r.fields.rev,
                      layout |-> LayoutOf(r)]}
        ELSE schemasRead
  BY DEF NoteSchema, LayoutOf
<1>6. r.type = "BLOB" => AcceptsItem(r.fields)
  BY DEF Accepts
<1>7. itemsRead' =
        IF r.type = "BLOB"
        THEN (itemsRead \ ItemsRead(r.fields.id, r.fields.stream))
               \cup {[id |-> r.fields.id, stream |-> r.fields.stream,
                      index |-> r.fields.first]}
        ELSE itemsRead
  BY <1>6, Zenon DEF NoteItem
<1>8. ASSUME NEW s \in schemasRead'
      PROVE  \E i \in SchemasBefore(yielded', k + 1, s.id, s.rev) :
               LayoutOf(yielded'[i]) = s.layout
  <2>1. CASE s \in schemasRead
    <3>1. PICK i \in SchemasBefore(yielded, k, s.id, s.rev) :
            LayoutOf(yielded[i]) = s.layout
      BY <1>1, <1>2, <2>1 DEF DictionariesAgree
    <3> QED
      BY <1>3, <1>4, <3>1 DEF SchemasBefore
  <2>2. CASE s \notin schemasRead
    <3>1. /\ r.type = "SCMA" /\ s.id = r.fields.id /\ s.rev = r.fields.rev
          /\ s.layout = LayoutOf(r)
      BY <1>5, <1>8, <2>2
    <3>2. k + 1 \in SchemasBefore(yielded', k + 1, s.id, s.rev)
      BY <1>3, <1>4, <3>1 DEF SchemasBefore
    <3> QED
      BY <1>3, <3>1, <3>2
  <2> QED
    BY <2>1, <2>2
<1>9. ASSUME NEW i \in 1 .. k + 1, yielded'[i].type = "SCMA"
      PROVE  \E s \in schemasRead' :
               /\ s.id = yielded'[i].fields.id /\ s.rev = yielded'[i].fields.rev
               /\ LayoutOf(yielded'[i]) = s.layout
  <2> DEFINE new == [id |-> r.fields.id, rev |-> r.fields.rev,
                     layout |-> LayoutOf(r)]
  <2>1. CASE i = k + 1
    <3>1. r.type = "SCMA" /\ new \in schemasRead'
      BY <1>3, <1>5, <1>9, <2>1
    <3> QED
      BY <1>3, <2>1, <3>1
  <2>2. CASE i \in 1 .. k
    <3>1. yielded'[i] = yielded[i] /\ yielded[i].type = "SCMA"
      BY <1>3, <1>9, <2>2
    <3>2. PICK s \in Known(yielded[i].fields.id, yielded[i].fields.rev) :
            LayoutOf(yielded[i]) = s.layout
      BY <1>1, <1>2, <2>2, <3>1 DEF DictionariesAgree
    <3>3. /\ s \in schemasRead
          /\ s.id = yielded[i].fields.id /\ s.rev = yielded[i].fields.rev
      BY <3>2 DEF Known
    <3>4. CASE s \in schemasRead'
      BY <3>1, <3>2, <3>3, <3>4
    <3>5. CASE s \notin schemasRead'
      <4>1. /\ r.type = "SCMA" /\ s \in Known(r.fields.id, r.fields.rev)
            /\ new \in schemasRead'
        BY <1>5, <3>3, <3>5
      <4>2. AcceptsSchema(r.fields, r.payload)
        BY <4>1 DEF Accepts
      <4>3. s.layout = LayoutOf(r)
        BY <4>1, <4>2 DEF AcceptsSchema, LayoutOf
      <4>4. s.id = r.fields.id /\ s.rev = r.fields.rev
        BY <4>1 DEF Known
      <4> QED
        BY <3>1, <3>2, <3>3, <4>1, <4>3, <4>4
    <3> QED
      BY <3>4, <3>5
  <2> QED
    BY <1>4, <2>1, <2>2
<1>10. ASSUME NEW x \in itemsRead'
       PROVE  \E i \in ItemsBefore(yielded', k + 1, x.id, x.stream) :
                yielded'[i].fields.first = x.index
  <2>1. CASE x \in itemsRead
    <3>1. PICK i \in ItemsBefore(yielded, k, x.id, x.stream) :
            yielded[i].fields.first = x.index
      BY <1>1, <1>2, <2>1 DEF DictionariesAgree
    <3> QED
      BY <1>3, <1>4, <3>1 DEF ItemsBefore
  <2>2. CASE x \notin itemsRead
    <3>1. /\ r.type = "BLOB" /\ x.id = r.fields.id
          /\ x.stream = r.fields.stream /\ x.index = r.fields.first
      BY <1>7, <1>10, <2>2
    <3>2. k + 1 \in ItemsBefore(yielded', k + 1, x.id, x.stream)
      BY <1>3, <1>4, <3>1 DEF ItemsBefore
    <3> QED
      BY <1>3, <3>1, <3>2
  <2> QED
    BY <2>1, <2>2
<1>11. ASSUME NEW i \in 1 .. k + 1, yielded'[i].type = "BLOB"
       PROVE  \E x \in itemsRead' :
                /\ x.id = yielded'[i].fields.id
                /\ x.stream = yielded'[i].fields.stream
                /\ yielded'[i].fields.first <= x.index
  <2> DEFINE new == [id |-> r.fields.id, stream |-> r.fields.stream,
                     index |-> r.fields.first]
  <2>1. r.type = "BLOB" => r.fields.first \in Nat
    BY DEF FieldsFit, BlobFields
  <2>2. CASE i = k + 1
    <3>1. r.type = "BLOB" /\ new \in itemsRead'
      BY <1>3, <1>7, <1>11, <2>2
    <3> QED
      BY <1>3, <2>1, <2>2, <3>1
  <2>3. CASE i \in 1 .. k
    <3>1. yielded'[i] = yielded[i] /\ yielded[i].type = "BLOB"
      BY <1>3, <1>11, <2>3
    <3>2. PICK x \in ItemsRead(yielded[i].fields.id, yielded[i].fields.stream) :
            yielded[i].fields.first <= x.index
      BY <1>1, <1>2, <2>3, <3>1 DEF DictionariesAgree
    <3>3. /\ x \in itemsRead
          /\ x.id = yielded[i].fields.id /\ x.stream = yielded[i].fields.stream
      BY <3>2 DEF ItemsRead
    <3>4. CASE x \in itemsRead'
      BY <3>1, <3>2, <3>3, <3>4
    <3>5. CASE x \notin itemsRead'
      <4>1. /\ r.type = "BLOB" /\ x \in ItemsRead(r.fields.id, r.fields.stream)
            /\ new \in itemsRead'
        BY <1>7, <3>3, <3>5
      <4>2. x.index < r.fields.first
        BY <1>6, <4>1 DEF AcceptsItem
      <4>3. x.id = r.fields.id /\ x.stream = r.fields.stream
        BY <4>1 DEF ItemsRead
      <4>4. x.index \in Nat /\ yielded[i].fields.first \in Nat
        <5>1. PICK m \in ItemsBefore(yielded, k, x.id, x.stream) :
                yielded[m].fields.first = x.index
          BY <1>1, <1>2, <3>3 DEF DictionariesAgree
        <5>2. m \in 1 .. k /\ yielded[m].type = "BLOB"
          BY <5>1 DEF ItemsBefore
        <5>3. FieldsFit(yielded[m]) /\ FieldsFit(yielded[i])
          BY <1>1, <1>2, <2>3, <5>2
        <5> QED
          BY <3>1, <5>1, <5>2, <5>3 DEF FieldsFit, BlobFields
      <4>5. yielded[i].fields.first <= r.fields.first
        BY <2>1, <3>2, <4>1, <4>2, <4>4
      <4> QED
        BY <3>1, <3>3, <4>1, <4>3, <4>5
    <3> QED
      BY <3>4, <3>5
  <2> QED
    BY <1>4, <2>2, <2>3
<1>12. (\A s \in schemasRead :
          \E i \in SchemasBefore(yielded, Len(yielded), s.id, s.rev) :
            LayoutOf(yielded[i]) = s.layout)'
  BY <1>3, <1>8 DEF SchemasBefore, LayoutOf
<1>13. (\A i \in 1 .. Len(yielded) :
          yielded[i].type = "SCMA" =>
            \E s \in Known(yielded[i].fields.id, yielded[i].fields.rev) :
              LayoutOf(yielded[i]) = s.layout)'
  BY <1>3, <1>9 DEF Known, LayoutOf
<1>14. (\A x \in itemsRead :
          \E i \in ItemsBefore(yielded, Len(yielded), x.id, x.stream) :
            yielded[i].fields.first = x.index)'
  BY <1>3, <1>10 DEF ItemsBefore
<1>15. (\A i \in 1 .. Len(yielded) :
          yielded[i].type = "BLOB" =>
            \E x \in ItemsRead(yielded[i].fields.id, yielded[i].fields.stream) :
              yielded[i].fields.first <= x.index)'
  BY <1>3, <1>11 DEF ItemsRead
<1> QED
  BY <1>12, <1>13, <1>14, <1>15 DEF DictionariesAgree

-----------------------------------------------------------------------------
(* A step of the .NET reader. *)

\* The cells that the header announces are there, and their checksum fits.
Whole == Has(1 + Claims.size) /\ (Claims.trailer => Has(2 + Claims.size))

Intact ==
  IF Claims.trailer THEN TrailerFits ELSE Crc32c(Payload) = Claims.pcrc

\* Why the enumeration just ends, and why it throws before ParseRecord.
StopsShort ==
  \/ ~Has(1)
  \/ Has(1) /\ ValidCommon /\ (~Has(1 + Claims.excess) \/ ~Whole)

FindsWrong ==
  Has(1) /\ (\/ ~ValidCommon
             \/ Here(1).crc # Crc32c(Claims)
             \/ Whole /\ ~Intact)

LEMMA ReaderSteps ==
  ASSUME InComparison, ReadStep
  PROVE  \/ Go("payload") /\ HeaderRead
         \/ Go("trailer") /\ HeaderRead /\ PayloadRead
         \/ End /\ StopsShort
         \/ Throw /\ FindsWrong
         \/ Yield /\ HeaderRead /\ Whole /\ Intact
<1>1. \A n : ~ReadsWrong(n) /\ (RunsShort(n) <=> ~Has(n))
  BY NothingBroken
<1>2. /\ phase \in {"payload", "trailer"} => HeaderRead
      /\ phase = "trailer" => PayloadRead
  BY DEF InComparison, ReadersInv, NetFollows, NetInPlace
<1>3. CASE ReadHeader
  <2>1. \/ ~Has(1) /\ End
        \/ Has(1) /\ ~ValidCommon /\ Throw
        \/ /\ Has(1) /\ ValidCommon
           /\ \/ ~Has(1 + Claims.excess) /\ End
              \/ /\ Has(1 + Claims.excess)
                 /\ IF Here(1).crc = Crc32c(Claims) THEN Go("payload") ELSE Throw
    BY <1>1, <1>3 DEF ReadHeader
  <2> QED
    BY <2>1 DEF HeaderRead, StopsShort, FindsWrong
<1>4. CASE ReadPayload
  <2>1. /\ HeaderRead
        /\ \/ ~Has(1 + Claims.size) /\ End
           \/ /\ Has(1 + Claims.size)
              /\ IF Claims.trailer THEN Go("trailer")
                 ELSE IF Crc32c(Payload) # Claims.pcrc THEN Throw
                 ELSE Yield
    BY <1>1, <1>2, <1>4 DEF ReadPayload
  <2>2. CASE ~Has(1 + Claims.size)
    BY <2>1, <2>2 DEF HeaderRead, StopsShort, Whole
  <2>3. CASE Has(1 + Claims.size) /\ Claims.trailer
    BY <1>1, <2>1, <2>3 DEF PayloadRead
  <2>4. CASE Has(1 + Claims.size) /\ ~Claims.trailer
    BY <2>1, <2>4 DEF HeaderRead, FindsWrong, Whole, Intact
  <2> QED
    BY <2>2, <2>3, <2>4
<1>5. CASE ReadTrailer
  <2>1. /\ HeaderRead /\ Claims.trailer /\ Has(1 + Claims.size)
        /\ \/ ~Has(2 + Claims.size) /\ End
           \/ /\ Has(2 + Claims.size)
              /\ IF TrailerFits THEN Yield ELSE Throw
    BY <1>1, <1>2, <1>5 DEF ReadTrailer, PayloadRead
  <2>2. CASE ~Has(2 + Claims.size)
    BY <2>1, <2>2 DEF HeaderRead, StopsShort, Whole
  <2>3. CASE Has(2 + Claims.size)
    BY <2>1, <2>3 DEF HeaderRead, FindsWrong, Whole, Intact
  <2> QED
    BY <2>2, <2>3
<1> QED
  BY <1>3, <1>4, <1>5 DEF ReadStep

(***************************************************************************)
(* While the document has a record that was not yielded yet, the cells     *)
(* where the reader stands are those of that record.                       *)
(***************************************************************************)
LEMMA NextOfDocument ==
  ASSUME InComparison, Len(yielded) < Len(document)
  PROVE  \E r \in Records :
           /\ r = document[Len(yielded) + 1]
           /\ FieldsFit(r) /\ r.offset = place /\ LiesInInput(r)
           /\ Takes(yielded, Len(yielded), r)
<1>1. /\ PairInv /\ document \in Seq(Records) /\ yielded \in Seq(Records)
      /\ place = CursorAfter(Len(yielded))
      /\ \A i \in 1 .. Len(yielded) : yielded[i] = document[i]
  BY ComparisonStands
<1>2. PICK k \in Nat, d \in Nat :
        k = Len(yielded) /\ d = Len(document) /\ k < d
  BY <1>1, LenProperties
<1>3. k + 1 \in 1 .. d /\ (k + 1) - 1 = k
  BY <1>2
<1>4. PICK r \in Records : r = document[k + 1] /\ FieldsFit(r)
  BY <1>1, <1>2, <1>3, DocumentRecords
<1>5. r.offset = place
  BY <1>1, <1>2, <1>3, <1>4 DEF PairInv, Chained
<1>6. LiesInInput(r) /\ Takes(document, k, r)
  <2>1. DocumentTaken
    BY DEF InComparison, ReadersInv
  <2> QED
    BY <1>2, <1>3, <1>4, <2>1 DEF DocumentTaken
<1>7. Takes(yielded, k, r)
  BY <1>1, <1>2, <1>6, TakenByRecordsBefore
<1> QED
  BY <1>2, <1>4, <1>5, <1>6, <1>7

(***************************************************************************)
(* That record is yielded, and nothing on the way to it ends or throws,    *)
(* unless a count of ticks in it is beyond a long.                         *)
(***************************************************************************)
LEMMA YieldFollows ==
  ASSUME InComparison, UNCHANGED <<transferVars, source>>,
         Len(yielded) < Len(document), Yield
  PROVE  NetFollows'
<1>1. /\ document \in Seq(Records) /\ yielded \in Seq(Records)
      /\ HasFileHeader(input) /\ DictionariesAgree /\ SameSetting
      /\ \A i \in 1 .. Len(yielded) :
           yielded[i] = document[i] /\ FieldsFit(yielded[i])
      /\ input' = input /\ document' = document
  BY ComparisonStands DEF InComparison, transferVars, decoderVars
<1>2. PICK r \in Records :
        /\ r = document[Len(yielded) + 1]
        /\ FieldsFit(r) /\ r.offset = place /\ LiesInInput(r)
        /\ Takes(yielded, Len(yielded), r)
  BY NextOfDocument
<1>3. PICK k \in Nat, d \in Nat :
        k = Len(yielded) /\ d = Len(document) /\ k < d
  BY <1>1, LenProperties
<1>4. Claims = HeaderContent(r) /\ Payload = r.payload
  BY <1>2, RecordIsRead
<1>5. /\ Claims.type = r.type /\ Claims.fields = r.fields
      /\ Claims.trailer = r.trailer /\ Claims.seq = r.seq
      /\ Claims.size = Len(r.payload)
  BY <1>4 DEF HeaderContent
<1>6. CASE ~TakesInNet(yielded, Len(yielded), r)
  <2>1. r.type = "DATA" /\ TimesDistant(r.fields)
    BY <1>6 DEF TakesInNet, SamplesAreRead
  <2>2. ~Accepts(Claims.type, Claims.fields, Payload)
    <3>1. ~Accepts(r.type, r.fields, r.payload)
      BY <1>1, <1>2, <1>6, RecordsAreTyped, ReaderTakes
    <3> QED
      BY <1>4, <1>5, <3>1
  <2>3. phase' = "failed" /\ yielded' = yielded
    BY <2>2 DEF Yield
  <2>4. NetShort'
    BY <1>1, <1>2, <1>3, <2>1, <2>3 DEF NetShort, Begins
  <2>5. yielded' # document' /\ Len(yielded') <= Len(document')
    BY <1>1, <1>3, <2>3
  <2> QED
    BY <1>1, <2>3, <2>4, <2>5 DEF NetFollows
<1>7. ASSUME TakesInNet(yielded, Len(yielded), r)
      PROVE  NetFollows'
  <2>1. Accepts(Claims.type, Claims.fields, Payload)
    <3>1. Accepts(r.type, r.fields, r.payload)
      BY <1>1, <1>2, <1>7, RecordsAreTyped, ReaderTakes
    <3> QED
      BY <1>4, <1>5, <3>1
  <2>2. /\ NoteSchema /\ NoteItem /\ phase' = "between"
        /\ place' = place + TotalSize(Claims.size, Claims.trailer)
        /\ yielded' =
             Append(yielded,
               [type |-> Claims.type, trailer |-> Claims.trailer,
                seq |-> Claims.seq, offset |-> place, fields |-> Claims.fields,
                payload |-> Payload])
    BY <2>1 DEF Yield
  <2>3. r = [type |-> Claims.type, trailer |-> Claims.trailer,
             seq |-> Claims.seq, offset |-> place, fields |-> Claims.fields,
             payload |-> Payload]
    BY <1>2, <1>4, <1>5 DEF Records
  <2>4. place' = EndOf(r) /\ yielded' = Append(yielded, r)
    BY <1>2, <1>5, <2>2, <2>3 DEF EndOf
  <2>5. /\ Len(yielded') = k + 1
        /\ \A i \in 1 .. k : yielded'[i] = yielded[i]
        /\ yielded'[k + 1] = r
    BY <1>1, <1>3, <2>4, AppendProperties
  <2>6. DictionariesAgree'
    BY <1>2, <1>4, <1>5, <2>1, <2>2, <2>4, YieldKeepsDictionaries
  <2>7. NetInPlace'
    <3>1. yielded' # <<>>
      BY <1>3, <2>5
    <3>2. yielded'[Len(yielded')] = r
      BY <2>5
    <3> QED
      BY <1>1, <2>2, <2>4, <2>6, <3>1, <3>2 DEF NetInPlace, HasFileHeader
  <2>8. /\ Len(yielded') <= Len(document')
        /\ \A i \in 1 .. Len(yielded') : yielded'[i] = document'[i]
    <3>1. \A i \in 1 .. k + 1 : i \in 1 .. k \/ i = k + 1
      OBVIOUS
    <3> QED
      BY <1>1, <1>2, <1>3, <2>5, <3>1
  <2> QED
    BY <2>2, <2>7, <2>8 DEF NetFollows
<1> QED
  BY <1>6, <1>7

(***************************************************************************)
(* Reading on within a record.                                             *)
(***************************************************************************)
LEMMA GoingOnFollows ==
  ASSUME InComparison, UNCHANGED <<transferVars, source>>,
         \/ Go("payload") /\ HeaderRead
         \/ Go("trailer") /\ HeaderRead /\ PayloadRead
  PROVE  NetFollows'
<1>1. /\ NetFollows /\ NetInPlace
  BY DEF InComparison, ReadersInv, NetFollows
<1>2. /\ phase' \in {"payload", "trailer"}
      /\ UNCHANGED <<place, schemasRead, itemsRead, yielded, source, input,
                     document, documentStatus>>
      /\ HeaderRead /\ (phase' = "trailer" => PayloadRead)
  BY DEF Go, transferVars, decoderVars
<1>3. DictionariesAgree'
  BY <1>1, <1>2 DEF NetInPlace, DictionariesAgree, Known, ItemsRead
<1>4. HeaderRead' /\ (phase' = "trailer" => PayloadRead')
  BY <1>2 DEF HeaderRead, PayloadRead, RunsShort, Broken, Has, Here, Claims,
              ValidCommon
<1>5. NetInPlace'
  BY <1>1, <1>2, <1>3, <1>4 DEF NetInPlace, HasFileHeader
<1> QED
  BY <1>1, <1>2, <1>5 DEF NetFollows

-----------------------------------------------------------------------------
(* Behind the last record of the document. *)

LEMMA BothAtTheEnd ==
  ASSUME InComparison, Len(yielded) = Len(document)
  PROVE  /\ yielded = document /\ place = offset /\ source = input
         /\ input \in Seq(Cells) /\ offset \in Nat /\ offset <= Len(input)
<1>1. /\ PairInv /\ document \in Seq(Records) /\ yielded \in Seq(Records)
      /\ \A i \in 1 .. Len(yielded) : yielded[i] = document[i]
      /\ input \in Seq(Cells) /\ source = input /\ HasFileHeader(input)
      /\ place \in Nat /\ place = CursorAfter(Len(document))
      /\ offset = CursorAfter(Len(document))
  BY ComparisonStands
<1>2. yielded = document
  BY <1>1, SeqEqual
<1>3. PICK d \in Nat, len \in Nat : d = Len(document) /\ len = Len(input)
  BY <1>1, LenProperties
<1>4. CASE d = 0
  <2>1. offset = 1
    BY <1>1, <1>3, <1>4 DEF CursorAfter
  <2>2. len # 0
    BY <1>1, <1>3, EmptySeq DEF HasFileHeader
  <2> QED
    BY <1>1, <1>2, <1>3, <2>1, <2>2
<1>5. CASE d # 0
  <2>1. d \in 1 .. d
    BY <1>3, <1>5
  <2>2. DocumentTaken
    BY DEF InComparison, ReadersInv
  <2>3. EndOf(document[d]) <= Len(input)
    BY <1>3, <2>1, <2>2 DEF DocumentTaken, LiesInInput, EndOf
  <2>4. offset = EndOf(document[d])
    BY <1>1, <1>3, <1>5 DEF CursorAfter
  <2> QED
    BY <1>1, <1>2, <2>3, <2>4
<1> QED
  BY <1>4, <1>5

(***************************************************************************)
(* The two look at the same cells, the decoder at the whole extent of the  *)
(* record first and the reader at one part after the other.                *)
(***************************************************************************)
LEMMA SameExtent ==
  ASSUME InComparison, Len(yielded) = Len(document), Has(1), ValidCommon
  PROVE  /\ Marked /\ ValidEnvelope /\ WithinLimits
         /\ HeadHere = Here(1) /\ Says = Claims /\ Claims \in Contents
         /\ offset + 1 \in 1 .. Len(input)
         /\ Available \in Nat /\ Available # 0 /\ Total \in Nat
         /\ ~Has(1 + Claims.excess) => Total > Available
         /\ ~Whole => Total > Available
         /\ Whole /\ Claims.excess = 0 => ~(Total > Available)
<1>1. /\ place = offset /\ source = input
      /\ input \in Seq(Cells) /\ offset \in Nat /\ offset <= Len(input)
  BY BothAtTheEnd
<1>2. PICK len \in Nat : len = Len(input)
  BY <1>1, LenProperties
<1>3. /\ Available = len - offset /\ Available \in Nat /\ Available # 0
      /\ Available > 0 /\ offset + 1 \in 1 .. len
  BY <1>1, <1>2 DEF Available, Has
<1>4. HeadHere = Here(1) /\ Says = Claims /\ Here(1).cell = "head"
  BY <1>1 DEF HeadHere, Here, Says, Claims, ValidCommon
<1>5. Marked /\ ValidEnvelope /\ WithinLimits
  BY <1>3, <1>4
     DEF Marked, HeadHere, ValidEnvelope, WithinLimits, ValidCommon,
         InComparison, SameSetting
<1>6. Claims \in Contents
  <2>1. HeadHere \in HeadCells
    BY <1>1, <1>2, <1>3, <1>4, ElementOfSeq, CellKinds DEF HeadHere
  <2> QED
    BY <1>4, <2>1 DEF Says, HeadCells
<1>7. PICK size \in Nat, trailer \in BOOLEAN, excess \in Nat :
        /\ size = Claims.size /\ trailer = Claims.trailer
        /\ excess = Claims.excess
  BY <1>6 DEF Contents
<1>8. PICK total \in Nat :
        /\ total = TotalSize(size, trailer)
        /\ trailer => total = size + 2
        /\ ~trailer => total = size + 1
  <2>1. /\ TotalSize(size, trailer) \in Nat
        /\ trailer => TotalSize(size, trailer) = size + 2
        /\ ~trailer => TotalSize(size, trailer) = size + 1
    BY TotalSizes
  <2> QED
    BY <2>1
<1>9. Total = total + excess
  BY <1>4, <1>7, <1>8 DEF Total
<1>10. /\ Has(1 + Claims.excess) <=> len >= offset + (1 + excess)
       /\ Has(1 + Claims.size) <=> len >= offset + (1 + size)
       /\ Has(2 + Claims.size) <=> len >= offset + (2 + size)
  BY <1>1, <1>2, <1>7 DEF Has
<1>11. Whole <=> len >= offset + total
  <2>1. CASE trailer
    <3>1. total = size + 2
      BY <1>8, <2>1
    <3>2. Whole <=> Has(1 + Claims.size) /\ Has(2 + Claims.size)
      BY <1>7, <2>1 DEF Whole
    <3> QED
      BY <1>1, <1>10, <3>1, <3>2
  <2>2. CASE ~trailer
    <3>1. total = size + 1
      BY <1>8, <2>2
    <3>2. Whole <=> Has(1 + Claims.size)
      BY <1>7, <2>2 DEF Whole
    <3> QED
      BY <1>1, <1>10, <3>1, <3>2
  <2> QED
    BY <2>1, <2>2
<1>12. total >= 1
  BY <1>8
<1>13. /\ total + excess \in Nat
       /\ ~(len >= offset + (1 + excess)) => total + excess > len - offset
       /\ ~(len >= offset + total) => total + excess > len - offset
       /\ len >= offset + total /\ excess = 0
            => ~(total + excess > len - offset)
  BY <1>1, <1>12
<1> QED
  BY <1>2, <1>3, <1>4, <1>5, <1>6, <1>7, <1>9, <1>10, <1>11, <1>13

(***************************************************************************)
(* Where the reader runs out of bytes, the decoder's input is exhausted.   *)
(***************************************************************************)
LEMMA ShortIsExhausted ==
  ASSUME InComparison, Len(yielded) = Len(document), StopsShort
  PROVE  documentStatus = "OK"
<1>1. InputExhausted
  <2>1. CASE ~Has(1)
    <3>1. /\ place = offset /\ source = input /\ input \in Seq(Cells)
          /\ offset \in Nat /\ offset <= Len(input)
      BY BothAtTheEnd
    <3>2. PICK len \in Nat : len = Len(input)
      BY <3>1, LenProperties
    <3>3. Available = 0
      BY <2>1, <3>1, <3>2 DEF Has, Available
    <3> QED
      BY <3>3 DEF InputExhausted
  <2>2. CASE Has(1) /\ ValidCommon /\ (~Has(1 + Claims.excess) \/ ~Whole)
    BY <2>2, SameExtent DEF InputExhausted
  <2> QED
    BY <2>1, <2>2 DEF StopsShort
<1> QED
  BY <1>1, ComparisonStands

(***************************************************************************)
(* Where the decoder's input is exhausted and unaltered, the reader finds  *)
(* nothing wrong: what is there of the last record is as it was written.   *)
(***************************************************************************)
LEMMA ExhaustedIsShort ==
  ASSUME InComparison, Len(yielded) = Len(document),
         documentStatus = "OK", damaged = {}, Has(1)
  PROVE  ValidCommon /\ Here(1).crc = Crc32c(Claims) /\ ~Whole
<1>1. /\ place = offset /\ source = input /\ input \in Seq(Cells)
      /\ offset \in Nat /\ offset <= Len(input)
  BY BothAtTheEnd
<1>2. PICK len \in Nat : len = Len(input)
  BY <1>1, LenProperties
<1>3. /\ Available # 0 /\ offset + 1 \in 1 .. len
  BY <1>1, <1>2 DEF Has, Available
<1>4. Marked /\ ValidEnvelope /\ WithinLimits /\ Total > Available
  BY <1>3, ComparisonStands DEF InputExhausted
<1>5. HeadHere = Here(1) /\ Says = Claims
  BY <1>1 DEF HeadHere, Here, Says, Claims
<1>6. ValidCommon
  BY <1>4, <1>5
     DEF Marked, HeadHere, ValidEnvelope, WithinLimits, ValidCommon,
         InComparison, SameSetting
<1>7. Here(1).crc = Crc32c(Claims) /\ Claims.excess = 0
  <2>1. /\ Undamaged /\ ComesFromBuffer(input) /\ HeadsAccounted
        /\ data \in Seq(Cells)
    BY DEF InComparison, TransferInv, PairInv, BufferInv, EncoderInv,
           EncoderTypeOK
  <2>2. input[offset + 1] = data[offset + 1]
    BY <1>2, <1>3, <2>1 DEF Undamaged
  <2>3. offset + 1 \in 1 .. Len(data)
    BY <1>2, <1>3, <2>1, LenProperties DEF ComesFromBuffer
  <2>4. HeadAt(offset + 1)
    BY <1>4, <2>2 DEF Marked, HeadAt
  <2>5. /\ data[offset + 1].crc = Crc32c(data[offset + 1].is)
        /\ data[offset + 1].is.excess = 0
    BY <2>1, <2>3, <2>4 DEF HeadsAccounted
  <2> QED
    BY <1>5, <2>2, <2>5 DEF HeadHere, Says
<1>8. ~Whole
  BY <1>4, <1>6, <1>7, SameExtent
<1> QED
  BY <1>6, <1>7, <1>8

(***************************************************************************)
(* What the decoder did not take, the reader does not take, unless it is   *)
(* for sample indexes that wrap.                                           *)
(***************************************************************************)
LEMMA MoreOnlyWhereIndexesWrap ==
  ASSUME InComparison, Len(yielded) = Len(document),
         HeaderRead, Whole, Intact,
         Accepts(Claims.type, Claims.fields, Payload)
  PROVE  /\ documentStatus = "FORMAT"
         /\ Claims.type = "DATA" /\ IndexesWrap(Claims.fields)
<1>1. /\ yielded = document /\ place = offset /\ source = input
      /\ input \in Seq(Cells) /\ offset \in Nat
  BY BothAtTheEnd
<1>2. /\ PairInv /\ DictionariesAgree /\ SameSetting /\ yielded \in Seq(Records)
      /\ \A i \in 1 .. Len(yielded) : FieldsFit(yielded[i])
      /\ SchemasAgree /\ ItemsIncrease /\ ReaderHasZstd
      /\ BufferInv /\ ComesFromBuffer(input) /\ CellsFit
      /\ documentStatus \in {"OK", "FORMAT", "LIMIT"}
      /\ Len(document) < MaxRecords
  BY ComparisonStands
     DEF InComparison, SameSetting, PairInv, ReadersInv, Compared
<1>3. /\ Marked /\ ValidEnvelope /\ WithinLimits
      /\ HeadHere = Here(1) /\ Says = Claims /\ Claims \in Contents
      /\ offset + 1 \in 1 .. Len(input)
      /\ Available \in Nat /\ Available # 0 /\ Total \in Nat
      /\ Whole /\ Claims.excess = 0 => ~(Total > Available)
      /\ HeadHere.crc = Crc32c(Says)
  BY SameExtent DEF HeaderRead
<1>4. /\ Claims.excess = 0 /\ HeadAt(offset + 1)
      /\ data[offset + 1].is = Claims /\ offset + 1 \in 1 .. Len(data)
  <2>1. /\ input[offset + 1].cell = "head"
        /\ input[offset + 1].crc = Crc32c(input[offset + 1].is)
        /\ input[offset + 1].is = Claims
    BY <1>3 DEF Marked, HeadHere, Says
  <2> QED
    BY <1>2, <1>3, <2>1, AcceptedHeadIsOriginal
<1>5. ~InputExhausted
  BY <1>3, <1>4 DEF InputExhausted
<1>6. Payload = PayloadHere
  BY <1>1, <1>3 DEF Payload, PayloadHere
<1>7. PayloadIntact
  <2>1. Claims.size \in Nat
    BY <1>3 DEF Contents
  <2>2. Here(2 + Claims.size) = TrailerHere
    <3>1. offset + (2 + Claims.size) = offset + 2 + Claims.size
      BY <1>1, <2>1
    <3> QED
      BY <1>1, <1>3, <3>1 DEF Here, TrailerHere
  <2> QED
    BY <1>3, <1>6, <2>2 DEF Intact, TrailerFits, PayloadIntact
<1>8. PICK r : r = RecordHere
  OBVIOUS
<1>9. /\ r.type = Claims.type /\ r.fields = Claims.fields
      /\ r.payload = Payload
  BY <1>3, <1>6, <1>8 DEF RecordHere
<1>10. Typed(r)
  <2>1. r.type \in RecordTypes
    BY <1>3, <1>9 DEF Contents
  <2>2. Len(r.payload) \in Nat
    <3>1. /\ offset + 2 \in Nat /\ offset + 1 + Claims.size \in Nat
          /\ offset + 1 + Claims.size <= Len(input)
      BY <1>1, <1>3, LenProperties DEF Whole, Has, Contents
    <3>2. PayloadHere \in Seq(Cells)
      BY <1>1, <1>3, <3>1, SubSeqProperties DEF PayloadHere
    <3> QED
      BY <1>6, <1>9, <3>2, LenProperties
  <2>3. /\ r.type = "DATA" => r.fields \in DataFields
        /\ r.type = "BLOB" => r.fields \in BlobFields
    BY <1>2, <1>4, <1>9 DEF CellsFit
  <2> QED
    BY <2>1, <2>2, <2>3 DEF Typed
<1>11. Takes(document, Len(document), r)
  <2>1. Accepts(r.type, r.fields, r.payload)
    BY <1>9
  <2>2. Takes(yielded, Len(yielded), r)
    BY <1>2, <1>10, <2>1, ReaderTakes
  <2> QED
    BY <1>1, <2>2
<1>12. PICK parsed : parsed = ParseRecord(r.type, r.fields, r.payload)
  OBVIOUS
<1>13. Verdict = parsed
  <2>1. Len(document) \in Nat /\ ~(Len(document) >= MaxRecords)
    BY <1>1, <1>2, LenProperties, DecoderAssumption
  <2>2. ParseRecord(Says.type, Says.fields, PayloadHere) = parsed
    BY <1>3, <1>6, <1>9, <1>12
  <2> QED
    BY <1>3, <1>7, <2>1, <2>2 DEF Verdict
<1>14. documentStatus # "OK" /\ parsed = documentStatus
  BY <1>5, <1>13, ComparisonStands
<1>15. ~TakesInC(document, Len(document), r)
  BY <1>2, <1>10, <1>11, <1>12, <1>14, DecoderTakes
<1>16. r.type = "DATA" /\ IndexesWrap(r.fields)
  BY <1>15 DEF TakesInC, SamplesAreRead
<1>17. parsed # "LIMIT"
  <2>1. r.fields.decoded <= MaxDecoded /\ Numbered(r.fields)
    BY <1>11, <1>16 DEF Takes, TakesData
  <2>2. r.fields.decoded \in Nat /\ MaxDecoded \in Nat
    BY <1>10, <1>16, DecoderAssumption DEF Typed, DataFields
  <2>3. ~(r.fields.decoded > MaxDecoded)
    BY <2>1, <2>2
  <2>4. parsed = ParseData(r.fields, r.payload)
    BY <1>12, <1>16 DEF ParseRecord
  <2>5. "LIMIT" # "OK" /\ "LIMIT" # "FORMAT"
    OBVIOUS
  <2> QED
    BY <2>3, <2>4, <2>5, Zenon DEF ParseData
<1> QED
  BY <1>2, <1>9, <1>14, <1>16, <1>17

-----------------------------------------------------------------------------
(* The .NET reader beside the C decoder. *)

(***************************************************************************)
(* Whatever is yielded is one more record of a list.                       *)
(***************************************************************************)
LEMMA ListGrows ==
  ASSUME ListYielded, NEW r, yielded' = Append(yielded, r)
  PROVE  /\ ListYielded'
         /\ Len(yielded') = Len(yielded) + 1
         /\ \A i \in 1 .. Len(yielded) : yielded'[i] = yielded[i]
         /\ yielded'[Len(yielded) + 1] = r
<1>1. PICK n \in Nat : n = Len(yielded)
  BY DEF ListYielded
<1> DEFINE some == {yielded[i] : i \in 1 .. n} \cup {r}
           list == [i \in 1 .. n |-> yielded[i]]
<1>2. list \in [1 .. n -> some] /\ r \in some
  OBVIOUS
<1>3. yielded = list
  BY <1>1 DEF ListYielded
<1> HIDE DEF some, list
<1>4. yielded \in [1 .. n -> some]
  BY <1>2, <1>3
<1>5. yielded \in Seq(some)
  BY <1>4
<1>6. /\ yielded' \in Seq(some) /\ Len(yielded') = n + 1
      /\ \A i \in 1 .. n : yielded'[i] = yielded[i]
      /\ yielded'[n + 1] = r
  BY <1>1, <1>2, <1>5, AppendProperties
<1>7. yielded' = [i \in 1 .. Len(yielded') |-> yielded'[i]]
  <2>1. yielded' \in [1 .. Len(yielded') -> some]
    BY <1>6, LenProperties
  <2> QED
    BY <2>1
<1> QED
  BY <1>1, <1>6, <1>7 DEF ListYielded

(***************************************************************************)
(* A reader that has gone on behind the document does not go back.         *)
(***************************************************************************)
LEMMA BeyondStays ==
  ASSUME NetBeyond, ListYielded, document \in Seq(Records),
         UNCHANGED <<document, documentStatus>>,
         yielded' = yielded \/ \E r : yielded' = Append(yielded, r)
  PROVE  NetBeyond'
<1>1. PICK d \in Nat, n \in Nat :
        d = Len(document) /\ n = Len(yielded) /\ d < n
  BY LenProperties DEF NetBeyond, Begins, ListYielded
<1>2. CASE yielded' = yielded
  BY <1>2 DEF NetBeyond, Begins
<1>3. CASE \E r : yielded' = Append(yielded, r)
  <2>1. Len(yielded') = n + 1 /\ \A i \in 1 .. n : yielded'[i] = yielded[i]
    BY <1>1, <1>3, ListGrows
  <2>2. /\ d < n + 1 /\ d + 1 \in 1 .. n
        /\ \A i \in 1 .. d : i \in 1 .. n
    BY <1>1
  <2> QED
    BY <1>1, <2>1, <2>2 DEF NetBeyond, Begins
<1> QED
  BY <1>2, <1>3

(***************************************************************************)
(* An enumeration that is over has yielded the document.                   *)
(***************************************************************************)
LEMMA StoppingFollows ==
  ASSUME InComparison, UNCHANGED <<transferVars, source>>,
         yielded = document, yielded' = yielded,
         phase' \in {"ended", "failed"},
         phase' = "ended" => documentStatus = "OK",
         phase' = "failed" /\ damaged = {} => documentStatus # "OK"
  PROVE  NetFollows'
<1>1. /\ NetFollows /\ document' = document
      /\ documentStatus' = documentStatus /\ damaged' = damaged
  BY DEF InComparison, ReadersInv, transferVars, decoderVars
<1> QED
  BY <1>1 DEF NetFollows

LEMMA EnumeratingFollows ==
  ASSUME InComparison, ReadStep, UNCHANGED <<transferVars, source>>
  PROVE  NetFollows' \/ NetBeyond'
<1>1. /\ document \in Seq(Records) /\ yielded \in Seq(Records)
      /\ Len(yielded) <= Len(document)
  BY ComparisonStands
<1>2. \/ Go("payload") /\ HeaderRead
      \/ Go("trailer") /\ HeaderRead /\ PayloadRead
      \/ End /\ StopsShort
      \/ Throw /\ FindsWrong
      \/ Yield /\ HeaderRead /\ Whole /\ Intact
  BY ReaderSteps
<1>3. CASE \/ Go("payload") /\ HeaderRead
           \/ Go("trailer") /\ HeaderRead /\ PayloadRead
  BY <1>3, GoingOnFollows
<1>4. CASE Len(yielded) < Len(document)
  <2>1. PICK r \in Records :
          FieldsFit(r) /\ r.offset = place /\ LiesInInput(r)
    BY <1>4, NextOfDocument
  <2>2. /\ Has(1) /\ HeaderRead /\ Whole
        /\ Claims.trailer => TrailerFits
        /\ ~Claims.trailer => Crc32c(Payload) = Claims.pcrc
    BY <2>1, RecordIsRead DEF Whole
  <2>3. ~StopsShort /\ ~FindsWrong
    BY <2>2 DEF StopsShort, FindsWrong, HeaderRead, Intact
  <2> QED
    BY <1>2, <1>3, <1>4, <2>3, YieldFollows
<1>5. CASE Len(yielded) = Len(document)
  <2>1. yielded = document
    BY <1>5, BothAtTheEnd
  <2>2. CASE End /\ StopsShort
    <3>1. phase' = "ended" /\ yielded' = yielded
      BY <2>2 DEF End
    <3>2. documentStatus = "OK"
      BY <1>5, <2>2, ShortIsExhausted
    <3> QED
      BY <2>1, <3>1, <3>2, StoppingFollows
  <2>3. CASE Throw /\ FindsWrong
    <3>1. phase' = "failed" /\ yielded' = yielded
      BY <2>3 DEF Throw
    <3>2. damaged = {} => documentStatus # "OK"
      BY <1>5, <2>3, ExhaustedIsShort DEF FindsWrong
    <3> QED
      BY <2>1, <3>1, <3>2, StoppingFollows
  <2>4. CASE /\ Yield /\ HeaderRead /\ Whole /\ Intact
             /\ ~Accepts(Claims.type, Claims.fields, Payload)
    <3>1. phase' = "failed" /\ yielded' = yielded
      BY <2>4 DEF Yield
    <3>2. damaged = {} => documentStatus # "OK"
      BY <1>5, <2>4, ExhaustedIsShort DEF HeaderRead
    <3> QED
      BY <2>1, <3>1, <3>2, StoppingFollows
  <2>5. CASE /\ Yield /\ HeaderRead /\ Whole /\ Intact
             /\ Accepts(Claims.type, Claims.fields, Payload)
    <3>1. PICK r :
            /\ r.type = Claims.type /\ r.fields = Claims.fields
            /\ yielded' = Append(yielded, r)
      BY <2>5 DEF Yield
    <3>2. /\ documentStatus = "FORMAT"
          /\ r.type = "DATA" /\ IndexesWrap(r.fields)
      BY <1>5, <2>5, <3>1, MoreOnlyWhereIndexesWrap
    <3>3. /\ Len(yielded') = Len(yielded) + 1
          /\ \A i \in 1 .. Len(yielded) : yielded'[i] = yielded[i]
          /\ yielded'[Len(yielded) + 1] = r
          /\ Len(yielded) \in Nat
      BY <3>1, ListGrows DEF InComparison, ReadersInv, ListYielded
    <3>4. document' = document /\ documentStatus' = documentStatus
      BY DEF transferVars, decoderVars
    <3> QED
      BY <2>1, <3>2, <3>3, <3>4 DEF NetBeyond, Begins
  <2> QED
    BY <1>2, <1>3, <2>2, <2>3, <2>4, <2>5
<1>6. Len(yielded) < Len(document) \/ Len(yielded) = Len(document)
  BY <1>1, LenProperties
<1> QED
  BY <1>4, <1>5, <1>6

\* What holds of the transfer to the C decoder alone, by ReadersTransfer.
ReadersContext == TransferInv /\ SchemasAgree /\ ItemsIncrease

LEMMA NothingListed ==
  ASSUME yielded' = <<>>
  PROVE  ListYielded'
<1>1. Len(<<>>) = 0 /\ 1 .. 0 = {}
  OBVIOUS
<1>2. <<>> = [i \in 1 .. 0 |-> <<>>[i]]
  OBVIOUS
<1> QED
  BY <1>1, <1>2 DEF ListYielded

LEMMA EncodingKeepsReaders ==
  ASSUME ReadersContext, ReadersInv, EncodeForBoth
  PROVE  ReadersInv'
<1>1. /\ documentStatus = "idle" /\ EncoderCall
      /\ UNCHANGED <<input, offset, document, documentStatus, source, phase,
                     place, schemasRead, itemsRead, yielded>>
  BY DEF EncodeForBoth, Encode, decoderVars, netReaderVars, readerVars
<1>2. EncoderInv
  BY DEF ReadersContext, TransferInv, PairInv, BufferInv
<1>3. CellsFit'
  BY <1>1, <1>2, CallKeepsCells DEF ReadersInv
<1>4. NoReader' /\ phase' = "closed"
  BY <1>1 DEF ReadersInv, Finished, NoReader
<1>5. (SameSetting => DocumentTaken)'
  BY <1>1 DEF ReadersInv, SameSetting, DocumentTaken, LiesInInput
<1>6. ListYielded'
  BY <1>4, NothingListed DEF NoReader
<1> QED
  BY <1>1, <1>3, <1>4, <1>5, <1>6 DEF ReadersInv, StandsBehind, Compared

LEMMA HandingKeepsReaders ==
  ASSUME ReadersContext, ReadersInv, HandToBoth
  PROVE  ReadersInv'
<1>1. /\ documentStatus = "idle" /\ HandOver /\ source' = input'
      /\ UNCHANGED <<data, phase, place, schemasRead, itemsRead, yielded>>
  BY DEF HandToBoth, HandOver, encoderVars, readerVars
<1>2. PICK bytes : Start(bytes)
  BY <1>1 DEF HandOver
<1>3. NoReader' /\ phase' = "closed"
  BY <1>1 DEF ReadersInv, Finished, NoReader
<1>4. document' = <<>> /\ Len(<<>>) = 0 /\ 1 .. 0 = {}
  BY <1>2 DEF Start
<1>5. CellsFit'
  BY <1>1 DEF ReadersInv, CellsFit, HeadAt
<1>6. DocumentTaken'
  BY <1>4 DEF DocumentTaken
<1>7. StandsBehind'
  <2>1. CursorAfter(Len(document))' = 1
    BY <1>4 DEF CursorAfter
  <2> QED
    BY <1>2, <1>4, <2>1 DEF Start, StandsBehind
<1>8. NetFollows'
  <2>1. yielded' = <<>> /\ Len(yielded') <= Len(document')
    BY <1>3, <1>4 DEF NoReader
  <2> QED
    BY <1>3, <1>4, <2>1 DEF NetFollows
<1>9. ListYielded'
  BY <1>3, NothingListed DEF NoReader
<1> QED
  BY <1>1, <1>3, <1>5, <1>6, <1>7, <1>8, <1>9 DEF ReadersInv

LEMMA DecodingKeepsReaders ==
  ASSUME ReadersContext, ReadersInv, DecodeInC
  PROVE  ReadersInv'
<1>1. /\ DecodeStep /\ documentStatus = "scanning" /\ input' = input
      /\ UNCHANGED <<data, source, phase, place, schemasRead, itemsRead,
                     yielded>>
  BY DEF DecodeInC, Decode, DecodeStep, StopAtEnd, RejectRecord,
         DeliverRecord, DecodeOutOfMemory, FixedBytesOutOfMemory, encoderVars,
         netReaderVars, readerVars
<1>2. /\ PairInv /\ PairInv'
  BY DecodeKeeps DEF DecodeInC, ReadersContext, TransferInv
<1>3. NoReader' /\ phase' = "closed"
  BY <1>1 DEF ReadersInv, Finished, NoReader
<1>4. CellsFit'
  BY <1>1 DEF ReadersInv, CellsFit, HeadAt
<1>5. StandsBehind'
  BY <1>1, <1>2, DecodeStandsBehind DEF ReadersInv
<1>6. ASSUME SameSetting
      PROVE  DocumentTaken'
  <2>1. DocumentTaken /\ ReaderHasZstd
    BY <1>6 DEF ReadersInv, SameSetting
  <2>2. CASE DeliverRecord
    BY <1>2, <2>1, <2>2, DeliverKeepsTaken DEF ReadersContext
  <2>3. CASE document' = document
    BY <1>1, <2>1, <2>3 DEF DocumentTaken, LiesInInput
  <2> QED
    BY <1>1, <2>2, <2>3
       DEF DecodeStep, StopAtEnd, RejectRecord, DecodeOutOfMemory,
           FixedBytesOutOfMemory
<1>7. (SameSetting => DocumentTaken)'
  BY <1>6 DEF SameSetting
<1>8. NetFollows'
  <2>1. document' \in Seq(Records) /\ yielded' = <<>> /\ Len(<<>>) = 0
    BY <1>2, <1>3, EmptySeq DEF PairInv, NoReader
  <2>2. Len(yielded') <= Len(document') /\ 1 .. Len(yielded') = {}
    BY <2>1, LenProperties
  <2> QED
    BY <1>3, <2>2 DEF NetFollows
<1>9. ListYielded'
  BY <1>3, NothingListed DEF NoReader
<1> QED
  BY <1>1, <1>3, <1>4, <1>5, <1>7, <1>8, <1>9 DEF ReadersInv

LEMMA StandsBehindStays ==
  ASSUME StandsBehind,
         UNCHANGED <<input, offset, document, documentStatus>>
  PROVE  StandsBehind'
BY JudgementStays DEF StandsBehind

LEMMA OpeningKeepsReaders ==
  ASSUME ReadersContext, ReadersInv, OpenInNet
  PROVE  ReadersInv'
<1>1. /\ Open /\ Finished /\ phase = "closed" /\ NoReader
      /\ UNCHANGED <<data, input, offset, document, documentStatus, damaged,
                     source, schemasRead, itemsRead, yielded>>
      /\ UNCHANGED encoderVars /\ UNCHANGED decoderVars
  BY DEF OpenInNet, Open, ReadersInv, transferVars, encoderVars, decoderVars
<1>2. /\ yielded = <<>> /\ yielded' = <<>> /\ Len(<<>>) = 0 /\ 1 .. 0 = {}
      /\ schemasRead' = {} /\ itemsRead' = {} /\ document \in Seq(Records)
  BY <1>1 DEF NoReader, ReadersContext, TransferInv, PairInv
<1>3. /\ phase' \in {"between", "failed"} /\ source = input
      /\ phase' = "between" => HasFileHeader(input) /\ place' = 1
      /\ phase' = "failed" => ~HasFileHeader(input)
  BY <1>1 DEF Open, StartsWithHeader, HasFileHeader, ReadersInv
<1>4. /\ CellsFit' /\ (SameSetting => DocumentTaken)'
      /\ Finished' /\ source' = input' /\ phase' # "closed"
  BY <1>1, <1>3
     DEF ReadersInv, CellsFit, HeadAt, SameSetting, DocumentTaken, LiesInInput,
         Finished
<1>5. StandsBehind'
  BY <1>1, StandsBehindStays DEF ReadersInv
<1>6. ASSUME Compared
      PROVE  NetFollows'
  <2>1. Len(yielded') <= Len(document') /\ 1 .. Len(yielded') = {}
    BY <1>1, <1>2, LenProperties
  <2>2. phase' = "between" => NetInPlace'
    BY <1>1, <1>2, <1>3, <2>1
       DEF NetInPlace, DictionariesAgree, HasFileHeader
  <2>3. phase' = "failed" => document = <<>> /\ documentStatus # "OK"
    BY <1>3, <1>6 DEF ReadersInv, StandsBehind, Compared
  <2> QED
    BY <1>1, <1>2, <1>3, <2>1, <2>2, <2>3 DEF NetFollows
<1>7. Compared' => Compared
  BY <1>1, JudgementStays DEF Compared
<1>8. ListYielded'
  BY <1>2, NothingListed
<1> QED
  BY <1>4, <1>5, <1>6, <1>7, <1>8 DEF ReadersInv

(***************************************************************************)
(* A step of the .NET reader disturbs nothing of the C decoder.            *)
(***************************************************************************)
LEMMA EnumeratingKeepsReaders ==
  ASSUME ReadersContext, ReadersInv, EnumerateInNet
  PROVE  ReadersInv'
<1>1. /\ ReadStep /\ UNCHANGED <<transferVars, source>>
      /\ phase \in {"between", "payload", "trailer"} /\ Finished
      /\ UNCHANGED <<data, input, offset, document, documentStatus, damaged,
                     source>>
  BY DEF EnumerateInNet, ReadStep, ReadHeader, ReadPayload, ReadTrailer,
         ReadersInv, transferVars, encoderVars, decoderVars
<1>2. phase' # "closed"
  BY <1>1 DEF ReadStep, ReadHeader, ReadPayload, ReadTrailer, End, Throw, Go,
              Yield
<1>3. /\ CellsFit' /\ (SameSetting => DocumentTaken)'
      /\ Finished' /\ source' = input'
  BY <1>1
     DEF ReadersInv, CellsFit, HeadAt, SameSetting, DocumentTaken, LiesInInput,
         Finished
<1>4. StandsBehind'
  BY <1>1, StandsBehindStays DEF ReadersInv
<1>5. yielded' = yielded \/ \E r : yielded' = Append(yielded, r)
  BY <1>1 DEF ReadStep, ReadHeader, ReadPayload, ReadTrailer, End, Throw, Go,
              Yield
<1>6. ASSUME SameSetting, Compared
      PROVE  NetFollows' \/ NetBeyond'
  <2>1. CASE NetFollows
    <3>1. InComparison
      BY <1>1, <1>6, <2>1 DEF InComparison, ReadersContext
    <3> QED
      BY <1>1, <3>1, EnumeratingFollows
  <2>2. CASE NetBeyond
    BY <1>1, <1>5, <2>2, BeyondStays
       DEF ReadersInv, ReadersContext, TransferInv, PairInv
  <2> QED
    BY <1>6, <2>1, <2>2 DEF ReadersInv
<1>7. (SameSetting /\ Compared => NetFollows \/ NetBeyond)'
  BY <1>1, <1>6, JudgementStays DEF Compared, SameSetting
<1>8. ListYielded'
  BY <1>5, ListGrows DEF ReadersInv, ListYielded
<1> QED
  BY <1>2, <1>3, <1>4, <1>7, <1>8 DEF ReadersInv

LEMMA ForgettingKeepsReaders ==
  ASSUME ReadersInv, ForgetBoth
  PROVE  ReadersInv'
<1>1. /\ input' = <<>> /\ source' = <<>> /\ document' = <<>>
      /\ documentStatus' = "idle" /\ data' = data
      /\ NoReader' /\ phase' = "closed"
  BY DEF ForgetBoth, Forget, FreeDocument, Close, NoReader, encoderVars
<1>2. CellsFit'
  BY <1>1 DEF ReadersInv, CellsFit, HeadAt
<1>3. DocumentTaken'
  <2>1. 1 .. Len(document') = {}
    BY <1>1
  <2> QED
    BY <2>1 DEF DocumentTaken
<1>4. ListYielded'
  BY <1>1, NothingListed DEF NoReader
<1> QED
  BY <1>1, <1>2, <1>3, <1>4 DEF ReadersInv, StandsBehind, Compared

LEMMA StandingStillKeepsReaders ==
  ASSUME ReadersInv, UNCHANGED readersVars
  PROVE  ReadersInv'
<1>1. /\ UNCHANGED <<data, input, offset, document, documentStatus, damaged>>
      /\ UNCHANGED <<source, phase, place, schemasRead, itemsRead, yielded>>
  BY DEF readersVars, transferVars, encoderVars, decoderVars, netReaderVars,
         readerVars
<1>2. /\ CellsFit' /\ (SameSetting => DocumentTaken)'
      /\ source' = input'
      /\ (phase = "closed" => NoReader)' /\ (phase # "closed" => Finished)'
  BY <1>1
     DEF ReadersInv, CellsFit, HeadAt, SameSetting, DocumentTaken, LiesInInput,
         Finished, NoReader
<1>3. StandsBehind'
  BY <1>1, StandsBehindStays DEF ReadersInv
<1>4. /\ NetFollows' = NetFollows /\ NetBeyond' = NetBeyond
      /\ ListYielded' = ListYielded
  BY <1>1 DEF NetFollows, NetInPlace, HasFileHeader, DictionariesAgree, Known,
              ItemsRead, HeaderRead, PayloadRead, RunsShort, Broken, Has, Here,
              Claims, ValidCommon, NetShort, NetBeyond, Begins, ListYielded
<1>5. (SameSetting /\ Compared => NetFollows \/ NetBeyond)'
  BY <1>1, <1>4, JudgementStays DEF ReadersInv, Compared, SameSetting
<1> QED
  BY <1>2, <1>3, <1>4, <1>5 DEF ReadersInv

LEMMA ReadersBegin ==
  ASSUME ReadersInit
  PROVE  ReadersInv
<1>1. /\ input = <<>> /\ source = <<>> /\ document = <<>> /\ data = <<>>
      /\ documentStatus = "idle" /\ NoReader /\ phase = "closed"
  BY DEF ReadersInit, TransferInit, NoDocument, ZeroEncoder, NoReader
<1>2. 1 .. Len(<<>>) = {}
  OBVIOUS
<1>3. ListYielded
  <2>1. yielded = <<>> /\ Len(<<>>) = 0
    BY <1>1 DEF NoReader
  <2>2. <<>> = [i \in 1 .. 0 |-> <<>>[i]]
    OBVIOUS
  <2> QED
    BY <2>1, <2>2 DEF ListYielded
<1> QED
  BY <1>1, <1>2, <1>3
     DEF ReadersInv, StandsBehind, Compared, CellsFit, DocumentTaken

(***************************************************************************)
(* The inductive invariant of the two readers.                             *)
(***************************************************************************)
THEOREM ReadersInvariant == ReadersSpec => []ReadersInv
<1>1. ReadersInit => ReadersInv
  BY ReadersBegin
<1>2. ReadersContext /\ ReadersInv /\ [ReadersNext]_readersVars => ReadersInv'
  BY EncodingKeepsReaders, HandingKeepsReaders, DecodingKeepsReaders,
     OpeningKeepsReaders, EnumeratingKeepsReaders, ForgettingKeepsReaders,
     StandingStillKeepsReaders
     DEF ReadersNext
<1>3. TransferInv /\ SchemasAgree /\ ItemsIncrease => ReadersContext
  BY DEF ReadersContext
<1> QED
  BY <1>1, <1>2, <1>3, ReadersTransfer, TransferInvariant, OneContentPerSchema,
     ItemIndexesIncrease, PTL DEF ReadersSpec

(***************************************************************************)
(* Two libraries, one content: with the same limits, and both with         *)
(* libzstd, an SdafReader yields the records of the C document, whatever   *)
(* the bytes are that were made of those of a C encoder.  Only a record    *)
(* whose sample indexes wrap, which C refuses, lets it yield more, and     *)
(* only a record with a count of ticks beyond a long, which it refuses     *)
(* itself, lets it yield less; up to that record they have the same.       *)
(***************************************************************************)
THEOREM ReadersAgreeOnRecords == ReadersSpec => []SameRecords
<1>1. ReadersInv => SameRecords
  BY DEF ReadersInv, SameRecords, Comparable, Compared, NetFollows
<1> QED
  BY <1>1, ReadersInvariant, PTL

(***************************************************************************)
(* An enumeration that just ends ends where sdaf_decode returns SDAF_OK;   *)
(* over bytes that were only cut off, SDAF_OK in turn means that the       *)
(* enumeration ends and does not throw.  Only where one of the libraries   *)
(* goes on behind samples the other refuses do they differ.                *)
(***************************************************************************)
THEOREM ReadersAgreeOnVerdict == ReadersSpec => []SameVerdict
<1>1. ASSUME ReadersInv, Comparable
      PROVE  SameVerdict
  <2>1. /\ NetFollows \/ NetBeyond
        /\ phase \in {"ended", "failed"}
    BY <1>1 DEF ReadersInv, Comparable, Compared
  <2>2. CASE NetFollows
    BY <2>1, <2>2 DEF SameVerdict, NetFollows
  <2>3. CASE NetBeyond
    <3>1. documentStatus = "FORMAT"
      BY <2>3 DEF NetBeyond
    <3> QED
      BY <2>3, <3>1 DEF SameVerdict
  <2> QED
    BY <2>1, <2>2, <2>3
<1>2. ReadersInv => SameVerdict
  BY <1>1 DEF SameVerdict
<1> QED
  BY <1>2, ReadersInvariant, PTL
=============================================================================
