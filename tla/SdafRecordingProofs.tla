------------------------ MODULE SdafRecordingProofs ------------------------
(***************************************************************************)
(* Theorems about a reader that races a recorder for one file, for every   *)
(* value of the constants: however often the file is rewritten, wherever a *)
(* save fails or the recorder dies, and whatever part of the file a read   *)
(* meets.                                                                  *)
(***************************************************************************)
EXTENDS SdafRecording, SdafPairProofs

-----------------------------------------------------------------------------
(* Beginnings of the buffer. *)

(***************************************************************************)
(* What SaveWrite leaves in the file.                                      *)
(***************************************************************************)
LEMMA SavedIsBeginning ==
  ASSUME data \in Seq(Cells), NEW n \in 0 .. Len(data)
  PROVE  SubSeq(data, 1, n) \in Seq(Cells) /\ IsBeginning(SubSeq(data, 1, n))
<1>1. Len(data) \in Nat
  BY LenProperties
<1> QED
  BY <1>1, Beginning DEF IsBeginning

(***************************************************************************)
(* The reader's copy grows by the cell of the file at its end.             *)
(***************************************************************************)
LEMMA CopyIsBeginning ==
  ASSUME data \in Seq(Cells), file \in Seq(Cells), buffer \in Seq(Cells),
         IsBeginning(file), IsBeginning(buffer), Len(buffer) < Len(file)
  PROVE  /\ Append(buffer, file[Len(buffer) + 1]) \in Seq(Cells)
         /\ IsBeginning(Append(buffer, file[Len(buffer) + 1]))
<1>1. PICK b \in Nat, f \in Nat, n \in Nat :
        b = Len(buffer) /\ f = Len(file) /\ n = Len(data)
  BY LenProperties
<1>2. b + 1 \in 1 .. f /\ f <= n
  BY <1>1 DEF IsBeginning
<1>3. PICK c \in Cells : c = file[b + 1] /\ c = data[b + 1]
  BY <1>1, <1>2, ElementOfSeq DEF IsBeginning
<1>4. /\ Append(buffer, c) \in Seq(Cells)
      /\ Len(Append(buffer, c)) = b + 1
      /\ \A p \in 1 .. b : Append(buffer, c)[p] = buffer[p]
      /\ Append(buffer, c)[b + 1] = c
  BY <1>1, AppendProperties
<1>5. \A p \in 1 .. b + 1 : Append(buffer, c)[p] = data[p]
  BY <1>1, <1>3, <1>4 DEF IsBeginning
<1> QED
  BY <1>1, <1>2, <1>3, <1>4, <1>5 DEF IsBeginning

(***************************************************************************)
(* The encoder only appends, so a beginning stays one.                     *)
(***************************************************************************)
LEMMA BeginningStays ==
  ASSUME HistoryKept, data \in Seq(Cells), NEW s \in Seq(Cells),
         IsBeginning(s)
  PROVE  /\ Len(s) <= Len(data')
         /\ \A i \in 1 .. Len(s) : s[i] = data'[i]
<1>1. Len(s) \in Nat /\ Len(data) \in Nat /\ Len(data') \in Nat
  BY LenProperties DEF HistoryKept
<1> QED
  BY <1>1 DEF HistoryKept, IsBeginning

-----------------------------------------------------------------------------
(* The steps. *)

(***************************************************************************)
(* Steps that touch neither the encoder nor the document: those of a save, *)
(* and those of a read up to its decoding.                                 *)
(***************************************************************************)
LEMMA FileStepKeeps ==
  ASSUME RecordingInv, UNCHANGED <<encoderVars, input, offset, document>>,
         file' \in Seq(Cells), IsBeginning(file'),
         buffer' \in Seq(Cells), IsBeginning(buffer'),
         documentStatus' \in {"scanning", "OK"}
           => /\ documentStatus' = documentStatus
              /\ reading' = reading /\ wanted' = wanted,
         reading' = "decoding" => reading = "decoding" /\ wanted' = wanted
  PROVE  RecordingInv'
<1>1. /\ PairInv /\ input' = input /\ document' = document
      /\ data' = data /\ written' = written
      /\ IsBeginning(input)
  BY DEF RecordingInv, BytesAreBeginnings, encoderVars
<1>2. PairInv'
  BY <1>1, StandStillKeepsPair
<1>3. BytesAreBeginnings'
  BY <1>1 DEF BytesAreBeginnings, IsBeginning
<1>4. documentStatus' = "OK" => HeldWhole(wanted)' = 1 .. Len(document')
  BY <1>1 DEF RecordingInv, HeldWhole
<1> QED
  BY <1>1, <1>2, <1>3, <1>4 DEF RecordingInv

LEMMA SaveKeeps ==
  ASSUME RecordingInv,
         SaveOpen \/ SaveWrite \/ SaveFail \/ SaveClose \/ Die
  PROVE  RecordingInv'
<1>1. /\ data \in Seq(Cells) /\ file \in Seq(Cells) /\ buffer \in Seq(Cells)
      /\ IsBeginning(file) /\ IsBeginning(buffer)
  BY DEF RecordingInv, PairInv, BufferInv, EncoderInv, EncoderTypeOK,
         BytesAreBeginnings
<1>2. /\ UNCHANGED <<encoderVars, input, offset, document>>
      /\ documentStatus' = documentStatus /\ buffer' = buffer
      /\ reading' = reading /\ wanted' = wanted
  BY DEF SaveOpen, SaveWrite, SaveFail, SaveClose, Die, decoderVars, readVars
<1>3. Len(data) \in Nat /\ Len(file) \in Nat
  BY <1>1, LenProperties
<1>4. file' \in Seq(Cells) /\ IsBeginning(file')
  <2>1. CASE file' = file
    BY <1>1, <2>1
  <2>2. CASE file' = <<>>
    <3>1. Len(<<>>) = 0 /\ <<>> \in Seq(Cells)
      OBVIOUS
    <3> QED
      BY <1>3, <2>2, <3>1 DEF IsBeginning
  <2>3. CASE SaveWrite
    <3>1. PICK n \in Len(file) + 1 .. Len(data) : file' = SubSeq(data, 1, n)
      BY <2>3 DEF SaveWrite
    <3>2. n \in 0 .. Len(data)
      BY <1>3
    <3> QED
      BY <1>1, <3>1, <3>2, SavedIsBeginning
  <2> QED
    BY <2>1, <2>2, <2>3 DEF SaveOpen, SaveFail, SaveClose, Die
<1> QED
  BY <1>1, <1>2, <1>4, FileStepKeeps

LEMMA CopyKeeps ==
  ASSUME RecordingInv,
         ReadOpen \/ ReadOpenFail \/ ReadSome \/ ReadShort
           \/ UNCHANGED recordingVars
  PROVE  RecordingInv'
<1>1. /\ data \in Seq(Cells) /\ file \in Seq(Cells) /\ buffer \in Seq(Cells)
      /\ IsBeginning(file) /\ IsBeginning(buffer)
  BY DEF RecordingInv, PairInv, BufferInv, EncoderInv, EncoderTypeOK,
         BytesAreBeginnings
<1>2. UNCHANGED <<encoderVars, input, offset, document>> /\ file' = file
  BY DEF ReadOpen, ReadOpenFail, ReadSome, ReadShort, recordingVars,
         decoderVars, fileVars
<1>3. buffer' \in Seq(Cells) /\ IsBeginning(buffer')
  <2>1. CASE ReadOpen
    <3>1. /\ buffer' = <<>> /\ Len(<<>>) = 0 /\ <<>> \in Seq(Cells)
          /\ Len(data) \in Nat
      BY <1>1, <2>1, LenProperties DEF ReadOpen
    <3> QED
      BY <3>1 DEF IsBeginning
  <2>2. CASE ReadSome
    BY <1>1, <2>2, CopyIsBeginning DEF ReadSome
  <2>3. CASE buffer' = buffer
    BY <1>1, <2>3
  <2> QED
    BY <2>1, <2>2, <2>3 DEF ReadOpenFail, ReadShort, recordingVars, readVars
<1>4. /\ documentStatus' \in {"scanning", "OK"}
           => /\ documentStatus' = documentStatus
              /\ reading' = reading /\ wanted' = wanted
      /\ reading' = "decoding" => reading = "decoding" /\ wanted' = wanted
  <2>1. CASE ReadOpen
    BY <2>1 DEF ReadOpen, decoderVars
  <2>2. CASE ReadOpenFail
    BY <2>2 DEF ReadOpenFail, readVars
  <2>3. CASE ReadSome
    BY <2>3 DEF ReadSome, decoderVars
  <2>4. CASE ReadShort
    BY <2>4 DEF ReadShort
  <2>5. CASE UNCHANGED recordingVars
    BY <2>5 DEF recordingVars, decoderVars, readVars
  <2> QED
    BY <2>1, <2>2, <2>3, <2>4, <2>5
<1> QED
  BY <1>1, <1>2, <1>3, <1>4, FileStepKeeps

LEMMA EncodeKeeps ==
  ASSUME RecordingInv, Encode
  PROVE  RecordingInv'
<1>1. /\ PairInv /\ EncoderCall /\ UNCHANGED decoderVars
      /\ data \in Seq(Cells) /\ file \in Seq(Cells) /\ buffer \in Seq(Cells)
      /\ input \in Seq(Cells)
      /\ IsBeginning(file) /\ IsBeginning(buffer) /\ IsBeginning(input)
  BY DEF RecordingInv, Encode, PairInv, BufferInv, EncoderInv,
         EncoderTypeOK, BytesAreBeginnings, ComesFromBuffer
<1>2. /\ input' = input /\ document' = document
      /\ documentStatus' = documentStatus
      /\ file' = file /\ buffer' = buffer
      /\ reading' = reading /\ wanted' = wanted
  BY DEF Encode, decoderVars, fileVars, readVars
<1>3. PairInv' /\ HistoryKept
  BY <1>1, CallKeepsPair
<1>4. BytesAreBeginnings'
  BY <1>1, <1>2, <1>3, BeginningStays DEF BytesAreBeginnings, IsBeginning
<1>5. documentStatus = "OK" => HeldWhole(wanted)' = 1 .. Len(document)
  <2> SUFFICES ASSUME documentStatus = "OK"
               PROVE  HeldWhole(wanted)' = 1 .. Len(document)
    OBVIOUS
  <2>1. wanted = Len(input) /\ HeldWhole(wanted) = 1 .. Len(document)
    BY DEF RecordingInv
  <2>2. wanted \in Nat /\ wanted <= Len(data)
    BY <1>1, <2>1, LenProperties DEF IsBeginning
  <2>3. HeldWhole(wanted)' = HeldWhole(wanted)
    <3>1. PICK n \in Nat : n = wanted
      BY <2>2
    <3>2. HeldWhole(n)' = HeldWhole(n)
      BY <1>1, <2>2, <3>1, HeldWholeStays
    <3> QED
      BY <1>2, <3>1, <3>2 DEF HeldWhole
  <2> QED
    BY <2>1, <2>3
<1> QED
  BY <1>1, <1>2, <1>3, <1>4, <1>5 DEF RecordingInv

LEMMA ReadDoneKeeps ==
  ASSUME RecordingInv, ReadDone
  PROVE  RecordingInv' /\ document' = <<>>
<1>1. /\ PairInv /\ BufferInv /\ buffer \in Seq(Cells)
      /\ IsBeginning(file) /\ IsBeginning(buffer)
      /\ encoderVars' = encoderVars /\ data' = data
      /\ file' = file /\ file \in Seq(Cells)
      /\ buffer' = buffer /\ wanted' = wanted
      /\ reading' = "decoding" /\ Len(buffer) = wanted
      /\ Start(buffer)
  BY DEF RecordingInv, ReadDone, PairInv, BytesAreBeginnings, encoderVars,
         fileVars
<1>2. ComesFromBuffer(buffer)
  BY <1>1, BeginningCarries DEF IsBeginning
<1>3. PairInv' /\ input' = buffer /\ document' = <<>>
  BY <1>1, <1>2, StartKeepsPair
<1>4. BytesAreBeginnings'
  BY <1>1, <1>3 DEF BytesAreBeginnings, IsBeginning
<1>5. documentStatus' # "OK"
  BY <1>1 DEF Start
<1> QED
  BY <1>1, <1>3, <1>4, <1>5 DEF RecordingInv

LEMMA DecodeKeeps ==
  ASSUME RecordingInv, Decode
  PROVE  RecordingInv'
<1>1. /\ PairInv /\ DecodeStep /\ UNCHANGED encoderVars
      /\ data' = data /\ written' = written
      /\ file' = file /\ buffer' = buffer /\ input' = input
      /\ reading' = "decoding" /\ reading = "decoding"
      /\ wanted' = wanted /\ wanted = Len(input)
      /\ IsBeginning(input)
  BY DEF RecordingInv, Decode, encoderVars, fileVars, readVars, DecodeStep,
         StopAtEnd, RejectRecord, DeliverRecord, DecodeOutOfMemory,
         FixedBytesOutOfMemory, BytesAreBeginnings
<1>2. PairInv'
  BY <1>1, DecodeKeepsPair
<1>3. BytesAreBeginnings'
  BY <1>1 DEF RecordingInv, BytesAreBeginnings, IsBeginning
<1>4. ASSUME documentStatus' = "OK"
      PROVE  HeldWhole(wanted)' = 1 .. Len(document')
  <2>1. StopAtEnd
    BY <1>1, <1>4
       DEF DecodeStep, RejectRecord, DeliverRecord, DecodeOutOfMemory,
           FixedBytesOutOfMemory
  <2>2. HeldWhole(Len(input)) = 1 .. Len(document)
    BY <1>1, <2>1, EndHoldsAll DEF IsBeginning
  <2>3. document' = document
    BY <2>1 DEF StopAtEnd
  <2> QED
    BY <1>1, <2>2, <2>3 DEF HeldWhole
<1> QED
  BY <1>1, <1>2, <1>3, <1>4 DEF RecordingInv

LEMMA ForgetKeeps ==
  ASSUME RecordingInv, Forget
  PROVE  RecordingInv' /\ document' = <<>>
<1>1. /\ PairInv /\ FreeDocument /\ UNCHANGED encoderVars
      /\ data' = data /\ data \in Seq(Cells)
      /\ file' = file /\ file \in Seq(Cells) /\ IsBeginning(file)
      /\ buffer' = <<>> /\ input' = <<>>
      /\ documentStatus' = "idle" /\ reading' = "closed"
  BY DEF RecordingInv, Forget, FreeDocument, encoderVars, fileVars,
         BytesAreBeginnings, PairInv, BufferInv, EncoderInv, EncoderTypeOK
<1>2. PairInv' /\ document' = <<>>
  BY <1>1, FreeKeepsPair
<1>3. /\ Len(<<>>) = 0 /\ <<>> \in Seq(Cells) /\ Len(data) \in Nat
  BY <1>1, LenProperties
<1>4. BytesAreBeginnings'
  BY <1>1, <1>3 DEF BytesAreBeginnings, IsBeginning
<1> QED
  BY <1>1, <1>2, <1>3, <1>4 DEF RecordingInv

LEMMA RecordingBegins ==
  ASSUME RecordingInit
  PROVE  RecordingInv
<1>1. PairInv
  BY PairBegins DEF RecordingInit
<1>2. /\ input = <<>> /\ data = <<>> /\ file = <<>> /\ buffer = <<>>
      /\ documentStatus = "idle" /\ reading = "closed"
  BY DEF RecordingInit, NoDocument, ZeroEncoder
<1>3. Len(<<>>) = 0 /\ <<>> \in Seq(Cells)
  OBVIOUS
<1> QED
  BY <1>1, <1>2, <1>3 DEF RecordingInv, BytesAreBeginnings, IsBeginning

(***************************************************************************)
(* The inductive invariant.                                                *)
(***************************************************************************)
THEOREM RecordingInvariant == RecordingSpec => []RecordingInv
<1>1. RecordingInit => RecordingInv
  BY RecordingBegins
<1>2. RecordingInv /\ [RecordingNext]_recordingVars => RecordingInv'
  BY EncodeKeeps, SaveKeeps, CopyKeeps, ReadDoneKeeps, DecodeKeeps,
     ForgetKeeps DEF RecordingNext, Recorder, Reader, ReadCopy
<1> QED
  BY <1>1, <1>2, PTL DEF RecordingSpec

-----------------------------------------------------------------------------
(* The theorems. *)

(***************************************************************************)
(* However saves and reads interleave, fail or are cut short, no reader    *)
(* sees bytes of different saves mixed.                                    *)
(***************************************************************************)
THEOREM NeverMixed == RecordingSpec => []BytesAreBeginnings
<1>1. RecordingInv => BytesAreBeginnings
  BY DEF RecordingInv
<1> QED
  BY <1>1, RecordingInvariant, PTL

(***************************************************************************)
(* A reader that races the recorder delivers nothing but the beginning of  *)
(* what was recorded.                                                      *)
(***************************************************************************)
THEOREM RacingReaderDeliversPrefix == RecordingSpec => []DeliveredIsPrefix
<1>1. RecordingInv => DeliveredIsPrefix
  BY DEF RecordingInv, PairInv
<1> QED
  BY <1>1, RecordingInvariant, PTL

(***************************************************************************)
(* When sdaf_decode_file returns SDAF_OK, every record that lay whole in   *)
(* the file when it was measured is in the document, whatever the recorder *)
(* did to the file in the meantime.                                        *)
(***************************************************************************)
THEOREM MeasuredRecordsArrive == RecordingSpec => []MeasuredIsDelivered
<1>1. RecordingInv => MeasuredIsDelivered
  <2> SUFFICES ASSUME RecordingInv, documentStatus = "OK"
               PROVE  Len(document) = Cardinality(HeldWhole(wanted))
    BY DEF MeasuredIsDelivered
  <2>1. HeldWhole(wanted) = 1 .. Len(document)
    BY DEF RecordingInv
  <2>2. Len(document) \in Nat
    BY LenProperties DEF RecordingInv, PairInv
  <2>3. Cardinality(1 .. Len(document)) = Len(document)
    <3>1. PICK d \in Nat : d = Len(document)
      BY <2>2
    <3>2. Cardinality(1 .. d) = d
      BY FS_Interval
    <3> QED
      BY <3>1, <3>2
  <2> QED
    BY <2>1, <2>3
<1> QED
  BY <1>1, RecordingInvariant, PTL

(***************************************************************************)
(* A recorder, a file and a reader that share nothing else implement the   *)
(* record log.                                                             *)
(***************************************************************************)
THEOREM RecordingImplementsLog == RecordingSpec => ImplementsLog
<1>1. RecordingInit => Log!LogInit
  BY DEF RecordingInit, ZeroEncoder, NoDocument, Log!LogInit
<1>2. RecordingInv /\ [RecordingNext]_recordingVars
        => [Log!LogNext]_(Log!logVars)
  <2> SUFFICES ASSUME RecordingInv, [RecordingNext]_recordingVars
               PROVE  [Log!LogNext]_(Log!logVars)
    OBVIOUS
  <2>1. CASE Encode
    BY <2>1, CallImplementsLog DEF Encode, RecordingInv
  <2>2. CASE ReadDone
    BY <2>2, ReadDoneKeeps, FreshImplementsLog DEF ReadDone
  <2>3. CASE Decode
    BY <2>3, DecodeImplementsLog DEF Decode, RecordingInv
  <2>4. CASE Forget
    BY <2>4, ForgetKeeps, FreshImplementsLog DEF Forget
  <2>5. CASE \/ SaveOpen \/ SaveWrite \/ SaveFail \/ SaveClose \/ Die
             \/ ReadOpen \/ ReadOpenFail \/ ReadSome \/ ReadShort
             \/ UNCHANGED recordingVars
    <3>1. written' = written /\ document' = document
      BY <2>5
         DEF SaveOpen, SaveWrite, SaveFail, SaveClose, Die, ReadOpen,
             ReadOpenFail, ReadSome, ReadShort, recordingVars, encoderVars,
             decoderVars
    <3> QED
      BY <3>1 DEF Log!logVars
  <2> QED
    BY <2>1, <2>2, <2>3, <2>4, <2>5
       DEF RecordingNext, Recorder, Reader, ReadCopy
<1> QED
  BY <1>1, <1>2, RecordingInvariant, PTL
     DEF RecordingSpec, ImplementsLog, Log!LogSpec

-----------------------------------------------------------------------------
(* What a racing reader calls malformed.                                   *)

(***************************************************************************)
(* The file header is found missing only in a file that was measured       *)
(* empty: a beginning of the buffer that is not empty begins with it.      *)
(***************************************************************************)
LEMMA ReadDoneMeetsHeader ==
  ASSUME RecordingInv, ReadDone
  PROVE  RaceIsNotDamage'
<1> SUFFICES ASSUME documentStatus' = "FORMAT", input' # <<>>
             PROVE  FALSE
  BY DEF RaceIsNotDamage
<1>1. /\ Start(buffer) /\ buffer \in Seq(Cells) /\ data \in Seq(Cells)
      /\ Len(buffer) <= Len(data)
      /\ \A i \in 1 .. Len(buffer) : buffer[i] = data[i]
      /\ data # <<>> => data[1] = FileHeader
  BY DEF ReadDone, RecordingInv, BytesAreBeginnings, IsBeginning, PairInv,
         BufferInv, EncoderInv, EncoderTypeOK
<1>2. input' = buffer /\ ~HasFileHeader(buffer)
  BY <1>1 DEF Start
<1>3. 1 \in 1 .. Len(buffer) /\ data # <<>>
  BY <1>1, <1>2, EmptySeq, LenProperties
<1> QED
  BY <1>1, <1>2, <1>3 DEF HasFileHeader

(***************************************************************************)
(* A record is found malformed only in a buffer with a torn record that is *)
(* not its last: otherwise the scan is at a written record, which is       *)
(* accepted, or at the end of all that was ever in the file.               *)
(***************************************************************************)
LEMMA DecodeMeetsGap ==
  ASSUME RaceInv, Decode
  PROVE  RaceIsNotDamage'
<1> SUFFICES ASSUME Careful, documentStatus' = "FORMAT"
             PROVE  ~Contiguous' \/ FixedBytesWanted'
  BY DEF RaceIsNotDamage
<1>1. /\ PairInv /\ EncoderInv /\ LawfulLog(written) /\ SoundLog(written)
      /\ IsBeginning(input)
      /\ data \in Seq(Cells) /\ input \in Seq(Cells) /\ offset \in Nat
  BY DEF RaceInv, RecordingInv, BytesAreBeginnings, CarefulLog,
         CarefulSamples, PairInv, BufferInv, EncoderInv, EncoderTypeOK, ComesFromBuffer
<1>2. RejectRecord \/ FixedBytesOutOfMemory
  BY DEF Decode, DecodeStep, StopAtEnd, DeliverRecord, DecodeOutOfMemory
<1>3. RejectRecord =>
        documentStatus = "scanning" /\ ~InputExhausted /\ Verdict = "FORMAT"
  BY DEF RejectRecord
<1>4. data' = data /\ written' = written
  BY DEF Decode, encoderVars
<1>5. ASSUME Contiguous, RejectRecord
      PROVE  FALSE
  <2>1. PICK o \in Nat, len \in Nat, all \in Nat :
          o = offset /\ len = Len(input) /\ all = Len(data)
    BY <1>1, LenProperties
  <2>2. o < len /\ len <= all
    <3>1. offset <= Len(input)
      BY <1>1, <1>3, <1>5 DEF PairInv, Chained
    <3>2. Available # 0 /\ Available = len - o
      BY <1>3, <1>5, <2>1 DEF InputExhausted, Available
    <3> QED
      BY <1>1, <2>1, <3>1, <3>2 DEF IsBeginning
  <2>3. Consecutive /\ WrittenEnd = all
    <3>1. data # <<>>
      BY <1>1, <2>1, <2>2, EmptySeq
    <3> QED
      BY <1>1, <1>5, <2>1, <3>1, ContiguousEnds
  <2>4. offset # WrittenEnd
    BY <2>1, <2>2, <2>3
  <2>5. /\ Len(document) + 1 \in 1 .. Len(written)
        /\ written[Len(document) + 1].offset = offset
    BY <1>1, <1>3, <1>5, <2>3, <2>4, CursorMeetsNext
  <2>6. \A p \in offset + 1 .. EndOf(written[Len(document) + 1]) :
          p <= Len(input) => input[p] = data[p]
    <3>1. EndOf(written[Len(document) + 1])
            \in written[Len(document) + 1].offset + 1 .. Len(data)
      BY <1>1, <2>5, WrittenCells DEF PairInv
    <3>2. PICK last \in Nat : last = EndOf(written[Len(document) + 1])
      BY <2>1, <2>5, <3>1
    <3>3. \A p \in o + 1 .. last : p <= len => p \in 1 .. len
      OBVIOUS
    <3> QED
      BY <1>1, <2>1, <3>2, <3>3 DEF IsBeginning
  <2> QED
    BY <1>1, <1>3, <1>5, <2>5, <2>6, IntactIsAccepted
<1>6. Contiguous' => Contiguous
  BY <1>4 DEF Contiguous
<1>7. FixedBytesOutOfMemory => FixedBytesWanted'
  BY WantedStays DEF FixedBytesOutOfMemory
<1> QED
  BY <1>2, <1>5, <1>6, <1>7

LEMMA RaceKeeps ==
  ASSUME RaceInv, [RecordingNext]_recordingVars
  PROVE  RaceInv'
<1>1. /\ RecordingInv /\ EncoderInv /\ CarefulLog /\ CarefulSamples
      /\ RaceIsNotDamage
  BY DEF RaceInv, RecordingInv, PairInv, BufferInv
<1>2. RecordingInv'
  BY <1>1, EncodeKeeps, SaveKeeps, CopyKeeps, ReadDoneKeeps, DecodeKeeps,
     ForgetKeeps DEF RecordingNext, Recorder, Reader, ReadCopy
<1>3. CASE Encode
  <2>1. EncoderCall /\ documentStatus' = documentStatus /\ input' = input
    BY <1>3 DEF Encode, decoderVars
  <2>2. CarefulLog' /\ CarefulSamples'
    BY <1>1, <2>1, CallKeepsCare
  <2>3. FixedBytesWanted' <=> FixedBytesWanted
    BY <1>3, WantedStays DEF Encode, decoderVars
  <2>4. RaceIsNotDamage'
    BY <1>1, <2>1, <2>3, GapStays DEF RaceIsNotDamage
  <2> QED
    BY <1>2, <2>2, <2>4 DEF RaceInv
<1>4. ASSUME UNCHANGED encoderVars, RaceIsNotDamage'
      PROVE  RaceInv'
  BY <1>1, <1>2, <1>4, RestKeepsPromises DEF RaceInv
<1>5. CASE ReadDone
  BY <1>1, <1>4, <1>5, ReadDoneMeetsHeader DEF ReadDone
<1>6. CASE Decode
  BY <1>4, <1>6, DecodeMeetsGap DEF Decode
<1>7. CASE ReadOpenFail \/ ReadShort \/ Forget
  <2>1. UNCHANGED encoderVars /\ documentStatus' # "FORMAT"
    BY <1>7 DEF ReadOpenFail, ReadShort, Forget, FreeDocument
  <2> QED
    BY <1>4, <2>1 DEF RaceIsNotDamage
<1>8. CASE \/ SaveOpen \/ SaveWrite \/ SaveFail \/ SaveClose \/ Die
           \/ ReadOpen \/ ReadSome \/ UNCHANGED recordingVars
  <2>1. UNCHANGED <<encoderVars, documentStatus, input, offset, document>>
    BY <1>8 DEF SaveOpen, SaveWrite, SaveFail, SaveClose, Die, ReadOpen,
                ReadSome, recordingVars, decoderVars
  <2>2. data' = data /\ written' = written
    BY <2>1 DEF encoderVars
  <2>3. FixedBytesWanted' <=> FixedBytesWanted
    BY <2>1, WantedStays
  <2>4. RaceIsNotDamage'
    BY <1>1, <2>1, <2>2, <2>3 DEF RaceIsNotDamage, Contiguous
  <2> QED
    BY <1>4, <2>1, <2>4
<1> QED
  BY <1>3, <1>5, <1>6, <1>7, <1>8
     DEF RecordingNext, Recorder, Reader, ReadCopy

LEMMA RaceBegins ==
  ASSUME RecordingInit
  PROVE  RaceInv
<1>1. RecordingInv
  BY RecordingBegins
<1>2. written = <<>> /\ documentStatus = "idle" /\ Len(<<>>) = 0
  BY DEF RecordingInit, ZeroEncoder, NoDocument
<1>3. CarefulLog /\ CarefulSamples
  BY <1>2 DEF CarefulLog, CarefulSamples, LawfulLog, SoundLog
<1>4. RaceIsNotDamage
  BY <1>2 DEF RaceIsNotDamage
<1> QED
  BY <1>1, <1>3, <1>4 DEF RaceInv

(***************************************************************************)
(* A careful recorder's file is never found malformed because it is being  *)
(* rewritten, was saved in part or was left behind by a recorder that      *)
(* died: only where it was measured empty, where the recorder went on      *)
(* after it ran out of memory inside a record, or where the reader had no  *)
(* memory for a fixed-bytes value.                                         *)
(***************************************************************************)
THEOREM RaceStaysHarmless == RecordingSpec => []RaceIsNotDamage
<1>1. RecordingInit => RaceInv
  BY RaceBegins
<1>2. RaceInv /\ [RecordingNext]_recordingVars => RaceInv'
  BY RaceKeeps
<1>3. RaceInv => RaceIsNotDamage
  BY DEF RaceInv
<1> QED
  BY <1>1, <1>2, <1>3, PTL DEF RecordingSpec
=============================================================================
