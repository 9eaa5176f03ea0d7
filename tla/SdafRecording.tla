--------------------------- MODULE SdafRecording ---------------------------
(***************************************************************************)
(* A recording process and a reading process that share one file.  The     *)
(* recorder encodes into memory and, whenever it likes, rewrites the file  *)
(* with sdaf_encoder_write_file; it can die at any point.  The reader may  *)
(* run sdaf_decode_file at any time, also while the file is being          *)
(* rewritten: it measures the file, reads that many bytes, and decodes.    *)
(***************************************************************************)
EXTENDS SdafPair

VARIABLES
  exists,         \* the file has been created
  file,           \* its bytes
  saving,         \* sdaf_encoder_write_file is between fopen and fclose
  saveStatus,     \* what the last save returned
  alive,          \* the recorder has not died
  reading,        \* where sdaf_decode_file is
  wanted,         \* the size ftell reported
  buffer          \* the bytes fread has copied so far

fileVars == <<exists, file, saving, saveStatus, alive>>
readVars == <<reading, wanted, buffer>>
recordingVars == <<encoderVars, decoderVars, fileVars, readVars>>

RecordingInit ==
  /\ ZeroEncoder
  /\ NoDocument
  /\ exists = FALSE
  /\ file = <<>>
  /\ saving = FALSE
  /\ saveStatus = "none"
  /\ alive = TRUE
  /\ reading = "closed"
  /\ wanted = 0
  /\ buffer = <<>>

-----------------------------------------------------------------------------
(* The recorder.  One thread encodes and saves, so it makes no write call  *)
(* while it saves.                                                         *)

Encode ==
  /\ alive
  /\ ~saving
  /\ EncoderCall
  /\ UNCHANGED <<decoderVars, fileVars, readVars>>

\* fopen(path, "wb") truncates what was there, or fails.
SaveOpen ==
  /\ alive
  /\ ~saving
  /\ data # <<>>
  /\ \/ exists' = TRUE /\ file' = <<>> /\ saving' = TRUE /\ UNCHANGED saveStatus
     \/ saveStatus' = "IO" /\ UNCHANGED <<exists, file, saving>>
  /\ UNCHANGED <<encoderVars, decoderVars, readVars, alive>>

\* (a defective variant, for the mutation runs)
SaveWriteOver ==   \* after a short write the buffer is written from its start
  /\ alive
  /\ saving
  /\ \E n \in 1 .. Len(data) - Len(file) : file' = file \o SubSeq(data, 1, n)
  /\ UNCHANGED <<encoderVars, decoderVars, readVars, exists, saving,
                 saveStatus, alive>>

\* Bytes reach the file in order, some at a time.
SaveWrite ==
  /\ alive
  /\ saving
  /\ \E n \in Len(file) + 1 .. Len(data) : file' = SubSeq(data, 1, n)
  /\ UNCHANGED <<encoderVars, decoderVars, readVars, exists, saving,
                 saveStatus, alive>>

\* fwrite or fclose report an error: the file keeps what it got.
SaveFail ==
  /\ alive
  /\ saving
  /\ saving' = FALSE
  /\ saveStatus' = "IO"
  /\ UNCHANGED <<encoderVars, decoderVars, readVars, exists, file, alive>>

SaveClose ==
  /\ alive
  /\ saving
  /\ Len(file) = Len(data)
  /\ saving' = FALSE
  /\ saveStatus' = "OK"
  /\ UNCHANGED <<encoderVars, decoderVars, readVars, exists, file, alive>>

\* The process dies; the file keeps what it got.
Die ==
  /\ alive
  /\ alive' = FALSE
  /\ UNCHANGED <<encoderVars, decoderVars, readVars, exists, file, saving,
                 saveStatus>>

-----------------------------------------------------------------------------
(* The reader: sdaf_decode_file. *)

ReadOpen ==
  /\ reading = "closed"
  /\ documentStatus = "idle"
  /\ exists
  /\ reading' = "copying"
  /\ wanted' = Len(file)
  /\ buffer' = <<>>
  /\ UNCHANGED <<encoderVars, decoderVars, fileVars>>

\* fopen fails, there is no size, or there is no memory for the bytes.
ReadOpenFail ==
  /\ reading = "closed"
  /\ documentStatus = "idle"
  /\ \/ documentStatus' = "IO"
     \/ exists /\ documentStatus' = "MEMORY"
  /\ UNCHANGED <<input, offset, document, opaque, errorOffset>>
  /\ UNCHANGED <<encoderVars, fileVars, readVars>>

\* fread copies what is in the file at that moment.
ReadSome ==
  /\ reading = "copying"
  /\ Len(buffer) < wanted
  /\ Len(buffer) < Len(file)
  /\ buffer' = Append(buffer, file[Len(buffer) + 1])
  /\ UNCHANGED <<encoderVars, decoderVars, fileVars, reading, wanted>>

\* (a defective variant, for the mutation runs)
ReadShortAccepted ==   \* what fread returned is not compared with the size
  /\ reading = "copying"
  /\ Len(file) <= Len(buffer)
  /\ Len(buffer) < wanted
  /\ reading' = "decoding"
  /\ Start(buffer)
  /\ UNCHANGED <<encoderVars, fileVars, wanted, buffer>>

ReadShortFilled ==   \* ... and the rest of the buffer is decoded too
  /\ reading = "copying"
  /\ Len(file) <= Len(buffer)
  /\ Len(buffer) < wanted
  /\ reading' = "decoding"
  /\ Start(Append(buffer, Junk))
  /\ UNCHANGED <<encoderVars, fileVars, wanted, buffer>>

ReadShortRetried == FALSE   \* read again until all the bytes have come

\* The file has become shorter than it was measured.
ReadShort ==
  /\ reading = "copying"
  /\ Len(file) <= Len(buffer)
  /\ Len(buffer) < wanted
  /\ reading' = "closed"
  /\ documentStatus' = "IO"
  /\ UNCHANGED <<input, offset, document, opaque, errorOffset, wanted, buffer>>
  /\ UNCHANGED <<encoderVars, fileVars>>

ReadDone ==
  /\ reading = "copying"
  /\ Len(buffer) = wanted
  /\ Start(buffer)
  /\ reading' = "decoding"
  /\ UNCHANGED <<encoderVars, fileVars, wanted, buffer>>

Decode ==
  /\ reading = "decoding"
  /\ DecodeStep
  /\ UNCHANGED <<encoderVars, fileVars, readVars>>

\* The caller frees the document and may read again.
Forget ==
  /\ FreeDocument
  /\ reading' = "closed"
  /\ wanted' = 0
  /\ buffer' = <<>>
  /\ UNCHANGED <<encoderVars, fileVars>>

-----------------------------------------------------------------------------

Recorder == Encode \/ SaveOpen \/ SaveWrite \/ SaveFail \/ SaveClose \/ Die

ReadCopy == ReadSome \/ ReadShort \/ ReadDone

Reader == ReadOpen \/ ReadOpenFail \/ ReadCopy \/ Decode \/ Forget

RecordingNext == Recorder \/ Reader

\* A reader that has begun goes on; nothing is asked of the recorder.
RecordingSpec ==
  /\ RecordingInit
  /\ [][RecordingNext]_recordingVars
  /\ WF_recordingVars(ReadCopy)
  /\ WF_recordingVars(Decode)

-----------------------------------------------------------------------------
(* What sharing the file keeps. *)

IsBeginning(s) ==
  /\ Len(s) <= Len(data)
  /\ \A i \in 1 .. Len(s) : s[i] = data[i]

(***************************************************************************)
(* The file, the reader's copy of it and the bytes it decodes are at every *)
(* moment the beginning of what the recorder has encoded: a save that is   *)
(* racing the read, is repeated, fails or is cut by the recorder's death   *)
(* never mixes bytes of different saves, because every save writes the     *)
(* same growing buffer from the start.                                     *)
(***************************************************************************)
BytesAreBeginnings ==
  IsBeginning(file) /\ IsBeginning(buffer) /\ IsBeginning(input)

(***************************************************************************)
(* When sdaf_decode_file returns SDAF_OK, it delivers every record that    *)
(* lay whole in the file when it was measured, also if the file was        *)
(* rewritten during the read; a file found shorter is an I/O error.        *)
(***************************************************************************)
MeasuredIsDelivered ==
  documentStatus = "OK" => Len(document) = Cardinality(HeldWhole(wanted))

(***************************************************************************)
(* A reader racing a careful recorder is told the file is malformed in     *)
(* three cases only: it measured a file just truncated to nothing, the     *)
(* recorder went on after running out of memory inside a record, or the    *)
(* reader itself had no memory for a fixed-bytes value of an intact record *)
(* (sdaf_codec.c:361 returns the status of a malformed one).               *)
(***************************************************************************)
RaceIsNotDamage ==
  Careful /\ documentStatus = "FORMAT" =>
    input = <<>> \/ ~Contiguous \/ FixedBytesWanted

\* A read that has begun ends: with a document, or with an error.
ReadEnds == reading = "copying" ~> documentStatus \in {"OK"} \cup Failures

-----------------------------------------------------------------------------
(* What these promises rest on: the reader decodes as many bytes as it     *)
(* measured, and all of them are the recorder's.                           *)

RecordingInv ==
  /\ PairInv
  /\ file \in Seq(Cells)
  /\ buffer \in Seq(Cells)
  /\ BytesAreBeginnings
  /\ documentStatus \in {"scanning", "OK"} => reading = "decoding"
  /\ reading = "decoding" => wanted = Len(input)
  /\ documentStatus = "OK" => HeldWhole(wanted) = 1 .. Len(document)

RaceInv ==
  /\ RecordingInv
  /\ CarefulLog
  /\ CarefulSamples
  /\ RaceIsNotDamage
=============================================================================
