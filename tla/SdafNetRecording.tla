-------------------------- MODULE SdafNetRecording --------------------------
(***************************************************************************)
(* A .NET writer that streams to a file and a .NET reader of that file at  *)
(* the same time.  The file holds what the Stream has passed on, some      *)
(* beginning of what the writer gave it.  The writer's process may die:    *)
(* it then takes no further step, and the bytes not passed on are lost, a  *)
(* behaviour in which Record and PassOn just never happen again.  The      *)
(* reader sees at each step what the file holds at that moment.            *)
(***************************************************************************)
EXTENDS SdafNetWriter, SdafNetReader

VARIABLE
  opened     \* history: what the file held when the reader was opened

netRecordingVars == <<netWriterVars, netReaderVars, opened>>

NetRecordingInit ==
  /\ NetWriterInit
  /\ source = <<>>
  /\ NoReader
  /\ opened = 0

Record ==
  /\ NetWriterCall
  /\ UNCHANGED <<netReaderVars, opened>>

\* The Stream passes bytes on in order, whenever it likes.
PassOn ==
  /\ \E n \in Len(source) + 1 .. Len(stream) : source' = SubSeq(stream, 1, n)
  /\ UNCHANGED <<netWriterVars, readerVars, opened>>

OpenReader ==
  /\ Open
  /\ opened' = Len(source)
  /\ UNCHANGED <<netWriterVars, source>>

Enumerate == ReadStep /\ UNCHANGED <<netWriterVars, source, opened>>

CloseReader ==
  /\ Close
  /\ opened' = 0
  /\ UNCHANGED <<netWriterVars, source>>

NetRecordingNext ==
  Record \/ PassOn \/ OpenReader \/ Enumerate \/ CloseReader

\* An application that enumerates goes on until the enumeration ends; the
\* writer may go on for ever, or not.
NetRecordingSpec ==
  /\ NetRecordingInit
  /\ [][NetRecordingNext]_netRecordingVars
  /\ WF_netRecordingVars(Enumerate)

-----------------------------------------------------------------------------

(***************************************************************************)
(* No false delivery: what the reader has yielded is the beginning of what *)
(* lies whole in the stream, while the file grows under it and with torn   *)
(* records in it.  A record is never yielded before its last byte is in    *)
(* the file, and one whose write call did not return only when the Stream  *)
(* had taken all of it.                                                    *)
(***************************************************************************)
YieldedIsPrefix ==
  /\ Len(yielded) <= Len(landed)
  /\ \A i \in 1 .. Len(yielded) :
       yielded[i] = landed[i] /\ EndOf(landed[i]) <= Len(source)

\* The records whole in the first n cells, up to the first torn one.
WholeIn(n) ==
  {i \in 1 .. Len(landed) :
     /\ EndOf(landed[i]) <= n
     /\ landed[1].offset = 1
     /\ \A j \in 1 .. i - 1 : EndOf(landed[j]) = landed[j + 1].offset}

(***************************************************************************)
(* An enumeration that just ends has yielded at least what the file held   *)
(* when it was opened: a reader that meets the end of a growing file, or   *)
(* half a record there, has skipped nothing before it.                     *)
(***************************************************************************)
EndMissesNothing ==
  phase = "ended" => Cardinality(WholeIn(opened)) <= Len(yielded)

\* What a reader of its own limits, and perhaps without libzstd, does not
\* take.  The writer does not validate a schema, nor look at spare bits and
\* times; the reader does.
RefusedByReader(r) ==
  \/ Len(r.payload) > MaxPayloadSize
  \/ /\ r.type = "SCMA"
     /\ \/ r.fields.id = 0
        \/ r.fields.rev = 0
        \/ LayoutOf(r) \notin ValidLayouts
  \/ /\ r.type \in {"DATA", "BLOB"}
     /\ \/ r.fields.decoded > MaxDecodedSize
        \/ r.fields.profile # "none" /\ ~ReaderFindsZstd
  \/ /\ r.type = "DATA"
     /\ \/ TimesDistant(r.fields)
        \/ \E s \in SchemasOf(r.fields.id, r.fields.rev) :
             ~SamplesInOrder(s.layout, r.fields, r.payload)
  \/ /\ r.type \in {"TEXT", "NOTE"}
     /\ Len(r.payload) > MaxUtf8Bytes

(***************************************************************************)
(* The library accepts its own output.  A reader of the growing file that  *)
(* throws has found bytes it has not read, and if a write call that        *)
(* returned has put a record there, it is one that this reader does not    *)
(* take, or a record lies before it that the writer does not know of,      *)
(* since its call threw when its last byte was written; otherwise a Write  *)
(* has thrown there.  So what the writer remembers (schemas, last item     *)
(* indexes, counts) and what the reader remembers of the same records      *)
(* agree, and no half-written file is taken for a wrong one.  (A file      *)
(* without a header yet is refused; entries made up by the application may *)
(* be.)                                                                    *)
(***************************************************************************)
OwnOutputAccepted ==
  phase = "failed" /\ place # 0 /\ StrayEntries = {} =>
    /\ place < Len(source)
    /\ \A i \in 1 .. Len(written) :
         written[i].offset = place =>
           \/ RefusedByReader(written[i])
           \/ \E k \in 1 .. Len(landed) :
                Stranded(k) /\ landed[k].offset < place

\* The streaming pair implements the same record log as the C pair.
NetLog == INSTANCE RecordLog WITH log <- landed, view <- yielded

(***************************************************************************)
(* The view grows by one record at a time that lies whole in the stream,   *)
(* in order, or starts over; the log of those records is never rewritten.  *)
(***************************************************************************)
NetImplementsLog == NetLog!LogSpec

(***************************************************************************)
(* Every enumeration comes to an end, or the application gives it up: with *)
(* a writer that stops, the reader does not wait for bytes that may never  *)
(* come.                                                                   *)
(***************************************************************************)
EnumerationEnds ==
  phase = "between" ~> phase \in {"closed", "ended", "failed"}

-----------------------------------------------------------------------------
(* What the reader's promises rest on: it stands behind the records it has *)
(* yielded, which follow each other without a gap, and goes on to a        *)
(* payload only behind a header that is intact.                            *)

IsPassedOn ==
  /\ Len(source) <= Len(stream)
  /\ \A p \in 1 .. Len(source) : source[p] = stream[p]

\* Where the record after the first n yielded begins.
PlaceAfter(n) == IF n = 0 THEN 1 ELSE EndOf(yielded[n])

PlaceFollows ==
  /\ \A i \in 1 .. Len(yielded) : yielded[i].offset = PlaceAfter(i - 1)
  /\ phase \in {"between", "payload", "trailer"} =>
       /\ place = PlaceAfter(Len(yielded))
       /\ place <= Len(source)

HeaderIsIntact ==
  phase \in {"payload", "trailer"} =>
    /\ place + 1 <= Len(source)
    /\ source[place + 1].cell = "head"
    /\ phase = "trailer" => source[place + 1].is.trailer

NetRecordingInv ==
  /\ StreamInv
  /\ source \in Seq(Cells)
  /\ IsPassedOn
  /\ phase \in Phases
  /\ place \in Nat
  /\ yielded \in Seq(Records)
  /\ YieldedIsPrefix
  /\ PlaceFollows
  /\ HeaderIsIntact
  /\ phase = "closed" => yielded = <<>>
  /\ opened \in 0 .. Len(source)
  /\ phase = "ended" => WholeIn(opened) \subseteq 1 .. Len(yielded)

(***************************************************************************)
(* What OwnOutputAccepted rests on: what the reader remembers is what it   *)
(* has yielded, schemas with ids that a reference can name.                *)
(***************************************************************************)
SchemasAreRead ==
  \A s \in schemasRead :
    \E i \in SchemasBefore(yielded, Len(yielded), s.id, s.rev) :
      LayoutOf(yielded[i]) = s.layout

ItemsAreRead ==
  phase # "failed" =>
    \A k \in itemsRead :
      \E i \in ItemsBefore(yielded, Len(yielded), k.id, k.stream) :
        yielded[i].fields.first = k.index

SchemasAreNumbered ==
  \A i \in 1 .. Len(yielded) :
    yielded[i].type = "SCMA" => /\ yielded[i].fields.id # 0
                               /\ yielded[i].fields.rev # 0

AcceptanceInv ==
  /\ NetRecordingInv
  /\ RulesInv
  /\ SchemasAreRead
  /\ ItemsAreRead
  /\ SchemasAreNumbered
  /\ OwnOutputAccepted
=============================================================================
