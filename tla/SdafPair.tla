------------------------------ MODULE SdafPair ------------------------------
(***************************************************************************)
(* An encoder and a decoder side by side, and what relates the records     *)
(* written to the document read.  How the bytes get from one to the other  *)
(* is left to the modules that extend this one.                            *)
(***************************************************************************)
EXTENDS SdafEncoder, SdafDecoder

pairVars == <<encoderVars, decoderVars>>

(***************************************************************************)
(* No false delivery: what sdaf_decode puts into the document is, record   *)
(* by record and field by field, the beginning of what the encoder wrote,  *)
(* at the offsets where it wrote it.  Cutting the input, altering it,      *)
(* reading it while it is rewritten, and a torn record in the encoder's    *)
(* buffer can only end the document early.                                 *)
(***************************************************************************)
DeliveredIsPrefix ==
  /\ Len(document) <= Len(written)
  /\ \A i \in 1 .. Len(document) : document[i] = written[i]

\* The records that lie whole in the first n cells, up to the first torn one.
HeldWhole(n) ==
  {i \in 1 .. Len(written) :
     /\ EndOf(written[i]) <= n
     /\ written[1].offset = 1
     /\ \A j \in 1 .. i - 1 : EndOf(written[j]) = written[j + 1].offset}

\* The pair implements the record log: the log is what was written, the
\* view what was delivered.
Log == INSTANCE RecordLog WITH log <- written, view <- document

(***************************************************************************)
(* The document grows by one written record at a time, in order, or starts *)
(* over; the log of written records is never rewritten.                    *)
(***************************************************************************)
ImplementsLog == Log!LogSpec

-----------------------------------------------------------------------------
(* What DeliveredIsPrefix rests on. *)

\* What can become of a cell on the way to the decoder: no checksum is forged.
Carried(c, original) ==
  \/ c = original
  \/ c = Junk
  \/ original.cell = "head" /\ c.cell = "head" /\ c.crc # Crc32c(c.is)
  \/ original.cell = "tail" /\ c.cell = "tail" /\ c.crc = original.crc

\* Bytes that come from the beginning of the encoder's buffer.
ComesFromBuffer(bytes) ==
  /\ bytes \in Seq(Cells)
  /\ Len(bytes) <= Len(data)
  /\ \A p \in 1 .. Len(bytes) : Carried(bytes[p], data[p])

\* Where the record after the first n of the document begins.
CursorAfter(n) == IF n = 0 THEN 1 ELSE EndOf(document[n])

(***************************************************************************)
(* The decoder stands behind the records it has delivered, which follow    *)
(* each other from the file header on without a gap.                       *)
(***************************************************************************)
Chained ==
  /\ \A i \in 1 .. Len(document) : document[i].offset = CursorAfter(i - 1)
  /\ documentStatus \in {"scanning", "OK"} =>
       /\ offset = CursorAfter(Len(document))
       /\ offset <= Len(input)

PairInv ==
  /\ BufferInv
  /\ ComesFromBuffer(input)
  /\ document \in Seq(Records)
  /\ offset \in Nat
  /\ DeliveredIsPrefix
  /\ Chained
=============================================================================
