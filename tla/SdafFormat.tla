----------------------------- MODULE SdafFormat -----------------------------
(***************************************************************************)
(* The stored form of an SDAF file, as the C implementation writes and     *)
(* reads it: a file header followed by self-contained records, each a      *)
(* checksummed record header, a payload and, in trailer mode, a payload    *)
(* checksum trailer.                                                       *)
(*                                                                         *)
(* A file is a sequence of cells.  One cell is one unit the reader cannot  *)
(* use in part: the file header, a record header (the 32 common bytes and  *)
(* the type-specific bytes together), one unit of payload, or a trailer.   *)
(* Offsets and sizes are counted in cells, so "the file ends inside a      *)
(* record" means that some cell of the record is missing.                  *)
(***************************************************************************)
EXTENDS Integers, Sequences

CONSTANTS
  StreamIds,     \* ids of the stream objects schemas declare, all nonzero
  Layouts,       \* contents a schema record can describe
  ValidLayouts,  \* those sdaf_validate_schema accepts
  StreamKind,    \* StreamKind[l, s]: the kind of stream s in layout l
  RowCells,      \* RowCells[l, s]: payload cells one sample of s occupies
  Values,        \* what a payload cell can hold
  Clean,         \* Clean[l, s]: the sample cells of stream s whose spare bits
                 \* (unused high bits, padding) are what the format wants
  IndexMax,      \* the largest sample index (2^64 - 1 in the code)
  SequenceMod    \* the sequence field wraps at this value (2^32 in the code)

Kinds == {"absent", "table", "text", "blob", "clock"}

ASSUME SchemaAssumption ==
  /\ StreamIds \subseteq Nat \ {0}
  /\ ValidLayouts \subseteq Layouts
  /\ StreamKind \in [Layouts \X StreamIds -> Kinds]
  /\ RowCells \in [Layouts \X StreamIds -> Nat]
  /\ Clean \in [Layouts \X StreamIds -> SUBSET Values]
  /\ IndexMax \in Nat

ASSUME SequenceAssumption == SequenceMod \in Nat \ {0}

-----------------------------------------------------------------------------
(* Record types and their type-specific header fields. *)

RecordTypes == {"SCMA", "DATA", "TEXT", "INDX", "END!", "BLOB", "NOTE", "PRIV"}

\* The transform list of a payload: none, [16], [1,2,3,16] or [5,3,16].
Profiles == {"none", "zstd", "numeric", "bitwise"}

\* Where a DATA record keeps its sample times: computed from a period, as
\* one timestamp per sample in the payload (delta or explicit), or nowhere.
TimeModes == {"periodic", "stamped", "none"}

\* What the start time with the period or the deltas comes to: times that all
\* fit 64 signed bits; such times although a count of ticks from a start below
\* zero does not fit them; or a time that does not.
Times == {"fit", "distant", "overflow"}

Schemas == [id : Nat, rev : Nat, layout : Layouts]

NoFields == [none |-> 0]
SchemaFields == [id : Nat, rev : Nat]
DataFields ==
  [id : Nat, rev : Nat, stream : Nat, first : Nat, count : Nat,
   mode : TimeModes, times : Times, stamps : Nat, decoded : Nat,
   profile : Profiles]
TextFields == [id : Nat, rev : Nat, stream : Nat]
BlobFields ==
  [id : Nat, rev : Nat, stream : Nat, first : Nat, decoded : Nat,
   profile : Profiles]
EndFields == [total : Nat, datas : Nat, lastIndex : Nat]

Fields == {NoFields} \cup SchemaFields \cup DataFields \cup TextFields
            \cup BlobFields \cup EndFields

-----------------------------------------------------------------------------
(* Cells. *)

ValueCells == [cell : {"value"}, value : Values]
LayoutCells == [cell : {"layout"}, layout : Layouts]
CodedCells == [cell : {"coded"}, profile : Profiles, of : Seq(ValueCells)]
EntryCells ==
  [cell : {"entry"}, offset : Nat, seq : Nat, stream : Nat, first : Nat,
   count : Nat]
PayloadCells == ValueCells \cup LayoutCells \cup CodedCells \cup EntryCells

(* CRC-32C as an ideal checksum: equal exactly when the covered bytes are. *)
(* The checksum of nothing is also the zero stored in an unused field.     *)
Crc32c(covered) == <<"crc32c", covered>>
NoCrc == Crc32c(<<>>)
PayloadCrcs == {"crc32c"} \X Seq(PayloadCells)

\* Everything a record header says, apart from its own checksum.
\* header_size is right when it claims no excess over the bytes of the header.
Contents ==
  [type : RecordTypes, trailer : BOOLEAN, excess : Nat,
   seq : 0 .. SequenceMod - 1, size : Nat, fields : Fields, pcrc : PayloadCrcs]

FileHeader == [cell |-> "file"]
HeadCells == [cell : {"head"}, is : Contents, crc : {"crc32c"} \X Contents]
TailCells ==
  [cell : {"tail"}, seq : 0 .. SequenceMod - 1, crc : PayloadCrcs]

\* Bytes that carry no valid marker any more.
Junk == [cell |-> "junk"]

\* The first bytes of a cell whose writing was cut short by an error.
Fragment == [cell |-> "fragment"]

Cells == {FileHeader, Junk, Fragment} \cup HeadCells \cup TailCells \cup PayloadCells

-----------------------------------------------------------------------------
(* Records and the cells that store them. *)

Records ==
  [type : RecordTypes, trailer : BOOLEAN, seq : 0 .. SequenceMod - 1,
   offset : Nat, fields : Fields, payload : Seq(PayloadCells)]

HeaderContent(r) ==
  [type    |-> r.type,
   trailer |-> r.trailer,
   excess  |-> 0,
   seq     |-> r.seq,
   size    |-> Len(r.payload),
   fields  |-> r.fields,
   pcrc    |-> IF r.trailer THEN NoCrc ELSE Crc32c(r.payload)]

HeadCell(r) ==
  [cell |-> "head", is |-> HeaderContent(r), crc |-> Crc32c(HeaderContent(r))]

TailCell(r) == [cell |-> "tail", seq |-> r.seq, crc |-> Crc32c(r.payload)]

Stored(r) ==
  <<HeadCell(r)>> \o r.payload \o (IF r.trailer THEN <<TailCell(r)>> ELSE <<>>)

\* header_size + payload_size + (PAYLOAD_CRC_IN_TRAILER ? trailer : 0), for
\* the header_size the writers store.
TotalSize(size, trailer) == 1 + size + (IF trailer THEN 1 ELSE 0)

EndOf(r) == r.offset + TotalSize(Len(r.payload), r.trailer)

-----------------------------------------------------------------------------
(* Payload encodings.  The transforms are lossless; what each computes is  *)
(* not needed to follow records through a file, only that a coded payload  *)
(* is opaque to a build that cannot decode it.                             *)

Cell(v) == [cell |-> "value", value |-> v]

AsCells(values) == [i \in 1 .. Len(values) |-> Cell(values[i])]

Encoded(profile, values) ==
  IF profile = "none"
  THEN AsCells(values)
  ELSE <<[cell |-> "coded", profile |-> profile, of |-> AsCells(values)]>>

DecodedCells(profile, payload) ==
  IF profile = "none" THEN payload ELSE payload[1].of

DecodedSize(profile, payload) == Len(DecodedCells(profile, payload))

(***************************************************************************)
(* What a layout says of a stream.  Looking a stream up by an id no object *)
(* has finds nothing.                                                      *)
(***************************************************************************)
KindOf(layout, stream) ==
  IF stream \in StreamIds THEN StreamKind[layout, stream] ELSE "absent"

\* sdaf_expected_payload_size: the samples and the timestamps before them.
ExpectedSize(layout, stream, count, stamps) ==
  RowCells[layout, stream] * count + stamps

\* DATA goes to a table, or without times to a clock-correlation stream.
HoldsData(layout, stream, mode) ==
  \/ KindOf(layout, stream) = "table"
  \/ KindOf(layout, stream) = "clock" /\ mode = "none"

\* The timestamp fields a DATA header may combine.
TimesAgree(mode, stamps, count) ==
  stamps = (IF mode = "stamped" THEN count ELSE 0)

(***************************************************************************)
(* What the samples of a DATA record come to once its payload is decoded.  *)
(***************************************************************************)

\* Typed transforms keep the logical bits of a lane only; the others bring the
\* sample area back as the writer had it, spare bits included.
SpareBitsFit(layout, f, payload) ==
  f.profile \in {"none", "zstd"} =>
    LET cells == DecodedCells(f.profile, payload) IN
    \A i \in f.stamps + 1 .. Len(cells) :
      cells[i].value \in Clean[layout, f.stream]

TimesOverflow(f) == f.count > 0 /\ f.mode # "none" /\ f.times = "overflow"

\* What both libraries ask of the samples.
SamplesInOrder(layout, f, payload) ==
  SpareBitsFit(layout, f, payload) /\ ~TimesOverflow(f)

\* What the C library asks besides: no sample index wraps.
IndexesWrap(f) == f.count > 0 /\ f.first > IndexMax - (f.count - 1)

\* What the .NET library asks besides: no count of ticks is beyond a long.
TimesDistant(f) ==
  f.count > 0 /\ f.mode = "periodic" /\ f.times = "distant"
=============================================================================
