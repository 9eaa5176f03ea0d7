----------------------------- MODULE SdafRules -----------------------------
(***************************************************************************)
(* The rules by which records of one file refer to each other, stated once *)
(* and of a sequence of records, not of a program: what a record r has to  *)
(* be to follow the first n records of d.  The .NET writer sees to them,   *)
(* the C encoder leaves most to its caller, and each decoder checks them   *)
(* with lists, dictionaries and last items of its own.                     *)
(***************************************************************************)
EXTENDS SdafFormat, FiniteSets

SchemasBefore(d, n, id, rev) ==
  {i \in 1 .. n : /\ d[i].type = "SCMA"
                  /\ d[i].fields.id = id
                  /\ d[i].fields.rev = rev}

ItemsBefore(d, n, id, stream) ==
  {i \in 1 .. n : /\ d[i].type = "BLOB"
                  /\ d[i].fields.id = id
                  /\ d[i].fields.stream = stream}

DatasBefore(d, n) == {i \in 1 .. n : d[i].type = "DATA"}

LayoutOf(r) == r.payload[1].layout

\* A pair of id and revision has one content.
LawfulSchema(d, n, r) ==
  /\ Len(r.payload) = 1
  /\ r.payload[1].cell = "layout"
  /\ \A i \in SchemasBefore(d, n, r.fields.id, r.fields.rev) :
       LayoutOf(d[i]) = LayoutOf(r)

\* Samples come after a schema that describes them, and fit it.
LawfulData(d, n, r) ==
  LET f == r.fields IN
  /\ f.id # 0 /\ f.rev # 0 /\ f.stream # 0
  /\ TimesAgree(f.mode, f.stamps, f.count)
  /\ SchemasBefore(d, n, f.id, f.rev) # {}
  /\ \A i \in SchemasBefore(d, n, f.id, f.rev) :
       /\ HoldsData(LayoutOf(d[i]), f.stream, f.mode)
       /\ f.decoded = ExpectedSize(LayoutOf(d[i]), f.stream, f.count, f.stamps)
  /\ DecodedSize(f.profile, r.payload) = f.decoded

\* Its samples are ones both libraries take.  The .NET writer does not see to
\* this, so it stands apart from what a record has to be.
SoundSamples(d, n, r) ==
  r.type = "DATA" =>
    /\ ~IndexesWrap(r.fields)
    /\ \A i \in SchemasBefore(d, n, r.fields.id, r.fields.rev) :
         SamplesInOrder(LayoutOf(d[i]), r.fields, r.payload)

\* A text belongs to a text stream or to none.
LawfulText(d, n, r) ==
  LET f == r.fields IN
  \/ f.id = 0 /\ f.rev = 0 /\ f.stream = 0
  \/ /\ f.id # 0 /\ f.rev # 0 /\ f.stream # 0
     /\ SchemasBefore(d, n, f.id, f.rev) # {}
     /\ \A i \in SchemasBefore(d, n, f.id, f.rev) :
          KindOf(LayoutOf(d[i]), f.stream) = "text"

\* Items belong to a blob stream and are numbered upwards in it.
LawfulItem(d, n, r) ==
  LET f == r.fields IN
  /\ f.profile \in {"none", "zstd"}
  /\ SchemasBefore(d, n, f.id, f.rev) # {}
  /\ \A i \in SchemasBefore(d, n, f.id, f.rev) :
       KindOf(LayoutOf(d[i]), f.stream) = "blob"
  /\ \A i \in ItemsBefore(d, n, f.id, f.stream) :
       d[i].fields.first < f.first
  /\ DecodedSize(f.profile, r.payload) = f.decoded

\* An entry says of an earlier DATA or BLOB record what is true of it.
TrueEntry(d, n, e) ==
  /\ e.cell = "entry"
  /\ \E i \in 1 .. n :
       /\ d[i].type \in {"DATA", "BLOB"}
       /\ e.offset = d[i].offset
       /\ e.seq = d[i].seq
       /\ e.stream = d[i].fields.stream
       /\ e.first = d[i].fields.first
       /\ e.count = IF d[i].type = "BLOB" THEN 1 ELSE d[i].fields.count

\* END counts what came before it, and itself.
LawfulEnd(d, n, r) ==
  /\ r.payload = <<>>
  /\ r.fields.total = n + 1
  /\ r.fields.datas = Cardinality(DatasBefore(d, n))
  /\ \/ r.fields.lastIndex = 0
     \/ \E i \in 1 .. n : /\ d[i].type = "INDX"
                          /\ d[i].offset = r.fields.lastIndex

Lawful(d, n, r) ==
  /\ r.type = "SCMA" => LawfulSchema(d, n, r)
  /\ r.type = "DATA" => LawfulData(d, n, r)
  /\ r.type = "TEXT" => LawfulText(d, n, r)
  /\ r.type = "BLOB" => LawfulItem(d, n, r)
  /\ r.type = "INDX" =>
       \A k \in 1 .. Len(r.payload) : TrueEntry(d, n, r.payload[k])
  /\ r.type = "END!" => LawfulEnd(d, n, r)

SoundLog(d) == \A i \in 1 .. Len(d) : SoundSamples(d, i - 1, d[i])

LawfulLog(d) == \A i \in 1 .. Len(d) : Lawful(d, i - 1, d[i])
=============================================================================
