-------------------------- MODULE SdafFormatProofs --------------------------
(***************************************************************************)
(* Facts about sequence numbers, stored records and the rules between      *)
(* records that hold whatever the constants are.                           *)
(***************************************************************************)
EXTENDS SdafRules, SequenceTheorems, WellFoundedInduction, TLAPS

(***************************************************************************)
(* Quotient and remainder are unique.                                      *)
(***************************************************************************)
LEMMA DivisionIsUnique ==
  ASSUME NEW a \in Int, NEW b \in Int, NEW m \in Nat \ {0},
         NEW r \in 0 .. m - 1, NEW s \in 0 .. m - 1,
         m * a + r = m * b + s
  PROVE  r = s
<1>1. ASSUME NEW x \in Int, NEW y \in Int, x >= y + 1
      PROVE  m * x >= m * y + m
  BY <1>1, Z3
<1>2. ~(a > b)
  BY <1>1
<1>3. ~(b > a)
  BY <1>1
<1>4. a = b
  BY <1>2, <1>3
<1> QED
  BY <1>4

(***************************************************************************)
(* A number counted modulo the width of its field can be counted on modulo *)
(* that width: ++encoder->next_sequence on an unsigned 32-bit field        *)
(* numbers the records modulo 2^32.                                        *)
(***************************************************************************)
LEMMA CountingModulo ==
  ASSUME NEW n \in Nat, NEW m \in Nat \ {0}
  PROVE  /\ n % m \in 0 .. m - 1
         /\ ((n % m) + 1) % m = (n + 1) % m
<1>1. PICK q \in Int, r \in 0 .. m - 1 :
        n = m * q + r /\ n \div m = q /\ n % m = r
  <2>1. n = m * (n \div m) + (n % m) /\ n \div m \in Int
    OBVIOUS
  <2>2. n % m \in 0 .. m - 1
    OBVIOUS
  <2> QED
    BY <2>1, <2>2
<1>2. PICK p \in Int, s \in 0 .. m - 1 :
        n + 1 = m * p + s /\ (n + 1) % m = s
  <2>1. /\ n + 1 = m * ((n + 1) \div m) + ((n + 1) % m)
        /\ (n + 1) \div m \in Int
    OBVIOUS
  <2>2. (n + 1) % m \in 0 .. m - 1
    OBVIOUS
  <2> QED
    BY <2>1, <2>2
<1>3. CASE r + 1 < m
  <2>1. m * q + (r + 1) = m * p + s /\ r + 1 \in 0 .. m - 1
    BY <1>1, <1>2, <1>3
  <2>2. r + 1 = s
    BY <2>1, DivisionIsUnique
  <2>3. (r + 1) % m = r + 1
    BY <1>3
  <2> QED
    BY <1>1, <1>2, <2>2, <2>3
<1>4. CASE r + 1 = m
  <2>1. m * (q + 1) + 0 = m * p + s /\ 0 \in 0 .. m - 1
    BY <1>1, <1>2, <1>4
  <2>2. s = 0
    BY <2>1, DivisionIsUnique
  <2>3. m % m = 0
    OBVIOUS
  <2> QED
    BY <1>1, <1>2, <1>4, <2>2, <2>3
<1> QED
  BY <1>3, <1>4

(***************************************************************************)
(* Among positions of a list there is a last one.                          *)
(***************************************************************************)
LEMMA LastExists ==
  ASSUME NEW n \in Nat, NEW S, S \subseteq 1 .. n, S # {}
  PROVE  \E last \in S : \A i \in S : i <= last
<1> DEFINE T == {n - i : i \in S}
<1>1. T \subseteq Nat /\ T # {}
  <2>1. \A i \in S : i \in 1 .. n /\ n - i \in Nat
    OBVIOUS
  <2>2. PICK i \in S : n - i \in T
    OBVIOUS
  <2> QED
    BY <2>1, <2>2
<1>2. PICK x \in T : \A y \in T : <<y, x>> \notin OpToRel(<, Nat)
  BY <1>1, NatLessThanWellFounded, WFMin
<1>3. \A y \in T : ~(y < x)
  BY <1>1, <1>2 DEF OpToRel
<1>4. PICK last \in S : x = n - last
  OBVIOUS
<1>5. ASSUME NEW i \in S PROVE i <= last
  <2>1. n - i \in T
    OBVIOUS
  <2>2. ~(n - i < n - last)
    BY <1>3, <1>4, <2>1
  <2> QED
    BY <2>2
<1> QED
  BY <1>5

-----------------------------------------------------------------------------
(***************************************************************************)
(* The header cell of a record is a cell, and so is its trailer.           *)
(***************************************************************************)
LEMMA HeaderContentType ==
  ASSUME NEW r \in Records
  PROVE  HeaderContent(r) \in Contents
<1>1. <<>> \in Seq(PayloadCells)
  OBVIOUS
<1>2. r.payload \in Seq(PayloadCells) /\ Len(r.payload) \in Nat
  BY DEF Records
<1>3. Crc32c(r.payload) \in PayloadCrcs /\ NoCrc \in PayloadCrcs
  BY <1>1, <1>2 DEF Crc32c, NoCrc, PayloadCrcs
<1>4. /\ r.type \in RecordTypes /\ r.trailer \in BOOLEAN
      /\ r.seq \in 0 .. SequenceMod - 1 /\ r.fields \in Fields
  BY DEF Records
<1> QED
  BY <1>2, <1>3, <1>4 DEF HeaderContent, Contents

LEMMA RecordCells ==
  ASSUME NEW r \in Records
  PROVE  HeadCell(r) \in Cells /\ TailCell(r) \in Cells
<1>1. HeaderContent(r) \in Contents
  BY HeaderContentType
<1>2. Crc32c(HeaderContent(r)) \in {"crc32c"} \X Contents
  BY <1>1 DEF Crc32c
<1>3. HeadCell(r) \in HeadCells
  BY <1>1, <1>2 DEF HeadCell, HeadCells
<1>4. r.payload \in Seq(PayloadCells) /\ r.seq \in 0 .. SequenceMod - 1
  BY DEF Records
<1>5. Crc32c(r.payload) \in PayloadCrcs
  BY <1>4 DEF Crc32c, PayloadCrcs
<1>6. TailCell(r) \in TailCells
  BY <1>4, <1>5 DEF TailCell, TailCells
<1> QED
  BY <1>3, <1>6 DEF Cells

(***************************************************************************)
(* A record takes a header, its payload, and a trailer or none.            *)
(***************************************************************************)
LEMMA TotalSizes ==
  ASSUME NEW size \in Nat, NEW trailer \in BOOLEAN
  PROVE  /\ TotalSize(size, trailer) \in Nat
         /\ TotalSize(size, trailer) >= 1
         /\ trailer => TotalSize(size, trailer) = size + 2
         /\ ~trailer => TotalSize(size, trailer) = size + 1
<1>1. CASE trailer = TRUE
  BY <1>1 DEF TotalSize
<1>2. CASE trailer = FALSE
  BY <1>2 DEF TotalSize
<1> QED
  BY <1>1, <1>2

(***************************************************************************)
(* What is stored of a record is a sequence of cells, of the size          *)
(* sdaf_decode computes from the header to step over it.                   *)
(***************************************************************************)
LEMMA StoredType ==
  ASSUME NEW r \in Records
  PROVE  /\ Stored(r) \in Seq(Cells)
         /\ Len(Stored(r)) = TotalSize(Len(r.payload), r.trailer)
         /\ TotalSize(Len(r.payload), r.trailer) \in Nat \ {0}
         /\ <<HeadCell(r)>> \in Seq(Cells)
         /\ <<HeadCell(r)>> \o r.payload \in Seq(Cells)
<1>1. HeadCell(r) \in Cells /\ TailCell(r) \in Cells
  BY RecordCells
<1>2. PayloadCells \subseteq Cells
  BY DEF Cells
<1>3. r.payload \in Seq(PayloadCells) /\ r.trailer \in BOOLEAN
  BY DEF Records
<1>4. r.payload \in Seq(Cells)
  BY <1>2, <1>3, SeqMonotonic
<1>5. /\ <<HeadCell(r)>> \in Seq(Cells) /\ Len(<<HeadCell(r)>>) = 1
      /\ <<TailCell(r)>> \in Seq(Cells) /\ Len(<<TailCell(r)>>) = 1
  BY <1>1
<1>6. /\ <<HeadCell(r)>> \o r.payload \in Seq(Cells)
      /\ Len(<<HeadCell(r)>> \o r.payload) = 1 + Len(r.payload)
  BY <1>4, <1>5, ConcatProperties
<1>7. CASE r.trailer
  <2>1. Stored(r) = (<<HeadCell(r)>> \o r.payload) \o <<TailCell(r)>>
    BY <1>7 DEF Stored
  <2> QED
    BY <1>4, <1>5, <1>6, <1>7, <2>1, ConcatProperties, LenProperties DEF TotalSize
<1>8. CASE ~r.trailer
  <2>1. Stored(r) = (<<HeadCell(r)>> \o r.payload) \o <<>>
    BY <1>8 DEF Stored
  <2>2. Stored(r) = <<HeadCell(r)>> \o r.payload
    BY <1>6, <2>1, ConcatEmptySeq
  <2> QED
    BY <1>4, <1>5, <1>6, <1>8, <2>2, LenProperties DEF TotalSize
<1> QED
  BY <1>7, <1>8

(***************************************************************************)
(* The kinds of cells are told apart by their markers: only a header cell  *)
(* has the record marker, and no payload cell has a marker of a record.    *)
(***************************************************************************)
LEMMA CellKinds ==
  /\ \A c \in PayloadCells : c.cell \in {"value", "layout", "coded", "entry"}
  /\ \A c \in Cells : c.cell = "head" => c \in HeadCells
  /\ \A c \in Cells : c.cell = "tail" => c \in TailCells
<1>1. \A c \in PayloadCells : c.cell \in {"value", "layout", "coded", "entry"}
  BY DEF PayloadCells, ValueCells, LayoutCells, CodedCells, EntryCells
<1>2. \A c \in HeadCells : c.cell = "head"
  BY DEF HeadCells
<1>3. \A c \in TailCells : c.cell = "tail"
  BY DEF TailCells
<1>4. FileHeader.cell = "file" /\ Junk.cell = "junk" /\ Fragment.cell = "fragment"
  BY DEF FileHeader, Junk, Fragment
<1> QED
  BY <1>1, <1>2, <1>3, <1>4 DEF Cells

(***************************************************************************)
(* Cells that are no headers, appended to some that have one only at their *)
(* beginning.                                                              *)
(***************************************************************************)
LEMMA HeadlessAppend ==
  ASSUME NEW a \in Seq(Cells), NEW b \in Seq(Cells), Len(a) >= 1,
         \A k \in 2 .. Len(a) : a[k].cell # "head",
         \A k \in 1 .. Len(b) : b[k].cell # "head"
  PROVE  /\ a \o b \in Seq(Cells)
         /\ Len(a \o b) >= 1
         /\ (a \o b)[1] = a[1]
         /\ \A k \in 2 .. Len(a \o b) : (a \o b)[k].cell # "head"
<1>1. /\ a \o b \in Seq(Cells)
      /\ Len(a \o b) = Len(a) + Len(b)
      /\ \A i \in 1 .. Len(a) + Len(b) :
           (a \o b)[i] = IF i <= Len(a) THEN a[i] ELSE b[i - Len(a)]
  BY ConcatProperties
<1>2. Len(a) \in Nat /\ Len(b) \in Nat
  BY LenProperties
<1> QED
  BY <1>1, <1>2

(***************************************************************************)
(* Of the cells that store a record, or of as many of them as its first    *)
(* appends bring, the first one and no other is a header.                  *)
(***************************************************************************)
LEMMA StoredHeads ==
  ASSUME NEW r \in Records,
         NEW s \in {<<HeadCell(r)>>, <<HeadCell(r)>> \o r.payload, Stored(r)}
  PROVE  /\ s \in Seq(Cells)
         /\ Len(s) >= 1
         /\ s[1] = HeadCell(r)
         /\ \A k \in 2 .. Len(s) : s[k].cell # "head"
<1>1. PICK head \in Seq(Cells) :
        /\ head = <<HeadCell(r)>>
        /\ Len(head) = 1
        /\ head[1] = HeadCell(r)
  BY StoredType
<1>2. /\ r.payload \in Seq(Cells)
      /\ \A k \in 1 .. Len(r.payload) : r.payload[k].cell # "head"
  <2>1. r.payload \in Seq(PayloadCells) /\ PayloadCells \subseteq Cells
    BY DEF Records, Cells
  <2> QED
    BY <2>1, SeqMonotonic, ElementOfSeq, CellKinds
<1>3. PICK body \in Seq(Cells) :
        /\ body = head \o r.payload
        /\ Len(body) >= 1
        /\ body[1] = HeadCell(r)
        /\ \A k \in 2 .. Len(body) : body[k].cell # "head"
  <2>1. \A k \in 2 .. Len(head) : head[k].cell # "head"
    BY <1>1
  <2>2. /\ head \o r.payload \in Seq(Cells)
        /\ Len(head \o r.payload) >= 1
        /\ (head \o r.payload)[1] = head[1]
        /\ \A k \in 2 .. Len(head \o r.payload) :
             (head \o r.payload)[k].cell # "head"
    BY <1>1, <1>2, <2>1, HeadlessAppend
  <2> QED
    BY <1>1, <2>2
<1>4. PICK tail \in Seq(Cells) :
        /\ tail = <<TailCell(r)>>
        /\ Len(tail) = 1
        /\ tail[1] = TailCell(r)
  <2>1. <<TailCell(r)>> \in Seq(Cells) /\ <<TailCell(r)>>[1] = TailCell(r)
    BY RecordCells
  <2> QED
    BY <2>1
<1>5. /\ body \o tail \in Seq(Cells)
      /\ Len(body \o tail) >= 1
      /\ (body \o tail)[1] = HeadCell(r)
      /\ \A k \in 2 .. Len(body \o tail) : (body \o tail)[k].cell # "head"
  <2>1. \A k \in 1 .. Len(tail) : tail[k].cell # "head"
    BY <1>4 DEF TailCell
  <2> QED
    BY <1>3, <1>4, <2>1, HeadlessAppend
<1>6. Stored(r) = IF r.trailer THEN body \o tail ELSE body
  <2>1. body \o <<>> = body
    BY <1>3, ConcatEmptySeq
  <2> QED
    BY <1>1, <1>3, <1>4, <2>1 DEF Stored
<1>7. s \in {head, body, body \o tail}
  BY <1>1, <1>3, <1>6
<1>8. CASE s = head
  BY <1>1, <1>8
<1>9. CASE s = body
  BY <1>3, <1>9
<1>10. CASE s = body \o tail
  BY <1>5, <1>10
<1> QED
  BY <1>7, <1>8, <1>9, <1>10

(***************************************************************************)
(* Cells with one header at their beginning, appended to others.           *)
(***************************************************************************)
LEMMA OneHeadAppended ==
  ASSUME NEW a \in Seq(Cells), NEW s \in Seq(Cells), Len(s) >= 1,
         \A k \in 2 .. Len(s) : s[k].cell # "head"
  PROVE  /\ a \o s \in Seq(Cells)
         /\ Len(a \o s) = Len(a) + Len(s)
         /\ \A p \in 1 .. Len(a) : (a \o s)[p] = a[p]
         /\ (a \o s)[Len(a) + 1] = s[1]
         /\ \A p \in Len(a) + 2 .. Len(a) + Len(s) : (a \o s)[p].cell # "head"
<1>1. /\ a \o s \in Seq(Cells)
      /\ Len(a \o s) = Len(a) + Len(s)
      /\ \A i \in 1 .. Len(a) + Len(s) :
           (a \o s)[i] = IF i <= Len(a) THEN a[i] ELSE s[i - Len(a)]
  BY ConcatProperties
<1>2. Len(a) \in Nat /\ Len(s) \in Nat
  BY LenProperties
<1>3. (Len(a) + 1) - Len(a) = 1
  BY <1>2
<1>4. ASSUME NEW p \in Len(a) + 2 .. Len(a) + Len(s)
      PROVE  (a \o s)[p].cell # "head"
  <2>1. (a \o s)[p] = s[p - Len(a)] /\ p - Len(a) \in 2 .. Len(s)
    BY <1>1, <1>2
  <2> QED
    BY <2>1
<1> QED
  BY <1>1, <1>2, <1>3, <1>4

-----------------------------------------------------------------------------
(* Records among bytes. *)

(***************************************************************************)
(* The payload encodings make payload cells.                               *)
(***************************************************************************)
LEMMA CellsType ==
  ASSUME NEW values \in Seq(Values)
  PROVE  /\ AsCells(values) \in Seq(ValueCells)
         /\ AsCells(values) \in Seq(PayloadCells)
<1>1. Len(values) \in Nat /\ \A i \in 1 .. Len(values) : values[i] \in Values
  BY LenProperties, ElementOfSeq
<1>2. \A i \in 1 .. Len(values) : Cell(values[i]) \in ValueCells
  BY <1>1 DEF Cell, ValueCells
<1>3. AsCells(values) \in [1 .. Len(values) -> ValueCells]
  BY <1>2 DEF AsCells
<1>4. AsCells(values) \in Seq(ValueCells)
  BY <1>1, <1>3, SeqDef
<1>5. ValueCells \subseteq PayloadCells
  BY DEF PayloadCells
<1> QED
  BY <1>4, <1>5, SeqMonotonic

LEMMA EncodedType ==
  ASSUME NEW values \in Seq(Values), NEW profile \in Profiles
  PROVE  Encoded(profile, values) \in Seq(PayloadCells)
<1>1. CASE profile = "none"
  BY <1>1, CellsType DEF Encoded
<1>2. CASE profile # "none"
  <2>1. [cell |-> "coded", profile |-> profile, of |-> AsCells(values)]
          \in CodedCells
    BY CellsType DEF CodedCells
  <2>2. CodedCells \subseteq PayloadCells
    BY DEF PayloadCells
  <2>3. Encoded(profile, values) =
          <<[cell |-> "coded", profile |-> profile, of |-> AsCells(values)]>>
    BY <1>2 DEF Encoded
  <2> QED
    BY <2>1, <2>2, <2>3
<1> QED
  BY <1>1, <1>2

(***************************************************************************)
(* A decoded payload has the size of the samples it was made from.         *)
(***************************************************************************)
LEMMA EncodedSize ==
  ASSUME NEW values \in Seq(Values), NEW profile
  PROVE  DecodedSize(profile, Encoded(profile, values)) = Len(values)
<1>1. PICK n \in Nat : n = Len(values)
  BY LenProperties
<1>2. Len(AsCells(values)) = n
  <2>1. AsCells(values) \in Seq(ValueCells)
    BY CellsType
  <2>2. DOMAIN AsCells(values) = 1 .. n
    BY <1>1 DEF AsCells
  <2> QED
    BY <1>1, <2>1, <2>2, LenProperties
<1>3. CASE profile = "none"
  BY <1>1, <1>2, <1>3 DEF Encoded, DecodedSize, DecodedCells
<1>4. CASE profile # "none"
  <2>1. Encoded(profile, values)[1].of = AsCells(values)
    BY <1>4 DEF Encoded
  <2> QED
    BY <1>1, <1>2, <1>4, <2>1 DEF DecodedSize, DecodedCells
<1> QED
  BY <1>3, <1>4

(***************************************************************************)
(* Whatever is appended to the buffer, the records in it stay in place.    *)
(***************************************************************************)
LEMMA AppendKeepsRecord ==
  ASSUME NEW bytes \in Seq(Cells), NEW more \in Seq(Cells), NEW r \in Records,
         EndOf(r) <= Len(bytes),
         SubSeq(bytes, r.offset + 1, EndOf(r)) = Stored(r)
  PROVE  /\ bytes \o more \in Seq(Cells)
         /\ Len(bytes \o more) = Len(bytes) + Len(more)
         /\ EndOf(r) <= Len(bytes \o more)
         /\ SubSeq(bytes \o more, r.offset + 1, EndOf(r)) = Stored(r)
<1>1. /\ bytes \o more \in Seq(Cells)
      /\ Len(bytes \o more) = Len(bytes) + Len(more)
  BY ConcatProperties
<1>2. Len(bytes) \in Nat /\ Len(more) \in Nat
  BY LenProperties
<1>3. r.offset \in Nat
  BY DEF Records
<1>4. EndOf(r) \in Nat /\ EndOf(r) >= r.offset + 1
  <2>1. TotalSize(Len(r.payload), r.trailer) \in Nat \ {0}
    BY StoredType
  <2> QED
    BY <1>3, <2>1 DEF EndOf
<1>5. r.offset + 1 \in 1 .. Len(bytes) /\ EndOf(r) \in 1 .. Len(bytes)
  BY <1>2, <1>3, <1>4
<1>6. SubSeq(bytes \o more, r.offset + 1, EndOf(r))
        = SubSeq(bytes, r.offset + 1, EndOf(r))
  BY <1>5, SubSeqOfConcat1
<1>7. EndOf(r) <= Len(bytes) + Len(more)
  BY <1>2, <1>4
<1> QED
  BY <1>1, <1>6, <1>7

(***************************************************************************)
(* A record whose appends all succeed lies at the offset it was given.     *)
(***************************************************************************)
LEMMA StoredInPlace ==
  ASSUME NEW bytes \in Seq(Cells), NEW r \in Records, r.offset = Len(bytes)
  PROVE  /\ bytes \o Stored(r) \in Seq(Cells)
         /\ EndOf(r) = Len(bytes \o Stored(r))
         /\ SubSeq(bytes \o Stored(r), r.offset + 1, EndOf(r)) = Stored(r)
<1>1. /\ Stored(r) \in Seq(Cells)
      /\ Len(Stored(r)) = TotalSize(Len(r.payload), r.trailer)
      /\ Len(Stored(r)) \in Nat \ {0}
  BY StoredType
<1>2. /\ bytes \o Stored(r) \in Seq(Cells)
      /\ Len(bytes \o Stored(r)) = Len(bytes) + Len(Stored(r))
  BY <1>1, ConcatProperties
<1>3. Len(bytes) \in Nat
  BY LenProperties
<1>4. EndOf(r) = Len(bytes) + Len(Stored(r))
  BY <1>1 DEF EndOf
<1>5. SubSeq(bytes \o Stored(r), Len(bytes) + 1, Len(bytes) + Len(Stored(r)))
        = SubSeq(Stored(r), 1, Len(Stored(r)))
  <2>1. /\ Len(bytes) + 1 \in Len(bytes) + 1 .. Len(bytes) + Len(Stored(r))
        /\ Len(bytes) + Len(Stored(r))
             \in Len(bytes) + 1 .. Len(bytes) + Len(Stored(r))
    BY <1>1, <1>3
  <2>2. SubSeq(bytes \o Stored(r), Len(bytes) + 1, Len(bytes) + Len(Stored(r)))
          = SubSeq(Stored(r), (Len(bytes) + 1) - Len(bytes),
                   (Len(bytes) + Len(Stored(r))) - Len(bytes))
    BY <1>1, <2>1, SubSeqOfConcat2
  <2>3. /\ (Len(bytes) + 1) - Len(bytes) = 1
        /\ (Len(bytes) + Len(Stored(r))) - Len(bytes) = Len(Stored(r))
    BY <1>1, <1>3
  <2> QED
    BY <2>2, <2>3
<1>6. SubSeq(Stored(r), 1, Len(Stored(r))) = Stored(r)
  BY <1>1, SubSeqFull
<1> QED
  BY <1>2, <1>4, <1>5, <1>6

(***************************************************************************)
(* A written record lies in the buffer cell by cell: its header, its       *)
(* payload and its trailer.                                                *)
(***************************************************************************)
LEMMA StoredCells ==
  ASSUME NEW r \in Records
  PROVE  /\ Stored(r)[1] = HeadCell(r)
         /\ \A k \in 1 .. Len(r.payload) : Stored(r)[1 + k] = r.payload[k]
         /\ r.trailer => Stored(r)[Len(r.payload) + 2] = TailCell(r)
<1>1. /\ <<HeadCell(r)>> \in Seq(Cells) /\ Len(<<HeadCell(r)>>) = 1
      /\ <<TailCell(r)>> \in Seq(Cells) /\ Len(<<TailCell(r)>>) = 1
  BY RecordCells
<1>2. r.payload \in Seq(Cells) /\ r.trailer \in BOOLEAN
  BY SeqMonotonic DEF Records, Cells
<1>3. PICK n \in Nat : n = Len(r.payload)
  BY <1>2, LenProperties
<1>4. PICK body \in Seq(Cells) :
        /\ body = <<HeadCell(r)>> \o r.payload
        /\ Len(body) = n + 1
        /\ body[1] = HeadCell(r)
        /\ \A k \in 1 .. n : body[1 + k] = r.payload[k]
  <2> DEFINE b == <<HeadCell(r)>> \o r.payload
  <2>1. /\ b \in Seq(Cells)
        /\ Len(b) = Len(<<HeadCell(r)>>) + Len(r.payload)
        /\ \A k \in 1 .. Len(<<HeadCell(r)>>) + Len(r.payload) :
             b[k] = IF k <= Len(<<HeadCell(r)>>) THEN <<HeadCell(r)>>[k]
                    ELSE r.payload[k - Len(<<HeadCell(r)>>)]
    BY <1>1, <1>2, ConcatProperties
  <2>2. \A k \in 1 .. 1 + n :
          b[k] = IF k <= 1 THEN <<HeadCell(r)>>[k] ELSE r.payload[k - 1]
    BY <1>1, <1>3, <2>1
  <2> HIDE DEF b
  <2>3. Len(b) = n + 1
    BY <1>1, <1>3, <2>1
  <2>4. b[1] = HeadCell(r)
    BY <2>2
  <2>5. ASSUME NEW k \in 1 .. n PROVE b[1 + k] = r.payload[k]
    <3>1. 1 + k \in 1 .. 1 + n /\ ~(1 + k <= 1) /\ (1 + k) - 1 = k
      OBVIOUS
    <3> QED
      BY <2>2, <3>1
  <2>6. b \in Seq(Cells) /\ b = <<HeadCell(r)>> \o r.payload
    BY <2>1 DEF b
  <2> QED
    BY <2>3, <2>4, <2>5, <2>6
<1>5. CASE r.trailer
  <2>1. Stored(r) = body \o <<TailCell(r)>>
    BY <1>4, <1>5 DEF Stored
  <2>2. /\ \A k \in 1 .. Len(body) : (body \o <<TailCell(r)>>)[k] = body[k]
        /\ (body \o <<TailCell(r)>>)[Len(body) + 1] = TailCell(r)
    <3>1. /\ Len(<<TailCell(r)>>) >= 1
          /\ <<TailCell(r)>>[1] = TailCell(r)
          /\ \A k \in 2 .. Len(<<TailCell(r)>>) :
               <<TailCell(r)>>[k].cell # "head"
      BY <1>1
    <3> QED
      BY <1>1, <1>4, <3>1, OneHeadAppended
  <2>3. 1 \in 1 .. Len(body) /\ \A k \in 1 .. n : 1 + k \in 1 .. Len(body)
    BY <1>4
  <2>4. (body \o <<TailCell(r)>>)[n + 2] = TailCell(r)
    <3>1. Len(body) + 1 = n + 2
      BY <1>4
    <3> QED
      BY <2>2, <3>1, Zenon
  <2> QED
    BY <1>3, <1>4, <2>1, <2>2, <2>3, <2>4
<1>6. CASE ~r.trailer
  <2>1. Stored(r) = body \o <<>>
    BY <1>4, <1>6 DEF Stored
  <2>2. Stored(r) = body
    BY <1>4, <2>1, ConcatEmptySeq
  <2> QED
    BY <1>3, <1>4, <1>6, <2>2
<1> QED
  BY <1>2, <1>5, <1>6

(***************************************************************************)
(* A record that lies in some bytes at its offset lies there cell by cell: *)
(* its header, its payload and its trailer.                                *)
(***************************************************************************)
LEMMA RecordInBytes ==
  ASSUME NEW bytes \in Seq(Cells), NEW r \in Records,
         EndOf(r) <= Len(bytes),
         SubSeq(bytes, r.offset + 1, EndOf(r)) = Stored(r)
  PROVE  /\ r.offset \in Nat
         /\ Len(r.payload) \in Nat
         /\ EndOf(r) \in r.offset + 1 .. Len(bytes)
         /\ bytes[r.offset + 1] = HeadCell(r)
         /\ \A k \in 1 .. Len(r.payload) :
              bytes[r.offset + 1 + k] = r.payload[k]
         /\ r.trailer =>
              bytes[r.offset + 2 + Len(r.payload)] = TailCell(r)
<1>3. PICK o \in Nat : o = r.offset
  BY DEF Records
<1>4. PICK n \in Nat : n = Len(r.payload)
  BY LenProperties DEF Records
<1>5. PICK total \in Nat :
        /\ total = TotalSize(Len(r.payload), r.trailer)
        /\ total >= n + 1
        /\ r.trailer => total = n + 2
        /\ Len(Stored(r)) = total
  <2> DEFINE t == TotalSize(Len(r.payload), r.trailer)
  <2>1. r.trailer \in BOOLEAN
    BY DEF Records
  <2>2. /\ TotalSize(n, r.trailer) \in Nat
        /\ r.trailer => TotalSize(n, r.trailer) = n + 2
        /\ ~r.trailer => TotalSize(n, r.trailer) = n + 1
    BY <2>1, TotalSizes
  <2>3. t = TotalSize(n, r.trailer)
    BY <1>4
  <2>4. Len(Stored(r)) = t
    BY StoredType
  <2> HIDE DEF t
  <2>5. t >= n + 1
    <3>1. t = n + 2 \/ t = n + 1
      BY <2>2, <2>3
    <3> QED
      BY <3>1
  <2> QED
    BY <2>2, <2>3, <2>4, <2>5 DEF t
<1>6. EndOf(r) = o + total
  BY <1>3, <1>5 DEF EndOf
<1>7. /\ o + total <= Len(bytes)
      /\ SubSeq(bytes, o + 1, o + total) = Stored(r)
  BY <1>3, <1>6
<1>8. ASSUME NEW k \in 1 .. total
      PROVE  bytes[o + k] = Stored(r)[k]
  <2>2. \A j \in 1 .. (o + total) - (o + 1) + 1 :
          SubSeq(bytes, o + 1, o + total)[j] = bytes[(o + 1) + j - 1]
    <3> DEFINE from == o + 1
               to == o + total
    <3>1. from \in Int /\ to \in Int /\ \A i \in from .. to : i \in 1 .. Len(bytes)
      BY <1>7, LenProperties
    <3> HIDE DEF from, to
    <3>2. \A i \in from .. to : bytes[i] \in Cells
      BY <3>1, LenProperties, ElementOfSeq
    <3>3. \A j \in 1 .. to - from + 1 :
            SubSeq(bytes, from, to)[j] = bytes[from + j - 1]
      BY <3>1, <3>2, SubSeqProperties
    <3> QED
      BY <3>3 DEF from, to
  <2>3. k \in 1 .. (o + total) - (o + 1) + 1 /\ (o + 1) + k - 1 = o + k
    OBVIOUS
  <2> QED
    BY <1>7, <2>2, <2>3
<1>9. bytes[o + 1] = HeadCell(r)
  <2>1. 1 \in 1 .. total
    BY <1>5
  <2> QED
    BY <1>8, <2>1, StoredCells
<1>10. ASSUME NEW k \in 1 .. n PROVE bytes[o + 1 + k] = r.payload[k]
  <2>1. 1 + k \in 1 .. total /\ o + (1 + k) = o + 1 + k
    BY <1>5
  <2> QED
    BY <1>4, <1>8, <2>1, StoredCells
<1>11. ASSUME r.trailer PROVE bytes[o + 2 + n] = TailCell(r)
  <2>1. n + 2 \in 1 .. total /\ o + (n + 2) = o + 2 + n
    <3>1. total = n + 2
      BY <1>5, <1>11
    <3> QED
      BY <3>1
  <2> QED
    BY <1>4, <1>8, <1>11, <2>1, StoredCells
<1>12. Len(bytes) \in Nat
  BY LenProperties
<1>13. EndOf(r) \in o + 1 .. Len(bytes)
  BY <1>5, <1>6, <1>7, <1>12
<1> QED
  BY <1>3, <1>4, <1>9, <1>10, <1>11, <1>13

(***************************************************************************)
(* The beginning of some cells.                                            *)
(***************************************************************************)
LEMMA Beginning ==
  ASSUME NEW bytes \in Seq(Cells), NEW n \in 0 .. Len(bytes)
  PROVE  /\ SubSeq(bytes, 1, n) \in Seq(Cells)
         /\ Len(SubSeq(bytes, 1, n)) = n
         /\ \A p \in 1 .. n : SubSeq(bytes, 1, n)[p] = bytes[p]
<1>1. Len(bytes) \in Nat /\ \A p \in 1 .. Len(bytes) : bytes[p] \in Cells
  BY LenProperties, ElementOfSeq
<1>2. /\ SubSeq(bytes, 1, n) \in Seq(Cells)
      /\ Len(SubSeq(bytes, 1, n)) = IF 1 <= n THEN n - 1 + 1 ELSE 0
      /\ \A p \in 1 .. n - 1 + 1 : SubSeq(bytes, 1, n)[p] = bytes[1 + p - 1]
  BY <1>1, SubSeqProperties
<1>3. Len(SubSeq(bytes, 1, n)) = n
  BY <1>1, <1>2
<1>4. \A p \in 1 .. n : SubSeq(bytes, 1, n)[p] = bytes[p]
  BY <1>1, <1>2
<1> QED
  BY <1>2, <1>3, <1>4

-----------------------------------------------------------------------------
(* The rules between records. *)

(***************************************************************************)
(* What a record may be depends only on the records before it.             *)
(***************************************************************************)
LEMMA OnlyBeforeMatters ==
  ASSUME NEW d, NEW e, NEW n \in Nat, NEW r,
         \A i \in 1 .. n : d[i] = e[i],
         Lawful(d, n, r)
  PROVE  Lawful(e, n, r)
<1>1. \A id, rev : SchemasBefore(d, n, id, rev) = SchemasBefore(e, n, id, rev)
  BY DEF SchemasBefore
<1>2. \A id, stream : ItemsBefore(d, n, id, stream)
                        = ItemsBefore(e, n, id, stream)
  BY DEF ItemsBefore
<1>3. DatasBefore(d, n) = DatasBefore(e, n)
  BY DEF DatasBefore
<1>4. \A id, rev : \A i \in SchemasBefore(d, n, id, rev) : d[i] = e[i]
  BY DEF SchemasBefore
<1>5. \A id, stream : \A i \in ItemsBefore(d, n, id, stream) : d[i] = e[i]
  BY DEF ItemsBefore
<1>6. CASE r.type = "SCMA"
  BY <1>1, <1>4, <1>6 DEF Lawful, LawfulSchema
<1>7. CASE r.type = "DATA"
  BY <1>1, <1>4, <1>7 DEF Lawful, LawfulData
<1>8. CASE r.type = "TEXT"
  BY <1>1, <1>4, <1>8 DEF Lawful, LawfulText
<1>9. CASE r.type = "BLOB"
  BY <1>1, <1>2, <1>4, <1>5, <1>9 DEF Lawful, LawfulItem
<1>10. CASE r.type = "INDX"
  <2>1. \A c : TrueEntry(d, n, c) => TrueEntry(e, n, c)
    BY DEF TrueEntry
  <2> QED
    BY <1>10, <2>1 DEF Lawful
<1>11. CASE r.type = "END!"
  BY <1>3, <1>11 DEF Lawful, LawfulEnd
<1> QED
  BY <1>6, <1>7, <1>8, <1>9, <1>10, <1>11 DEF Lawful

(***************************************************************************)
(* A log that keeps the rules goes on keeping them with a lawful record.   *)
(***************************************************************************)
LEMMA LawfulGrows ==
  ASSUME NEW d \in Seq(Records), NEW r \in Records,
         LawfulLog(d), Lawful(d, Len(d), r)
  PROVE  LawfulLog(Append(d, r))
<1>1. PICK n \in Nat : n = Len(d)
  BY LenProperties
<1>2. PICK e : /\ e = Append(d, r)
               /\ Len(e) = n + 1
               /\ \A i \in 1 .. n : e[i] = d[i]
               /\ e[n + 1] = r
  BY <1>1, AppendProperties
<1>3. ASSUME NEW i \in 1 .. n + 1
      PROVE  Lawful(e, i - 1, e[i])
  <2>1. i - 1 \in Nat /\ \A k \in 1 .. i - 1 : d[k] = e[k]
    BY <1>2
  <2>2. CASE i \in 1 .. n
    <3>1. Lawful(d, i - 1, d[i]) /\ e[i] = d[i]
      BY <1>1, <1>2, <2>2 DEF LawfulLog
    <3> QED
      BY <2>1, <3>1, OnlyBeforeMatters
  <2>3. CASE i = n + 1
    <3>1. i - 1 = n /\ e[i] = r
      BY <1>2, <2>3
    <3>2. Lawful(d, i - 1, r)
      BY <1>1, <3>1
    <3> QED
      BY <2>1, <3>1, <3>2, OnlyBeforeMatters
  <2> QED
    BY <2>2, <2>3
<1> QED
  BY <1>2, <1>3 DEF LawfulLog

(***************************************************************************)
(* The same of samples both libraries take.                                *)
(***************************************************************************)
LEMMA OnlySchemasMatter ==
  ASSUME NEW d, NEW e, NEW n \in Nat, NEW r,
         \A i \in 1 .. n : d[i] = e[i],
         SoundSamples(d, n, r)
  PROVE  SoundSamples(e, n, r)
<1>1. \A id, rev : SchemasBefore(d, n, id, rev) = SchemasBefore(e, n, id, rev)
  BY DEF SchemasBefore
<1>2. \A id, rev : \A i \in SchemasBefore(d, n, id, rev) : d[i] = e[i]
  BY DEF SchemasBefore
<1> QED
  BY <1>1, <1>2 DEF SoundSamples

LEMMA SoundGrows ==
  ASSUME NEW d \in Seq(Records), NEW r \in Records,
         SoundLog(d), SoundSamples(d, Len(d), r)
  PROVE  SoundLog(Append(d, r))
<1>1. PICK n \in Nat : n = Len(d)
  BY LenProperties
<1>2. PICK e : /\ e = Append(d, r)
               /\ Len(e) = n + 1
               /\ \A i \in 1 .. n : e[i] = d[i]
               /\ e[n + 1] = r
  BY <1>1, AppendProperties
<1>3. ASSUME NEW i \in 1 .. n + 1
      PROVE  SoundSamples(e, i - 1, e[i])
  <2>1. i - 1 \in Nat /\ \A k \in 1 .. i - 1 : d[k] = e[k]
    BY <1>2
  <2>2. CASE i \in 1 .. n
    <3>1. SoundSamples(d, i - 1, d[i]) /\ e[i] = d[i]
      BY <1>1, <1>2, <2>2 DEF SoundLog
    <3> QED
      BY <2>1, <3>1, OnlySchemasMatter
  <2>3. CASE i = n + 1
    <3>1. i - 1 = n /\ e[i] = r
      BY <1>2, <2>3
    <3>2. SoundSamples(d, i - 1, r)
      BY <1>1, <3>1
    <3> QED
      BY <2>1, <3>1, <3>2, OnlySchemasMatter
  <2> QED
    BY <2>2, <2>3
<1> QED
  BY <1>2, <1>3 DEF SoundLog
=============================================================================
