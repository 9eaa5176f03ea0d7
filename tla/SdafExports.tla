---------------------------- MODULE SdafExports ----------------------------
(***************************************************************************)
(* The three exports of the command line tool (cli/exports.c) as sequences *)
(* of tokens.  The shape of a dump follows from the counts of the records  *)
(* and from what each of them points to; names, numbers and texts are one  *)
(* token, whatever they say.                                               *)
(***************************************************************************)
EXTENDS SdafOwnership, Integers

\* What an exporter is given of a record: the samples it may walk, and the
\* values that are fixed bytes.
Walkable(r) == IF Samples \in r.fields THEN CountOf(r, Samples) ELSE 0
Values(r, s) == CountOf(r, <<"values", s>>)
IsBytes(r, s, v) == <<"bytes", s, v>> \in r.fields

\* Every other channel has a unit.
HasUnit(v) == v % 2 = 1

Concat(seqs) == FlattenSeq(seqs)
Repeat(token, n) == [i \in 1 .. n |-> token]

-----------------------------------------------------------------------------
(* CBOR: a head announces how many items follow it, and nothing closes.    *)

Map(n) == [major |-> "map", n |-> n]
Array(n) == [major |-> "array", n |-> n]
Item == [major |-> "item", n |-> 0]

\* Keys and values that are single items.
Pairs(n) == Repeat(Item, 2 * n)

CborValue(r, s, v) ==
  IF IsBytes(r, s, v)
  THEN <<Map(3)>> \o Pairs(3)                   \* channel_id, name, raw
  ELSE <<Map(4)>> \o Pairs(3) \o Pairs(1)       \* and physical

CborSample(r, s) ==
  <<Map(IF r.timed THEN 3 ELSE 2)>> \o Pairs(1)
    \o (IF r.timed THEN Pairs(1) ELSE <<>>)
    \o <<Item, Array(Values(r, s))>>
    \o Concat([v \in 1 .. Values(r, s) |-> CborValue(r, s, v)])

\* The number of entries a record's map has beside type, type_id and
\* sequence.
Extras(type) ==
  CASE type \in {"SCMA", "END!"} -> 3
    [] type = "DATA" -> 4
    [] type \in {"TEXT", "BLOB"} -> 5
    [] type \in {"NOTE", "INDX", "PRIV"} -> 1

\* (a defective variant, for the mutation runs)
CborSamplesDeclared(r) ==   \* samples are announced by sample_count
  <<Item, Array(CountOf(r, Samples))>>
    \o Concat([s \in 1 .. Walkable(r) |-> CborSample(r, s)])

CborSamples(r) ==
  <<Item, Array(Walkable(r))>>
    \o Concat([s \in 1 .. Walkable(r) |-> CborSample(r, s)])

CborObjects(r) ==
  <<Item, Array(CountOf(r, Objects))>>
    \o Concat([i \in 1 .. CountOf(r, Objects) |-> <<Map(3)>> \o Pairs(3)])

CborContent(r) ==
  CASE r.type = "SCMA" -> Pairs(2) \o CborObjects(r)
    [] r.type = "DATA" -> Pairs(3) \o CborSamples(r)
    [] OTHER -> Pairs(Extras(r.type))

CborRecord(r) == <<Map(3 + Extras(r.type))>> \o Pairs(3) \o CborContent(r)

WriteCbor(document) ==
  <<Map(2), Item, Map(2)>> \o Pairs(2) \o <<Item, Array(Len(document))>>
    \o Concat([i \in 1 .. Len(document) |-> CborRecord(document[i])])

-----------------------------------------------------------------------------
(* JSON: brackets and separators. *)

Separated(elements) ==
  Concat([i \in 1 .. Len(elements) |->
            IF i = 1 THEN elements[1] ELSE <<"comma">> \o elements[i]])

Members(n) == Separated(Repeat(<<"key", "scalar">>, n))
MoreMembers(n) == Concat(Repeat(<<"comma", "key", "scalar">>, n))

JsonValue(r, s, v) ==
  <<"object">> \o Members(4)
    \o MoreMembers(IF IsBytes(r, s, v) THEN 0 ELSE 1)
    \o MoreMembers(IF HasUnit(v) THEN 1 ELSE 0) \o <<"end_object">>

JsonSample(r, s) ==
  <<"object">> \o Members(1) \o MoreMembers(IF r.timed THEN 1 ELSE 0)
    \o <<"comma", "key", "array">>
    \o Separated([v \in 1 .. Values(r, s) |-> JsonValue(r, s, v)])
    \o <<"end_array", "end_object">>

\* The members of a record after type, type_id and sequence.
JsonContent(r) ==
  CASE r.type = "DATA" ->
         MoreMembers(3) \o <<"comma", "key", "array">>
           \o Separated([s \in 1 .. Walkable(r) |-> JsonSample(r, s)])
           \o <<"end_array">>
    [] r.type = "SCMA" -> MoreMembers(3)
    [] r.type = "TEXT" -> MoreMembers(4)
    [] r.type = "BLOB" -> MoreMembers(5)
    [] r.type = "END!" -> MoreMembers(2)
    [] r.type \in {"NOTE", "INDX"} -> MoreMembers(1)
    [] OTHER -> <<>>

JsonRecord(r) ==
  <<"object">> \o Members(1) \o MoreMembers(2) \o JsonContent(r)
    \o <<"end_object">>

WriteJson(document) ==
  <<"object", "key", "object">> \o Members(4)
    \o <<"end_object", "comma", "key", "array">>
    \o Separated([i \in 1 .. Len(document) |-> JsonRecord(document[i])])
    \o <<"end_array", "end_object">>

-----------------------------------------------------------------------------
(* CSV: one line for each value of each sample. *)

CsvHeading == Separated(Repeat(<<"cell">>, 10)) \o <<"newline">>

CsvValue(r, s, v) ==
  <<"cell", "comma", "cell", "comma", "cell", "comma">>  \* sequence, stream, index
    \o (IF r.timed THEN <<"cell">> ELSE <<>>)
    \o <<"comma", "cell", "comma", "cell", "comma", "cell", "comma">>  \* channel, element
    \o <<"cell", "comma">>                        \* raw
    \o (IF IsBytes(r, s, v) THEN <<>> ELSE <<"cell">>)
    \o <<"comma">> \o (IF HasUnit(v) THEN <<"cell">> ELSE <<>>)
    \o <<"newline">>

CsvRecord(r) ==
  IF r.type # "DATA" THEN <<>>
  ELSE Concat([s \in 1 .. Walkable(r) |->
         Concat([v \in 1 .. Values(r, s) |-> CsvValue(r, s, v)])])

WriteCsv(document) ==
  CsvHeading
    \o Concat([i \in 1 .. Len(document) |-> CsvRecord(document[i])])

-----------------------------------------------------------------------------
(* What a reader of a dump expects of it: it takes token by token.        *)

\* Of CBOR it keeps how many items are still owed, never fewer than one
\* before a token.
TakeItem(owed, t) ==
  IF owed < 1 THEN -1
  ELSE owed - 1 + (IF t.major = "map" THEN 2 * t.n ELSE t.n)

\* Of JSON it keeps the brackets that are open, innermost first, and the last
\* token.
NotJson == [open |-> <<>>, last |-> "wrong"]

\* What may come after the last token: in an object a key, in an array a
\* value, at the beginning or after a comma; a value after a key; a comma or
\* the closing bracket after a value.
MayFollow(open, last, t) ==
  LET start == IF open = "object" THEN {"key"}
               ELSE {"scalar", "object", "array"}
      close == IF open = "object" THEN "end_object" ELSE "end_array"
  IN
  CASE last \in {"object", "array"} -> t \in start \cup {close}
    [] last = "comma" -> t \in start
    [] last = "key" -> t \in {"scalar", "object", "array"}
    [] OTHER -> t \in {"comma", close}

TakeJson(s, t) ==
  IF s.last = "nothing"
  THEN IF t = "object" THEN [open |-> <<t>>, last |-> t] ELSE NotJson
  ELSE IF s.open = <<>> \/ ~MayFollow(Head(s.open), s.last, t) THEN NotJson
  ELSE [open |-> CASE t \in {"object", "array"} -> <<t>> \o s.open
                   [] t \in {"end_object", "end_array"} -> Tail(s.open)
                   [] OTHER -> s.open,
        last |-> t]

\* Of CSV it keeps the column it is in and the last token; every line has ten
\* columns, some of them empty.
NotCsv == [column |-> 0, last |-> "wrong"]

TakeCell(s, t) ==
  IF s.last = "wrong" THEN NotCsv
  ELSE CASE t = "comma" -> [column |-> s.column + 1, last |-> t]
         [] t = "cell" -> IF s.last = t THEN NotCsv ELSE [s EXCEPT !.last = t]
         [] OTHER -> IF s.column = 10 THEN [column |-> 1, last |-> t]
                     ELSE NotCsv

Take(form, s, t) ==
  CASE form = "cbor" -> TakeItem(s, t)
    [] form = "json" -> TakeJson(s, t)
    [] form = "csv" -> TakeCell(s, t)

\* What is kept after all of the tokens.
Taken(form, start, tokens) ==
  LET state[k \in 0 .. Len(tokens)] ==
        IF k = 0 THEN start ELSE Take(form, state[k - 1], tokens[k])
  IN state[Len(tokens)]

LineStart == [column |-> 1, last |-> "newline"]

IsOneItem(tokens) == Taken("cbor", 1, tokens) = 0
IsJson(tokens) ==
  Taken("json", [open |-> <<>>, last |-> "nothing"], tokens)
    = [open |-> <<>>, last |-> "end_object"]
IsTable(tokens) == Taken("csv", LineStart, tokens) = LineStart
=============================================================================
