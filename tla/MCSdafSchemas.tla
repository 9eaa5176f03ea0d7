--------------------------- MODULE MCSdafSchemas ---------------------------
(***************************************************************************)
(* Schemas of up to four objects.  A family varies one group of rules:     *)
(* each of its objects is good but for the tags that vary, and may come    *)
(* first, last, twice or not at all.                                       *)
(***************************************************************************)
EXTENDS SdafSchemas

Wire(tag) ==
  IF \E w \in DOMAIN Wires : tag \in Wires[w]
  THEN CHOOSE w \in DOMAIN Wires : tag \in Wires[w] ELSE "u64"

Tlv(tag, value) == [tag |-> tag, wire |-> Wire(tag), sound |-> TRUE, value |-> value]

\* No TLV, or one with one of the values.
Maybe(tag, values) == {<<>>} \cup {<<Tlv(tag, v)>> : v \in values}

Join(left, right) == {l \o r : l \in left, r \in right}
JoinAll(sets) == FoldLeft(Join, {<<>>}, sets)

Object(kind, id, tlvs) == [kind |-> kind, id |-> id, tlvs |-> tlvs]
SomeOf(kind, id, all) == {Object(kind, id, tlvs) : tlvs \in all}

Stream == Object("stream", 1, <<>>)
PlainTlvs == <<Tlv(200, 1), Tlv(201, Unsigned), Tlv(202, 8), Tlv(203, 8)>>
Channel(id) == Object("channel", id, PlainTlvs)
Clock == Object("clock", 1, <<Tlv(300, 1), Tlv(301, 1)>>)
ValueMap == Object("map", 1, <<>>)

-----------------------------------------------------------------------------

\* Every tag with every wire type, sound or not, and unknown tags.
Tags == (UNION {Wires[w] : w \in DOMAIN Wires}) \cup {11, 999}
OddTlvs ==
  {{Object("metadata", 1, <<[tag |-> t, wire |-> w, sound |-> b, value |-> 1]>>)} :
     t \in Tags, w \in DOMAIN Wires \cup {"bool"}, b \in BOOLEAN}

\* Tags that come twice, kinds that are unknown, and ids of 0.
Repeats ==
  {{Object(k, id, <<[tag |-> t, wire |-> Wire(t), sound |-> TRUE, value |-> 1],
                    [tag |-> u, wire |-> Wire(u), sound |-> TRUE, value |-> 1]>>)} :
     k \in {"metadata", "clock", "unknown"}, id \in {0, 1},
     t \in {1, 400, 999}, u \in {1, 400, 999}}

\* The kind of a stream and the number of its channels.
Counts ==
  {{Object("stream", 1, tlvs), Channel(1), Channel(2)} :
     tlvs \in JoinAll(<<Maybe(104, 0 .. 2), Maybe(106, 0 .. 5), Maybe(107, {0, 1})>>)}

\* Types and widths.
Widths ==
  {{Stream, Object("channel", 1, <<Tlv(200, 1)>> \o tlvs)} :
     tlvs \in JoinAll(<<Maybe(201, 0 .. 6), Maybe(202, {0, 1, 8, 32, 64, 65}),
                        Maybe(203, {0, 1, 8, 12, 32, 64, 65, 72})>>)}

\* Streams that are there or not, both forms of scale and offset, elements.
Forms ==
  {{Stream, Object("channel", 1, tlvs \o Tail(PlainTlvs))} :
     tlvs \in JoinAll(<<Maybe(200, {1, 2}), Maybe(207, 0 .. 2), Maybe(205, {1}),
                        Maybe(206, {1}), Maybe(211, {1}), Maybe(212, {1})>>)}

\* Maps and bitfields of channels.
Interpretations ==
  {{Stream, Object("channel", 1, PlainTlvs \o tlvs), ValueMap,
    Object("bitfield", 1, <<Tlv(500, storage)>>)} :
     tlvs \in Join(Maybe(209, 0 .. 2), Maybe(210, 0 .. 2)), storage \in {8, 9}}

\* The timebase of a stream and of its clock.
Timebases ==
  {{Object("stream", 1, mine), Object("clock", 1, its)} :
     mine \in JoinAll(<<Maybe(100, {1, 2, 5}), Maybe(101, {1, 2}), Maybe(105, 0 .. 2)>>),
     its \in Join(Maybe(300, {1, 5}), Maybe(301, {1, 2}))}

\* Clock correlation.
Correlated == <<Tlv(106, 4), Tlv(108, 1), Tlv(109, 1)>>
Ticks(id, all) ==
  SomeOf("channel", id, Join({<<Tlv(200, 1), Tlv(202, 8), Tlv(203, 8)>>}, all))
TickTlvs == JoinAll(<<{<<Tlv(201, Signed)>>, <<Tlv(201, Unsigned)>>},
                      Maybe(207, {2}), Maybe(208, {SourceTicks, TargetTicks})>>)
Correlations ==
  {{Clock, Object("stream", 1, Correlated), one, other} :
     one \in Ticks(1, TickTlvs), other \in Ticks(2, TickTlvs)}
  \cup
  {{Clock, Object("stream", 1, <<Tlv(106, 4)>> \o tlvs)} \cup
   {Object("channel", s, <<Tlv(200, 1), Tlv(201, Signed), Tlv(202, 8), Tlv(203, 8),
                           Tlv(208, s)>>) : s \in {SourceTicks, TargetTicks}} :
     tlvs \in Join(Maybe(108, 0 .. 2), Maybe(109, 0 .. 2))}

\* The maps of a stream of texts.
TextMaps ==
  {{Object("stream", 1, <<Tlv(106, 2)>> \o tlvs), ValueMap} :
     tlvs \in Join(Maybe(110, 0 .. 2), Maybe(111, 0 .. 2))}

Entries == [raw : {1, 2}, name : 0 .. 2, sound : {TRUE}]
             \cup [raw : {1}, name : {1}, sound : {FALSE}]
Maps ==
  {{Object("map", 1, [i \in DOMAIN e |-> Tlv(400, e[i])])} : e \in SeqOf(Entries, 3)}

Members == [lsb : {0, 4}, width : {0, 4, 5}, map : 0 .. 1, sound : {TRUE}]
             \cup [lsb : {0}, width : {1}, map : {0}, sound : {FALSE}]
Bitfields ==
  {{ValueMap, Object("bitfield", 1, storage \o [i \in DOMAIN m |-> Tlv(501, m[i])])} :
     storage \in Maybe(500, {0, 8}), m \in SeqOf(Members, 2)}

MCFamilies ==
  OddTlvs \cup Repeats \cup Counts \cup Widths \cup Forms \cup Interpretations
    \cup Timebases \cup Correlations \cup TextMaps \cup Maps \cup Bitfields
=============================================================================
