----------------------------- MODULE SdafSchema -----------------------------
(***************************************************************************)
(* The rules of a schema as the C library checks them (sdaf_schema.c).     *)
(*                                                                         *)
(* A schema is a sequence of objects, an object a record of its kind, its  *)
(* id and its sequence of TLVs.  A TLV has a tag, a wire type, a value, and *)
(* is "sound" or not: its size is that of its wire type, its text is UTF-8, *)
(* its boolean 0 or 1, its denominator not 0.  Texts and rationals are     *)
(* numbers that stand for them, the empty text is 0.                       *)
(***************************************************************************)
EXTENDS Naturals, FiniteSets, SequencesExt

Kinds == {"metadata", "stream", "channel", "clock", "map", "bitfield"}

Unsigned == 1
Signed == 2
Float == 3
Boolean == 4
FixedBytes == 5

\* Of the semantics of a channel these two have rules.
SourceTicks == 1
TargetTicks == 2

-----------------------------------------------------------------------------
(* Queries.  The first TLV with a tag and the first object with an id count. *)

First(o, tag) == SelectInSeq(o.tlvs, LAMBDA t : t.tag = tag)
Has(o, tag) == First(o, tag) # 0
Get(o, tag, default) ==
  IF Has(o, tag) THEN o.tlvs[First(o, tag)].value ELSE default

\* The positions of a tag that may be repeated.
Every(o, tag) == {i \in DOMAIN o.tlvs : o.tlvs[i].tag = tag}

Position(s, kind, id) ==
  SelectInSeq(s, LAMBDA o : o.kind = kind /\ o.id = id)
Resolves(s, kind, id) == Position(s, kind, id) # 0
Referred(s, kind, id) == s[Position(s, kind, id)]

\* The positions of a stream's channels.
ChannelsOf(s, id) ==
  {i \in DOMAIN s : s[i].kind = "channel" /\ Get(s[i], 200, 0) = id}

-----------------------------------------------------------------------------
(* Objects by themselves. *)

Wires ==
  [utf8 |-> (1 .. 7) \cup {10, 107, 204, 208, 304},
   u32 |-> {8, 9, 104, 105, 200, 207, 209, 210} \cup (108 .. 111),
   u8 |-> {100, 103, 106, 201, 300, 303},
   rational_u64 |-> {101, 102, 301},
   u16 |-> {202, 203, 302, 500},
   f64 |-> {205, 206},
   rational_i64 |-> {211, 212},
   bytes |-> {400, 501}]

\* A tag that is in no list may have any wire type.
WireAllowed(table, t) == \A w \in DOMAIN table : t.tag \in table[w] => t.wire = w

Repeatable(o, tag) == <<o.kind, tag>> \in {<<"map", 400>>, <<"bitfield", 501>>}

ValidTlvs(o) ==
  \A i \in DOMAIN o.tlvs :
    LET t == o.tlvs[i] IN
    /\ t.sound /\ WireAllowed(Wires, t)
    /\ \A j \in 1 .. i - 1 : o.tlvs[j].tag = t.tag => Repeatable(o, t.tag)

-----------------------------------------------------------------------------
(* What objects say of each other. *)

WidthsFit(type, logical, storage) ==
  CASE type \in {Unsigned, Signed} -> 1 <= logical /\ logical <= storage /\ storage <= 64
    [] type = Float -> <<logical, storage>> \in {<<32, 32>>, <<64, 64>>}
    [] type = Boolean -> logical = 1 /\ storage = 1
    [] type = FixedBytes -> storage >= 8 /\ storage % 8 = 0 /\ logical = storage
    [] OTHER -> FALSE

ValidChannel(s, o) ==
  LET type == Get(o, 201, 0)
      storage == Get(o, 203, 0)
      map == Get(o, 209, 0)
      bitfield == Get(o, 210, 0)
  IN
  /\ Has(o, 200) /\ Resolves(s, "stream", Get(o, 200, 0))
  /\ Has(o, 201) /\ Has(o, 203)
  /\ Has(o, 202) \/ type = FixedBytes
  /\ WidthsFit(type, Get(o, 202, storage), storage)
  /\ ~(Has(o, 205) /\ Has(o, 211)) /\ ~(Has(o, 206) /\ Has(o, 212))
  /\ Get(o, 207, 1) # 0
  /\ ~(map # 0 /\ bitfield # 0)
  /\ map # 0 => Resolves(s, "map", map)
  /\ bitfield # 0 => Resolves(s, "bitfield", bitfield)

\* What a stream repeats of its clock agrees with the clock.
SameTimebase(o, clock) ==
  \A p \in {<<100, 300>>, <<101, 301>>} :
    Has(o, p[1]) => Has(clock, p[2]) /\ Get(o, p[1], 0) = Get(clock, p[2], 0)

\* (a defective variant, for the mutation runs)
CorrelatesOneWay(s, o) ==   \* the target is not looked for
  LET channels == {s[i] : i \in ChannelsOf(s, o.id)} IN
  /\ Get(o, 108, 0) # 0 /\ Resolves(s, "clock", Get(o, 108, 0))
  /\ \A c \in channels : Get(c, 201, 0) = Signed /\ Get(c, 207, 1) = 1
  /\ \E c \in channels : Get(c, 208, 0) = SourceTicks

Correlates(s, o) ==
  LET channels == {s[i] : i \in ChannelsOf(s, o.id)} IN
  /\ \A tag \in {108, 109} :
       Get(o, tag, 0) # 0 /\ Resolves(s, "clock", Get(o, tag, 0))
  /\ \A c \in channels : Get(c, 201, 0) = Signed /\ Get(c, 207, 1) = 1
  /\ \A semantic \in {SourceTicks, TargetTicks} :
       \E c \in channels : Get(c, 208, 0) = semantic

ValidStream(s, o) ==
  LET kind == Get(o, 106, 1)
      actual == Cardinality(ChannelsOf(s, o.id))
      clock == Get(o, 105, 0)
  IN
  /\ kind \in 1 .. 4
  /\ Get(o, 104, actual) = actual
  /\ kind \in {2, 3} => actual = 0
  /\ Get(o, 100, 0) <= 4
  /\ kind = 3 => Get(o, 107, 0) # 0
  /\ clock # 0 => /\ Resolves(s, "clock", clock)
                  /\ SameTimebase(o, Referred(s, "clock", clock))
  /\ kind = 4 => Correlates(s, o)
  /\ \A tag \in {110, 111} :
       Has(o, tag) => Get(o, tag, 0) # 0 /\ Resolves(s, "map", Get(o, tag, 0))

ValidClock(o) == Has(o, 300) /\ Get(o, 300, 0) <= 4 /\ Has(o, 301)

\* A map's entries name raw values.
ValidMap(o) ==
  LET Entry(i) == o.tlvs[i].value IN
  \A i \in Every(o, 400) :
    /\ Entry(i).sound /\ Entry(i).name # 0
    /\ \A j \in Every(o, 400) : j < i =>
         Entry(j).raw # Entry(i).raw /\ Entry(j).name # Entry(i).name

Bits(member) == member.lsb .. member.lsb + member.width - 1

\* A bitfield's members name ranges of bits.
ValidBitfield(s, o) ==
  LET storage == Get(o, 500, 0)
      Member(i) == o.tlvs[i].value
  IN
  /\ storage # 0
  /\ \A i \in Every(o, 501) :
       LET m == Member(i) IN
       /\ m.sound /\ m.width # 0 /\ m.lsb + m.width <= storage
       /\ m.map # 0 => Resolves(s, "map", m.map)
       /\ \A j \in Every(o, 501) : j < i => Bits(Member(j)) \cap Bits(m) = {}
  /\ \A i \in DOMAIN s :
       s[i].kind = "channel" /\ Get(s[i], 210, 0) = o.id =>
         Has(s[i], 203) /\ Get(s[i], 203, 0) = storage

ValidReferences(s, o) ==
  /\ o.kind = "stream" => ValidStream(s, o)
  /\ o.kind = "channel" => ValidChannel(s, o)
  /\ o.kind = "map" => ValidMap(o)
  /\ o.kind = "bitfield" => ValidBitfield(s, o)
  /\ o.kind = "clock" => ValidClock(o)

SameId(o, p) == o.kind = p.kind /\ o.id = p.id

\* (a defective variant, for the mutation runs)
UnlikeLast(s, i) == i > 1 => ~SameId(s[i - 1], s[i])   \* looks back once only

UnlikeEarlier(s, i) == \A j \in 1 .. i - 1 : ~SameId(s[j], s[i])

\* sdaf_validate_schema.
Accepts(s) ==
  /\ \A i \in DOMAIN s :
       /\ s[i].kind \in Kinds /\ s[i].id # 0
       /\ UnlikeEarlier(s, i)
       /\ ValidTlvs(s[i])
  /\ \A i \in DOMAIN s : ValidReferences(s, s[i])

-----------------------------------------------------------------------------
(* sdaf_channels_for_stream, for a schema that was accepted. *)

ChannelInfo(o) ==
  [id |-> o.id, type |-> Get(o, 201, 0),
   logical |-> Get(o, 202, Get(o, 203, 0)), storage |-> Get(o, 203, 0),
   elements |-> Get(o, 207, 1)]

\* Positions in the order of the ids of their objects.
OrderedById(s, positions) ==
  CHOOSE q \in [1 .. Cardinality(positions) -> positions] :
    \A i, j \in DOMAIN q : i < j => q[i] # q[j] /\ s[q[i]].id <= s[q[j]].id

\* (a defective variant, for the mutation runs)
ChannelsUnsorted(s, id) ==   \* in the order of the schema
  LET q == CHOOSE q \in [1 .. Cardinality(ChannelsOf(s, id)) -> ChannelsOf(s, id)] :
             \A i, j \in DOMAIN q : i < j => q[i] < q[j]
  IN [k \in DOMAIN q |-> ChannelInfo(s[q[k]])]

ChannelsForStream(s, id) ==
  LET q == OrderedById(s, ChannelsOf(s, id))
  IN [k \in DOMAIN q |-> ChannelInfo(s[q[k]])]
=============================================================================
