---------------------------- MODULE SdafNetSchema ----------------------------
(***************************************************************************)
(* The rules of a schema as the .NET reader checks them (ValidateSchema of *)
(* SdafReader.cs, GetChannels of SampleCodec.cs).                          *)
(***************************************************************************)
EXTENDS SdafSchema

NetWires ==
  [utf8 |-> (1 .. 7) \cup {10} \cup {107, 204, 208, 304},
   u32 |-> {8, 9} \cup {104, 105, 108, 109, 110, 111, 200, 207, 209, 210},
   u8 |-> {100, 103, 106, 300, 303} \cup {201},
   rational_u64 |-> {101, 102, 301},
   u16 |-> {202, 203, 302, 500},
   f64 |-> {205, 206},
   rational_i64 |-> {211, 212},
   bytes |-> {400, 501}]

\* ParseTlvs, ValidateKnownTagTypes, and the groups of equal tags.
NetValidTlvs(o) ==
  LET Count(tag) == Cardinality({i \in DOMAIN o.tlvs : o.tlvs[i].tag = tag}) IN
  \A i \in DOMAIN o.tlvs :
    /\ o.tlvs[i].sound /\ WireAllowed(NetWires, o.tlvs[i])
    /\ Count(o.tlvs[i].tag) > 1 => Repeatable(o, o.tlvs[i].tag)

\* The positions of a stream's channels: those that have the tag.
NetChannels(s, id) ==
  {i \in DOMAIN s : /\ s[i].kind = "channel"
                    /\ Has(s[i], 200) /\ Get(s[i], 200, 0) = id}

NetWidthsFit(type, logical, storage) ==
  CASE type \in {Unsigned, Signed} ->
         logical \in 1 .. 64 /\ storage >= logical /\ storage <= 64
    [] type = Float -> logical = storage /\ logical \in {32, 64}
    [] type = Boolean -> logical = 1 /\ storage = 1
    [] type = FixedBytes -> storage >= 8 /\ storage % 8 = 0 /\ logical = storage
    [] OTHER -> FALSE

\* GetChannels builds a ChannelInfo, or throws.
NetReadable(o) ==
  LET type == Get(o, 201, 0) IN
  /\ Has(o, 201) /\ Has(o, 203)
  /\ Has(o, 202) \/ type = FixedBytes
  /\ Get(o, 207, 1) # 0
  /\ NetWidthsFit(type, Get(o, 202, Get(o, 203, 0)), Get(o, 203, 0))
  /\ ~(Has(o, 205) /\ Has(o, 211)) /\ ~(Has(o, 206) /\ Has(o, 212))

NetChannelInfo(o) ==
  LET storage == Get(o, 203, 0) IN
  [id |-> o.id, type |-> Get(o, 201, 0), logical |-> Get(o, 202, storage),
   storage |-> storage, elements |-> Get(o, 207, 1)]

NetGetChannels(s, id) ==
  LET q == OrderedById(s, NetChannels(s, id))
  IN [k \in DOMAIN q |-> NetChannelInfo(s[q[k]])]

NetCorrelates(s, o) ==
  LET channels == {s[i] : i \in NetChannels(s, o.id)} IN
  /\ \A tag \in {108, 109} :
       Get(o, tag, 0) # 0 /\ Resolves(s, "clock", Get(o, tag, 0))
  /\ \A c \in channels :
       Has(c, 201) /\ Get(c, 201, 0) = Signed /\ Get(c, 207, 1) = 1
  /\ {SourceTicks, TargetTicks} \subseteq {Get(c, 208, 0) : c \in channels}

NetValidStream(s, o) ==
  LET kind == Get(o, 106, 1)
      clock == Get(o, 105, 0)
  IN
  /\ kind \in 1 .. 4
  /\ kind \in {2, 3} => Get(o, 104, 0) = 0
  /\ Has(o, 104) => Get(o, 104, 0) = Cardinality(NetChannels(s, o.id))
  /\ kind = 3 => Get(o, 107, 0) # 0
  /\ clock # 0 => Resolves(s, "clock", clock)
  /\ kind = 4 => NetCorrelates(s, o)
  /\ \A tag \in {110, 111} :
       Get(o, tag, 0) # 0 => Resolves(s, "map", Get(o, tag, 0))

NetValidChannel(s, o) ==
  LET stream == Get(o, 200, 0)
      map == Get(o, 209, 0)
      bitfield == Get(o, 210, 0)
  IN
  /\ Resolves(s, "stream", stream)
  /\ \A i \in NetChannels(s, stream) : NetReadable(s[i])
  /\ map = 0 \/ bitfield = 0
  /\ map # 0 => Resolves(s, "map", map)
  /\ bitfield # 0 => Resolves(s, "bitfield", bitfield)

NetValidClock(o) == Has(o, 300) /\ Has(o, 301) /\ Get(o, 300, 0) <= 4

\* Two hash sets.
NetValidMap(o) ==
  LET Entry(i) == o.tlvs[i].value
      entries == Every(o, 400)
  IN
  /\ \A i \in entries : Entry(i).sound /\ Entry(i).name # 0
  /\ Cardinality({Entry(i).raw : i \in entries}) = Cardinality(entries)
  /\ Cardinality({Entry(i).name : i \in entries}) = Cardinality(entries)

\* The bits of the members in front of position i.
Occupied(o, i) == UNION {Bits(o.tlvs[j].value) : j \in {k \in Every(o, 501) : k < i}}

NetValidBitfield(s, o) ==
  LET storage == Get(o, 500, 0)
      Member(i) == o.tlvs[i].value
  IN
  /\ Has(o, 500)
  /\ \A i \in Every(o, 501) :
       LET m == Member(i) IN
       /\ m.sound /\ m.width # 0 /\ m.lsb + m.width <= storage
       /\ Bits(m) \cap Occupied(o, i) = {}
       /\ m.map # 0 => Resolves(s, "map", m.map)
  /\ \A i \in DOMAIN s :
       s[i].kind = "channel" /\ Has(s[i], 210) /\ Get(s[i], 210, 0) = o.id =>
         Has(s[i], 203) /\ Get(s[i], 203, 0) = storage

\* ParseSchema and ValidateSchema.
NetAccepts(s) ==
  /\ \A i \in DOMAIN s :
       s[i].kind \in Kinds /\ s[i].id # 0 /\ NetValidTlvs(s[i])
  /\ Cardinality({<<s[i].kind, s[i].id>> : i \in DOMAIN s}) = Len(s)
  /\ \A o \in ToSet(s) :
       /\ o.kind = "stream" => NetValidStream(s, o)
       /\ o.kind = "channel" => NetValidChannel(s, o)
       /\ o.kind = "clock" => NetValidClock(o)
       /\ o.kind = "map" => NetValidMap(o)
       /\ o.kind = "bitfield" => NetValidBitfield(s, o)
=============================================================================
