-------------------------- MODULE SdafSchemasProofs --------------------------
(***************************************************************************)
(* Theorems about schemas, for every value of the constants: schemas of    *)
(* any length, whose objects hold any TLVs.                                *)
(***************************************************************************)
EXTENDS SdafSchemas, SequenceTheorems, FiniteSetTheorems, WellFoundedInduction,
        TLAPS

-----------------------------------------------------------------------------
(* Sets of positions. *)

\* A set of natural numbers that has one has a least one.
LEMMA MinIs ==
  ASSUME NEW I, I \subseteq Nat, I # {}
  PROVE  Min(I) \in I /\ \A i \in I : Min(I) <= i
<1>1. PICK x \in I : \A y \in I : <<y, x>> \notin OpToRel(<, Nat)
  BY NatLessThanWellFounded, WFMin
<1>2. \A y \in I : ~(y < x)
  BY <1>1 DEF OpToRel
<1>3. \A y \in I : x <= y
  BY <1>2
<1> QED
  BY <1>1, <1>3 DEF Min

\* As many values as positions: no two are the same.
LEMMA AllDiffer ==
  ASSUME NEW S, IsFiniteSet(S), NEW f, f = [i \in S |-> f[i]]
  PROVE  Cardinality({f[i] : i \in S}) = Cardinality(S)
           <=> \A i, j \in S : f[i] = f[j] => i = j
<1> DEFINE T == {f[i] : i \in S}
<1>1. f \in Surjection(S, T)
  BY DEF Surjection
<1>2. Cardinality(T) = Cardinality(S) <=> f \in Injection(S, T)
  BY <1>1, FS_Surjection
<1>3. f \in [S -> T]
  OBVIOUS
<1>4. f \in Injection(S, T) <=> \A i, j \in S : f[i] = f[j] => i = j
  BY <1>3 DEF Injection, IsInjective
<1> QED
  BY <1>2, <1>4

LEMMA MoreThanOne ==
  ASSUME NEW S, IsFiniteSet(S)
  PROVE  Cardinality(S) > 1 <=> \E i, j \in S : i # j
<1>1. Cardinality(S) \in Nat
  BY FS_CardinalityType
<1>2. ASSUME NEW i \in S, NEW j \in S, i # j PROVE Cardinality(S) > 1
  <2>1. Cardinality(S) # 0
    BY FS_EmptySet
  <2>2. Cardinality(S) # 1
    BY <1>2, FS_Singleton
  <2> QED
    BY <1>1, <2>1, <2>2
<1>3. ASSUME Cardinality(S) > 1 PROVE \E i, j \in S : i # j
  <2>1. S # {}
    BY <1>3, FS_EmptySet
  <2>2. PICK x \in S : TRUE
    BY <2>1
  <2>3. S # {x}
    BY <1>3, FS_Singleton
  <2> QED
    BY <2>2, <2>3
<1> QED
  BY <1>2, <1>3

-----------------------------------------------------------------------------
(* Queries. *)

LEMMA ObjectIs ==
  ASSUME NEW o \in Objects
  PROVE  /\ o.id \in Nat
         /\ \E T : o.tlvs \in Seq(T)
         /\ DOMAIN o.tlvs = 1 .. Len(o.tlvs) /\ Len(o.tlvs) \in Nat
         /\ IsFiniteSet(DOMAIN o.tlvs)
         /\ \A i \in DOMAIN o.tlvs :
              /\ o.tlvs[i].tag \in Nat
              /\ o.tlvs[i].tag \notin {400, 501} => o.tlvs[i].value \in Nat
<1>1. o \in ObjectOf(STRING \ {"map", "bitfield"}, TlvOf(Nat, Nat))
      \/ o \in ObjectOf({"map"}, TlvOf(Nat \ {400}, Nat)
             \cup TlvOf({400}, [raw : Nat, name : Nat, sound : BOOLEAN]))
      \/ o \in ObjectOf({"bitfield"}, TlvOf(Nat \ {501}, Nat)
             \cup TlvOf({501}, [lsb : Nat, width : Nat, map : Nat, sound : BOOLEAN]))
  BY DEF Objects
<1>2. ASSUME NEW K, NEW T, o \in ObjectOf(K, T),
             \A t \in T : t.tag \in Nat /\ (t.tag \notin {400, 501} => t.value \in Nat)
      PROVE  /\ o.id \in Nat
             /\ o.tlvs \in Seq(T)
             /\ \A i \in DOMAIN o.tlvs :
                  /\ o.tlvs[i].tag \in Nat
                  /\ o.tlvs[i].tag \notin {400, 501} => o.tlvs[i].value \in Nat
  <2>1. o.id \in Nat /\ o.tlvs \in Seq(T)
    BY <1>2 DEF ObjectOf
  <2>2. \A i \in DOMAIN o.tlvs : o.tlvs[i] \in T
    BY <2>1
  <2> QED
    BY <1>2, <2>1, <2>2
<1>3. \A t \in TlvOf(Nat, Nat) :
        t.tag \in Nat /\ (t.tag \notin {400, 501} => t.value \in Nat)
  BY DEF TlvOf
<1>4. \A t \in TlvOf(Nat \ {400}, Nat)
                 \cup TlvOf({400}, [raw : Nat, name : Nat, sound : BOOLEAN]) :
        t.tag \in Nat /\ (t.tag \notin {400, 501} => t.value \in Nat)
  BY DEF TlvOf
<1>5. \A t \in TlvOf(Nat \ {501}, Nat)
                 \cup TlvOf({501}, [lsb : Nat, width : Nat, map : Nat, sound : BOOLEAN]) :
        t.tag \in Nat /\ (t.tag \notin {400, 501} => t.value \in Nat)
  BY DEF TlvOf
<1>6. /\ o.id \in Nat
      /\ \E T : o.tlvs \in Seq(T)
      /\ \A i \in DOMAIN o.tlvs :
           /\ o.tlvs[i].tag \in Nat
           /\ o.tlvs[i].tag \notin {400, 501} => o.tlvs[i].value \in Nat
  BY <1>1, <1>2, <1>3, <1>4, <1>5
<1>7. PICK T : o.tlvs \in Seq(T)
  BY <1>6
<1>8. DOMAIN o.tlvs = 1 .. Len(o.tlvs) /\ Len(o.tlvs) \in Nat
  BY <1>7
<1>9. IsFiniteSet(DOMAIN o.tlvs)
  BY <1>8, FS_Interval
<1> QED
  BY <1>6, <1>8, <1>9

LEMMA FirstIs ==
  ASSUME NEW o \in Objects, NEW tag, Has(o, tag)
  PROVE  First(o, tag) \in DOMAIN o.tlvs /\ o.tlvs[First(o, tag)].tag = tag
<1> DEFINE I == {i \in 1 .. Len(o.tlvs) : o.tlvs[i].tag = tag}
<1>1. First(o, tag) = IF I # {} THEN Min(I) ELSE 0
  BY DEF First, SelectInSeq
<1>2. I # {} /\ First(o, tag) = Min(I)
  BY <1>1 DEF Has
<1>3. I \subseteq Nat
  OBVIOUS
<1>4. Min(I) \in I
  BY <1>2, <1>3, MinIs
<1>5. DOMAIN o.tlvs = 1 .. Len(o.tlvs)
  BY ObjectIs
<1> QED
  BY <1>2, <1>4, <1>5

\* A tag that is not there is not 0 otherwise, and a number if it is there.
LEMMA GetIs ==
  ASSUME NEW o \in Objects, NEW tag, NEW default
  PROVE  /\ ~Has(o, tag) => Get(o, tag, default) = default
         /\ Has(o, tag) => \A d : Get(o, tag, default) = Get(o, tag, d)
         /\ tag \notin {400, 501} /\ default \in Nat => Get(o, tag, default) \in Nat
<1>1. ~Has(o, tag) => Get(o, tag, default) = default
  BY DEF Get
<1>2. Has(o, tag) => \A d : Get(o, tag, default) = Get(o, tag, d)
  BY DEF Get
<1>3. ASSUME Has(o, tag), tag \notin {400, 501} PROVE Get(o, tag, default) \in Nat
  <2>1. First(o, tag) \in DOMAIN o.tlvs /\ o.tlvs[First(o, tag)].tag = tag
    BY <1>3, FirstIs
  <2> QED
    BY <1>3, <2>1, ObjectIs DEF Get
<1> QED
  BY <1>1, <1>2, <1>3

\* A reference resolves if the object is there, wherever it is.
LEMMA PositionIs ==
  ASSUME NEW s \in Seq(Objects), NEW kind, NEW id
  PROVE  /\ Resolves(s, kind, id) <=>
              \E i \in DOMAIN s : s[i].kind = kind /\ s[i].id = id
         /\ Resolves(s, kind, id) =>
              /\ Position(s, kind, id) \in DOMAIN s
              /\ Referred(s, kind, id) = s[Position(s, kind, id)]
              /\ Referred(s, kind, id).kind = kind
              /\ Referred(s, kind, id).id = id
<1> DEFINE I == {i \in 1 .. Len(s) : s[i].kind = kind /\ s[i].id = id}
<1>1. Position(s, kind, id) = IF I # {} THEN Min(I) ELSE 0
  BY DEF Position, SelectInSeq
<1>2. I \subseteq Nat /\ 0 \notin I
  OBVIOUS
<1>3. I # {} => Min(I) \in I
  BY <1>2, MinIs
<1>4. DOMAIN s = 1 .. Len(s)
  OBVIOUS
<1>5. Resolves(s, kind, id) <=> I # {}
  BY <1>1, <1>2, <1>3 DEF Resolves
<1>6. I # {} <=> \E i \in DOMAIN s : s[i].kind = kind /\ s[i].id = id
  BY <1>4
<1> QED
  BY <1>1, <1>3, <1>4, <1>5, <1>6 DEF Referred

-----------------------------------------------------------------------------
(* Objects by themselves, in both libraries. *)

LEMMA WiresAgree == Wires = NetWires
<1>1. (1 .. 7) \cup {10, 107, 204, 208, 304}
        = (1 .. 7) \cup {10} \cup {107, 204, 208, 304}
  OBVIOUS
<1>2. {8, 9, 104, 105, 200, 207, 209, 210} \cup (108 .. 111)
        = {8, 9} \cup {104, 105, 108, 109, 110, 111, 200, 207, 209, 210}
  OBVIOUS
<1>3. {100, 103, 106, 201, 300, 303} = {100, 103, 106, 300, 303} \cup {201}
  OBVIOUS
<1> DEFINE Table(utf8, u32, u8) ==
             [utf8 |-> utf8, u32 |-> u32, u8 |-> u8,
              rational_u64 |-> {101, 102, 301}, u16 |-> {202, 203, 302, 500},
              f64 |-> {205, 206}, rational_i64 |-> {211, 212}, bytes |-> {400, 501}]
<1>4. Wires = Table((1 .. 7) \cup {10, 107, 204, 208, 304},
                    {8, 9, 104, 105, 200, 207, 209, 210} \cup (108 .. 111),
                    {100, 103, 106, 201, 300, 303})
  BY DEF Wires
<1>5. NetWires = Table((1 .. 7) \cup {10} \cup {107, 204, 208, 304},
                       {8, 9} \cup {104, 105, 108, 109, 110, 111, 200, 207, 209, 210},
                       {100, 103, 106, 300, 303} \cup {201})
  BY DEF NetWires
<1> HIDE DEF Table
<1> QED
  BY <1>1, <1>2, <1>3, <1>4, <1>5

\* A tag comes more than once: looked for in front of each TLV, or counted.
LEMMA TlvsAgree ==
  ASSUME NEW o \in Objects
  PROVE  ValidTlvs(o) <=> NetValidTlvs(o)
<1> DEFINE D == DOMAIN o.tlvs
           Tag(i) == o.tlvs[i].tag
           Same(tag) == {i \in D : Tag(i) = tag}
           Sound(i) == o.tlvs[i].sound /\ WireAllowed(Wires, o.tlvs[i])
<1>1. D = 1 .. Len(o.tlvs) /\ Len(o.tlvs) \in Nat /\ IsFiniteSet(D)
  BY ObjectIs
<1>2. \A tag : IsFiniteSet(Same(tag))
  BY <1>1, FS_Subset
<1>3. ValidTlvs(o) <=>
        \A i \in D : Sound(i) /\ \A j \in 1 .. i - 1 : Tag(j) = Tag(i) => Repeatable(o, Tag(i))
  BY DEF ValidTlvs
<1>4. NetValidTlvs(o) <=>
        \A i \in D : Sound(i) /\ (Cardinality(Same(Tag(i))) > 1 => Repeatable(o, Tag(i)))
  BY WiresAgree DEF NetValidTlvs
<1>5. \A i \in D : Cardinality(Same(Tag(i))) > 1 <=> \E j, k \in Same(Tag(i)) : j # k
  BY <1>2, MoreThanOne
<1> HIDE DEF D, Tag, Sound
<1>6. ASSUME \A i \in D : \A j \in 1 .. i - 1 : Tag(j) = Tag(i) => Repeatable(o, Tag(i)),
             NEW i \in D, Cardinality(Same(Tag(i))) > 1
      PROVE  Repeatable(o, Tag(i))
  <2>1. PICK j \in D, k \in D : Tag(j) = Tag(i) /\ Tag(k) = Tag(i) /\ j # k
    BY <1>5, <1>6
  <2>2. j \in 1 .. k - 1 \/ k \in 1 .. j - 1
    BY <1>1, <2>1
  <2> QED
    BY <1>6, <2>1, <2>2
<1>7. ASSUME \A i \in D : Cardinality(Same(Tag(i))) > 1 => Repeatable(o, Tag(i)),
             NEW i \in D, NEW j \in 1 .. i - 1, Tag(j) = Tag(i)
      PROVE  Repeatable(o, Tag(i))
  <2>1. j \in D /\ j # i
    BY <1>1
  <2>2. j \in Same(Tag(i)) /\ i \in Same(Tag(i))
    BY <1>7, <2>1
  <2> QED
    BY <1>5, <1>7, <2>1, <2>2
<1> QED
  BY <1>3, <1>4, <1>6, <1>7

Distinct(s) == \A i, j \in DOMAIN s : SameId(s[i], s[j]) => i = j

Plain(s) ==
  /\ \A i \in DOMAIN s : s[i].kind \in Kinds /\ s[i].id # 0 /\ ValidTlvs(s[i])
  /\ Distinct(s)

LEMMA DistinctIfUnlike ==
  ASSUME NEW s \in Seq(Objects)
  PROVE  (\A i \in DOMAIN s : UnlikeEarlier(s, i)) <=> Distinct(s)
<1> DEFINE Same(i, j) == SameId(s[i], s[j])
<1>1. DOMAIN s = 1 .. Len(s) /\ Len(s) \in Nat
  OBVIOUS
<1>2. \A i, j : Same(i, j) => Same(j, i)
  BY DEF SameId
<1>3. (\A i \in DOMAIN s : UnlikeEarlier(s, i))
        <=> \A i \in DOMAIN s : \A j \in 1 .. i - 1 : ~Same(j, i)
  BY DEF UnlikeEarlier
<1>4. Distinct(s) <=> \A i, j \in DOMAIN s : Same(i, j) => i = j
  BY DEF Distinct
<1> HIDE DEF Same
<1>5. \A i \in DOMAIN s : \A j \in 1 .. i - 1 : j \in DOMAIN s /\ i # j
  BY <1>1
<1>6. \A i, j \in DOMAIN s : i = j \/ i \in 1 .. j - 1 \/ j \in 1 .. i - 1
  BY <1>1
<1> QED
  BY <1>2, <1>3, <1>4, <1>5, <1>6

LEMMA DistinctIfCounted ==
  ASSUME NEW s \in Seq(Objects)
  PROVE  Cardinality({<<s[i].kind, s[i].id>> : i \in DOMAIN s}) = Len(s) <=> Distinct(s)
<1> DEFINE f == [i \in DOMAIN s |-> <<s[i].kind, s[i].id>>]
<1>1. DOMAIN s = 1 .. Len(s) /\ Len(s) \in Nat
  OBVIOUS
<1>2. IsFiniteSet(DOMAIN s) /\ Cardinality(DOMAIN s) = Len(s)
  BY <1>1, FS_Interval
<1>3. {<<s[i].kind, s[i].id>> : i \in DOMAIN s} = {f[i] : i \in DOMAIN s}
  OBVIOUS
<1>4. f = [i \in DOMAIN s |-> f[i]]
  OBVIOUS
<1>5. \A i, j \in DOMAIN s : f[i] = f[j] <=> SameId(s[i], s[j])
  BY DEF SameId
<1> HIDE DEF f
<1>6. Cardinality({f[i] : i \in DOMAIN s}) = Len(s)
        <=> \A i, j \in DOMAIN s : f[i] = f[j] => i = j
  BY <1>2, <1>4, AllDiffer
<1> QED
  BY <1>3, <1>5, <1>6 DEF Distinct

NetReferences(s, o) ==
  /\ o.kind = "stream" => NetValidStream(s, o)
  /\ o.kind = "channel" => NetValidChannel(s, o)
  /\ o.kind = "clock" => NetValidClock(o)
  /\ o.kind = "map" => NetValidMap(o)
  /\ o.kind = "bitfield" => NetValidBitfield(s, o)

LEMMA AcceptsIs ==
  ASSUME NEW s \in Seq(Objects)
  PROVE  /\ Accepts(s) <=> Plain(s) /\ \A i \in DOMAIN s : ValidReferences(s, s[i])
         /\ NetAccepts(s) <=> Plain(s) /\ \A i \in DOMAIN s : NetReferences(s, s[i])
<1>1. Accepts(s) <=> Plain(s) /\ \A i \in DOMAIN s : ValidReferences(s, s[i])
  BY DistinctIfUnlike DEF Accepts, Plain
<1>2. \A i \in DOMAIN s : ValidTlvs(s[i]) <=> NetValidTlvs(s[i])
  BY TlvsAgree
<1>3. ToSet(s) = {s[i] : i \in DOMAIN s}
  BY DEF ToSet
<1>4. NetAccepts(s) <=> Plain(s) /\ \A o \in ToSet(s) : NetReferences(s, o)
  BY <1>2, DistinctIfCounted DEF NetAccepts, Plain, NetReferences
<1> QED
  BY <1>1, <1>3, <1>4

-----------------------------------------------------------------------------
(* What objects say of each other, in both libraries. *)

\* A tag that is not 0 is there.
LEMMA GetHas ==
  ASSUME NEW o \in Objects, NEW tag, Get(o, tag, 0) # 0
  PROVE  Has(o, tag)
BY GetIs

LEMMA ChannelsAgree ==
  ASSUME NEW s \in Seq(Objects), NEW id, id # 0
  PROVE  ChannelsOf(s, id) = NetChannels(s, id)
<1>1. \A i \in DOMAIN s : s[i] \in Objects
  OBVIOUS
<1>2. \A i \in DOMAIN s : Get(s[i], 200, 0) = id => Has(s[i], 200)
  BY <1>1, GetHas
<1> QED
  BY <1>2 DEF ChannelsOf, NetChannels

LEMMA ChannelsFinite ==
  ASSUME NEW s \in Seq(Objects), NEW id
  PROVE  /\ IsFiniteSet(ChannelsOf(s, id)) /\ Cardinality(ChannelsOf(s, id)) \in Nat
         /\ Cardinality(ChannelsOf(s, id)) = 0 <=> ChannelsOf(s, id) = {}
<1>1. IsFiniteSet(DOMAIN s)
  BY DOMAIN s = 1 .. Len(s), Len(s) \in Nat, FS_Interval
<1>2. ChannelsOf(s, id) \subseteq DOMAIN s
  BY DEF ChannelsOf
<1>3. IsFiniteSet(ChannelsOf(s, id))
  BY <1>1, <1>2, FS_Subset
<1> QED
  BY <1>3, FS_CardinalityType, FS_EmptySet

LEMMA WidthsAgree ==
  ASSUME NEW type, NEW logical \in Nat, NEW storage \in Nat
  PROVE  WidthsFit(type, logical, storage) <=> NetWidthsFit(type, logical, storage)
<1>1. <<logical, storage>> \in {<<32, 32>>, <<64, 64>>}
        <=> logical = storage /\ logical \in {32, 64}
  OBVIOUS
<1>2. 1 <= logical /\ logical <= storage /\ storage <= 64
        <=> logical \in 1 .. 64 /\ storage >= logical /\ storage <= 64
  OBVIOUS
<1>3. CASE type \in {Unsigned, Signed}
  BY <1>2, <1>3 DEF WidthsFit, NetWidthsFit, Unsigned, Signed, Float, Boolean, FixedBytes
<1>4. CASE type = Float
  BY <1>1, <1>4 DEF WidthsFit, NetWidthsFit, Unsigned, Signed, Float, Boolean, FixedBytes
<1>5. CASE type = Boolean
  BY <1>5 DEF WidthsFit, NetWidthsFit, Unsigned, Signed, Float, Boolean, FixedBytes
<1>6. CASE type = FixedBytes
  BY <1>6 DEF WidthsFit, NetWidthsFit, Unsigned, Signed, Float, Boolean, FixedBytes
<1>7. CASE type \notin {Unsigned, Signed, Float, Boolean, FixedBytes}
  BY <1>7 DEF WidthsFit, NetWidthsFit
<1> QED
  BY <1>3, <1>4, <1>5, <1>6, <1>7

LEMMA ObjectsOf ==
  ASSUME NEW s \in Seq(Objects), NEW id
  PROVE  {s[i] : i \in ChannelsOf(s, id)} \subseteq Objects
BY DEF ChannelsOf

LEMMA CorrelatesAgree ==
  ASSUME NEW s \in Seq(Objects), NEW o, o.id # 0
  PROVE  Correlates(s, o) <=> NetCorrelates(s, o)
<1> DEFINE channels == {s[i] : i \in ChannelsOf(s, o.id)}
           targets == \A tag \in {108, 109} :
                        Get(o, tag, 0) # 0 /\ Resolves(s, "clock", Get(o, tag, 0))
           types == \A c \in channels : Get(c, 201, 0) = Signed /\ Get(c, 207, 1) = 1
           netTypes == \A c \in channels :
             Has(c, 201) /\ Get(c, 201, 0) = Signed /\ Get(c, 207, 1) = 1
           both == \A semantic \in {SourceTicks, TargetTicks} :
                     \E c \in channels : Get(c, 208, 0) = semantic
           netBoth == {SourceTicks, TargetTicks} \subseteq {Get(c, 208, 0) : c \in channels}
<1>1. ChannelsOf(s, o.id) = NetChannels(s, o.id)
  BY ChannelsAgree
<1>2. Correlates(s, o) <=> targets /\ types /\ both
  BY Zenon DEF Correlates
<1>3. NetCorrelates(s, o) <=> targets /\ netTypes /\ netBoth
  BY <1>1, Zenon DEF NetCorrelates
<1>4. channels \subseteq Objects
  BY ObjectsOf
<1>5. types <=> netTypes
  <2>1. ASSUME NEW c \in channels, Get(c, 201, 0) = Signed PROVE Has(c, 201)
    <3>1. c \in Objects
      BY <1>4
    <3>2. Get(c, 201, 0) # 0
      BY <2>1 DEF Signed
    <3> QED
      BY <3>1, <3>2, GetHas
  <2> QED
    BY <2>1
<1>6. both <=> netBoth
  OBVIOUS
<1> QED
  BY <1>2, <1>3, <1>5, <1>6

UnseenStream(s, o) ==
  \/ Get(o, 106, 1) \in {2, 3} /\ ~Has(o, 104) /\ ChannelsOf(s, o.id) # {}
  \/ Get(o, 100, 0) > 4
  \/ \E tag \in {110, 111} : Has(o, tag) /\ Get(o, tag, 0) = 0
  \/ /\ Get(o, 105, 0) # 0
     /\ ~SameTimebase(o, Referred(s, "clock", Get(o, 105, 0)))

LEMMA StreamsAgree ==
  ASSUME NEW s \in Seq(Objects), NEW o \in Objects, o.id # 0
  PROVE  ValidStream(s, o) <=> NetValidStream(s, o) /\ ~UnseenStream(s, o)
<1> DEFINE kind == Get(o, 106, 1)
           clock == Get(o, 105, 0)
           actual == Cardinality(ChannelsOf(s, o.id))
           good == kind \in 1 .. 4
           item == kind = 3 => Get(o, 107, 0) # 0
           counts == Get(o, 104, actual) = actual /\ (kind \in {2, 3} => actual = 0)
           netCounts == /\ kind \in {2, 3} => Get(o, 104, 0) = 0
                        /\ Has(o, 104) => Get(o, 104, 0) = actual
           unseenCounts == kind \in {2, 3} /\ ~Has(o, 104) /\ ChannelsOf(s, o.id) # {}
           timer == Get(o, 100, 0) <= 4
           resolved == clock # 0 => Resolves(s, "clock", clock)
           base == clock # 0 => SameTimebase(o, Referred(s, "clock", clock))
           related == kind = 4 => Correlates(s, o)
           maps == \A tag \in {110, 111} :
             Has(o, tag) => Get(o, tag, 0) # 0 /\ Resolves(s, "map", Get(o, tag, 0))
           netMaps == \A tag \in {110, 111} :
             Get(o, tag, 0) # 0 => Resolves(s, "map", Get(o, tag, 0))
           unseenMaps == \E tag \in {110, 111} : Has(o, tag) /\ Get(o, tag, 0) = 0
<1>1. ValidStream(s, o) <=>
        good /\ counts /\ timer /\ item /\ resolved /\ base /\ related /\ maps
  BY Zenon DEF ValidStream
<1>2. NetValidStream(s, o) <=>
        good /\ netCounts /\ item /\ resolved /\ related /\ netMaps
  <2>1. ChannelsOf(s, o.id) = NetChannels(s, o.id)
    BY ChannelsAgree
  <2>2. Correlates(s, o) <=> NetCorrelates(s, o)
    BY CorrelatesAgree
  <2> QED
    BY <2>1, <2>2, ZenonT(40) DEF NetValidStream
<1>3. UnseenStream(s, o) <=> unseenCounts \/ ~timer \/ unseenMaps \/ ~base
  <2>1. Get(o, 100, 0) \in Nat
    BY GetIs
  <2>2. Get(o, 100, 0) > 4 <=> ~timer
    BY <2>1
  <2> QED
    BY <2>2, Zenon DEF UnseenStream
<1>4. counts <=> netCounts /\ ~unseenCounts
  <2>1. /\ ~Has(o, 104) => Get(o, 104, actual) = actual /\ Get(o, 104, 0) = 0
        /\ Has(o, 104) => Get(o, 104, actual) = Get(o, 104, 0)
    BY GetIs
  <2>2. actual = 0 <=> ChannelsOf(s, o.id) = {}
    BY ChannelsFinite
  <2> HIDE DEF kind, actual
  <2> QED
    BY <2>1, <2>2
<1>5. maps <=> netMaps /\ ~unseenMaps
  <2>1. \A tag \in {110, 111} : Get(o, tag, 0) # 0 => Has(o, tag)
    BY GetHas
  <2> QED
    BY <2>1
<1> HIDE DEF good, counts, netCounts, timer, item, resolved, base, related, maps, netMaps,
             unseenCounts, unseenMaps
<1> QED
  BY <1>1, <1>2, <1>3, <1>4, <1>5

LEMMA ReadableIs ==
  ASSUME NEW o \in Objects
  PROVE  NetReadable(o) <=>
           /\ Has(o, 201) /\ Has(o, 203)
           /\ Has(o, 202) \/ Get(o, 201, 0) = FixedBytes
           /\ WidthsFit(Get(o, 201, 0), Get(o, 202, Get(o, 203, 0)), Get(o, 203, 0))
           /\ ~(Has(o, 205) /\ Has(o, 211)) /\ ~(Has(o, 206) /\ Has(o, 212))
           /\ Get(o, 207, 1) # 0
<1>1. Get(o, 203, 0) \in Nat
  BY GetIs
<1>2. Get(o, 202, Get(o, 203, 0)) \in Nat
  BY <1>1, GetIs
<1>3. WidthsFit(Get(o, 201, 0), Get(o, 202, Get(o, 203, 0)), Get(o, 203, 0))
        <=> NetWidthsFit(Get(o, 201, 0), Get(o, 202, Get(o, 203, 0)), Get(o, 203, 0))
  BY <1>1, <1>2, WidthsAgree
<1> QED
  BY <1>3, Zenon DEF NetReadable

\* What a channel says of a map and a bitfield, and of its stream.
Interpreted(s, o) ==
  /\ Get(o, 209, 0) = 0 \/ Get(o, 210, 0) = 0
  /\ Get(o, 209, 0) # 0 => Resolves(s, "map", Get(o, 209, 0))
  /\ Get(o, 210, 0) # 0 => Resolves(s, "bitfield", Get(o, 210, 0))

LEMMA ValidChannelIs ==
  ASSUME NEW s \in Seq(Objects), NEW o \in Objects
  PROVE  ValidChannel(s, o) <=>
           /\ Has(o, 200) /\ Resolves(s, "stream", Get(o, 200, 0))
           /\ NetReadable(o) /\ Interpreted(s, o)
<1>1. NetReadable(o) <=>
           /\ Has(o, 201) /\ Has(o, 203)
           /\ Has(o, 202) \/ Get(o, 201, 0) = FixedBytes
           /\ WidthsFit(Get(o, 201, 0), Get(o, 202, Get(o, 203, 0)), Get(o, 203, 0))
           /\ ~(Has(o, 205) /\ Has(o, 211)) /\ ~(Has(o, 206) /\ Has(o, 212))
           /\ Get(o, 207, 1) # 0
  BY ReadableIs
<1> QED
  BY <1>1, ZenonT(40) DEF ValidChannel, Interpreted

LEMMA ChannelsOfSchemaAgree ==
  ASSUME NEW s \in Seq(Objects), Plain(s)
  PROVE  (\A i \in DOMAIN s : s[i].kind = "channel" => ValidChannel(s, s[i]))
           <=> (\A i \in DOMAIN s : s[i].kind = "channel" => NetValidChannel(s, s[i]))
<1> DEFINE Channels == {i \in DOMAIN s : s[i].kind = "channel"}
           Stream(i) == Get(s[i], 200, 0)
<1>1. \A i \in DOMAIN s : s[i] \in Objects
  OBVIOUS
<1>2. \A i \in DOMAIN s : ValidChannel(s, s[i]) <=>
        /\ Has(s[i], 200) /\ Resolves(s, "stream", Stream(i))
        /\ NetReadable(s[i]) /\ Interpreted(s, s[i])
  BY <1>1, ValidChannelIs
<1>3. \A i \in DOMAIN s : NetValidChannel(s, s[i]) <=>
        /\ Resolves(s, "stream", Stream(i))
        /\ \A j \in NetChannels(s, Stream(i)) : NetReadable(s[j])
        /\ Interpreted(s, s[i])
  BY Zenon DEF NetValidChannel, Interpreted
<1>4. \A i \in DOMAIN s : Resolves(s, "stream", Stream(i)) => Stream(i) # 0
  BY PositionIs DEF Plain
<1>5. \A i \in DOMAIN s : Stream(i) # 0 => Has(s[i], 200)
  BY <1>1, GetHas
<1>6. \A i \in Channels : Has(s[i], 200) => i \in NetChannels(s, Stream(i))
  BY DEF NetChannels
<1>7. \A id : NetChannels(s, id) \subseteq Channels
  BY DEF NetChannels
<1> HIDE DEF Stream
<1>8. (\A i \in Channels : ValidChannel(s, s[i])) <=> \A i \in Channels : NetValidChannel(s, s[i])
  <2>1. ASSUME \A i \in Channels : ValidChannel(s, s[i]), NEW i \in Channels
        PROVE  NetValidChannel(s, s[i])
    BY <1>2, <1>3, <1>7, <2>1
  <2>2. ASSUME \A i \in Channels : NetValidChannel(s, s[i]), NEW i \in Channels
        PROVE  ValidChannel(s, s[i])
    BY <1>2, <1>3, <1>4, <1>5, <1>6, <2>2
  <2> QED
    BY <2>1, <2>2
<1> QED
  BY <1>8

LEMMA EveryIs ==
  ASSUME NEW o \in Objects, NEW tag
  PROVE  /\ Every(o, tag) \subseteq Nat /\ IsFiniteSet(Every(o, tag))
         /\ \A i \in Every(o, tag) : i \in DOMAIN o.tlvs /\ o.tlvs[i].tag = tag
<1>1. Every(o, tag) \subseteq DOMAIN o.tlvs
  BY DEF Every
<1>2. Every(o, tag) \subseteq Nat /\ IsFiniteSet(Every(o, tag))
  BY <1>1, ObjectIs, FS_Subset
<1> QED
  BY <1>2 DEF Every

\* Two hash sets, or every entry compared with those before it.
LEMMA MapsAgree ==
  ASSUME NEW o \in Objects
  PROVE  ValidMap(o) <=> NetValidMap(o)
<1> DEFINE entries == Every(o, 400)
           raw == [i \in entries |-> o.tlvs[i].value.raw]
           name == [i \in entries |-> o.tlvs[i].value.name]
           Sound(i) == o.tlvs[i].value.sound /\ o.tlvs[i].value.name # 0
<1>1. entries \subseteq Nat /\ IsFiniteSet(entries)
  BY EveryIs
<1>2. ValidMap(o) <=>
        \A i \in entries : Sound(i) /\ \A j \in entries : j < i => raw[j] # raw[i] /\ name[j] # name[i]
  BY DEF ValidMap
<1>3. /\ {o.tlvs[i].value.raw : i \in entries} = {raw[i] : i \in entries}
      /\ {o.tlvs[i].value.name : i \in entries} = {name[i] : i \in entries}
  OBVIOUS
<1>4. NetValidMap(o) <=>
        /\ \A i \in entries : Sound(i)
        /\ Cardinality({raw[i] : i \in entries}) = Cardinality(entries)
        /\ Cardinality({name[i] : i \in entries}) = Cardinality(entries)
  <2> DEFINE Raws == {o.tlvs[i].value.raw : i \in entries}
             Names == {o.tlvs[i].value.name : i \in entries}
  <2>1. NetValidMap(o) <=>
          /\ \A i \in entries : Sound(i)
          /\ Cardinality(Raws) = Cardinality(entries)
          /\ Cardinality(Names) = Cardinality(entries)
    BY ZenonT(40) DEF NetValidMap
  <2>2. Raws = {raw[i] : i \in entries} /\ Names = {name[i] : i \in entries}
    BY <1>3
  <2> HIDE DEF Raws, Names, entries, raw, name, Sound
  <2> QED
    BY <2>1, <2>2
<1>5. raw = [i \in entries |-> raw[i]] /\ name = [i \in entries |-> name[i]]
  OBVIOUS
<1> HIDE DEF entries, raw, name, Sound
<1>6. /\ Cardinality({raw[i] : i \in entries}) = Cardinality(entries)
           <=> \A i, j \in entries : raw[i] = raw[j] => i = j
      /\ Cardinality({name[i] : i \in entries}) = Cardinality(entries)
           <=> \A i, j \in entries : name[i] = name[j] => i = j
  BY <1>1, <1>5, AllDiffer
<1>7. \A i, j \in entries : i = j \/ i < j \/ j < i
  BY <1>1
<1>8. \A i, j \in entries : j < i => i # j
  BY <1>1
<1> QED
  BY <1>2, <1>4, <1>6, <1>7, <1>8

LEMMA BitfieldsAgree ==
  ASSUME NEW s \in Seq(Objects), NEW o \in Objects, o.id # 0
  PROVE  ValidBitfield(s, o) <=> NetValidBitfield(s, o) /\ Get(o, 500, 0) # 0
<1> DEFINE storage == Get(o, 500, 0)
           members == Every(o, 501)
           Member(i) == o.tlvs[i].value
           Fits(i) == /\ Member(i).sound /\ Member(i).width # 0
                      /\ Member(i).lsb + Member(i).width <= storage
           Named(i) == Member(i).map # 0 => Resolves(s, "map", Member(i).map)
           Apart(i, j) == Bits(Member(j)) \cap Bits(Member(i)) = {}
           Clear(i) == Bits(Member(i)) \cap Occupied(o, i) = {}
           Stored(i) == Has(s[i], 203) /\ Get(s[i], 203, 0) = storage
<1>1. ValidBitfield(s, o) <=>
        /\ storage # 0
        /\ \A i \in members : Fits(i) /\ Named(i) /\ \A j \in members : j < i => Apart(i, j)
        /\ \A i \in DOMAIN s : s[i].kind = "channel" /\ Get(s[i], 210, 0) = o.id => Stored(i)
  BY DEF ValidBitfield
<1>2. NetValidBitfield(s, o) <=>
        /\ Has(o, 500)
        /\ \A i \in members :
             Fits(i) /\ Clear(i) /\ Named(i)
        /\ \A i \in DOMAIN s :
             s[i].kind = "channel" /\ Has(s[i], 210) /\ Get(s[i], 210, 0) = o.id => Stored(i)
  BY DEF NetValidBitfield
<1>3. \A i \in DOMAIN s : Get(s[i], 210, 0) = o.id => Has(s[i], 210)
  BY GetHas
<1>4. storage # 0 => Has(o, 500)
  BY GetHas
<1>5. \A i \in members :
        Clear(i) <=> \A j \in members : j < i => Apart(i, j)
  <2> DEFINE B(i) == Bits(Member(i))
  <2>1. /\ \A i, j : Apart(i, j) <=> B(j) \cap B(i) = {}
        /\ \A i : Clear(i) <=> B(i) \cap Occupied(o, i) = {}
        /\ \A i : Occupied(o, i) = UNION {B(j) : j \in {k \in members : k < i}}
    BY DEF Occupied
  <2> HIDE DEF B, Apart, Clear
  <2> QED
    BY <2>1
<1> HIDE DEF storage, members, Member, Fits, Named, Apart, Clear, Stored
<1>6. (\A i \in DOMAIN s : s[i].kind = "channel" /\ Get(s[i], 210, 0) = o.id => Stored(i))
        <=> \A i \in DOMAIN s :
              s[i].kind = "channel" /\ Has(s[i], 210) /\ Get(s[i], 210, 0) = o.id => Stored(i)
  BY <1>3, Zenon
<1>7. (\A i \in members : Fits(i) /\ Named(i) /\ \A j \in members : j < i => Apart(i, j))
        <=> \A i \in members : Fits(i) /\ Clear(i) /\ Named(i)
  BY <1>5, Zenon
<1> QED
  <2> DEFINE A == \A i \in members :
                    Fits(i) /\ Named(i) /\ \A j \in members : j < i => Apart(i, j)
             B == \A i \in members : Fits(i) /\ Clear(i) /\ Named(i)
             C == \A i \in DOMAIN s :
                    s[i].kind = "channel" /\ Get(s[i], 210, 0) = o.id => Stored(i)
             D == \A i \in DOMAIN s :
                    s[i].kind = "channel" /\ Has(s[i], 210) /\ Get(s[i], 210, 0) = o.id => Stored(i)
  <2>1. ValidBitfield(s, o) <=> storage # 0 /\ A /\ C
    BY <1>1, Zenon
  <2>2. NetValidBitfield(s, o) <=> Has(o, 500) /\ B /\ D
    BY <1>2, Zenon
  <2>3. (A <=> B) /\ (C <=> D)
    BY <1>6, <1>7, Zenon
  <2> HIDE DEF A, B, C, D
  <2>4. ValidBitfield(s, o) <=> NetValidBitfield(s, o) /\ storage # 0
    BY <1>4, <2>1, <2>2, <2>3
  <2> QED
    BY <2>4 DEF storage

LEMMA ClocksAgree ==
  ASSUME NEW o PROVE ValidClock(o) <=> NetValidClock(o)
BY Zenon DEF ValidClock, NetValidClock

LEMMA UnseenIs ==
  ASSUME NEW s, NEW o
  PROVE  Unseen(s, o) <=> \/ o.kind = "stream" /\ UnseenStream(s, o)
                          \/ o.kind = "bitfield" /\ Get(o, 500, 0) = 0
BY Zenon DEF Unseen, UnseenStream

\* One schema, both libraries.
LEMMA LibrariesAgree ==
  ASSUME NEW s \in Seq(Objects)
  PROVE  Accepts(s) <=> NetAccepts(s) /\ \A i \in DOMAIN s : ~Unseen(s, s[i])
<1> DEFINE Net(i) == NetReferences(s, s[i])
           C(i) == ValidReferences(s, s[i])
           Hidden(i) == Unseen(s, s[i])
<1>1. \A i \in DOMAIN s : s[i] \in Objects
  OBVIOUS
<1>2. SUFFICES ASSUME Plain(s)
               PROVE  (\A i \in DOMAIN s : C(i)) <=> \A i \in DOMAIN s : Net(i) /\ ~Hidden(i)
  BY AcceptsIs
<1>3. \A i \in DOMAIN s : s[i].id # 0
  BY <1>2 DEF Plain
<1>4. ASSUME NEW i \in DOMAIN s, s[i].kind # "channel"
      PROVE  C(i) <=> Net(i) /\ ~Hidden(i)
  <2> DEFINE o == s[i]
  <2>0. o \in Objects /\ o.id # 0
    BY <1>1, <1>3
  <2>1. Unseen(s, o) <=> \/ o.kind = "stream" /\ UnseenStream(s, o)
                         \/ o.kind = "bitfield" /\ Get(o, 500, 0) = 0
    BY UnseenIs
  <2>2. ValidStream(s, o) <=> NetValidStream(s, o) /\ ~UnseenStream(s, o)
    BY <2>0, StreamsAgree
  <2>3. ValidMap(o) <=> NetValidMap(o)
    BY <2>0, MapsAgree
  <2>4. ValidBitfield(s, o) <=> NetValidBitfield(s, o) /\ Get(o, 500, 0) # 0
    BY <2>0, BitfieldsAgree
  <2>5. ValidClock(o) <=> NetValidClock(o)
    BY ClocksAgree
  <2>6. o.kind # "channel"
    BY <1>4
  <2> HIDE DEF o
  <2>7. ValidReferences(s, o) <=> NetReferences(s, o) /\ ~Unseen(s, o)
    BY <2>1, <2>2, <2>3, <2>4, <2>5, <2>6 DEF ValidReferences, NetReferences
  <2> QED
    BY <2>7 DEF o
<1>5. (\A i \in DOMAIN s : s[i].kind = "channel" => C(i))
        <=> \A i \in DOMAIN s : s[i].kind = "channel" => Net(i)
  <2>1. \A i \in DOMAIN s : s[i].kind = "channel" =>
          (C(i) <=> ValidChannel(s, s[i])) /\ (Net(i) <=> NetValidChannel(s, s[i]))
    BY DEF ValidReferences, NetReferences
  <2> QED
    BY <1>2, <2>1, ChannelsOfSchemaAgree
<1>6. \A i \in DOMAIN s : s[i].kind = "channel" => ~Hidden(i)
  BY UnseenIs
<1> HIDE DEF C, Net, Hidden
<1> QED
  BY <1>4, <1>5, <1>6

-----------------------------------------------------------------------------
(* The schema that is judged. *)

SchemaInv ==
  /\ family \in SUBSET Objects
  /\ schema \in Seq(Objects)
  /\ verdict \in {"open", "both", "C only", ".NET only", "neither"}
  /\ verdict # "open" =>
       /\ verdict \in {"both", "C only"} <=> Accepts(schema)
       /\ verdict \in {"both", ".NET only"} <=> NetAccepts(schema)

LEMMA SchemaInvariant == SchemasSpec => []SchemaInv
<1>1. SchemasInit => SchemaInv
  BY SchemasAssumption DEF SchemasInit, SchemaInv
<1>2. SchemaInv /\ [SchemasNext]_schemaVars => SchemaInv'
  <2> SUFFICES ASSUME SchemaInv, [SchemasNext]_schemaVars PROVE SchemaInv'
    OBVIOUS
  <2>1. CASE AddObject
    BY <2>1 DEF AddObject, SchemaInv
  <2>2. CASE Judge
    BY <2>2 DEF Judge, SchemaInv
  <2>3. CASE UNCHANGED schemaVars
    BY <2>3 DEF schemaVars, SchemaInv
  <2> QED
    BY <2>1, <2>2, <2>3 DEF SchemasNext
<1> QED
  BY <1>1, <1>2, PTL DEF SchemasSpec

(***************************************************************************)
(* Two validators written apart (sdaf_validate_schema and ValidateSchema)  *)
(* have one opinion of every schema, of any length and with any TLVs, but  *)
(* for the flaws that SdafReader.cs does not look at.                      *)
(***************************************************************************)
THEOREM SchemasHaveOneMeaning == SchemasSpec => []SameSchemas
<1>1. SchemaInv => SameSchemas
  <2> SUFFICES ASSUME SchemaInv PROVE SameSchemas
    OBVIOUS
  <2> DEFINE hidden == \E i \in DOMAIN schema : Unseen(schema, schema[i])
  <2>1. Accepts(schema) <=> NetAccepts(schema) /\ ~hidden
    BY LibrariesAgree DEF SchemaInv
  <2> HIDE DEF hidden
  <2>2. /\ verdict # "C only"
        /\ verdict \in {"both", ".NET only"} => (verdict = ".NET only" <=> hidden)
    BY <2>1 DEF SchemaInv
  <2> QED
    BY <2>2 DEF hidden, SameSchemas
<1> QED
  BY <1>1, SchemaInvariant, PTL

-----------------------------------------------------------------------------
(* The order of the objects. *)

\* t has the objects of s in other places: p exchanges positions.
Mirror(s, t, p) ==
  /\ s \in Seq(Objects) /\ t \in Seq(Objects)
  /\ DOMAIN t = DOMAIN s
  /\ p \in [DOMAIN s -> DOMAIN s]
  /\ \A k \in DOMAIN s : p[p[k]] = k /\ t[k] = s[p[k]]

LEMMA MirrorBack ==
  ASSUME NEW s, NEW t, NEW p, Mirror(s, t, p)
  PROVE  Mirror(t, s, p)
<1>1. \A k \in DOMAIN s : p[k] \in DOMAIN s
  BY DEF Mirror
<1>2. \A k \in DOMAIN s : t[p[k]] = s[k]
  BY <1>1 DEF Mirror
<1> QED
  BY <1>2 DEF Mirror

LEMMA SwappedMirrors ==
  ASSUME NEW s \in Seq(Objects), NEW i \in 1 .. Len(s) - 1,
         NEW t, t = [s EXCEPT ![i] = s[i + 1], ![i + 1] = s[i]]
  PROVE  \E p : Mirror(s, t, p)
<1> DEFINE p == [k \in DOMAIN s |-> IF k = i THEN i + 1 ELSE IF k = i + 1 THEN i ELSE k]
<1>1. DOMAIN s = 1 .. Len(s) /\ Len(s) \in Nat /\ i \in Nat
  OBVIOUS
<1>2. i \in DOMAIN s /\ i + 1 \in DOMAIN s /\ i + 1 # i
  BY <1>1
<1>3. p \in [DOMAIN s -> DOMAIN s]
  BY <1>2
<1>4. \A k \in DOMAIN s : p[p[k]] = k
  BY <1>2
<1>5. DOMAIN t = DOMAIN s /\ t \in Seq(Objects)
  <2>1. s[i] \in Objects /\ s[i + 1] \in Objects
    BY <1>2
  <2> QED
    BY <1>1, <2>1
<1>6. \A k \in DOMAIN s : t[k] = s[p[k]]
  BY <1>1, <1>2
<1> QED
  BY <1>3, <1>4, <1>5, <1>6 DEF Mirror

LEMMA MirrorResolves ==
  ASSUME NEW s, NEW t, NEW p, Mirror(s, t, p)
  PROVE  \A kind, id : Resolves(t, kind, id) <=> Resolves(s, kind, id)
<1>1. ASSUME NEW u, NEW v, Mirror(u, v, p), NEW kind, NEW id, Resolves(u, kind, id)
      PROVE  Resolves(v, kind, id)
  <2>1. PICK i \in DOMAIN u : u[i].kind = kind /\ u[i].id = id
    BY <1>1, PositionIs DEF Mirror
  <2>2. p[i] \in DOMAIN v /\ v[p[i]] = u[i]
    BY <1>1 DEF Mirror
  <2> QED
    BY <1>1, <2>1, <2>2, PositionIs DEF Mirror
<1> QED
  BY <1>1, MirrorBack

LEMMA MirrorPlain ==
  ASSUME NEW s, NEW t, NEW p, Mirror(s, t, p), Plain(s)
  PROVE  Plain(t)
<1>1. \A k \in DOMAIN t : p[k] \in DOMAIN s /\ t[k] = s[p[k]] /\ p[p[k]] = k
  BY DEF Mirror
<1>2. \A k \in DOMAIN t : t[k].kind \in Kinds /\ t[k].id # 0 /\ ValidTlvs(t[k])
  BY <1>1 DEF Plain
<1>3. ASSUME NEW i \in DOMAIN t, NEW j \in DOMAIN t, SameId(t[i], t[j]) PROVE i = j
  <2>1. p[i] = p[j]
    BY <1>1, <1>3 DEF Plain, Distinct
  <2> QED
    BY <1>1, <2>1
<1> QED
  BY <1>2, <1>3 DEF Plain, Distinct

\* The last object of a kind and an id is the only one.
LEMMA MirrorReferred ==
  ASSUME NEW s, NEW t, NEW p, Mirror(s, t, p), Plain(s),
         NEW kind, NEW id, Resolves(s, kind, id)
  PROVE  Referred(t, kind, id) = Referred(s, kind, id)
<1>1. Resolves(t, kind, id)
  BY MirrorResolves
<1> DEFINE i == Position(s, kind, id)
           j == Position(t, kind, id)
<1>2. i \in DOMAIN s /\ Referred(s, kind, id) = s[i] /\ s[i].kind = kind /\ s[i].id = id
  BY PositionIs DEF Mirror
<1>3. j \in DOMAIN t /\ Referred(t, kind, id) = t[j] /\ t[j].kind = kind /\ t[j].id = id
  BY <1>1, PositionIs DEF Mirror
<1> HIDE DEF i, j
<1>4. p[j] \in DOMAIN s /\ t[j] = s[p[j]]
  BY <1>3 DEF Mirror
<1>5. p[j] = i
  BY <1>2, <1>3, <1>4 DEF Plain, Distinct, SameId
<1> QED
  BY <1>2, <1>3, <1>4, <1>5

LEMMA MirrorChannels ==
  ASSUME NEW s, NEW t, NEW p, Mirror(s, t, p), NEW id
  PROVE  /\ Cardinality(ChannelsOf(t, id)) = Cardinality(ChannelsOf(s, id))
         /\ {t[i] : i \in ChannelsOf(t, id)} = {s[i] : i \in ChannelsOf(s, id)}
         /\ ChannelsOf(t, id) = {} <=> ChannelsOf(s, id) = {}
<1> DEFINE S == ChannelsOf(s, id)
           T == ChannelsOf(t, id)
           f == [k \in T |-> p[k]]
<1>0. \A k \in DOMAIN s : p[k] \in DOMAIN s /\ p[p[k]] = k /\ t[k] = s[p[k]] /\ t[p[k]] = s[k]
  <2>1. \A k \in DOMAIN s : p[k] \in DOMAIN s /\ p[p[k]] = k /\ t[k] = s[p[k]]
    BY DEF Mirror
  <2> QED
    BY <2>1
<1>1. /\ S \subseteq DOMAIN s /\ T \subseteq DOMAIN s
      /\ \A k \in DOMAIN s : k \in S <=> s[k].kind = "channel" /\ Get(s[k], 200, 0) = id
      /\ \A k \in DOMAIN s : k \in T <=> t[k].kind = "channel" /\ Get(t[k], 200, 0) = id
  BY DEF ChannelsOf, Mirror
<1> HIDE DEF S, T
<1>2. \A k \in T : p[k] \in S
  BY <1>0, <1>1
<1>3. \A k \in S : p[k] \in T
  BY <1>0, <1>1
<1>4. f \in Bijection(T, S)
  <2>1. f \in [T -> S]
    BY <1>2
  <2>2. \A i, j \in T : f[i] = f[j] => i = j
    BY <1>0, <1>1
  <2>3. \A k \in S : \E i \in T : f[i] = k
    BY <1>0, <1>1, <1>3
  <2> QED
    BY <2>1, <2>2, <2>3 DEF Bijection, Injection, Surjection, IsInjective
<1>5. IsFiniteSet(T)
  BY ChannelsFinite DEF Mirror, T
<1>6. Cardinality(T) = Cardinality(S)
  BY <1>4, <1>5, FS_Bijection DEF ExistsBijection
<1>7. {t[i] : i \in T} = {s[i] : i \in S}
  BY <1>0, <1>1, <1>2, <1>3
<1>8. T = {} <=> S = {}
  BY <1>2, <1>3
<1> QED
  BY <1>6, <1>7, <1>8 DEF S, T

LEMMA MirrorCorrelates ==
  ASSUME NEW s, NEW t, NEW p, Mirror(s, t, p), NEW o, Correlates(s, o)
  PROVE  Correlates(t, o)
<1>0. \A kind, id : Resolves(t, kind, id) <=> Resolves(s, kind, id)
  BY MirrorResolves
<1> DEFINE S == {s[i] : i \in ChannelsOf(s, o.id)}
           T == {t[i] : i \in ChannelsOf(t, o.id)}
<1>1. T = S
  BY MirrorChannels, Zenon
<1> HIDE DEF S, T
<1>2. Correlates(s, o) <=>
        /\ \A tag \in {108, 109} :
             Get(o, tag, 0) # 0 /\ Resolves(s, "clock", Get(o, tag, 0))
        /\ \A c \in S : Get(c, 201, 0) = Signed /\ Get(c, 207, 1) = 1
        /\ \A semantic \in {SourceTicks, TargetTicks} :
             \E c \in S : Get(c, 208, 0) = semantic
  BY Zenon DEF Correlates, S
<1>3. Correlates(t, o) <=>
        /\ \A tag \in {108, 109} :
             Get(o, tag, 0) # 0 /\ Resolves(t, "clock", Get(o, tag, 0))
        /\ \A c \in T : Get(c, 201, 0) = Signed /\ Get(c, 207, 1) = 1
        /\ \A semantic \in {SourceTicks, TargetTicks} :
             \E c \in T : Get(c, 208, 0) = semantic
  BY Zenon DEF Correlates, T
<1> DEFINE targets(u) == \A tag \in {108, 109} :
             Get(o, tag, 0) # 0 /\ Resolves(u, "clock", Get(o, tag, 0))
<1>4. targets(s) => targets(t)
  BY <1>0
<1> HIDE DEF targets
<1> QED
  BY <1>1, <1>2, <1>3, <1>4, Zenon DEF targets

LEMMA MirrorStream ==
  ASSUME NEW s, NEW t, NEW p, Mirror(s, t, p), Plain(s), NEW o, ValidStream(s, o)
  PROVE  ValidStream(t, o)
<1> DEFINE clock == Get(o, 105, 0)
<1>1. \A kind, id : Resolves(t, kind, id) <=> Resolves(s, kind, id)
  BY MirrorResolves
<1>2. Cardinality(ChannelsOf(t, o.id)) = Cardinality(ChannelsOf(s, o.id))
  BY MirrorChannels
<1>3. clock # 0 => SameTimebase(o, Referred(t, "clock", clock))
  <2> SUFFICES ASSUME clock # 0 PROVE SameTimebase(o, Referred(t, "clock", clock))
    OBVIOUS
  <2>1. Resolves(s, "clock", clock) /\ SameTimebase(o, Referred(s, "clock", clock))
    BY Zenon DEF ValidStream
  <2> HIDE DEF clock
  <2>2. Referred(t, "clock", clock) = Referred(s, "clock", clock)
    BY <2>1, MirrorReferred
  <2> QED
    BY <2>1, <2>2
<1>4. Correlates(s, o) => Correlates(t, o)
  BY MirrorCorrelates
<1> DEFINE maps(u) == \A tag \in {110, 111} :
                        Has(o, tag) => Get(o, tag, 0) # 0 /\ Resolves(u, "map", Get(o, tag, 0))
           resolved(u) == clock # 0 => Resolves(u, "clock", clock)
           based(u) == clock # 0 => SameTimebase(o, Referred(u, "clock", clock))
           related(u) == Get(o, 106, 1) = 4 => Correlates(u, o)
           counts(n) == /\ Get(o, 104, n) = n
                        /\ Get(o, 106, 1) \in {2, 3} => n = 0
           rest == /\ Get(o, 106, 1) \in 1 .. 4 /\ Get(o, 100, 0) <= 4
                   /\ Get(o, 106, 1) = 3 => Get(o, 107, 0) # 0
<1>5. \A u : ValidStream(u, o) <=>
        /\ rest /\ counts(Cardinality(ChannelsOf(u, o.id)))
        /\ resolved(u) /\ based(u) /\ related(u) /\ maps(u)
  BY Zenon DEF ValidStream
<1>6. maps(s) => maps(t)
  <2> SUFFICES ASSUME maps(s), NEW tag \in {110, 111}, Has(o, tag)
               PROVE  Get(o, tag, 0) # 0 /\ Resolves(t, "map", Get(o, tag, 0))
    BY Zenon
  <2>1. Get(o, tag, 0) # 0 /\ Resolves(s, "map", Get(o, tag, 0))
    OBVIOUS
  <2>2. Resolves(t, "map", Get(o, tag, 0))
    BY <2>1, MirrorResolves, Zenon
  <2> QED
    BY <2>1, <2>2
<1>7. resolved(s) => resolved(t)
  BY <1>1
<1>8. based(t)
  BY <1>3
<1>9. related(s) => related(t)
  BY <1>4
<1> HIDE DEF maps, resolved, based, related, counts, rest
<1> QED
  BY <1>2, <1>5, <1>6, <1>7, <1>8, <1>9

LEMMA MirrorChannel ==
  ASSUME NEW s, NEW t, NEW p, Mirror(s, t, p), NEW o \in Objects, ValidChannel(s, o)
  PROVE  ValidChannel(t, o)
<1>1. \A kind, id : Resolves(t, kind, id) <=> Resolves(s, kind, id)
  BY MirrorResolves
<1>2. s \in Seq(Objects) /\ t \in Seq(Objects)
  BY DEF Mirror
<1> QED
  BY <1>1, <1>2, ValidChannelIs DEF Interpreted

LEMMA MirrorBitfield ==
  ASSUME NEW s, NEW t, NEW p, Mirror(s, t, p), NEW o, ValidBitfield(s, o)
  PROVE  ValidBitfield(t, o)
<1> DEFINE storage == Get(o, 500, 0)
           Member(i) == o.tlvs[i].value
           Good(i) == /\ Member(i).sound /\ Member(i).width # 0
                      /\ Member(i).lsb + Member(i).width <= storage
           Apart(i) == \A j \in Every(o, 501) :
                         j < i => Bits(Member(j)) \cap Bits(Member(i)) = {}
           Named(u, i) == Member(i).map # 0 => Resolves(u, "map", Member(i).map)
           Stored(c) == c.kind = "channel" /\ Get(c, 210, 0) = o.id =>
                          Has(c, 203) /\ Get(c, 203, 0) = storage
<1>1. \A kind, id : Resolves(t, kind, id) <=> Resolves(s, kind, id)
  BY MirrorResolves
<1>2. \A u : ValidBitfield(u, o) <=>
        /\ storage # 0
        /\ \A i \in Every(o, 501) : Good(i) /\ Named(u, i) /\ Apart(i)
        /\ \A i \in DOMAIN u : Stored(u[i])
  BY DEF ValidBitfield
<1>3. \A i : Named(s, i) <=> Named(t, i)
  BY <1>1
<1>4. \A k \in DOMAIN t : p[k] \in DOMAIN s /\ t[k] = s[p[k]]
  BY DEF Mirror
<1> HIDE DEF storage, Member, Good, Apart, Named, Stored
<1>5. \A i \in Every(o, 501) : Good(i) /\ Named(t, i) /\ Apart(i)
  BY <1>2, <1>3
<1>6. \A i \in DOMAIN t : Stored(t[i])
  BY <1>2, <1>4
<1> QED
  BY <1>2, <1>5, <1>6

LEMMA MirrorAccepts ==
  ASSUME NEW s, NEW t, NEW p, Mirror(s, t, p), Accepts(s)
  PROVE  Accepts(t)
<1>1. s \in Seq(Objects) /\ t \in Seq(Objects)
  BY DEF Mirror
<1>2. Plain(s) /\ \A i \in DOMAIN s : ValidReferences(s, s[i])
  BY <1>1, AcceptsIs
<1>3. Plain(t)
  BY <1>2, MirrorPlain
<1>4. ASSUME NEW o \in Objects, ValidReferences(s, o) PROVE ValidReferences(t, o)
  BY <1>2, <1>4, MirrorStream, MirrorChannel, MirrorBitfield DEF ValidReferences
<1>5. \A k \in DOMAIN t : p[k] \in DOMAIN s /\ t[k] = s[p[k]] /\ t[k] \in Objects
  BY <1>1 DEF Mirror
<1>6. \A k \in DOMAIN t : ValidReferences(t, t[k])
  BY <1>2, <1>4, <1>5
<1> QED
  BY <1>1, <1>3, <1>6, AcceptsIs

LEMMA MirrorNetStream ==
  ASSUME NEW s, NEW t, NEW p, Mirror(s, t, p), NEW o, o.id # 0, NetValidStream(s, o)
  PROVE  NetValidStream(t, o)
<1> DEFINE clock == Get(o, 105, 0)
           kind == Get(o, 106, 1)
           rest == /\ kind \in 1 .. 4
                   /\ kind \in {2, 3} => Get(o, 104, 0) = 0
                   /\ kind = 3 => Get(o, 107, 0) # 0
           counts(n) == Has(o, 104) => Get(o, 104, 0) = n
           resolved(u) == clock # 0 => Resolves(u, "clock", clock)
           related(u) == kind = 4 => NetCorrelates(u, o)
           maps(u) == \A tag \in {110, 111} :
                        Get(o, tag, 0) # 0 => Resolves(u, "map", Get(o, tag, 0))
<1>0. s \in Seq(Objects) /\ t \in Seq(Objects)
  BY DEF Mirror
<1>1. \A i, id : Resolves(t, i, id) <=> Resolves(s, i, id)
  BY MirrorResolves
<1>2. \A u : NetValidStream(u, o) <=>
        /\ rest /\ counts(Cardinality(NetChannels(u, o.id)))
        /\ resolved(u) /\ related(u) /\ maps(u)
  BY Zenon DEF NetValidStream
<1>3. Cardinality(NetChannels(t, o.id)) = Cardinality(NetChannels(s, o.id))
  BY <1>0, MirrorChannels, ChannelsAgree
<1>4. NetCorrelates(s, o) => NetCorrelates(t, o)
  BY <1>0, MirrorCorrelates, CorrelatesAgree
<1>5. resolved(s) => resolved(t)
  BY <1>1
<1>6. maps(s) => maps(t)
  BY <1>1
<1>7. related(s) => related(t)
  BY <1>4
<1> HIDE DEF rest, counts, resolved, related, maps
<1> QED
  BY <1>2, <1>3, <1>5, <1>6, <1>7

LEMMA MirrorNetChannel ==
  ASSUME NEW s, NEW t, NEW p, Mirror(s, t, p), NEW o, NetValidChannel(s, o)
  PROVE  NetValidChannel(t, o)
<1> DEFINE stream == Get(o, 200, 0)
<1>1. \A kind, id : Resolves(t, kind, id) <=> Resolves(s, kind, id)
  BY MirrorResolves
<1>2. \A u : NetValidChannel(u, o) <=>
        /\ Resolves(u, "stream", stream)
        /\ \A i \in NetChannels(u, stream) : NetReadable(u[i])
        /\ Interpreted(u, o)
  BY Zenon DEF NetValidChannel, Interpreted
<1>3. Interpreted(s, o) <=> Interpreted(t, o)
  BY <1>1 DEF Interpreted
<1>4. \A i \in NetChannels(t, stream) :
        p[i] \in NetChannels(s, stream) /\ t[i] = s[p[i]]
  BY DEF Mirror, NetChannels
<1> HIDE DEF stream
<1> QED
  BY <1>1, <1>2, <1>3, <1>4

LEMMA MirrorNetBitfield ==
  ASSUME NEW s, NEW t, NEW p, Mirror(s, t, p), NEW o, NetValidBitfield(s, o)
  PROVE  NetValidBitfield(t, o)
<1> DEFINE storage == Get(o, 500, 0)
           Member(i) == o.tlvs[i].value
           Good(i) == /\ Member(i).sound /\ Member(i).width # 0
                      /\ Member(i).lsb + Member(i).width <= storage
                      /\ Bits(Member(i)) \cap Occupied(o, i) = {}
           Named(u, i) == Member(i).map # 0 => Resolves(u, "map", Member(i).map)
           Stored(c) == c.kind = "channel" /\ Has(c, 210) /\ Get(c, 210, 0) = o.id =>
                          Has(c, 203) /\ Get(c, 203, 0) = storage
<1>1. \A kind, id : Resolves(t, kind, id) <=> Resolves(s, kind, id)
  BY MirrorResolves
<1>2. \A u : NetValidBitfield(u, o) <=>
        /\ Has(o, 500)
        /\ \A i \in Every(o, 501) : Good(i) /\ Named(u, i)
        /\ \A i \in DOMAIN u : Stored(u[i])
  BY DEF NetValidBitfield
<1>3. \A i : Named(s, i) <=> Named(t, i)
  BY <1>1
<1>4. \A k \in DOMAIN t : p[k] \in DOMAIN s /\ t[k] = s[p[k]]
  BY DEF Mirror
<1> HIDE DEF storage, Member, Good, Named, Stored
<1>5. \A i \in Every(o, 501) : Good(i) /\ Named(t, i)
  BY <1>2, <1>3
<1>6. \A i \in DOMAIN t : Stored(t[i])
  BY <1>2, <1>4
<1> QED
  BY <1>2, <1>5, <1>6

LEMMA MirrorNetAccepts ==
  ASSUME NEW s, NEW t, NEW p, Mirror(s, t, p), NetAccepts(s)
  PROVE  NetAccepts(t)
<1>1. s \in Seq(Objects) /\ t \in Seq(Objects)
  BY DEF Mirror
<1>2. Plain(s) /\ \A i \in DOMAIN s : NetReferences(s, s[i])
  BY <1>1, AcceptsIs
<1>3. Plain(t)
  BY <1>2, MirrorPlain
<1>4. ASSUME NEW o, o.id # 0, NetReferences(s, o) PROVE NetReferences(t, o)
  BY <1>4, MirrorNetStream, MirrorNetChannel, MirrorNetBitfield DEF NetReferences
<1>5. \A k \in DOMAIN t : p[k] \in DOMAIN s /\ t[k] = s[p[k]] /\ t[k].id # 0
  BY <1>3 DEF Mirror, Plain
<1>6. \A k \in DOMAIN t : NetReferences(t, t[k])
  BY <1>2, <1>4, <1>5
<1> QED
  BY <1>1, <1>3, <1>6, AcceptsIs

(***************************************************************************)
(* Objects may refer forwards, and every search of sdaf_schema.c and of    *)
(* ValidateSchema finds one object or none: neither library's verdict      *)
(* depends on the order in which the objects of a schema stand.            *)
(***************************************************************************)
THEOREM OrderNeverMatters == SchemasSpec => []OrderIsIrrelevant
<1>1. SchemaInv => OrderIsIrrelevant
  <2> SUFFICES ASSUME SchemaInv, verdict # "open", NEW i \in 1 .. Len(schema) - 1
               PROVE  /\ Accepts(Swapped(i)) <=> verdict \in {"both", "C only"}
                      /\ NetAccepts(Swapped(i)) <=> verdict \in {"both", ".NET only"}
    BY DEF OrderIsIrrelevant
  <2> DEFINE t == Swapped(i)
  <2>1. t = [schema EXCEPT ![i] = schema[i + 1], ![i + 1] = schema[i]]
    BY DEF Swapped
  <2> HIDE DEF t
  <2>2. PICK p : Mirror(schema, t, p)
    BY <2>1, SwappedMirrors DEF SchemaInv
  <2>3. Mirror(t, schema, p)
    BY <2>2, MirrorBack
  <2>4. Accepts(t) <=> Accepts(schema)
    BY <2>2, <2>3, MirrorAccepts
  <2>5. NetAccepts(t) <=> NetAccepts(schema)
    BY <2>2, <2>3, MirrorNetAccepts
  <2>6. /\ Accepts(t) <=> verdict \in {"both", "C only"}
        /\ NetAccepts(t) <=> verdict \in {"both", ".NET only"}
    BY <2>4, <2>5 DEF SchemaInv
  <2> QED
    BY <2>6 DEF t
<1> QED
  BY <1>1, SchemaInvariant, PTL

-----------------------------------------------------------------------------
(* The channels of a stream. *)

Sorted(s, q) ==
  \A i, j \in DOMAIN q : i < j => q[i] # q[j] /\ s[q[i]].id <= s[q[j]].id

\* Every set of positions can be put in the order of the ids.
LEMMA SortedExists ==
  ASSUME NEW s \in Seq(Objects)
  PROVE  \A P \in SUBSET DOMAIN s :
           \E q \in [1 .. Cardinality(P) -> P] : Sorted(s, q)
<1> DEFINE Can(P) == \E q \in [1 .. Cardinality(P) -> P] : Sorted(s, q)
           Bad == {n \in Nat : \E P \in SUBSET DOMAIN s : Cardinality(P) = n /\ ~Can(P)}
<1>1. \A P \in SUBSET DOMAIN s : IsFiniteSet(P) /\ Cardinality(P) \in Nat
  <2>1. IsFiniteSet(DOMAIN s)
    BY DOMAIN s = 1 .. Len(s), Len(s) \in Nat, FS_Interval
  <2> QED
    BY <2>1, FS_Subset, FS_CardinalityType
<1>2. ASSUME Bad # {} PROVE FALSE
  <2> DEFINE n == Min(Bad)
  <2>1. Bad \subseteq Nat
    OBVIOUS
  <2> HIDE DEF Bad
  <2>2. n \in Bad /\ \A k \in Bad : n <= k
    BY <1>2, <2>1, MinIs
  <2> HIDE DEF n
  <2> USE DEF Bad
  <2>3. PICK P \in SUBSET DOMAIN s : Cardinality(P) = n /\ ~Can(P)
    BY <2>2
  <2>4. n \in Nat /\ IsFiniteSet(P)
    BY <1>1, <2>2
  <2>5. P # {}
    <3> SUFFICES ASSUME P = {} PROVE FALSE
      OBVIOUS
    <3>1. Cardinality(P) = 0
      BY FS_EmptySet
    <3>2. << >> \in [1 .. Cardinality(P) -> P] /\ Sorted(s, << >>)
      BY <3>1 DEF Sorted
    <3> QED
      BY <2>3, <3>2
  <2> DEFINE Ids == {s[i].id : i \in P}
  <2>6. PICK p \in P : \A i \in P : s[p].id <= s[i].id
    <3>1. \A i \in P : s[i] \in Objects /\ s[i].id \in Nat
      BY ObjectIs
    <3>2. Ids \subseteq Nat /\ Ids # {}
      BY <2>5, <3>1
    <3>3. Min(Ids) \in Ids /\ \A k \in Ids : Min(Ids) <= k
      BY <3>2, MinIs
    <3> QED
      BY <3>3
  <2> DEFINE R == P \ {p}
  <2>7. Cardinality(R) = n - 1 /\ n - 1 \in Nat
    <3>1. IsFiniteSet(R) /\ Cardinality(R) = Cardinality(P) - 1
      BY <2>4, <2>6, FS_RemoveElement
    <3>2. Cardinality(R) \in Nat
      BY <3>1, FS_CardinalityType
    <3> QED
      BY <2>3, <3>1, <3>2
  <2>8. Can(R)
    <3>1. n - 1 \notin Bad
      BY <2>2, <2>4
    <3> QED
      BY <2>7, <3>1
  <2>9. PICK q \in [1 .. n - 1 -> R] : Sorted(s, q)
    BY <2>7, <2>8
  <2> DEFINE r == [k \in 1 .. n |-> IF k = 1 THEN p ELSE q[k - 1]]
  <2>10. \A k \in 1 .. n : k # 1 => k - 1 \in 1 .. n - 1 /\ q[k - 1] \in R
    BY <2>4, <2>9
  <2>11. r \in [1 .. Cardinality(P) -> P]
    BY <2>3, <2>6, <2>10
  <2>12. ASSUME NEW i \in 1 .. n, NEW j \in 1 .. n, i < j
         PROVE  r[i] # r[j] /\ s[r[i]].id <= s[r[j]].id
    <3>1. j # 1 /\ r[j] = q[j - 1] /\ q[j - 1] \in R /\ j - 1 \in 1 .. n - 1
      BY <2>10, <2>12
    <3>2. CASE i = 1
      BY <2>6, <3>1, <3>2
    <3>3. CASE i # 1
      <4>1. r[i] = q[i - 1] /\ i - 1 \in 1 .. n - 1 /\ i - 1 < j - 1
        BY <2>10, <2>12, <3>3
      <4> QED
        BY <2>9, <3>1, <4>1 DEF Sorted
    <3> QED
      BY <3>2, <3>3
  <2>13. Sorted(s, r)
    BY <2>12 DEF Sorted
  <2> QED
    BY <2>3, <2>11, <2>13
<1> QED
  BY <1>1, <1>2

LEMMA OrderedIs ==
  ASSUME NEW s \in Seq(Objects), NEW P \in SUBSET DOMAIN s
  PROVE  /\ OrderedById(s, P) \in [1 .. Cardinality(P) -> P]
         /\ Sorted(s, OrderedById(s, P))
<1>1. \E q \in [1 .. Cardinality(P) -> P] : Sorted(s, q)
  BY SortedExists
<1>2. OrderedById(s, P) = CHOOSE q \in [1 .. Cardinality(P) -> P] : Sorted(s, q)
  BY Zenon DEF OrderedById, Sorted
<1> QED
  BY <1>1, <1>2

(***************************************************************************)
(* sdaf_channels_for_stream and GetChannels make the same fields of an     *)
(* accepted schema, in the order of ids that all differ, with widths that  *)
(* their types allow: what both codecs rely on when they pack and unpack.  *)
(***************************************************************************)
THEOREM ChannelsStayDecodable == SchemasSpec => []ChannelsAreDecodable
<1>1. SchemaInv => ChannelsAreDecodable
  <2> SUFFICES ASSUME SchemaInv, verdict = "both", NEW k \in DOMAIN schema,
                      schema[k].kind = "stream"
               PROVE  LET o == schema[k]
                          channels == ChannelsForStream(schema, o.id)
                      IN /\ channels = NetGetChannels(schema, o.id)
                         /\ \A i \in DOMAIN channels :
                              /\ WidthsFit(channels[i].type, channels[i].logical,
                                           channels[i].storage)
                              /\ channels[i].elements # 0
                              /\ \A j \in 1 .. i - 1 : channels[j].id < channels[i].id
    BY Zenon DEF ChannelsAreDecodable, ToSet
  <2> DEFINE id == schema[k].id
             P == ChannelsOf(schema, id)
             q == OrderedById(schema, P)
             channels == ChannelsForStream(schema, id)
             info(i) == ChannelInfo(schema[q[i]])
  <2>0. schema \in Seq(Objects) /\ Accepts(schema)
    BY DEF SchemaInv
  <2>1. Plain(schema) /\ \A i \in DOMAIN schema : ValidReferences(schema, schema[i])
    BY <2>0, AcceptsIs
  <2>2. id # 0
    BY <2>1 DEF Plain
  <2>3. P = NetChannels(schema, id)
    BY <2>0, <2>2, ChannelsAgree
  <2>4. P \in SUBSET DOMAIN schema
    BY DEF ChannelsOf
  <2>5. q \in [1 .. Cardinality(P) -> P] /\ Sorted(schema, q)
    BY <2>0, <2>4, OrderedIs
  <2>6. Cardinality(P) \in Nat
    BY <2>0, ChannelsFinite
  <2>7. channels = [i \in DOMAIN q |-> info(i)]
    BY DEF ChannelsForStream
  <2>8. channels = NetGetChannels(schema, id)
    <3>1. \A o : ChannelInfo(o) = NetChannelInfo(o)
      BY DEF ChannelInfo, NetChannelInfo
    <3> QED
      BY <2>3, <3>1 DEF ChannelsForStream, NetGetChannels
  <2> HIDE DEF q, channels
  <2>9. ASSUME NEW i \in DOMAIN q
        PROVE  /\ q[i] \in P /\ q[i] \in DOMAIN schema
               /\ schema[q[i]] \in Objects /\ schema[q[i]].kind = "channel"
    BY <2>0, <2>4, <2>5 DEF ChannelsOf
  <2>10. ASSUME NEW i \in DOMAIN channels
         PROVE  /\ WidthsFit(channels[i].type, channels[i].logical, channels[i].storage)
                /\ channels[i].elements # 0
    <3> DEFINE o == schema[q[i]]
    <3>1. i \in DOMAIN q /\ channels[i] = ChannelInfo(o)
      BY <2>7
    <3>2. o \in Objects /\ ValidChannel(schema, o)
      BY <2>1, <2>9, <3>1 DEF ValidReferences
    <3> HIDE DEF o
    <3>3. NetReadable(o)
      BY <2>0, <3>2, ValidChannelIs
    <3> QED
      BY <3>1, <3>2, <3>3, ReadableIs DEF ChannelInfo
  <2>11. ASSUME NEW i \in DOMAIN channels, NEW j \in 1 .. i - 1
         PROVE  channels[j].id < channels[i].id
    <3>1. i \in DOMAIN q /\ j \in DOMAIN q /\ j < i
      BY <2>5, <2>6, <2>7
    <3>2. channels[i] = info(i) /\ channels[j] = info(j)
      BY <2>7, <3>1
    <3>3. channels[i].id = schema[q[i]].id /\ channels[j].id = schema[q[j]].id
      BY <3>2 DEF ChannelInfo
    <3>4. q[j] # q[i] /\ schema[q[j]].id <= schema[q[i]].id
      BY <2>5, <3>1 DEF Sorted
    <3>5. schema[q[j]].id # schema[q[i]].id
      BY <2>1, <2>9, <3>1, <3>4 DEF Plain, Distinct, SameId
    <3>6. schema[q[j]].id \in Nat /\ schema[q[i]].id \in Nat
      BY <2>9, <3>1, ObjectIs
    <3> QED
      BY <3>3, <3>4, <3>5, <3>6
  <2> QED
    BY <2>8, <2>10, <2>11 DEF channels
<1> QED
  BY <1>1, SchemaInvariant, PTL
=============================================================================
