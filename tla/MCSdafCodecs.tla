---------------------------- MODULE MCSdafCodecs ----------------------------
(* Records for the codecs: bytes of two bits, words of four, blocks of two  *)
(* values, with every sample area of the records listed, and every period.      *)
EXTENDS SdafCodecs

Untimed(n) ==
  [mode |-> "none", start |-> 0, numerator |-> 0, denominator |-> 0,
   count |-> n, stamps |-> << >>]
Periodic ==
  {[mode |-> "periodic", start |-> s, numerator |-> n, denominator |-> d,
    count |-> 4, stamps |-> << >>] :
     s \in {MinInt, -3, -1, 0, 2, MaxInt}, n \in Words, d \in Words \ {0}}
StampedHeaders ==
  {[mode |-> m, start |-> s, numerator |-> 0, denominator |-> 0,
    count |-> 2, stamps |-> <<t, u>>] :
   m \in {"delta", "explicit"}, s \in {MinInt, 0, MaxInt}, t \in {MinInt, 1},
   u \in {-1, MaxInt}}

MCHeaders == Periodic \cup StampedHeaders \cup {Untimed(n) : n \in 0 .. 3}

Channel(type, logical, storage, elements) ==
  [type |-> type, logical |-> logical, storage |-> storage,
   elements |-> elements]
Sensor == Channel("signed", 2, 3, 1)
Bit == Channel("signed", 1, 2, 1)
Single == Channel("unsigned", 1, 1, 1)
Pair == Channel("unsigned", 1, 1, 2)
Wide == Channel("unsigned", 3, 3, 1)
Float == Channel("float", 4, 4, 1)
FloatPair == Channel("float", 2, 2, 2)
Flag == Channel("boolean", 1, 1, 1)
Raw == Channel("fixed bytes", 2, 2, 1)

Block(h, channels, layout, packing, profile, first) ==
  [header |-> h, channels |-> channels, layout |-> layout,
   packing |-> packing, profile |-> profile, first |-> first]
Record(n, channels, layout, packing, profile) ==
  Block(Untimed(n), channels, layout, packing, profile, 0)

SampleBlocks ==
  {Record(2, <<Sensor>>, "interleaved", "aligned", p) : p \in {"none", "numeric"}}
  \cup {Record(3, <<Sensor>>, "planar", "dense", p) : p \in {"none", "numeric"}}
  \cup {Record(3, <<Bit, Single>>, l, "dense", "numeric") :
          l \in {"interleaved", "planar"}}
  \cup {Record(3, <<Single, Pair>>, l, "dense", "numeric") :
          l \in {"interleaved", "planar"}}
  \cup {Record(3, <<Wide>>, "interleaved", "dense", "numeric"),
        Record(2, <<Float>>, "interleaved", "dense", "bitwise"),
        Record(2, <<FloatPair>>, "planar", "aligned", "bitwise"),
        Record(0, <<Wide>>, "planar", "dense", "numeric")}
  \cup {Record(2, <<Flag, Raw>>, "planar", "aligned", p) :
          p \in {"none", "numeric", "bitwise"}}
IndexBlocks ==
  {Block(Untimed(2), <<Flag>>, "planar", "dense", "none", f) :
     f \in MaxWord - 2 .. MaxWord}
TimeBlocks ==
  {Block(h, <<Flag>>, "interleaved", "dense", "none", 0) :
     h \in Periodic \cup StampedHeaders}

MCBlocks == SampleBlocks \cup IndexBlocks \cup TimeBlocks
\* Every area of a record that is about samples.
MCAreas(b) ==
  IF b.header.mode = "none" /\ b.first = 0
    THEN SUBSET (0 .. AreaBits(b, Order(b, b.header.count)) - 1)
    ELSE {{}}
=============================================================================
