----------------------------- MODULE SdafSchemas -----------------------------
(***************************************************************************)
(* One SCMA record read by both libraries: its objects come one after      *)
(* another, then each library says whether it accepts the schema.          *)
(***************************************************************************)
EXTENDS SdafNetSchema

CONSTANTS
  Families,   \* sets of objects that come in one schema
  MaxObjects  \* bound: objects of a schema

\* What the bytes of an object can be read as: numbers, and in a map and in
\* a bitfield also entries and members.
TlvOf(tags, values) ==
  [tag : tags, wire : STRING, sound : BOOLEAN, value : values]
ObjectOf(kinds, tlvs) == [kind : kinds, id : Nat, tlvs : Seq(tlvs)]

Objects ==
  ObjectOf(STRING \ {"map", "bitfield"}, TlvOf(Nat, Nat))
    \cup ObjectOf({"map"},
           TlvOf(Nat \ {400}, Nat)
             \cup TlvOf({400}, [raw : Nat, name : Nat, sound : BOOLEAN]))
    \cup ObjectOf({"bitfield"},
           TlvOf(Nat \ {501}, Nat)
             \cup TlvOf({501}, [lsb : Nat, width : Nat, map : Nat, sound : BOOLEAN]))

ASSUME SchemasAssumption ==
  /\ Families \subseteq SUBSET Objects
  /\ MaxObjects \in Nat

VARIABLES
  family,   \* the objects this schema is made of
  schema,   \* the objects so far
  verdict   \* "open", then what the C and the .NET library say

schemaVars == <<family, schema, verdict>>

SchemasInit == family \in Families /\ schema = <<>> /\ verdict = "open"

AddObject ==
  /\ verdict = "open"
  /\ Len(schema) < MaxObjects
  /\ \E o \in family : schema' = Append(schema, o)
  /\ UNCHANGED <<family, verdict>>

Judge ==
  /\ verdict = "open"
  /\ verdict' = IF Accepts(schema)
                THEN IF NetAccepts(schema) THEN "both" ELSE "C only"
                ELSE IF NetAccepts(schema) THEN ".NET only" ELSE "neither"
  /\ UNCHANGED <<family, schema>>

SchemasNext == AddObject \/ Judge

SchemasSpec == SchemasInit /\ [][SchemasNext]_schemaVars

-----------------------------------------------------------------------------

\* What the C library refuses and the .NET reader does not look at.
Unseen(s, o) ==
  \/ /\ o.kind = "stream"
     /\ \/ Get(o, 106, 1) \in {2, 3} /\ ~Has(o, 104) /\ ChannelsOf(s, o.id) # {}
        \/ Get(o, 100, 0) > 4
        \/ \E tag \in {110, 111} : Has(o, tag) /\ Get(o, tag, 0) = 0
        \/ /\ Get(o, 105, 0) # 0
           /\ ~SameTimebase(o, Referred(s, "clock", Get(o, 105, 0)))
  \/ o.kind = "bitfield" /\ Get(o, 500, 0) = 0

(***************************************************************************)
(* The two libraries, written apart and in different terms, agree on what  *)
(* a schema is: the .NET reader accepts what the C library accepts, and    *)
(* what else it accepts has one of the five flaws it does not look at.     *)
(***************************************************************************)
SameSchemas ==
  /\ verdict # "C only"
  /\ verdict \in {"both", ".NET only"} =>
       (verdict = ".NET only" <=> \E i \in DOMAIN schema : Unseen(schema, schema[i]))

(***************************************************************************)
(* The codecs trust an accepted schema: the channels of each stream have   *)
(* the widths their types allow and at least one element, and both         *)
(* libraries take the fields of a sample in the same order, by ids that    *)
(* all differ, wherever in the schema the channels stand.                  *)
(***************************************************************************)
ChannelsAreDecodable ==
  verdict = "both" =>
    \A o \in ToSet(schema) : o.kind = "stream" =>
      LET channels == ChannelsForStream(schema, o.id) IN
      /\ channels = NetGetChannels(schema, o.id)
      /\ \A i \in DOMAIN channels :
           /\ WidthsFit(channels[i].type, channels[i].logical, channels[i].storage)
           /\ channels[i].elements # 0
           /\ \A j \in 1 .. i - 1 : channels[j].id < channels[i].id

\* The schema with the objects at i and i + 1 in each other's place.
Swapped(i) == [schema EXCEPT ![i] = schema[i + 1], ![i + 1] = schema[i]]

(***************************************************************************)
(* References may point forwards, and what is unique is unique in both     *)
(* directions: objects that change places change neither library's         *)
(* verdict.                                                                *)
(***************************************************************************)
OrderIsIrrelevant ==
  verdict # "open" =>
    \A i \in 1 .. Len(schema) - 1 :
      /\ Accepts(Swapped(i)) <=> verdict \in {"both", "C only"}
      /\ NetAccepts(Swapped(i)) <=> verdict \in {"both", ".NET only"}
=============================================================================
