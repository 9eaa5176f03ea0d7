--------------------------- MODULE SdafOwnership ---------------------------
(***************************************************************************)
(* Who owns the memory sdaf_decode allocates (sdaf_reader.c, and the parts *)
(* of sdaf_codec.c and sdaf_schema.c it calls).  A parse function puts     *)
(* blocks into local variables, moves them into fields of the record and   *)
(* sets the counts of the record's arrays, in an order of its own; it may  *)
(* stop at any check and at any allocation.  free_record then releases a   *)
(* record that is finished in part, by walking its arrays up to their      *)
(* counts.                                                                 *)
(*                                                                         *)
(* A parse function is the sequence of its operations that matter for      *)
(* this; what a check looks at is left out, so each may pass or fail.      *)
(***************************************************************************)
EXTENDS Naturals, FiniteSets, SequencesExt

CONSTANTS
  TransformCounts, \* numbers of transforms, objects, TLVs of an object,
  ObjectCounts,    \* entries, samples and lanes of a record
  TlvCounts,
  EntryCounts,
  SampleCounts,
  LaneCounts,
  MaxRecords       \* bound: records of a document

ASSUME OwnershipAssumption ==
  /\ TransformCounts \cup ObjectCounts \cup TlvCounts \subseteq Nat
  /\ EntryCounts \cup SampleCounts \cup LaneCounts \subseteq Nat
  /\ MaxRecords \in Nat

VARIABLES
  records,  \* document->records
  record,   \* the sdaf_record sdaf_decode is working on
  todo,     \* the operations left of its parse function
  locals,   \* the blocks the function's local variables point to
  held,     \* the allocated blocks, each with the record it was made for
  verdict,  \* the status the call is going to return
  status    \* progress of the call, or the status it returned

ownershipVars == <<records, record, todo, locals, held, verdict, status>>

Failures == {"FORMAT", "LIMIT", "MEMORY"}

-----------------------------------------------------------------------------
(* Blocks.  A block is named by the variable that holds it and, when it    *)
(* hangs on an element of an array, the position of that element.          *)

Transforms == <<"transforms">>
Objects == <<"objects">>
Samples == <<"samples">>
Stored == <<"stored_payload">>
Decoded == <<"decoded_payload">>
Channels == <<"channels">>            \* of parse_data
SampleChannels == <<"its channels">>  \* of sdaf_decode_data_samples

\* The array a block hangs on, by name.
HangsOn ==
  [parameters |-> "transforms", tlvs |-> "objects", value |-> "tlvs",
   values |-> "samples", bytes |-> "values"]

Above(block) == <<HangsOn[block[1]]>> \o SubSeq(block, 2, Len(block) - 1)

NoRecord ==
  [type |-> "none", timed |-> FALSE, fields |-> {}, counts |-> <<>>]

\* A count that was never set is zero: the record starts zeroed.
CountOf(r, array) == IF array \in DOMAIN r.counts THEN r.counts[array] ELSE 0

-----------------------------------------------------------------------------
(* free_record. *)

\* Samples are walked only if they are there; the other arrays as far as
\* their counts say.
Walked(r) ==
  {Transforms, Objects}
    \cup {<<"tlvs", i>> : i \in 1 .. CountOf(r, Objects)}
    \cup {<<"values", s>> :
            s \in {n \in 1 .. CountOf(r, Samples) : Samples \in r.fields}}

\* Releasing the record reads elements of an array that is not there.
ReadsMissing(r) ==
  \E array \in Walked(r) : CountOf(r, array) > 0 /\ array \notin r.fields

\* What the walk frees: elements up to the counts, and the plain fields.
Released(r) ==
  {b \in r.fields :
     /\ Len(b) > 1 => b[Len(b)] <= CountOf(r, Above(b))
     /\ Len(b) > 2 => b[2] <= CountOf(r, Above(Above(b)))}

Mine(blocks) == {<<Len(records) + 1, b>> : b \in blocks}

-----------------------------------------------------------------------------
(* The operations parse functions are made of.  "frees" is what the code   *)
(* frees itself before it returns the error.                               *)

Check(as, frees) == [do |-> "check", as |-> as, frees |-> frees]
Malformed(frees) == Check({"FORMAT"}, frees)
Claim(b, as, frees) ==
  [do |-> "claim", block |-> b, as |-> as, frees |-> frees]
Give(bs) == [do |-> "give", blocks |-> bs, frees |-> {}]
Drop(bs) == [do |-> "drop", blocks |-> bs, frees |-> bs]
SetCount(array, n) ==
  [do |-> "count", array |-> array, n |-> n, frees |-> {}]

\* The function may return SDAF_OK here, with the record as it is.
MayReturn(frees) == [do |-> "return", frees |-> frees]

\* A block that goes into a field at once.
Keep(b, frees) == <<Claim(b, {"MEMORY"}, frees), Give({b})>>

-----------------------------------------------------------------------------
(* The parse functions. *)

ParseTlvs(i, count) ==
  <<Malformed({})>> \o Keep(<<"tlvs", i>>, {})
    \o <<SetCount(<<"tlvs", i>>, count)>>
    \o FlattenSeq([j \in 1 .. count |-> Keep(<<"value", i, j>>, {})])

\* validate_bitfield keeps a note of the bits used.
ValidateBitfield ==
  LET used == <<"used">> IN
  <<Malformed({}), Claim(used, {"MEMORY"}, {}), Malformed({used}), Drop({used})>>

ParseSchema(objects, tlvs, bitfields) ==
  <<Malformed({}), Check({"LIMIT"}, {}), SetCount(Objects, objects)>>
    \o Keep(Objects, {})
    \o FlattenSeq([i \in 1 .. objects |->
                     <<Malformed({})>> \o ParseTlvs(i, tlvs)])
    \o <<Malformed({}), Check({"FORMAT", "LIMIT"}, {})>>
    \o FlattenSeq([i \in 1 .. bitfields |-> ValidateBitfield])
    \o <<Malformed({})>>

Parameters(n) == {<<"parameters", i>> : i \in 1 .. n}

\* (a defective variant, for the mutation runs)
ParseTransformsLosing(count) ==   \* a bad descriptor loses the list
  <<Claim(Transforms, {"MEMORY"}, {})>>
    \o FlattenSeq([i \in 1 .. count |->
         <<Malformed({}), Claim(<<"parameters", i>>, {"MEMORY"}, {}),
           Malformed({})>>])
    \o <<Give({Transforms} \cup Parameters(count))>>

\* parse_transforms works on a list of its own and hands it over whole.
ParseTransforms(count) ==
  <<Claim(Transforms, {"MEMORY"}, {})>>
    \o FlattenSeq([i \in 1 .. count |->
         LET sofar == {Transforms} \cup Parameters(i - 1) IN
         <<Malformed(sofar), Claim(<<"parameters", i>>, {"MEMORY"}, sofar),
           Malformed({Transforms} \cup Parameters(i))>>])
    \o <<Give({Transforms} \cup Parameters(count))>>

Decompress(b, frees) ==
  <<Claim(b, {"MEMORY"}, frees), Malformed(frees \cup {b})>>

\* sdaf_decode_transforms; more than one transform is a typed profile.
Work == {<<"zigzag">>, <<"previous">>, <<"raw">>}

DecodeTransforms(count, frees) ==
  IF count = 0 THEN Keep(Decoded, frees)
  ELSE IF count = 1 THEN Decompress(Decoded, frees) \o <<Give({Decoded})>>
  ELSE LET inner == <<"intermediate">>
           all == frees \cup Work \cup {inner}
       IN
       <<Check({"FORMAT", "LIMIT"}, frees)>>
         \o Decompress(inner, frees)
         \o <<Claim(<<"zigzag">>, {"MEMORY"}, frees \cup {inner}),
              Malformed(frees \cup {inner, <<"zigzag">>}),
              Claim(<<"previous">>, {"MEMORY"}, frees \cup {inner, <<"zigzag">>}),
              Claim(<<"raw">>, {"MEMORY"}, all \ {<<"raw">>}),
              Claim(Decoded, {"MEMORY"}, all),
              Malformed(all \cup {Decoded}),
              Drop(Work \cup {inner}), Give({Decoded})>>

\* One value: fixed bytes are a block of their own, and a failure to
\* allocate it is reported as malformed content.
DecodeValue(s, lane, fixed, frees) ==
  LET bytes == <<"bytes", s, lane>> IN
  IF fixed
  THEN <<Malformed(frees), Claim(bytes, {"FORMAT"}, frees), Give({bytes})>>
  ELSE <<Malformed(frees)>>

DecodeSamples(samples, lanes, fixed) ==
  LET both == {Channels, SampleChannels} IN
  <<Check({"LIMIT"}, {Channels}),
    Claim(SampleChannels, {"MEMORY"}, {Channels}),
    Check({"FORMAT", "LIMIT"}, both)>>
    \o Keep(Samples, both)
    \o FlattenSeq([s \in 1 .. samples |->
         <<SetCount(<<"values", s>>, lanes)>>
           \o Keep(<<"values", s>>, both) \o <<Malformed(both)>>])
    \o FlattenSeq([s \in 1 .. samples |->
         FlattenSeq([l \in 1 .. lanes |-> DecodeValue(s, l, fixed, both)])])
    \o <<Malformed(both), Drop({SampleChannels})>>

\* (a defective variant, for the mutation runs)
ParseDataSchemaFirst(count, samples, lanes, fixed) ==
  <<Malformed({}), SetCount(Samples, samples), SetCount(Transforms, count),
    Malformed({}), Check({"LIMIT"}, {}), MayReturn({}), Malformed({})>>
    \o ParseTransforms(count) \o Keep(Stored, {})

ParseData(count, samples, lanes, fixed) ==
  <<Malformed({}), SetCount(Samples, samples), SetCount(Transforms, count),
    Malformed({}), Check({"LIMIT"}, {}), Malformed({})>>
    \o ParseTransforms(count)
    \o <<Malformed({})>>
    \o Keep(Stored, {})
    \o <<MayReturn({}),                           \* no such schema yet
         Malformed({}), Check({"LIMIT"}, {}),
         Claim(Channels, {"MEMORY"}, {}),
         Check({"FORMAT", "LIMIT"}, {Channels})>>
    \o (IF count = 0 THEN <<>> ELSE <<MayReturn({Channels})>>)
    \o DecodeTransforms(count, {Channels})
    \o <<Malformed({Channels})>>
    \o DecodeSamples(samples, lanes, fixed)
    \o <<Drop({Channels})>>

ParseBlob(count) ==
  <<Malformed({}), SetCount(Transforms, count),
    Malformed({}), Check({"LIMIT"}, {})>>
    \o ParseTransforms(count)
    \o <<Malformed({})>>
    \o Keep(Stored, {})
    \o (IF count = 0 THEN Keep(Decoded, {})
        ELSE <<MayReturn({})>> \o Decompress(Decoded, {}) \o <<Give({Decoded})>>)
    \o <<Malformed({})>>

ParseText == <<Check({"LIMIT", "FORMAT"}, {})>> \o Keep(<<"message">>, {})

ParseIndex(count) ==
  <<Malformed({})>> \o Keep(<<"entries">>, {})
    \o <<SetCount(<<"entries">>, count), Malformed({})>>

ParseUnknown == Keep(<<"type_header">>, {}) \o Keep(<<"payload">>, {})

\* The ways a record at hand may go through its parse function.
SchemaParses ==
  UNION {{ParseSchema(n, t, b) : t \in TlvCounts, b \in 0 .. n} : n \in ObjectCounts}

DataParses ==
  {ParseData(n, s, l, f) :
     n \in TransformCounts, s \in SampleCounts, l \in LaneCounts, f \in BOOLEAN}

BlobParses == {ParseBlob(n) : n \in TransformCounts \cap {0, 1}}

IndexParses == {ParseIndex(n) : n \in EntryCounts}

Parses ==
  [type : {"SCMA"}, timed : {FALSE}, todo : SchemaParses]
  \cup [type : {"DATA"}, timed : BOOLEAN, todo : DataParses]
  \cup [type : {"BLOB"}, timed : {FALSE}, todo : BlobParses]
  \cup [type : {"TEXT", "NOTE"}, timed : {FALSE}, todo : {ParseText}]
  \cup [type : {"INDX"}, timed : {FALSE}, todo : IndexParses]
  \cup [type : {"END!"}, timed : {FALSE}, todo : {<<Malformed({})>>}]
  \cup [type : {"PRIV"}, timed : {FALSE}, todo : {ParseUnknown}]

-----------------------------------------------------------------------------
(* sdaf_decode, as far as blocks are concerned. *)

OwnershipInit ==
  /\ records = <<>>
  /\ record = NoRecord
  /\ todo = <<>>
  /\ locals = {}
  /\ held = {}
  /\ verdict = "OK"
  /\ status = "idle"

Decode ==
  /\ status = "idle"
  /\ status' = "scanning"
  /\ UNCHANGED <<verdict, records, record, todo, locals, held>>

BeginRecord ==
  /\ status = "scanning"
  /\ Len(records) < MaxRecords
  /\ \E p \in Parses :
       /\ record' = [NoRecord EXCEPT !.type = p.type, !.timed = p.timed]
       /\ todo' = p.todo
  /\ status' = "parsing"
  /\ UNCHANGED <<verdict, records, locals, held>>

\* The input ends, or the envelope of the next record is refused.
EndScan ==
  /\ status = "scanning"
  /\ status' \in {"OK"} \cup Failures
  /\ UNCHANGED <<verdict, records, record, todo, locals, held>>

Does(what) == status = "parsing" /\ todo # <<>> /\ Head(todo).do = what

\* The parse function returns an error: what its local variables still
\* point to is out of reach.
Fail ==
  /\ verdict' \in Head(todo).as
  /\ status' = "failing"
  /\ held' = held \ Mine(Head(todo).frees)
  /\ locals' = {}
  /\ todo' = <<>>
  /\ UNCHANGED <<records, record>>

PassCheck ==
  /\ Does("check")
  /\ todo' = Tail(todo)
  /\ UNCHANGED <<verdict, records, record, locals, held, status>>

Allocate ==
  /\ Does("claim")
  /\ locals' = locals \cup {Head(todo).block}
  /\ held' = held \cup Mine({Head(todo).block})
  /\ todo' = Tail(todo)
  /\ UNCHANGED <<verdict, records, record, status>>

FailCheck == Does("check") /\ Fail

FailAllocation == Does("claim") /\ Fail

SetField ==
  /\ Does("give")
  /\ record' = [record EXCEPT !.fields = @ \cup Head(todo).blocks]
  /\ locals' = locals \ Head(todo).blocks
  /\ todo' = Tail(todo)
  /\ UNCHANGED <<verdict, records, held, status>>

SetArrayCount ==
  /\ Does("count")
  /\ record' = [record EXCEPT !.counts =
                  [a \in DOMAIN @ \cup {Head(todo).array} |->
                     IF a = Head(todo).array THEN Head(todo).n ELSE @[a]]]
  /\ todo' = Tail(todo)
  /\ UNCHANGED <<verdict, records, locals, held, status>>

FreeLocals ==
  /\ \/ Does("drop") /\ todo' = Tail(todo)
     \/ Does("return") /\ todo' = <<>>
  /\ held' = held \ Mine(Head(todo).frees)
  /\ locals' = locals \ Head(todo).frees
  /\ UNCHANGED <<verdict, records, record, status>>

GoOn ==
  /\ Does("return")
  /\ todo' = Tail(todo)
  /\ UNCHANGED <<verdict, records, record, locals, held, status>>

AppendRecord ==
  /\ status = "parsing"
  /\ todo = <<>>
  /\ records' = Append(records, record)
  /\ record' = NoRecord
  /\ status' = "scanning"
  /\ UNCHANGED <<verdict, todo, locals, held>>

\* max_records, or no memory for a longer list.
FailAppend ==
  /\ status = "parsing"
  /\ todo = <<>>
  /\ verdict' \in {"LIMIT", "MEMORY"}
  /\ status' = "failing"
  /\ UNCHANGED <<records, record, todo, locals, held>>

\* free_record for the record at hand.
FreeRecord ==
  /\ status = "failing"
  /\ ~ReadsMissing(record)
  /\ held' = held \ Mine(Released(record))
  /\ record' = NoRecord
  /\ status' = verdict
  /\ UNCHANGED <<verdict, records, todo, locals>>

\* Reading an element of an array that is not there, at address 0, ends the
\* process.
Die ==
  /\ status = "failing"
  /\ ReadsMissing(record)
  /\ status' = "died"
  /\ UNCHANGED <<verdict, records, record, todo, locals, held>>

Returned == status \in {"OK"} \cup Failures

\* sdaf_document_free.
FreeDocument ==
  /\ Returned
  /\ held' = held \ UNION {{<<i, b>> : b \in Released(records[i])} :
                             i \in 1 .. Len(records)}
  /\ records' = <<>>
  /\ verdict' = "OK"
  /\ status' = "idle"
  /\ UNCHANGED <<record, todo, locals>>

DecodeStep ==
  \/ Decode \/ BeginRecord \/ EndScan
  \/ PassCheck \/ FailCheck \/ Allocate \/ FailAllocation
  \/ SetField \/ SetArrayCount \/ FreeLocals \/ GoOn
  \/ AppendRecord \/ FailAppend \/ FreeRecord \/ Die

OwnershipNext == DecodeStep \/ FreeDocument

OwnershipSpec == OwnershipInit /\ [][OwnershipNext]_ownershipVars

-----------------------------------------------------------------------------

(***************************************************************************)
(* Every allocated block has exactly one owner at every step: a record of  *)
(* the document, the record at hand, or a local variable of the function   *)
(* at work.  So nothing is lost on any of the error paths, nothing in the  *)
(* document was freed before, and an error path frees only what it holds.  *)
(***************************************************************************)
EveryBlockOwned ==
  /\ held = (UNION {{<<i, b>> : b \in records[i].fields} : i \in 1 .. Len(records)})
              \cup Mine(record.fields \cup locals)
  /\ record.fields \cap locals = {}
  /\ todo # <<>> => Head(todo).frees \subseteq locals

(***************************************************************************)
(* A record that is kept has the arrays its counts announce, although it   *)
(* may be kept half decoded: sdaf_document_free and the exporters walk it  *)
(* by those counts and ask no further question.                            *)
(***************************************************************************)
CountsHaveArrays == \A i \in 1 .. Len(records) : ~ReadsMissing(records[i])

(***************************************************************************)
(* The README: "On a complete malformed record, sdaf_decode returns an     *)
(* error while leaving earlier valid records in the document", and "Limit  *)
(* failures use SDAF_ERROR_LIMIT, separately from malformed input".  So a  *)
(* call of sdaf_decode would return whatever the record.                   *)
(***************************************************************************)
DecodeReturns == status # "died"
=============================================================================
