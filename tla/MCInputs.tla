------------------------------ MODULE MCInputs ------------------------------
(* Arguments for the model checking runs: two layouts a schema can have    *)
(* and one it must not, and builders for the calls made with them.         *)
EXTENDS Naturals, Sequences

CONSTANTS
  narrow, wide,  \* valid layouts that differ in the width of stream 1
  bad,           \* a layout sdaf_validate_schema refuses
  x,             \* a payload cell
  spoilt         \* a payload cell in whose spare bits something is left

MCStreamIds == {1, 2, 3, 4}
MCLayouts == {narrow, wide, bad}
MCValidLayouts == {narrow, wide}
MCStreamKind ==
  [p \in MCLayouts \X MCStreamIds |-> <<"table", "text", "blob", "clock">>[p[2]]]
MCRowCells ==
  [p \in MCLayouts \X MCStreamIds |->
     CASE p[2] \in {2, 3} -> 0
       [] p[2] = 1 /\ p[1] = wide -> 2
       [] OTHER -> 1]
MCValues == {x, spoilt}
MCClean == [p \in MCLayouts \X MCStreamIds |-> {x}]

\* Stream 1 of the narrow layout has a fixed-bytes channel.
MCFixedBytes == {<<narrow, 1>>}

Schema(rev, l) == [id |-> 1, rev |-> rev, layout |-> l]

SchemaCall(rev, l, trailer) ==
  [schema |-> Schema(rev, l), trailer |-> trailer]

\* One sample for a stream of schema 1.
DataCall(rev, l, stream, mode, profile, trailer) ==
  LET stamps == IF mode = "stamped" THEN 1 ELSE 0
      size == MCRowCells[l, stream] + stamps
  IN  [schema |-> Schema(rev, l), id |-> 1, rev |-> rev, stream |-> stream,
       first |-> 0, count |-> 1, mode |-> mode, times |-> "fit",
       stamps |-> stamps, profile |-> profile, values |-> [i \in 1 .. size |-> x],
       trailer |-> trailer]

\* The same samples with something wrong in them, or odd.
Wrapping(c) == [c EXCEPT !.first = 6, !.count = 2, !.values = @ \o @]
Lasting(c, times) == [c EXCEPT !.times = times]
Spoiling(c) ==
  [c EXCEPT !.values = [i \in DOMAIN @ |-> IF i > c.stamps THEN spoilt ELSE @[i]]]

TextCall(id, rev, stream, trailer) ==
  [id |-> id, rev |-> rev, stream |-> stream, values |-> <<x>>,
   trailer |-> trailer]

BlobCall(stream, first, profile, trailer) ==
  [id |-> 1, rev |-> 1, stream |-> stream, first |-> first,
   profile |-> profile, values |-> <<x>>, trailer |-> trailer]

Plain(values, trailer) == [values |-> values, trailer |-> trailer]

Entry(offset, seq, stream, first) ==
  [cell |-> "entry", offset |-> offset, seq |-> seq, stream |-> stream,
   first |-> first, count |-> 1]
=============================================================================
