# TLA+ model of SDAF

SDAF is a self-describing binary log format for acquisition data with two
implementations, a C99 library and a .NET library. Both are sequential code:
what makes them hard is not threads but what happens to the *file* — power lost
in the middle of a write, a medium that cuts or alters bytes, a reader that
opens a file while a recorder rewrites it, memory that runs out between two of
the three appends a record consists of, and writers that use the API in an
order its authors did not think of. The specifications here follow records from
the write call that accepts them to the document a reader delivers, and on to the
dump the command line tool makes of it, under all of these.

Everything is translated from the source. Paths below are relative to
`src/implementations/`; `PROJECT.json` maps each definition to its lines.

## Inventory of the system

| Part | State | Operations | What is hard | What must hold |
|---|---|---|---|---|
| Stored form (`c/include/sdaf/sdaf.h`, `c/src/sdaf_writer.c`, `c/src/sdaf_reader.c`) | file header, then records: checksummed header, payload, optional CRC trailer | – | extents depend on fields that may be damaged | a record is whole or recognisably not |
| C encoder (`c/src/sdaf_writer.c`) | growing buffer and its capacity, `next_sequence` (32 bits, wraps), `record_count`, `data_record_count`, `status` | `init`, `free`, `write_schema/data/text/blob/note/index/end/private` | up to three appends per record, each may fail; the capacity doubles until it would overflow; some errors are recorded in `status`, others only returned; nothing checks the caller's order of calls | records stay where they were accepted; the buffer has room for what is in it; counters agree with the records; a torn buffer never looks healthy |
| C decoder (`c/src/sdaf_reader.c`) | input, offset, document, `status`, `error_offset` | `sdaf_decode`, `sdaf_document_free` | order of extent, envelope and checksum tests; semantic checks look back at the document; limits; missing libzstd | delivers only what was written, in order; loses only the tail of a cut; blames no intact record |
| C file I/O (`sdaf_encoder_write_file`, `sdaf_decode_file`) | the file, a measured size, a partly filled buffer | truncate–write–close; measure–read–decode | two processes on one file, short reads and writes, death of the recorder | bytes of two saves never mix; a read that began ends |
| C schema (`c/src/sdaf_schema.c`) | schema tree | parse, validate, look up, expected sizes, free | objects refer to each other by id in any order; the same rules are written down a second time in C# | a schema is valid or not whatever the order of its objects; both libraries agree on which; a valid one can be decoded |
| C codec (`c/src/sdaf_codec.c`) | – (pure) | transforms, sample decoding, sample times | modular arithmetic per lane, overflow of 64-bit products | decoding undoes encoding; times exact or refused |
| C record ownership (`free_record`, `sdaf_free_schema`, `sdaf_free_transforms`) | allocations of a partly parsed record | allocate, hand over, release | some twenty checks and allocations at which a parse function may stop, each with its own list of what to free; counts set before arrays exist | every block has one owner at every step; a kept record has the arrays its counts announce |
| .NET writer (`dotnet/Sdaf/SdafWriter.cs`) | stream, sequence, counts, schemas and last item indexes written so far | `WriteSchema/Data/Text/Blob/Index/End/...`, `Dispose` | three `Stream.Write` calls per record, an exception between them; no recorded status | refuses redefinition and item indexes that do not grow |
| .NET reader (`dotnet/Sdaf/SdafReader.cs`) | stream position, records by offset, schemas, last item indexes | lazy enumeration | one record delivered before the next is looked at; the file may still be growing | as for the C decoder, record by record |
| .NET sample codec (`dotnet/Sdaf/SampleCodec.cs`), schema model (`Schema.cs`) | – (pure) | the same transforms and the same schema rules in C# | agreement with the C code | as for the C codec and schema |
| C command line (`c/cli/main.c`, `c/cli/exports.c`) | arguments, a document, an output file | one decode, one dump to JSON, CBOR or CSV | CBOR announces counts before the items; buffered output fails only when it is flushed | a dump is well formed whatever was decoded; exit code 0 means it arrived |
| .NET command line | arguments | one decode, one dump by library serializers | formatting | – (not modelled) |
| Benchmarks, fixtures, grammar | – | – | – | test assets (not modelled) |

**Interactions.** Encoder → buffer → `sdaf_encoder_write_file` → file →
`sdaf_decode_file` → decoder → document. Within the decoder, records depend on
earlier records: a schema redefinition on the last schema of its pair, DATA,
TEXT and BLOB on the schema they name, BLOB on the last item of its stream,
INDX entries on the records they point at, END on the count of all records. The
command line calls `sdaf_decode_file`, walks the document by the counts and
pointers the decoder left in it, and releases it.

## Modules

| Module | Models | State ↔ code |
|---|---|---|
| `SdafFormat` | the stored form: cells, records, header contents, CRC, the rules both sides share (`KindOf`, `ExpectedSize`, `HoldsData`, `TimesAgree`), and what decoding the samples of a record may refuse: both libraries (`SamplesInOrder`), only C (`IndexesWrap`), only .NET (`TimesDistant`) | a *cell* is what a reader cannot use in part: file header, record header, one unit of payload, trailer |
| `SdafRules` | the rules by which the records of one file refer to each other (`Lawful`, `LawfulLog`) | of a sequence of records, not of a program; a careful application and the .NET writer are held to them, and the proofs that a reader accepts what they wrote start from them |
| `SdafEncoder` | the C encoder, one action per API call with every outcome | `data`, `capacity`, `nextSequence`, `recordCount`, `dataRecordCount`, `encoderStatus` are the fields of `sdaf_encoder`; `written` is history: the records whose call returned `SDAF_OK` |
| `SdafDecoder` | `sdaf_decode`, one record per step, and `sdaf_document_free` | `input`, `offset` the arguments and cursor of the call; `document`, `opaque`, `documentStatus`, `errorOffset` the `sdaf_document` (`opaque`: records kept without decoded payload) |
| `SdafPair` | encoder and decoder side by side; what relates them | – |
| `RecordLog` | the abstract promise: a log that only grows, readers that take its beginning | `log`, `view`; refined by `SdafPair` with `log <- written`, `view <- document` |
| `SdafTransfer` | the pair with a medium that cuts and alters | `damaged`: history, the altered positions |
| `SdafRecording` | the pair with a shared file and two processes | `file`, `saving`, `saveStatus` for `sdaf_encoder_write_file`; `reading`, `wanted`, `buffer` for `sdaf_decode_file` |
| `SdafNetWriter` | `SdafWriter.cs`, one action per call, an exception possible in each `Stream.Write` of a record, before, inside or after the bytes it takes | `stream` is what the `Stream` has taken; `sequence`, `recordCount`, `dataRecordCount`, `schemas`, `lastBlobIndexes`, `disposed` are the fields of `SdafWriter`; history: `written`, the records whose call returned, and `landed`, the records of which the `Stream` has every byte |
| `SdafNetReader` | the enumeration of `SdafReader.cs` in steps: header, payload, trailer, parse and yield | `source` is what the `Stream` can read; `yielded` stands for `_records`, `_schemas` and `_lastBlobIndexes`, `phase` and `place` for where the enumerator stands |
| `SdafNetRecording` | a .NET writer and a .NET reader of the file it is still extending | `source` grows towards `stream` as the operating system passes bytes on; `opened`: history |
| `SdafReaders` | both decoders on the same bytes of a C encoder | – |
| `SdafSampleTime` | `sample_time` and `mul_div_fraction`, one turn of the loop per step | `fraction` holds the locals of `mul_div_fraction`, `times` the results so far, `timing` where the function is |
| `SdafSampleArea` | order of fields, packing, differences in a lane, zigzag, XOR, shuffle, field checks: pure operators | – |
| `SdafCodec` | the C codec on one DATA record: encode, undo the transforms, time and decode the samples | `given` the caller's sample area, `stored` the payload, `canonical` is `decoded_payload`, `samples` is `sdaf_data_record.samples` |
| `SdafNetCodec` | `SampleCodec.cs` on the same record, where it differs | `netCanonical`, `netSamples` |
| `SdafCodecs` | one library writes the record, both read it | – |
| `SdafSchema`, `SdafNetSchema` | the rules of a schema in `sdaf_schema.c` and in `SdafReader.cs`, each in the order and the terms of its code: pure operators | – |
| `SdafSchemas` | one SCMA record before both libraries | `schema` the objects read so far, `verdict` who accepts it |
| `SdafOwnership` | the allocations of `sdaf_decode`: each parse function as the sequence of its checks, claims, hand-overs and counts, one per step | `record` what the record at hand points to and its counts, `todo` the rest of its parse function, `locals` its local pointers, `held` what is allocated |
| `SdafExports` | the three exports of `exports.c` as sequences of tokens, and what a reader expects of such a sequence | – |
| `SdafCommand` | `main` of the C tool on top of `SdafOwnership` | `stage` where `main` is, `format` and `named` its arguments, `result`, `exit`; `arrived`: whether the whole dump is in the file |
| `SdafFormatProofs` | lemmas about cells, headers and appended records that both encoders and both readers need | – |
| `SdafPairProofs`, `SdafTransferProofs`, `SdafRecordingProofs` | theorems about the C encoder, about encoder and decoder, and about the two ways the bytes get from one to the other | – |
| `SdafNetRecordingProofs` | theorems about the .NET writer, and about the pair on a growing file | – |
| `SdafCodecsProofs` | theorems about sample times and about both codecs | – |
| `SdafCommandProofs` | theorems about record ownership, the dumps and the command | – |
| `SdafSchemasProofs` | theorems about schemas before both libraries | – |
| `MCInputs`, `MC*` | arguments of the runs | – |

**Abstractions.** CRC-32C is an ideal checksum: equal exactly when the covered
bytes are. A payload value, a layout (what a schema describes) and a transform
list are model values or members of small sets. Transforms are lossless, and
opaque to a build without libzstd. Offsets and sizes are counted in cells. Field
checks *inside* one header (reserved bytes, enum ranges, UTF-8) are left out: a
header with an intact checksum was produced by the encoder, which does not write
such values. `header_size` is right, or too large by an `excess` of cells.

What the *samples* of a record come to is data that readers do judge, and writers do
not: both encoders take times, first indexes and spare bits as the caller gives
them. So a sample cell is in `Clean` or not (are the bits above the logical ones, and
the padding of a dense area, what both readers ask for?), the field `times` says
whether start, period and deltas come to times that fit 64 signed bits (`"fit"`), that
do although the ticks alone leave a `long` (`"distant"`), or that do not
(`"overflow"`), and sample indexes end at `IndexMax`. `FixedBytes` names the streams
with a channel of fixed bytes, whose values each need a block when they are decoded.

Bytes of a torn record that a reader takes for a header or a payload
(because the next record was written behind it) are arbitrary cells: what they
say is a nondeterministic choice that no checksum fits.

The buffer's capacity is counted in cells too, and `size_t` has `SizeBits` bits;
a realloc may fail at any append. `SdafOwnership` knows of a check only that it
may fail, and with which status: which bytes make it fail is the business of the
other modules. An array there is a block that elements hang on, and a count says
how far `free_record` and the exporters walk it. In `SdafSchema` a TLV is sound
or not; names, semantics and rationals are numbers. In `SdafExports` a name, a
number or a string is one token: what remains is the structure, which is what the
exporters compute from counts.

**Abstractions of the codec.** An area is the set of its bits that are one. Bytes
have `ByteBits` bits, words `2 * HalfWord` values, shuffled blocks
`ShuffleBlock` values, so that all areas of a record can be enumerated; nothing
in the code depends on 8, 64 or 256 being what they are. Zstandard is the last
stage of every profile but `none` and lossless: it is left out of both
directions. Physical values (scale, offset, NaN) are a function of the number
delivered and left out. `size_t` overflow of counts is out of reach of a record
that fits a file.

**The application.** With `Careful` the caller keeps the rules the format gives
to writers and the C encoder does not enforce (schema first and never
redefined, item indexes growing, streams of the right kind, true index entries, samples
that can be decoded);
without it any call with any of the given arguments may come at any time.
`StopsOnError` says whether it heeds `encoder->status`; a caller that does not
may go on after running out of memory inside a record.

## Runs

| Run | Question | Bounds |
|---|---|---|
| `encoder` | Do accepted records stay whole and apart (`RecordsInPlace`), does the buffer hold them (`CapacityHolds`), are counters true (`CountsAreTrue`) and torn buffers recognisable (`TornIsRecorded`), whatever is called and wherever an append fails? | calls until 5 cells; sequence field of 2 values, so it wraps twice; `size_t` of 3 bits and a first capacity of 2, so that the doubling is cut short and the limit is met |
| `damage` | Does a document of cut and altered bytes hold only what was written (`DeliveredIsPrefix`), lose only the tail of a cut (`CutLosesOnlyTail`) and blame only damage, or a record whose fixed bytes found no memory (`BlameIsJust`)? | calls until 6 cells, every cut, every alteration of one cell: type markers, payload, sizes up and down, trailer flag, sequence, checksum; `max_records` 3 so that the limit is reached, reader without libzstd |
| `readers` | Does a document contradict itself when the writer keeps no rule (`SchemasAgree`, `ItemsIncrease`, `EntriesPointBack`, `DecodedByEarlierSchema`), does the pair implement the record log (`ImplementsLog`), and do the two libraries, with the same limits, deliver the same records from the same bytes but for two named kinds of samples (`SameRecords`) and judge them alike (`SameVerdict`)? | calls until 5 cells of a careless writer, samples with stray spare bits, indexes that wrap, distant and overflowing times among them; every cut, every alteration of one cell, `header_size` included |
| `recording` | What does a reader racing the saves see (`BytesAreBeginnings`, `MeasuredIsDelivered`, `RaceIsNotDamage`, `DeliveredIsPrefix`), and does each read end (`ReadEnds`)? | calls until 4 cells, any number of saves, reads and documents; every interleaving |
| `net_recording` | Do streamed records stay in place (`StreamedInPlace`), counts true (`StreamedCounts`), and does every record suit the records before it (`StreamedIsLawful`: schemas, samples, item indexes, entries, totals), through calls that throw? What does a reader of the growing file see (`YieldedIsPrefix`, `EndMissesNothing`, `OwnOutputAccepted`), does the pair implement the record log (`NetImplementsLog`), and does each enumeration end (`EnumerationEnds`)? | calls until 5 cells, every outcome of every `Write`, samples that the writer takes and the reader does not, bytes passed on in any portions, any number of enumerations; a note longer than this reader takes; no index without entries (`EmptyIndexes`) |
| `codec` | Are transforms undone (`TransformsAreUndone`), are times exact or justly refused (`TimesAreExact`, `FractionIsKept`), do both libraries deliver the same samples (`ReadersAgree`), however they were stored (`StorageIsInvisible`)? | bytes of 2 bits, words of 16 values, blocks of 2; every sample area of 15 records of up to 3 samples; every period with 6 starts and 4 samples |
| `schema` | Is a schema valid whatever the order of its objects (`OrderIsIrrelevant`), do the libraries accept the same schemas but for five named flaws (`SameSchemas`), and can the channels of an accepted one be decoded, to the same effect in both (`ChannelsAreDecodable`)? | sequences of up to 4 objects out of families that vary one group of rules each: every tag with every wire type, repeated tags, kinds and counts, widths at their limits, references that resolve or not, timebases, correlations, value maps, bitfields |
| `command` | Does every block have one owner at every step (`EveryBlockOwned`), do kept records have their arrays (`CountsHaveArrays`), is every dump well formed (`DumpIsWellFormed`), and does the exit code tell the truth (`ExitTellsTruth`)? | up to 2 records of any type; up to 2 transforms, objects, samples and lanes, and a TLV; every check and every allocation may fail |
| `dropped` | finding 1, see below | as `damage` |
| `quiet_end` | finding 2, see below | as `readers` |
| `stray_bits` | finding 3, see below | as `codec` |
| `missing_array` | finding 4, see below | as `command` |

`MaxCells` bounds the calls, not the buffer: the call that crosses it completes.
Five or six cells hold a schema, a record that refers to it and an END or an
index with an entry, or three small records: each rule that relates two or three
records is exercised, and a defect that needs a fourth would have to count
records, which `CountsAreTrue` is proved for. One altered cell suffices to
reach every branch of `Verdict`; two would only make the first one's verdict
again, since the scan stops at the first error.

Three samples in blocks of two values give a full and a partial shuffled block,
first and later values of a lane, and every carry between them; widths of one to
three bits with bytes of two give fields below, at and across a byte. With words
of 16 values all 16 · 15 periods are tried, and starts at both ends of the range
and at either side of zero make every refusal of `sample_time` happen. For words
of 64 bits the times are proved exact (below).

Two of each nested thing are enough for ownership and dumps: an error path may
stop at the first, between both or after both, and separators, declared counts
and walks treat a third like the second. Two records let a kept record precede
the one that fails. Rules of a schema relate an object to itself, to one that it
names, or to its stream and a second channel; four objects hold a clock, a stream
and two channels, the largest such group.

**Fairness.** `SdafRecording` assumes weak fairness of the copying
loop and of the decoding loop of `sdaf_decode_file`, which are sequential code
that blocks on nothing but `fread`. `SdafNetRecording` assumes it of `Enumerate`:
an application that has begun an enumeration asks for the next record or disposes
of the reader; reading itself never waits, since a `Stream` at its end returns 0.
That an enumeration ends also needs the file to stop growing at some time, which
the bound on calls provides: a writer that for ever wrote faster than the reader
reads would keep it busy, and rightly so. Nothing is asked of the recorder: it may
stop, die or save forever, and `ReadEnds` holds all the same because the read
is bounded by the size measured when it began.

**Deadlock.** Only the `encoder` run checks deadlock. In the others an
application may stop at any point, a writer may have died or been disposed of, and
a decoded record, a judged schema and an exited tool have nothing left to do.

## Findings

1. `sdaf_decode` judges the extent of a record by its `payload_size`
   (`sdaf_reader.c:786`) before it checks the header checksum
   (`sdaf_reader.c:792`). A size damaged upwards in the middle of a file makes
   the scan end with `SDAF_OK`; that record and every complete one behind it are
   dropped. `src/README.md:72` promises an error for "a complete malformed
   record". Run `dropped`.
2. The .NET reader reads `header_size` bytes and ends the enumeration when they
   are not there (`SdafReader.cs:84`) before it compares the header checksum. A
   damaged `header_size` thus ends it quietly in front of complete records, where
   `src/README.md:170` promises an exception. Run `quiet_end`.
3. The C reader takes the bits above `storage_bits` of a byte-aligned field into
   the value when `storage_bits` equals `logical_bits` and is no multiple of 8
   (`sdaf_codec.c:257`): a boolean can read 2, a signed 12-bit field of `0xFFFF`
   reads 61439. The format subjects these bits to rule 6
   (`src/spec/SDAF-Format-v1-draft.md:393`); the .NET reader masks them, and the C
   library itself does when the same samples are stored with the integer profile.
   Run `stray_bits`.
4. `object_count` of a schema (`sdaf_reader.c:182`) and `transform_count` of DATA
   and BLOB records (`sdaf_reader.c:355`, `509`) are set before their arrays
   exist. When a check in between fails, or the allocation itself, `free_record`
   (`sdaf_reader.c:820`) walks a missing array up to its count
   (`sdaf_schema.c:82`, `95`), and `sdaf_decode` does not return the error that
   `src/README.md:72` and `:74` promise. Samples are asked for
   (`sdaf_reader.c:28`), the other arrays are not. Run `missing_array`.

Not findings, but worth knowing. The C encoder keeps no record of the schemas it
wrote and accepts a second, different one for a pair of id and revision; its own
decoder refuses the file (`sdaf_reader.c:219`), as the format calls the pair
immutable (`src/spec/SDAF-Format-v1-draft.md:331`). The .NET writer refuses the
second schema.

The .NET reader accepts five kinds of schema that the C library refuses, `Unseen` in
`SdafSchemas`: a text or binary-item stream that has channels but no
`channel_count`; a `time_domain` above 4; `time_domain` or `time_unit` that differ
from those of the stream's clock (the format: "If duplicated, they MUST agree",
`src/spec/SDAF-Format-v1-draft.md:246`); a tag 110 or 111 with map id 0; a
bitfield of 0 bits without members. `SameSchemas` shows that there are no others
in its bounds, and none the other way.

A failed allocation for a value of fixed bytes is reported as
`SDAF_ERROR_FORMAT` (`sdaf_codec.c:361`). `FixedBytesOutOfMemory` does so, and
`BlameIsJust` and `RaceIsNotDamage` name it (`FixedBytesWanted`): the only way in which an
intact record of a careful application is called malformed. The C tool leaves the
flush of standard output to the exit itself, so a dump that is lost there is not
reported; `ExitTellsTruth` speaks of named files.

Neither writer looks at what its samples come to. The .NET writer takes spare bits that
are set and times that no `long` holds (`SdafWriter.cs:59-164`), and its own reader refuses
the record (`SampleCodec.cs:142`, `394`, `438`); `OwnOutputAccepted` names these among the
records a reader does not take (`RefusedByReader`).

A `Stream.Write` that takes its bytes and then throws leaves a whole record in the
stream that the writer does not know of (`SdafWriter.cs:362-373`; the payload's `Write`
has nothing to take when it is empty). A reader yields it. If the application repeats the
call the record is there twice, with one sequence number; a schema is then merely read
twice, but an item is refused for its index, and every END behind either for its total. The promises about the
.NET pair are therefore made of `landed`, the records that are whole in the stream, and
`OwnOutputAccepted` excuses a reader behind a record that is *stranded*: landed, but not
written. In between the two histories agree (`HistoriesAgree`).

`sdaf_encoder_write_file` truncates before it
writes, so a crash during a later save can leave less in the file than an
earlier successful save had stored. The two codecs differ in two corners that
`ReadersAgree` names and excludes: the .NET reader refuses a periodic time whose
ticks exceed `INT64_MAX` although a negative start brings the sum back into range
(`SampleCodec.cs:394`; the C library computes it, and `TimesAreExact` shows the
C result right), and it adds sample indexes without a check, so that they wrap
where the C reader refuses the record (`sdaf_codec.c:306`). Of whole files this makes the
only two ways in which the readers deliver different records: `SameRecords` names them
(`NetShort`, `NetBeyond`), and the only two exceptions of `SameVerdict`; the library with
fewer records always reports an error.

## Proofs

What the modules assume of their constants is types and bounds: sets of layouts
and arguments are what their names say, the sequence field has at least one
value, a word at least two. The theorems hold for every such value: any layouts,
arguments and limits, with and without libzstd, buffers, files and documents of
any length, any width of the sequence field, of `size_t` and of a word. Each
inductive invariant was checked by TLC on the instance of its component's run
before it was proved.

### The C encoder (`SdafPairProofs`)

`EncoderTypeCorrect`, `RecordsStayInPlace`, `CapacityAlwaysHolds`,
`TornStaysRecorded`, `CountsStayTrue` are the five invariants of the `encoder`
run. They follow from `EncoderInvariant`, `EncoderSpec => []EncoderInv`.

`EncoderInv` adds to the five what makes them inductive: `CountersAgree` (the
counters are functions of `written`; without it an END record's totals say
nothing) and `FieldsFit` (a record has the fields and the payload its type
needs, so that an index entry made from it is well typed). Every write call is a
conjunction of guards with one of three outcomes: its record is stored whole,
or a beginning of it is left behind and the status says so, or the buffer stays
as it was. The proof has one lemma per outcome (the first is the hard one:
earlier records are undisturbed because an append changes no earlier position,
`SdafFormatProofs`) and one step per call that shows which outcomes it has and that
its record is well formed. `TornIsRecorded` holds because the only action that
leaves `Contiguous` sets the status, and no action sets it back without emptying
the buffer.

`BufferInvariant`, `EncoderSpec => []BufferInv`, is what a reader builds on.
`RecordsInPlace` says that records are where they should be; it does not say
that there is nothing else a reader could take for a record. `HeadsAccounted`
does: every header cell, wherever it stands, has a right checksum and belongs to
a written record or to a torn one, and the extent that a torn one claims runs
into a later header or past the end. With `RecordsFollow` (written records do not
overlap) a scan cannot find anything but what was written.

Two more facts, kept by every call (`CallKeepsCare`), are what a reader's verdict
rests on. `CarefulLog`: the records of a careful application are lawful in the sense
of `SdafRules`; each call of it is shown to add a record that is lawful behind the
others, and one that fails adds none. `CarefulSamples` says the same of what their samples
come to (`SoundLog`: clean spare bits, times and indexes that fit). `StoppedAtTear`: an application that stops at an
error leaves its records without a gap and at most a beginning of one more behind
the last.

### Encoder, medium and decoder (`SdafPairProofs`, `SdafTransferProofs`)

`NoFalseDelivery` is the theorem of the project: whatever the application called
and wherever its appends failed, however its bytes were cut and altered, the
document is a beginning of what was written. Its inductive invariant, `PairInv`, says
that the input *comes from* the buffer (`Carried`: each cell is the original, or
junk, or a header whose checksum does not fit, or a trailer that says another
sequence number) and that the decoder's cursor stands right behind the records
it has delivered (`Chained`). The argument: a header the decoder accepts has a
fitting checksum, so it is the encoder's (`AcceptedHeadIsOriginal`); its payload
matches the checksum or the trailer, so it is the encoder's as well, and no header
lies within (`AcceptedRecord`); hence it is not a torn one, but a written record
(`AcceptedIsWritten`); and because the cursor stands behind the last delivered
record and records follow each other, it is the next one (`CursorIsAtNext`,
`DeliversNext`). `AlteredHeadFails` is where the medium is shown to be one that
forges no checksum.

* `NoSilentLoss` (`CutLosesOnlyTail`): without damage, a scan that ends with
  `SDAF_OK` has nothing whole left before it (`EndHoldsAll`). `TransferInv`
  carries this as an equality of sets of indexes; its cardinality is the property.
* `BlameStaysJust` (`BlameIsJust`): what a careful application wrote is refused only
  for damage, or where `FixedBytesOutOfMemory` strikes. Prefix delivery says what the decoder may accept; this says what it may not
  refuse, and needs the encoder's side (`CarefulLog`, `StoppedAtTear`) next to the
  decoder's. Where nothing up to the end of the next record is damaged, the decoder
  stands at the header that the encoder wrote (`CursorMeetsNext`); the document
  holds the records before it, and the rules look at those only (`OnlyBeforeMatters`),
  so that each test of `parse_*` succeeds, those of the samples included (`LawfulParses`) and the record is delivered or
  ends the scan with another status than `SDAF_ERROR_FORMAT` (`IntactIsAccepted`). At a
  torn record the scan ends as at the end of the file (`TornIsPassedOver`), and a file
  header is refused only if it is damaged or missing (`HandOverBlamesDamage`).
* `TransferImplementsLog`: each step of `TransferSpec` is a step of `RecordLog` or a
  stutter: a write extends the log or leaves it, a delivery extends the view by the
  next record of the log, a fresh start empties it.
* `OneContentPerSchema`, `ItemIndexesIncrease`, `IndexesCanBeTrusted`,
  `DecodingStandsOnSchema`: what a document says of itself, for careless writers too.
  The code compares a schema with the last one of its pair and an item with the
  last one of its stream; that this suffices for the whole file is the content of
  the inductions (`FoundSchema`, `FoundItem`: the last one exists and was itself
  compared).
* `ReadersTransfer`: `ReadersSpec => TransferSpec`. The run that checks these
  properties is of the two readers side by side; the theorems are stated of the
  transfer inside it.

`ReadersAgreeOnRecords` (`SameRecords`) and `ReadersAgreeOnVerdict` (`SameVerdict`):
two libraries that share no code have one opinion of any bytes made of a C encoder's,
torn, cut and altered, but for the two kinds of samples named above, provided both have the same limits and libzstd (and the C
decoder neither ran out of memory, fixed bytes included (`Starved`), nor into `max_records`, which the .NET library does not
have). They follow from `ReadersInvariant`. The two look back in different ways: the decoder searches
its list for the last schema of a pair and the last item of a stream, the reader keeps
one entry of each in a dictionary. `Takes` states once what both ask of a record behind
the ones before it, in terms of those records. For the decoder it is `ParseRecord`
(`DecoderTakes`, with `TakesInC` for what only this library asks of samples, which needs `SchemasAgree` and `ItemsIncrease`: the last schema speaks
for all, the last item has the largest index); for the reader it is `Accepts`
(`ReaderTakes`, with `TakesInNet`, which needs `DictionariesAgree`: each schema yielded is in the
dictionary with its layout, and no item yielded exceeds the entry of its stream).
`ReadersInv` says that the document consists of records that lie in the input and are
taken (`DocumentTaken`), that a decoder that has stopped stands behind them, with the
reason its status gives (`StandsBehind`), and that the reader has yielded a beginning of
the document and stands behind it (`NetFollows`), or that one of the two has gone on
behind a record at which the other stopped (`NetShort`, `NetBeyond`; the first difference is
also the last word on the slower one, which has ended). While a record of the document is left,
its cells are there and nothing on the way to it ends or throws (`RecordIsRead`,
`YieldFollows`). Behind the last one both look at the same cells (`SameExtent`): where the
reader runs out of bytes the decoder's input is exhausted (`ShortIsExhausted`), in
unaltered bytes the converse holds (`ExhaustedIsShort`), and a record that the reader
would accept there the decoder would have taken (`NothingMoreAccepted`). The last step
is also about the headers of torn records, which belong to no record written; that
these too have the fields of their type is `CellsFit`, one more fact
about the encoder's buffer (`CallKeepsCells`).

### One file, two processes (`SdafRecordingProofs`)

`NeverMixed`: file, copy and input are beginnings of the encoder's buffer at every
moment, under every interleaving of partial writes, partial reads, deaths and
retries. It is inductive almost by itself, because a save never writes anything but
the growing buffer from its start; it makes the shared file a medium that cuts and
never alters, so that `PairInv` holds (`BeginningCarries`) and with it
`RacingReaderDeliversPrefix`, `MeasuredRecordsArrive` and
`RecordingImplementsLog`. `RecordingInv` has in addition that a reader decodes as
many bytes as it measured: without the comparison after `fread` the second would
fail.

`RaceStaysHarmless` (`RaceIsNotDamage`) rests on the same lemmas as `BlameStaysJust`,
the same exception included, with one case more: the recorder may go on after a call that tore a record, while a
reader is in the middle of the older bytes. The property then excuses the reader only
if a gap is in the buffer now. A gap is never closed (`GapStays`), and a buffer without
one continues every record the reader has seen (`ContiguousEnds`), so a decoder that
stands where no header is stands before a gap that is still there (`DecodeMeetsGap`).

### The .NET pair (`SdafNetRecordingProofs`)

`StreamedStaysInPlace`, `StreamedCountsStayTrue` and `WriterKeepsRules` follow from
`NetWriterInvariant`. What a call that throws leaves behind is a part of a record
and no counter or dictionary changed; `WriterRemembers` says that the
dictionaries still describe all that was written: each written schema is in
`schemas`, which has one content per pair, and no written item has a larger index
than the remembered one of its stream. `StreamInvariant` accounts for the headers
in the stream as `BufferInv` does, but for every record that *landed*, whether or not
its call returned (`LandedInPlace`, `RecordsFollow`, `HeadsAccounted`): a call that threw has
left a part of its record, or all of it, and only a part is torn. A torn record may
here end in a fragment of a cell, and the extent its header claims then contains it.
`HistoriesAgree` ties the two histories: every written record has landed, and up to the
first stranded one the records that landed are those written.

`NetNoFalseDelivery` and `NetNoSilentLoss` follow from `NetRecordingInvariant`,
the argument above for an enumeration that makes one record in up to four steps
while the file grows; what it yields are the records that landed. `HeaderIsIntact` carries over what the reader found in an
earlier step (bytes once passed on do not change). A reader that meets the end
inside a record ends; that it missed nothing is shown of the file as it was when it
was opened (`EndMeansNothingLeft`), which is all that can be promised.
`NetRecordingImplementsLog` is the refinement of `RecordLog`, and
`NetRecordingWrites` (`NetRecordingSpec => NetWriterSpec`) gives the theorems about
the writer to the pair.

`OwnOutputIsAccepted` says that the library accepts its own output: a reader throws
only where it finds bytes of no record (a call has thrown there), or at a record
beyond its own limits, one it lacks libzstd for, a schema that is not valid or
has no number, or samples with stray spare bits or times that do not fit, which the writer
does not look at (`RefusedByReader`), or behind a stranded record, which the writer does not
know of. The argument has three parts.
`StreamedStaysLawful`: every written record suits the records before it as
`SdafRules` requires. That needs `RulesInv`, in which every schema the writer
remembers has been written; the largest item index and the counts are in
`NetWriterInv`. `AcceptanceInv`: what the reader has in its dictionaries is what it
has yielded, and that is, as long as nothing is stranded before it, a beginning of what was
written, so a record has the same records before it on both sides (`OnlyBeforeMatters`) and the reader accepts it
(`LawfulIsAccepted`). And where a record was written the reader finds its
cells, however little of them (`CellsAreHere`), so that no header, payload or
trailer looks wrong before it is complete (`ThrowIsJust`). Assumed is in addition that the
application makes up no index entries (`StrayEntries = {}`, a hypothesis of both
properties).

### Sample times and codecs (`SdafCodecsProofs`)

For words of any width, and any period, start and count:

* `FractionStaysKept`: the four numbers of `mul_div_fraction` hold sample number
  times remainder throughout, each within a word;
* `TimesStayExact`: sample times are exact, and a record is refused only for a
  time that no `int64_t` can hold.

Both follow from `TimeInvariant`. What makes it inductive is `FractionIsKept`
itself: with `result` and `part` below the denominator in their remainders,
`result + multiplier * part = n * remainder`, so every quotient that the loop
could form is at most `n`, which is a word (`SumFits`); none of the overflow tests in the loop
can therefore succeed (`AddKeeps`, `DoubleKeeps`, `TurnKeeps`). At its end
`PeriodExact` (quotient and remainder multiplied apart lose nothing, from the
uniqueness of division with remainder) turns the two parts into the exact
quotient. The refusals are just because the ticks alone already exceed what even
the smallest start could bring back. Decoding a record, whichever library wrote
it, is such a computation of times (`CodecTimesSamples`), and its times are
therefore exact (`RecordTimesExact`).

For any channels, widths, layout, packing, profile, number of samples and contents of
the sample area, for bytes of any width and shuffle blocks of any size, and whichever
library wrote the record:

* `TransformsStayUndone`: what either reader gets back has the logical bits the writer
  was given, in canonical form;
* `ReadersAlwaysAgree`: both readers refuse the record, or both deliver the same samples,
  but for the two corners named above and bits above the storage bits;
* `StorageStaysInvisible`: the .NET reader delivers the same samples with and without
  transforms.

None of the three is inductive alone: a reader's samples say nothing of the payload
they came from. `RecordInv` (theorem `RecordInvariant`) keeps the whole way: the payload is what
one of the libraries made of `given` (`StoredRight`), the profile fits the channels,
and each reader has got as far, or failed for the reason, that its code gives (`ReadingRight`,
`NetReadingRight`). From it the three follow by what the operators compute:

* the order of fields by division (C: lane, sample and element from a position) and by
  nested loops (.NET) is one order (`OneOrder`);
* `Unshuffle(Shuffle(words))` is `words` for any number and width of words
  (`ShuffleUndone`: every position lies in one block of one lane, and a number is the sum of its
  bytes, `BytesAddUp`);
* a zigzag difference and an XOR are undone (`ZigzagUndone`, `XorUndone`), and with
  them the chain of values of a lane: only one function starts at 0 and adds these
  differences (`ChainUnique`), and the logical parts of the original values are such a function
  (`LowPartsChain`), whether the writer took whole fields or logical bits;
* fields do not overlap, so what is written into one is read from it (`FieldsApart`,
  `WrittenIsRead`); the sign is copied into exactly the bits between logical and storage width
  (`StoredFormIs`), which is what both readers ask for (`CanonicalIsValid`);
* the values made of a field without stray bits are the same (`SameValue`), and a time
  that one library refuses the other refuses too (`RefusedByBoth`, `TimesForBoth`).

Numbers and sums (`Number`, `Total`) are sums over a range of positions; that they are
defined, unique and grow is proved by the induction over a set described below
(`SetInduction`). Assumed throughout this module are `WordAssumption`,
`HeaderAssumption` (what `validate_timestamp_header` accepts), `AreaAssumption` (a
byte and a shuffle block are not empty, floats fill whole bytes) and `BlockAssumption`
(what `parse_data` accepts).

### Ownership, dumps and the command (`SdafCommandProofs`)

For any counts a file may declare, any number of records and any check or
allocation that fails:

* `EveryBlockIsOwned` and `CountsAlwaysHaveArrays` (from `OwnershipIsKept`): nothing
  leaks, nothing is released twice, and what `free_record` or an exporter walks
  is there;
* `ExitIsTrue` (from `CommandAccounts`): exit code 0 means that the named file has
  the whole dump, and nothing is held when the tool ends;
* `EveryDumpIsWellFormed`: CBOR heads announce what follows, JSON brackets and
  commas match, every CSV line has its columns.

A parse function is a sequence of operations put together from parts and loops
whose length is read from the file, so the invariant `Owned` has to speak of what is
still to come: the rest of the function *leads* from the present state of the
record and the local pointers to a state that may be kept, and each operation on the
way finds what it relies on (`Meets`: what it claims is free, what it drops is held,
what it leaves on failure is all that the record does not reach). `Leads` has one rule for
concatenation and one for loops; the second needs induction over the number of turns.
The library's induction theorem takes an operator, but its theorem about least
elements of a well-founded order takes a set, and from it `SetInduction` follows:
that is how statements about sequences of any length are proved here. Each piece of a parse function is
then a lemma (`EndsDecompress`, `SchemaReached`, ...) that follows the code.

A dump is treated in the same way as a sequence of tokens. A reader of CBOR is a
stack of the numbers of items it still expects; that the tokens of a value *settle*
it (one item less expected, none of the items around it touched) is proved from the
inside out, up to the array of records. A reader of JSON is a stack of
brackets with what may come next, and a reader of CSV a count of columns. The
counts that the exporters write first and the loops behind them come from one
record, and `Owned` says that its arrays have these lengths.

### Schemas (`SdafSchemasProofs`)

For schemas of any length, whose objects hold any TLVs (`SchemasAssumption` says what the
bytes of an object can be read as: numbers, and in a map and in a bitfield also entries and
members):

* `SchemasHaveOneMeaning`: the .NET reader accepts exactly what the C library accepts, and
  beyond that only schemas with one of the five flaws of `Unseen`;
* `OrderNeverMatters`: neither verdict depends on the order of the objects;
* `ChannelsStayDecodable`: the codecs' fields of an accepted schema are the same in both
  libraries, in the order of distinct ids, with widths and element counts that can be decoded.

The state is simple (`SchemaInv`: the verdict is that of the two validators); the work
is in the operators, which say the same in different terms. C looks at every
earlier object, entry or member, .NET counts members of hash sets: as many values
as positions means that no two are the same (`AllDiffer`, from the library's
theorem on surjections). C takes a missing tag as 0 and compares, .NET asks whether it
is there: where no id is 0 this is the same (`ChannelsAgree`), and that no id is 0 is
itself one of the rules (`Plain`). A channel is looked at by C once, by .NET
once for each channel of its stream; one channel may thus be judged differently, but not all channels of a
schema (`ChannelsOfSchemaAgree`). For the order of objects, two schemas that are
each other's `Mirror` resolve the same references, to the same objects because ids are unique
(`MirrorReferred`), and count the same channels (`MirrorChannels`, by a
bijection). That a set of positions can be put in the order of its ids at all
(`SortedExists`) is an induction over its cardinality by a least counterexample.

### Model-checked only

Every safety property that a passing run checks is also a theorem. With TLC alone stay
`ReadEnds` and `EnumerationEnds`, because liveness under fairness is beyond the prover, and the
four disagreements, which are counterexamples.

## Plan

Order of the work, most important behaviour first:

1. *Done:* stored form, C encoder, C decoder, medium, shared file, record log;
   the runs and the theorems of the encoder.
2. *Done:* the .NET pair on a growing file, and the two decoders on the same
   bytes.
3. *Done:* the arithmetic of both codecs: transforms, packing, order, sample
   times; the theorems about times; growth of the encoder's buffer up to
   `SIZE_MAX`, with its theorem.
4. *Done:* schema validation in both libraries, and where they differ.
5. *Done:* record ownership of partly parsed records, the exports and the command
   line on top of it.
6. *Done:* theorems about the C encoder, the C pair over a medium and over a shared
   file, both refinements of the record log, the .NET writer and its pair, the
   two readers of the same bytes, both codecs, schemas, record ownership, the dumps and
   the command. Every safety property of the passing runs is now a theorem; what is left
   to TLC is listed under *Model-checked only*.

## Not modelled

The .NET command line (formatting by libraries), benchmarks, fixtures and the
Kaitai grammar (not the program), libzstd (third party; external, lossless).
UTF-8 validation, escapes of strings, number formats and field ranges inside
headers are data. Physical values (scale, offset, NaN) are left out.
