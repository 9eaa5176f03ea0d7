----------------------------- MODULE SdafCommand -----------------------------
(***************************************************************************)
(* One run of the command line tool of the C library (cli/main.c): decode  *)
(* a file, export the document to standard output or to a named file,      *)
(* release everything, and tell by the exit code how it went.              *)
(*                                                                         *)
(* Both destinations are buffered streams.  A write that is accepted may   *)
(* still be lost later: fclose reports that for a named file, nothing does *)
(* for standard output, which is flushed when the process exits.           *)
(***************************************************************************)
EXTENDS SdafExports

VARIABLES
  format,   \* the export asked for; "none" before the arguments are parsed
  named,    \* whether --output names a file
  stage,    \* what main does next
  dump,     \* the tokens of an export that has just been written whole
  result,   \* main's result: 0 or -1
  arrived,  \* whether the whole dump is at its destination
  exit      \* the exit code, once stage is "exited"

commandVars == <<format, named, stage, dump, result, arrived, exit>>

CommandInit ==
  /\ OwnershipInit
  /\ format = "none"
  /\ named = FALSE
  /\ stage = "arguments"
  /\ dump = <<>>
  /\ result = 0
  /\ arrived = FALSE
  /\ exit = 0

Export ==
  CASE format = "json" -> WriteJson(records)
    [] format = "cbor" -> WriteCbor(records)
    [] format = "csv" -> WriteCsv(records)

Exits(code) == stage' = "exited" /\ exit' = code

\* --help, or arguments that make no sense.
RefuseArguments ==
  /\ stage = "arguments"
  /\ \E code \in {0, 2} : Exits(code)
  /\ UNCHANGED <<ownershipVars, format, named, dump, result, arrived>>

ParseArguments ==
  /\ stage = "arguments"
  /\ format' \in {"json", "cbor", "csv"}
  /\ named' \in BOOLEAN
  /\ stage' = "decoding"
  /\ UNCHANGED <<ownershipVars, dump, result, arrived, exit>>

\* sdaf_decode_file cannot open or read the input; the document is empty.
CannotRead ==
  /\ stage = "decoding"
  /\ status = "idle"
  /\ Exits(1)
  /\ UNCHANGED <<ownershipVars, format, named, dump, result, arrived>>

Decoding == stage = "decoding" /\ DecodeStep /\ UNCHANGED commandVars

\* The first error of the document is printed and the document released.
DecodeFailed ==
  /\ stage = "decoding"
  /\ Returned /\ status # "OK"
  /\ FreeDocument
  /\ Exits(1)
  /\ UNCHANGED <<format, named, dump, result, arrived>>

OpenOutput ==
  /\ stage = "decoding"
  /\ status = "OK"
  /\ stage' = "writing"
  /\ UNCHANGED <<ownershipVars, format, named, dump, result, arrived, exit>>

CannotOpenOutput ==
  /\ stage = "decoding"
  /\ status = "OK"
  /\ named
  /\ FreeDocument
  /\ Exits(1)
  /\ UNCHANGED <<format, named, dump, result, arrived>>

\* Every write is checked; the first that fails ends the export.
WriteOutput ==
  /\ stage = "writing"
  /\ \/ dump' = Export /\ result' = 0
     \/ dump' = <<>> /\ result' = -1
  /\ stage' = IF named THEN "closing" ELSE "freeing"
  /\ UNCHANGED <<ownershipVars, format, named, arrived, exit>>

\* (a defective variant, for the mutation runs)
CloseOutputUnchecked ==   \* the result of fclose is ignored
  /\ stage = "closing"
  /\ \E closed \in BOOLEAN :
       arrived' = (closed /\ result = 0)
  /\ stage' = "freeing"
  /\ dump' = <<>>
  /\ UNCHANGED <<ownershipVars, format, named, result, exit>>

\* fclose flushes what is buffered.
CloseOutput ==
  /\ stage = "closing"
  /\ \E closed \in BOOLEAN :
       /\ arrived' = (closed /\ result = 0)
       /\ result' = IF closed THEN result ELSE -1
  /\ stage' = "freeing"
  /\ dump' = <<>>
  /\ UNCHANGED <<ownershipVars, format, named, exit>>

\* Standard output is flushed by the exit itself, and nothing looks at the
\* outcome.
Finish ==
  /\ stage = "freeing"
  /\ FreeDocument
  /\ Exits(IF result # 0 THEN 1 ELSE 0)
  /\ arrived' \in IF named THEN {arrived} ELSE {FALSE, result = 0}
  /\ dump' = <<>>
  /\ UNCHANGED <<format, named, result>>

CommandNext ==
  \/ RefuseArguments \/ ParseArguments \/ CannotRead \/ Decoding
  \/ DecodeFailed \/ OpenOutput \/ CannotOpenOutput \/ WriteOutput
  \/ CloseOutput \/ Finish

CommandSpec ==
  CommandInit /\ [][CommandNext]_<<ownershipVars, commandVars>>

-----------------------------------------------------------------------------

(***************************************************************************)
(* What an exporter emits is well formed whatever the document: the CBOR   *)
(* heads announce exactly the items that follow, JSON brackets and commas  *)
(* match, and every line of the CSV has the ten columns of the heading,    *)
(* also for DATA records that were kept undecoded.                         *)
(***************************************************************************)
DumpIsWellFormed ==
  dump # <<>> =>
    CASE format = "json" -> IsJson(dump)
      [] format = "cbor" -> IsOneItem(dump)
      [] format = "csv" -> IsTable(dump)

(***************************************************************************)
(* The exit code of main: 0 means, if a file was named, that all of the    *)
(* export is in it; and on every way out everything sdaf_decode allocated  *)
(* was released.                                                           *)
(***************************************************************************)
ExitTellsTruth ==
  stage = "exited" =>
    /\ held = {}
    /\ exit = 0 /\ format # "none" /\ named => arrived
=============================================================================
