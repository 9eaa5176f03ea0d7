--------------------------- MODULE MCSdafCommand ---------------------------
(* The command line tool on documents of up to two records. *)
EXTENDS SdafCommand
=============================================================================
