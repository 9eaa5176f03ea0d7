----------------------------- MODULE RecordLog -----------------------------
(***************************************************************************)
(* What SDAF promises to whoever records and reads: a log of records that  *)
(* only grows, and readers that see the beginning of it.  A reader takes   *)
(* the records in order, one after the other, and never one that is not    *)
(* there; it may stop anywhere, and start again.                           *)
(***************************************************************************)
EXTENDS Naturals, Sequences

VARIABLES
  log,   \* the records that were written from the first byte to the last
  view   \* the records a reader has been given

logVars == <<log, view>>

LogInit == log = <<>> /\ view = <<>>

\* One record is added; the ones before it are as they were.
Write ==
  /\ Len(log') = Len(log) + 1
  /\ \A i \in 1 .. Len(log) : log'[i] = log[i]
  /\ UNCHANGED view

Take ==
  /\ Len(view) < Len(log)
  /\ view' = Append(view, log[Len(view) + 1])
  /\ UNCHANGED log

Restart == view' = <<>> /\ UNCHANGED log

LogNext == Write \/ Take \/ Restart

LogSpec == LogInit /\ [][LogNext]_logVars
=============================================================================
