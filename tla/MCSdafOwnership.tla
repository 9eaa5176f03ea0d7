--------------------------- MODULE MCSdafOwnership ---------------------------
(* A library client that decodes, and releases, document after document.   *)
EXTENDS SdafOwnership
=============================================================================
