--------------------------- MODULE MCSdafEncoder ---------------------------
(* The encoder on its own: every call it has, with good and bad arguments. *)
EXTENDS SdafEncoder, MCInputs

MCSchemaCalls ==
  {SchemaCall(1, narrow, FALSE), SchemaCall(1, bad, TRUE)}

MCDataCalls ==
  {DataCall(1, narrow, 1, "periodic", "none", FALSE),
   DataCall(1, narrow, 1, "stamped", "none", TRUE),
   DataCall(1, narrow, 1, "periodic", "numeric", FALSE),
   DataCall(1, narrow, 4, "none", "none", FALSE),
   DataCall(1, narrow, 4, "periodic", "none", FALSE),
   DataCall(1, narrow, 2, "periodic", "none", FALSE),
   DataCall(0, narrow, 1, "periodic", "none", FALSE)}

MCTextCalls ==
  {[TextCall(0, 0, 0, TRUE) EXCEPT !.values = <<>>], TextCall(1, 0, 2, FALSE)}

MCBlobCalls ==
  {BlobCall(3, 5, "none", FALSE), BlobCall(3, 5, "zstd", FALSE),
   BlobCall(3, 5, "numeric", FALSE)}

MCNoteCalls == {Plain(<<x>>, TRUE)}
MCPrivateCalls == {Plain(<<>>, FALSE)}
MCStrayEntries == {Entry(2, 0, 1, 0)}
=============================================================================
