--------------------------- MODULE MCSdafReaders ---------------------------
(* Both readers on the bytes of a careless C encoder.                      *)
EXTENDS SdafReaders, MCInputs

MCSchemaCalls == {SchemaCall(1, narrow, FALSE), SchemaCall(1, wide, TRUE)}
MCDataCalls ==
  {DataCall(1, wide, 1, "periodic", "none", FALSE),
   DataCall(2, narrow, 4, "none", "zstd", FALSE),
   Wrapping(DataCall(1, narrow, 1, "periodic", "zstd", FALSE)),
   Spoiling(DataCall(1, narrow, 1, "periodic", "none", FALSE)),
   Lasting(DataCall(1, narrow, 1, "periodic", "none", FALSE), "distant"),
   Lasting(DataCall(1, narrow, 1, "periodic", "none", FALSE), "overflow")}
MCTextCalls == {TextCall(1, 1, 3, FALSE)}
\* One item without content, so that three items fit.
MCBlobCalls ==
  {[BlobCall(3, 4, "none", FALSE) EXCEPT !.values = <<>>],
   BlobCall(3, 5, "zstd", FALSE)}
MCNoteCalls == {}
MCPrivateCalls == {}
MCStrayEntries == {Entry(1, 0, 3, 4)}
=============================================================================
