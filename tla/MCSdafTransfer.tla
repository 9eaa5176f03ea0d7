--------------------------- MODULE MCSdafTransfer ---------------------------
(* A careful application, a damaging medium and the decoder together.      *)
EXTENDS SdafTransfer, MCInputs

CarefulSchemas == {SchemaCall(1, narrow, FALSE)}
CarefulDatas ==
  {Lasting(DataCall(1, narrow, 1, "periodic", "none", FALSE), "distant"),
   Spoiling(DataCall(1, narrow, 1, "stamped", "numeric", TRUE)),
   Spoiling(DataCall(1, narrow, 1, "periodic", "none", FALSE))}
CarefulTexts == {TextCall(1, 1, 2, FALSE)}
CarefulBlobs == {BlobCall(3, 4, "zstd", FALSE), BlobCall(3, 5, "none", TRUE)}
CarefulNotes == {Plain(<<>>, TRUE)}
CarefulPrivates == {Plain(<<x>>, FALSE)}
=============================================================================
