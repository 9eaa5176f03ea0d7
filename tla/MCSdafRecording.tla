--------------------------- MODULE MCSdafRecording --------------------------
(* A recorder that keeps the format's rules but does not look at the       *)
(* status of its calls, and a reader that reads while it saves.            *)
EXTENDS SdafRecording, MCInputs

MCSchemaCalls == {SchemaCall(1, narrow, FALSE)}
MCDataCalls == 
  {DataCall(1, narrow, 1, "periodic", "none", TRUE),
   Lasting(DataCall(1, narrow, 1, "periodic", "none", TRUE), "overflow")}
MCNoteCalls == {Plain(<<>>, TRUE)}
=============================================================================
