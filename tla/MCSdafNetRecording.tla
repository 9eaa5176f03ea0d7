------------------------ MODULE MCSdafNetRecording -------------------------
(* A .NET writer and a .NET reader of the file it is writing.              *)
EXTENDS SdafNetRecording, MCInputs

\* The writer looks the schema up itself.
NetData(c) == [f \in DOMAIN c \ {"schema"} |-> c[f]]

Sample == NetData(DataCall(1, narrow, 1, "periodic", "none", FALSE))

MCSchemaCalls == {SchemaCall(1, narrow, FALSE)}
\* Samples that both sides take, two that only the writer does, and one that
\* does not fit the schema.
MCDataCalls ==
  {Sample, Spoiling([Sample EXCEPT !.trailer = TRUE]), Lasting(Sample, "distant"),
   NetData(DataCall(1, wide, 1, "periodic", "none", FALSE))}
\* Texts and items without content: their records are headers and nothing else.
MCTextCalls == {[TextCall(1, 1, 2, FALSE) EXCEPT !.values = <<>>]}
MCBlobCalls ==
  {[BlobCall(3, i, "none", FALSE) EXCEPT !.values = <<>>] : i \in {4, 5}}
\* A note that is longer than the reader takes.
MCNoteCalls == {Plain(<<x>>, FALSE)}
\* The record whose trailer may be missing.
MCPrivateCalls == {Plain(<<x>>, TRUE)}
=============================================================================
