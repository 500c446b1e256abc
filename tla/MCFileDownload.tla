--------------------------- MODULE MCFileDownload ---------------------------
(* Instances of FileDownload for TLC.                                      *)
EXTENDS FileDownload, TLC

CONSTANTS f, g, h, x, y

\* f and g have a chunk in common, h is the user's.
SharedChunk == f :> <<x, y>> @@ g :> <<y>> @@ h :> <<x>>

\* g repeats a chunk.
RepeatedChunk == f :> <<x>> @@ g :> <<y, y>> @@ h :> <<>>

=============================================================================
