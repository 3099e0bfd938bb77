--------------------------- MODULE MCWriterQueue ---------------------------
(* Instances of WriterQueue for TLC. *)
EXTENDS WriterQueue

CONSTANTS r1, r2, r3, b1, b2, b3, b4

\* Two chunks: one longer than a micro batch of two, one short.
MCChunks == {<<b1, b2, b3>>, <<b4>>}
=============================================================================
