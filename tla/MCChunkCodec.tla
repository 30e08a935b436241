---------------------------- MODULE MCChunkCodec ---------------------------
(* ChunkCodec for TLC: a channel of each of the three forms, messages of   *)
(* a full chunk and a shorter one, timestamps of both forms.               *)
EXTENDS ChunkCodec
=============================================================================
