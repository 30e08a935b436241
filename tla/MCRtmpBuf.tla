----------------------------- MODULE MCRtmpBuf ------------------------------
(* RtmpBuf for TLC, with the proportions of the code's sizes at a smaller  *)
(* scale: handshake 21 (3073), default chunk 16 (128).  RTMP_HDR_MAX_SZ is *)
(* as it is, and so are the lengths of headers: 1, 4, 8 or 12, and up to 2 *)
(* more for the channel.                                                   *)
EXTENDS RtmpBuf
=============================================================================
