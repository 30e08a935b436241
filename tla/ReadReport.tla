----------------------------- MODULE ReadReport ----------------------------
(***************************************************************************)
(* The read reports of rtmp.c: the client counts the audio and video it    *)
(* gets in 32 bits and tells the server when UPDATE_FREQUENCY more have    *)
(* come in.  A report that could not be sent is tried again with the next  *)
(* message.  Widths are scaled: W is 2^32 and F is 2^20 in the code.       *)
(***************************************************************************)
EXTENDS Naturals

CONSTANTS
    W,                      \* values of a uint32_t
    F,                      \* UPDATE_FREQUENCY
    Sizes                   \* payloads of messages, all below F

VARIABLES
    nbytes, nbytes_update,  \* struct _rtmp, uint32_t both
    since,                  \* payload since the last report, up to Much
    asked                   \* the last message had a report sent, or tried

vars == <<nbytes, nbytes_update, since, asked>>

Much == 2 * F               \* bound: more than this is not told apart
AtMost(n) == IF n < Much THEN n ELSE Much

Init == nbytes = 0 /\ nbytes_update = 0 /\ since = 0 /\ asked = FALSE

(* rtmp_send either sends the report or is refused (EAGAIN)                *)
send_read_report(n, passed) ==
    /\ asked' = TRUE
    /\ \/ nbytes_update' = n /\ since' = 0
       \/ UNCHANGED nbytes_update /\ since' = passed

(* the comparison of the code: both sides are 32 bits wide                 *)
Due(n) == n >= (nbytes_update + F) % W

rtmp_dispatch(n, passed) ==
    /\ nbytes' = n
    /\ \/ Due(n) /\ send_read_report(n, passed)
       \/ ~Due(n) /\ since' = passed /\ asked' = FALSE /\ UNCHANGED nbytes_update

\* r_audio, r_video
Media == \E sz \in Sizes : rtmp_dispatch((nbytes + sz) % W, AtMost(since + sz))
\* any other message
Other == rtmp_dispatch(nbytes, since)

Next == Media \/ Other

Spec == Init /\ [][Next]_vars

(* "send read updates every 1MB" (rtmp.c:24): when that much came in since *)
(* the last report, the message that brought it has a report sent, or at   *)
(* least tried (rtmp.c:502).                                               *)
EveryMegabyte == since >= F => asked
=============================================================================
