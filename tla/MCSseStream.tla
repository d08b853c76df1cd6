----------------------------- MODULE MCSseStream -----------------------------
(* One consumer that keeps asking and one that may ask or not, now and then; *)
(* three frames, so that an error can precede a message and a close.         *)
EXTENDS SseStream

CONSTANTS k1, k2
=============================================================================
