--------------------------- MODULE MCOutputQueue ---------------------------
(* Small instance of OutputQueue.  Messages may be larger than the write     *)
(* budget, the socket buffer and the queue, so that partial sends, a spent   *)
(* budget, EAGAIN and overflow all occur, alone and one after the other.     *)
EXTENDS OutputQueue

(* The queue and the budget can be exceeded, and more than once.             *)
ASSUME MCBoundsReachTheLimits ==
  MaxAccepted > MAX_PENDING_OUTPUT_BYTES + MAX_BYTES_WRITTEN_PER_POLL

=============================================================================
