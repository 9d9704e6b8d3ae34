------------------------- MODULE MCEpollDispatcher --------------------------
(* Small instance of EpollDispatcher: three descriptors and batches of one,  *)
(* so that more are ready than a batch holds.                                *)
EXTENDS EpollDispatcher

(* Idle, writable, and half-closed by the peer.                              *)
MCConditions == {{}, {"out"}, {"in", "out", "rdhup"}}

=============================================================================
