-------------------------- MODULE MCPollDispatcher --------------------------
(* Small instance of PollDispatcher: three descriptors, so that the element  *)
(* removed can be the first, the middle one, the last and the only one.      *)
EXTENDS PollDispatcher

(* Idle, writable, and reset by the peer.                                    *)
MCConditions == {{}, {"out"}, {"in", "out", "rdhup", "hup"}}

=============================================================================
