--------------------------- MODULE MCChatServer ---------------------------
(* Small instances of ChatServer: two descriptors and three connections, so  *)
(* that the third may get the descriptor of a client that the second one's   *)
(* event has closed, before the batch's event for that client is handled.    *)
EXTENDS ChatServer

CONSTANTS a, b, main, blue

MCFds == {a, b}
MCNames == {main, blue}
MCMainOnly == {main}

=============================================================================
