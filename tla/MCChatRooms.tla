---------------------------- MODULE MCChatRooms ----------------------------
(* Small instance of ChatRooms: four clients, the main room and two others. *)
EXTENDS ChatRooms, TLC

CONSTANTS a, b, c, d, main, blue, green

MCFds == {a, b, c, d}
MCNames == {main, blue, green}

(* Descriptors are interchangeable, and so are the rooms people create.      *)
MCSymmetry == Permutations(MCFds) \cup Permutations({blue, green})

=============================================================================
