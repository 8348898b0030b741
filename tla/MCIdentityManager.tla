------------------------ MODULE MCIdentityManager ------------------------
(* Instance of IdentityManager for TLC. *)
EXTENDS IdentityManager

MCIds == {"a", "b"}

\* two users in a world without failures, and one whom everything befalls
MCSmooth == [users |-> {"a", "b"}, failures |-> {}, resync |-> FALSE, prompt |-> TRUE]
MCRough == [users |-> {"a"}, failures |-> {"temporary", "permanent", "rpc", "lost"},
            resync |-> TRUE, prompt |-> FALSE]
MCWorlds == {MCSmooth, MCRough}
MCSmoothOnly == {MCSmooth}
===========================================================================
