---------------------------- MODULE MCChatClient ----------------------------
(* Instances of ChatClient for TLC. *)
EXTENDS ChatClient

CONSTANTS ann, red

MCNames  == {ann}
MCColors == {red}

=============================================================================
