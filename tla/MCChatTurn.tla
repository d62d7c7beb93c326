------------------------------ MODULE MCChatTurn ------------------------------
(* Instances of ChatTurn for TLC. *)
EXTENDS ChatTurn

=============================================================================
