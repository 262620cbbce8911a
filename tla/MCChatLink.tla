------------------------------ MODULE MCChatLink ------------------------------
(* Small instances of ChatLink for TLC.                                     *)
EXTENDS ChatLink, TLC
=============================================================================
