--------------------------- MODULE MCChatSummary ---------------------------
(* Small instances of ChatSummary for TLC.                                 *)
EXTENDS ChatSummary
=============================================================================
