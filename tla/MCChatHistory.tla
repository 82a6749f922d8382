----------------------------- MODULE MCChatHistory -----------------------------
(* TLC instance of ChatHistory: two tabs on a chat of one question and its     *)
(* answer, room for another question and answer, and one more answer.          *)
EXTENDS ChatHistory
CONSTANTS t1, t2
=============================================================================
