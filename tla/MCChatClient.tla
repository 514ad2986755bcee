---------------------------- MODULE MCChatClient ----------------------------
(* ChatClient has no constants and finitely many states: TLC checks all of  *)
(* them.                                                                     *)
EXTENDS ChatClient
=============================================================================
