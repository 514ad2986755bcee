-------------------------- MODULE MCResponseTimer --------------------------
(* ChatClient over any backend, with its response deadline.                *)
EXTENDS ResponseTimer
=============================================================================
