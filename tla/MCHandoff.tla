------------------------------- MODULE MCHandoff -------------------------------
(* Handoff with a few events: enough for a text, an answer and an event that  *)
(* carries none, in every order, and for events after the stop event.         *)
EXTENDS Handoff
=============================================================================
