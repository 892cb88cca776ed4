---------------------------- MODULE MCChatStream -----------------------------
(* ChatStream with a few interchangeable requests for TLC. *)
EXTENDS ChatStream, TLC

\* Requests are interchangeable: safety runs only.
Symmetry == Permutations(Requests)
=============================================================================
