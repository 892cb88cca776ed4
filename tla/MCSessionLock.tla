---------------------------- MODULE MCSessionLock ----------------------------
(* SessionLock with small sets of requests and sessions for TLC. *)
EXTENDS SessionLock, TLC

\* Requests are interchangeable, and so are sessions: safety runs only.
Symmetry == Permutations(Requests) \union Permutations(Sessions)
=============================================================================
