----------------------------- MODULE MCEvalBatch -----------------------------
(* EvalBatch for TLC: the limits of the requests. *)
EXTENDS EvalBatch

\* Refused, nothing can run, and fewer permits than questions.
MCLimits == {-1, 0, 2}
=============================================================================
