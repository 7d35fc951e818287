-------------------------- MODULE MCFastClassifier --------------------------
(* FastClassifier on a small instance. *)
EXTENDS FastClassifier
=============================================================================
