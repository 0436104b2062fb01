----------------------------- MODULE MCSetGlob -----------------------------
(* SetGlob with three goroutines and one level of nesting. *)
EXTENDS SetGlob
=============================================================================
