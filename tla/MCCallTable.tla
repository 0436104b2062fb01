---------------------------- MODULE MCCallTable ----------------------------
(* CallTable with seven slots, a frequency of two, and small shyness. *)
EXTENDS CallTable
=============================================================================
