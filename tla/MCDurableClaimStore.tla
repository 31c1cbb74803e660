------------------------ MODULE MCDurableClaimStore ------------------------
(* Two processes that compete for keys in a table with one place.          *)
EXTENDS DurableClaimStore, TLC

Symmetry == Permutations(Workers) \cup Permutations(Payloads) \cup Permutations(Keys)
=============================================================================
