------------------------- MODULE MCMutationExecutor -------------------------
(* Two keys, two payloads: each payload derives one of the keys.           *)
EXTENDS MutationExecutor, TLC

CONSTANTS k1, k2, p1, p2

MCDerivedKey == (p1 :> k1) @@ (p2 :> k2)

=============================================================================
