----------------------- MODULE MCReconciliationEngine -----------------------
(* How the provider's documents may change during a run, and symmetry.     *)
EXTENDS ReconciliationEngine, TLC

(* The query index loses or regains a document, an anchor becomes known.   *)
Settling == {<<"posted", "dropped">>, <<"dropped", "posted">>, <<"unknown", "draft">>}

(* Only the last of these, for the larger runs.                            *)
Learning == {<<"unknown", "draft">>}

(* Intents and workers are interchangeable: nothing compares them, and the *)
(* choice of the next item is by number.                                   *)
Symmetry == Permutations(Intents) \cup Permutations(Workers)

=============================================================================
