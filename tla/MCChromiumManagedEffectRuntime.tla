-------------------- MODULE MCChromiumManagedEffectRuntime --------------------
(* Lanes compete for projections, for the one place among tracked lanes or *)
(* pending effects that is left, and for request references.               *)
EXTENDS ChromiumManagedEffectRuntime, TLC

MCGeneration == 1..2

Symmetry == Permutations(LaneRef) \union Permutations(Projection)
                \union Permutations(RequestRef)

=============================================================================
