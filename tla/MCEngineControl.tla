------------------------- MODULE MCEngineControl --------------------------
(* Definitions for model-checking EngineControl with TLC. *)
EXTENDS EngineControl, TLC

\* The goroutines that serve requests differ in nothing but their name.
Alike == Permutations(Request)

=============================================================================
