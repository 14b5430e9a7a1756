--------------------------- MODULE MCRoundEngine ---------------------------
(* Small instances of RoundEngine. Runners are alike, and so are teams and  *)
(* services: no action compares two of them.                                *)
EXTENDS RoundEngine, TLC

Alike == Permutations(Team) \cup Permutations(Runner)

=============================================================================
